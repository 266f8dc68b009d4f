-------------------------------- MODULE Loops --------------------------------
(***************************************************************************)
(* Induction and loops.  A loop of the code over the first n elements of   *)
(* something is modelled as the function of what it has computed after i   *)
(* of them, f[i \in 0 .. n] == IF i = 0 THEN base ELSE step of f[i - 1].   *)
(* That there is such a function, and what holds of all its values, follow *)
(* by induction, which is stated here for sets of numbers.                 *)
(***************************************************************************)
EXTENDS Integers, WellFoundedInduction, TLAPS

\* What holds of 0 and of the successor of every number of which it holds,
\* holds of every number.
LEMMA Induction ==
  ASSUME NEW S, 0 \in S, \A n \in Nat : n \in S => n + 1 \in S
  PROVE  Nat \subseteq S
<1>. SUFFICES ASSUME Nat \ S # {} PROVE FALSE
  OBVIOUS
<1>. DEFINE R == OpToRel(<, Nat)
            T == Nat \ S
<1>1. PICK x \in T : \A y \in T : ~ (<<y, x>> \in R)
  <2>1. IsWellFoundedOn(R, Nat)
    BY NatLessThanWellFounded
  <2>. HIDE DEF R
  <2>. QED
    BY <2>1, WFMin
<1>2. x \in Nat /\ x # 0 /\ x - 1 \in Nat /\ x - 1 \in S
  <2>1. x \in Nat /\ x # 0
    BY <1>1
  <2>2. x - 1 \in Nat
    BY <2>1
  <2>3. <<x - 1, x>> \in R
    BY <2>1, <2>2 DEF OpToRel
  <2>. QED
    BY <2>1, <2>2, <2>3, <1>1
<1>3. (x - 1) + 1 \in S /\ (x - 1) + 1 = x
  BY <1>2
<1>. QED
  BY <1>3

\* What the body of a loop makes of V, and what n rounds of it make of base.
Bodies(V, n) == [V \X (1 .. n) -> V]
Loop(f, V, base, step, n) ==
    /\ f \in [0 .. n -> V]
    /\ f[0] = base
    /\ \A i \in 1 .. n : f[i] = step[<<f[i - 1], i>>]

\* A loop whose body is defined for what it is applied to computes something.
LEMMA LoopDefined ==
  ASSUME NEW V, NEW base \in V, NEW n \in Nat, NEW step \in Bodies(V, n)
  PROVE  \E f : Loop(f, V, base, step, n)
<1>. DEFINE S == {k \in Nat : k <= n => \E f : Loop(f, V, base, step, k)}
<1>. USE DEF Bodies, Loop
<1>1. 0 \in S
  <2>1. Loop([i \in 0 .. 0 |-> base], V, base, step, 0)
    OBVIOUS
  <2>. QED
    BY <2>1
<1>2. ASSUME NEW k \in Nat, k \in S PROVE k + 1 \in S
  <2>. SUFFICES ASSUME k + 1 <= n
                PROVE  \E f : Loop(f, V, base, step, k + 1)
    BY <1>2
  <2>1. PICK f : Loop(f, V, base, step, k)
    BY <1>2
  <2>2. /\ f[k] \in V /\ k + 1 \in 1 .. n
        /\ step[<<f[k], k + 1>>] \in V
    BY <2>1
  <2>3. PICK g : g = [i \in 0 .. k + 1 |-> IF i = k + 1 THEN step[<<f[k], k + 1>>]
                                                         ELSE f[i]]
    OBVIOUS
  <2>4. g \in [0 .. k + 1 -> V]
    BY <2>1, <2>2, <2>3
  <2>5. g[0] = base
    BY <2>1, <2>3
  <2>6. ASSUME NEW i \in 1 .. k + 1 PROVE g[i] = step[<<g[i - 1], i>>]
    <3>1. CASE i = k + 1
      <4>1. /\ i - 1 = k /\ k \in 0 .. k + 1 /\ k # k + 1
            /\ k + 1 \in 0 .. k + 1
        BY <3>1
      <4>2. g[k] = f[k] /\ g[k + 1] = step[<<f[k], k + 1>>]
        BY <4>1, <2>3
      <4>. QED
        BY <3>1, <4>1, <4>2
    <3>2. CASE i # k + 1
      <4>1. i \in 1 .. k /\ i - 1 \in 0 .. k
        BY <3>2
      <4>2. g[i] = f[i] /\ g[i - 1] = f[i - 1]
        BY <4>1, <2>3
      <4>. QED
        BY <4>1, <4>2, <2>1
    <3>. QED
      BY <3>1, <3>2
  <2>. QED
    BY <2>4, <2>5, <2>6
<1>3. n \in S
  <2>. HIDE DEF S
  <2>. QED
    BY <1>1, <1>2, Induction
<1>. QED
  BY <1>3

\* A set of numbers that is not empty has a least one.
LEMMA LeastNumber ==
  ASSUME NEW T, T \subseteq Nat, T # {}
  PROVE  \E x \in T : \A y \in T : x <= y
<1>. SUFFICES ASSUME \A x \in T : \E y \in T : y < x PROVE FALSE
  OBVIOUS
<1>. DEFINE S == {n \in Nat : \A k \in 0 .. n : k \notin T}
<1>1. 0 \in S
  OBVIOUS
<1>2. ASSUME NEW n \in Nat, n \in S PROVE n + 1 \in S
  <2>1. n + 1 \notin T
    <3>. SUFFICES ASSUME n + 1 \in T PROVE FALSE
      OBVIOUS
    <3>1. PICK y \in T : y < n + 1
      OBVIOUS
    <3>2. y \in 0 .. n
      BY <3>1
    <3>. QED
      BY <3>2, <1>2
  <2>. QED
    BY <2>1, <1>2
<1>3. Nat \subseteq S
  <2>. HIDE DEF S
  <2>. QED
    BY <1>1, <1>2, Induction
<1>4. PICK x \in T : TRUE
  OBVIOUS
<1>5. x \in S
  BY <1>3
<1>. QED
  BY <1>5

\* A function f on D that is given on Stop, and elsewhere by its value at what
\* before says, which has a smaller measure.
Steps(D, V) == [D \X V -> V]
Recursion(f, D, V, Stop, base, before, step) ==
    /\ f \in [D -> V]
    /\ \A x \in Stop : f[x] = base[x]
    /\ \A x \in D \ Stop : f[x] = step[<<x, f[before[x]]>>]

\* There is such a function.
LEMMA RecursionDefined ==
  ASSUME NEW D, NEW V, NEW Stop \in SUBSET D, NEW measure \in [D -> Nat],
         NEW base \in [D -> V], NEW before \in [D -> D],
         NEW step \in Steps(D, V),
         \A x \in D \ Stop : measure[before[x]] < measure[x]
  PROVE  \E f : Recursion(f, D, V, Stop, base, before, step)
<1>. DEFINE Upto(f, n) ==
              /\ f \in [D -> V]
              /\ \A x \in Stop : f[x] = base[x]
              /\ \A x \in D \ Stop :
                    measure[x] <= n => f[x] = step[<<x, f[before[x]]>>]
            S == {n \in Nat : \E f : Upto(f, n)}
<1>. USE DEF Steps
<1>1. 0 \in S
  <2>1. Upto(base, 0)
    OBVIOUS
  <2>. QED
    BY <2>1
<1>2. ASSUME NEW n \in Nat, n \in S PROVE n + 1 \in S
  <2>1. PICK f : Upto(f, n)
    BY <1>2
  <2>2. PICK g : g = [x \in D |-> IF x \in Stop THEN base[x]
                                  ELSE step[<<x, f[before[x]]>>]]
    OBVIOUS
  <2>3. g \in [D -> V]
    BY <2>1, <2>2
  <2>4. \A x \in D : measure[x] <= n => g[x] = f[x]
    BY <2>1, <2>2
  <2>5. ASSUME NEW x \in D \ Stop, measure[x] <= n + 1
        PROVE  g[x] = step[<<x, g[before[x]]>>]
    <3>1. before[x] \in D /\ measure[before[x]] <= n
      BY <2>5
    <3>2. g[before[x]] = f[before[x]]
      BY <3>1, <2>4
    <3>. QED
      BY <3>2, <2>2
  <2>6. Upto(g, n + 1)
    BY <2>2, <2>3, <2>5
  <2>. QED
    BY <2>6
<1>3. Nat \subseteq S
  <2>. HIDE DEF S
  <2>. QED
    BY <1>1, <1>2, Induction
<1>4. ASSUME NEW n \in Nat
      PROVE  \A f, g : Upto(f, n) /\ Upto(g, n + 1) =>
                \A x \in D : measure[x] <= n => f[x] = g[x]
  <2>. DEFINE Same(k) == \A f, g : Upto(f, n) /\ Upto(g, n + 1) =>
                            \A x \in D : measure[x] <= k => f[x] = g[x]
              A == {k \in Nat : k <= n => Same(k)}
  <2>1. 0 \in A
    BY DEF Upto
  <2>2. ASSUME NEW k \in Nat, k \in A PROVE k + 1 \in A
    <3>. SUFFICES ASSUME k + 1 <= n, NEW f, NEW g, Upto(f, n), Upto(g, n + 1),
                         NEW x \in D, measure[x] <= k + 1
                  PROVE  f[x] = g[x]
      OBVIOUS
    <3>1. CASE x \in Stop
      BY <3>1
    <3>2. CASE x \notin Stop
      <4>1. before[x] \in D /\ measure[before[x]] <= k
        BY <3>2
      <4>2. f[before[x]] = g[before[x]]
        BY <4>1, <2>2
      <4>3. measure[x] <= n /\ measure[x] <= n + 1
        OBVIOUS
      <4>. QED
        BY <4>2, <4>3, <3>2
    <3>. QED
      BY <3>1, <3>2
  <2>3. Nat \subseteq A
    <3>. HIDE DEF A
    <3>. QED
      BY <2>1, <2>2, Induction
  <2>. QED
    BY <2>3
<1>. DEFINE at == [n \in Nat |-> CHOOSE f : Upto(f, n)]
            f == [x \in D |-> at[measure[x]][x]]
<1>5. \A n \in Nat : Upto(at[n], n)
  <2>. SUFFICES ASSUME NEW n \in Nat PROVE Upto(at[n], n)
    OBVIOUS
  <2>1. \E g : Upto(g, n)
    BY <1>3
  <2>2. at[n] = CHOOSE g : Upto(g, n)
    OBVIOUS
  <2>. HIDE DEF Upto, at
  <2>. QED
    BY <2>1, <2>2
<1>6. ASSUME NEW n \in Nat, NEW m \in Nat, n <= m
      PROVE  \A x \in D : measure[x] <= n => at[n][x] = at[m][x]
  <2>. DEFINE A == {k \in Nat : \A x \in D :
                        measure[x] <= n => at[n][x] = at[n + k][x]}
  <2>. HIDE DEF at, Upto
  <2>1. 0 \in A
    OBVIOUS
  <2>2. ASSUME NEW k \in Nat, k \in A PROVE k + 1 \in A
    <3>1. /\ Upto(at[n + k], n + k) /\ Upto(at[n + k + 1], n + k + 1)
          /\ n + k \in Nat /\ n + (k + 1) = n + k + 1
      BY <1>5
    <3>2. \A x \in D : measure[x] <= n + k => at[n + k][x] = at[n + k + 1][x]
      BY <3>1, <1>4
    <3>3. \A x \in D : measure[x] <= n => measure[x] <= n + k
      OBVIOUS
    <3>. QED
      BY <3>1, <3>2, <3>3, <2>2
  <2>3. Nat \subseteq A
    <3>. HIDE DEF A
    <3>. QED
      BY <2>1, <2>2, Induction
  <2>. HIDE DEF A
  <2>4. m - n \in Nat /\ n + (m - n) = m
    BY <1>6
  <2>5. m - n \in A
    BY <2>3, <2>4
  <2>. QED
    BY <2>4, <2>5 DEF A
<1>7. f \in [D -> V]
  BY <1>5
<1>8. ASSUME NEW x \in Stop PROVE f[x] = base[x]
  BY <1>5
<1>9. ASSUME NEW x \in D \ Stop PROVE f[x] = step[<<x, f[before[x]]>>]
  <2>1. at[measure[x]][x] = step[<<x, at[measure[x]][before[x]]>>]
    <3>1. measure[x] \in Nat /\ measure[x] <= measure[x]
      OBVIOUS
    <3>2. Upto(at[measure[x]], measure[x])
      BY <3>1, <1>5
    <3>. HIDE DEF at
    <3>. QED
      BY <3>1, <3>2
  <2>2. at[measure[before[x]]][before[x]] = at[measure[x]][before[x]]
    <3>1. measure[before[x]] \in Nat /\ measure[x] \in Nat
          /\ measure[before[x]] <= measure[x] /\ before[x] \in D
      OBVIOUS
    <3>. HIDE DEF at
    <3>. QED
      BY <3>1, <1>6
  <2>. QED
    BY <2>1, <2>2
<1>. QED
  <2>. HIDE DEF f
  <2>. QED
    BY <1>7, <1>8, <1>9 DEF Recursion
=============================================================================
