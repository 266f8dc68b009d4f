--------------------------- MODULE TransferProofs ---------------------------
(***************************************************************************)
(* Proofs about Transfer and Codec, for any messages, any fields of a      *)
(* newer program, and datagrams that are cut anywhere.                     *)
(***************************************************************************)
EXTENDS Transfer, Loops, SequenceTheorems

-----------------------------------------------------------------------------
(* The buffer                                                              *)

\* The buffer grows to what is needed, by doubling: hence to less than twice
\* that.
LEMMA Reserved ==
  ASSUME NEW cap \in Nat, NEW len \in Nat, NEW extra \in Nat
  PROVE  /\ Reserve(cap, len, extra) \in Nat
         /\ len + extra <= Reserve(cap, len, extra)
         /\ \/ Reserve(cap, len, extra) = cap
            \/ Reserve(cap, len, extra) <= 128
            \/ Reserve(cap, len, extra) < 2 * (len + extra)
<1>. DEFINE N == len + extra
            G(g) == g = [c \in Nat |-> IF c >= N THEN c ELSE g[2 * c]]
<1>1. \E g : G(g) /\ g \in [Nat -> Nat]
  <2>. DEFINE Stop == {c \in Nat : c >= N \/ c = 0}
              measure == [c \in Nat |-> IF c >= N THEN 0 ELSE N - c]
              base == [c \in Nat |-> c]
              before == [c \in Nat |-> 2 * c]
              step == [p \in Nat \X Nat |-> p[2]]
  <2>1. /\ Stop \in SUBSET Nat /\ base \in [Nat -> Nat]
        /\ before \in [Nat -> Nat] /\ step \in Steps(Nat, Nat)
    BY DEF Steps
  <2>2. measure \in [Nat -> Nat]
    OBVIOUS
  <2>3. \A c \in Nat \ Stop : measure[before[c]] < measure[c]
    OBVIOUS
  <2>4. PICK g : Recursion(g, Nat, Nat, Stop, base, before, step)
    <3>. HIDE DEF Stop, measure, base, before, step
    <3>. QED
      BY <2>1, <2>2, <2>3, RecursionDefined
  <2>5. ASSUME NEW c \in Nat PROVE g[c] = IF c >= N THEN c ELSE g[2 * c]
    <3>1. CASE c \in Stop
      BY <2>4, <3>1 DEF Recursion
    <3>2. CASE c \notin Stop
      <4>1. g[c] = step[<<c, g[2 * c]>>]
        BY <2>4, <3>2 DEF Recursion
      <4>2. 2 * c \in Nat /\ g[2 * c] \in Nat
        BY <2>4 DEF Recursion
      <4>. QED
        BY <4>1, <4>2, <3>2
    <3>. QED
      BY <3>1, <3>2
  <2>. QED
    BY <2>4, <2>5 DEF Recursion
<1>. DEFINE grown == CHOOSE g : G(g)
<1>2. G(grown)
  BY <1>1
<1>. HIDE DEF grown
<1>3. \A c \in Nat : grown[c] = IF c >= N THEN c ELSE grown[2 * c]
  BY <1>2
<1>. DEFINE Good(c) == grown[c] \in Nat /\ grown[c] >= N
                       /\ (grown[c] = c \/ grown[c] < 2 * N)
            S == {k \in Nat : \A c \in Nat \ {0} : c + k >= N => Good(c)}
<1>4. 0 \in S
  BY <1>3
<1>5. ASSUME NEW k \in Nat, k \in S PROVE k + 1 \in S
  <2>. SUFFICES ASSUME NEW c \in Nat \ {0}, c + (k + 1) >= N PROVE Good(c)
    OBVIOUS
  <2>1. CASE c >= N
    BY <2>1, <1>3
  <2>2. CASE c < N
    <3>1. 2 * c \in Nat \ {0} /\ 2 * c + k >= N /\ 2 * c < 2 * N
      BY <2>2
    <3>2. Good(2 * c)
      BY <3>1, <1>5
    <3>3. grown[c] = grown[2 * c]
      BY <2>2, <1>3
    <3>. QED
      BY <3>1, <3>2, <3>3
  <2>. QED
    BY <2>1, <2>2
<1>6. N \in S
  <2>. HIDE DEF S
  <2>. QED
    BY <1>4, <1>5, Induction
<1>7. Good(128) /\ (cap # 0 => Good(cap))
  BY <1>6
<1>8. Reserve(cap, len, extra) =
        IF N <= cap THEN cap ELSE grown[IF cap = 0 THEN 128 ELSE cap]
  BY DEF Reserve, grown
<1>9. CASE N <= cap
  BY <1>8, <1>9
<1>10. CASE N > cap /\ cap = 0
  BY <1>8, <1>10, <1>7
<1>11. CASE N > cap /\ cap # 0
  <2>1. Reserve(cap, len, extra) = grown[cap]
    BY <1>8, <1>11
  <2>. QED
    BY <2>1, <1>11, <1>7
<1>. QED
  BY <1>9, <1>10, <1>11

-----------------------------------------------------------------------------
(* Sequences of sequences, put one after the other                         *)

LEMMA Assoc ==
  ASSUME NEW X
  PROVE  \A a, b, c \in Seq(X) : (a \o b) \o c = a \o (b \o c)
  BY ConcatAssociative

\* One element more.
LEMMA OneMore ==
  ASSUME NEW X, NEW s \in Seq(X), NEW x \in X
  PROVE  /\ Append(s, x) \in Seq(X) /\ Len(Append(s, x)) = Len(s) + 1
         /\ Append(s, x)[Len(s) + 1] = x
         /\ \A i \in 1 .. Len(s) : Append(s, x)[i] = s[i]
         /\ s \o <<x>> = Append(s, x)
         /\ \A t \in Seq(X) : s \o (<<x>> \o t) = Append(s, x) \o t
<1>1. s \o <<x>> = Append(s, x)
  OBVIOUS
<1>2. ASSUME NEW t \in Seq(X) PROVE s \o (<<x>> \o t) = (s \o <<x>>) \o t
  <2>1. <<x>> \in Seq(X)
    OBVIOUS
  <2>. QED
    BY <2>1, Assoc
<1>. QED
  BY <1>1, <1>2

\* The first k elements.
LEMMA FirstOnes ==
  ASSUME NEW X, NEW s \in Seq(X), NEW k \in 0 .. Len(s)
  PROVE  /\ SubSeq(s, 1, k) \in Seq(X)
         /\ Len(SubSeq(s, 1, k)) = k
         /\ \A i \in 1 .. k : SubSeq(s, 1, k)[i] = s[i]
         /\ k < Len(s) => SubSeq(s, 1, k + 1) = Append(SubSeq(s, 1, k), s[k + 1])
         /\ SubSeq(s, 1, 0) = << >> /\ SubSeq(s, 1, Len(s)) = s
  OBVIOUS

\* The elements from k to l.
LEMMA SomeOnes ==
  ASSUME NEW X, NEW s \in Seq(X), NEW k \in 1 .. Len(s) + 1,
         NEW l \in 0 .. Len(s), k <= l + 1
  PROVE  /\ SubSeq(s, k, l) \in Seq(X)
         /\ Len(SubSeq(s, k, l)) = (l + 1) - k
         /\ \A i \in 1 .. (l + 1) - k : SubSeq(s, k, l)[i] = s[(k - 1) + i]
  OBVIOUS

\* A sequence is its first k elements and the others.
LEMMA CutInTwo ==
  ASSUME NEW X, NEW s \in Seq(X), NEW k \in 0 .. Len(s)
  PROVE  /\ SubSeq(s, 1, k) \in Seq(X) /\ Len(SubSeq(s, 1, k)) = k
         /\ SubSeq(s, k + 1, Len(s)) \in Seq(X)
         /\ Len(SubSeq(s, k + 1, Len(s))) = Len(s) - k
         /\ s = SubSeq(s, 1, k) \o SubSeq(s, k + 1, Len(s))
<1>1. PICK n \in Nat : n = Len(s)
  OBVIOUS
<1>2. PICK a : a = SubSeq(s, 1, k)
  OBVIOUS
<1>3. PICK b : b = SubSeq(s, k + 1, n)
  OBVIOUS
<1>4. a \in Seq(X) /\ Len(a) = k /\ \A i \in 1 .. k : a[i] = s[i]
  BY <1>1, <1>2, FirstOnes
<1>5. /\ b \in Seq(X) /\ Len(b) = n - k
      /\ \A i \in 1 .. n - k : b[i] = s[k + i]
  <2>1. /\ k + 1 \in 1 .. n + 1 /\ n \in 0 .. n /\ k + 1 <= n + 1
        /\ (n + 1) - (k + 1) = n - k /\ (k + 1) - 1 = k
    BY <1>1
  <2>. QED
    BY <1>1, <1>3, <2>1, SomeOnes
<1>6. PICK c : c = a \o b
  OBVIOUS
<1>7. /\ c \in Seq(X) /\ Len(c) = n
      /\ \A i \in 1 .. n : c[i] = s[i]
  <2>1. /\ c \in Seq(X) /\ Len(c) = Len(a) + Len(b)
        /\ \A i \in 1 .. Len(a) + Len(b) :
              c[i] = IF i <= Len(a) THEN a[i] ELSE b[i - Len(a)]
    BY <1>4, <1>5, <1>6, ConcatProperties
  <2>2. Len(a) + Len(b) = n
    BY <1>1, <1>4, <1>5
  <2>3. ASSUME NEW i \in 1 .. n PROVE c[i] = s[i]
    <3>1. CASE i <= k
      BY <2>1, <2>2, <3>1, <1>4
    <3>2. CASE i > k
      <4>1. i - k \in 1 .. n - k /\ k + (i - k) = i /\ ~ (i <= k)
        BY <1>1, <3>2
      <4>2. c[i] = b[i - k]
        BY <2>1, <2>2, <1>4, <4>1
      <4>. QED
        BY <4>1, <4>2, <1>5
    <3>. QED
      BY <3>1, <3>2
  <2>. QED
    BY <2>1, <2>2, <2>3
<1>8. c = s
  BY <1>1, <1>7
<1>. QED
  BY <1>1, <1>2, <1>3, <1>4, <1>5, <1>6, <1>8

LEMMA FlatLoop ==
  ASSUME NEW X, NEW s \in Seq(Seq(X))
  PROVE  \E f : /\ \A i \in 0 .. Len(s) : f[i] \in Seq(X)
                /\ f[0] = << >>
                /\ \A i \in 1 .. Len(s) : f[i] = f[i - 1] \o s[i]
                /\ FlattenSeq(s) = f[Len(s)]
<1>. DEFINE n == Len(s)
            step == [p \in Seq(X) \X (1 .. n) |-> p[1] \o s[p[2]]]
            G(g) == g = [i \in 1 .. n |-> IF i = 1 THEN s[i] ELSE g[i - 1] \o s[i]]
<1>1. n \in Nat /\ \A i \in 1 .. n : s[i] \in Seq(X)
  OBVIOUS
<1>2. PICK f : Loop(f, Seq(X), << >>, step, n)
  <2>1. step \in Bodies(Seq(X), n)
    BY <1>1 DEF Bodies
  <2>2. << >> \in Seq(X)
    OBVIOUS
  <2>. HIDE DEF step
  <2>. QED
    BY <1>1, <2>1, <2>2, LoopDefined
<1>. HIDE DEF n
<1>3. /\ \A i \in 0 .. n : f[i] \in Seq(X)
      /\ f[0] = << >>
      /\ \A i \in 1 .. n : f[i] = f[i - 1] \o s[i]
  <2>1. \A i \in 0 .. n : f[i] \in Seq(X)
    BY <1>2 DEF Loop
  <2>2. ASSUME NEW i \in 1 .. n PROVE f[i] = f[i - 1] \o s[i]
    <3>1. f[i] = step[<<f[i - 1], i>>]
      BY <1>2 DEF Loop
    <3>2. i - 1 \in 0 .. n
      BY <1>1
    <3>3. f[i - 1] \in Seq(X)
      BY <3>2, <2>1
    <3>. QED
      BY <3>1, <3>3
  <2>. QED
    BY <1>2, <2>1, <2>2 DEF Loop
<1>4. CASE n = 0
  <2>1. s = << >> /\ FlattenSeq(s) = s
    BY <1>4 DEF FlattenSeq, n
  <2>. QED
    BY <2>1, <1>3, <1>4 DEF n
<1>5. CASE n # 0
  <2>. DEFINE flatten == CHOOSE g : G(g)
              h == [i \in 1 .. n |-> f[i]]
  <2>1. G(h)
    <3>1. ASSUME NEW i \in 1 .. n
          PROVE  h[i] = IF i = 1 THEN s[i] ELSE h[i - 1] \o s[i]
      <4>1. CASE i = 1
        <5>1. 1 \in 1 .. n /\ 1 - 1 = 0
          BY <4>1
        <5>2. f[1] = f[0] \o s[1] /\ s[1] \in Seq(X)
          BY <5>1, <1>3, <1>1
        <5>3. << >> \o s[1] = s[1]
          BY <5>2
        <5>. QED
          BY <4>1, <5>2, <5>3, <1>3
      <4>2. CASE i # 1
        <5>1. i - 1 \in 1 .. n
          BY <4>2, <1>1
        <5>. QED
          BY <4>2, <5>1, <1>3
      <4>. QED
        BY <4>1, <4>2
    <3>. QED
      BY <3>1
  <2>2. G(flatten)
    <3>. HIDE DEF h, G
    <3>. QED
      BY <2>1
  <2>3. FlattenSeq(s) = flatten[n]
    BY <1>5 DEF FlattenSeq, n
  <2>. HIDE DEF flatten
  <2>. DEFINE S == {k \in Nat : k + 1 <= n => flatten[k + 1] = f[k + 1]}
  <2>4. 0 \in S
    <3>. SUFFICES ASSUME 1 <= n PROVE flatten[1] = f[1]
      OBVIOUS
    <3>1. 1 \in 1 .. n /\ 1 - 1 = 0
      BY <1>1
    <3>2. flatten[1] = s[1] /\ f[1] = << >> \o s[1] /\ s[1] \in Seq(X)
      BY <3>1, <2>2, <1>3, <1>1
    <3>. QED
      BY <3>2
  <2>5. ASSUME NEW k \in Nat, k \in S PROVE k + 1 \in S
    <3>. SUFFICES ASSUME k + 2 <= n PROVE flatten[k + 2] = f[k + 2]
      OBVIOUS
    <3>1. /\ k + 2 \in 1 .. n /\ k + 2 # 1 /\ (k + 2) - 1 = k + 1
          /\ k + 1 <= n
      BY <1>1
    <3>2. flatten[k + 2] = flatten[k + 1] \o s[k + 2]
      BY <2>2, <3>1
    <3>3. f[k + 2] = f[k + 1] \o s[k + 2]
      BY <1>3, <3>1
    <3>. QED
      BY <3>1, <3>2, <3>3, <2>5
  <2>6. n - 1 \in S
    <3>1. n - 1 \in Nat
      BY <1>5, <1>1
    <3>. HIDE DEF S
    <3>. QED
      BY <3>1, <2>4, <2>5, Induction
  <2>7. (n - 1) + 1 = n /\ n <= n
    BY <1>1
  <2>8. FlattenSeq(s) = f[n]
    BY <2>3, <2>6, <2>7
  <2>. QED
    BY <2>8, <1>3 DEF n
<1>. QED
  BY <1>4, <1>5

LEMMA FlatType ==
  ASSUME NEW X, NEW s \in Seq(Seq(X))
  PROVE  FlattenSeq(s) \in Seq(X)
<1>1. Len(s) \in 0 .. Len(s)
  OBVIOUS
<1>. QED
  BY <1>1, FlatLoop

LEMMA FlatEmpty == FlattenSeq(<< >>) = << >>
  BY DEF FlattenSeq

LEMMA FlatAppend ==
  ASSUME NEW X, NEW s \in Seq(Seq(X)), NEW x \in Seq(X)
  PROVE  FlattenSeq(Append(s, x)) = FlattenSeq(s) \o x
<1>. DEFINE t == Append(s, x)
            n == Len(s)
<1>1. /\ t \in Seq(Seq(X)) /\ Len(t) = n + 1 /\ n \in Nat
      /\ \A i \in 1 .. n : t[i] = s[i]
      /\ t[n + 1] = x
  OBVIOUS
<1>2. PICK f : /\ \A i \in 0 .. n : f[i] \in Seq(X)
               /\ f[0] = << >>
               /\ \A i \in 1 .. n : f[i] = f[i - 1] \o s[i]
               /\ FlattenSeq(s) = f[n]
  BY FlatLoop
<1>3. PICK g : /\ \A i \in 0 .. n + 1 : g[i] \in Seq(X)
               /\ g[0] = << >>
               /\ \A i \in 1 .. n + 1 : g[i] = g[i - 1] \o t[i]
               /\ FlattenSeq(t) = g[n + 1]
  <2>. HIDE DEF t, n
  <2>1. \E g : /\ \A i \in 0 .. Len(t) : g[i] \in Seq(X)
               /\ g[0] = << >>
               /\ \A i \in 1 .. Len(t) : g[i] = g[i - 1] \o t[i]
               /\ FlattenSeq(t) = g[Len(t)]
    BY <1>1, FlatLoop
  <2>. QED
    BY <1>1, <2>1
<1>. HIDE DEF t, n
<1>. DEFINE S == {k \in Nat : k <= n => f[k] = g[k]}
<1>4. 0 \in S
  BY <1>2, <1>3
<1>5. ASSUME NEW k \in Nat, k \in S PROVE k + 1 \in S
  <2>. SUFFICES ASSUME k + 1 <= n PROVE f[k + 1] = g[k + 1]
    OBVIOUS
  <2>1. /\ k + 1 \in 1 .. n /\ k + 1 \in 1 .. n + 1 /\ (k + 1) - 1 = k
        /\ k <= n
    BY <1>1
  <2>2. f[k + 1] = f[k] \o s[k + 1]
    BY <2>1, <1>2
  <2>3. g[k + 1] = g[k] \o s[k + 1]
    BY <2>1, <1>3, <1>1
  <2>. QED
    BY <2>1, <2>2, <2>3, <1>5
<1>6. n \in S
  <2>. HIDE DEF S
  <2>. QED
    BY <1>1, <1>4, <1>5, Induction
<1>7. g[n + 1] = g[n] \o t[n + 1]
  <2>1. n + 1 \in 1 .. n + 1 /\ (n + 1) - 1 = n
    BY <1>1
  <2>. QED
    BY <2>1, <1>3
<1>8. FlattenSeq(t) = FlattenSeq(s) \o x
  <2>1. f[n] = g[n]
    BY <1>1, <1>6
  <2>. QED
    BY <2>1, <1>1, <1>2, <1>3, <1>7
<1>. QED
  BY <1>8 DEF t

LEMMA FlatConcat ==
  ASSUME NEW X, NEW s \in Seq(Seq(X)), NEW t \in Seq(Seq(X))
  PROVE  FlattenSeq(s \o t) = FlattenSeq(s) \o FlattenSeq(t)
<1>. DEFINE u(k) == SubSeq(t, 1, k)
            S == {k \in Nat : k <= Len(t) =>
                     FlattenSeq(s \o u(k)) = FlattenSeq(s) \o FlattenSeq(u(k))}
<1>1. 0 \in S
  <2>1. u(0) = << >> /\ s \o << >> = s
    OBVIOUS
  <2>2. FlattenSeq(s) \o << >> = FlattenSeq(s)
    BY FlatType
  <2>. QED
    BY <2>1, <2>2, FlatEmpty
<1>2. ASSUME NEW k \in Nat, k \in S PROVE k + 1 \in S
  <2>. SUFFICES ASSUME k + 1 <= Len(t)
                PROVE  FlattenSeq(s \o u(k + 1))
                          = FlattenSeq(s) \o FlattenSeq(u(k + 1))
    OBVIOUS
  <2>1. PICK x \in Seq(X) : x = t[k + 1]
    OBVIOUS
  <2>2. PICK v \in Seq(Seq(X)) : v = u(k)
    <3>1. k \in 0 .. Len(t)
      OBVIOUS
    <3>. QED
      BY <3>1, FirstOnes
  <2>3. u(k + 1) = Append(v, x)
    BY <2>1, <2>2
  <2>4. s \o Append(v, x) = Append(s \o v, x) /\ s \o v \in Seq(Seq(X))
    OBVIOUS
  <2>5. FlattenSeq(s \o v) = FlattenSeq(s) \o FlattenSeq(v)
    BY <1>2, <2>2
  <2>6. PICK a, b \in Seq(X) : a = FlattenSeq(s) /\ b = FlattenSeq(v)
    BY FlatType
  <2>7. (a \o b) \o x = a \o (b \o x)
    OBVIOUS
  <2>8. FlattenSeq(Append(s \o v, x)) = FlattenSeq(s \o v) \o x
    BY <2>4, FlatAppend
  <2>9. FlattenSeq(Append(v, x)) = FlattenSeq(v) \o x
    BY FlatAppend
  <2>. HIDE DEF u
  <2>. QED
    BY <2>3, <2>4, <2>5, <2>6, <2>7, <2>8, <2>9
<1>3. Len(t) \in S /\ u(Len(t)) = t
  <2>1. Len(t) \in Nat /\ u(Len(t)) = t
    OBVIOUS
  <2>. HIDE DEF S, u
  <2>. QED
    BY <2>1, <1>1, <1>2, Induction
<1>4. Len(t) <= Len(t)
  OBVIOUS
<1>. HIDE DEF u
<1>5. FlattenSeq(s \o u(Len(t))) = FlattenSeq(s) \o FlattenSeq(u(Len(t)))
  BY <1>3, <1>4
<1>. QED
  BY <1>3, <1>5

LEMMA FlatOne ==
  ASSUME NEW X, NEW x \in Seq(X)
  PROVE  FlattenSeq(<<x>>) = x
<1>1. << >> \in Seq(Seq(X)) /\ <<x>> = Append(<< >>, x) /\ << >> \o x = x
  OBVIOUS
<1>. QED
  BY <1>1, FlatAppend, FlatEmpty

-----------------------------------------------------------------------------
(* Varints                                                                 *)

LEMMA Digits128 == \A n \in Nat :
    /\ n \div 128 \in Nat
    /\ n % 128 \in 0 .. 127
    /\ n = (n % 128) + 128 * (n \div 128)
    /\ n >= 128 => n \div 128 < n
  OBVIOUS

LEMMA OneByte == \A b \in 0 .. 255 : <<b>> \in Bytes
  BY DEF Bytes

LEMMA MoreBytes == \A s, t \in Bytes : s \o t \in Bytes
  BY DEF Bytes

\* What is written of a number.
LEMMA VarintWritten ==
  /\ Varint \in [Nat -> Bytes]
  /\ \A n \in Nat :
        Varint[n] = IF n < 128 THEN <<n>>
                    ELSE <<128 + (n % 128)>> \o Varint[n \div 128]
<1>. DEFINE G(g) == g = [n \in Nat |-> IF n < 128 THEN <<n>>
                                  ELSE <<128 + (n % 128)>> \o g[n \div 128]]
            Stop == 0 .. 127
            measure == [n \in Nat |-> n]
            base == [n \in Nat |-> IF n < 128 THEN <<n>> ELSE << >>]
            before == [n \in Nat |-> n \div 128]
            step == [p \in Nat \X Bytes |-> <<128 + (p[1] % 128)>> \o p[2]]
<1>1. /\ Stop \in SUBSET Nat /\ measure \in [Nat -> Nat]
      /\ \A n \in Nat \ Stop : measure[before[n]] < measure[n]
  BY Digits128
<1>2. before \in [Nat -> Nat]
  BY Digits128
<1>3. base \in [Nat -> Bytes]
  <2>1. << >> \in Bytes
    BY DEF Bytes
  <2>2. \A n \in Nat : n < 128 => n \in 0 .. 255
    OBVIOUS
  <2>. QED
    BY <2>1, <2>2, OneByte
<1>4. step \in Steps(Nat, Bytes)
  <2>1. ASSUME NEW p \in Nat \X Bytes
        PROVE  <<128 + (p[1] % 128)>> \o p[2] \in Bytes
    <3>1. p[1] % 128 \in 0 .. 127 /\ p[2] \in Bytes
      BY Digits128
    <3>2. 128 + (p[1] % 128) \in 0 .. 255
      BY <3>1
    <3>3. <<128 + (p[1] % 128)>> \in Bytes
      BY <3>2, OneByte
    <3>. QED
      BY <3>1, <3>3, MoreBytes
  <2>. QED
    BY <2>1 DEF Steps
<1>5. PICK g : Recursion(g, Nat, Bytes, Stop, base, before, step)
  <2>. HIDE DEF Stop, measure, base, before, step
  <2>. QED
    BY <1>1, <1>2, <1>3, <1>4, RecursionDefined
<1>6. g \in [Nat -> Bytes]
  BY <1>5 DEF Recursion
<1>7. ASSUME NEW n \in Nat
      PROVE  g[n] = IF n < 128 THEN <<n>>
                    ELSE <<128 + (n % 128)>> \o g[n \div 128]
  <2>1. CASE n < 128
    <3>1. n \in Stop /\ base[n] = <<n>>
      BY <2>1
    <3>2. g[n] = base[n]
      BY <1>5, <3>1 DEF Recursion
    <3>. QED
      BY <3>1, <3>2, <2>1
  <2>2. CASE n >= 128
    <3>1. n \in Nat \ Stop /\ before[n] = n \div 128
      BY <2>2
    <3>2. g[n] = step[<<n, g[n \div 128]>>]
      <4>. HIDE DEF step, before, Stop, base
      <4>. QED
        BY <1>5, <3>1 DEF Recursion
    <3>3. g[n \div 128] \in Bytes
      BY <1>6, Digits128
    <3>. QED
      BY <2>2, <3>2, <3>3
  <2>. QED
    BY <2>1, <2>2
<1>8. G(g)
  BY <1>6, <1>7
<1>9. G(Varint)
  <2>. HIDE DEF G
  <2>1. G(CHOOSE h : G(h))
    BY <1>8
  <2>. QED
    BY <2>1 DEF Varint, G
<1>10. \A n \in Nat :
        Varint[n] = IF n < 128 THEN <<n>>
                    ELSE <<128 + (n % 128)>> \o Varint[n \div 128]
  BY <1>9
<1>11. ASSUME NEW n \in Nat PROVE Varint[n] \in Bytes
  <2>. DEFINE S == {k \in Nat : \A m \in 0 .. k : Varint[m] \in Bytes}
  <2>1. 0 \in S
    <3>1. 0 \in Nat /\ 0 < 128 /\ 0 \in 0 .. 255
      OBVIOUS
    <3>2. Varint[0] = <<0>>
      BY <3>1, <1>10
    <3>3. Varint[0] \in Bytes
      BY <3>1, <3>2, OneByte
    <3>4. \A m \in 0 .. 0 : m = 0
      OBVIOUS
    <3>. QED
      BY <3>3, <3>4
  <2>2. ASSUME NEW k \in Nat, k \in S PROVE k + 1 \in S
    <3>. SUFFICES ASSUME NEW m \in 0 .. k + 1 PROVE Varint[m] \in Bytes
      OBVIOUS
    <3>1. CASE m < 128
      <4>1. m \in 0 .. 255 /\ m \in Nat
        BY <3>1
      <4>2. Varint[m] = <<m>>
        BY <4>1, <3>1, <1>10
      <4>. QED
        BY <4>1, <4>2, OneByte
    <3>2. CASE m >= 128
      <4>1. m \div 128 \in 0 .. k /\ m % 128 \in 0 .. 127 /\ m \in Nat
        BY <3>2, Digits128
      <4>2. 128 + (m % 128) \in 0 .. 255
        BY <4>1
      <4>3. Varint[m \div 128] \in Bytes /\ <<128 + (m % 128)>> \in Bytes
        BY <4>1, <4>2, <2>2, OneByte
      <4>4. ~ (m < 128)
        BY <3>2
      <4>5. Varint[m] = <<128 + (m % 128)>> \o Varint[m \div 128]
        BY <4>1, <4>4, <1>10
      <4>. QED
        BY <4>3, <4>5, MoreBytes
    <3>. QED
      BY <3>1, <3>2
  <2>3. n \in S
    <3>. HIDE DEF S
    <3>. QED
      BY <2>1, <2>2, Induction
  <2>. QED
    BY <2>3
<1>12. Varint = [n \in Nat |-> Varint[n]]
  BY <1>9
<1>. QED
  BY <1>10, <1>11, <1>12

LEMMA VarintLong == \A n \in Nat : n >= 128 =>
    /\ Len(Varint[n]) = Len(Varint[n \div 128]) + 1
    /\ Varint[n][1] = 128 + (n % 128)
    /\ \A j \in 1 .. Len(Varint[n \div 128]) :
          Varint[n][j + 1] = Varint[n \div 128][j]
<1>. SUFFICES ASSUME NEW n \in Nat, n >= 128
              PROVE  /\ Len(Varint[n]) = Len(Varint[n \div 128]) + 1
                     /\ Varint[n][1] = 128 + (n % 128)
                     /\ \A j \in 1 .. Len(Varint[n \div 128]) :
                           Varint[n][j + 1] = Varint[n \div 128][j]
  OBVIOUS
<1>1. n \div 128 \in Nat /\ n % 128 \in 0 .. 127
  BY Digits128
<1>2. PICK s \in Seq(0 .. 255) : s = Varint[n \div 128]
  BY <1>1, VarintWritten DEF Bytes
<1>3. PICK b \in 0 .. 255 : b = 128 + (n % 128)
  BY <1>1
<1>4. Varint[n] = <<b>> \o s
  BY <1>2, <1>3, VarintWritten
<1>5. /\ Len(<<b>> \o s) = Len(s) + 1
      /\ (<<b>> \o s)[1] = b
      /\ \A j \in 1 .. Len(s) : (<<b>> \o s)[j + 1] = s[j]
  OBVIOUS
<1>. QED
  BY <1>2, <1>3, <1>4, <1>5

\* Only the last byte is below 128.
VarintEnds(s) ==
    /\ s \in Bytes /\ Len(s) >= 1
    /\ s[Len(s)] < 128
    /\ \A j \in 1 .. Len(s) - 1 : s[j] >= 128

LEMMA VarintEnding == \A n \in Nat : VarintEnds(Varint[n])
<1>. DEFINE S == {k \in Nat : \A n \in 0 .. k : VarintEnds(Varint[n])}
<1>1. ASSUME NEW n \in Nat, n < 128 PROVE VarintEnds(Varint[n])
  <2>1. Varint[n] = <<n>> /\ Varint[n] \in Bytes
    BY <1>1, VarintWritten
  <2>2. Len(<<n>>) = 1 /\ <<n>>[1] = n
    OBVIOUS
  <2>. QED
    BY <2>1, <2>2, <1>1 DEF VarintEnds
<1>2. 0 \in S
  <2>1. 0 \in Nat /\ 0 < 128 /\ \A n \in 0 .. 0 : n = 0
    OBVIOUS
  <2>. QED
    BY <2>1, <1>1
<1>3. ASSUME NEW k \in Nat, k \in S PROVE k + 1 \in S
  <2>. SUFFICES ASSUME NEW n \in 0 .. k + 1 PROVE VarintEnds(Varint[n])
    OBVIOUS
  <2>1. CASE n < 128
    BY <2>1, <1>1
  <2>2. CASE n >= 128
    <3>1. n \div 128 \in 0 .. k /\ n % 128 \in 0 .. 127 /\ n \in Nat
      BY <2>2, Digits128
    <3>2. PICK s : s = Varint[n \div 128] /\ VarintEnds(s)
      BY <3>1, <1>3
    <3>3. PICK t : t = Varint[n] /\ t \in Bytes
      BY <3>1, VarintWritten
    <3>4. /\ Len(t) = Len(s) + 1
          /\ t[1] = 128 + (n % 128)
          /\ \A j \in 1 .. Len(s) : t[j + 1] = s[j]
      BY <3>1, <2>2, <3>2, <3>3, VarintLong
    <3>5. Len(s) \in Nat \ {0} /\ Len(t) \in Nat
      BY <3>2, <3>3 DEF VarintEnds, Bytes
    <3>6. t[Len(t)] = s[Len(s)]
      BY <3>4, <3>5
    <3>7. ASSUME NEW j \in 1 .. Len(t) - 1 PROVE t[j] >= 128
      <4>1. CASE j = 1
        BY <4>1, <3>4, <3>1
      <4>2. CASE j # 1
        <5>1. /\ j - 1 \in 1 .. Len(s) /\ j - 1 \in 1 .. Len(s) - 1
              /\ (j - 1) + 1 = j
          BY <4>2, <3>4, <3>5
        <5>2. t[j] = s[j - 1] /\ s[j - 1] >= 128
          BY <5>1, <3>4, <3>2 DEF VarintEnds
        <5>. QED
          BY <5>2
      <4>. QED
        BY <4>1, <4>2
    <3>. QED
      BY <3>2, <3>3, <3>4, <3>5, <3>6, <3>7 DEF VarintEnds
  <2>. QED
    BY <2>1, <2>2
<1>4. Nat \subseteq S
  <2>. HIDE DEF S
  <2>. QED
    BY <1>2, <1>3, Induction
<1>. QED
  BY <1>4

-----------------------------------------------------------------------------
(* Reading depends only on the bytes that are read                         *)

LEMMA ByteRead ==
  ASSUME NEW buf \in Bytes, NEW i \in 1 .. Len(buf)
  PROVE  /\ buf[i] \in 0 .. 255
         /\ buf[i] % 128 \in 0 .. 127
         /\ buf[i] < 128 \/ buf[i] >= 128
         /\ ~ (buf[i] < 128 /\ buf[i] >= 128)
<1>1. PICK b \in 0 .. 255 : b = buf[i]
  BY ElementOfSeq DEF Bytes
<1>2. b % 128 \in 0 .. 127 /\ (b < 128 \/ b >= 128) /\ ~ (b < 128 /\ b >= 128)
  OBVIOUS
<1>. QED
  BY <1>1, <1>2

\* u lies in buf, after q bytes.
At(buf, q, u) ==
    /\ q \in Nat /\ q + Len(u) <= Len(buf)
    /\ \A i \in 1 .. Len(u) : buf[q + i] = u[i]

\* The varint at pos ends at end.
EndsAt(buf, pos, end) ==
    /\ end \in pos .. pos + 9 /\ end <= Len(buf)
    /\ buf[end] < 128
    /\ \A k \in pos .. end - 1 : buf[k] >= 128

\* f[i] is the number in the bytes from i on.
NumberFrom(f, buf, pos, end) ==
    f = [i \in pos .. end |->
            (buf[i] % 128) + (IF i = end THEN 0 ELSE 128 * f[i + 1])]

LEMMA NumberDefined ==
  ASSUME NEW buf \in Bytes, NEW pos \in Nat \ {0}, NEW end,
         EndsAt(buf, pos, end)
  PROVE  \E f : NumberFrom(f, buf, pos, end)
<1>. DEFINE D == pos .. end
            Stop == {end}
            measure == [i \in D |-> end - i]
            base == [i \in D |-> buf[i] % 128]
            before == [i \in D |-> IF i = end THEN end ELSE i + 1]
            step == [p \in D \X Nat |-> (buf[p[1]] % 128) + 128 * p[2]]
<1>1. end \in Nat /\ pos <= end /\ end <= Len(buf) /\ Len(buf) \in Nat
  BY DEF EndsAt, Bytes
<1>2. \A i \in D : buf[i] \in 0 .. 255 /\ buf[i] % 128 \in Nat
  <2>. SUFFICES ASSUME NEW i \in D
                PROVE  buf[i] \in 0 .. 255 /\ buf[i] % 128 \in Nat
    OBVIOUS
  <2>1. i \in 1 .. Len(buf)
    BY <1>1
  <2>2. buf[i] \in 0 .. 255 /\ buf[i] % 128 \in 0 .. 127
    BY <2>1, ByteRead
  <2>. QED
    BY <2>2
<1>3. /\ Stop \in SUBSET D /\ measure \in [D -> Nat] /\ base \in [D -> Nat]
      /\ before \in [D -> D]
      /\ \A i \in D \ Stop : measure[before[i]] < measure[i]
  BY <1>1, <1>2
<1>4. step \in Steps(D, Nat)
  BY <1>1, <1>2 DEF Steps
<1>5. PICK f : Recursion(f, D, Nat, Stop, base, before, step)
  <2>. HIDE DEF D, Stop, measure, base, before, step
  <2>. QED
    BY <1>3, <1>4, RecursionDefined
<1>6. f \in [D -> Nat]
  BY <1>5 DEF Recursion
<1>7. ASSUME NEW i \in D
      PROVE  f[i] = (buf[i] % 128) + (IF i = end THEN 0 ELSE 128 * f[i + 1])
  <2>1. CASE i = end
    <3>1. i \in Stop /\ base[i] = buf[i] % 128
      BY <2>1
    <3>2. f[i] = base[i]
      BY <1>5, <3>1 DEF Recursion
    <3>. QED
      BY <3>1, <3>2, <2>1, <1>2
  <2>2. CASE i # end
    <3>1. i \in D \ Stop /\ before[i] = i + 1 /\ i + 1 \in D
      BY <2>2, <1>1
    <3>2. f[i] = step[<<i, f[before[i]]>>]
      <4>. HIDE DEF D, step, before, Stop, base
      <4>. QED
        BY <1>5, <3>1 DEF Recursion
    <3>3. f[i + 1] \in Nat
      BY <3>1, <1>6
    <3>. QED
      BY <2>2, <3>1, <3>2, <3>3
  <2>. QED
    BY <2>1, <2>2
<1>. HIDE DEF Stop, measure, base, before, step
<1>. DEFINE h == [i \in D |->
                    (buf[i] % 128) + (IF i = end THEN 0 ELSE 128 * f[i + 1])]
<1>8. \A i \in D : h[i] = f[i]
  BY <1>7
<1>9. f = h
  BY <1>6, <1>8
<1>10. NumberFrom(f, buf, pos, end)
  BY <1>9 DEF NumberFrom
<1>. QED
  BY <1>10

\* What ReadVarint gives.
LEMMA VarintIs ==
  ASSUME NEW buf \in Bytes, NEW pos \in Nat \ {0}, NEW end,
         EndsAt(buf, pos, end)
  PROVE  \E f : /\ NumberFrom(f, buf, pos, end)
                /\ ReadVarint(buf, pos)
                     = [ok |-> TRUE, value |-> f[pos], next |-> end + 1]
<1>. DEFINE ends == {k \in pos .. pos + 9 : k <= Len(buf) /\ buf[k] < 128}
            from == CHOOSE f : NumberFrom(f, buf, pos, end)
<1>1. end \in ends /\ \A k \in ends : end <= k
  <2>1. ASSUME NEW k \in ends, k < end PROVE FALSE
    <3>1. k \in pos .. end - 1 /\ buf[k] < 128
      BY <2>1 DEF EndsAt
    <3>2. buf[k] >= 128 /\ k \in 1 .. Len(buf)
      BY <3>1 DEF EndsAt
    <3>3. ~ (buf[k] < 128)
      BY <3>2, ByteRead
    <3>. QED
      BY <3>1, <3>3
  <2>. QED
    BY <2>1 DEF EndsAt
<1>2. Min(ends) = end
  <2>1. \A k \in ends : k \in Int
    OBVIOUS
  <2>. HIDE DEF ends
  <2>2. \A k \in ends : (\A j \in ends : k <= j) => k = end
    BY <1>1, <2>1
  <2>. QED
    BY <1>1, <2>2 DEF Min
<1>3. NumberFrom(from, buf, pos, end)
  BY NumberDefined
<1>4. NumberAt(buf, pos, end) = from[pos]
  BY DEF NumberAt, NumberFrom
<1>5. ReadVarint(buf, pos)
        = [ok |-> TRUE, value |-> NumberAt(buf, pos, end), next |-> end + 1]
  <2>1. ends # {}
    BY <1>1
  <2>. QED
    BY <2>1, <1>2 DEF ReadVarint
<1>. HIDE DEF from
<1>. QED
  BY <1>3, <1>4, <1>5

LEMMA VarintEndsSomewhere ==
  ASSUME NEW buf \in Bytes, NEW pos \in Nat \ {0}, ReadVarint(buf, pos).ok
  PROVE  \E end : EndsAt(buf, pos, end)
<1>. DEFINE ends == {k \in pos .. pos + 9 : k <= Len(buf) /\ buf[k] < 128}
<1>1. ends # {}
  BY DEF ReadVarint, Broken
<1>2. PICK end \in ends : \A k \in ends : end <= k
  <2>1. ends \subseteq Nat
    OBVIOUS
  <2>. HIDE DEF ends
  <2>. QED
    BY <1>1, <2>1, LeastNumber
<1>3. Len(buf) \in Nat
  BY DEF Bytes
<1>4. ASSUME NEW k \in pos .. end - 1 PROVE buf[k] >= 128
  <2>1. k \in 1 .. Len(buf) /\ k \in pos .. pos + 9 /\ k <= Len(buf) /\ ~ (end <= k)
    BY <1>3
  <2>2. ~ (buf[k] < 128)
    BY <1>2, <2>1
  <2>. QED
    BY <2>1, <2>2, ByteRead
<1>. QED
  BY <1>2, <1>4 DEF EndsAt

\* A number that is read is one.
LEMMA NumberIs ==
  ASSUME NEW buf \in Bytes, NEW pos \in Nat \ {0}, NEW end, NEW f,
         EndsAt(buf, pos, end), NumberFrom(f, buf, pos, end)
  PROVE  \A i \in pos .. end : f[i] \in Nat
<1>1. end \in Nat /\ pos <= end /\ end <= Len(buf) /\ Len(buf) \in Nat
  BY DEF EndsAt, Bytes
<1>2. ASSUME NEW i \in pos .. end
      PROVE  /\ buf[i] % 128 \in 0 .. 127
             /\ f[i] = (buf[i] % 128) + (IF i = end THEN 0 ELSE 128 * f[i + 1])
  <2>1. i \in 1 .. Len(buf)
    BY <1>1
  <2>2. buf[i] % 128 \in 0 .. 127
    BY <2>1, ByteRead
  <2>. QED
    BY <2>2 DEF NumberFrom
<1>. DEFINE S == {k \in Nat : \A i \in pos .. end : end - i <= k => f[i] \in Nat}
<1>3. 0 \in S
  <2>. SUFFICES ASSUME NEW i \in pos .. end, end - i <= 0 PROVE f[i] \in Nat
    OBVIOUS
  <2>1. i = end
    BY <1>1
  <2>. QED
    BY <2>1, <1>2
<1>4. ASSUME NEW k \in Nat, k \in S PROVE k + 1 \in S
  <2>. SUFFICES ASSUME NEW i \in pos .. end, end - i <= k + 1 PROVE f[i] \in Nat
    OBVIOUS
  <2>1. CASE i = end
    BY <2>1, <1>2
  <2>2. CASE i # end
    <3>1. i + 1 \in pos .. end /\ end - (i + 1) <= k
      BY <2>2, <1>1
    <3>2. f[i + 1] \in Nat
      BY <3>1, <1>4
    <3>. QED
      BY <3>2, <2>2, <1>2
  <2>. QED
    BY <2>1, <2>2
<1>5. end - pos \in Nat /\ \A i \in pos .. end : end - i <= end - pos
  BY <1>1
<1>6. end - pos \in S
  <2>. HIDE DEF S
  <2>. QED
    BY <1>3, <1>4, <1>5, Induction
<1>. QED
  BY <1>5, <1>6

LEMMA VarintType ==
  ASSUME NEW buf \in Bytes, NEW pos \in Nat \ {0}, ReadVarint(buf, pos).ok
  PROVE  \E n \in Nat, next \in pos + 1 .. Len(buf) + 1 :
            ReadVarint(buf, pos) = [ok |-> TRUE, value |-> n, next |-> next]
<1>1. PICK end : EndsAt(buf, pos, end)
  BY VarintEndsSomewhere
<1>2. PICK f : /\ NumberFrom(f, buf, pos, end)
               /\ ReadVarint(buf, pos)
                     = [ok |-> TRUE, value |-> f[pos], next |-> end + 1]
  BY <1>1, VarintIs
<1>3. pos \in pos .. end /\ end + 1 \in pos + 1 .. Len(buf) + 1
  BY <1>1 DEF EndsAt, Bytes
<1>4. f[pos] \in Nat
  BY <1>1, <1>2, <1>3, NumberIs
<1>. QED
  BY <1>2, <1>3, <1>4

\* The number is the same wherever its bytes are.
LEMMA NumberShift ==
  ASSUME NEW u \in Bytes, NEW buf \in Bytes, NEW q, At(buf, q, u),
         NEW pos \in Nat \ {0}, NEW end, EndsAt(u, pos, end),
         NEW f, NumberFrom(f, u, pos, end),
         NEW g, NumberFrom(g, buf, q + pos, q + end)
  PROVE  g[q + pos] = f[pos]
<1>1. /\ end \in Nat /\ pos <= end /\ end <= Len(u) /\ Len(u) \in Nat
      /\ q \in Nat
  BY DEF EndsAt, Bytes, At
<1>2. ASSUME NEW i \in pos .. end
      PROVE  /\ f[i] = (u[i] % 128) + (IF i = end THEN 0 ELSE 128 * f[i + 1])
             /\ g[q + i] = (u[i] % 128)
                  + (IF i = end THEN 0 ELSE 128 * g[q + (i + 1)])
  <2>1. /\ i \in 1 .. Len(u) /\ q + i \in q + pos .. q + end
        /\ (q + i) + 1 = q + (i + 1) /\ (q + i = q + end <=> i = end)
    BY <1>1
  <2>2. buf[q + i] = u[i]
    BY <2>1 DEF At
  <2>3. g[q + i] = (buf[q + i] % 128)
                  + (IF q + i = q + end THEN 0 ELSE 128 * g[(q + i) + 1])
    BY <2>1 DEF NumberFrom
  <2>. QED
    BY <2>1, <2>2, <2>3 DEF NumberFrom
<1>. DEFINE S == {k \in Nat : \A i \in pos .. end :
                      end - i <= k => g[q + i] = f[i]}
<1>3. 0 \in S
  <2>. SUFFICES ASSUME NEW i \in pos .. end, end - i <= 0
                PROVE  g[q + i] = f[i]
    OBVIOUS
  <2>1. i = end
    BY <1>1
  <2>. QED
    BY <2>1, <1>2
<1>4. ASSUME NEW k \in Nat, k \in S PROVE k + 1 \in S
  <2>. SUFFICES ASSUME NEW i \in pos .. end, end - i <= k + 1
                PROVE  g[q + i] = f[i]
    OBVIOUS
  <2>1. CASE i = end
    BY <2>1, <1>2
  <2>2. CASE i # end
    <3>1. i + 1 \in pos .. end /\ end - (i + 1) <= k
      BY <2>2, <1>1
    <3>2. g[q + (i + 1)] = f[i + 1]
      BY <3>1, <1>4
    <3>. QED
      BY <3>2, <2>2, <1>2
  <2>. QED
    BY <2>1, <2>2
<1>5. end - pos \in Nat /\ pos \in pos .. end /\ end - pos <= end - pos
  BY <1>1
<1>6. end - pos \in S
  <2>. HIDE DEF S
  <2>. QED
    BY <1>3, <1>4, <1>5, Induction
<1>. QED
  BY <1>5, <1>6

LEMMA VarintShift ==
  ASSUME NEW u \in Bytes, NEW buf \in Bytes, NEW q, At(buf, q, u),
         NEW pos \in Nat \ {0}, ReadVarint(u, pos).ok
  PROVE  ReadVarint(buf, q + pos)
           = [ok |-> TRUE, value |-> ReadVarint(u, pos).value,
              next |-> q + ReadVarint(u, pos).next]
<1>1. PICK end : EndsAt(u, pos, end)
  BY VarintEndsSomewhere
<1>2. /\ end \in Nat /\ pos <= end /\ end <= Len(u) /\ Len(u) \in Nat
      /\ q \in Nat /\ q + Len(u) <= Len(buf) /\ Len(buf) \in Nat
  BY <1>1 DEF EndsAt, Bytes, At
<1>3. EndsAt(buf, q + pos, q + end)
  <2>1. ASSUME NEW k \in q + pos .. q + end - 1 PROVE buf[k] >= 128
    <3>1. k - q \in pos .. end - 1 /\ k - q \in 1 .. Len(u) /\ q + (k - q) = k
      BY <1>2
    <3>2. buf[k] = u[k - q] /\ u[k - q] >= 128
      BY <3>1, <1>1 DEF At, EndsAt
    <3>. QED
      BY <3>2
  <2>2. end \in 1 .. Len(u) /\ q + end <= Len(buf)
        /\ q + end \in q + pos .. q + pos + 9
    BY <1>1, <1>2 DEF EndsAt
  <2>3. buf[q + end] = u[end] /\ u[end] < 128
    BY <2>2, <1>1 DEF At, EndsAt
  <2>4. buf[q + end] < 128
    BY <2>3
  <2>. QED
    BY <1>2, <2>1, <2>2, <2>4 DEF EndsAt
<1>4. PICK f : /\ NumberFrom(f, u, pos, end)
               /\ ReadVarint(u, pos)
                     = [ok |-> TRUE, value |-> f[pos], next |-> end + 1]
  BY <1>1, VarintIs
<1>5. q + pos \in Nat \ {0}
  BY <1>2
<1>6. PICK g : /\ NumberFrom(g, buf, q + pos, q + end)
               /\ ReadVarint(buf, q + pos)
                     = [ok |-> TRUE, value |-> g[q + pos], next |-> q + end + 1]
  BY <1>3, <1>5, VarintIs
<1>7. g[q + pos] = f[pos]
  BY <1>1, <1>4, <1>6, NumberShift
<1>8. q + end + 1 = q + (end + 1)
  BY <1>2
<1>9. ReadVarint(u, pos).value = f[pos] /\ ReadVarint(u, pos).next = end + 1
  BY <1>4
<1>. QED
  BY <1>6, <1>7, <1>8, <1>9

\* Ten bytes are enough for a number.
LEMMA NumbersAreShort == \A n \in Numbers : n \in Nat /\ Len(Varint[n]) <= 10
  BY DEF Numbers, FitsIn

\* What is written of a number is read as that number.
LEMMA VarintRead ==
  ASSUME NEW n \in Numbers
  PROVE  ReadVarint(Varint[n], 1)
           = [ok |-> TRUE, value |-> n, next |-> Len(Varint[n]) + 1]
<1>1. PICK u : u = Varint[n]
  OBVIOUS
<1>. DEFINE end == Len(u)
<1>2. n \in Nat /\ u \in Bytes /\ VarintEnds(u) /\ end \in 1 .. 10
  <2>1. n \in Nat /\ Len(u) <= 10
    BY <1>1, NumbersAreShort
  <2>2. u \in Bytes
    BY <1>1, <2>1, VarintWritten
  <2>3. VarintEnds(u)
    BY <1>1, <2>1, VarintEnding
  <2>4. Len(u) \in Nat /\ Len(u) >= 1
    BY <2>2, <2>3 DEF VarintEnds, Bytes
  <2>5. \A k \in Nat : k >= 1 /\ k <= 10 => k \in 1 .. 10
    OBVIOUS
  <2>6. Len(u) \in 1 .. 10
    BY <2>1, <2>4, <2>5, Zenon
  <2>. QED
    BY <2>1, <2>2, <2>3, <2>6
<1>3. EndsAt(u, 1, end)
  BY <1>2 DEF EndsAt, VarintEnds
<1>4. PICK f : /\ NumberFrom(f, u, 1, end)
               /\ ReadVarint(u, 1)
                     = [ok |-> TRUE, value |-> f[1], next |-> end + 1]
  BY <1>2, <1>3, VarintIs
<1>. HIDE DEF end
<1>. DEFINE Rest(i, m) ==
                /\ Len(Varint[m]) = end - i + 1
                /\ \A j \in 1 .. Len(Varint[m]) : Varint[m][j] = u[i - 1 + j]
            S == {k \in Nat : \A m \in 0 .. k, i \in 1 .. end :
                                Rest(i, m) => f[i] = m}
<1>5. ASSUME NEW m \in Nat, m < 128, NEW i \in 1 .. end, Rest(i, m)
      PROVE  f[i] = m
  <2>1. Varint[m] = <<m>>
    BY <1>5, VarintWritten
  <2>2. Len(<<m>>) = 1 /\ <<m>>[1] = m
    OBVIOUS
  <2>3. i = end /\ u[i - 1 + 1] = m /\ i - 1 + 1 = i
    BY <2>1, <2>2, <1>2, <1>5
  <2>4. f[i] = (u[i] % 128) + 0
    BY <2>3, <1>4 DEF NumberFrom
  <2>. QED
    BY <2>3, <2>4, <1>5
<1>6. 0 \in S
  <2>1. 0 \in Nat /\ 0 < 128 /\ \A m \in 0 .. 0 : m = 0
    OBVIOUS
  <2>. HIDE DEF Rest
  <2>. QED
    BY <2>1, <1>5
<1>7. ASSUME NEW k \in Nat, k \in S PROVE k + 1 \in S
  <2>. SUFFICES ASSUME NEW m \in 0 .. k + 1, NEW i \in 1 .. end, Rest(i, m)
                PROVE  f[i] = m
    OBVIOUS
  <2>1. CASE m < 128
    BY <2>1, <1>5
  <2>2. CASE m >= 128
    <3>1. /\ m \in Nat /\ m \div 128 \in 0 .. k /\ m % 128 \in 0 .. 127
          /\ m = (m % 128) + 128 * (m \div 128)
      BY <2>2, Digits128
    <3>2. PICK s : s = Varint[m] /\ s \in Bytes
      BY <3>1, VarintWritten
    <3>3. PICK t : t = Varint[m \div 128] /\ t \in Bytes /\ Len(t) >= 1
      <4>1. m \div 128 \in Nat
        BY <3>1
      <4>2. Varint[m \div 128] \in Bytes /\ VarintEnds(Varint[m \div 128])
        BY <4>1, VarintWritten, VarintEnding
      <4>. QED
        BY <4>2 DEF VarintEnds
    <3>4. /\ Len(s) = Len(t) + 1
          /\ s[1] = 128 + (m % 128)
          /\ \A j \in 1 .. Len(t) : s[j + 1] = t[j]
      BY <3>1, <2>2, <3>2, <3>3, VarintLong
    <3>5. Len(t) \in Nat \ {0} /\ end \in Nat
      BY <3>3, <1>2 DEF Bytes
    <3>6. Len(s) = end - i + 1 /\ \A j \in 1 .. Len(s) : s[j] = u[i - 1 + j]
      BY <3>2
    <3>7. i + 1 \in 1 .. end /\ i # end /\ Len(t) = end - (i + 1) + 1
          /\ 1 \in 1 .. Len(s) /\ i - 1 + 1 = i
      BY <3>4, <3>5, <3>6
    <3>8. ASSUME NEW j \in 1 .. Len(t) PROVE t[j] = u[(i + 1) - 1 + j]
      <4>1. j + 1 \in 1 .. Len(s) /\ i - 1 + (j + 1) = (i + 1) - 1 + j
        BY <3>4, <3>5
      <4>. QED
        BY <4>1, <3>4, <3>6
    <3>9. f[i + 1] = m \div 128
      <4>1. Rest(i + 1, m \div 128)
        BY <3>3, <3>7, <3>8
      <4>. HIDE DEF Rest
      <4>. QED
        BY <4>1, <3>1, <3>7, <1>7
    <3>10. f[i] = (u[i] % 128) + 128 * f[i + 1]
      BY <3>7, <1>4 DEF NumberFrom
    <3>11. u[i] = 128 + (m % 128)
      BY <3>4, <3>6, <3>7
    <3>12. \A d \in 0 .. 127 : (128 + d) % 128 = d
      <4>. SUFFICES ASSUME NEW d \in 0 .. 127 PROVE (128 + d) % 128 = d
        OBVIOUS
      <4>1. PICK x \in Nat : x = 128 + d
        OBVIOUS
      <4>2. x \div 128 \in Nat /\ x % 128 \in 0 .. 127
            /\ x = (x % 128) + 128 * (x \div 128)
        BY Digits128
      <4>3. PICK h \in Nat, r \in 0 .. 127 : h = x \div 128 /\ r = x % 128
        BY <4>2
      <4>4. h = 1
        BY <4>1, <4>2, <4>3
      <4>. QED
        BY <4>1, <4>2, <4>3, <4>4
    <3>. QED
      BY <3>1, <3>9, <3>10, <3>11, <3>12
  <2>. QED
    BY <2>1, <2>2
<1>8. n \in S
  <2>. HIDE DEF S
  <2>. QED
    BY <1>2, <1>6, <1>7, Induction
<1>9. Rest(1, n) /\ n \in 0 .. n /\ 1 \in 1 .. end
  <2>1. /\ 1 \in 1 .. end /\ end - 1 + 1 = end
        /\ \A j \in 1 .. end : 1 - 1 + j = j
    BY <1>2
  <2>. QED
    BY <2>1, <1>1, <1>2 DEF end
<1>10. f[1] = n
  <2>. HIDE DEF Rest
  <2>. QED
    BY <1>8, <1>9
<1>. QED
  BY <1>1, <1>4, <1>10 DEF end

\* What was read, q bytes further on.
Moved(r, q) == [ok |-> TRUE, value |-> r.value, next |-> q + r.next]

LEMMA FixedType ==
  ASSUME NEW buf \in Bytes, NEW pos \in Nat \ {0}, NEW size \in Nat,
         ReadFixed(buf, pos, size).ok
  PROVE  /\ ReadFixed(buf, pos, size)
              = [ok |-> TRUE, value |-> SubSeq(buf, pos, pos + size - 1),
                 next |-> pos + size]
         /\ pos + size \in pos .. Len(buf) + 1
<1>1. Len(buf) \in Nat
  BY DEF Bytes
<1>2. ~ (pos + size - 1 > Len(buf))
  BY DEF ReadFixed, Broken
<1>. QED
  BY <1>1, <1>2 DEF ReadFixed

LEMMA FixedShift ==
  ASSUME NEW u \in Bytes, NEW buf \in Bytes, NEW q, At(buf, q, u),
         NEW pos \in Nat \ {0}, NEW size \in Nat, ReadFixed(u, pos, size).ok
  PROVE  ReadFixed(buf, q + pos, size) = Moved(ReadFixed(u, pos, size), q)
<1>1. /\ Len(u) \in Nat /\ Len(buf) \in Nat /\ q \in Nat
      /\ q + Len(u) <= Len(buf)
  BY DEF Bytes, At
<1>2. /\ ReadFixed(u, pos, size)
              = [ok |-> TRUE, value |-> SubSeq(u, pos, pos + size - 1),
                 next |-> pos + size]
      /\ pos + size \in pos .. Len(u) + 1
  BY FixedType
<1>3. /\ ~ ((q + pos) + size - 1 > Len(buf))
      /\ (q + pos) + size = q + (pos + size)
  BY <1>1, <1>2
<1>4. SubSeq(buf, q + pos, (q + pos) + size - 1) = SubSeq(u, pos, pos + size - 1)
  <2>1. ASSUME NEW i \in 1 .. size
        PROVE  buf[(q + pos) + i - 1] = u[pos + i - 1]
    <3>1. pos + i - 1 \in 1 .. Len(u) /\ (q + pos) + i - 1 = q + (pos + i - 1)
      BY <1>1, <1>2
    <3>. QED
      BY <3>1 DEF At
  <2>2. /\ pos \in Int /\ pos + size - 1 \in Int
        /\ q + pos \in Int /\ (q + pos) + size - 1 \in Int
        /\ \A i \in pos .. pos + size - 1 : u[i] \in 0 .. 255
        /\ \A i \in q + pos .. (q + pos) + size - 1 : buf[i] \in 0 .. 255
    <3>1. ASSUME NEW i \in pos .. pos + size - 1 PROVE u[i] \in 0 .. 255
      <4>1. i \in 1 .. Len(u)
        BY <1>1, <1>2
      <4>. QED
        BY <4>1, ByteRead
    <3>2. ASSUME NEW i \in q + pos .. (q + pos) + size - 1
          PROVE  buf[i] \in 0 .. 255
      <4>1. i \in 1 .. Len(buf)
        BY <1>1, <1>2
      <4>. QED
        BY <4>1, ByteRead
    <3>. QED
      BY <1>1, <3>1, <3>2
  <2>3. PICK s : s = SubSeq(u, pos, pos + size - 1)
    OBVIOUS
  <2>4. PICK t : t = SubSeq(buf, q + pos, (q + pos) + size - 1)
    OBVIOUS
  <2>5. /\ s \in Seq(0 .. 255)
        /\ Len(s) = IF pos <= pos + size - 1 THEN (pos + size - 1) - pos + 1 ELSE 0
        /\ \A i \in 1 .. (pos + size - 1) - pos + 1 : s[i] = u[pos + i - 1]
    BY <2>2, <2>3, SubSeqProperties
  <2>6. /\ t \in Seq(0 .. 255)
        /\ Len(t) = IF q + pos <= (q + pos) + size - 1
                    THEN ((q + pos) + size - 1) - (q + pos) + 1 ELSE 0
        /\ \A i \in 1 .. ((q + pos) + size - 1) - (q + pos) + 1 :
              t[i] = buf[(q + pos) + i - 1]
    BY <2>2, <2>4, SubSeqProperties
  <2>7. Len(s) = size /\ Len(t) = size
        /\ (pos + size - 1) - pos + 1 = size
        /\ ((q + pos) + size - 1) - (q + pos) + 1 = size
    BY <1>1, <2>5, <2>6
  <2>8. \A i \in 1 .. size : s[i] = t[i]
    BY <2>1, <2>5, <2>6, <2>7
  <2>9. s = t
    BY <2>5, <2>6, <2>7, <2>8, SeqEqual
  <2>. QED
    BY <2>3, <2>4, <2>9
<1>5. ReadFixed(buf, q + pos, size)
        = [ok |-> TRUE, value |-> SubSeq(buf, q + pos, (q + pos) + size - 1),
           next |-> (q + pos) + size]
  BY <1>3 DEF ReadFixed
<1>6. Moved(ReadFixed(u, pos, size), q)
        = [ok |-> TRUE, value |-> SubSeq(u, pos, pos + size - 1),
           next |-> q + (pos + size)]
  BY <1>2 DEF Moved
<1>. QED
  BY <1>3, <1>4, <1>5, <1>6

LEMMA ValueType ==
  ASSUME NEW buf \in Bytes, NEW pos \in Nat \ {0}, NEW wire,
         ReadValue(buf, pos, wire).ok
  PROVE  /\ ReadValue(buf, pos, wire).next \in pos .. Len(buf) + 1
         /\ wire \in {0, 1, 2, 5}
<1>1. wire \in {0, 1, 2, 5}
  BY DEF ReadValue, Broken
<1>2. CASE wire = 0
  <2>1. ReadValue(buf, pos, wire) = ReadVarint(buf, pos)
    BY <1>2 DEF ReadValue
  <2>2. PICK n \in Nat, next \in pos + 1 .. Len(buf) + 1 :
            ReadVarint(buf, pos) = [ok |-> TRUE, value |-> n, next |-> next]
    BY <2>1, VarintType
  <2>3. next \in pos .. Len(buf) + 1
    BY <2>2 DEF Bytes
  <2>. QED
    BY <1>1, <2>1, <2>2, <2>3
<1>3. ASSUME NEW size \in {4, 8}, ReadValue(buf, pos, wire) = ReadFixed(buf, pos, size)
      PROVE  ReadValue(buf, pos, wire).next \in pos .. Len(buf) + 1
  BY <1>3, FixedType
<1>4. CASE wire = 1
  BY <1>1, <1>3, <1>4 DEF ReadValue
<1>5. CASE wire = 5
  BY <1>1, <1>3, <1>5 DEF ReadValue
<1>6. CASE wire = 2
  <2>. DEFINE v == ReadVarint(buf, pos)
  <2>1. ReadValue(buf, pos, wire) = ReadCounted(buf, v)
    BY <1>6 DEF ReadValue, ReadDelimited
  <2>2. v.ok /\ ReadCounted(buf, v) = ReadFixed(buf, v.next, v.value)
    BY <2>1 DEF ReadCounted, Broken
  <2>3. PICK n \in Nat, next \in pos + 1 .. Len(buf) + 1 :
            v = [ok |-> TRUE, value |-> n, next |-> next]
    BY <2>2, VarintType
  <2>4. next \in Nat \ {0} /\ Len(buf) \in Nat
    BY <2>3 DEF Bytes
  <2>5. ReadFixed(buf, next, n).next \in next .. Len(buf) + 1
    BY <2>1, <2>2, <2>3, <2>4, FixedType
  <2>6. next .. Len(buf) + 1 \subseteq pos .. Len(buf) + 1
    BY <2>3, <2>4
  <2>. QED
    BY <1>1, <2>1, <2>2, <2>3, <2>5, <2>6
<1>. QED
  BY <1>1, <1>2, <1>4, <1>5, <1>6

LEMMA ValueShift ==
  ASSUME NEW u \in Bytes, NEW buf \in Bytes, NEW q, At(buf, q, u),
         NEW pos \in Nat \ {0}, NEW wire, ReadValue(u, pos, wire).ok
  PROVE  ReadValue(buf, q + pos, wire) = Moved(ReadValue(u, pos, wire), q)
<1>1. wire \in {0, 1, 2, 5}
  BY ValueType
<1>2. CASE wire = 0
  <2>1. /\ ReadValue(u, pos, wire) = ReadVarint(u, pos)
        /\ ReadValue(buf, q + pos, wire) = ReadVarint(buf, q + pos)
    BY <1>2 DEF ReadValue
  <2>. QED
    BY <2>1, VarintShift DEF Moved
<1>3. ASSUME NEW size \in {4, 8},
             ReadValue(u, pos, wire) = ReadFixed(u, pos, size),
             ReadValue(buf, q + pos, wire) = ReadFixed(buf, q + pos, size)
      PROVE  ReadValue(buf, q + pos, wire) = Moved(ReadValue(u, pos, wire), q)
  <2>1. size \in Nat
    OBVIOUS
  <2>. QED
    BY <1>3, <2>1, FixedShift
<1>4. CASE wire = 1
  BY <1>3, <1>4 DEF ReadValue
<1>5. CASE wire = 5
  BY <1>3, <1>5 DEF ReadValue
<1>6. CASE wire = 2
  <2>1. PICK v : v = ReadVarint(u, pos)
    OBVIOUS
  <2>2. PICK w : w = ReadVarint(buf, q + pos)
    OBVIOUS
  <2>3. /\ ReadValue(u, pos, wire) = ReadCounted(u, v)
        /\ ReadValue(buf, q + pos, wire) = ReadCounted(buf, w)
    BY <1>6, <2>1, <2>2 DEF ReadValue, ReadDelimited
  <2>4. v.ok /\ ReadCounted(u, v) = ReadFixed(u, v.next, v.value)
    BY <2>3 DEF ReadCounted, Broken
  <2>5. PICK n \in Nat, next \in pos + 1 .. Len(u) + 1 :
            v = [ok |-> TRUE, value |-> n, next |-> next]
    BY <2>1, <2>4, VarintType
  <2>6. w = [ok |-> TRUE, value |-> n, next |-> q + next]
    <3>1. v.value = n /\ v.next = next
      BY <2>5
    <3>2. w = [ok |-> TRUE, value |-> v.value, next |-> q + v.next]
      BY <2>1, <2>2, <2>4, VarintShift
    <3>. QED
      BY <3>1, <3>2
  <2>7. ReadCounted(buf, w) = ReadFixed(buf, q + next, n)
    BY <2>6 DEF ReadCounted
  <2>8. ReadCounted(u, v) = ReadFixed(u, next, n) /\ ReadFixed(u, next, n).ok
    BY <2>3, <2>4, <2>5
  <2>9. next \in Nat \ {0}
    BY <2>5 DEF Bytes
  <2>. QED
    BY <2>3, <2>7, <2>8, <2>9, FixedShift
<1>. QED
  BY <1>1, <1>2, <1>4, <1>5, <1>6

\* Every field that is read ends behind where it begins.
LEMMA FieldType ==
  ASSUME NEW buf \in Bytes, NEW pos \in Nat \ {0}, ReadField(buf, pos).ok
  PROVE  /\ ReadField(buf, pos).next \in pos + 1 .. Len(buf) + 1
         /\ ReadVarint(buf, pos).ok
         /\ LET key == ReadVarint(buf, pos)
                v == ReadValue(buf, key.next, key.value % 8)
            IN  /\ v.ok
                /\ ReadField(buf, pos)
                     = [ok |-> TRUE, number |-> key.value \div 8,
                        wire |-> key.value % 8, value |-> v.value,
                        next |-> v.next]
<1>1. PICK key : key = ReadVarint(buf, pos)
  OBVIOUS
<1>2. PICK v : v = ReadValue(buf, key.next, key.value % 8)
  OBVIOUS
<1>3. ReadField(buf, pos) = Field(key, v)
  BY <1>1, <1>2 DEF ReadField, ReadAfterKey
<1>4. /\ key.ok /\ v.ok
      /\ Field(key, v) = [ok |-> TRUE, number |-> key.value \div 8,
                          wire |-> key.value % 8, value |-> v.value,
                          next |-> v.next]
  BY <1>3 DEF Field, Broken
<1>5. PICK n \in Nat, next \in pos + 1 .. Len(buf) + 1 :
            key = [ok |-> TRUE, value |-> n, next |-> next]
  BY <1>1, <1>4, VarintType
<1>6. next \in Nat \ {0} /\ Len(buf) \in Nat
  BY <1>5 DEF Bytes
<1>7. v.next \in next .. Len(buf) + 1
  BY <1>2, <1>4, <1>5, <1>6, ValueType
<1>8. next .. Len(buf) + 1 \subseteq pos + 1 .. Len(buf) + 1
  BY <1>5, <1>6
<1>. QED
  BY <1>1, <1>2, <1>3, <1>4, <1>7, <1>8

LEMMA FieldShift ==
  ASSUME NEW u \in Bytes, NEW buf \in Bytes, NEW q, At(buf, q, u),
         NEW pos \in Nat \ {0}, ReadField(u, pos).ok
  PROVE  LET f == ReadField(u, pos)
         IN  ReadField(buf, q + pos)
               = [ok |-> TRUE, number |-> f.number, wire |-> f.wire,
                  value |-> f.value, next |-> q + f.next]
<1>1. PICK key : key = ReadVarint(u, pos)
  OBVIOUS
<1>2. PICK v : v = ReadValue(u, key.next, key.value % 8)
  OBVIOUS
<1>3. /\ key.ok /\ v.ok
      /\ ReadField(u, pos) = [ok |-> TRUE, number |-> key.value \div 8,
                          wire |-> key.value % 8, value |-> v.value,
                          next |-> v.next]
  BY <1>1, <1>2, FieldType
<1>4. PICK n \in Nat, next \in pos + 1 .. Len(u) + 1 :
            key = [ok |-> TRUE, value |-> n, next |-> next]
  BY <1>1, <1>3, VarintType
<1>5. next \in Nat \ {0}
  BY <1>4 DEF Bytes
<1>6. ReadVarint(buf, q + pos) = [ok |-> TRUE, value |-> n, next |-> q + next]
  <2>1. key.value = n /\ key.next = next
    BY <1>4
  <2>2. ReadVarint(buf, q + pos)
          = [ok |-> TRUE, value |-> key.value, next |-> q + key.next]
    BY <1>1, <1>3, VarintShift
  <2>. QED
    BY <2>1, <2>2
<1>7. ReadValue(buf, q + next, n % 8) = Moved(v, q)
  BY <1>2, <1>3, <1>4, <1>5, ValueShift
<1>8. ReadField(buf, q + pos) = Field(ReadVarint(buf, q + pos), Moved(v, q))
  BY <1>6, <1>7 DEF ReadField, ReadAfterKey
<1>9. Field(ReadVarint(buf, q + pos), Moved(v, q))
        = [ok |-> TRUE, number |-> n \div 8, wire |-> n % 8,
           value |-> v.value, next |-> q + v.next]
  <2>1. PICK a : a = [ok |-> TRUE, value |-> n, next |-> q + next]
    OBVIOUS
  <2>2. PICK b : b = [ok |-> TRUE, value |-> v.value, next |-> q + v.next]
    OBVIOUS
  <2>3. Field(a, b) = [ok |-> TRUE, number |-> n \div 8, wire |-> n % 8,
                       value |-> v.value, next |-> q + v.next]
    BY <2>1, <2>2 DEF Field
  <2>. QED
    BY <2>1, <2>2, <2>3, <1>6 DEF Moved
<1>10. ReadField(u, pos) = [ok |-> TRUE, number |-> n \div 8, wire |-> n % 8,
                            value |-> v.value, next |-> v.next]
  <2>1. key.value = n
    BY <1>4
  <2>. QED
    BY <1>3, <2>1
<1>11. PICK f : f = ReadField(u, pos)
  OBVIOUS
<1>12. /\ f.number = n \div 8 /\ f.wire = n % 8
       /\ f.value = v.value /\ f.next = v.next
  BY <1>10, <1>11
<1>13. ReadField(buf, q + pos)
         = [ok |-> TRUE, number |-> f.number, wire |-> f.wire,
            value |-> f.value, next |-> q + f.next]
  BY <1>8, <1>9, <1>12
<1>. QED
  BY <1>11, <1>13

-----------------------------------------------------------------------------
(* What is written of a field is read as that field                        *)

\* u is a field, whole.
Spells(u, number, wire, value) ==
    /\ u \in Bytes
    /\ ReadField(u, 1) = [ok |-> TRUE, number |-> number, wire |-> wire,
                          value |-> value, next |-> Len(u) + 1]

LEMMA AtConcat ==
  ASSUME NEW a \in Bytes, NEW b \in Bytes
  PROVE  /\ a \o b \in Bytes /\ Len(a \o b) = Len(a) + Len(b)
         /\ Len(a) \in Nat /\ Len(b) \in Nat
         /\ At(a \o b, 0, a) /\ At(a \o b, Len(a), b)
<1>1. PICK c : c = a \o b
  OBVIOUS
<1>2. /\ c \in Bytes /\ Len(c) = Len(a) + Len(b)
      /\ Len(a) \in Nat /\ Len(b) \in Nat
      /\ \A i \in 1 .. Len(a) + Len(b) :
            c[i] = IF i <= Len(a) THEN a[i] ELSE b[i - Len(a)]
  BY <1>1, ConcatProperties DEF Bytes
<1>3. At(c, 0, a)
  <2>1. ASSUME NEW i \in 1 .. Len(a) PROVE c[0 + i] = a[i]
    <3>1. 0 + i = i /\ i \in 1 .. Len(a) + Len(b) /\ i <= Len(a)
      BY <1>2
    <3>. QED
      BY <3>1, <1>2
  <2>. QED
    BY <1>2, <2>1 DEF At
<1>4. At(c, Len(a), b)
  <2>1. ASSUME NEW i \in 1 .. Len(b) PROVE c[Len(a) + i] = b[i]
    <3>1. /\ Len(a) + i \in 1 .. Len(a) + Len(b) /\ ~ (Len(a) + i <= Len(a))
          /\ (Len(a) + i) - Len(a) = i
      BY <1>2
    <3>. QED
      BY <3>1, <1>2
  <2>. QED
    BY <1>2, <2>1 DEF At
<1>. QED
  BY <1>1, <1>2, <1>3, <1>4

LEMMA Digits8 ==
  ASSUME NEW n \in Nat, NEW w \in 0 .. 7
  PROVE  (8 * n + w) \div 8 = n /\ (8 * n + w) % 8 = w
<1>1. PICK x \in Nat : x = 8 * n + w
  OBVIOUS
<1>2. x \div 8 \in Nat /\ x % 8 \in 0 .. 7 /\ x = (x % 8) + 8 * (x \div 8)
  OBVIOUS
<1>3. PICK h \in Nat, r \in 0 .. 7 : h = x \div 8 /\ r = x % 8
  BY <1>2
<1>4. 8 * n + w = r + 8 * h
  BY <1>1, <1>2, <1>3
<1>5. h = n
  BY <1>4
<1>. QED
  BY <1>1, <1>3, <1>4, <1>5

LEMMA KeyIs ==
  ASSUME NEW number \in 1 .. 15, NEW wire \in 0 .. 7
  PROVE  Key(number, wire) \in Bytes /\ Len(Key(number, wire)) = 1
<1>1. PICK k : k = 8 * number + wire
  OBVIOUS
<1>2. k \in Nat /\ k < 128 /\ k \in 0 .. 255
  BY <1>1
<1>3. Key(number, wire) = <<k>> /\ Len(<<k>>) = 1
  BY <1>1, <1>2, VarintWritten DEF Key
<1>. QED
  BY <1>2, <1>3, OneByte

\* Any key.
LEMMA AnyKeyIs ==
  ASSUME NEW number, NEW wire, IsKey(number, wire)
  PROVE  /\ number \in Nat /\ wire \in 0 .. 7 /\ 8 * number + wire \in Numbers
         /\ Key(number, wire) \in Bytes /\ Len(Key(number, wire)) \in Nat
<1>1. number \in Nat /\ wire \in 0 .. 7 /\ FitsIn(8 * number + wire, 5, 15)
  BY DEF IsKey
<1>2. PICK k \in Nat : k = 8 * number + wire
  BY <1>1
<1>3. PICK b \in Bytes : b = Varint[k] /\ Len(b) \in Nat
  BY VarintWritten DEF Bytes
<1>4. k \in Numbers
  <2>1. PICK l \in Nat : l = Len(b) /\ l <= 5
    BY <1>1, <1>2, <1>3 DEF FitsIn
  <2>2. l <= 10 /\ l # 10
    <3>1. l <= 5
      BY <2>1
    <3>. QED
      BY <3>1
  <2>. QED
    BY <2>1, <2>2, <1>3 DEF Numbers, FitsIn
<1>. QED
  BY <1>1, <1>2, <1>3, <1>4 DEF Key

LEMMA KeyRead ==
  ASSUME NEW number, NEW wire, IsKey(number, wire), NEW rest \in Bytes
  PROVE  ReadVarint(Key(number, wire) \o rest, 1)
           = [ok |-> TRUE, value |-> 8 * number + wire,
              next |-> Len(Key(number, wire)) + 1]
<1>1. PICK k : k = 8 * number + wire /\ k \in Numbers
  BY AnyKeyIs
<1>2. PICK u : u = Varint[k] /\ u = Key(number, wire) /\ u \in Bytes
  BY <1>1, AnyKeyIs DEF Key
<1>3. ReadVarint(u, 1) = [ok |-> TRUE, value |-> k, next |-> Len(u) + 1]
  BY <1>1, <1>2, VarintRead
<1>4. At(u \o rest, 0, u) /\ u \o rest \in Bytes /\ Len(u) \in Nat
  BY <1>2, AtConcat
<1>5. ReadVarint(u \o rest, 0 + 1)
        = [ok |-> TRUE, value |-> ReadVarint(u, 1).value,
           next |-> 0 + ReadVarint(u, 1).next]
  <2>1. PICK pos \in Nat \ {0} : pos = 1
    OBVIOUS
  <2>2. ReadVarint(u, pos).ok
    BY <1>3, <2>1
  <2>3. PICK buf \in Bytes : buf = u \o rest /\ At(buf, 0, u)
    BY <1>4
  <2>4. ReadVarint(buf, 0 + pos)
          = [ok |-> TRUE, value |-> ReadVarint(u, pos).value,
             next |-> 0 + ReadVarint(u, pos).next]
    BY <1>2, <2>2, <2>3, VarintShift
  <2>. QED
    BY <2>1, <2>3, <2>4
<1>6. 0 + 1 = 1 /\ 0 + (Len(u) + 1) = Len(u) + 1
  BY <1>4
<1>7. ReadVarint(u, 1).value = k /\ ReadVarint(u, 1).next = Len(u) + 1
  BY <1>3
<1>. QED
  BY <1>1, <1>2, <1>5, <1>6, <1>7

\* A key and a value behind it.
LEMMA FieldRead ==
  ASSUME NEW number, NEW wire, IsKey(number, wire), NEW rest \in Bytes,
         NEW value, NEW q, q = Len(Key(number, wire)),
         ReadValue(Key(number, wire) \o rest, q + 1, wire)
           = [ok |-> TRUE, value |-> value, next |-> q + (Len(rest) + 1)]
  PROVE  Spells(Key(number, wire) \o rest, number, wire, value)
<1>1. PICK u : u = Key(number, wire) \o rest
  OBVIOUS
<1>2. u \in Bytes /\ Len(u) = q + Len(rest) /\ Len(rest) \in Nat /\ q \in Nat
  <2>1. PICK a \in Bytes : a = Key(number, wire) /\ Len(a) = q /\ q \in Nat
    BY AnyKeyIs
  <2>2. u \in Bytes /\ Len(u) = Len(a) + Len(rest) /\ Len(rest) \in Nat
    BY <1>1, <2>1, AtConcat
  <2>. QED
    BY <2>1, <2>2
<1>3. PICK k : k = 8 * number + wire
  OBVIOUS
<1>4. k \div 8 = number /\ k % 8 = wire
  BY <1>3, Digits8, AnyKeyIs
<1>5. ReadVarint(u, 1) = [ok |-> TRUE, value |-> k, next |-> q + 1]
  BY <1>1, <1>3, KeyRead
<1>6. PICK key : key = [ok |-> TRUE, value |-> k, next |-> q + 1]
  OBVIOUS
<1>7. PICK v : v = [ok |-> TRUE, value |-> value, next |-> q + (Len(rest) + 1)]
  OBVIOUS
<1>8. ReadField(u, 1) = ReadAfterKey(u, key)
  BY <1>5, <1>6 DEF ReadField
<1>9. ReadAfterKey(u, key) = Field(key, v)
  BY <1>1, <1>4, <1>6, <1>7 DEF ReadAfterKey
<1>10. Field(key, v) = [ok |-> TRUE, number |-> number, wire |-> wire,
                        value |-> value, next |-> q + (Len(rest) + 1)]
  BY <1>4, <1>6, <1>7 DEF Field
<1>11. q + (Len(rest) + 1) = Len(u) + 1
  BY <1>2
<1>. QED
  BY <1>1, <1>2, <1>8, <1>9, <1>10, <1>11 DEF Spells

\* Bytes are read as they are.
LEMMA FixedRead ==
  ASSUME NEW s \in Bytes, NEW buf \in Bytes, NEW q, At(buf, q, s)
  PROVE  ReadFixed(buf, q + 1, Len(s))
           = [ok |-> TRUE, value |-> s, next |-> q + (Len(s) + 1)]
<1>1. Len(s) \in Nat /\ SubSeq(s, 1, Len(s)) = s
  BY DEF Bytes
<1>2. ReadFixed(s, 1, Len(s)) = [ok |-> TRUE, value |-> s, next |-> Len(s) + 1]
  <2>1. /\ ~ (1 + Len(s) - 1 > Len(s)) /\ 1 + Len(s) - 1 = Len(s)
        /\ 1 + Len(s) = Len(s) + 1
    BY <1>1
  <2>. QED
    BY <1>1, <2>1 DEF ReadFixed
<1>3. 1 \in Nat \ {0}
  OBVIOUS
<1>4. PICK r : r = ReadFixed(s, 1, Len(s))
  OBVIOUS
<1>5. r.ok /\ r.value = s /\ r.next = Len(s) + 1
  BY <1>2, <1>4
<1>6. ReadFixed(buf, q + 1, Len(s)) = Moved(r, q)
  BY <1>1, <1>3, <1>4, <1>5, FixedShift
<1>. QED
  BY <1>5, <1>6 DEF Moved

LEMMA VarintFieldRead ==
  ASSUME NEW number, IsKey(number, 0), NEW n \in Numbers
  PROVE  Spells(Key(number, 0) \o Varint[n], number, 0, n)
<1>1. PICK s : s = Varint[n] /\ s \in Bytes
  BY VarintWritten DEF Numbers
<1>2. PICK a, q : a = Key(number, 0) /\ a \in Bytes /\ q = Len(a) /\ q \in Nat
  BY AnyKeyIs
<1>3. At(a \o s, q, s) /\ a \o s \in Bytes /\ Len(s) \in Nat
  BY <1>1, <1>2, AtConcat
<1>4. /\ ReadVarint(s, 1).ok /\ ReadVarint(s, 1).value = n
      /\ ReadVarint(s, 1).next = Len(s) + 1
  <2>1. ReadVarint(s, 1) = [ok |-> TRUE, value |-> n, next |-> Len(s) + 1]
    BY <1>1, VarintRead
  <2>. QED
    BY <2>1
<1>5. ReadVarint(a \o s, q + 1)
        = [ok |-> TRUE, value |-> n, next |-> q + (Len(s) + 1)]
  <2>1. 1 \in Nat \ {0}
    OBVIOUS
  <2>. QED
    BY <1>1, <1>3, <1>4, <2>1, VarintShift
<1>6. ReadValue(a \o s, q + 1, 0) = ReadVarint(a \o s, q + 1)
  BY DEF ReadValue
<1>. QED
  BY <1>1, <1>2, <1>5, <1>6, FieldRead

LEMMA FixedFieldRead ==
  ASSUME NEW number, NEW wire \in {1, 5}, IsKey(number, wire),
         NEW d \in Bytes, Len(d) = (IF wire = 1 THEN 8 ELSE 4)
  PROVE  Spells(Key(number, wire) \o d, number, wire, d)
<1>1. PICK a, q : a = Key(number, wire) /\ a \in Bytes /\ q = Len(a) /\ q \in Nat
  BY AnyKeyIs
<1>2. At(a \o d, q, d) /\ a \o d \in Bytes
  BY <1>1, AtConcat
<1>3. ReadFixed(a \o d, q + 1, Len(d))
        = [ok |-> TRUE, value |-> d, next |-> q + (Len(d) + 1)]
  BY <1>2, FixedRead
<1>4. ReadValue(a \o d, q + 1, wire) = ReadFixed(a \o d, q + 1, Len(d))
  <2>1. CASE wire = 1
    BY <2>1 DEF ReadValue
  <2>2. CASE wire = 5
    BY <2>2 DEF ReadValue
  <2>. QED
    BY <2>1, <2>2
<1>. QED
  BY <1>1, <1>3, <1>4, FieldRead

LEMMA StringFieldRead ==
  ASSUME NEW number, IsKey(number, 2), NEW s \in Bytes, Len(s) \in Numbers
  PROVE  Spells(Key(number, 2) \o (Varint[Len(s)] \o s), number, 2, s)
<1>1. PICK l : l = Varint[Len(s)] /\ l \in Bytes
  BY VarintWritten DEF Numbers
<1>2. PICK a, q : a = Key(number, 2) /\ a \in Bytes /\ q = Len(a) /\ q \in Nat
  BY AnyKeyIs
<1>3. /\ l \o s \in Bytes /\ Len(l \o s) = Len(l) + Len(s)
      /\ Len(l) \in Nat /\ Len(s) \in Nat
      /\ At(l \o s, 0, l) /\ At(l \o s, Len(l), s)
  BY <1>1, AtConcat
<1>4. PICK u : u = a \o (l \o s)
  OBVIOUS
<1>5. At(u, q, l \o s) /\ u \in Bytes
  BY <1>2, <1>3, <1>4, AtConcat
<1>6. At(u, q, l) /\ At(u, q + Len(l), s)
  <2>1. PICK r : r = l \o s
    OBVIOUS
  <2>2. \A i \in 1 .. Len(r) : u[q + i] = r[i]
    BY <1>5, <2>1 DEF At
  <2>3. q + Len(r) <= Len(u) /\ Len(r) = Len(l) + Len(s) /\ Len(u) \in Nat
    BY <1>2, <1>3, <1>5, <2>1 DEF At, Bytes
  <2>4. ASSUME NEW i \in 1 .. Len(l) PROVE u[q + i] = l[i]
    <3>1. i \in 1 .. Len(r) /\ 0 + i = i
      BY <1>3, <2>3
    <3>2. r[0 + i] = l[i]
      BY <1>3, <2>1 DEF At
    <3>. QED
      BY <2>2, <3>1, <3>2
  <2>5. ASSUME NEW i \in 1 .. Len(s) PROVE u[(q + Len(l)) + i] = s[i]
    <3>1. Len(l) + i \in 1 .. Len(r) /\ (q + Len(l)) + i = q + (Len(l) + i)
      BY <1>2, <1>3, <2>3
    <3>2. r[Len(l) + i] = s[i]
      BY <1>3, <2>1 DEF At
    <3>. QED
      BY <2>2, <3>1, <3>2
  <2>6. /\ q \in Nat /\ q + Len(l) \in Nat
        /\ q + Len(l) <= Len(u) /\ (q + Len(l)) + Len(s) <= Len(u)
    BY <1>2, <1>3, <2>3
  <2>. QED
    BY <2>4, <2>5, <2>6 DEF At
<1>7. /\ ReadVarint(l, 1).ok /\ ReadVarint(l, 1).value = Len(s)
      /\ ReadVarint(l, 1).next = Len(l) + 1
  <2>1. ReadVarint(l, 1) = [ok |-> TRUE, value |-> Len(s), next |-> Len(l) + 1]
    BY <1>1, VarintRead
  <2>. QED
    BY <2>1
<1>8. ReadVarint(u, q + 1)
        = [ok |-> TRUE, value |-> Len(s), next |-> q + (Len(l) + 1)]
  <2>1. 1 \in Nat \ {0}
    OBVIOUS
  <2>2. ReadVarint(u, q + 1)
          = [ok |-> TRUE, value |-> ReadVarint(l, 1).value,
             next |-> q + ReadVarint(l, 1).next]
    <3>1. u \in Bytes /\ l \in Bytes /\ At(u, q, l)
      BY <1>1, <1>5, <1>6
    <3>2. ReadVarint(l, 1).ok /\ 1 \in Nat
      BY <1>7
    <3>. QED
      BY <2>1, <3>1, <3>2, VarintShift
  <2>. QED
    BY <1>7, <2>2
<1>9. ReadFixed(u, (q + Len(l)) + 1, Len(s))
        = [ok |-> TRUE, value |-> s, next |-> (q + Len(l)) + (Len(s) + 1)]
  BY <1>5, <1>6, FixedRead
<1>10. /\ q + (Len(l) + 1) = (q + Len(l)) + 1
       /\ (q + Len(l)) + (Len(s) + 1) = q + (Len(l \o s) + 1)
  BY <1>2, <1>3
<1>11. ReadValue(u, q + 1, 2) = ReadFixed(u, (q + Len(l)) + 1, Len(s))
  <2>1. PICK v : v = ReadVarint(u, q + 1)
    OBVIOUS
  <2>2. v.ok /\ v.value = Len(s) /\ v.next = (q + Len(l)) + 1
    BY <2>1, <1>8, <1>10
  <2>3. ReadValue(u, q + 1, 2) = ReadCounted(u, v)
    BY <2>1 DEF ReadValue, ReadDelimited
  <2>. QED
    BY <2>2, <2>3 DEF ReadCounted
<1>. QED
  BY <1>1, <1>2, <1>3, <1>4, <1>9, <1>10, <1>11, FieldRead

\* The numbers of the tables, and what is written for them.
LEMMA SmallKeys ==
  ASSUME NEW number \in 1 .. 15, NEW wire \in 0 .. 7
  PROVE  IsKey(number, wire)
<1>1. PICK k : k = 8 * number + wire
  OBVIOUS
<1>2. k \in Nat /\ k < 128 /\ number \in Nat \ {0}
  BY <1>1
<1>3. PICK b : b = Varint[k] /\ Len(b) = 1
  <2>1. Varint[k] = <<k>>
    BY <1>2, VarintWritten
  <2>2. Len(<<k>>) = 1
    OBVIOUS
  <2>. QED
    BY <2>1, <2>2
<1>4. Len(b) <= 5 /\ Len(b) # 5
  BY <1>3
<1>. QED
  BY <1>1, <1>2, <1>3, <1>4 DEF IsKey, FitsIn

LEMMA AtWithin ==
  ASSUME NEW c \in Bytes, NEW b \in Bytes, NEW a \in Bytes, NEW p, NEW q,
         At(c, p, b), At(b, q, a)
  PROVE  At(c, p + q, a)
<1>1. /\ p \in Nat /\ q \in Nat /\ p + Len(b) <= Len(c) /\ q + Len(a) <= Len(b)
      /\ Len(a) \in Nat /\ Len(b) \in Nat /\ Len(c) \in Nat
  BY DEF At, Bytes
<1>2. ASSUME NEW i \in 1 .. Len(a) PROVE c[(p + q) + i] = a[i]
  <2>1. q + i \in 1 .. Len(b) /\ p + (q + i) = (p + q) + i
    BY <1>1
  <2>2. c[p + (q + i)] = b[q + i] /\ b[q + i] = a[i]
    BY <2>1 DEF At
  <2>. QED
    BY <2>1, <2>2
<1>. QED
  BY <1>1, <1>2 DEF At

-----------------------------------------------------------------------------
(* The fields of a sequence of whole fields                                *)

\* What a field says.
Facts == [number : Nat, wire : 0 .. 7, value : Nat \cup Bytes]

\* The bytes u are the fields U, one after the other, which say fs.
Says(u, U, fs) ==
    /\ U \in Seq(Bytes) /\ u = FlattenSeq(U)
    /\ fs \in Seq(Facts) /\ Len(fs) = Len(U)
    /\ \A i \in 1 .. Len(U) :
          Spells(U[i], fs[i].number, fs[i].wire, fs[i].value)

\* Where the field after the first k of them is.
Start(U, k) == Len(FlattenSeq(SubSeq(U, 1, k)))

LEMMA FlatBytes ==
  ASSUME NEW U \in Seq(Bytes)
  PROVE  FlattenSeq(U) \in Bytes
  BY FlatType DEF Bytes

LEMMA ChunkAt ==
  ASSUME NEW U \in Seq(Bytes), NEW r \in Bytes, NEW k \in Nat, k < Len(U)
  PROVE  /\ U[k + 1] \in Bytes
         /\ Start(U, k) \in Nat
         /\ At(FlattenSeq(U) \o r, Start(U, k), U[k + 1])
         /\ Start(U, k + 1) = Start(U, k) + Len(U[k + 1])
         /\ FlattenSeq(U) \o r \in Bytes
<1>1. PICK A : A = SubSeq(U, 1, k) /\ A \in Seq(Bytes)
  <2>1. k \in 0 .. Len(U)
    OBVIOUS
  <2>. QED
    BY <2>1, FirstOnes
<1>2. PICK x \in Bytes : x = U[k + 1]
  OBVIOUS
<1>3. PICK C \in Seq(Bytes) :
          /\ SubSeq(U, 1, k + 1) = Append(A, x) /\ Append(A, x) \in Seq(Bytes)
          /\ U = Append(A, x) \o C
  <2>1. k + 1 \in 0 .. Len(U) /\ k \in 0 .. Len(U)
    OBVIOUS
  <2>2. SubSeq(U, 1, k + 1) = Append(A, x)
    BY <1>1, <1>2, <2>1, FirstOnes
  <2>3. /\ SubSeq(U, 1, k + 1) \in Seq(Bytes)
        /\ SubSeq(U, (k + 1) + 1, Len(U)) \in Seq(Bytes)
        /\ U = SubSeq(U, 1, k + 1) \o SubSeq(U, (k + 1) + 1, Len(U))
    BY <2>1, CutInTwo
  <2>. QED
    BY <2>2, <2>3
<1>4. PICK a : a = FlattenSeq(A) /\ a \in Bytes
  BY <1>1, FlatBytes
<1>5. PICK c : c = FlattenSeq(C) /\ c \in Bytes
  BY FlatBytes
<1>6. FlattenSeq(Append(A, x)) = a \o x
  <2>1. A \in Seq(Seq(0 .. 255)) /\ x \in Seq(0 .. 255)
    BY <1>1 DEF Bytes
  <2>. QED
    BY <2>1, <1>4, FlatAppend
<1>7. FlattenSeq(U) = (a \o x) \o c
  <2>1. Append(A, x) \in Seq(Seq(0 .. 255)) /\ C \in Seq(Seq(0 .. 255))
    BY <1>3 DEF Bytes
  <2>2. FlattenSeq(Append(A, x) \o C) = FlattenSeq(Append(A, x)) \o FlattenSeq(C)
    BY <2>1, FlatConcat
  <2>. QED
    BY <2>2, <1>3, <1>4, <1>6, <1>5
<1>8. PICK ax \in Bytes : ax = a \o x
  BY <1>4, AtConcat
<1>9. PICK axc \in Bytes : axc = ax \o c
  BY <1>5, AtConcat
<1>10. /\ At(ax, Len(a), x) /\ Len(ax) = Len(a) + Len(x) /\ Len(a) \in Nat
      /\ At(axc, 0, ax) /\ At(axc \o r, 0, axc) /\ axc \o r \in Bytes
  BY <1>4, <1>8, <1>9, <1>5, AtConcat
<1>11. At(axc \o r, Len(a), x)
  <2>1. At(axc \o r, 0 + 0, ax)
    BY <1>10, AtWithin
  <2>2. At(axc \o r, (0 + 0) + Len(a), x)
    BY <2>1, <1>10, AtWithin
  <2>3. (0 + 0) + Len(a) = Len(a)
    BY <1>10
  <2>. QED
    BY <2>2, <2>3
<1>. QED
  BY <1>1, <1>2, <1>3, <1>4, <1>6, <1>7, <1>8, <1>9, <1>10, <1>11 DEF Start

\* What is read of buf from each position on.
Read(buf) == {ReadField(buf, pos) : pos \in 1 .. Len(buf)}
FieldsFrom(buf, from) ==
    /\ from[1] = Fields(buf)
    /\ from[Len(buf) + 1] = << >>
    /\ \A pos \in 1 .. Len(buf) + 1 : from[pos] \in Seq(Read(buf))
    /\ \A pos \in 1 .. Len(buf) :
          from[pos] = <<ReadField(buf, pos)>>
                        \o (IF ReadField(buf, pos).ok
                            THEN from[ReadField(buf, pos).next] ELSE << >>)

LEMMA FieldsRead ==
  ASSUME NEW buf \in Bytes
  PROVE  \E from : FieldsFrom(buf, from)
<1>. DEFINE D == 1 .. Len(buf) + 1
            V == Seq(Read(buf))
            Edge == Len(buf) + 1
            Stop == {pos \in D : pos = Edge \/ ~ ReadField(buf, pos).ok}
            measure == [pos \in D |-> Edge - pos]
            base == [pos \in D |-> IF pos = Edge THEN << >>
                                   ELSE <<ReadField(buf, pos)>>]
            before == [pos \in D |-> IF pos \in Stop THEN pos
                                     ELSE ReadField(buf, pos).next]
            step == [p \in D \X V |-> IF p[1] = Edge THEN << >>
                                      ELSE <<ReadField(buf, p[1])>> \o p[2]]
            G(g) == g = [pos \in D |->
                IF pos > Len(buf) THEN << >>
                ELSE LET f == ReadField(buf, pos)
                     IN  <<f>> \o (IF f.ok THEN g[f.next] ELSE << >>)]
<1>1. Len(buf) \in Nat
  BY DEF Bytes
<1>2. \A pos \in D : pos # Edge => pos \in 1 .. Len(buf) /\ ~ (pos > Len(buf))
  BY <1>1
<1>3. Edge \in D /\ 1 \in D /\ Edge > Len(buf)
  BY <1>1
<1>4. \A pos \in D \ Stop : /\ ReadField(buf, pos).next \in D
                            /\ ReadField(buf, pos).next > pos
  <2>. SUFFICES ASSUME NEW pos \in D \ Stop
                PROVE  /\ ReadField(buf, pos).next \in D
                       /\ ReadField(buf, pos).next > pos
    OBVIOUS
  <2>1. pos \in Nat \ {0} /\ ReadField(buf, pos).ok
    BY <1>1
  <2>2. ReadField(buf, pos).next \in pos + 1 .. Len(buf) + 1
    BY <2>1, FieldType
  <2>. QED
    BY <1>1, <2>1, <2>2
<1>5. \A pos \in D : pos # Edge => ReadField(buf, pos) \in Read(buf)
  BY <1>2 DEF Read
<1>6. Stop \in SUBSET D /\ measure \in [D -> Nat]
  BY <1>1
<1>7. base \in [D -> V]
  BY <1>5
<1>8. before \in [D -> D]
  <2>. HIDE DEF Stop, D
  <2>. QED
    BY <1>4
<1>9. step \in Steps(D, V)
  <2>. HIDE DEF D, Edge
  <2>. SUFFICES ASSUME NEW pos \in D, NEW s \in V
                PROVE  (IF pos = Edge THEN << >>
                        ELSE <<ReadField(buf, pos)>> \o s) \in V
    BY DEF Steps
  <2>. QED
    BY <1>5
<1>10. \A pos \in D \ Stop : measure[before[pos]] < measure[pos]
  <2>. SUFFICES ASSUME NEW pos \in D \ Stop
                PROVE  measure[before[pos]] < measure[pos]
    OBVIOUS
  <2>1. PICK next : next = ReadField(buf, pos).next /\ next \in D /\ next > pos
    BY <1>4
  <2>2. before[pos] = next
    BY <2>1
  <2>. QED
    BY <1>1, <2>1, <2>2
<1>11. PICK h : Recursion(h, D, V, Stop, base, before, step)
  <2>. HIDE DEF D, V, Stop, measure, base, before, step
  <2>. QED
    BY <1>6, <1>7, <1>8, <1>9, <1>10, RecursionDefined
<1>12. h \in [D -> V]
  BY <1>11 DEF Recursion
<1>13. \A pos \in D : h[pos] = IF pos > Len(buf) THEN << >>
                              ELSE LET f == ReadField(buf, pos)
                                   IN  <<f>> \o (IF f.ok THEN h[f.next] ELSE << >>)
  <2>. SUFFICES ASSUME NEW pos \in D
                PROVE  h[pos] = IF pos > Len(buf) THEN << >>
                              ELSE LET f == ReadField(buf, pos)
                                   IN  <<f>> \o (IF f.ok THEN h[f.next] ELSE << >>)
    OBVIOUS
  <2>1. PICK f : f = ReadField(buf, pos)
    OBVIOUS
  <2>2. CASE pos = Edge
    <3>1. h[pos] = base[pos] /\ pos > Len(buf)
      BY <1>3, <1>11, <2>2 DEF Recursion
    <3>. QED
      BY <3>1, <2>2
  <2>3. CASE pos # Edge /\ ~ f.ok
    <3>1. h[pos] = base[pos] /\ ~ (pos > Len(buf))
      BY <1>2, <1>11, <2>1, <2>3 DEF Recursion
    <3>2. h[pos] = <<f>> /\ <<f>> \o << >> = <<f>>
      BY <3>1, <2>1, <2>3
    <3>. QED
      BY <3>1, <3>2, <2>1, <2>3
  <2>4. CASE pos # Edge /\ f.ok
    <3>1. pos \in D \ Stop /\ ~ (pos > Len(buf))
      BY <1>2, <2>1, <2>4
    <3>2. before[pos] = f.next /\ f.next \in D /\ h[f.next] \in V
      BY <1>4, <1>12, <2>1, <3>1
    <3>3. h[pos] = step[<<pos, h[f.next]>>]
      BY <1>11, <3>1, <3>2 DEF Recursion
    <3>4. h[pos] = <<f>> \o h[f.next]
      BY <3>2, <3>3, <2>1, <2>4
    <3>. QED
      BY <3>1, <3>4, <2>1, <2>4
  <2>. QED
    BY <2>2, <2>3, <2>4
<1>14. h = [pos \in D |-> h[pos]]
  BY <1>12
<1>15. h = [pos \in D |->
              IF pos > Len(buf) THEN << >>
              ELSE LET f == ReadField(buf, pos)
                   IN  <<f>> \o (IF f.ok THEN h[f.next] ELSE << >>)]
  <2>. HIDE DEF D
  <2>. QED
    BY <1>13, <1>14
<1>16. G(h)
  BY <1>15
<1>. DEFINE from == CHOOSE g : G(g)
<1>17. G(from)
  BY <1>16
<1>18. Fields(buf) = from[1]
  BY DEF Fields, from
<1>. HIDE DEF from
<1>19. \A pos \in D : from[pos] = IF pos > Len(buf) THEN << >>
                              ELSE LET f == ReadField(buf, pos)
                                   IN  <<f>> \o (IF f.ok THEN from[f.next] ELSE << >>)
  <2>. HIDE DEF D
  <2>. QED
    BY <1>17
<1>20. from[Edge] = << >>
  BY <1>3, <1>19
<1>21. ASSUME NEW pos \in 1 .. Len(buf)
       PROVE  from[pos] = <<ReadField(buf, pos)>>
                            \o (IF ReadField(buf, pos).ok
                                THEN from[ReadField(buf, pos).next] ELSE << >>)
  <2>1. pos \in D /\ ~ (pos > Len(buf))
    BY <1>1
  <2>. HIDE DEF D
  <2>. QED
    BY <1>19, <2>1
<1>. DEFINE S == {k \in Nat : \A pos \in D : Edge - pos <= k => from[pos] \in V}
<1>22. 0 \in S
  <2>. SUFFICES ASSUME NEW pos \in D, Edge - pos <= 0 PROVE from[pos] \in V
    OBVIOUS
  <2>1. pos = Edge
    BY <1>1
  <2>2. << >> \in V
    OBVIOUS
  <2>. QED
    BY <2>1, <2>2, <1>20
<1>23. ASSUME NEW k \in Nat, k \in S PROVE k + 1 \in S
  <2>. SUFFICES ASSUME NEW pos \in D, Edge - pos <= k + 1 PROVE from[pos] \in V
    OBVIOUS
  <2>1. CASE pos = Edge
    BY <2>1, <1>20
  <2>2. CASE pos # Edge
    <3>1. PICK f : f = ReadField(buf, pos)
      OBVIOUS
    <3>2. pos \in 1 .. Len(buf) /\ f \in Read(buf)
      BY <3>1, <2>2, <1>2, <1>5
    <3>3. PICK rest : rest = IF f.ok THEN from[f.next] ELSE << >>
      OBVIOUS
    <3>4. rest \in V
      <4>1. CASE f.ok
        <5>1. f.next \in D /\ f.next > pos
          <6>1. pos \in D \ Stop
            BY <3>1, <2>2, <4>1
          <6>. QED
            BY <6>1, <3>1, <1>4
        <5>2. Edge - f.next <= k
          BY <5>1, <1>1
        <5>3. from[f.next] \in V
          BY <5>1, <5>2, <1>23
        <5>. QED
          BY <5>3, <4>1, <3>3
      <4>2. CASE ~ f.ok
        BY <4>2, <3>3
      <4>. QED
        BY <4>1, <4>2
    <3>5. from[pos] = <<f>> \o rest
      BY <1>21, <3>1, <3>2, <3>3
    <3>. QED
      BY <3>2, <3>4, <3>5
  <2>. QED
    BY <2>1, <2>2
<1>24. \A pos \in D : from[pos] \in V
  <2>1. Len(buf) \in S
    <3>. HIDE DEF S
    <3>. QED
      BY <1>1, <1>22, <1>23, Induction
  <2>2. \A pos \in D : Edge - pos <= Len(buf)
    BY <1>1
  <2>. QED
    BY <2>1, <2>2
<1>. QED
  BY <1>18, <1>20, <1>21, <1>24 DEF FieldsFrom

\* The field that says f and ends before next.
FieldOf(f, next) ==
    [ok |-> TRUE, number |-> f.number, wire |-> f.wire, value |-> f.value,
     next |-> next]

\* A field that one of a sequence of whole fields, and then more bytes, has.
LEMMA FieldIs ==
  ASSUME NEW u, NEW U, NEW fs, Says(u, U, fs), NEW r \in Bytes,
         NEW k \in Nat, k < Len(U)
  PROVE  /\ u \o r \in Bytes
         /\ Start(U, k) + 1 \in 1 .. Len(u \o r)
         /\ ReadField(u \o r, Start(U, k) + 1)
              = FieldOf(fs[k + 1], Start(U, k + 1) + 1)
<1>1. PICK buf : buf = u \o r
  OBVIOUS
<1>2. PICK q : q = Start(U, k)
  OBVIOUS
<1>3. PICK x : x = U[k + 1]
  OBVIOUS
<1>4. PICK f : f = fs[k + 1]
  OBVIOUS
<1>5. /\ x \in Bytes /\ q \in Nat /\ At(buf, q, x) /\ buf \in Bytes
      /\ Start(U, k + 1) = q + Len(x)
  BY <1>1, <1>2, <1>3, ChunkAt DEF Says
<1>6. ReadField(x, 1) = FieldOf(f, Len(x) + 1)
  <2>1. U \in Seq(Bytes)
    BY DEF Says
  <2>2. k + 1 \in 1 .. Len(U)
    BY <2>1
  <2>. QED
    BY <2>2, <1>3, <1>4 DEF Says, Spells, FieldOf
<1>7. PICK g : g = ReadField(x, 1)
  OBVIOUS
<1>8. /\ g.ok /\ g.number = f.number /\ g.wire = f.wire /\ g.value = f.value
      /\ g.next = Len(x) + 1
  BY <1>6, <1>7 DEF FieldOf
<1>9. 1 \in Nat \ {0}
  OBVIOUS
<1>10. ReadField(buf, q + 1)
         = [ok |-> TRUE, number |-> g.number, wire |-> g.wire,
            value |-> g.value, next |-> q + g.next]
  BY <1>5, <1>7, <1>8, <1>9, FieldShift
<1>11. /\ Len(x) \in Nat /\ Len(buf) \in Nat /\ q + Len(x) <= Len(buf)
       /\ q + (Len(x) + 1) = (q + Len(x)) + 1
  BY <1>5 DEF Bytes, At
<1>12. Len(x) + 1 \in 2 .. Len(x) + 1
  <2>1. g.next \in 1 + 1 .. Len(x) + 1
    BY <1>5, <1>7, <1>8, <1>9, FieldType
  <2>. QED
    BY <2>1, <1>8
<1>13. q + 1 \in 1 .. Len(buf)
  BY <1>5, <1>11, <1>12
<1>. QED
  BY <1>1, <1>2, <1>4, <1>5, <1>8, <1>10, <1>11, <1>13 DEF FieldOf

\* What is read of whole fields, and of the bytes r behind them if those are no
\* field.
LEMMA FieldsAre ==
  ASSUME NEW u, NEW U, NEW fs, Says(u, U, fs), NEW r \in Bytes,
         r = << >> \/ ~ ReadField(u \o r, Len(u) + 1).ok
  PROVE  \E X, F : /\ Fields(u \o r) = F /\ F \in Seq(X)
                   /\ Len(F) = Len(U) + (IF r = << >> THEN 0 ELSE 1)
                   /\ \A i \in 1 .. Len(U) :
                         F[i] = FieldOf(fs[i], Start(U, i) + 1)
                   /\ r # << >> => ~ F[Len(U) + 1].ok
<1>1. PICK buf : buf = u \o r
  OBVIOUS
<1>2. PICK n : n = Len(U)
  OBVIOUS
<1>3. /\ U \in Seq(Bytes) /\ u = FlattenSeq(U) /\ u \in Bytes /\ n \in Nat
      /\ buf \in Bytes /\ Len(buf) = Len(u) + Len(r)
      /\ Len(u) \in Nat /\ Len(r) \in Nat
  BY <1>1, <1>2, FlatBytes, AtConcat DEF Says
<1>4. PICK from : FieldsFrom(buf, from)
  BY <1>3, FieldsRead
<1>5. PICK X : X = Read(buf)
  OBVIOUS
<1>. DEFINE Begun(k, G) == /\ G \in Seq(X) /\ Len(G) = k
                           /\ \A i \in 1 .. k : G[i] = FieldOf(fs[i], Start(U, i) + 1)
                           /\ from[1] = G \o from[Start(U, k) + 1]
            S == {k \in Nat : k <= n => \E G : Begun(k, G)}
<1>6. Start(U, 0) = 0 /\ Start(U, n) = Len(u)
  <2>1. SubSeq(U, 1, 0) = << >> /\ SubSeq(U, 1, n) = U
    BY <1>2, <1>3
  <2>2. Len(<< >>) = 0
    OBVIOUS
  <2>. QED
    BY <1>3, <2>1, <2>2, FlatEmpty DEF Start
<1>7. 0 \in S
  <2>1. from[1] \in Seq(X) /\ 0 + 1 = 1
    BY <1>3, <1>4, <1>5 DEF FieldsFrom
  <2>2. Begun(0, << >>)
    BY <2>1, <1>6
  <2>. QED
    BY <2>2
<1>8. ASSUME NEW k \in Nat, k \in S PROVE k + 1 \in S
  <2>. SUFFICES ASSUME k + 1 <= n PROVE \E G : Begun(k + 1, G)
    OBVIOUS
  <2>1. PICK G : Begun(k, G)
    <3>1. k <= n
      BY <1>3
    <3>. QED
      BY <3>1, <1>8
  <2>2. PICK pos : pos = Start(U, k) + 1
    OBVIOUS
  <2>3. PICK next : next = Start(U, k + 1) + 1
    OBVIOUS
  <2>4. PICK f : f = FieldOf(fs[k + 1], next)
    OBVIOUS
  <2>5. pos \in 1 .. Len(buf) /\ ReadField(buf, pos) = f
    <3>1. k < Len(U)
      BY <1>2, <1>3
    <3>. QED
      BY <3>1, <1>1, <2>2, <2>3, <2>4, FieldIs
  <2>6. f.ok /\ f.next = next /\ f \in X
    BY <2>4, <2>5, <1>5 DEF FieldOf, Read
  <2>7. next \in 1 .. Len(buf) + 1
    <3>1. pos \in Nat \ {0} /\ ReadField(buf, pos).ok
      BY <2>5, <2>6, <1>3
    <3>2. next \in pos + 1 .. Len(buf) + 1
      BY <3>1, <2>5, <2>6, <1>3, FieldType
    <3>. QED
      BY <3>1, <3>2, <1>3
  <2>8. PICK rest : rest = from[next] /\ rest \in Seq(X)
    BY <2>7, <1>4, <1>5 DEF FieldsFrom
  <2>9. from[pos] = <<f>> \o rest
    BY <1>4, <2>5, <2>6, <2>8 DEF FieldsFrom
  <2>10. PICK H : H = Append(G, f)
    OBVIOUS
  <2>11. /\ H \in Seq(X) /\ Len(H) = k + 1
         /\ \A i \in 1 .. k + 1 : H[i] = IF i = k + 1 THEN f ELSE G[i]
    <3>1. /\ H \in Seq(X) /\ Len(H) = Len(G) + 1 /\ H[Len(G) + 1] = f
          /\ \A i \in 1 .. Len(G) : H[i] = G[i]
      BY <2>1, <2>6, <2>10, OneMore
    <3>. QED
      BY <3>1, <2>1
  <2>12. from[1] = H \o rest
    <3>1. G \o (<<f>> \o rest) = Append(G, f) \o rest
      <4>1. G \in Seq(X)
        BY <2>1
      <4>2. \A t \in Seq(X) : G \o (<<f>> \o t) = Append(G, f) \o t
        BY <4>1, <2>6, OneMore
      <4>. QED
        BY <4>2, <2>8
    <3>. QED
      BY <3>1, <2>1, <2>2, <2>9, <2>10
  <2>13. ASSUME NEW i \in 1 .. k + 1
         PROVE  H[i] = FieldOf(fs[i], Start(U, i) + 1)
    <3>1. CASE i = k + 1
      BY <3>1, <2>3, <2>4, <2>11
    <3>2. CASE i # k + 1
      <4>1. i \in 1 .. k
        BY <3>2
      <4>. QED
        BY <3>2, <4>1, <2>1, <2>11
    <3>. QED
      BY <3>1, <3>2
  <2>. QED
    BY <2>3, <2>8, <2>11, <2>12, <2>13
<1>9. PICK G : Begun(n, G)
  <2>1. n \in S
    <3>. HIDE DEF S
    <3>. QED
      BY <1>3, <1>7, <1>8, Induction
  <2>. QED
    BY <2>1, <1>3
<1>10. CASE r = << >>
  <2>1. Start(U, n) + 1 = Len(buf) + 1
    BY <1>3, <1>6, <1>10
  <2>2. from[Len(buf) + 1] = << >> /\ from[1] = Fields(buf)
    BY <1>4 DEF FieldsFrom
  <2>3. G \o << >> = G
    BY <1>9
  <2>4. Fields(buf) = G
    BY <1>9, <2>1, <2>2, <2>3
  <2>5. n + 0 = n
    BY <1>3
  <2>. QED
    BY <1>1, <1>2, <1>9, <1>10, <2>4, <2>5
<1>11. CASE r # << >>
  <2>1. PICK pos : pos = Len(u) + 1
    OBVIOUS
  <2>2. PICK f : f = ReadField(buf, pos)
    OBVIOUS
  <2>3. pos \in 1 .. Len(buf) /\ ~ f.ok /\ f \in X
    <3>1. Len(r) >= 1
      BY <1>11 DEF Bytes
    <3>. QED
      BY <1>1, <1>3, <1>5, <1>11, <2>1, <2>2, <3>1 DEF Read
  <2>4. from[pos] = <<f>> \o << >> /\ from[1] = Fields(buf)
    BY <1>4, <2>2, <2>3 DEF FieldsFrom
  <2>5. Fields(buf) = G \o <<f>>
    <3>1. <<f>> \o << >> = <<f>>
      OBVIOUS
    <3>. QED
      BY <3>1, <1>6, <1>9, <2>1, <2>4
  <2>6. PICK H : H = G \o <<f>>
    OBVIOUS
  <2>7. /\ H \in Seq(X) /\ Len(H) = n + 1 /\ H[n + 1] = f
        /\ \A i \in 1 .. n : H[i] = G[i]
    <3>1. G \in Seq(X) /\ Len(G) = n
      BY <1>9
    <3>2. H = Append(G, f)
      BY <2>3, <2>6, <3>1, OneMore
    <3>3. /\ H \in Seq(X) /\ Len(H) = Len(G) + 1 /\ H[Len(G) + 1] = f
          /\ \A i \in 1 .. Len(G) : H[i] = G[i]
      BY <2>3, <3>1, <3>2, OneMore
    <3>. QED
      BY <3>1, <3>3
  <2>. QED
    <3>1. Fields(u \o r) = H
      BY <1>1, <2>5, <2>6
    <3>2. Len(H) = Len(U) + 1 /\ ~ H[Len(U) + 1].ok
      BY <1>2, <2>3, <2>7
    <3>3. \A i \in 1 .. Len(U) : H[i] = FieldOf(fs[i], Start(U, i) + 1)
      BY <1>2, <1>9, <2>7
    <3>. QED
      BY <1>11, <2>7, <3>1, <3>2, <3>3
<1>. QED
  BY <1>10, <1>11

-----------------------------------------------------------------------------
(* What a parser makes of fields                                           *)

\* A parser that had m makes m2 of the fields fs.
Folded(table, m, fs, m2) ==
    \E h : /\ h = [i \in 0 .. Len(fs) |-> h[i]]
           /\ h[0] = m /\ h[Len(fs)] = m2
           /\ \A i \in 1 .. Len(fs) : h[i] = Store(table, h[i - 1], fs[i])

\* It takes no notice of where they are.
LEMMA StoreOfField ==
  ASSUME NEW table, NEW m, NEW f, NEW next
  PROVE  Store(table, m, FieldOf(f, next)) = Store(table, m, f)
<1>1. PICK g : g = FieldOf(f, next)
  OBVIOUS
<1>2. g.number = f.number /\ g.value = f.value
  BY <1>1 DEF FieldOf
<1>3. Store(table, m, g) = Store(table, m, f)
  BY <1>2 DEF Store
<1>. QED
  BY <1>1, <1>3

FitsAll(table, fs) ==
    \A i \in 1 .. Len(fs) :
        fs[i].number \in DOMAIN table =>
            fs[i].wire = WireOf[table[fs[i].number].kind]

LEMMA ParseWhole ==
  ASSUME NEW u, NEW U, NEW fs, Says(u, U, fs),
         NEW table, NEW m, Folded(table, Blank(table), fs, m),
         FitsAll(table, fs)
  PROVE  Parse(table, u) = m
<1>1. PICK X, F : /\ Fields(u) = F /\ F \in Seq(X) /\ Len(F) = Len(U)
                  /\ \A i \in 1 .. Len(U) :
                        F[i] = FieldOf(fs[i], Start(U, i) + 1)
  <2>1. u \in Bytes /\ Len(U) \in Nat
    BY FlatBytes DEF Says
  <2>2. PICK r : r = << >>
    OBVIOUS
  <2>3. r \in Bytes /\ u \o r = u /\ Len(U) + 0 = Len(U)
    BY <2>1, <2>2 DEF Bytes
  <2>4. PICK X, F : /\ Fields(u \o r) = F /\ F \in Seq(X)
                    /\ Len(F) = Len(U) + (IF r = << >> THEN 0 ELSE 1)
                    /\ \A i \in 1 .. Len(U) :
                          F[i] = FieldOf(fs[i], Start(U, i) + 1)
                    /\ r # << >> => ~ F[Len(U) + 1].ok
    <3>1. r \in Bytes /\ (r = << >> \/ ~ ReadField(u \o r, Len(u) + 1).ok)
      BY <2>2, <2>3
    <3>. QED
      BY <3>1, FieldsAre
  <2>. QED
    BY <2>2, <2>3, <2>4
<1>2. PICK n : n = Len(F)
  OBVIOUS
<1>3. n \in Nat /\ n = Len(fs) /\ n = Len(U) /\ DOMAIN F = 1 .. n
  BY <1>1, <1>2 DEF Says
<1>4. \A i \in DOMAIN F : Fits(table, F[i])
  <2>. SUFFICES ASSUME NEW i \in 1 .. n PROVE Fits(table, F[i])
    BY <1>3
  <2>1. PICK g : g = F[i]
    OBVIOUS
  <2>2. g.ok /\ g.number = fs[i].number /\ g.wire = fs[i].wire
    BY <2>1, <1>1, <1>3 DEF FieldOf
  <2>3. Fits(table, g)
    BY <2>2, <1>3 DEF Fits, FitsAll
  <2>. QED
    BY <2>1, <2>3
<1>5. PICK h : /\ h = [i \in 0 .. n |-> h[i]]
               /\ h[0] = Blank(table) /\ h[n] = m
               /\ \A i \in 1 .. n : h[i] = Store(table, h[i - 1], fs[i])
  BY <1>3 DEF Folded
<1>. DEFINE G(g) == g = [i \in 0 .. Len(F) |->
                            IF i = 0 THEN Blank(table)
                                     ELSE Store(table, g[i - 1], F[i])]
            after == CHOOSE g : G(g)
<1>6. G(h)
  <2>1. ASSUME NEW i \in 0 .. n
        PROVE  h[i] = IF i = 0 THEN Blank(table)
                               ELSE Store(table, h[i - 1], F[i])
    <3>1. CASE i = 0
      BY <3>1, <1>5
    <3>2. CASE i # 0
      <4>1. i \in 1 .. n
        BY <3>2
      <4>2. F[i] = FieldOf(fs[i], Start(U, i) + 1)
        BY <4>1, <1>1, <1>3
      <4>3. Store(table, h[i - 1], F[i]) = Store(table, h[i - 1], fs[i])
        BY <4>2, StoreOfField
      <4>. QED
        BY <4>1, <4>3, <3>2, <1>5
    <3>. QED
      BY <3>1, <3>2
  <2>. QED
    BY <2>1, <1>2, <1>5
<1>7. G(after)
  BY <1>6
<1>8. MessageOf(table, F) = after[Len(F)]
  BY <1>4 DEF MessageOf, after
<1>. HIDE DEF after
<1>. DEFINE S == {k \in Nat : k <= n => after[k] = h[k]}
<1>9. 0 \in S
  <2>1. 0 \in 0 .. Len(F)
    BY <1>2, <1>3
  <2>2. after[0] = Blank(table)
    BY <1>7, <2>1
  <2>. QED
    BY <2>2, <1>5
<1>10. ASSUME NEW k \in Nat, k \in S PROVE k + 1 \in S
  <2>. SUFFICES ASSUME k + 1 <= n PROVE after[k + 1] = h[k + 1]
    OBVIOUS
  <2>1. /\ k + 1 \in 0 .. n /\ k + 1 # 0 /\ (k + 1) - 1 = k /\ k <= n
    BY <1>3
  <2>2. after[k + 1] = Store(table, after[k], F[k + 1])
    BY <2>1, <1>2, <1>7
  <2>3. h[k + 1] = Store(table, h[k], F[k + 1])
    BY <2>1, <1>2, <1>6
  <2>4. after[k] = h[k]
    BY <2>1, <1>10
  <2>. QED
    BY <2>2, <2>3, <2>4
<1>11. n \in S
  <2>. HIDE DEF S
  <2>. QED
    BY <1>3, <1>9, <1>10, Induction
<1>12. after[n] = m
  BY <1>3, <1>5, <1>11
<1>. QED
  BY <1>1, <1>2, <1>8, <1>12 DEF Parse

LEMMA ParseBroken ==
  ASSUME NEW u, NEW U, NEW fs, Says(u, U, fs), NEW table,
         NEW r \in Bytes, r # << >>, ~ ReadField(u \o r, Len(u) + 1).ok
  PROVE  Parse(table, u \o r) = NoMessage
<1>1. PICK X, F : /\ Fields(u \o r) = F /\ F \in Seq(X) /\ Len(F) = Len(U) + 1
                  /\ ~ F[Len(U) + 1].ok
  <2>1. \E X, F : /\ Fields(u \o r) = F /\ F \in Seq(X)
                  /\ Len(F) = Len(U) + (IF r = << >> THEN 0 ELSE 1)
                  /\ r # << >> => ~ F[Len(U) + 1].ok
    BY FieldsAre
  <2>. QED
    BY <2>1
<1>2. Len(U) + 1 \in DOMAIN F
  <2>1. Len(U) \in Nat
    BY DEF Says
  <2>. QED
    BY <2>1, <1>1
<1>3. ~ (\A i \in DOMAIN F : Fits(table, F[i]))
  BY <1>1, <1>2 DEF Fits
<1>. QED
  BY <1>1, <1>3 DEF Parse, MessageOf

-----------------------------------------------------------------------------
(* Fields, and then more fields                                            *)

LEMMA Joined ==
  ASSUME NEW X, NEW a \in Seq(X), NEW b \in Seq(X)
  PROVE  /\ a \o b \in Seq(X) /\ Len(a \o b) = Len(a) + Len(b)
         /\ Len(a) \in Nat /\ Len(b) \in Nat
         /\ \A i \in 1 .. Len(a) + Len(b) :
               IF i <= Len(a)
               THEN i \in 1 .. Len(a) /\ (a \o b)[i] = a[i]
               ELSE /\ i - Len(a) \in 1 .. Len(b)
                    /\ (a \o b)[i] = b[i - Len(a)]
<1>1. /\ a \o b \in Seq(X) /\ Len(a \o b) = Len(a) + Len(b)
      /\ \A i \in 1 .. Len(a) + Len(b) :
            (a \o b)[i] = IF i <= Len(a) THEN a[i] ELSE b[i - Len(a)]
  BY ConcatProperties
<1>2. Len(a) \in Nat /\ Len(b) \in Nat
  OBVIOUS
<1>3. \A i \in 1 .. Len(a) + Len(b) : IF i <= Len(a) THEN i \in 1 .. Len(a)
                                      ELSE i - Len(a) \in 1 .. Len(b)
  BY <1>2
<1>. QED
  BY <1>1, <1>2, <1>3

LEMMA SaysMore ==
  ASSUME NEW a, NEW U, NEW fs, Says(a, U, fs),
         NEW b, NEW V, NEW gs, Says(b, V, gs)
  PROVE  Says(a \o b, U \o V, fs \o gs)
<1>1. PICK W : W = U \o V
  OBVIOUS
<1>2. PICK hs : hs = fs \o gs
  OBVIOUS
<1>3. /\ W \in Seq(Bytes) /\ Len(W) = Len(U) + Len(V)
      /\ \A i \in 1 .. Len(U) + Len(V) :
            IF i <= Len(U) THEN i \in 1 .. Len(U) /\ W[i] = U[i]
            ELSE i - Len(U) \in 1 .. Len(V) /\ W[i] = V[i - Len(U)]
  <2>1. U \in Seq(Bytes) /\ V \in Seq(Bytes)
    BY DEF Says
  <2>. QED
    BY <1>1, <2>1, Joined
<1>4. /\ hs \in Seq(Facts) /\ Len(hs) = Len(U) + Len(V)
      /\ \A i \in 1 .. Len(U) + Len(V) :
            hs[i] = IF i <= Len(U) THEN fs[i] ELSE gs[i - Len(U)]
  <2>1. /\ fs \in Seq(Facts) /\ gs \in Seq(Facts)
        /\ Len(fs) = Len(U) /\ Len(gs) = Len(V)
    BY DEF Says
  <2>2. /\ fs \o gs \in Seq(Facts) /\ Len(fs \o gs) = Len(fs) + Len(gs)
        /\ \A i \in 1 .. Len(fs) + Len(gs) :
              (fs \o gs)[i] = IF i <= Len(fs) THEN fs[i] ELSE gs[i - Len(fs)]
    BY <2>1, ConcatProperties
  <2>. QED
    BY <2>1, <2>2, <1>2
<1>5. FlattenSeq(W) = a \o b
  <2>1. U \in Seq(Seq(0 .. 255)) /\ V \in Seq(Seq(0 .. 255))
    BY DEF Says, Bytes
  <2>2. FlattenSeq(U \o V) = FlattenSeq(U) \o FlattenSeq(V)
    BY <2>1, FlatConcat
  <2>. QED
    BY <2>2, <1>1 DEF Says
<1>6. ASSUME NEW i \in 1 .. Len(W)
      PROVE  Spells(W[i], hs[i].number, hs[i].wire, hs[i].value)
  <2>1. CASE i <= Len(U)
    BY <2>1, <1>3, <1>4 DEF Says
  <2>2. CASE ~ (i <= Len(U))
    BY <2>2, <1>3, <1>4 DEF Says
  <2>. QED
    BY <2>1, <2>2
<1>. QED
  BY <1>1, <1>2, <1>3, <1>4, <1>5, <1>6 DEF Says

LEMMA SaysNothing == Says(<< >>, << >>, << >>)
<1>1. << >> \in Seq(Bytes) /\ << >> \in Seq(Facts) /\ 1 .. Len(<< >>) = {}
  OBVIOUS
<1>. QED
  BY <1>1, FlatEmpty DEF Says

LEMMA SaysOne ==
  ASSUME NEW u, NEW number \in Nat, NEW wire \in 0 .. 7,
         NEW value \in Nat \cup Bytes, Spells(u, number, wire, value)
  PROVE  Says(u, <<u>>, <<[number |-> number, wire |-> wire, value |-> value]>>)
<1>1. PICK f : f = [number |-> number, wire |-> wire, value |-> value]
  OBVIOUS
<1>2. /\ f \in Facts /\ f.number = number /\ f.wire = wire /\ f.value = value
  BY <1>1 DEF Facts
<1>3. u \in Bytes
  BY DEF Spells
<1>4. /\ <<u>> \in Seq(Bytes) /\ Len(<<u>>) = 1
      /\ \A i \in 1 .. Len(<<u>>) : <<u>>[i] = u
  BY <1>3
<1>5. /\ <<f>> \in Seq(Facts) /\ Len(<<f>>) = 1
      /\ \A i \in 1 .. Len(<<u>>) : <<f>>[i] = f
  BY <1>2
<1>6. u = FlattenSeq(<<u>>)
  BY <1>3, FlatOne DEF Bytes
<1>7. Says(u, <<u>>, <<f>>)
  BY <1>2, <1>4, <1>5, <1>6 DEF Says
<1>. QED
  BY <1>1, <1>7

LEMMA FoldedNone ==
  ASSUME NEW table, NEW m
  PROVE  Folded(table, m, << >>, m)
<1>1. PICK h : h = [i \in 0 .. 0 |-> m]
  OBVIOUS
<1>2. h = [i \in 0 .. 0 |-> h[i]] /\ h[0] = m /\ Len(<< >>) = 0 /\ 1 .. 0 = {}
  BY <1>1
<1>. QED
  BY <1>2 DEF Folded

LEMMA FoldedOne ==
  ASSUME NEW table, NEW m, NEW f
  PROVE  Folded(table, m, <<f>>, Store(table, m, f))
<1>1. PICK m2 : m2 = Store(table, m, f)
  OBVIOUS
<1>2. PICK h : h = [i \in 0 .. 1 |-> IF i = 0 THEN m ELSE m2]
  OBVIOUS
<1>3. /\ h = [i \in 0 .. 1 |-> h[i]] /\ h[0] = m /\ h[1] = m2
      /\ Len(<<f>>) = 1 /\ <<f>>[1] = f
      /\ \A i \in 1 .. 1 : i = 1 /\ i - 1 = 0
  BY <1>2
<1>. QED
  BY <1>1, <1>3 DEF Folded

LEMMA FoldedMore ==
  ASSUME NEW table, NEW X, NEW fs \in Seq(X), NEW gs \in Seq(X),
         NEW m, NEW m1, NEW m2,
         Folded(table, m, fs, m1), Folded(table, m1, gs, m2)
  PROVE  Folded(table, m, fs \o gs, m2)
<1>1. PICK k : k = Len(fs)
  OBVIOUS
<1>2. PICK l : l = Len(gs)
  OBVIOUS
<1>3. PICK hs : hs = fs \o gs
  OBVIOUS
<1>4. /\ Len(hs) = k + l /\ k \in Nat /\ l \in Nat
      /\ \A i \in 1 .. k + l : hs[i] = IF i <= k THEN fs[i] ELSE gs[i - k]
  BY <1>1, <1>2, <1>3, Joined
<1>5. PICK h : /\ h = [i \in 0 .. k |-> h[i]] /\ h[0] = m /\ h[k] = m1
               /\ \A i \in 1 .. k : h[i] = Store(table, h[i - 1], fs[i])
  BY <1>1 DEF Folded
<1>6. PICK g : /\ g = [i \in 0 .. l |-> g[i]] /\ g[0] = m1 /\ g[l] = m2
               /\ \A i \in 1 .. l : g[i] = Store(table, g[i - 1], gs[i])
  BY <1>2 DEF Folded
<1>7. PICK f : f = [i \in 0 .. k + l |-> IF i <= k THEN h[i] ELSE g[i - k]]
  OBVIOUS
<1>8. f = [i \in 0 .. k + l |-> f[i]] /\ f[0] = m /\ f[k + l] = m2
  <2>1. 0 \in 0 .. k + l /\ k + l \in 0 .. k + l /\ 0 <= k
    BY <1>4
  <2>2. CASE l = 0
    BY <2>1, <2>2, <1>4, <1>5, <1>6, <1>7
  <2>3. CASE l # 0
    <3>1. ~ (k + l <= k) /\ (k + l) - k = l
      BY <1>4, <2>3
    <3>. QED
      BY <2>1, <3>1, <1>5, <1>6, <1>7
  <2>. QED
    BY <2>2, <2>3
<1>9. ASSUME NEW i \in 1 .. k + l PROVE f[i] = Store(table, f[i - 1], hs[i])
  <2>1. i \in 0 .. k + l /\ i - 1 \in 0 .. k + l
    BY <1>4
  <2>2. CASE i <= k
    <3>1. i \in 1 .. k /\ i - 1 <= k
      BY <2>2, <1>4
    <3>. QED
      BY <2>1, <2>2, <3>1, <1>4, <1>5, <1>7
  <2>3. CASE i = k + 1
    <3>1. /\ i - 1 = k /\ i - k = 1 /\ 1 \in 1 .. l /\ 1 - 1 = 0
          /\ ~ (i <= k) /\ k <= k
      BY <2>3, <1>4
    <3>2. f[i] = g[1] /\ f[i - 1] = h[k] /\ hs[i] = gs[1]
      BY <2>1, <3>1, <1>4, <1>7
    <3>3. g[1] = Store(table, g[0], gs[1])
      BY <3>1, <1>6
    <3>4. g[0] = h[k]
      BY <1>5, <1>6
    <3>. QED
      BY <3>2, <3>3, <3>4
  <2>4. CASE i > k + 1
    <3>1. /\ ~ (i <= k) /\ ~ (i - 1 <= k) /\ i - k \in 1 .. l
          /\ (i - 1) - k = (i - k) - 1
      BY <2>4, <1>4
    <3>2. f[i] = g[i - k] /\ f[i - 1] = g[(i - k) - 1] /\ hs[i] = gs[i - k]
      BY <2>1, <3>1, <1>4, <1>7
    <3>. QED
      BY <3>1, <3>2, <1>6
  <2>. QED
    BY <2>2, <2>3, <2>4, <1>4
<1>. QED
  BY <1>3, <1>4, <1>8, <1>9 DEF Folded

LEMMA FitsMore ==
  ASSUME NEW table, NEW X, NEW fs \in Seq(X), NEW gs \in Seq(X),
         FitsAll(table, fs), FitsAll(table, gs)
  PROVE  FitsAll(table, fs \o gs)
<1>1. PICK hs : hs = fs \o gs
  OBVIOUS
<1>2. /\ Len(hs) = Len(fs) + Len(gs)
      /\ \A i \in 1 .. Len(fs) + Len(gs) :
            IF i <= Len(fs) THEN i \in 1 .. Len(fs) /\ hs[i] = fs[i]
            ELSE i - Len(fs) \in 1 .. Len(gs) /\ hs[i] = gs[i - Len(fs)]
  BY <1>1, Joined
<1>3. ASSUME NEW i \in 1 .. Len(hs), hs[i].number \in DOMAIN table
      PROVE  hs[i].wire = WireOf[table[hs[i].number].kind]
  <2>1. CASE i <= Len(fs)
    <3>1. i \in 1 .. Len(fs) /\ hs[i] = fs[i]
      BY <2>1, <1>2
    <3>. QED
      BY <3>1, <1>3 DEF FitsAll
  <2>2. CASE ~ (i <= Len(fs))
    <3>1. i - Len(fs) \in 1 .. Len(gs) /\ hs[i] = gs[i - Len(fs)]
      BY <2>2, <1>2
    <3>. QED
      BY <3>1, <1>3 DEF FitsAll
  <2>. QED
    BY <2>1, <2>2
<1>. QED
  BY <1>1, <1>3 DEF FitsAll

LEMMA BytesInTwo ==
  ASSUME NEW u \in Bytes, NEW k \in 0 .. Len(u)
  PROVE  /\ SubSeq(u, 1, k) \in Bytes /\ Len(SubSeq(u, 1, k)) = k
         /\ SubSeq(u, k + 1, Len(u)) \in Bytes
         /\ Len(SubSeq(u, k + 1, Len(u))) = Len(u) - k
         /\ u = SubSeq(u, 1, k) \o SubSeq(u, k + 1, Len(u))
<1>1. PICK B : B = 0 .. 255
  OBVIOUS
<1>2. Bytes = Seq(B)
  BY <1>1 DEF Bytes
<1>3. u \in Seq(B)
  BY <1>2
<1>. QED
  BY <1>2, <1>3, CutInTwo

\* A field without its end cannot be read, whatever is before it.
LEMMA FieldCut ==
  ASSUME NEW u \in Bytes, NEW x, NEW number, NEW wire, NEW value,
         Spells(x, number, wire, value), NEW l \in 0 .. Len(x) - 1
  PROVE  /\ SubSeq(x, 1, l) \in Bytes
         /\ ~ ReadField(u \o SubSeq(x, 1, l), Len(u) + 1).ok
<1>1. x \in Bytes /\ Len(x) \in Nat /\ Len(u) \in Nat
  BY DEF Spells, Bytes
<1>2. PICK r : r = SubSeq(x, 1, l)
  OBVIOUS
<1>3. PICK t : t = SubSeq(x, l + 1, Len(x))
  OBVIOUS
<1>4. r \in Bytes /\ Len(r) = l /\ t \in Bytes /\ x = r \o t
  <2>1. l \in 0 .. Len(x)
    BY <1>1
  <2>. QED
    BY <1>1, <1>2, <1>3, <2>1, BytesInTwo
<1>5. PICK buf : buf = u \o r
  OBVIOUS
<1>6. PICK whole : whole = u \o x
  OBVIOUS
<1>7. buf \in Bytes /\ Len(buf) = Len(u) + l
  BY <1>4, <1>5, AtConcat
<1>8. At(whole, Len(u), x) /\ whole \in Bytes
  BY <1>1, <1>6, AtConcat
<1>9. At(whole, 0, buf)
  <2>1. whole = buf \o t
    <3>1. u \in Seq(0 .. 255) /\ r \in Seq(0 .. 255) /\ t \in Seq(0 .. 255)
      BY <1>4 DEF Bytes
    <3>2. (u \o r) \o t = u \o (r \o t)
      BY <3>1, Assoc
    <3>. QED
      BY <3>2, <1>4, <1>5, <1>6
  <2>. QED
    BY <2>1, <1>4, <1>7, AtConcat
<1>10. PICK pos : pos = Len(u) + 1
  OBVIOUS
<1>11. pos \in Nat \ {0} /\ 0 + pos = pos /\ 1 \in Nat \ {0}
  BY <1>1, <1>10
<1>12. ReadField(whole, pos).next = Len(u) + (Len(x) + 1)
  <2>1. PICK f : f = ReadField(x, 1)
    OBVIOUS
  <2>2. f.ok /\ f.next = Len(x) + 1
    BY <2>1 DEF Spells
  <2>3. ReadField(whole, Len(u) + 1)
          = [ok |-> TRUE, number |-> f.number, wire |-> f.wire,
             value |-> f.value, next |-> Len(u) + f.next]
    BY <1>1, <1>8, <1>11, <2>1, <2>2, FieldShift
  <2>. QED
    BY <2>2, <2>3, <1>10
<1>13. ~ ReadField(buf, pos).ok
  <2>. SUFFICES ASSUME ReadField(buf, pos).ok PROVE FALSE
    OBVIOUS
  <2>1. PICK f : f = ReadField(buf, pos)
    OBVIOUS
  <2>2. f.next \in pos + 1 .. Len(buf) + 1
    BY <1>7, <1>11, <2>1, FieldType
  <2>3. ReadField(whole, 0 + pos)
          = [ok |-> TRUE, number |-> f.number, wire |-> f.wire,
             value |-> f.value, next |-> 0 + f.next]
    BY <1>7, <1>8, <1>9, <1>11, <2>1, FieldShift
  <2>4. 0 + f.next = Len(u) + (Len(x) + 1)
    BY <1>11, <1>12, <2>3
  <2>. QED
    BY <2>2, <2>4, <1>1, <1>7
<1>. QED
  BY <1>2, <1>4, <1>5, <1>10, <1>13

-----------------------------------------------------------------------------
(* Members of messages                                                     *)

\* Tables have a name for each member.
IsTable(table) ==
    /\ \E X : table \in Seq(X)
    /\ Len(table) \in 1 .. 9
    /\ \A i \in 1 .. Len(table) : /\ table[i].kind \in DOMAIN WireOf
                                  /\ table[i].name # "ok"
    /\ \A i, j \in 1 .. Len(table) : table[i].name = table[j].name => i = j

LEMMA EntryIs ==
  ASSUME NEW table, IsTable(table), NEW i \in 1 .. Len(table)
  PROVE  /\ table[i].kind \in {"number", "flag", "double", "string", "items"}
         /\ DOMAIN table = 1 .. Len(table) /\ i \in Nat /\ i \in 1 .. 15
<1>1. PICK X : table \in Seq(X)
  BY DEF IsTable
<1>2. DOMAIN table = 1 .. Len(table) /\ i \in Nat
  BY <1>1
<1>3. table[i].kind \in DOMAIN WireOf
  BY DEF IsTable
<1>4. i \in 1 .. 15
  <2>1. PICK n : n = Len(table)
    OBVIOUS
  <2>2. n \in 1 .. 9 /\ i \in 1 .. n
    BY <2>1 DEF IsTable
  <2>. QED
    BY <2>2
<1>. QED
  BY <1>2, <1>3, <1>4 DEF WireOf

LEMMA BlankIs ==
  ASSUME NEW table, IsTable(table)
  PROVE  /\ Blank(table) = [name \in DOMAIN Blank(table) |-> Blank(table)[name]]
         /\ DOMAIN Blank(table) = {table[i].name : i \in 1 .. Len(table)}
         /\ \A i \in 1 .. Len(table) :
               /\ table[i].name \in DOMAIN Blank(table)
               /\ Blank(table)[table[i].name] = Default[table[i].kind]
<1>1. DOMAIN table = 1 .. Len(table)
  BY DEF IsTable
<1>2. DOMAIN Blank(table) = {table[i].name : i \in 1 .. Len(table)}
  BY <1>1 DEF Blank
<1>3. ASSUME NEW i \in 1 .. Len(table)
      PROVE  Blank(table)[table[i].name] = Default[table[i].kind]
  <2>1. PICK e : e = CHOOSE x \in ToSet(table) : x.name = table[i].name
    OBVIOUS
  <2>2. e \in ToSet(table) /\ e.name = table[i].name
    <3>1. table[i] \in ToSet(table)
      BY <1>1 DEF ToSet
    <3>. QED
      BY <2>1, <3>1
  <2>3. PICK j \in 1 .. Len(table) : e = table[j]
    BY <1>1, <2>2 DEF ToSet
  <2>4. e = table[i]
    BY <2>2, <2>3 DEF IsTable
  <2>5. table[i].name \in {table[k].name : k \in DOMAIN table}
    BY <1>1
  <2>6. Blank(table)[table[i].name] = Default[e.kind]
    BY <2>1, <2>5 DEF Blank
  <2>. QED
    BY <2>4, <2>6
<1>4. Blank(table) = [name \in DOMAIN Blank(table) |-> Blank(table)[name]]
  BY DEF Blank
<1>5. \A i \in 1 .. Len(table) : table[i].name \in DOMAIN Blank(table)
  BY <1>2
<1>. QED
  BY <1>2, <1>3, <1>4, <1>5

\* The ways a message inside a message is written.
ItemBytes(name, item) ==
    {FlattenSeq(ps) : ps \in ItemEncodings(name, item)}

\* What a parser has after the value v of the member e.
Took(e, v, w) ==
    /\ e.kind \in {"number", "flag", "string"} => w = v
    /\ e.kind = "double" => Equal(e, v, w)
    /\ e.kind = "items" =>
          /\ w \in Seq(Bytes) /\ Len(w) = Len(v)
          /\ \A i \in 1 .. Len(v) : w[i] \in ItemBytes(e.name, v[i])

\* A message of this table.
Shaped(table, m) == m = [name \in DOMAIN Blank(table) |-> m[name]]

\* The pieces p are the value v of the member i.
Writes(table, i, v, p) ==
    /\ p \in Seq(Bytes)
    /\ \E U, fs :
          /\ Says(FlattenSeq(p), U, fs)
          /\ FitsAll(table, fs)
          /\ table[i].kind # "items" => Len(U) <= 1
          /\ \A m : Shaped(table, m) /\ m[table[i].name] = Default[table[i].kind] =>
                \E w : /\ Took(table[i], v, w)
                       /\ Folded(table, m, fs, [m EXCEPT ![table[i].name] = w])

LEMMA WritesNothing ==
  ASSUME NEW table, IsTable(table), NEW i \in 1 .. Len(table), NEW v,
         Took(table[i], v, Default[table[i].kind])
  PROVE  Writes(table, i, v, << >>)
<1>1. /\ << >> \in Seq(Bytes) /\ Len(<< >>) = 0 /\ 0 <= 1 /\ 1 .. 0 = {}
      /\ FlattenSeq(<< >>) = << >> /\ Says(<< >>, << >>, << >>)
  BY SaysNothing, FlatEmpty
<1>2. FitsAll(table, << >>)
  BY <1>1 DEF FitsAll
<1>3. ASSUME NEW m, Shaped(table, m), m[table[i].name] = Default[table[i].kind]
      PROVE  \E w : /\ Took(table[i], v, w)
                    /\ Folded(table, m, << >>, [m EXCEPT ![table[i].name] = w])
  <2>1. PICK w : w = Default[table[i].kind]
    OBVIOUS
  <2>2. [m EXCEPT ![table[i].name] = w] = m
    BY <1>3, <2>1 DEF Shaped
  <2>3. Folded(table, m, << >>, m)
    BY FoldedNone
  <2>. QED
    BY <2>1, <2>2, <2>3
<1>4. table[i].kind # "items" => Len(<< >>) <= 1
  BY <1>1
<1>. QED
  BY <1>1, <1>2, <1>3, <1>4 DEF Writes

LEMMA WritesOne ==
  ASSUME NEW table, IsTable(table), NEW i \in 1 .. Len(table), NEW v,
         NEW p \in Seq(Bytes), NEW value \in Nat \cup Bytes,
         Spells(FlattenSeq(p), i, WireOf[table[i].kind], value),
         table[i].kind # "items",
         Took(table[i], v, IF table[i].kind = "flag" THEN value # 0 ELSE value)
  PROVE  Writes(table, i, v, p)
<1>1. PICK e : e = table[i]
  OBVIOUS
<1>2. /\ e.kind \in {"number", "flag", "double", "string"}
      /\ DOMAIN table = 1 .. Len(table) /\ i \in Nat
  BY <1>1, EntryIs
<1>3. PICK wire \in 0 .. 7 : wire = WireOf[e.kind]
  BY <1>2 DEF WireOf
<1>4. PICK f : f = [number |-> i, wire |-> wire, value |-> value]
  OBVIOUS
<1>5. f.number = i /\ f.wire = wire /\ f.value = value
  BY <1>4
<1>6. PICK u : u = FlattenSeq(p)
  OBVIOUS
<1>7. Says(u, <<u>>, <<f>>) /\ Len(<<u>>) = 1
  BY <1>1, <1>2, <1>3, <1>4, <1>6, SaysOne
<1>8. FitsAll(table, <<f>>)
  <2>1. Len(<<f>>) = 1 /\ <<f>>[1] = f /\ \A k \in 1 .. 1 : k = 1
    OBVIOUS
  <2>. QED
    BY <2>1, <1>1, <1>3, <1>5 DEF FitsAll
<1>9. ASSUME NEW m
      PROVE  \E w : /\ Took(e, v, w)
                    /\ Folded(table, m, <<f>>, [m EXCEPT ![e.name] = w])
  <2>1. PICK w : w = IF e.kind = "flag" THEN value # 0 ELSE value
    OBVIOUS
  <2>2. Store(table, m, f) = [m EXCEPT ![e.name] = w]
    <3>1. CASE e.kind = "flag"
      BY <1>1, <1>2, <1>5, <2>1, <3>1 DEF Store
    <3>2. CASE e.kind # "flag"
      BY <1>1, <1>2, <1>5, <2>1, <3>2 DEF Store
    <3>. QED
      BY <3>1, <3>2
  <2>. QED
    BY <2>1, <2>2, <1>1, FoldedOne
<1>10. PICK U, fs : U = <<u>> /\ fs = <<f>>
  OBVIOUS
<1>11. /\ Says(FlattenSeq(p), U, fs) /\ FitsAll(table, fs)
       /\ table[i].kind # "items" => Len(U) <= 1
  BY <1>6, <1>7, <1>8, <1>10
<1>12. \A m : \E w : /\ Took(table[i], v, w)
                    /\ Folded(table, m, fs, [m EXCEPT ![table[i].name] = w])
  BY <1>1, <1>9, <1>10
<1>. QED
  BY <1>11, <1>12 DEF Writes

-----------------------------------------------------------------------------
(* What the encoders append for each kind of member                        *)

LEMMA FlatTwo ==
  ASSUME NEW a \in Bytes, NEW b \in Bytes
  PROVE  <<a, b>> \in Seq(Bytes) /\ FlattenSeq(<<a, b>>) = a \o b
<1>1. PICK s : s = <<a>>
  OBVIOUS
<1>2. s \in Seq(Bytes) /\ <<a, b>> = Append(s, b) /\ <<a, b>> \in Seq(Bytes)
  BY <1>1
<1>3. FlattenSeq(s) = a
  BY <1>1, FlatOne DEF Bytes
<1>4. FlattenSeq(Append(s, b)) = FlattenSeq(s) \o b
  BY <1>2, FlatAppend DEF Bytes
<1>. QED
  BY <1>2, <1>3, <1>4

LEMMA FlatThree ==
  ASSUME NEW a \in Bytes, NEW b \in Bytes, NEW c \in Bytes
  PROVE  <<a, b, c>> \in Seq(Bytes) /\ FlattenSeq(<<a, b, c>>) = a \o (b \o c)
<1>1. PICK s : s = <<a, b>>
  OBVIOUS
<1>2. s \in Seq(Bytes) /\ <<a, b, c>> = Append(s, c)
      /\ <<a, b, c>> \in Seq(Bytes)
  BY <1>1
<1>3. FlattenSeq(s) = a \o b
  BY <1>1, FlatTwo
<1>4. FlattenSeq(Append(s, c)) = FlattenSeq(s) \o c
  BY <1>2, FlatAppend DEF Bytes
<1>5. (a \o b) \o c = a \o (b \o c)
  BY Assoc DEF Bytes
<1>. QED
  BY <1>2, <1>3, <1>4, <1>5

LEMMA WritesNumber ==
  ASSUME NEW table, IsTable(table), NEW i \in 1 .. Len(table),
         table[i].kind = "number", NEW n \in Numbers
  PROVE  Writes(table, i, n, VarintField(i, n)) /\ Writes(table, i, n, NonZero(i, n))
<1>1. i \in 1 .. 15 /\ i \in Nat /\ n \in Nat
  BY DEF IsTable, Numbers
<1>2. PICK a, b \in Bytes : a = Key(i, 0) /\ b = Varint[n]
  BY <1>1, KeyIs, VarintWritten
<1>3. PICK p : p = VarintField(i, n)
  OBVIOUS
<1>4. p \in Seq(Bytes) /\ FlattenSeq(p) = a \o b
  BY <1>2, <1>3, FlatTwo DEF VarintField
<1>5. Spells(FlattenSeq(p), i, WireOf[table[i].kind], n)
  <2>1. WireOf[table[i].kind] = 0
    BY DEF WireOf
  <2>2. IsKey(i, 0)
    BY <1>1, SmallKeys
  <2>. QED
    BY <1>2, <1>4, <2>1, <2>2, VarintFieldRead
<1>6. Writes(table, i, n, p)
  <2>1. Took(table[i], n, n)
    BY DEF Took
  <2>. QED
    BY <1>1, <1>4, <1>5, <2>1, WritesOne
<1>7. n = 0 => Writes(table, i, n, << >>)
  <2>1. n = 0 => Took(table[i], n, Default[table[i].kind])
    BY DEF Took, Default
  <2>. QED
    BY <2>1, WritesNothing
<1>. QED
  BY <1>3, <1>6, <1>7 DEF NonZero

LEMMA WritesFlag ==
  ASSUME NEW table, IsTable(table), NEW i \in 1 .. Len(table),
         table[i].kind = "flag", NEW b \in BOOLEAN
  PROVE  Writes(table, i, b, Flag(i, b))
<1>1. i \in 1 .. 15 /\ 1 \in Numbers /\ 1 \in Nat
  <2>1. 1 \in Nat /\ 1 < 128
    OBVIOUS
  <2>2. Varint[1] = <<1>>
    BY <2>1, VarintWritten
  <2>3. PICK b1 : b1 = Varint[1] /\ Len(b1) = 1
    <3>1. Len(<<1>>) = 1
      OBVIOUS
    <3>. QED
      BY <2>2, <3>1
  <2>4. Len(b1) <= 10 /\ Len(b1) # 10
    BY <2>3
  <2>. QED
    BY <2>1, <2>3, <2>4, EntryIs DEF Numbers, FitsIn
<1>2. PICK a, c \in Bytes : a = Key(i, 0) /\ c = Varint[1]
  BY <1>1, KeyIs, VarintWritten
<1>3. PICK p : p = VarintField(i, 1)
  OBVIOUS
<1>4. p \in Seq(Bytes) /\ FlattenSeq(p) = a \o c
  BY <1>2, <1>3, FlatTwo DEF VarintField
<1>5. Spells(FlattenSeq(p), i, WireOf[table[i].kind], 1)
  <2>1. WireOf[table[i].kind] = 0
    BY DEF WireOf
  <2>2. IsKey(i, 0)
    BY <1>1, SmallKeys
  <2>. QED
    <3>1. Spells(Key(i, 0) \o Varint[1], i, 0, 1)
      BY <1>1, <2>2, VarintFieldRead
    <3>. QED
      BY <1>2, <1>4, <2>1, <3>1
<1>6. Writes(table, i, TRUE, p)
  <2>1. Took(table[i], TRUE, 1 # 0)
    BY DEF Took
  <2>. QED
    BY <1>1, <1>4, <1>5, <2>1, WritesOne
<1>7. Writes(table, i, FALSE, << >>)
  <2>1. Took(table[i], FALSE, Default[table[i].kind])
    BY DEF Took, Default
  <2>. QED
    BY <2>1, WritesNothing
<1>. QED
  BY <1>3, <1>6, <1>7 DEF Flag

LEMMA WritesDouble ==
  ASSUME NEW table, IsTable(table), NEW i \in 1 .. Len(table),
         table[i].kind = "double", NEW d \in Bytes, Len(d) = 8
  PROVE  /\ Writes(table, i, d, DoubleField(i, d))
         /\ Writes(table, i, d, NonZeroDouble(i, d))
<1>1. i \in 1 .. 15
  BY EntryIs
<1>2. PICK a \in Bytes : a = Key(i, 1)
  BY <1>1, KeyIs
<1>3. PICK p : p = DoubleField(i, d)
  OBVIOUS
<1>4. p \in Seq(Bytes) /\ FlattenSeq(p) = a \o d
  BY <1>2, <1>3, FlatTwo DEF DoubleField
<1>5. Spells(FlattenSeq(p), i, WireOf[table[i].kind], d)
  <2>1. WireOf[table[i].kind] = 1
    BY DEF WireOf
  <2>2. IsKey(i, 1)
    BY <1>1, SmallKeys
  <2>3. Spells(Key(i, 1) \o d, i, 1, d)
    BY <1>1, <2>2, FixedFieldRead
  <2>. QED
    BY <1>2, <1>4, <2>1, <2>3
<1>6. Writes(table, i, d, p)
  <2>1. Took(table[i], d, d)
    BY DEF Took, Equal
  <2>. QED
    BY <1>1, <1>4, <1>5, <2>1, WritesOne
<1>7. IsZero(d) => Writes(table, i, d, << >>)
  <2>1. IsZero(d) => Took(table[i], d, Default[table[i].kind])
    BY DEF Took, Default, Equal, IsZero
  <2>. QED
    BY <2>1, WritesNothing
<1>. QED
  BY <1>3, <1>6, <1>7 DEF NonZeroDouble

LEMMA WritesString ==
  ASSUME NEW table, IsTable(table), NEW i \in 1 .. Len(table),
         table[i].kind = "string", NEW s \in Bytes, Len(s) \in Numbers
  PROVE  Writes(table, i, s, StringField(i, s))
<1>1. i \in 1 .. 15 /\ Len(s) \in Nat
  BY EntryIs, NumbersAreShort
<1>2. PICK a, b \in Bytes : a = Key(i, 2) /\ b = Varint[Len(s)]
  BY <1>1, KeyIs, VarintWritten
<1>3. PICK p : p = <<Key(i, 2), Varint[Len(s)], s>>
  OBVIOUS
<1>4. p \in Seq(Bytes) /\ FlattenSeq(p) = a \o (b \o s)
  BY <1>2, <1>3, FlatThree
<1>5. Spells(FlattenSeq(p), i, WireOf[table[i].kind], s)
  <2>1. WireOf[table[i].kind] = 2
    BY DEF WireOf
  <2>2. IsKey(i, 2)
    BY <1>1, SmallKeys
  <2>. QED
    <3>1. Spells(Key(i, 2) \o (Varint[Len(s)] \o s), i, 2, s)
      BY <2>2, StringFieldRead
    <3>. QED
      BY <1>2, <1>4, <2>1, <3>1
<1>6. Writes(table, i, s, p)
  <2>1. Took(table[i], s, s)
    BY DEF Took
  <2>. QED
    BY <1>1, <1>4, <1>5, <2>1, WritesOne
<1>7. s = << >> => Writes(table, i, s, << >>)
  <2>1. s = << >> => Took(table[i], s, Default[table[i].kind])
    BY DEF Took, Default
  <2>. QED
    BY <2>1, WritesNothing
<1>. QED
  BY <1>3, <1>6, <1>7 DEF StringField

\* The first bytes of two sequences are those of the one, or all of it and the
\* first of the other.
LEMMA FirstOfTwo ==
  ASSUME NEW u \in Bytes, NEW x \in Bytes
  PROVE  /\ u \o x \in Bytes /\ Len(u \o x) = Len(u) + Len(x)
         /\ \A n \in 0 .. Len(u) : SubSeq(u \o x, 1, n) = SubSeq(u, 1, n)
         /\ \A n \in Len(u) .. Len(u \o x) :
               SubSeq(u \o x, 1, n) = u \o SubSeq(x, 1, n - Len(u))
         /\ SubSeq(u, 1, Len(u)) = u
<1>1. PICK X : X = 0 .. 255 /\ Bytes = Seq(X)
  BY DEF Bytes
<1>2. PICK y : y = u \o x
  OBVIOUS
<1>3. /\ y \in Seq(X) /\ Len(y) = Len(u) + Len(x) /\ u \in Seq(X) /\ x \in Seq(X)
      /\ Len(u) \in Nat /\ Len(x) \in Nat
      /\ \A i \in 1 .. Len(u) + Len(x) :
            y[i] = IF i <= Len(u) THEN u[i] ELSE x[i - Len(u)]
  BY <1>1, <1>2, ConcatProperties
<1>4. ASSUME NEW n \in 0 .. Len(u) PROVE SubSeq(y, 1, n) = SubSeq(u, 1, n)
  <2>1. PICK a : a = SubSeq(y, 1, n)
    OBVIOUS
  <2>2. PICK b : b = SubSeq(u, 1, n)
    OBVIOUS
  <2>3. n \in 0 .. Len(y)
    BY <1>3
  <2>4. a \in Seq(X) /\ Len(a) = n /\ \A i \in 1 .. n : a[i] = y[i]
    BY <2>1, <2>3, <1>3, FirstOnes
  <2>5. b \in Seq(X) /\ Len(b) = n /\ \A i \in 1 .. n : b[i] = u[i]
    BY <2>2, <1>3, FirstOnes
  <2>6. \A i \in 1 .. n : i \in 1 .. Len(u) + Len(x) /\ i <= Len(u)
    BY <1>3
  <2>7. \A i \in 1 .. n : a[i] = b[i]
    BY <2>4, <2>5, <2>6, <1>3
  <2>. QED
    BY <2>1, <2>2, <2>4, <2>5, <2>7
<1>5. ASSUME NEW n \in Len(u) .. Len(y)
      PROVE  SubSeq(y, 1, n) = u \o SubSeq(x, 1, n - Len(u))
  <2>1. PICK a : a = SubSeq(y, 1, n)
    OBVIOUS
  <2>2. PICK k : k = n - Len(u)
    OBVIOUS
  <2>3. PICK b : b = SubSeq(x, 1, k)
    OBVIOUS
  <2>4. PICK c : c = u \o b
    OBVIOUS
  <2>5. n \in 0 .. Len(y) /\ k \in 0 .. Len(x) /\ n \in Nat /\ Len(u) + k = n
    BY <2>2, <1>3
  <2>6. a \in Seq(X) /\ Len(a) = n /\ \A i \in 1 .. n : a[i] = y[i]
    BY <2>1, <2>5, <1>3, FirstOnes
  <2>7. b \in Seq(X) /\ Len(b) = k /\ \A i \in 1 .. k : b[i] = x[i]
    BY <2>3, <2>5, <1>3, FirstOnes
  <2>8. /\ c \in Seq(X) /\ Len(c) = Len(u) + Len(b)
        /\ \A i \in 1 .. Len(u) + Len(b) :
              c[i] = IF i <= Len(u) THEN u[i] ELSE b[i - Len(u)]
    <3>1. u \in Seq(X) /\ b \in Seq(X)
      BY <2>7, <1>3
    <3>2. /\ u \o b \in Seq(X) /\ Len(u \o b) = Len(u) + Len(b)
          /\ \A i \in 1 .. Len(u) + Len(b) :
                (u \o b)[i] = IF i <= Len(u) THEN u[i] ELSE b[i - Len(u)]
      BY <3>1, ConcatProperties
    <3>. QED
      BY <3>2, <2>4
  <2>9. ASSUME NEW i \in 1 .. n PROVE a[i] = c[i]
    <3>1. i \in 1 .. Len(u) + Len(x) /\ i \in 1 .. Len(u) + Len(b)
      BY <2>5, <2>7, <1>3
    <3>2. CASE i <= Len(u)
      BY <3>1, <3>2, <2>6, <2>8, <1>3
    <3>3. CASE ~ (i <= Len(u))
      <4>1. i - Len(u) \in 1 .. k
        BY <3>3, <2>5, <1>3
      <4>2. a[i] = x[i - Len(u)] /\ c[i] = b[i - Len(u)]
        BY <3>1, <3>3, <2>6, <2>8, <1>3
      <4>. QED
        BY <4>1, <4>2, <2>7
    <3>. QED
      BY <3>2, <3>3
  <2>10. Len(c) = n
    BY <2>5, <2>7, <2>8
  <2>11. a = c
    <3>1. a \in Seq(X) /\ c \in Seq(X) /\ Len(a) = Len(c)
      BY <2>6, <2>8, <2>10
    <3>2. \A i \in 1 .. Len(a) : a[i] = c[i]
      BY <2>6, <2>9
    <3>. QED
      BY <3>1, <3>2
  <2>. QED
    BY <2>1, <2>2, <2>3, <2>4, <2>11
<1>6. SubSeq(u, 1, Len(u)) = u
  BY <1>3
<1>. QED
  BY <1>1, <1>2, <1>3, <1>4, <1>5, <1>6

-----------------------------------------------------------------------------
(* Messages                                                                *)

\* The parser's message m2 has the first j members of m.
Got(table, m, j, m2) ==
    /\ Shaped(table, m2)
    /\ \A i \in 1 .. Len(table) :
          IF i <= j THEN Took(table[i], m[table[i].name], m2[table[i].name])
                    ELSE m2[table[i].name] = Default[table[i].kind]

\* Of u without its end, a parser makes nothing, or the first members of m.
CutOk(table, m, j, u) ==
    \A n \in 0 .. Len(u) - 1 :
        \/ Parse(table, SubSeq(u, 1, n)) = NoMessage
        \/ \E k \in 0 .. j : Got(table, m, k, Parse(table, SubSeq(u, 1, n)))

\* The pieces ps are the first j members of m.
Encodes(table, m, j, ps) ==
    /\ ps \in Seq(Bytes)
    /\ \E U, fs, m2 :
          /\ Says(FlattenSeq(ps), U, fs) /\ FitsAll(table, fs)
          /\ Folded(table, Blank(table), fs, m2) /\ Got(table, m, j, m2)
    /\ (\A i \in 1 .. j : table[i].kind # "items") =>
          CutOk(table, m, j, FlattenSeq(ps))

LEMMA EncodesNone ==
  ASSUME NEW table, IsTable(table), NEW m
  PROVE  Encodes(table, m, 0, << >>)
<1>1. /\ << >> \in Seq(Bytes) /\ Len(<< >>) = 0 /\ 1 .. 0 = {}
      /\ 0 .. 0 - 1 = {}
      /\ FlattenSeq(<< >>) = << >> /\ Says(<< >>, << >>, << >>)
  BY SaysNothing, FlatEmpty
<1>2. FitsAll(table, << >>)
  BY <1>1 DEF FitsAll
<1>3. PICK m2 : m2 = Blank(table)
  OBVIOUS
<1>4. Folded(table, Blank(table), << >>, m2)
  BY <1>3, FoldedNone
<1>5. Got(table, m, 0, m2)
  <2>1. \A i \in 1 .. Len(table) : ~ (i <= 0)
    OBVIOUS
  <2>. QED
    BY <2>1, <1>3, BlankIs DEF Got, Shaped
<1>6. CutOk(table, m, 0, << >>)
  BY <1>1 DEF CutOk
<1>. QED
  BY <1>1, <1>2, <1>4, <1>5, <1>6 DEF Encodes

LEMMA GotMore ==
  ASSUME NEW table, IsTable(table), NEW m, NEW i \in 1 .. Len(table),
         NEW m2, Got(table, m, i - 1, m2),
         NEW w, Took(table[i], m[table[i].name], w)
  PROVE  Got(table, m, i, [m2 EXCEPT ![table[i].name] = w])
<1>1. PICK e : e = table[i]
  OBVIOUS
<1>2. PICK m3 : m3 = [m2 EXCEPT ![e.name] = w]
  OBVIOUS
<1>3. PICK D : D = DOMAIN Blank(table)
  OBVIOUS
<1>4. m2 = [name \in D |-> m2[name]] /\ e.name \in D /\ i \in Nat
  BY <1>1, <1>3, BlankIs, EntryIs DEF Got, Shaped
<1>5. /\ m3 = [name \in D |-> m3[name]] /\ m3[e.name] = w
      /\ \A name \in D : name # e.name => m3[name] = m2[name]
  BY <1>2, <1>4
<1>6. ASSUME NEW k \in 1 .. Len(table)
      PROVE  IF k <= i THEN Took(table[k], m[table[k].name], m3[table[k].name])
                       ELSE m3[table[k].name] = Default[table[k].kind]
  <2>1. k \in Nat /\ table[k].name \in D
    BY <1>3, BlankIs, EntryIs
  <2>2. CASE k = i
    BY <2>1, <2>2, <1>1, <1>4, <1>5
  <2>3. CASE k # i
    <3>1. table[k].name # e.name
      BY <2>3, <1>1 DEF IsTable
    <3>2. m3[table[k].name] = m2[table[k].name]
      BY <2>1, <3>1, <1>5
    <3>3. k <= i <=> k <= i - 1
      BY <2>1, <2>3, <1>4
    <3>. QED
      BY <3>2, <3>3 DEF Got
  <2>. QED
    BY <2>2, <2>3
<1>. QED
  BY <1>1, <1>2, <1>3, <1>5, <1>6 DEF Got, Shaped

\* One field more.
LEMMA CutMore ==
  ASSUME NEW table, NEW m, NEW i \in Nat \ {0},
         NEW u, NEW U, NEW fs, Says(u, U, fs), FitsAll(table, fs),
         NEW m2, Folded(table, Blank(table), fs, m2), Got(table, m, i - 1, m2),
         CutOk(table, m, i - 1, u),
         NEW x, NEW number, NEW wire, NEW value, Spells(x, number, wire, value)
  PROVE  CutOk(table, m, i, u \o x)
<1>1. u \in Bytes /\ x \in Bytes /\ Len(u) \in Nat /\ Len(x) \in Nat
  BY FlatBytes DEF Says, Spells, Bytes
<1>2. /\ u \o x \in Bytes /\ Len(u \o x) = Len(u) + Len(x)
      /\ \A n \in 0 .. Len(u) : SubSeq(u \o x, 1, n) = SubSeq(u, 1, n)
      /\ \A n \in Len(u) .. Len(u \o x) :
            SubSeq(u \o x, 1, n) = u \o SubSeq(x, 1, n - Len(u))
      /\ SubSeq(u, 1, Len(u)) = u
  BY <1>1, FirstOfTwo
<1>3. PICK y : y = u \o x
  OBVIOUS
<1>4. /\ y \in Bytes /\ Len(y) = Len(u) + Len(x)
      /\ \A n \in 0 .. Len(u) : SubSeq(y, 1, n) = SubSeq(u, 1, n)
      /\ \A n \in Len(u) .. Len(y) : SubSeq(y, 1, n) = u \o SubSeq(x, 1, n - Len(u))
      /\ SubSeq(u, 1, Len(u)) = u
  BY <1>3, <1>2
<1>5. ASSUME NEW n \in 0 .. Len(y) - 1
      PROVE  \/ Parse(table, SubSeq(y, 1, n)) = NoMessage
             \/ \E k \in 0 .. i : Got(table, m, k, Parse(table, SubSeq(y, 1, n)))
  <2>1. CASE n < Len(u)
    <3>1. n \in 0 .. Len(u) - 1 /\ n \in 0 .. Len(u)
      BY <2>1, <1>1
    <3>2. \A k \in 0 .. i - 1 : k \in 0 .. i
      OBVIOUS
    <3>3. SubSeq(y, 1, n) = SubSeq(u, 1, n)
      BY <3>1, <1>4
    <3>4. \/ Parse(table, SubSeq(u, 1, n)) = NoMessage
          \/ \E k \in 0 .. i - 1 : Got(table, m, k, Parse(table, SubSeq(u, 1, n)))
      BY <3>1 DEF CutOk
    <3>. QED
      BY <3>2, <3>3, <3>4
  <2>2. CASE n = Len(u)
    <3>1. Len(u) \in 0 .. Len(u) /\ i - 1 \in 0 .. i
      BY <1>1
    <3>2. SubSeq(y, 1, n) = u
      BY <3>1, <2>2, <1>4
    <3>3. Parse(table, u) = m2
      BY ParseWhole
    <3>. QED
      BY <3>1, <3>2, <3>3
  <2>3. CASE n > Len(u)
    <3>1. PICK l : l = n - Len(u)
      OBVIOUS
    <3>2. l \in 0 .. Len(x) - 1 /\ l > 0 /\ n \in Len(u) .. Len(y)
      <4>1. PICK N : N = Len(y)
        OBVIOUS
      <4>2. N = Len(u) + Len(x) /\ n \in 0 .. N - 1
        BY <4>1, <1>4
      <4>3. l \in 0 .. Len(x) - 1 /\ l > 0 /\ n \in Len(u) .. N
        BY <2>3, <3>1, <4>2, <1>1
      <4>. QED
        BY <4>1, <4>3
    <3>3. PICK r : r = SubSeq(x, 1, l)
      OBVIOUS
    <3>4. r \in Bytes /\ ~ ReadField(u \o r, Len(u) + 1).ok
      BY <3>2, <3>3, <1>1, FieldCut
    <3>5. r # << >>
      <4>1. l \in 0 .. Len(x)
        BY <3>2, <1>1
      <4>2. Len(r) = l
        BY <3>3, <4>1, <1>1, BytesInTwo
      <4>3. Len(<< >>) = 0
        OBVIOUS
      <4>. QED
        BY <4>2, <4>3, <3>2
    <3>6. Parse(table, u \o r) = NoMessage
      BY <3>4, <3>5, ParseBroken
    <3>. QED
      BY <3>1, <3>2, <3>3, <3>6, <1>4
  <2>. QED
    BY <2>1, <2>2, <2>3, <1>1
<1>. QED
  BY <1>3, <1>5 DEF CutOk

LEMMA FlatJoined ==
  ASSUME NEW s \in Seq(Bytes), NEW t \in Seq(Bytes)
  PROVE  /\ s \o t \in Seq(Bytes)
         /\ FlattenSeq(s \o t) = FlattenSeq(s) \o FlattenSeq(t)
<1>1. s \o t \in Seq(Bytes)
  OBVIOUS
<1>2. PICK X : X = 0 .. 255 /\ Bytes = Seq(X)
  BY DEF Bytes
<1>3. s \in Seq(Seq(X)) /\ t \in Seq(Seq(X))
  BY <1>2
<1>. QED
  BY <1>1, <1>3, FlatConcat

LEMMA SingleOne ==
  ASSUME NEW X, NEW s \in Seq(X), Len(s) = 1
  PROVE  s[1] \in X /\ s = <<s[1]>>
<1>1. PICK x : x = s[1] /\ x \in X
  OBVIOUS
<1>2. PICK t : t = <<x>> /\ t \in Seq(X) /\ Len(t) = 1 /\ t[1] = x
  BY <1>1
<1>3. \A i \in 1 .. 1 : s[i] = t[i]
  BY <1>1, <1>2
<1>4. s = t
  BY <1>2, <1>3
<1>. QED
  BY <1>1, <1>2, <1>4

LEMMA EncodesMore ==
  ASSUME NEW table, IsTable(table), NEW m, NEW i \in 1 .. Len(table),
         NEW ps, Encodes(table, m, i - 1, ps),
         NEW p, Writes(table, i, m[table[i].name], p)
  PROVE  Encodes(table, m, i, ps \o p)
<1>1. PICK U, fs, m2 :
          /\ Says(FlattenSeq(ps), U, fs) /\ FitsAll(table, fs)
          /\ Folded(table, Blank(table), fs, m2) /\ Got(table, m, i - 1, m2)
  BY DEF Encodes
<1>2. PICK V, gs :
          /\ Says(FlattenSeq(p), V, gs) /\ FitsAll(table, gs)
          /\ table[i].kind # "items" => Len(V) <= 1
          /\ \A mm : Shaped(table, mm) /\ mm[table[i].name] = Default[table[i].kind] =>
                \E w : /\ Took(table[i], m[table[i].name], w)
                       /\ Folded(table, mm, gs, [mm EXCEPT ![table[i].name] = w])
  BY DEF Writes
<1>3. ps \in Seq(Bytes) /\ p \in Seq(Bytes)
  BY DEF Encodes, Writes
<1>4. PICK u : u = FlattenSeq(ps) /\ u \in Bytes
  BY <1>3, FlatBytes
<1>5. PICK x : x = FlattenSeq(p) /\ x \in Bytes
  BY <1>3, FlatBytes
<1>6. ps \o p \in Seq(Bytes) /\ FlattenSeq(ps \o p) = u \o x
  BY <1>3, <1>4, <1>5, FlatJoined
<1>7. i \in Nat \ {0} /\ ~ (i <= i - 1)
  BY EntryIs
<1>8. Shaped(table, m2) /\ m2[table[i].name] = Default[table[i].kind]
  BY <1>1, <1>7 DEF Got
<1>9. PICK w : /\ Took(table[i], m[table[i].name], w)
               /\ Folded(table, m2, gs, [m2 EXCEPT ![table[i].name] = w])
  BY <1>2, <1>8
<1>10. PICK m3 : m3 = [m2 EXCEPT ![table[i].name] = w]
  OBVIOUS
<1>11. Got(table, m, i, m3)
  BY <1>1, <1>9, <1>10, GotMore
<1>12. fs \in Seq(Facts) /\ gs \in Seq(Facts)
  BY <1>1, <1>2 DEF Says
<1>13. Folded(table, Blank(table), fs \o gs, m3)
  BY <1>1, <1>9, <1>10, <1>12, FoldedMore
<1>14. Says(u \o x, U \o V, fs \o gs)
  BY <1>1, <1>2, <1>4, <1>5, SaysMore
<1>15. FitsAll(table, fs \o gs)
  BY <1>1, <1>2, <1>12, FitsMore
<1>16. ASSUME \A k \in 1 .. i : table[k].kind # "items"
       PROVE  CutOk(table, m, i, u \o x)
  <2>1. /\ \A k \in 1 .. i - 1 : table[k].kind # "items"
        /\ table[i].kind # "items"
    <3>1. i \in 1 .. i /\ \A k \in 1 .. i - 1 : k \in 1 .. i
      BY <1>7
    <3>. QED
      BY <3>1, <1>16
  <2>2. CutOk(table, m, i - 1, u)
    BY <2>1, <1>4 DEF Encodes
  <2>3. V \in Seq(Bytes) /\ Len(V) <= 1 /\ x = FlattenSeq(V) /\ Len(V) \in Nat
    BY <2>1, <1>2, <1>5 DEF Says
  <2>4. CASE Len(V) = 0
    <3>1. V = << >>
      BY <2>3, <2>4
    <3>2. u \o x = u
      <4>1. x = << >>
        BY <2>3, <3>1, FlatEmpty
      <4>. QED
        BY <4>1, <1>4 DEF Bytes
    <3>3. \A k \in 0 .. i - 1 : k \in 0 .. i
      BY <1>7
    <3>4. CutOk(table, m, i, u)
      BY <2>2, <3>3 DEF CutOk
    <3>. QED
      BY <3>2, <3>4
  <2>5. CASE Len(V) = 1
    <3>1. PICK y : y = V[1]
      OBVIOUS
    <3>2. V = <<y>> /\ y \in Bytes /\ 1 \in 1 .. Len(V)
      BY <2>3, <2>5, <3>1, SingleOne
    <3>3. x = y
      BY <2>3, <3>2, FlatOne DEF Bytes
    <3>4. Spells(x, gs[1].number, gs[1].wire, gs[1].value)
      BY <3>1, <3>2, <3>3, <1>2 DEF Says
    <3>. QED
      BY <3>4, <2>2, <1>1, <1>4, <1>7, CutMore
  <2>6. PICK l : l = Len(V) /\ l \in Nat /\ l <= 1
    BY <2>3
  <2>7. l = 0 \/ l = 1
    BY <2>6
  <2>. QED
    BY <2>4, <2>5, <2>6, <2>7
<1>. QED
  <2>1. \E W, hs, mm :
          /\ Says(FlattenSeq(ps \o p), W, hs) /\ FitsAll(table, hs)
          /\ Folded(table, Blank(table), hs, mm) /\ Got(table, m, i, mm)
    BY <1>6, <1>11, <1>13, <1>14, <1>15
  <2>. QED
    BY <2>1, <1>6, <1>16 DEF Encodes

-----------------------------------------------------------------------------
(* What the encoders write, message by message                             *)

\* An encoder writes the pieces p for the member i.
Plain(table, m, i, p) ==
    LET e == table[i]
        v == m[table[i].name]
    IN  \/ e.kind = "string" /\ p = StringField(i, v)
        \/ e.kind = "number" /\ p \in {VarintField(i, v), NonZero(i, v)}
        \/ e.kind = "flag" /\ p = Flag(i, v)
        \/ e.kind = "double" /\ p \in {DoubleField(i, v), NonZeroDouble(i, v)}

LEMMA WritesPlain ==
  ASSUME NEW table, IsTable(table), NEW m, HasMembers(table, m),
         NEW i \in 1 .. Len(table), NEW p, Plain(table, m, i, p)
  PROVE  Writes(table, i, m[table[i].name], p)
<1>1. PICK e : e = table[i]
  OBVIOUS
<1>2. PICK v : v = m[e.name]
  OBVIOUS
<1>3. KindOf(e, v)
  <2>1. e \in ToSet(table)
    BY <1>1, EntryIs DEF ToSet
  <2>. QED
    BY <2>1, <1>2 DEF HasMembers
<1>4. CASE e.kind = "string"
  <2>1. v \in Bytes /\ Len(v) \in Numbers /\ p = StringField(i, v)
    BY <1>1, <1>2, <1>3, <1>4 DEF KindOf, Plain
  <2>. QED
    BY <2>1, <1>1, <1>2, <1>4, WritesString
<1>5. CASE e.kind = "number"
  <2>1. v \in Numbers /\ p \in {VarintField(i, v), NonZero(i, v)}
    BY <1>1, <1>2, <1>3, <1>5 DEF KindOf, Plain
  <2>. QED
    BY <2>1, <1>1, <1>2, <1>5, WritesNumber
<1>6. CASE e.kind = "flag"
  <2>1. v \in BOOLEAN /\ p = Flag(i, v)
    BY <1>1, <1>2, <1>3, <1>6 DEF KindOf, Plain
  <2>. QED
    BY <2>1, <1>1, <1>2, <1>6, WritesFlag
<1>7. CASE e.kind = "double"
  <2>1. v \in Bytes /\ Len(v) = 8 /\ p \in {DoubleField(i, v), NonZeroDouble(i, v)}
    BY <1>1, <1>2, <1>3, <1>7 DEF KindOf, Plain
  <2>. QED
    BY <2>1, <1>1, <1>2, <1>7, WritesDouble
<1>. QED
  BY <1>1, <1>4, <1>5, <1>6, <1>7 DEF Plain

LEMMA EncodesPlain ==
  ASSUME NEW table, IsTable(table), NEW m, HasMembers(table, m),
         NEW i \in 1 .. Len(table), NEW ps, NEW p, NEW j, j = i - 1,
         Encodes(table, m, j, ps), Plain(table, m, i, p)
  PROVE  Encodes(table, m, i, ps \o p)
  BY WritesPlain, EncodesMore

LEMMA EncodesFirst ==
  ASSUME NEW table, IsTable(table), NEW m, HasMembers(table, m),
         NEW p, Plain(table, m, 1, p)
  PROVE  Encodes(table, m, 1, p)
<1>1. 1 \in 1 .. Len(table) /\ 0 = 1 - 1
  BY DEF IsTable
<1>2. Encodes(table, m, 1, << >> \o p)
  BY <1>1, EncodesNone, EncodesPlain
<1>3. p \in Seq(Bytes)
  BY <1>1, WritesPlain DEF Writes
<1>4. << >> \o p = p
  BY <1>3
<1>. QED
  BY <1>2, <1>4

LEMMA Tables ==
  /\ IsTable(SensorInfoTable) /\ Len(SensorInfoTable) = 9
  /\ IsTable(SensorReadingTable) /\ Len(SensorReadingTable) = 8
  /\ IsTable(DiscoveryRequestTable) /\ Len(DiscoveryRequestTable) = 4
  /\ IsTable(ClientRequestTable) /\ Len(ClientRequestTable) = 5
  /\ IsTable(ControlCommandTable) /\ Len(ControlCommandTable) = 4
  /\ IsTable(ControlResponseTable) /\ Len(ControlResponseTable) = 7
  /\ IsTable(ClientResponseTable) /\ Len(ClientResponseTable) = 5
<1>1. IsTable(SensorInfoTable) /\ Len(SensorInfoTable) = 9
  <2>1. PICK t : t = SensorInfoTable
    OBVIOUS
  <2>2. t \in Seq({t[1], t[2], t[3], t[4], t[5], t[6], t[7], t[8], t[9]}) /\ Len(t) = 9
    BY <2>1 DEF SensorInfoTable
  <2>3. \A i \in 1 .. 9 : /\ t[i].kind \in DOMAIN WireOf
                         /\ t[i].name # "ok"
    BY <2>1 DEF SensorInfoTable, As, WireOf
  <2>4. \A i, j \in 1 .. 9 : t[i].name = t[j].name => i = j
    BY <2>1 DEF SensorInfoTable, As
  <2>5. 9 \in 1 .. 9 /\ \E X : t \in Seq(X)
    BY <2>2
  <2>. QED
    BY <2>1, <2>2, <2>3, <2>4, <2>5 DEF IsTable
<1>2. IsTable(SensorReadingTable) /\ Len(SensorReadingTable) = 8
  <2>1. PICK t : t = SensorReadingTable
    OBVIOUS
  <2>2. t \in Seq({t[1], t[2], t[3], t[4], t[5], t[6], t[7], t[8]}) /\ Len(t) = 8
    BY <2>1 DEF SensorReadingTable
  <2>3. \A i \in 1 .. 8 : /\ t[i].kind \in DOMAIN WireOf
                         /\ t[i].name # "ok"
    BY <2>1 DEF SensorReadingTable, As, WireOf
  <2>4. \A i, j \in 1 .. 8 : t[i].name = t[j].name => i = j
    BY <2>1 DEF SensorReadingTable, As
  <2>5. 8 \in 1 .. 9 /\ \E X : t \in Seq(X)
    BY <2>2
  <2>. QED
    BY <2>1, <2>2, <2>3, <2>4, <2>5 DEF IsTable
<1>3. IsTable(DiscoveryRequestTable) /\ Len(DiscoveryRequestTable) = 4
  <2>1. PICK t : t = DiscoveryRequestTable
    OBVIOUS
  <2>2. t \in Seq({t[1], t[2], t[3], t[4]}) /\ Len(t) = 4
    BY <2>1 DEF DiscoveryRequestTable
  <2>3. \A i \in 1 .. 4 : /\ t[i].kind \in DOMAIN WireOf
                         /\ t[i].name # "ok"
    BY <2>1 DEF DiscoveryRequestTable, As, WireOf
  <2>4. \A i, j \in 1 .. 4 : t[i].name = t[j].name => i = j
    BY <2>1 DEF DiscoveryRequestTable, As
  <2>5. 4 \in 1 .. 9 /\ \E X : t \in Seq(X)
    BY <2>2
  <2>. QED
    BY <2>1, <2>2, <2>3, <2>4, <2>5 DEF IsTable
<1>4. IsTable(ClientRequestTable) /\ Len(ClientRequestTable) = 5
  <2>1. PICK t : t = ClientRequestTable
    OBVIOUS
  <2>2. t \in Seq({t[1], t[2], t[3], t[4], t[5]}) /\ Len(t) = 5
    BY <2>1 DEF ClientRequestTable
  <2>3. \A i \in 1 .. 5 : /\ t[i].kind \in DOMAIN WireOf
                         /\ t[i].name # "ok"
    BY <2>1 DEF ClientRequestTable, As, WireOf
  <2>4. \A i, j \in 1 .. 5 : t[i].name = t[j].name => i = j
    BY <2>1 DEF ClientRequestTable, As
  <2>5. 5 \in 1 .. 9 /\ \E X : t \in Seq(X)
    BY <2>2
  <2>. QED
    BY <2>1, <2>2, <2>3, <2>4, <2>5 DEF IsTable
<1>5. IsTable(ControlCommandTable) /\ Len(ControlCommandTable) = 4
  <2>1. PICK t : t = ControlCommandTable
    OBVIOUS
  <2>2. t \in Seq({t[1], t[2], t[3], t[4]}) /\ Len(t) = 4
    BY <2>1 DEF ControlCommandTable
  <2>3. \A i \in 1 .. 4 : /\ t[i].kind \in DOMAIN WireOf
                         /\ t[i].name # "ok"
    BY <2>1 DEF ControlCommandTable, As, WireOf
  <2>4. \A i, j \in 1 .. 4 : t[i].name = t[j].name => i = j
    BY <2>1 DEF ControlCommandTable, As
  <2>5. 4 \in 1 .. 9 /\ \E X : t \in Seq(X)
    BY <2>2
  <2>. QED
    BY <2>1, <2>2, <2>3, <2>4, <2>5 DEF IsTable
<1>6. IsTable(ControlResponseTable) /\ Len(ControlResponseTable) = 7
  <2>1. PICK t : t = ControlResponseTable
    OBVIOUS
  <2>2. t \in Seq({t[1], t[2], t[3], t[4], t[5], t[6], t[7]}) /\ Len(t) = 7
    BY <2>1 DEF ControlResponseTable
  <2>3. \A i \in 1 .. 7 : /\ t[i].kind \in DOMAIN WireOf
                         /\ t[i].name # "ok"
    BY <2>1 DEF ControlResponseTable, As, WireOf
  <2>4. \A i, j \in 1 .. 7 : t[i].name = t[j].name => i = j
    BY <2>1 DEF ControlResponseTable, As
  <2>5. 7 \in 1 .. 9 /\ \E X : t \in Seq(X)
    BY <2>2
  <2>. QED
    BY <2>1, <2>2, <2>3, <2>4, <2>5 DEF IsTable
<1>7. IsTable(ClientResponseTable) /\ Len(ClientResponseTable) = 5
  <2>1. PICK t : t = ClientResponseTable
    OBVIOUS
  <2>2. t \in Seq({t[1], t[2], t[3], t[4], t[5]}) /\ Len(t) = 5
    BY <2>1 DEF ClientResponseTable
  <2>3. \A i \in 1 .. 5 : /\ t[i].kind \in DOMAIN WireOf
                         /\ t[i].name # "ok"
    BY <2>1 DEF ClientResponseTable, As, WireOf
  <2>4. \A i, j \in 1 .. 5 : t[i].name = t[j].name => i = j
    BY <2>1 DEF ClientResponseTable, As
  <2>5. 5 \in 1 .. 9 /\ \E X : t \in Seq(X)
    BY <2>2
  <2>. QED
    BY <2>1, <2>2, <2>3, <2>4, <2>5 DEF IsTable
<1>. QED
  BY <1>1, <1>2, <1>3, <1>4, <1>5, <1>6, <1>7

LEMMA EncodesRequest ==
  ASSUME NEW m, HasMembers(DiscoveryRequestTable, m)
  PROVE  Encodes(DiscoveryRequestTable, m, 4, encode_discovery_request(m))
<1>1. PICK t : t = DiscoveryRequestTable
  OBVIOUS
<1>2. IsTable(t) /\ HasMembers(t, m) /\ Len(t) = 4
  BY <1>1, Tables
<1>3. PICK p1, p2, p3, p4 :
          /\ p1 = StringField(1, m.gateway_id)
          /\ p2 = StringField(2, m.request_timestamp)
          /\ p3 = NonZero(3, m.gateway_udp_port)
          /\ p4 = NonZero(4, m.discovery_response_port)
  OBVIOUS
<1>4. /\ Plain(t, m, 1, p1) /\ Plain(t, m, 2, p2) /\ Plain(t, m, 3, p3)
      /\ Plain(t, m, 4, p4)
  BY <1>1, <1>3 DEF DiscoveryRequestTable, As, Plain
<1>5. Encodes(t, m, 1, p1)
  BY <1>2, <1>4, EncodesFirst
<1>6. Encodes(t, m, 2, p1 \o p2)
  BY <1>2, <1>4, <1>5, EncodesPlain
<1>7. Encodes(t, m, 3, p1 \o p2 \o p3)
  BY <1>2, <1>4, <1>6, EncodesPlain
<1>8. Encodes(t, m, 4, p1 \o p2 \o p3 \o p4)
  BY <1>2, <1>4, <1>7, EncodesPlain
<1>. QED
  BY <1>1, <1>3, <1>8 DEF encode_discovery_request

LEMMA EncodesInfo ==
  ASSUME NEW m, HasMembers(SensorInfoTable, m)
  PROVE  Encodes(SensorInfoTable, m, 9, encode_sensor_info(m))
<1>1. PICK t : t = SensorInfoTable
  OBVIOUS
<1>2. IsTable(t) /\ HasMembers(t, m) /\ Len(t) = 9
  BY <1>1, Tables
<1>3. PICK p1, p2, p3, p4, p5, p6, p7, p8, p9 :
          /\ p1 = StringField(1, m.sensor_id)
          /\ p2 = NonZero(2, m.sensor_type)
          /\ p3 = StringField(3, m.sensor_ip)
          /\ p4 = NonZero(4, m.control_tcp_port)
          /\ p5 = Flag(5, m.is_active)
          /\ p6 = NonZeroDouble(6, m.frequency_seconds)
          /\ p7 = NonZeroDouble(7, m.threshold)
          /\ p8 = NonZero(8, m.device_kind)
          /\ p9 = StringField(9, m.state_text)
  OBVIOUS
<1>4. /\ Plain(t, m, 1, p1) /\ Plain(t, m, 2, p2) /\ Plain(t, m, 3, p3)
      /\ Plain(t, m, 4, p4) /\ Plain(t, m, 5, p5) /\ Plain(t, m, 6, p6)
      /\ Plain(t, m, 7, p7) /\ Plain(t, m, 8, p8) /\ Plain(t, m, 9, p9)
  BY <1>1, <1>3 DEF SensorInfoTable, As, Plain
<1>5. Encodes(t, m, 1, p1)
  BY <1>2, <1>4, EncodesFirst
<1>6. PICK q2 : q2 = p1 \o p2 /\ Encodes(t, m, 2, q2)
  <2>1. 2 \in 1 .. Len(t) /\ 1 = 2 - 1
    BY <1>2
  <2>. QED
    BY <2>1, <1>2, <1>4, <1>5, EncodesPlain
<1>7. PICK q3 : q3 = q2 \o p3 /\ Encodes(t, m, 3, q3)
  <2>1. 3 \in 1 .. Len(t) /\ 2 = 3 - 1
    BY <1>2
  <2>. QED
    BY <2>1, <1>2, <1>4, <1>6, EncodesPlain
<1>8. PICK q4 : q4 = q3 \o p4 /\ Encodes(t, m, 4, q4)
  <2>1. 4 \in 1 .. Len(t) /\ 3 = 4 - 1
    BY <1>2
  <2>. QED
    BY <2>1, <1>2, <1>4, <1>7, EncodesPlain
<1>9. PICK q5 : q5 = q4 \o p5 /\ Encodes(t, m, 5, q5)
  <2>1. 5 \in 1 .. Len(t) /\ 4 = 5 - 1
    BY <1>2
  <2>. QED
    BY <2>1, <1>2, <1>4, <1>8, EncodesPlain
<1>10. PICK q6 : q6 = q5 \o p6 /\ Encodes(t, m, 6, q6)
  <2>1. 6 \in 1 .. Len(t) /\ 5 = 6 - 1
    BY <1>2
  <2>. QED
    BY <2>1, <1>2, <1>4, <1>9, EncodesPlain
<1>11. PICK q7 : q7 = q6 \o p7 /\ Encodes(t, m, 7, q7)
  <2>1. 7 \in 1 .. Len(t) /\ 6 = 7 - 1
    BY <1>2
  <2>. QED
    BY <2>1, <1>2, <1>4, <1>10, EncodesPlain
<1>12. PICK q8 : q8 = q7 \o p8 /\ Encodes(t, m, 8, q8)
  <2>1. 8 \in 1 .. Len(t) /\ 7 = 8 - 1
    BY <1>2
  <2>. QED
    BY <2>1, <1>2, <1>4, <1>11, EncodesPlain
<1>13. PICK q9 : q9 = q8 \o p9 /\ Encodes(t, m, 9, q9)
  <2>1. 9 \in 1 .. Len(t) /\ 8 = 9 - 1
    BY <1>2
  <2>. QED
    BY <2>1, <1>2, <1>4, <1>12, EncodesPlain
<1>. QED
  BY <1>1, <1>3, <1>6, <1>7, <1>8, <1>9, <1>10, <1>11, <1>12, <1>13
     DEF encode_sensor_info

LEMMA EncodesReading ==
  ASSUME NEW m, HasMembers(SensorReadingTable, m)
  PROVE  Encodes(SensorReadingTable, m, 8, encode_sensor_reading(m))
<1>1. PICK t : t = SensorReadingTable
  OBVIOUS
<1>2. IsTable(t) /\ HasMembers(t, m) /\ Len(t) = 8
  BY <1>1, Tables
<1>3. PICK p1, p2, p3, p4, p5, p6, p7, p8 :
          /\ p1 = StringField(1, m.sensor_id)
          /\ p2 = NonZero(2, m.sensor_type)
          /\ p3 = DoubleField(3, m.value)
          /\ p4 = StringField(4, m.unit)
          /\ p5 = NonZero(5, m.timestamp_unix_ms)
          /\ p6 = Flag(6, m.alert)
          /\ p7 = StringField(7, m.alert_message)
          /\ p8 = StringField(8, m.metric)
  OBVIOUS
<1>4. /\ Plain(t, m, 1, p1) /\ Plain(t, m, 2, p2) /\ Plain(t, m, 3, p3)
      /\ Plain(t, m, 4, p4) /\ Plain(t, m, 5, p5) /\ Plain(t, m, 6, p6)
      /\ Plain(t, m, 7, p7) /\ Plain(t, m, 8, p8)
  BY <1>1, <1>3 DEF SensorReadingTable, As, Plain
<1>5. Encodes(t, m, 1, p1)
  BY <1>2, <1>4, EncodesFirst
<1>6. PICK q2 : q2 = p1 \o p2 /\ Encodes(t, m, 2, q2)
  <2>1. 2 \in 1 .. Len(t) /\ 1 = 2 - 1
    BY <1>2
  <2>. QED
    BY <2>1, <1>2, <1>4, <1>5, EncodesPlain
<1>7. PICK q3 : q3 = q2 \o p3 /\ Encodes(t, m, 3, q3)
  <2>1. 3 \in 1 .. Len(t) /\ 2 = 3 - 1
    BY <1>2
  <2>. QED
    BY <2>1, <1>2, <1>4, <1>6, EncodesPlain
<1>8. PICK q4 : q4 = q3 \o p4 /\ Encodes(t, m, 4, q4)
  <2>1. 4 \in 1 .. Len(t) /\ 3 = 4 - 1
    BY <1>2
  <2>. QED
    BY <2>1, <1>2, <1>4, <1>7, EncodesPlain
<1>9. PICK q5 : q5 = q4 \o p5 /\ Encodes(t, m, 5, q5)
  <2>1. 5 \in 1 .. Len(t) /\ 4 = 5 - 1
    BY <1>2
  <2>. QED
    BY <2>1, <1>2, <1>4, <1>8, EncodesPlain
<1>10. PICK q6 : q6 = q5 \o p6 /\ Encodes(t, m, 6, q6)
  <2>1. 6 \in 1 .. Len(t) /\ 5 = 6 - 1
    BY <1>2
  <2>. QED
    BY <2>1, <1>2, <1>4, <1>9, EncodesPlain
<1>11. PICK q7 : q7 = q6 \o p7 /\ Encodes(t, m, 7, q7)
  <2>1. 7 \in 1 .. Len(t) /\ 6 = 7 - 1
    BY <1>2
  <2>. QED
    BY <2>1, <1>2, <1>4, <1>10, EncodesPlain
<1>12. PICK q8 : q8 = q7 \o p8 /\ Encodes(t, m, 8, q8)
  <2>1. 8 \in 1 .. Len(t) /\ 7 = 8 - 1
    BY <1>2
  <2>. QED
    BY <2>1, <1>2, <1>4, <1>11, EncodesPlain
<1>. QED
  BY <1>1, <1>3, <1>6, <1>7, <1>8, <1>9, <1>10, <1>11, <1>12
     DEF encode_sensor_reading

LEMMA EncodesControlResponse ==
  ASSUME NEW m, HasMembers(ControlResponseTable, m)
  PROVE  Encodes(ControlResponseTable, m, 7, encode_control_response(m))
<1>1. PICK t : t = ControlResponseTable
  OBVIOUS
<1>2. IsTable(t) /\ HasMembers(t, m) /\ Len(t) = 7
  BY <1>1, Tables
<1>3. PICK p1, p2, p3, p4, p5, p6, p7 :
          /\ p1 = NonZero(1, m.status)
          /\ p2 = StringField(2, m.message)
          /\ p3 = StringField(3, m.sensor_id)
          /\ p4 = Flag(4, m.is_active)
          /\ p5 = NonZeroDouble(5, m.frequency_seconds)
          /\ p6 = NonZeroDouble(6, m.threshold)
          /\ p7 = StringField(7, m.state_text)
  OBVIOUS
<1>4. /\ Plain(t, m, 1, p1) /\ Plain(t, m, 2, p2) /\ Plain(t, m, 3, p3)
      /\ Plain(t, m, 4, p4) /\ Plain(t, m, 5, p5) /\ Plain(t, m, 6, p6)
      /\ Plain(t, m, 7, p7)
  BY <1>1, <1>3 DEF ControlResponseTable, As, Plain
<1>5. Encodes(t, m, 1, p1)
  BY <1>2, <1>4, EncodesFirst
<1>6. PICK q2 : q2 = p1 \o p2 /\ Encodes(t, m, 2, q2)
  <2>1. 2 \in 1 .. Len(t) /\ 1 = 2 - 1
    BY <1>2
  <2>. QED
    BY <2>1, <1>2, <1>4, <1>5, EncodesPlain
<1>7. PICK q3 : q3 = q2 \o p3 /\ Encodes(t, m, 3, q3)
  <2>1. 3 \in 1 .. Len(t) /\ 2 = 3 - 1
    BY <1>2
  <2>. QED
    BY <2>1, <1>2, <1>4, <1>6, EncodesPlain
<1>8. PICK q4 : q4 = q3 \o p4 /\ Encodes(t, m, 4, q4)
  <2>1. 4 \in 1 .. Len(t) /\ 3 = 4 - 1
    BY <1>2
  <2>. QED
    BY <2>1, <1>2, <1>4, <1>7, EncodesPlain
<1>9. PICK q5 : q5 = q4 \o p5 /\ Encodes(t, m, 5, q5)
  <2>1. 5 \in 1 .. Len(t) /\ 4 = 5 - 1
    BY <1>2
  <2>. QED
    BY <2>1, <1>2, <1>4, <1>8, EncodesPlain
<1>10. PICK q6 : q6 = q5 \o p6 /\ Encodes(t, m, 6, q6)
  <2>1. 6 \in 1 .. Len(t) /\ 5 = 6 - 1
    BY <1>2
  <2>. QED
    BY <2>1, <1>2, <1>4, <1>9, EncodesPlain
<1>11. PICK q7 : q7 = q6 \o p7 /\ Encodes(t, m, 7, q7)
  <2>1. 7 \in 1 .. Len(t) /\ 6 = 7 - 1
    BY <1>2
  <2>. QED
    BY <2>1, <1>2, <1>4, <1>10, EncodesPlain
<1>. QED
  BY <1>1, <1>3, <1>6, <1>7, <1>8, <1>9, <1>10, <1>11
     DEF encode_control_response

LEMMA EncodesCommand ==
  ASSUME NEW m, HasMembers(ControlCommandTable, m)
  PROVE  Encodes(ControlCommandTable, m, 4, encode_control_command(m))
<1>1. PICK t : t = ControlCommandTable
  OBVIOUS
<1>2. IsTable(t) /\ HasMembers(t, m) /\ Len(t) = 4
  BY <1>1, Tables
<1>3. PICK p1, p2, p3, p4 :
          /\ p1 = NonZero(1, m.command_type)
          /\ p2 = StringField(2, m.sensor_id)
          /\ p3 = NonZeroDouble(3, m.value)
          /\ p4 = StringField(4, m.text_value)
  OBVIOUS
<1>4. /\ Plain(t, m, 1, p1) /\ Plain(t, m, 2, p2) /\ Plain(t, m, 3, p3)
      /\ Plain(t, m, 4, p4)
  BY <1>1, <1>3 DEF ControlCommandTable, As, Plain
<1>5. Encodes(t, m, 1, p1)
  BY <1>2, <1>4, EncodesFirst
<1>6. PICK q2 : q2 = p1 \o p2 /\ Encodes(t, m, 2, q2)
  <2>1. 2 \in 1 .. Len(t) /\ 1 = 2 - 1
    BY <1>2
  <2>. QED
    BY <2>1, <1>2, <1>4, <1>5, EncodesPlain
<1>7. PICK q3 : q3 = q2 \o p3 /\ Encodes(t, m, 3, q3)
  <2>1. 3 \in 1 .. Len(t) /\ 2 = 3 - 1
    BY <1>2
  <2>. QED
    BY <2>1, <1>2, <1>4, <1>6, EncodesPlain
<1>8. PICK q4 : q4 = q3 \o p4 /\ Encodes(t, m, 4, q4)
  <2>1. 4 \in 1 .. Len(t) /\ 3 = 4 - 1
    BY <1>2
  <2>. QED
    BY <2>1, <1>2, <1>4, <1>7, EncodesPlain
<1>. QED
  BY <1>1, <1>3, <1>6, <1>7, <1>8
     DEF encode_control_command

LEMMA EncodesClientRequest ==
  ASSUME NEW m, HasMembers(ClientRequestTable, m)
  PROVE  Encodes(ClientRequestTable, m, 5, encode_client_request(m))
<1>1. PICK t : t = ClientRequestTable
  OBVIOUS
<1>2. IsTable(t) /\ HasMembers(t, m) /\ Len(t) = 5
  BY <1>1, Tables
<1>3. PICK p1, p2, p3, p4, p5 :
          /\ p1 = VarintField(1, m.request_type)
          /\ p2 = StringField(2, m.target_sensor_id)
          /\ p3 = NonZeroDouble(3, m.value)
          /\ p4 = NonZero(4, m.command_type)
          /\ p5 = StringField(5, m.text_value)
  OBVIOUS
<1>4. /\ Plain(t, m, 1, p1) /\ Plain(t, m, 2, p2) /\ Plain(t, m, 3, p3)
      /\ Plain(t, m, 4, p4) /\ Plain(t, m, 5, p5)
  BY <1>1, <1>3 DEF ClientRequestTable, As, Plain
<1>5. Encodes(t, m, 1, p1)
  BY <1>2, <1>4, EncodesFirst
<1>6. PICK q2 : q2 = p1 \o p2 /\ Encodes(t, m, 2, q2)
  <2>1. 2 \in 1 .. Len(t) /\ 1 = 2 - 1
    BY <1>2
  <2>. QED
    BY <2>1, <1>2, <1>4, <1>5, EncodesPlain
<1>7. PICK q3 : q3 = q2 \o p3 /\ Encodes(t, m, 3, q3)
  <2>1. 3 \in 1 .. Len(t) /\ 2 = 3 - 1
    BY <1>2
  <2>. QED
    BY <2>1, <1>2, <1>4, <1>6, EncodesPlain
<1>8. PICK q4 : q4 = q3 \o p4 /\ Encodes(t, m, 4, q4)
  <2>1. 4 \in 1 .. Len(t) /\ 3 = 4 - 1
    BY <1>2
  <2>. QED
    BY <2>1, <1>2, <1>4, <1>7, EncodesPlain
<1>9. PICK q5 : q5 = q4 \o p5 /\ Encodes(t, m, 5, q5)
  <2>1. 5 \in 1 .. Len(t) /\ 4 = 5 - 1
    BY <1>2
  <2>. QED
    BY <2>1, <1>2, <1>4, <1>8, EncodesPlain
<1>. QED
  BY <1>1, <1>3, <1>6, <1>7, <1>8, <1>9
     DEF encode_client_request

\* An encoder that writes every member of a table, in its order.
LEMMA EncodesAll ==
  ASSUME NEW table, IsTable(table), NEW m, NEW P \in Seq(Seq(Bytes)),
         Len(P) = Len(table),
         \A i \in 1 .. Len(table) : Writes(table, i, m[table[i].name], P[i])
  PROVE  Encodes(table, m, Len(table), FlattenSeq(P))
<1>1. PICK n : n = Len(table) /\ n \in Nat
  BY DEF IsTable
<1>2. PICK f : /\ \A i \in 0 .. Len(P) : f[i] \in Seq(Bytes)
               /\ f[0] = << >>
               /\ \A i \in 1 .. Len(P) : f[i] = f[i - 1] \o P[i]
               /\ FlattenSeq(P) = f[Len(P)]
  BY FlatLoop
<1>3. /\ f[0] = << >>
      /\ \A i \in 1 .. n : f[i] = f[i - 1] \o P[i]
      /\ FlattenSeq(P) = f[n]
  BY <1>1, <1>2
<1>. DEFINE S == {k \in Nat : k <= n => Encodes(table, m, k, f[k])}
<1>4. 0 \in S
  BY <1>3, EncodesNone
<1>5. ASSUME NEW k \in Nat, k \in S PROVE k + 1 \in S
  <2>. SUFFICES ASSUME k + 1 <= n PROVE Encodes(table, m, k + 1, f[k + 1])
    OBVIOUS
  <2>1. PICK i : i = k + 1
    OBVIOUS
  <2>2. i \in 1 .. n /\ i - 1 = k /\ k <= n
    BY <2>1, <1>1
  <2>3. Encodes(table, m, i - 1, f[k])
    BY <2>2, <1>5
  <2>4. Writes(table, i, m[table[i].name], P[i])
    BY <2>2, <1>1
  <2>5. Encodes(table, m, i, f[k] \o P[i])
    BY <2>2, <2>3, <2>4, <1>1, EncodesMore
  <2>6. f[i] = f[k] \o P[i]
    BY <2>2, <1>3
  <2>. QED
    BY <2>1, <2>5, <2>6
<1>6. n \in S
  <2>. HIDE DEF S
  <2>. QED
    BY <1>1, <1>4, <1>5, Induction
<1>. QED
  BY <1>1, <1>3, <1>6

\* A Python program: one field, ...
LEMMA WritesPython ==
  ASSUME NEW table, IsTable(table), NEW i \in 1 .. Len(table),
         table[i].kind # "items", NEW v, KindOf(table[i], v)
  PROVE  Writes(table, i, v, PythonField(i, table[i].kind, v))
<1>1. PICK e : e = table[i]
  OBVIOUS
<1>2. e.kind \in {"number", "flag", "double", "string"} /\ KindOf(e, v)
  BY <1>1, EntryIs
<1>3. PICK p : p = PythonField(i, e.kind, v)
  OBVIOUS
<1>4. CASE v = Default[e.kind]
  <2>1. Took(e, v, v)
    BY <1>2 DEF Took, Equal
  <2>2. Writes(table, i, v, << >>)
    BY <1>1, <1>4, <2>1, WritesNothing
  <2>3. p = << >>
    BY <1>3, <1>4 DEF PythonField
  <2>. QED
    BY <1>1, <1>3, <2>2, <2>3
<1>5. CASE v # Default[e.kind] /\ e.kind = "number"
  <2>1. p = VarintField(i, v) /\ v \in Numbers
    BY <1>2, <1>3, <1>5 DEF KindOf, PythonField
  <2>. QED
    BY <1>1, <1>3, <1>5, <2>1, WritesNumber
<1>6. CASE v # Default[e.kind] /\ e.kind = "flag"
  <2>1. v \in BOOLEAN
    BY <1>2, <1>6 DEF KindOf
  <2>2. Default[e.kind] = FALSE
    BY <1>6 DEF Default
  <2>3. v = TRUE
    BY <2>1, <2>2, <1>6, Zenon
  <2>4. p = VarintField(i, 1)
    BY <1>3, <1>6 DEF PythonField
  <2>5. Flag(i, TRUE) = VarintField(i, 1) /\ TRUE \in BOOLEAN
    BY DEF Flag
  <2>6. Writes(table, i, TRUE, Flag(i, TRUE))
    BY <2>5, <1>1, <1>6, WritesFlag
  <2>. QED
    BY <1>1, <1>3, <2>3, <2>4, <2>5, <2>6
<1>7. CASE v # Default[e.kind] /\ e.kind = "double"
  <2>1. p = DoubleField(i, v) /\ v \in Bytes /\ Len(v) = 8
    BY <1>2, <1>3, <1>7 DEF KindOf, PythonField
  <2>. QED
    BY <1>1, <1>3, <1>7, <2>1, WritesDouble
<1>8. CASE v # Default[e.kind] /\ e.kind = "string"
  <2>1. p = StringField(i, v) /\ v \in Bytes /\ Len(v) \in Numbers
    BY <1>2, <1>3, <1>8 DEF KindOf, PythonField
  <2>. QED
    BY <1>1, <1>3, <1>8, <2>1, WritesString
<1>. QED
  BY <1>2, <1>4, <1>5, <1>6, <1>7, <1>8

\* ... and a message without messages in it.
LEMMA EncodesPython ==
  ASSUME NEW table, IsTable(table), NEW m, HasMembers(table, m),
         \A i \in 1 .. Len(table) : table[i].kind # "items"
  PROVE  Encodes(table, m, Len(table), PythonFlat(table, m))
<1>1. PICK P : P = [i \in DOMAIN table |->
                        PythonField(i, table[i].kind, m[table[i].name])]
  OBVIOUS
<1>2. PythonFlat(table, m) = FlattenSeq(P)
  BY <1>1 DEF PythonFlat
<1>3. PICK n : n = Len(table) /\ n \in Nat /\ DOMAIN table = 1 .. n
  <2>1. PICK l : l = Len(table) /\ l \in 1 .. 9
    BY DEF IsTable
  <2>2. 1 \in 1 .. Len(table) /\ Len(table) \in Nat
    BY <2>1
  <2>. QED
    BY <2>2, EntryIs
<1>4. ASSUME NEW i \in 1 .. n
      PROVE  Writes(table, i, m[table[i].name], P[i])
  <2>1. PICK v : v = m[table[i].name]
    OBVIOUS
  <2>2. KindOf(table[i], v)
    <3>1. table[i] \in ToSet(table)
      BY <1>3 DEF ToSet
    <3>. QED
      BY <3>1, <2>1 DEF HasMembers
  <2>3. P[i] = PythonField(i, table[i].kind, v)
    BY <1>1, <1>3, <2>1
  <2>. QED
    BY <1>3, <2>1, <2>2, <2>3, WritesPython
<1>5. P \in Seq(Seq(Bytes)) /\ Len(P) = n
  <2>1. \A i \in 1 .. n : P[i] \in Seq(Bytes)
    BY <1>4 DEF Writes
  <2>2. P = [i \in 1 .. n |-> P[i]]
    BY <1>1, <1>3
  <2>. QED
    BY <2>1, <2>2, <1>3
<1>. QED
  BY <1>2, <1>3, <1>4, <1>5, EncodesAll

-----------------------------------------------------------------------------
(* Messages in a message                                                   *)

LEMMA FlatFlat ==
  ASSUME NEW N \in Seq(Seq(Bytes)), NEW U \in Seq(Bytes), Len(U) = Len(N),
         \A i \in 1 .. Len(N) : U[i] = FlattenSeq(N[i])
  PROVE  /\ FlattenSeq(N) \in Seq(Bytes)
         /\ FlattenSeq(FlattenSeq(N)) = FlattenSeq(U)
<1>1. PICK n : n = Len(N) /\ n \in Nat
  OBVIOUS
<1>2. PICK f : /\ \A i \in 0 .. n : f[i] \in Seq(Bytes)
               /\ f[0] = << >>
               /\ \A i \in 1 .. n : f[i] = f[i - 1] \o N[i]
               /\ FlattenSeq(N) = f[n]
  BY <1>1, FlatLoop
<1>3. PICK X : X = 0 .. 255 /\ Bytes = Seq(X)
  BY DEF Bytes
<1>4. U \in Seq(Seq(X)) /\ Len(U) = n
  BY <1>1, <1>3
<1>5. PICK g : /\ \A i \in 0 .. Len(U) : g[i] \in Seq(X)
               /\ g[0] = << >>
               /\ \A i \in 1 .. Len(U) : g[i] = g[i - 1] \o U[i]
               /\ FlattenSeq(U) = g[Len(U)]
  BY <1>4, FlatLoop
<1>6. /\ g[0] = << >>
      /\ \A i \in 1 .. n : g[i] = g[i - 1] \o U[i]
      /\ FlattenSeq(U) = g[n]
  BY <1>4, <1>5
<1>. DEFINE S == {k \in Nat : k <= n => FlattenSeq(f[k]) = g[k]}
<1>7. 0 \in S
  BY <1>2, <1>6, FlatEmpty
<1>8. ASSUME NEW k \in Nat, k \in S PROVE k + 1 \in S
  <2>. SUFFICES ASSUME k + 1 <= n PROVE FlattenSeq(f[k + 1]) = g[k + 1]
    OBVIOUS
  <2>1. PICK i : i = k + 1
    OBVIOUS
  <2>2. i \in 1 .. n /\ i - 1 = k /\ k <= n /\ k \in 0 .. n
    BY <2>1, <1>1
  <2>3. f[i] = f[k] \o N[i] /\ g[i] = g[k] \o U[i] /\ f[k] \in Seq(Bytes)
    BY <2>2, <1>2, <1>6
  <2>4. N[i] \in Seq(Bytes) /\ U[i] = FlattenSeq(N[i])
    BY <2>2, <1>1
  <2>5. FlattenSeq(f[k] \o N[i]) = FlattenSeq(f[k]) \o FlattenSeq(N[i])
    BY <2>3, <2>4, FlatJoined
  <2>6. FlattenSeq(f[k]) = g[k]
    BY <2>2, <1>8
  <2>. QED
    BY <2>1, <2>3, <2>4, <2>5, <2>6
<1>9. n \in S /\ n \in 0 .. n
  <2>1. Nat \subseteq S
    <3>. HIDE DEF S
    <3>. QED
      BY <1>7, <1>8, Induction
  <2>. QED
    BY <1>1, <2>1
<1>. QED
  BY <1>1, <1>2, <1>6, <1>9

\* A parser appends the messages it finds.
LEMMA FoldedItems ==
  ASSUME NEW table, IsTable(table), NEW i \in 1 .. Len(table),
         table[i].kind = "items", NEW D \in Seq(Bytes),
         NEW fs, Len(fs) = Len(D),
         \A k \in 1 .. Len(D) : fs[k].number = i /\ fs[k].value = D[k],
         NEW m, Shaped(table, m), m[table[i].name] = << >>
  PROVE  Folded(table, m, fs, [m EXCEPT ![table[i].name] = D])
<1>1. PICK n : n = Len(D) /\ n \in Nat
  OBVIOUS
<1>2. PICK e : e = table[i]
  OBVIOUS
<1>3. i \in DOMAIN table /\ e.name \in DOMAIN m
  <2>1. e.name \in DOMAIN Blank(table)
    BY <1>2, BlankIs
  <2>2. DOMAIN m = DOMAIN Blank(table)
    BY DEF Shaped
  <2>. QED
    BY <2>1, <2>2, EntryIs
<1>4. PICK h : h = [k \in 0 .. n |-> [m EXCEPT ![e.name] = SubSeq(D, 1, k)]]
  OBVIOUS
<1>5. h = [k \in 0 .. n |-> h[k]]
  BY <1>4
<1>6. h[0] = m
  <2>1. SubSeq(D, 1, 0) = << >> /\ 0 \in 0 .. n
    BY <1>1
  <2>2. [m EXCEPT ![e.name] = << >>] = m
    BY <1>2, <1>3 DEF Shaped
  <2>. QED
    BY <2>1, <2>2, <1>4
<1>7. h[n] = [m EXCEPT ![e.name] = D]
  <2>1. SubSeq(D, 1, n) = D /\ n \in 0 .. n
    BY <1>1
  <2>. QED
    BY <2>1, <1>4
<1>8. ASSUME NEW k \in 1 .. n PROVE h[k] = Store(table, h[k - 1], fs[k])
  <2>1. PICK a : a = SubSeq(D, 1, k - 1)
    OBVIOUS
  <2>2. PICK g : g = h[k - 1]
    OBVIOUS
  <2>3. PICK f : f = fs[k]
    OBVIOUS
  <2>4. k - 1 \in 0 .. n /\ k \in 0 .. n /\ k - 1 < Len(D) /\ (k - 1) + 1 = k
    BY <1>1
  <2>5. SubSeq(D, 1, k) = Append(a, D[k])
    <3>1. k - 1 \in 0 .. Len(D)
      BY <2>4, <1>1
    <3>. QED
      BY <3>1, <2>1, <2>4, FirstOnes
  <2>6. g = [m EXCEPT ![e.name] = a] /\ g[e.name] = a
    BY <2>1, <2>2, <2>4, <1>3, <1>4
  <2>7. f.number = i /\ f.value = D[k]
    BY <2>3, <1>1
  <2>8. Store(table, g, f) = [g EXCEPT ![e.name] = Append(g[e.name], f.value)]
    BY <2>7, <1>2, <1>3 DEF Store
  <2>9. Store(table, g, f) = [m EXCEPT ![e.name] = Append(a, D[k])]
    <3>1. PICK v : v = Append(a, D[k])
      OBVIOUS
    <3>2. Store(table, g, f) = [g EXCEPT ![e.name] = v]
      BY <3>1, <2>6, <2>7, <2>8
    <3>3. [g EXCEPT ![e.name] = v] = [m EXCEPT ![e.name] = v]
      BY <2>6
    <3>. QED
      BY <3>1, <3>2, <3>3
  <2>10. h[k] = [m EXCEPT ![e.name] = Append(a, D[k])]
    BY <2>4, <2>5, <1>4
  <2>. QED
    BY <2>2, <2>3, <2>9, <2>10
<1>. QED
  BY <1>1, <1>2, <1>5, <1>6, <1>7, <1>8 DEF Folded

LEMMA WritesItems ==
  ASSUME NEW table, IsTable(table), NEW i \in 1 .. Len(table),
         table[i].kind = "items", NEW v, v \in Seq(ToSet(v)),
         NEW E, DOMAIN E = DOMAIN v,
         \A k \in 1 .. Len(v) :
            /\ E[k] \in Seq(Bytes) /\ Len(FlattenSeq(E[k])) \in Numbers
            /\ E[k] \in ItemEncodings(table[i].name, v[k])
  PROVE  Writes(table, i, v, EachNested(i, E))
<1>1. PICK name : name = table[i].name
  OBVIOUS
<1>2. PICK n : n = Len(v) /\ n \in Nat /\ DOMAIN v = 1 .. n
  OBVIOUS
<1>3. PICK D : D = [k \in 1 .. n |-> FlattenSeq(E[k])]
  OBVIOUS
<1>4. PICK N : N = [k \in 1 .. n |-> Nested(i, E[k])]
  OBVIOUS
<1>5. PICK U : U = [k \in 1 .. n |-> Key(i, 2) \o (Varint[Len(D[k])] \o D[k])]
  OBVIOUS
<1>6. PICK fs : fs = [k \in 1 .. n |-> [number |-> i, wire |-> 2, value |-> D[k]]]
  OBVIOUS
<1>7. i \in 1 .. 15 /\ i \in Nat
  BY EntryIs
<1>8. ASSUME NEW k \in 1 .. n
      PROVE  /\ D[k] \in Bytes /\ Len(D[k]) \in Numbers
             /\ D[k] \in ItemBytes(name, v[k])
             /\ Spells(U[k], i, 2, D[k])
             /\ U[k] \in Bytes /\ N[k] \in Seq(Bytes) /\ U[k] = FlattenSeq(N[k])
  <2>1. PICK d : d = FlattenSeq(E[k]) /\ d \in ItemBytes(name, v[k])
    BY <1>1, <1>2 DEF ItemBytes
  <2>2. d \in Bytes /\ Len(d) \in Numbers /\ Len(d) \in Nat
    BY <2>1, <1>1, <1>2, FlatBytes DEF Numbers
  <2>3. D[k] = d
    BY <1>3, <2>1
  <2>4. PICK a : a = Key(i, 2) /\ a \in Bytes
    BY <1>7, KeyIs
  <2>5. PICK b : b = Varint[Len(d)] /\ b \in Bytes
    BY <2>2, VarintWritten
  <2>6. U[k] = a \o (b \o d)
    BY <1>5, <2>3, <2>4, <2>5
  <2>7. Spells(U[k], i, 2, d)
    <3>1. IsKey(i, 2)
      BY <1>7, SmallKeys
    <3>2. Spells(Key(i, 2) \o (Varint[Len(d)] \o d), i, 2, d)
      BY <2>2, <3>1, StringFieldRead
    <3>. QED
      BY <2>4, <2>5, <2>6, <3>2
  <2>8. N[k] = <<a, b, d>>
    <3>1. N[k] = Nested(i, E[k])
      BY <1>4
    <3>. QED
      BY <3>1, <2>1, <2>4, <2>5 DEF Nested
  <2>9. N[k] \in Seq(Bytes) /\ FlattenSeq(N[k]) = a \o (b \o d)
    <3>1. /\ <<a, b, d>> \in Seq(Bytes)
          /\ FlattenSeq(<<a, b, d>>) = a \o (b \o d)
      BY <2>2, <2>4, <2>5, FlatThree
    <3>. QED
      BY <3>1, <2>8
  <2>. QED
    BY <2>1, <2>2, <2>3, <2>6, <2>7, <2>9 DEF Spells
<1>9. D \in Seq(Bytes) /\ Len(D) = n
  <2>1. \A k \in 1 .. n : D[k] \in Bytes
    BY <1>8
  <2>2. D = [k \in 1 .. n |-> D[k]]
    BY <1>3
  <2>. QED
    BY <2>1, <2>2, <1>2
<1>10. N \in Seq(Seq(Bytes)) /\ Len(N) = n
  BY <1>2, <1>4, <1>8
<1>11. U \in Seq(Bytes) /\ Len(U) = n
  <2>1. \A k \in 1 .. n : U[k] \in Bytes
    BY <1>8
  <2>2. U = [k \in 1 .. n |-> U[k]]
    BY <1>5
  <2>. QED
    BY <2>1, <2>2, <1>2
<1>12. fs \in Seq(Facts) /\ Len(fs) = n
  <2>1. \A k \in 1 .. n : [number |-> i, wire |-> 2, value |-> D[k]] \in Facts
    BY <1>7, <1>8 DEF Facts
  <2>. QED
    BY <2>1, <1>2, <1>6
<1>13. \A k \in 1 .. n : /\ fs[k].number = i /\ fs[k].wire = 2
                         /\ fs[k].value = D[k]
  BY <1>6
<1>14. PICK p : p = FlattenSeq(N) /\ p \in Seq(Bytes) /\ FlattenSeq(p) = FlattenSeq(U)
  <2>1. Len(U) = Len(N) /\ \A k \in 1 .. Len(N) : U[k] = FlattenSeq(N[k])
    BY <1>8, <1>10, <1>11
  <2>2. /\ FlattenSeq(N) \in Seq(Bytes)
        /\ FlattenSeq(FlattenSeq(N)) = FlattenSeq(U)
    BY <2>1, <1>10, <1>11, FlatFlat
  <2>. QED
    BY <2>2
<1>15. EachNested(i, E) = p
  <2>1. [k \in DOMAIN E |-> Nested(i, E[k])] = N
    BY <1>2, <1>4
  <2>2. EachNested(i, E) = FlattenSeq([k \in DOMAIN E |-> Nested(i, E[k])])
    BY DEF EachNested
  <2>. QED
    BY <2>1, <2>2, <1>14
<1>16. Says(FlattenSeq(p), U, fs)
  BY <1>8, <1>11, <1>12, <1>13, <1>14 DEF Says
<1>17. FitsAll(table, fs)
  <2>1. WireOf[table[i].kind] = 2
    BY DEF WireOf
  <2>. QED
    BY <2>1, <1>12, <1>13 DEF FitsAll
<1>18. ASSUME NEW m, Shaped(table, m), m[name] = Default[table[i].kind]
       PROVE  \E w : /\ Took(table[i], v, w)
                     /\ Folded(table, m, fs, [m EXCEPT ![name] = w])
  <2>1. m[table[i].name] = << >>
    BY <1>1, <1>18 DEF Default
  <2>2. Folded(table, m, fs, [m EXCEPT ![table[i].name] = D])
    BY <2>1, <1>9, <1>12, <1>13, <1>18, FoldedItems
  <2>3. Took(table[i], v, D)
    BY <1>1, <1>2, <1>8, <1>9 DEF Took
  <2>. QED
    BY <2>2, <2>3, <1>1
<1>. QED
  <2>1. table[i].kind # "items" => Len(U) <= 1
    OBVIOUS
  <2>2. \E V, gs :
          /\ Says(FlattenSeq(p), V, gs)
          /\ FitsAll(table, gs)
          /\ table[i].kind # "items" => Len(V) <= 1
          /\ \A m : Shaped(table, m) /\ m[table[i].name] = Default[table[i].kind] =>
                \E w : /\ Took(table[i], v, w)
                       /\ Folded(table, m, gs, [m EXCEPT ![table[i].name] = w])
    BY <2>1, <1>1, <1>16, <1>17, <1>18
  <2>. QED
    BY <2>2, <1>1, <1>14, <1>15 DEF Writes

LEMMA EncodesClientResponse ==
  ASSUME NEW m, IsMessage(ClientResponseTable, m)
  PROVE  Encodes(ClientResponseTable, m, 5, encode_client_response(m))
<1>1. PICK t : t = ClientResponseTable
  OBVIOUS
<1>2. IsTable(t) /\ HasMembers(t, m) /\ Len(t) = 5
  BY <1>1, Tables DEF IsMessage
<1>3. PICK p1, p2, p3, p4, p5 :
          /\ p1 = NonZero(1, m.status)
          /\ p2 = StringField(2, m.message)
          /\ p3 = EachNested(3, [i \in DOMAIN m.sensors |->
                                    encode_sensor_info(m.sensors[i])])
          /\ p4 = NonZeroDouble(4, m.metric_value)
          /\ p5 = EachNested(5, [i \in DOMAIN m.readings |->
                                    encode_sensor_reading(m.readings[i])])
  OBVIOUS
<1>4. Plain(t, m, 1, p1) /\ Plain(t, m, 2, p2) /\ Plain(t, m, 4, p4)
  BY <1>1, <1>3 DEF ClientResponseTable, As, Plain
<1>5. /\ t[3].name = "sensors" /\ t[3].kind = "items"
      /\ t[5].name = "readings" /\ t[5].kind = "items"
      /\ t[3] \in ToSet(t) /\ t[5] \in ToSet(t)
      /\ 3 \in 1 .. Len(t) /\ 5 \in 1 .. Len(t)
  <2>1. 3 \in 1 .. Len(t) /\ 5 \in 1 .. Len(t)
    BY <1>2
  <2>2. t[3] \in ToSet(t) /\ t[5] \in ToSet(t)
    BY <2>1, <1>2, EntryIs DEF ToSet
  <2>3. t[3].name = "sensors" /\ t[3].kind = "items"
    BY <1>1 DEF ClientResponseTable, As
  <2>4. t[5].name = "readings" /\ t[5].kind = "items"
    BY <1>1 DEF ClientResponseTable, As
  <2>. QED
    BY <2>1, <2>2, <2>3, <2>4
<1>6. Writes(t, 3, m[t[3].name], p3)
  <2>1. PICK v : v = m.sensors
    OBVIOUS
  <2>2. v \in Seq(ToSet(v))
    <3>1. KindOf(t[3], m[t[3].name])
      BY <1>2, <1>5 DEF HasMembers
    <3>. QED
      BY <3>1, <2>1, <1>5 DEF KindOf
  <2>3. PICK E : E = [i \in DOMAIN v |-> encode_sensor_info(v[i])]
    OBVIOUS
  <2>4. ASSUME NEW i \in 1 .. Len(v)
        PROVE  /\ E[i] \in Seq(Bytes) /\ Len(FlattenSeq(E[i])) \in Numbers
               /\ E[i] \in ItemEncodings("sensors", v[i])
    <3>1. v[i] \in ToSet(v) /\ E[i] = encode_sensor_info(v[i])
      BY <2>2, <2>3 DEF ToSet
    <3>2. E[i] \in ItemEncodings("sensors", v[i])
      BY <3>1 DEF ItemEncodings, ItemPieces
    <3>3. /\ HasMembers(ItemTable["sensors"], v[i])
          /\ Len(FlattenSeq(E[i])) \in Numbers
      BY <3>1, <3>2, <2>1, <1>1, <1>5 DEF IsMessage
    <3>4. HasMembers(SensorInfoTable, v[i])
      BY <3>3 DEF ItemTable
    <3>. QED
      BY <3>1, <3>2, <3>3, <3>4, EncodesInfo DEF Encodes
  <2>5. p3 = EachNested(3, E) /\ DOMAIN E = DOMAIN v
    BY <2>1, <2>3, <1>3
  <2>. QED
    BY <2>1, <2>2, <2>4, <2>5, <1>2, <1>5, WritesItems
<1>7. Writes(t, 5, m[t[5].name], p5)
  <2>1. PICK v : v = m.readings
    OBVIOUS
  <2>2. v \in Seq(ToSet(v))
    <3>1. KindOf(t[5], m[t[5].name])
      BY <1>2, <1>5 DEF HasMembers
    <3>. QED
      BY <3>1, <2>1, <1>5 DEF KindOf
  <2>3. PICK E : E = [i \in DOMAIN v |-> encode_sensor_reading(v[i])]
    OBVIOUS
  <2>4. ASSUME NEW i \in 1 .. Len(v)
        PROVE  /\ E[i] \in Seq(Bytes) /\ Len(FlattenSeq(E[i])) \in Numbers
               /\ E[i] \in ItemEncodings("readings", v[i])
    <3>1. v[i] \in ToSet(v) /\ E[i] = encode_sensor_reading(v[i])
      BY <2>2, <2>3 DEF ToSet
    <3>2. E[i] \in ItemEncodings("readings", v[i])
      BY <3>1 DEF ItemEncodings, ItemPieces
    <3>3. /\ HasMembers(ItemTable["readings"], v[i])
          /\ Len(FlattenSeq(E[i])) \in Numbers
      BY <3>1, <3>2, <2>1, <1>1, <1>5 DEF IsMessage
    <3>4. HasMembers(SensorReadingTable, v[i])
      BY <3>3 DEF ItemTable
    <3>. QED
      BY <3>1, <3>2, <3>3, <3>4, EncodesReading DEF Encodes
  <2>5. p5 = EachNested(5, E) /\ DOMAIN E = DOMAIN v
    BY <2>1, <2>3, <1>3
  <2>. QED
    BY <2>1, <2>2, <2>4, <2>5, <1>2, <1>5, WritesItems
<1>8. Encodes(t, m, 1, p1)
  BY <1>2, <1>4, EncodesFirst
<1>9. PICK q2 : q2 = p1 \o p2 /\ Encodes(t, m, 2, q2)
  <2>1. 2 \in 1 .. Len(t) /\ 1 = 2 - 1
    BY <1>2
  <2>. QED
    BY <2>1, <1>2, <1>4, <1>8, EncodesPlain
<1>10. PICK q3 : q3 = q2 \o p3 /\ Encodes(t, m, 3, q3)
  <2>1. Encodes(t, m, 3 - 1, q2)
    BY <1>9
  <2>. QED
    BY <2>1, <1>2, <1>5, <1>6, EncodesMore
<1>11. PICK q4 : q4 = q3 \o p4 /\ Encodes(t, m, 4, q4)
  <2>1. 4 \in 1 .. Len(t) /\ 3 = 4 - 1
    BY <1>2
  <2>. QED
    BY <2>1, <1>2, <1>4, <1>10, EncodesPlain
<1>12. PICK q5 : q5 = q4 \o p5 /\ Encodes(t, m, 5, q5)
  <2>1. Encodes(t, m, 5 - 1, q4)
    BY <1>11
  <2>. QED
    BY <2>1, <1>2, <1>5, <1>7, EncodesMore
<1>. QED
  BY <1>1, <1>3, <1>9, <1>10, <1>11, <1>12 DEF encode_client_response

-----------------------------------------------------------------------------
(* Every message is written as its fields                                  *)

LEMMA TableIs ==
  ASSUME NEW kind \in DOMAIN TableOf
  PROVE  /\ IsTable(TableOf[kind])
         /\ kind # "ClientResponse" =>
               \A i \in 1 .. Len(TableOf[kind]) : TableOf[kind][i].kind # "items"
<1>1. IsTable(TableOf[kind])
  BY Tables DEF TableOf
<1>2. \A i \in 1 .. 9 : SensorInfoTable[i].kind # "items"
  BY DEF SensorInfoTable, As
<1>3. \A i \in 1 .. 8 : SensorReadingTable[i].kind # "items"
  BY DEF SensorReadingTable, As
<1>4. \A i \in 1 .. 4 : DiscoveryRequestTable[i].kind # "items"
  BY DEF DiscoveryRequestTable, As
<1>5. \A i \in 1 .. 5 : ClientRequestTable[i].kind # "items"
  BY DEF ClientRequestTable, As
<1>6. \A i \in 1 .. 4 : ControlCommandTable[i].kind # "items"
  BY DEF ControlCommandTable, As
<1>7. \A i \in 1 .. 7 : ControlResponseTable[i].kind # "items"
  BY DEF ControlResponseTable, As
<1>8. \/ kind = "ClientResponse"
      \/ TableOf[kind] \in {SensorInfoTable, SensorReadingTable,
                          DiscoveryRequestTable, ClientRequestTable,
                          ControlCommandTable, ControlResponseTable}
  BY DEF TableOf
<1>9. CASE TableOf[kind] = DiscoveryRequestTable
  <2>1. Len(TableOf[kind]) = 4
    BY <1>9, Tables
  <2>. QED
    BY <2>1, <1>1, <1>9, <1>4
<1>10. CASE TableOf[kind] = SensorInfoTable
  <2>1. Len(TableOf[kind]) = 9
    BY <1>10, Tables
  <2>. QED
    BY <2>1, <1>1, <1>10, <1>2
<1>11. CASE TableOf[kind] = SensorReadingTable
  <2>1. Len(TableOf[kind]) = 8
    BY <1>11, Tables
  <2>. QED
    BY <2>1, <1>1, <1>11, <1>3
<1>12. CASE TableOf[kind] = ClientRequestTable
  <2>1. Len(TableOf[kind]) = 5
    BY <1>12, Tables
  <2>. QED
    BY <2>1, <1>1, <1>12, <1>5
<1>13. CASE TableOf[kind] = ControlCommandTable
  <2>1. Len(TableOf[kind]) = 4
    BY <1>13, Tables
  <2>. QED
    BY <2>1, <1>1, <1>13, <1>6
<1>14. CASE TableOf[kind] = ControlResponseTable
  <2>1. Len(TableOf[kind]) = 7
    BY <1>14, Tables
  <2>. QED
    BY <2>1, <1>1, <1>14, <1>7
<1>. QED
  BY <1>1, <1>8, <1>9, <1>10, <1>11, <1>12, <1>13, <1>14

LEMMA ItemTables ==
  ASSUME NEW name \in {"sensors", "readings"}
  PROVE  /\ IsTable(ItemTable[name])
         /\ \A i \in 1 .. Len(ItemTable[name]) : ItemTable[name][i].kind # "items"
<1>1. name = "sensors" => ItemTable[name] = TableOf["DiscoveryResponse"]
  BY DEF ItemTable, TableOf
<1>2. name = "readings" => ItemTable[name] = TableOf["SensorReading"]
  BY DEF ItemTable, TableOf
<1>3. {"DiscoveryResponse", "SensorReading"} \subseteq DOMAIN TableOf
  BY DEF TableOf
<1>4. CASE name = "sensors"
  BY <1>1, <1>3, <1>4, TableIs
<1>5. CASE name = "readings"
  BY <1>2, <1>3, <1>5, TableIs
<1>. QED
  BY <1>4, <1>5

\* What a Python program writes.
LEMMA EncodesPythonMessage ==
  ASSUME NEW kind \in DOMAIN TableOf, NEW m, IsMessage(TableOf[kind], m)
  PROVE  Encodes(TableOf[kind], m, Len(TableOf[kind]),
                 PythonMessage(TableOf[kind], m))
<1>1. PICK table : table = TableOf[kind] /\ IsTable(table)
  BY TableIs
<1>2. PICK n : n = Len(table) /\ n \in Nat /\ DOMAIN table = 1 .. n
  <2>1. PICK l : l = Len(table) /\ l \in 1 .. 9
    BY <1>1 DEF IsTable
  <2>2. 1 \in 1 .. Len(table) /\ Len(table) \in Nat
    BY <2>1
  <2>. QED
    BY <1>1, <2>2, EntryIs
<1>3. PICK P : P = [i \in DOMAIN table |->
                       LET e == table[i]
                       IN  IF e.kind = "items"
                           THEN PythonItems(i, e.name, m[e.name])
                           ELSE PythonField(i, e.kind, m[e.name])]
  OBVIOUS
<1>4. PythonMessage(table, m) = FlattenSeq(P)
  BY <1>3 DEF PythonMessage
<1>5. ASSUME NEW i \in 1 .. n
      PROVE  Writes(table, i, m[table[i].name], P[i])
  <2>1. PICK e : e = table[i] /\ e \in ToSet(table)
    BY <1>2 DEF ToSet
  <2>2. PICK v : v = m[e.name]
    OBVIOUS
  <2>3. KindOf(e, v)
    BY <1>1, <2>1, <2>2 DEF IsMessage, HasMembers
  <2>4. CASE e.kind # "items"
    <3>1. P[i] = PythonField(i, e.kind, v)
      BY <1>2, <1>3, <2>1, <2>2, <2>4
    <3>. QED
      BY <1>1, <1>2, <2>1, <2>2, <2>3, <2>4, <3>1, WritesPython
  <2>5. CASE e.kind = "items"
    <3>1. v \in Seq(ToSet(v))
      BY <2>3, <2>5 DEF KindOf
    <3>2. e.name \in {"sensors", "readings"}
      <4>1. kind = "ClientResponse"
        BY <1>1, <1>2, <2>1, <2>5, TableIs
      <4>2. table = ClientResponseTable
        BY <4>1, <1>1 DEF TableOf
      <4>3. n = 5
        BY <4>2, <1>2, Tables
      <4>. QED
        BY <4>2, <4>3, <2>1, <2>5 DEF ClientResponseTable, As
    <3>3. PICK E : E = [k \in DOMAIN v |-> PythonFlat(ItemTable[e.name], v[k])]
      OBVIOUS
    <3>4. ASSUME NEW k \in 1 .. Len(v)
          PROVE  /\ E[k] \in Seq(Bytes) /\ Len(FlattenSeq(E[k])) \in Numbers
                 /\ E[k] \in ItemEncodings(e.name, v[k])
      <4>1. PICK t : t = ItemTable[e.name]
        OBVIOUS
      <4>2. v[k] \in ToSet(v) /\ E[k] = PythonFlat(t, v[k])
        BY <3>1, <3>3, <4>1 DEF ToSet
      <4>3. E[k] \in ItemEncodings(e.name, v[k])
        BY <4>1, <4>2 DEF ItemEncodings
      <4>4. HasMembers(t, v[k]) /\ Len(FlattenSeq(E[k])) \in Numbers
        BY <4>1, <4>2, <4>3, <1>1, <2>1, <2>2, <2>5 DEF IsMessage
      <4>5. Encodes(t, v[k], Len(t), PythonFlat(t, v[k]))
        BY <3>2, <4>1, <4>4, ItemTables, EncodesPython
      <4>. QED
        BY <4>2, <4>3, <4>4, <4>5 DEF Encodes
    <3>5. P[i] = EachNested(i, E) /\ DOMAIN E = DOMAIN v
      BY <1>2, <1>3, <2>1, <2>2, <2>5, <3>3 DEF PythonItems
    <3>. QED
      BY <1>1, <1>2, <2>1, <2>2, <2>5, <3>1, <3>4, <3>5, WritesItems
  <2>. QED
    BY <2>4, <2>5
<1>6. P \in Seq(Seq(Bytes)) /\ Len(P) = n
  <2>1. \A i \in 1 .. n : P[i] \in Seq(Bytes)
    BY <1>5 DEF Writes
  <2>2. P = [i \in 1 .. n |-> P[i]]
    BY <1>2, <1>3
  <2>. QED
    BY <2>1, <2>2, <1>2
<1>. QED
  BY <1>1, <1>2, <1>4, <1>5, <1>6, EncodesAll

LEMMA EncodesContent ==
  ASSUME NEW c, c.kind \in DOMAIN TableOf, IsMessage(TableOf[c.kind], c.message)
  PROVE  Encodes(TableOf[c.kind], c.message, Len(TableOf[c.kind]), Encoded(c))
<1>1. PICK t : t = TableOf[c.kind]
  OBVIOUS
<1>2. PICK m : m = c.message
  OBVIOUS
<1>3. HasMembers(t, m) /\ IsTable(t)
  BY <1>1, <1>2, TableIs DEF IsMessage
<1>5. CASE c.kind = "DiscoveryRequest"
  <2>1. t = DiscoveryRequestTable /\ Encoded(c) = encode_discovery_request(m)
    BY <1>1, <1>2, <1>5 DEF TableOf, Encoded
  <2>. QED
    BY <2>1, <1>1, <1>2, <1>3, EncodesRequest, Tables
<1>6. CASE c.kind = "DiscoveryResponse"
  <2>1. t = SensorInfoTable /\ Encoded(c) = encode_sensor_info(m)
    BY <1>1, <1>2, <1>6 DEF TableOf, Encoded, encode_discovery_response
  <2>. QED
    BY <2>1, <1>1, <1>2, <1>3, EncodesInfo, Tables
<1>7. CASE c.kind = "SensorReading"
  <2>1. t = SensorReadingTable /\ Encoded(c) = encode_sensor_reading(m)
    BY <1>1, <1>2, <1>7 DEF TableOf, Encoded
  <2>. QED
    BY <2>1, <1>1, <1>2, <1>3, EncodesReading, Tables
<1>8. CASE c.kind = "ClientRequest"
  <2>1. t = ClientRequestTable /\ Encoded(c) = encode_client_request(m)
    BY <1>1, <1>2, <1>8 DEF TableOf, Encoded
  <2>. QED
    BY <2>1, <1>1, <1>2, <1>3, EncodesClientRequest, Tables
<1>9. CASE c.kind = "ClientResponse"
  <2>1. t = ClientResponseTable /\ Encoded(c) = encode_client_response(m)
    BY <1>1, <1>2, <1>9 DEF TableOf, Encoded
  <2>. QED
    BY <2>1, <1>1, <1>2, <1>9, EncodesClientResponse, Tables
<1>10. CASE c.kind = "ControlCommand"
  <2>1. t = ControlCommandTable /\ Encoded(c) = encode_control_command(m)
    BY <1>1, <1>2, <1>10 DEF TableOf, Encoded
  <2>. QED
    BY <2>1, <1>1, <1>2, <1>3, EncodesCommand, Tables
<1>11. CASE c.kind = "ControlResponse"
  <2>1. t = ControlResponseTable /\ Encoded(c) = encode_control_response(m)
    BY <1>1, <1>2, <1>11 DEF TableOf, Encoded
  <2>. QED
    BY <2>1, <1>1, <1>2, <1>3, EncodesControlResponse, Tables
<1>. QED
  BY <1>5, <1>6, <1>7, <1>8, <1>9, <1>10, <1>11 DEF TableOf

-----------------------------------------------------------------------------
(* What the parser gives                                                   *)

\* The parser of this kind gave r for m.
GaveAs(kind, m, r) ==
    /\ r # NoMessage
    /\ \A e \in ToSet(TableOf[kind]) :
          IF e.kind = "items" THEN EqualItems(e, m[e.name], r[e.name])
                              ELSE Equal(e, m[e.name], r[e.name])

LEMMA GotMessage ==
  ASSUME NEW table, IsTable(table), NEW r, Shaped(table, r)
  PROVE  r # NoMessage
<1>1. 1 \in 1 .. Len(table)
  <2>1. PICK l : l = Len(table) /\ l \in 1 .. 9
    BY DEF IsTable
  <2>. QED
    BY <2>1
<1>2. table[1].name \in DOMAIN r
  <2>1. table[1].name \in DOMAIN Blank(table)
    BY <1>1, BlankIs
  <2>2. DOMAIN r = DOMAIN Blank(table)
    BY DEF Shaped
  <2>. QED
    BY <2>1, <2>2
<1>3. table[1].name # "ok"
  BY <1>1 DEF IsTable
<1>4. DOMAIN NoMessage = {"ok"}
  BY DEF NoMessage
<1>. QED
  BY <1>2, <1>3, <1>4

\* The first k members of m.
FirstOf(table, m, k) ==
    [name \in DOMAIN m |->
        IF name \in {table[i].name : i \in 1 .. k} THEN m[name]
                                                   ELSE Blank(table)[name]]

LEMMA GotFirst ==
  ASSUME NEW kind \in DOMAIN TableOf, kind # "ClientResponse",
         NEW m, HasMembers(TableOf[kind], m),
         NEW k \in 0 .. Len(TableOf[kind]), NEW r, Got(TableOf[kind], m, k, r)
  PROVE  GaveAs(kind, FirstOf(TableOf[kind], m, k), r)
<1>1. PICK t : t = TableOf[kind] /\ IsTable(t)
  BY TableIs
<1>2. r # NoMessage
  BY <1>1, GotMessage DEF Got
<1>3. PICK m2 : m2 = FirstOf(t, m, k)
  OBVIOUS
<1>4. ASSUME NEW i \in 1 .. Len(t)
      PROVE  t[i].kind # "items" /\ Equal(t[i], m2[t[i].name], r[t[i].name])
  <2>1. /\ t[i].kind \in {"number", "flag", "double", "string"}
        /\ i \in Nat /\ k \in Nat
    <3>1. t[i].kind # "items"
      BY <1>1, TableIs
    <3>. QED
      BY <3>1, <1>1, EntryIs
  <2>2. t[i].name \in DOMAIN m
    <3>1. m = [name \in DOMAIN Blank(t) |-> m[name]]
      BY <1>1 DEF HasMembers
    <3>2. t[i].name \in DOMAIN Blank(t)
      BY <1>1, BlankIs
    <3>. QED
      BY <3>1, <3>2
  <2>3. t[i].name \in {t[j].name : j \in 1 .. k} <=> i <= k
    <3>1. ASSUME NEW j \in 1 .. k, t[i].name = t[j].name PROVE i <= k
      <4>1. j \in 1 .. Len(t) /\ j <= k
        BY <1>1
      <4>2. i = j
        BY <4>1, <3>1, <1>1 DEF IsTable
      <4>. QED
        BY <4>1, <4>2
    <3>2. i <= k => i \in 1 .. k
      BY <2>1
    <3>. QED
      BY <3>1, <3>2
  <2>4. m2[t[i].name] = IF i <= k THEN m[t[i].name] ELSE Default[t[i].kind]
    <3>1. Blank(t)[t[i].name] = Default[t[i].kind]
      BY <1>1, BlankIs
    <3>. QED
      BY <3>1, <2>2, <2>3, <1>3 DEF FirstOf
  <2>5. IF i <= k THEN Took(t[i], m[t[i].name], r[t[i].name])
                  ELSE r[t[i].name] = Default[t[i].kind]
    BY <1>1 DEF Got
  <2>6. Equal(t[i], m2[t[i].name], r[t[i].name])
    BY <2>1, <2>4, <2>5 DEF Took, Equal
  <2>. QED
    BY <2>1, <2>6
<1>5. \A e \in ToSet(t) : e.kind # "items" /\ Equal(e, m2[e.name], r[e.name])
  <2>1. DOMAIN t = 1 .. Len(t)
    BY <1>1 DEF IsTable
  <2>. QED
    BY <2>1, <1>4 DEF ToSet
<1>. QED
  BY <1>1, <1>2, <1>3, <1>5 DEF GaveAs

\* What is written of a message is read as its members.
LEMMA Decoded ==
  ASSUME NEW table, NEW m, NEW j, NEW ps, Encodes(table, m, j, ps)
  PROVE  Got(table, m, j, Parse(table, FlattenSeq(ps)))
<1>1. PICK U, fs, m2 :
          /\ Says(FlattenSeq(ps), U, fs) /\ FitsAll(table, fs)
          /\ Folded(table, Blank(table), fs, m2) /\ Got(table, m, j, m2)
  BY DEF Encodes
<1>2. Parse(table, FlattenSeq(ps)) = m2
  BY <1>1, ParseWhole
<1>. QED
  BY <1>1, <1>2

LEMMA TookEqual ==
  ASSUME NEW table, IsTable(table), NEW m, NEW r,
         Got(table, m, Len(table), r),
         NEW i \in 1 .. Len(table), table[i].kind # "items"
  PROVE  Equal(table[i], m[table[i].name], r[table[i].name])
<1>1. i <= Len(table)
  <2>1. PICK l : l = Len(table) /\ l \in 1 .. 9
    BY DEF IsTable
  <2>. QED
    BY <2>1
<1>2. Took(table[i], m[table[i].name], r[table[i].name])
  BY <1>1 DEF Got
<1>3. table[i].kind \in {"number", "flag", "double", "string"}
  BY EntryIs
<1>. QED
  BY <1>2, <1>3 DEF Took, Equal

\* A message in a message is read as it was.
LEMMA ItemDecoded ==
  ASSUME NEW name \in {"sensors", "readings"}, NEW item,
         HasMembers(ItemTable[name], item), NEW bytes \in ItemBytes(name, item)
  PROVE  LET r == Parse(ItemTable[name], bytes)
         IN  r # NoMessage /\ EqualMembers(ItemTable[name], item, r)
<1>1. PICK t : t = ItemTable[name] /\ IsTable(t)
  BY ItemTables
<1>2. PICK ps \in ItemEncodings(name, item) : bytes = FlattenSeq(ps)
  BY DEF ItemBytes
<1>3. Encodes(t, item, Len(t), ps)
  <2>1. CASE name = "sensors" /\ ps = ItemPieces(name, item)
    <3>1. t = SensorInfoTable /\ ps = encode_sensor_info(item)
      BY <2>1, <1>1, <1>2 DEF ItemTable, ItemPieces
    <3>2. Len(t) = 9
      BY <3>1, Tables
    <3>. QED
      BY <3>1, <3>2, <1>1, EncodesInfo
  <2>2. CASE name = "readings" /\ ps = ItemPieces(name, item)
    <3>1. t = SensorReadingTable /\ ps = encode_sensor_reading(item)
      BY <2>2, <1>1, <1>2 DEF ItemTable, ItemPieces
    <3>2. Len(t) = 8
      BY <3>1, Tables
    <3>. QED
      BY <3>1, <3>2, <1>1, EncodesReading
  <2>3. CASE ps = PythonFlat(t, item)
    BY <2>3, <1>1, ItemTables, EncodesPython
  <2>. QED
    BY <1>1, <1>2, <2>1, <2>2, <2>3 DEF ItemEncodings
<1>4. PICK r : r = Parse(t, FlattenSeq(ps))
  OBVIOUS
<1>5. Got(t, item, Len(t), r)
  BY <1>3, <1>4, Decoded
<1>6. r # NoMessage
  BY <1>1, <1>5, GotMessage DEF Got
<1>7. ASSUME NEW i \in 1 .. Len(t)
      PROVE  Equal(t[i], item[t[i].name], r[t[i].name])
  <2>1. t[i].kind # "items"
    BY <1>1, ItemTables
  <2>. QED
    BY <2>1, <1>1, <1>5, TookEqual
<1>8. EqualMembers(t, item, r)
  <2>1. DOMAIN t = 1 .. Len(t)
    BY <1>1 DEF IsTable
  <2>. QED
    BY <2>1, <1>7 DEF EqualMembers, ToSet
<1>. QED
  BY <1>1, <1>2, <1>4, <1>6, <1>8

\* So are all of them.
LEMMA ItemsDecoded ==
  ASSUME NEW e, e.name \in {"sensors", "readings"}, NEW v, v \in Seq(ToSet(v)),
         \A item \in ToSet(v) : HasMembers(ItemTable[e.name], item),
         NEW w \in Seq(Bytes), Len(w) = Len(v),
         \A i \in 1 .. Len(v) : w[i] \in ItemBytes(e.name, v[i])
  PROVE  LET rs == [i \in DOMAIN w |-> Parse(ItemTable[e.name], w[i])]
         IN  NoMessage \notin ToSet(rs) /\ EqualItems(e, v, rs)
<1>1. PICK n : n = Len(v) /\ n \in Nat /\ DOMAIN v = 1 .. n /\ DOMAIN w = 1 .. n
  OBVIOUS
<1>2. PICK name : name = e.name /\ name \in {"sensors", "readings"}
  OBVIOUS
<1>3. PICK rs : rs = [i \in DOMAIN w |-> Parse(ItemTable[name], w[i])]
  OBVIOUS
<1>4. ASSUME NEW i \in 1 .. n
      PROVE  /\ rs[i] # NoMessage
             /\ EqualMembers(ItemTable[name], v[i], rs[i])
  <2>1. PICK item : item = v[i] /\ HasMembers(ItemTable[name], item)
    BY <1>1, <1>2 DEF ToSet
  <2>2. w[i] \in ItemBytes(name, item)
    BY <1>1, <1>2, <2>1
  <2>3. PICK r : /\ r = Parse(ItemTable[name], w[i])
                 /\ r # NoMessage /\ EqualMembers(ItemTable[name], item, r)
    BY <2>1, <2>2, <1>2, ItemDecoded
  <2>4. rs[i] = r
    BY <1>1, <1>3, <2>3
  <2>. QED
    BY <2>1, <2>3, <2>4
<1>5. DOMAIN rs = 1 .. n /\ Len(rs) = n
  <2>1. PICK X : X = {rs[i] : i \in 1 .. n}
    OBVIOUS
  <2>2. DOMAIN rs = 1 .. n /\ rs = [i \in 1 .. n |-> rs[i]]
    BY <1>1, <1>3
  <2>3. rs \in [1 .. n -> X]
    BY <2>1, <2>2
  <2>. QED
    BY <1>1, <2>2, <2>3
<1>6. NoMessage \notin ToSet(rs)
  BY <1>4, <1>5 DEF ToSet
<1>7. EqualItems(e, v, rs)
  BY <1>1, <1>2, <1>4, <1>5 DEF EqualItems
<1>. QED
  BY <1>2, <1>3, <1>6, <1>7

\* A message that is read as its members is given as it was.
LEMMA AnswerGives ==
  ASSUME NEW m, IsMessage(ClientResponseTable, m), NEW buf,
         Got(ClientResponseTable, m, 5, Parse(ClientResponseTable, buf))
  PROVE  GaveAs("ClientResponse", m, parse_client_response(buf))
<1>1. PICK t : /\ t = ClientResponseTable /\ IsTable(t) /\ Len(t) = 5
               /\ TableOf["ClientResponse"] = t
  BY Tables DEF TableOf
<1>2. /\ t[1] = As("status", "number") /\ t[2] = As("message", "string")
      /\ t[3] = As("sensors", "items") /\ t[4] = As("metric_value", "double")
      /\ t[5] = As("readings", "items")
  BY <1>1 DEF ClientResponseTable
<1>3. PICK e3 : e3 = t[3] /\ e3.name = "sensors" /\ e3.kind = "items"
  BY <1>2 DEF As
<1>4. PICK e5 : e5 = t[5] /\ e5.name = "readings" /\ e5.kind = "items"
  BY <1>2 DEF As
<1>5. PICK mm : mm = Parse(t, buf) /\ Got(t, m, 5, mm)
  BY <1>1
<1>6. /\ DOMAIN mm = {t[i].name : i \in 1 .. 5}
      /\ Shaped(t, mm) /\ mm # NoMessage
  <2>1. Shaped(t, mm)
    BY <1>5 DEF Got
  <2>2. DOMAIN mm = DOMAIN Blank(t)
    BY <2>1 DEF Shaped
  <2>3. DOMAIN Blank(t) = {t[i].name : i \in 1 .. 5}
    <3>1. DOMAIN Blank(t) = {t[i].name : i \in 1 .. Len(t)}
      BY <1>1, BlankIs
    <3>. QED
      BY <3>1, <1>1
  <2>. QED
    BY <1>1, <2>1, <2>2, <2>3, GotMessage
<1>7. /\ mm.sensors \in Seq(Bytes) /\ Len(mm.sensors) = Len(m.sensors)
      /\ \A i \in 1 .. Len(m.sensors) :
            mm.sensors[i] \in ItemBytes("sensors", m.sensors[i])
  <2>1. Took(t[3], m[t[3].name], mm[t[3].name])
    BY <1>1, <1>5 DEF Got
  <2>2. Took(e3, m.sensors, mm.sensors)
    BY <2>1, <1>3
  <2>. QED
    BY <2>2, <1>3 DEF Took
<1>8. /\ mm.readings \in Seq(Bytes) /\ Len(mm.readings) = Len(m.readings)
      /\ \A i \in 1 .. Len(m.readings) :
            mm.readings[i] \in ItemBytes("readings", m.readings[i])
  <2>1. Took(t[5], m[t[5].name], mm[t[5].name])
    BY <1>1, <1>5 DEF Got
  <2>2. Took(e5, m.readings, mm.readings)
    BY <2>1, <1>4
  <2>. QED
    BY <2>2, <1>4 DEF Took
<1>9. /\ m.sensors \in Seq(ToSet(m.sensors))
      /\ \A item \in ToSet(m.sensors) : HasMembers(ItemTable.sensors, item)
  <2>1. e3 \in ToSet(t)
    BY <1>1, <1>3 DEF ToSet
  <2>2. KindOf(e3, m[e3.name])
    BY <2>1, <1>1 DEF IsMessage, HasMembers
  <2>3. m.sensors \in Seq(ToSet(m.sensors))
    BY <2>2, <1>3 DEF KindOf
  <2>4. \A item \in ToSet(m[e3.name]) : HasMembers(ItemTable[e3.name], item)
    BY <2>1, <1>1, <1>3 DEF IsMessage
  <2>. QED
    BY <2>3, <2>4, <1>3
<1>10. /\ m.readings \in Seq(ToSet(m.readings))
       /\ \A item \in ToSet(m.readings) : HasMembers(ItemTable.readings, item)
  <2>1. e5 \in ToSet(t)
    BY <1>1, <1>4 DEF ToSet
  <2>2. KindOf(e5, m[e5.name])
    BY <2>1, <1>1 DEF IsMessage, HasMembers
  <2>3. m.readings \in Seq(ToSet(m.readings))
    BY <2>2, <1>4 DEF KindOf
  <2>4. \A item \in ToSet(m[e5.name]) : HasMembers(ItemTable[e5.name], item)
    BY <2>1, <1>1, <1>4 DEF IsMessage
  <2>. QED
    BY <2>3, <2>4, <1>4
<1>11. PICK ss : ss = [i \in DOMAIN mm.sensors |->
                          client_parse_sensor_info(mm.sensors[i])]
  OBVIOUS
<1>12. PICK rs : rs = [i \in DOMAIN mm.readings |->
                          client_parse_sensor_reading(mm.readings[i])]
  OBVIOUS
<1>13. NoMessage \notin ToSet(ss) /\ EqualItems(e3, m.sensors, ss)
  <2>1. PICK v, w : v = m.sensors /\ w = mm.sensors
    OBVIOUS
  <2>2. /\ e3.name \in {"sensors", "readings"} /\ v \in Seq(ToSet(v))
        /\ \A item \in ToSet(v) : HasMembers(ItemTable[e3.name], item)
        /\ w \in Seq(Bytes) /\ Len(w) = Len(v)
        /\ \A i \in 1 .. Len(v) : w[i] \in ItemBytes(e3.name, v[i])
    BY <2>1, <1>3, <1>7, <1>9
  <2>3. ss = [i \in DOMAIN w |-> Parse(ItemTable[e3.name], w[i])]
    BY <2>1, <1>3, <1>11 DEF client_parse_sensor_info, ItemTable
  <2>. QED
    BY <2>1, <2>2, <2>3, ItemsDecoded
<1>14. NoMessage \notin ToSet(rs) /\ EqualItems(e5, m.readings, rs)
  <2>1. PICK v, w : v = m.readings /\ w = mm.readings
    OBVIOUS
  <2>2. /\ e5.name \in {"sensors", "readings"} /\ v \in Seq(ToSet(v))
        /\ \A item \in ToSet(v) : HasMembers(ItemTable[e5.name], item)
        /\ w \in Seq(Bytes) /\ Len(w) = Len(v)
        /\ \A i \in 1 .. Len(v) : w[i] \in ItemBytes(e5.name, v[i])
    BY <2>1, <1>4, <1>8, <1>10
  <2>3. rs = [i \in DOMAIN w |-> Parse(ItemTable[e5.name], w[i])]
    BY <2>1, <1>4, <1>12 DEF client_parse_sensor_reading, ItemTable
  <2>. QED
    BY <2>1, <2>2, <2>3, ItemsDecoded
<1>15. PICK r : r = [mm EXCEPT !.sensors = ss, !.readings = rs]
  OBVIOUS
<1>16. parse_client_response(buf) = r
  BY <1>1, <1>5, <1>6, <1>11, <1>12, <1>13, <1>14, <1>15
     DEF parse_client_response
<1>17. /\ DOMAIN r = DOMAIN mm /\ r.sensors = ss /\ r.readings = rs
       /\ \A name \in DOMAIN mm :
             name \notin {"sensors", "readings"} => r[name] = mm[name]
  <2>1. "sensors" \in DOMAIN mm /\ "readings" \in DOMAIN mm
    BY <1>3, <1>4, <1>6
  <2>. QED
    BY <2>1, <1>15
<1>18. r # NoMessage
  <2>1. r = [name \in DOMAIN Blank(t) |-> r[name]]
    BY <1>6, <1>15, <1>17 DEF Shaped
  <2>. QED
    BY <2>1, <1>1, GotMessage DEF Shaped
<1>19. ASSUME NEW i \in 1 .. 5
       PROVE  IF t[i].kind = "items"
              THEN EqualItems(t[i], m[t[i].name], r[t[i].name])
              ELSE Equal(t[i], m[t[i].name], r[t[i].name])
  <2>1. CASE i = 3
    BY <2>1, <1>3, <1>13, <1>17
  <2>2. CASE i = 5
    BY <2>2, <1>4, <1>14, <1>17
  <2>3. CASE i \in {1, 2, 4}
    <3>1. /\ t[i].kind # "items"
          /\ t[i].name \notin {"sensors", "readings"}
      BY <2>3, <1>2 DEF As
    <3>2. r[t[i].name] = mm[t[i].name]
      BY <3>1, <1>6, <1>17
    <3>3. Equal(t[i], m[t[i].name], mm[t[i].name])
      <4>1. i \in 1 .. Len(t) /\ Got(t, m, Len(t), mm)
        BY <1>1, <1>5
      <4>. QED
        BY <4>1, <3>1, <1>1, TookEqual
    <3>. QED
      BY <3>1, <3>2, <3>3
  <2>. QED
    BY <2>1, <2>2, <2>3
<1>20. \A e \in ToSet(t) :
          IF e.kind = "items" THEN EqualItems(e, m[e.name], r[e.name])
                              ELSE Equal(e, m[e.name], r[e.name])
  <2>1. DOMAIN t = 1 .. 5
    BY <1>1 DEF IsTable
  <2>. QED
    BY <2>1, <1>19 DEF ToSet
<1>. QED
  BY <1>1, <1>16, <1>18, <1>20 DEF GaveAs

LEMMA ParsedGives ==
  ASSUME NEW kind \in DOMAIN TableOf, NEW m, IsMessage(TableOf[kind], m),
         NEW buf,
         Got(TableOf[kind], m, Len(TableOf[kind]), Parse(TableOf[kind], buf))
  PROVE  GaveAs(kind, m, Parsed(kind, buf))
<1>1. CASE kind = "ClientResponse"
  <2>1. TableOf[kind] = ClientResponseTable /\ Len(TableOf[kind]) = 5
    BY <1>1, Tables DEF TableOf
  <2>2. Parsed(kind, buf) = parse_client_response(buf)
    BY <1>1 DEF Parsed
  <2>. QED
    BY <2>1, <2>2, <1>1, AnswerGives
<1>2. CASE kind # "ClientResponse"
  <2>1. PICK t : t = TableOf[kind] /\ IsTable(t)
    BY TableIs
  <2>2. PICK r : r = Parse(t, buf) /\ Got(t, m, Len(t), r)
    BY <2>1
  <2>3. r # NoMessage
    BY <2>1, <2>2, GotMessage DEF Got
  <2>4. ASSUME NEW i \in 1 .. Len(t)
        PROVE  /\ t[i].kind # "items"
               /\ Equal(t[i], m[t[i].name], r[t[i].name])
    <3>1. t[i].kind # "items"
      BY <1>2, <2>1, TableIs
    <3>. QED
      BY <3>1, <2>1, <2>2, TookEqual
  <2>5. \A e \in ToSet(t) : e.kind # "items" /\ Equal(e, m[e.name], r[e.name])
    <3>1. DOMAIN t = 1 .. Len(t)
      BY <2>1 DEF IsTable
    <3>. QED
      BY <3>1, <2>4 DEF ToSet
  <2>6. Parsed(kind, buf) = r
    BY <1>2, <2>1, <2>2 DEF Parsed
  <2>. QED
    BY <2>1, <2>3, <2>5, <2>6 DEF GaveAs
<1>. QED
  BY <1>1, <1>2

-----------------------------------------------------------------------------
(* Fields in between                                                       *)

\* What a newer program writes of a field is that field.
LEMMA FieldSpells ==
  ASSUME NEW f, IsField(f)
  PROVE  \E value \in Nat \cup Bytes :
            Spells(Spelled(f), f.number, f.wire, value)
<1>1. PICK number : number = f.number
  OBVIOUS
<1>2. CASE f.wire = 0 /\ f.varint \in Numbers
  <2>1. Spells(Key(number, 0) \o Varint[f.varint], number, 0, f.varint)
    BY <1>1, <1>2, VarintFieldRead DEF IsField
  <2>2. f.varint \in Nat
    BY <1>2 DEF Numbers
  <2>3. Spelled(f) = Key(number, 0) \o Varint[f.varint]
    <3>1. f.wire # 2
      BY <1>2
    <3>. QED
      BY <1>1, <1>2, <3>1 DEF Spelled
  <2>. QED
    BY <2>1, <2>2, <2>3, <1>1, <1>2
<1>3. CASE f.wire = 2 /\ f.bytes \in Bytes /\ Len(f.bytes) \in Numbers
  <2>1. Spells(Key(number, 2) \o (Varint[Len(f.bytes)] \o f.bytes),
               number, 2, f.bytes)
    BY <1>1, <1>3, StringFieldRead DEF IsField
  <2>2. Spelled(f) = Key(number, 2) \o (Varint[Len(f.bytes)] \o f.bytes)
    <3>1. f.wire # 0
      BY <1>3
    <3>. QED
      BY <1>1, <1>3, <3>1 DEF Spelled
  <2>. QED
    BY <2>1, <2>2, <1>1, <1>3
<1>4. CASE \/ f.wire = 1 /\ f.bytes \in Bytes /\ Len(f.bytes) = 8
           \/ f.wire = 5 /\ f.bytes \in Bytes /\ Len(f.bytes) = 4
  <2>1. PICK wire \in {1, 5} : wire = f.wire /\ IsKey(number, wire)
    BY <1>1, <1>4 DEF IsField
  <2>2. Len(f.bytes) = (IF wire = 1 THEN 8 ELSE 4) /\ f.bytes \in Bytes
    BY <1>4, <2>1
  <2>3. Spells(Key(number, wire) \o f.bytes, number, wire, f.bytes)
    BY <2>1, <2>2, FixedFieldRead
  <2>4. Spelled(f) = Key(number, wire) \o f.bytes
    <3>1. f.wire # 0 /\ f.wire # 2
      BY <2>1
    <3>. QED
      BY <1>1, <2>1, <3>1 DEF Spelled
  <2>. QED
    BY <2>1, <2>2, <2>3, <2>4, <1>1
<1>. QED
  BY <1>2, <1>3, <1>4 DEF IsField

LEMMA FoldedInTwo ==
  ASSUME NEW table, NEW X, NEW fs \in Seq(X), NEW gs \in Seq(X),
         NEW m, NEW m2, Folded(table, m, fs \o gs, m2)
  PROVE  \E m1 : Folded(table, m, fs, m1) /\ Folded(table, m1, gs, m2)
<1>1. PICK k : k = Len(fs)
  OBVIOUS
<1>2. PICK l : l = Len(gs)
  OBVIOUS
<1>3. PICK hs : hs = fs \o gs
  OBVIOUS
<1>4. /\ Len(hs) = k + l /\ k \in Nat /\ l \in Nat
      /\ \A i \in 1 .. k + l : hs[i] = IF i <= k THEN fs[i] ELSE gs[i - k]
  BY <1>1, <1>2, <1>3, Joined
<1>5. PICK h : /\ h = [i \in 0 .. k + l |-> h[i]] /\ h[0] = m /\ h[k + l] = m2
               /\ \A i \in 1 .. k + l : h[i] = Store(table, h[i - 1], hs[i])
  BY <1>3, <1>4 DEF Folded
<1>6. Folded(table, m, fs, h[k])
  <2>1. PICK f : f = [i \in 0 .. k |-> h[i]]
    OBVIOUS
  <2>2. 0 \in 0 .. k /\ k \in 0 .. k
    BY <1>4
  <2>3. f = [i \in 0 .. k |-> f[i]] /\ f[0] = m /\ f[k] = h[k]
    BY <2>1, <2>2, <1>5
  <2>4. ASSUME NEW i \in 1 .. k PROVE f[i] = Store(table, f[i - 1], fs[i])
    <3>1. i \in 1 .. k + l /\ i <= k /\ i \in 0 .. k /\ i - 1 \in 0 .. k
      BY <1>4
    <3>. QED
      BY <3>1, <2>1, <1>4, <1>5
  <2>. QED
    BY <2>3, <2>4, <1>1 DEF Folded
<1>7. Folded(table, h[k], gs, m2)
  <2>1. PICK f : f = [i \in 0 .. l |-> h[k + i]]
    OBVIOUS
  <2>2. 0 \in 0 .. l /\ l \in 0 .. l /\ k + 0 = k
    BY <1>4
  <2>3. f = [i \in 0 .. l |-> f[i]] /\ f[0] = h[k] /\ f[l] = m2
    BY <2>1, <2>2, <1>5
  <2>4. ASSUME NEW i \in 1 .. l PROVE f[i] = Store(table, f[i - 1], gs[i])
    <3>1. /\ k + i \in 1 .. k + l /\ ~ (k + i <= k) /\ (k + i) - k = i
          /\ i \in 0 .. l /\ i - 1 \in 0 .. l /\ (k + i) - 1 = k + (i - 1)
      BY <1>4
    <3>2. hs[k + i] = gs[i]
      BY <3>1, <1>4
    <3>3. h[k + i] = Store(table, h[k + (i - 1)], hs[k + i])
      BY <3>1, <1>5
    <3>. QED
      BY <3>1, <3>2, <3>3, <2>1
  <2>. QED
    BY <2>3, <2>4, <1>2 DEF Folded
<1>. QED
  BY <1>6, <1>7

\* Whole fields are the first k of them, and then others.
InTwo(u, U, fs, k, a, V, gs, b, W, hs) ==
    /\ Says(a, V, gs) /\ Says(b, W, hs)
    /\ u = a \o b /\ Len(a) = Start(U, k) /\ fs = gs \o hs
    /\ gs \in Seq(Facts) /\ hs \in Seq(Facts)

LEMMA SaysInTwo ==
  ASSUME NEW u, NEW U, NEW fs, Says(u, U, fs), NEW k \in 0 .. Len(U)
  PROVE  \E a, V, gs, b, W, hs : InTwo(u, U, fs, k, a, V, gs, b, W, hs)
<1>1. PICK l : l = Len(U) /\ l = Len(fs) /\ l \in Nat
  BY DEF Says
<1>2. U \in Seq(Bytes) /\ fs \in Seq(Facts) /\ k \in 0 .. Len(fs)
  BY <1>1 DEF Says
<1>3. PICK V : V = SubSeq(U, 1, k)
  OBVIOUS
<1>4. PICK W : W = SubSeq(U, k + 1, l)
  OBVIOUS
<1>5. PICK gs : gs = SubSeq(fs, 1, k)
  OBVIOUS
<1>6. PICK hs : hs = SubSeq(fs, k + 1, l)
  OBVIOUS
<1>7. /\ V \in Seq(Bytes) /\ W \in Seq(Bytes) /\ U = V \o W
      /\ Len(V) = k /\ Len(W) = l - k
  <2>1. PICK X : X = Bytes
    OBVIOUS
  <2>2. U \in Seq(X) /\ k \in 0 .. Len(U)
    BY <1>2, <2>1
  <2>3. /\ SubSeq(U, 1, k) \in Seq(X) /\ Len(SubSeq(U, 1, k)) = k
        /\ SubSeq(U, k + 1, Len(U)) \in Seq(X)
        /\ Len(SubSeq(U, k + 1, Len(U))) = Len(U) - k
        /\ U = SubSeq(U, 1, k) \o SubSeq(U, k + 1, Len(U))
    BY <2>2, CutInTwo
  <2>. QED
    BY <2>1, <2>3, <1>1, <1>3, <1>4
<1>8. /\ gs \in Seq(Facts) /\ hs \in Seq(Facts) /\ fs = gs \o hs
      /\ Len(gs) = k /\ Len(hs) = l - k
  <2>1. PICK X : X = Facts
    OBVIOUS
  <2>2. fs \in Seq(X) /\ k \in 0 .. Len(fs)
    BY <1>2, <2>1
  <2>3. /\ SubSeq(fs, 1, k) \in Seq(X) /\ Len(SubSeq(fs, 1, k)) = k
        /\ SubSeq(fs, k + 1, Len(fs)) \in Seq(X)
        /\ Len(SubSeq(fs, k + 1, Len(fs))) = Len(fs) - k
        /\ fs = SubSeq(fs, 1, k) \o SubSeq(fs, k + 1, Len(fs))
    BY <2>2, CutInTwo
  <2>. QED
    BY <2>1, <2>3, <1>1, <1>5, <1>6
<1>9. /\ \A i \in 1 .. k : V[i] = U[i] /\ gs[i] = fs[i]
      /\ \A i \in 1 .. l - k : W[i] = U[k + i] /\ hs[i] = fs[k + i]
  <2>1. /\ k + 1 \in 1 .. l + 1 /\ l \in 0 .. l /\ k + 1 <= l + 1
        /\ (l + 1) - (k + 1) = l - k /\ (k + 1) - 1 = k
    BY <1>1
  <2>2. \A i \in 1 .. l - k : W[i] = U[k + i]
    BY <2>1, <1>1, <1>2, <1>4, SomeOnes
  <2>3. \A i \in 1 .. l - k : hs[i] = fs[k + i]
    BY <2>1, <1>1, <1>2, <1>6, SomeOnes
  <2>4. \A i \in 1 .. k : V[i] = U[i]
    BY <1>2, <1>3, FirstOnes
  <2>5. \A i \in 1 .. k : gs[i] = fs[i]
    BY <1>2, <1>5, FirstOnes
  <2>. QED
    BY <2>2, <2>3, <2>4, <2>5
<1>10. /\ \A i \in 1 .. k : i \in 1 .. Len(U)
       /\ \A i \in 1 .. l - k : k + i \in 1 .. Len(U)
  BY <1>1
<1>11. PICK a : a = FlattenSeq(V)
  OBVIOUS
<1>12. PICK b : b = FlattenSeq(W)
  OBVIOUS
<1>13. Says(a, V, gs)
  <2>1. ASSUME NEW i \in 1 .. k
        PROVE  Spells(V[i], gs[i].number, gs[i].wire, gs[i].value)
    BY <1>9, <1>10 DEF Says
  <2>. QED
    BY <2>1, <1>7, <1>8, <1>11 DEF Says
<1>14. Says(b, W, hs)
  <2>1. ASSUME NEW i \in 1 .. l - k
        PROVE  Spells(W[i], hs[i].number, hs[i].wire, hs[i].value)
    BY <1>9, <1>10 DEF Says
  <2>. QED
    BY <2>1, <1>7, <1>8, <1>12 DEF Says
<1>15. u = a \o b
  <2>1. V \in Seq(Seq(0 .. 255)) /\ W \in Seq(Seq(0 .. 255))
    BY <1>7 DEF Bytes
  <2>2. FlattenSeq(V \o W) = FlattenSeq(V) \o FlattenSeq(W)
    BY <2>1, FlatConcat
  <2>. QED
    BY <2>2, <1>7, <1>11, <1>12 DEF Says
<1>16. Len(a) = Start(U, k)
  BY <1>3, <1>11 DEF Start
<1>. QED
  BY <1>8, <1>13, <1>14, <1>15, <1>16 DEF InTwo

LEMMA FitsInTwo ==
  ASSUME NEW table, NEW X, NEW fs \in Seq(X), NEW gs \in Seq(X),
         FitsAll(table, fs \o gs)
  PROVE  FitsAll(table, fs) /\ FitsAll(table, gs)
<1>1. PICK k : k = Len(fs)
  OBVIOUS
<1>2. PICK l : l = Len(gs)
  OBVIOUS
<1>3. PICK hs : hs = fs \o gs
  OBVIOUS
<1>4. /\ Len(hs) = k + l /\ k \in Nat /\ l \in Nat
      /\ \A i \in 1 .. k + l : hs[i] = IF i <= k THEN fs[i] ELSE gs[i - k]
  BY <1>1, <1>2, <1>3, Joined
<1>5. ASSUME NEW i \in 1 .. k, fs[i].number \in DOMAIN table
      PROVE  fs[i].wire = WireOf[table[fs[i].number].kind]
  <2>1. i \in 1 .. Len(hs) /\ hs[i] = fs[i]
    BY <1>4
  <2>. QED
    BY <2>1, <1>3, <1>5 DEF FitsAll
<1>6. ASSUME NEW i \in 1 .. l, gs[i].number \in DOMAIN table
      PROVE  gs[i].wire = WireOf[table[gs[i].number].kind]
  <2>1. k + i \in 1 .. Len(hs) /\ ~ (k + i <= k) /\ (k + i) - k = i
    BY <1>4
  <2>2. hs[k + i] = gs[i]
    BY <2>1, <1>4
  <2>. QED
    BY <2>1, <2>2, <1>3, <1>6 DEF FitsAll
<1>. QED
  BY <1>1, <1>2, <1>5, <1>6 DEF FitsAll

LEMMA OthersOfTwo ==
  ASSUME NEW a \in Bytes, NEW b \in Bytes
  PROVE  /\ SubSeq(a \o b, 1, Len(a)) = a
         /\ SubSeq(a \o b, Len(a) + 1, Len(a \o b)) = b
<1>1. PICK X : X = 0 .. 255 /\ Bytes = Seq(X)
  BY DEF Bytes
<1>2. PICK c : c = a \o b
  OBVIOUS
<1>3. PICK k : k = Len(a) /\ k \in Nat
  BY <1>1
<1>4. PICK l : l = Len(b) /\ l \in Nat
  BY <1>1
<1>5. /\ c \in Seq(X) /\ Len(c) = k + l
      /\ \A i \in 1 .. k + l : c[i] = IF i <= k THEN a[i] ELSE b[i - k]
  BY <1>1, <1>2, <1>3, <1>4, ConcatProperties
<1>6. SubSeq(c, 1, k) = a
  <2>1. k \in 0 .. Len(c)
    BY <1>3, <1>4, <1>5
  <2>2. /\ SubSeq(c, 1, k) \in Seq(X) /\ Len(SubSeq(c, 1, k)) = k
        /\ \A i \in 1 .. k : SubSeq(c, 1, k)[i] = c[i]
    BY <2>1, <1>5, FirstOnes
  <2>3. \A i \in 1 .. k : c[i] = a[i]
    BY <1>3, <1>4, <1>5
  <2>. QED
    BY <2>2, <2>3, <1>1, <1>3
<1>7. SubSeq(c, k + 1, Len(c)) = b
  <2>1. /\ k + 1 \in 1 .. Len(c) + 1 /\ Len(c) \in 0 .. Len(c)
        /\ k + 1 <= Len(c) + 1
        /\ (Len(c) + 1) - (k + 1) = l /\ (k + 1) - 1 = k
    BY <1>3, <1>4, <1>5
  <2>2. PICK d : d = SubSeq(c, k + 1, Len(c))
    OBVIOUS
  <2>3. /\ d \in Seq(X) /\ Len(d) = l
        /\ \A i \in 1 .. l : d[i] = c[k + i]
    BY <2>1, <2>2, <1>5, SomeOnes
  <2>4. ASSUME NEW i \in 1 .. l PROVE c[k + i] = b[i]
    <3>1. k + i \in 1 .. k + l /\ ~ (k + i <= k) /\ (k + i) - k = i
      BY <1>3, <1>4
    <3>. QED
      BY <3>1, <1>5
  <2>. QED
    BY <2>2, <2>3, <2>4, <1>1, <1>4
<1>. QED
  BY <1>2, <1>3, <1>6, <1>7

\* A field that a table does not know changes nothing for the parser, between
\* whichever fields it is.
LEMMA Inserted ==
  ASSUME NEW u, NEW U, NEW fs, Says(u, U, fs),
         NEW table, NEW m, Folded(table, Blank(table), fs, m),
         FitsAll(table, fs),
         NEW new, IsField(new), new.number \notin DOMAIN table,
         NEW k \in 0 .. Len(U), NEW n, n = Start(U, k)
  PROVE  Parse(table, SubSeq(u, 1, n) \o Spelled(new)
                         \o SubSeq(u, n + 1, Len(u))) = m
<1>1. PICK a, V, gs, b, W, hs : InTwo(u, U, fs, k, a, V, gs, b, W, hs)
  BY SaysInTwo
<1>2. /\ Says(a, V, gs) /\ Says(b, W, hs)
      /\ u = a \o b /\ Len(a) = Start(U, k) /\ fs = gs \o hs
      /\ gs \in Seq(Facts) /\ hs \in Seq(Facts)
  BY <1>1 DEF InTwo
<1>3. PICK X : X = Facts /\ gs \in Seq(X) /\ hs \in Seq(X)
  BY <1>2
<1>4. PICK m1 : Folded(table, Blank(table), gs, m1) /\ Folded(table, m1, hs, m)
  <2>1. Folded(table, Blank(table), gs \o hs, m)
    BY <1>2
  <2>. QED
    BY <2>1, <1>3, FoldedInTwo
<1>5. FitsAll(table, gs) /\ FitsAll(table, hs)
  <2>1. FitsAll(table, gs \o hs)
    BY <1>2
  <2>. QED
    BY <2>1, <1>3, FitsInTwo
<1>6. PICK number \in Nat, wire \in 0 .. 7 :
          number = new.number /\ wire = new.wire
  BY AnyKeyIs DEF IsField
<1>7. PICK x : x = Spelled(new)
  OBVIOUS
<1>8. PICK value \in Nat \cup Bytes : Spells(x, number, wire, value)
  <2>1. \E value \in Nat \cup Bytes :
            Spells(Spelled(new), new.number, new.wire, value)
    BY FieldSpells
  <2>. QED
    BY <2>1, <1>6, <1>7
<1>9. /\ x = Spelled(new) /\ number = new.number /\ wire = new.wire
      /\ Spells(x, number, wire, value)
  BY <1>6, <1>7, <1>8
<1>10. PICK f : /\ f = [number |-> number, wire |-> wire, value |-> value]
               /\ Says(x, <<x>>, <<f>>) /\ f \in Facts
               /\ f.number \notin DOMAIN table
  <2>1. PICK f : f = [number |-> number, wire |-> wire, value |-> value]
    OBVIOUS
  <2>2. Says(x, <<x>>, <<f>>)
    BY <2>1, <1>9, SaysOne
  <2>3. f \in Facts
    BY <2>1 DEF Facts
  <2>. QED
    BY <2>1, <2>2, <2>3, <1>9
<1>11. Folded(table, m1, <<f>>, m1) /\ FitsAll(table, <<f>>)
  <2>1. Store(table, m1, f) = m1
    BY <1>10 DEF Store
  <2>2. Folded(table, m1, <<f>>, m1)
    BY <2>1, FoldedOne
  <2>3. Len(<<f>>) = 1 /\ <<f>>[1] = f
    OBVIOUS
  <2>. QED
    BY <2>2, <2>3, <1>10 DEF FitsAll
<1>12. <<f>> \in Seq(X)
  BY <1>3, <1>10
<1>13. PICK gf : gf = gs \o <<f>> /\ gf \in Seq(X)
  BY <1>3, <1>12, Joined
<1>14. Says(a \o x, V \o <<x>>, gf)
  BY <1>2, <1>10, <1>13, SaysMore
<1>15. Folded(table, Blank(table), gf, m1) /\ FitsAll(table, gf)
  BY <1>3, <1>4, <1>5, <1>11, <1>12, <1>13, FoldedMore, FitsMore
<1>16. Says((a \o x) \o b, (V \o <<x>>) \o W, gf \o hs)
  BY <1>2, <1>14, SaysMore
<1>17. Folded(table, Blank(table), gf \o hs, m) /\ FitsAll(table, gf \o hs)
  BY <1>3, <1>4, <1>5, <1>13, <1>15, FoldedMore, FitsMore
<1>18. Parse(table, (a \o x) \o b) = m
  BY <1>16, <1>17, ParseWhole
<1>19. SubSeq(u, 1, n) = a /\ SubSeq(u, n + 1, Len(u)) = b
  <2>1. a \in Bytes /\ b \in Bytes
    BY <1>2, FlatBytes DEF Says
  <2>2. /\ SubSeq(a \o b, 1, Len(a)) = a
        /\ SubSeq(a \o b, Len(a) + 1, Len(a \o b)) = b
    BY <2>1, OthersOfTwo
  <2>. QED
    BY <2>2, <1>2
<1>. QED
  BY <1>9, <1>18, <1>19

\* The places between fields are those where the fields begin and end.
Places(u) == {0} \cup {Fields(u)[i].next - 1 : i \in DOMAIN Fields(u)}

LEMMA PlaceIs ==
  ASSUME NEW u, NEW U, NEW fs, Says(u, U, fs),
         NEW n \in Places(u)
  PROVE  \E k \in 0 .. Len(U) : n = Start(U, k)
<1>1. PICK X, F : /\ Fields(u) = F /\ F \in Seq(X) /\ Len(F) = Len(U)
                  /\ \A i \in 1 .. Len(U) :
                        F[i] = FieldOf(fs[i], Start(U, i) + 1)
  <2>1. u \in Bytes /\ Len(U) \in Nat
    BY FlatBytes DEF Says
  <2>2. PICK r : r = << >>
    OBVIOUS
  <2>3. r \in Bytes /\ u \o r = u /\ Len(U) + 0 = Len(U)
    BY <2>1, <2>2 DEF Bytes
  <2>4. PICK X, F : /\ Fields(u \o r) = F /\ F \in Seq(X)
                    /\ Len(F) = Len(U) + (IF r = << >> THEN 0 ELSE 1)
                    /\ \A i \in 1 .. Len(U) :
                          F[i] = FieldOf(fs[i], Start(U, i) + 1)
                    /\ r # << >> => ~ F[Len(U) + 1].ok
    <3>1. r \in Bytes /\ (r = << >> \/ ~ ReadField(u \o r, Len(u) + 1).ok)
      BY <2>2, <2>3
    <3>. QED
      BY <3>1, FieldsAre
  <2>. QED
    BY <2>2, <2>3, <2>4
<1>2. PICK l : l = Len(U) /\ l \in Nat /\ DOMAIN F = 1 .. l
  BY <1>1 DEF Says
<1>3. CASE n = 0
  <2>1. FlattenSeq(SubSeq(U, 1, 0)) = << >>
    <3>1. SubSeq(U, 1, 0) = << >>
      BY DEF Says
    <3>. QED
      BY <3>1, FlatEmpty
  <2>2. Start(U, 0) = 0
    BY <2>1 DEF Start
  <2>3. 0 \in 0 .. Len(U)
    BY <1>2
  <2>. QED
    BY <2>2, <2>3, <1>3
<1>4. ASSUME NEW i \in 1 .. l, n = F[i].next - 1 PROVE n = Start(U, i)
  <2>1. F[i].next = Start(U, i) + 1
    BY <1>1, <1>2 DEF FieldOf
  <2>2. Start(U, i) \in Nat
    <3>1. SubSeq(U, 1, i) \in Seq(Bytes)
      BY <1>2 DEF Says
    <3>2. PICK v : v = FlattenSeq(SubSeq(U, 1, i)) /\ v \in Bytes
      BY <3>1, FlatBytes
    <3>3. Len(v) \in Nat
      BY <3>2 DEF Bytes
    <3>. QED
      BY <3>2, <3>3 DEF Start
  <2>. QED
    BY <2>1, <2>2, <1>4
<1>5. CASE n # 0
  <2>1. PICK i \in 1 .. l : n = F[i].next - 1
    BY <1>1, <1>2, <1>5 DEF Places
  <2>2. i \in 0 .. Len(U)
    BY <1>2
  <2>. QED
    BY <2>1, <2>2, <1>4
<1>. QED
  BY <1>3, <1>5

-----------------------------------------------------------------------------
(* What holds in every state                                               *)

\* What is appended for a message, from the first piece to the last.
Written(c) == {Encoded(c), PythonMessage(TableOf[c.kind], c.message)}

\* What is in the buffer, and what is yet to come, are the message; and what the
\* parser made of it stays.
TransferInv ==
    /\ content \in Contents
    /\ data \in Bytes /\ pieces \in Seq(Bytes) /\ capacity \in Nat
    /\ BufferHolds
    /\ \E ps \in Written(content) :
          data \o FlattenSeq(pieces) = FlattenSeq(ps)
    /\ RoundTrip
    /\ UnknownFieldsIgnored
    /\ CutIsNoticed

LEMMA WrittenEncodes ==
  ASSUME NEW c \in Contents, NEW ps \in Written(c)
  PROVE  Encodes(TableOf[c.kind], c.message, Len(TableOf[c.kind]), ps)
<1>1. c.kind \in DOMAIN TableOf /\ IsMessage(TableOf[c.kind], c.message)
  BY ContentsAssumption
<1>2. CASE ps = Encoded(c)
  BY <1>1, <1>2, EncodesContent
<1>3. CASE ps = PythonMessage(TableOf[c.kind], c.message)
  <2>1. PICK kind, m : kind = c.kind /\ m = c.message
    OBVIOUS
  <2>. QED
    BY <1>1, <1>3, <2>1, EncodesPythonMessage
<1>. QED
  BY <1>2, <1>3 DEF Written

LEMMA InitTransferInv == Init => TransferInv
<1>. SUFFICES ASSUME Init PROVE TransferInv
  OBVIOUS
<1>1. pieces \in Written(content) /\ content \in Contents
  BY DEF Init, Written
<1>2. pieces \in Seq(Bytes)
  <2>1. Encodes(TableOf[content.kind], content.message,
                Len(TableOf[content.kind]), pieces)
    BY <1>1, WrittenEncodes
  <2>. QED
    BY <2>1 DEF Encodes
<1>3. FlattenSeq(pieces) \in Bytes
  BY <1>2, FlatBytes
<1>4. data = << >> /\ data \in Bytes /\ Len(data) = 0 /\ capacity = 0
  BY DEF Init, Bytes
<1>5. data \o FlattenSeq(pieces) = FlattenSeq(pieces)
  BY <1>3, <1>4 DEF Bytes
<1>6. BufferHolds
  BY <1>4 DEF BufferHolds
<1>7. RoundTrip /\ UnknownFieldsIgnored /\ CutIsNoticed
  <2>1. arrived = "no"
    BY DEF Init
  <2>. QED
    BY <2>1 DEF RoundTrip, UnknownFieldsIgnored, CutIsNoticed
<1>. QED
  BY <1>1, <1>2, <1>4, <1>5, <1>6, <1>7 DEF TransferInv

LEMMA FirstAndRest ==
  ASSUME NEW X, NEW s \in Seq(X), s # << >>
  PROVE  Tail(s) \in Seq(X) /\ s = <<Head(s)>> \o Tail(s)
<1>1. PICK x : x = Head(s) /\ x \in X /\ x = s[1]
  OBVIOUS
<1>2. PICK t : /\ t = Tail(s) /\ t \in Seq(X) /\ Len(s) = Len(t) + 1
               /\ \A i \in 1 .. Len(t) : t[i] = s[i + 1]
  <2>1. /\ Tail(s) \in Seq(X) /\ Len(Tail(s)) = Len(s) - 1
        /\ \A i \in 1 .. Len(Tail(s)) : Tail(s)[i] = s[i + 1]
    BY HeadTailProperties
  <2>2. PICK t : t = Tail(s)
    OBVIOUS
  <2>3. /\ t \in Seq(X) /\ Len(t) = Len(s) - 1
        /\ \A i \in 1 .. Len(t) : t[i] = s[i + 1]
    BY <2>1, <2>2
  <2>4. Len(s) = Len(t) + 1
    <3>1. Len(s) \in Nat
      OBVIOUS
    <3>. QED
      BY <3>1, <2>3
  <2>. QED
    BY <2>2, <2>3, <2>4
<1>3. PICK c : c = <<x>> \o t
  OBVIOUS
<1>4. /\ c \in Seq(X) /\ Len(c) = 1 + Len(t) /\ Len(t) \in Nat
      /\ \A i \in 1 .. 1 + Len(t) : c[i] = IF i <= 1 THEN x ELSE t[i - 1]
  <2>1. <<x>> \in Seq(X) /\ Len(<<x>>) = 1 /\ <<x>>[1] = x
    BY <1>1
  <2>2. /\ c \in Seq(X) /\ Len(c) = Len(<<x>>) + Len(t)
        /\ \A i \in 1 .. Len(<<x>>) + Len(t) :
              c[i] = IF i <= Len(<<x>>) THEN <<x>>[i] ELSE t[i - Len(<<x>>)]
    BY <2>1, <1>2, <1>3, ConcatProperties
  <2>3. Len(t) \in Nat
    BY <1>2
  <2>4. \A i \in 1 .. 1 + Len(t) : i <= 1 => i = 1
    OBVIOUS
  <2>. QED
    BY <2>1, <2>2, <2>3, <2>4
<1>5. ASSUME NEW i \in 1 .. Len(s) PROVE c[i] = s[i]
  <2>1. CASE i = 1
    BY <2>1, <1>1, <1>2, <1>4
  <2>2. CASE i # 1
    <3>1. i - 1 \in 1 .. Len(t) /\ ~ (i <= 1) /\ (i - 1) + 1 = i
      BY <2>2, <1>2, <1>4
    <3>. QED
      BY <3>1, <1>2, <1>4
  <2>. QED
    BY <2>1, <2>2
<1>6. c = s
  BY <1>2, <1>4, <1>5
<1>. QED
  BY <1>1, <1>2, <1>3, <1>6

\* A step that does not change what has arrived changes nothing of this.
LEMMA SameResult ==
  ASSUME content' = content, arrived' = arrived, result' = result,
         RoundTrip, UnknownFieldsIgnored, CutIsNoticed
  PROVE  RoundTrip' /\ UnknownFieldsIgnored' /\ CutIsNoticed'
<1>1. \A m : Gave(m) <=> GaveAs(content.kind, m, result)
  BY DEF Gave, GaveAs
<1>2. \A m : Gave(m)' <=> GaveAs(content'.kind, m, result')
  BY DEF Gave, GaveAs
<1>3. \A m : Gave(m)' <=> Gave(m)
  BY <1>1, <1>2
<1>4. \A k : FirstFields(k)' = FirstFields(k)
  BY DEF FirstFields
<1>5. RoundTrip' /\ UnknownFieldsIgnored'
  BY <1>3 DEF RoundTrip, UnknownFieldsIgnored
<1>6. CutIsNoticed'
  <2>. SUFFICES ASSUME arrived' = "cut", result' # NoMessage
                PROVE  \E k \in 0 .. Len(TableOf[content'.kind]) :
                          Gave(FirstFields(k))'
    BY DEF CutIsNoticed
  <2>1. PICK k \in 0 .. Len(TableOf[content.kind]) : Gave(FirstFields(k))
    BY DEF CutIsNoticed
  <2>2. GaveAs(content'.kind, FirstFields(k)', result')
    BY <2>1, <1>1, <1>4
  <2>3. Gave(FirstFields(k))'
    BY <2>2 DEF Gave, GaveAs
  <2>. QED
    BY <2>1, <2>3
<1>. QED
  BY <1>5, <1>6

\* A piece goes from the one to the other, and the buffer has room for it.
LEMMA AppendInv ==
  ASSUME TransferInv, AppendPiece PROVE TransferInv'
<1>1. PICK p : p = Head(pieces) /\ p \in Bytes
  BY DEF TransferInv, AppendPiece, Encoding
<1>2. PICK ps2 : /\ ps2 = Tail(pieces) /\ ps2 \in Seq(Bytes)
                 /\ pieces = <<p>> \o ps2
  <2>1. PICK X : X = Bytes /\ pieces \in Seq(X) /\ pieces # << >>
    BY DEF TransferInv, AppendPiece, Encoding
  <2>. QED
    BY <2>1, <1>1, FirstAndRest
<1>3. /\ capacity' = Reserve(capacity, Len(data), Len(p))
      /\ data' = data \o p /\ pieces' = ps2
      /\ UNCHANGED <<content, arrived, result>>
  BY <1>1, <1>2 DEF AppendPiece
<1>4. /\ data \in Bytes /\ data' \in Bytes
      /\ Len(data') = Len(data) + Len(p)
      /\ Len(data) \in Nat /\ Len(p) \in Nat
  BY <1>1, <1>3, AtConcat DEF TransferInv
<1>5. capacity' \in Nat /\ BufferHolds'
  <2>1. capacity \in Nat /\ BufferHolds
    BY DEF TransferInv
  <2>2. PICK cap : cap = Reserve(capacity, Len(data), Len(p))
    OBVIOUS
  <2>3. /\ cap \in Nat /\ Len(data) + Len(p) <= cap
        /\ \/ cap = capacity
           \/ cap <= 128
           \/ cap < 2 * (Len(data) + Len(p))
    BY <2>1, <2>2, <1>4, Reserved
  <2>4. cap > 128 => cap < 2 * (Len(data) + Len(p))
    <3>1. capacity > 128 => capacity < 2 * Len(data)
      BY <2>1 DEF BufferHolds
    <3>. QED
      BY <3>1, <2>1, <2>3, <1>4
  <2>. QED
    BY <2>2, <2>3, <2>4, <1>3, <1>4 DEF BufferHolds
<1>6. \E ps \in Written(content)' :
         data' \o FlattenSeq(pieces') = FlattenSeq(ps)
  <2>1. PICK ps \in Written(content) :
            data \o FlattenSeq(pieces) = FlattenSeq(ps)
    BY DEF TransferInv
  <2>2. PICK b : b = FlattenSeq(ps2) /\ b \in Bytes
    BY <1>2, FlatBytes
  <2>3. FlattenSeq(pieces) = p \o b
    <3>1. <<p>> \in Seq(Bytes) /\ FlattenSeq(<<p>>) = p
      BY <1>1, FlatOne DEF Bytes
    <3>. QED
      BY <3>1, <2>2, <1>2, FlatJoined
  <2>4. (data \o p) \o b = data \o (p \o b)
    <3>1. PICK X : X = 0 .. 255 /\ Bytes = Seq(X)
      BY DEF Bytes
    <3>2. data \in Seq(X) /\ p \in Seq(X) /\ b \in Seq(X)
      BY <3>1, <2>2, <1>1, <1>4
    <3>3. \A u, v, w \in Seq(X) : (u \o v) \o w = u \o (v \o w)
      BY Assoc
    <3>. QED
      BY <3>2, <3>3
  <2>5. data' \o FlattenSeq(pieces') = FlattenSeq(ps)
    BY <2>1, <2>2, <2>3, <2>4, <1>3
  <2>6. Written(content)' = Written(content)
    BY <1>3 DEF Written
  <2>. QED
    BY <2>1, <2>5, <2>6
<1>7. RoundTrip' /\ UnknownFieldsIgnored' /\ CutIsNoticed'
  BY <1>3, SameResult DEF TransferInv
<1>8. content' \in Contents
  BY <1>3 DEF TransferInv
<1>. QED
  BY <1>2, <1>3, <1>4, <1>5, <1>6, <1>7, <1>8 DEF TransferInv

\* Whatever arrives, the message and the buffer stay.
LEMMA ArriveInv ==
  ASSUME TransferInv, NEW how, NEW bytes, Arrive(how, bytes),
         RoundTrip', UnknownFieldsIgnored', CutIsNoticed'
  PROVE  TransferInv'
  BY DEF TransferInv, Arrive, BufferHolds, Written

\* The buffer holds whole fields once all is appended.
LEMMA AllWritten ==
  ASSUME TransferInv, ~Encoding
  PROVE  \E ps : /\ Encodes(TableOf[content.kind], content.message,
                            Len(TableOf[content.kind]), ps)
                 /\ data = FlattenSeq(ps)
<1>1. PICK ps \in Written(content) :
          data \o FlattenSeq(pieces) = FlattenSeq(ps)
  BY DEF TransferInv
<1>2. Encodes(TableOf[content.kind], content.message,
              Len(TableOf[content.kind]), ps)
  BY <1>1, WrittenEncodes DEF TransferInv
<1>3. FlattenSeq(pieces) = << >>
  BY FlatEmpty DEF Encoding
<1>4. data \o << >> = data
  BY DEF TransferInv, Bytes
<1>. QED
  BY <1>1, <1>2, <1>3, <1>4

LEMMA WholeInv ==
  ASSUME TransferInv, ArriveWhole PROVE TransferInv'
<1>1. /\ Arrive("whole", data) /\ ~Encoding
      /\ arrived' = "whole" /\ content' = content
      /\ result' = Parsed(content.kind, data)
  BY DEF ArriveWhole, Arrive
<1>2. PICK ps : /\ Encodes(TableOf[content.kind], content.message,
                           Len(TableOf[content.kind]), ps)
                /\ data = FlattenSeq(ps)
  BY <1>1, AllWritten
<1>3. Got(TableOf[content.kind], content.message, Len(TableOf[content.kind]),
          Parse(TableOf[content.kind], data))
  BY <1>2, Decoded
<1>4. /\ content.kind \in DOMAIN TableOf
      /\ IsMessage(TableOf[content.kind], content.message)
  BY ContentsAssumption DEF TransferInv
<1>5. GaveAs(content.kind, content.message, Parsed(content.kind, data))
  BY <1>3, <1>4, ParsedGives
<1>6. RoundTrip'
  BY <1>1, <1>5 DEF RoundTrip, Gave, GaveAs
<1>7. UnknownFieldsIgnored' /\ CutIsNoticed'
  BY <1>1 DEF UnknownFieldsIgnored, CutIsNoticed
<1>. QED
  BY <1>1, <1>6, <1>7, ArriveInv

LEMMA NewerInv ==
  ASSUME TransferInv, ArriveNewer PROVE TransferInv'
<1>1. PICK n \in Boundaries, new \in Unknown :
         Arrive("newer", SubSeq(data, 1, n) \o Spelled(new)
                            \o SubSeq(data, n + 1, Len(data)))
  BY DEF ArriveNewer
<1>2. PICK buf : buf = SubSeq(data, 1, n) \o Spelled(new)
                          \o SubSeq(data, n + 1, Len(data))
  OBVIOUS
<1>3. /\ Arrive("newer", buf) /\ ~Encoding
      /\ arrived' = "newer" /\ content' = content
      /\ result' = Parsed(content.kind, buf)
  BY <1>1, <1>2 DEF ArriveNewer, Arrive
<1>4. PICK t : t = TableOf[content.kind]
  OBVIOUS
<1>5. PICK m : m = content.message
  OBVIOUS
<1>6. /\ content.kind \in DOMAIN TableOf /\ IsMessage(t, m)
  BY <1>4, <1>5, ContentsAssumption DEF TransferInv
<1>7. PICK ps : Encodes(t, m, Len(t), ps) /\ data = FlattenSeq(ps)
  BY <1>3, <1>4, <1>5, AllWritten
<1>8. PICK U, fs, m2 :
          /\ Says(data, U, fs) /\ FitsAll(t, fs)
          /\ Folded(t, Blank(t), fs, m2) /\ Got(t, m, Len(t), m2)
  BY <1>7 DEF Encodes
<1>9. IsField(new) /\ new.number \notin DOMAIN t
  BY <1>4, <1>6, UnknownAssumption
<1>10. PICK k \in 0 .. Len(U) : n = Start(U, k)
  <2>1. n \in Places(data)
    BY DEF Places, Boundaries
  <2>. QED
    BY <2>1, <1>8, PlaceIs
<1>11. Parse(t, buf) = m2
  BY <1>2, <1>8, <1>9, <1>10, Inserted
<1>12. GaveAs(content.kind, m, Parsed(content.kind, buf))
  BY <1>4, <1>6, <1>8, <1>11, ParsedGives
<1>13. UnknownFieldsIgnored'
  BY <1>3, <1>5, <1>12 DEF UnknownFieldsIgnored, Gave, GaveAs
<1>14. RoundTrip' /\ CutIsNoticed'
  BY <1>3 DEF RoundTrip, CutIsNoticed
<1>. QED
  BY <1>3, <1>13, <1>14, ArriveInv

LEMMA CutInv ==
  ASSUME TransferInv, ArriveCut PROVE TransferInv'
<1>1. PICK n \in Cuts : n < Len(data) /\ Arrive("cut", SubSeq(data, 1, n))
  BY DEF ArriveCut
<1>2. PICK buf : buf = SubSeq(data, 1, n)
  OBVIOUS
<1>3. /\ Arrive("cut", buf) /\ ~Encoding
      /\ arrived' = "cut" /\ content' = content
      /\ result' = Parsed(content.kind, buf)
  BY <1>1, <1>2 DEF ArriveCut, Arrive
<1>4. PICK kind : kind = content.kind /\ kind # "ClientResponse"
  BY DEF ArriveCut, Datagrams
<1>5. PICK t : t = TableOf[kind]
  OBVIOUS
<1>6. PICK m : m = content.message
  OBVIOUS
<1>7. kind \in DOMAIN TableOf /\ IsMessage(t, m)
  BY <1>4, <1>5, <1>6, ContentsAssumption DEF TransferInv
<1>8. PICK ps : Encodes(t, m, Len(t), ps) /\ data = FlattenSeq(ps)
  BY <1>3, <1>4, <1>5, <1>6, AllWritten
<1>9. CutOk(t, m, Len(t), data)
  <2>1. \A i \in 1 .. Len(t) : t[i].kind # "items"
    BY <1>4, <1>5, <1>7, TableIs
  <2>. QED
    BY <2>1, <1>8 DEF Encodes
<1>10. n \in 0 .. Len(data) - 1
  BY <1>1, CutsAssumption DEF TransferInv, Bytes
<1>11. Parsed(kind, buf) = Parse(t, buf)
  BY <1>4, <1>5 DEF Parsed
<1>12. \/ result' = NoMessage
       \/ \E k \in 0 .. Len(t) : Got(t, m, k, Parse(t, buf))
  BY <1>2, <1>3, <1>4, <1>9, <1>10, <1>11 DEF CutOk
<1>13. ASSUME NEW k \in 0 .. Len(t), Got(t, m, k, Parse(t, buf))
       PROVE  Gave(FirstFields(k))'
  <2>1. GaveAs(kind, FirstOf(t, m, k), Parse(t, buf))
    BY <1>4, <1>5, <1>7, <1>13, GotFirst DEF IsMessage
  <2>2. FirstOf(t, m, k) = FirstFields(k)'
    BY <1>3, <1>4, <1>5, <1>6 DEF FirstOf, FirstFields
  <2>. QED
    BY <2>1, <2>2, <1>3, <1>4, <1>11 DEF Gave, GaveAs
<1>14. CutIsNoticed'
  <2>1. TableOf[content'.kind] = t
    BY <1>3, <1>4, <1>5
  <2>2. \/ result' = NoMessage
        \/ \E k \in 0 .. Len(TableOf[content'.kind]) : Gave(FirstFields(k))'
    BY <2>1, <1>12, <1>13
  <2>. QED
    BY <2>2 DEF CutIsNoticed
<1>15. RoundTrip' /\ UnknownFieldsIgnored'
  BY <1>3 DEF RoundTrip, UnknownFieldsIgnored
<1>. QED
  BY <1>3, <1>14, <1>15, ArriveInv

LEMMA NextTransferInv == TransferInv /\ [Next]_vars => TransferInv'
<1>. SUFFICES ASSUME TransferInv, [Next]_vars PROVE TransferInv'
  OBVIOUS
<1>1. CASE AppendPiece
  BY <1>1, AppendInv
<1>2. CASE ArriveWhole
  BY <1>2, WholeInv
<1>3. CASE ArriveNewer
  BY <1>3, NewerInv
<1>4. CASE ArriveCut
  BY <1>4, CutInv
<1>5. CASE UNCHANGED vars
  <2>1. RoundTrip' /\ UnknownFieldsIgnored' /\ CutIsNoticed'
    BY <1>5, SameResult DEF vars, TransferInv
  <2>. QED
    BY <2>1, <1>5 DEF vars, TransferInv, BufferHolds, Written
<1>. QED
  BY <1>1, <1>2, <1>3, <1>4, <1>5 DEF Next

\* In every state, the buffer and what is yet to be appended to it are the
\* message that was to be sent.
THEOREM TransferInvariant == Spec => []TransferInv
  BY InitTransferInv, NextTransferInv, PTL DEF Spec

\* buffer_reserve makes room for every piece, and never twice what is needed.
THEOREM BufferHoldsAll == Spec => []BufferHolds
<1>1. TransferInv => BufferHolds
  BY DEF TransferInv
<1>. QED
  BY <1>1, TransferInvariant, PTL

\* Every parser of a C program reads what was written for it, by the encoders of
\* smartcity_common.c and client.c and by Python's.
THEOREM RoundTripsAll == Spec => []RoundTrip
<1>1. TransferInv => RoundTrip
  BY DEF TransferInv
<1>. QED
  BY <1>1, TransferInvariant, PTL

\* skip_field steps over a field that the program does not know, whatever it is
\* and wherever.
THEOREM UnknownFieldsAreIgnored == Spec => []UnknownFieldsIgnored
<1>1. TransferInv => UnknownFieldsIgnored
  BY DEF TransferInv
<1>. QED
  BY <1>1, TransferInvariant, PTL

\* A datagram without its end is rejected, or has lost whole fields.
THEOREM CutsAreNoticed == Spec => []CutIsNoticed
<1>1. TransferInv => CutIsNoticed
  BY DEF TransferInv
<1>. QED
  BY <1>1, TransferInvariant, PTL
=============================================================================
