------------------------- MODULE WebProcessesProofs -------------------------
(***************************************************************************)
(* Proofs about WebProcesses, for any pages, programs and times.           *)
(*                                                                         *)
(* The argument: a page's list is wrong only about processes that have     *)
(* started or ended since it was made, hence no longer ago than the list   *)
(* is old; and a page finds every process of its own either among those it *)
(* manages or in its list, unless it has no list and makes a new one.      *)
(***************************************************************************)
EXTENDS WebProcesses, TLAPS

\* Only processes that were started are known to anyone.
Known ==
    /\ Len(procs) <= MaxStarts
    /\ \A s \in Sessions :
          /\ \A k \in Scripts : managed[s][k] <= Len(procs)
          /\ cache[s].found \subseteq DOMAIN procs
          /\ task[s].left \subseteq DOMAIN procs
          /\ task[s].upTo <= Len(procs)
          /\ gone[s] \subseteq DOMAIN procs

\* A list that is kept is not too old, and what it is wrong about has changed
\* since it was made.
Lists ==
    \A s \in Sessions :
        cache[s] # NoCache =>
            /\ cache[s].age \in 0 .. TTL
            /\ \A i \in DOMAIN procs :
                  (i \in cache[s].found) # procs[i].alive =>
                      procs[i].age <= cache[s].age

\* What a page has started it finds again.
OwnFound ==
    \A s \in Sessions, i \in DOMAIN procs :
        procs[i].alive /\ procs[i].by = s =>
            \/ managed[s][procs[i].script] = i
            \/ cache[s] = NoCache
            \/ i \in cache[s].found

\* What a page has stopped has ended, and its list has been dropped since.
StoppedGone ==
    \A s \in Sessions : gone[s] \cap (Alive \cup cache[s].found) = {}

\* A stop still has before it what it has found and what is running of that.
StopsGoOn ==
    \A s \in Sessions :
        task[s].do = "stop" /\ task[s].script # None =>
            \A i \in Alive \cap Of(task[s].script) :
                i <= task[s].upTo => i \in task[s].left

\* Who is about to start a program starts one that has a name.
StartsNamed ==
    \A s \in Sessions : task[s].do = "start" => task[s].script \in Scripts

WebInv ==
    /\ TypeOK
    /\ Known
    /\ Lists
    /\ OwnFound
    /\ StoppedGone
    /\ StopsGoOn
    /\ StartsNamed
    /\ RivalsAreYoung

-----------------------------------------------------------------------------
(* What the three ways to change procs do                                  *)

LEMMA Bounds == /\ TTL \in Nat /\ MaxPause \in Nat
                /\ MaxStarts \in Nat /\ Horizon \in Nat
                /\ TTL + MaxPause < Horizon
  BY WebAssumption

LEMMA ProcessFields ==
  ASSUME TypeOK, NEW i \in DOMAIN procs
  PROVE  /\ procs[i].script \in Scripts
         /\ procs[i].alive \in BOOLEAN
         /\ procs[i].age \in 0 .. Horizon
         /\ procs[i].by \in Sessions \cup {None}
<1>1. procs[i] \in Process
  BY DEF TypeOK
<1>. QED
  BY <1>1 DEF Process

LEMMA ProcsDomain ==
  ASSUME TypeOK
  PROVE  /\ procs \in Seq(Process)
         /\ Len(procs) \in Nat
         /\ DOMAIN procs = 1 .. Len(procs)
<1>1. procs \in Seq(Process)
  BY DEF TypeOK
<1>. QED
  BY <1>1

\* A process more.
LEMMA Started ==
  ASSUME TypeOK, Known, Len(procs) < MaxStarts,
         NEW k \in Scripts, NEW by \in Sessions \cup {None},
         procs' = Append(procs, New(k, by))
  PROVE  /\ procs' \in Seq(Process)
         /\ Len(procs') = Len(procs) + 1
         /\ DOMAIN procs' = DOMAIN procs \cup {Len(procs) + 1}
         /\ \A i \in DOMAIN procs : procs'[i] = procs[i]
         /\ procs'[Len(procs) + 1] = New(k, by)
         /\ Len(procs) + 1 \notin DOMAIN procs
         /\ Len(procs) + 1 \in Numbers
<1>. USE WebAssumption
<1>1. procs \in Seq(Process) /\ Len(procs) \in Nat
  BY ProcsDomain
<1>2. New(k, by) \in Process
  BY DEF New, Process
<1>3. MaxStarts \in Nat
  OBVIOUS
<1>. QED
  BY <1>1, <1>2, <1>3 DEF Numbers

\* Some processes end.
LEMMA EndedOnes ==
  ASSUME TypeOK, NEW dying, procs' = Without(dying)
  PROVE  /\ procs' \in Seq(Process)
         /\ Len(procs') = Len(procs)
         /\ DOMAIN procs' = DOMAIN procs
         /\ \A i \in DOMAIN procs :
               /\ procs'[i].script = procs[i].script
               /\ procs'[i].by = procs[i].by
               /\ procs'[i].alive = (procs[i].alive /\ i \notin dying)
               /\ procs'[i].age = IF i \in dying /\ procs[i].alive THEN 0
                                                          ELSE procs[i].age
<1>1. procs \in Seq(Process) /\ Len(procs) \in Nat
      /\ DOMAIN procs = 1 .. Len(procs)
  BY ProcsDomain
<1>2. \A i \in DOMAIN procs : procs[i] \in Process /\ Ended(procs[i]) \in Process
  <2>1. ASSUME NEW p \in Process PROVE Ended(p) \in Process
    <3>1. PICK q : q = [p EXCEPT !.alive = FALSE]
      OBVIOUS
    <3>2. q \in Process
      BY <3>1 DEF Process
    <3>3. [q EXCEPT !.age = 0] \in Process
      BY <3>2, Bounds DEF Process
    <3>4. Ended(p) = [q EXCEPT !.age = 0]
      BY <3>1 DEF Process, Ended
    <3>. QED
      BY <3>3, <3>4
  <2>. QED
    BY <1>1, <2>1
<1>3. procs' = [i \in 1 .. Len(procs) |->
                  IF i \in dying \cap Alive THEN Ended(procs[i]) ELSE procs[i]]
  BY <1>1 DEF Without
<1>4. /\ procs' \in Seq(Process) /\ Len(procs') = Len(procs)
      /\ DOMAIN procs' = DOMAIN procs
  BY <1>1, <1>2, <1>3
<1>5. ASSUME NEW i \in DOMAIN procs
      PROVE  /\ procs'[i].script = procs[i].script
             /\ procs'[i].by = procs[i].by
             /\ procs'[i].alive = (procs[i].alive /\ i \notin dying)
             /\ procs'[i].age = IF i \in dying /\ procs[i].alive THEN 0
                                                          ELSE procs[i].age
  <2>1. procs[i] \in Process
    BY <1>2
  <2>2. CASE i \in dying /\ procs[i].alive
    <3>1. procs'[i] = Ended(procs[i])
      BY <1>1, <1>3, <2>2 DEF Alive
    <3>. QED
      BY <3>1, <2>1, <2>2 DEF Ended, Process
  <2>3. CASE ~(i \in dying /\ procs[i].alive)
    <3>1. procs'[i] = procs[i]
      BY <1>1, <1>3, <2>3 DEF Alive
    <3>. QED
      BY <3>1, <2>1, <2>3 DEF Process
  <2>. QED
    BY <2>2, <2>3
<1>. QED
  BY <1>4, <1>5

\* All get older.
LEMMA AgedOnes ==
  ASSUME TypeOK,
         procs' = [i \in DOMAIN procs |-> [procs[i] EXCEPT !.age = Older(@)]]
  PROVE  /\ procs' \in Seq(Process)
         /\ Len(procs') = Len(procs)
         /\ DOMAIN procs' = DOMAIN procs
         /\ \A i \in DOMAIN procs :
               /\ procs'[i].script = procs[i].script
               /\ procs'[i].by = procs[i].by
               /\ procs'[i].alive = procs[i].alive
               /\ procs'[i].age <= procs[i].age + 1
               /\ procs'[i].age \in 0 .. Horizon
<1>1. procs \in Seq(Process) /\ Len(procs) \in Nat
      /\ DOMAIN procs = 1 .. Len(procs)
  BY ProcsDomain
<1>2. \A n \in 0 .. Horizon : Older(n) \in 0 .. Horizon /\ Older(n) <= n + 1
  BY WebAssumption DEF Older
<1>3. \A i \in DOMAIN procs :
         /\ procs[i] \in Process
         /\ procs'[i] = [procs[i] EXCEPT !.age = Older(procs[i].age)]
  BY <1>1
<1>4. ASSUME NEW i \in DOMAIN procs
      PROVE  /\ procs'[i] \in Process
             /\ procs'[i].script = procs[i].script
             /\ procs'[i].by = procs[i].by
             /\ procs'[i].alive = procs[i].alive
             /\ procs'[i].age <= procs[i].age + 1
             /\ procs'[i].age \in 0 .. Horizon
  BY <1>2, <1>3 DEF Process
<1>5. procs' \in Seq(Process) /\ Len(procs') = Len(procs)
  <2>1. procs' = [i \in 1 .. Len(procs) |-> procs'[i]]
    BY <1>1
  <2>2. \A i \in 1 .. Len(procs) : procs'[i] \in Process
    BY <1>1, <1>4
  <2>. QED
    BY <1>1, <2>1, <2>2
<1>. QED
  BY <1>1, <1>4, <1>5

-----------------------------------------------------------------------------
(* Lists and tasks                                                         *)

LEMMA NoCacheType == NoCache \in List /\ NoCache.found = {}
  BY Bounds DEF NoCache, List

LEMMA IdleType == /\ Idle \in Task
                  /\ Idle.do = "idle" /\ Idle.script = None
                  /\ Idle.left = {} /\ Idle.upTo = 0
  BY Bounds DEF Idle, Task

\* What a page takes to be running: its list, or a new one, which is right.
LEMMA LookFacts ==
  ASSUME TypeOK, Known, Lists, NEW s \in Sessions
  PROVE  /\ Look(s) \in List
         /\ Look(s) # NoCache
         /\ Look(s).age \in 0 .. TTL
         /\ Look(s).found \subseteq DOMAIN procs
         /\ \A i \in DOMAIN procs :
               (i \in Look(s).found) # procs[i].alive =>
                   procs[i].age <= Look(s).age
         /\ cache[s] # NoCache => Look(s) = cache[s]
         /\ cache[s] = NoCache => Look(s).found = Alive
<1>. USE Bounds
<1>1. Alive \subseteq DOMAIN procs /\ DOMAIN procs \subseteq Numbers
  BY ProcsDomain DEF Alive, Known, Numbers
<1>2. CASE cache[s] # NoCache
  <2>1. Look(s) = cache[s]
    BY <1>2 DEF Look
  <2>. QED
    BY <1>2, <2>1 DEF TypeOK, Known, Lists
<1>3. CASE cache[s] = NoCache
  <2>1. Look(s) = [age |-> 0, found |-> Alive]
    BY <1>3 DEF Look, Scan
  <2>2. Look(s) \in List /\ Look(s) # NoCache
    BY <2>1, <1>1 DEF List, NoCache
  <2>3. \A i \in DOMAIN procs : ~((i \in Look(s).found) # procs[i].alive)
    BY <2>1, ProcessFields DEF Alive
  <2>. QED
    BY <2>1, <2>2, <2>3, <1>1, <1>3
<1>. QED
  BY <1>2, <1>3

-----------------------------------------------------------------------------
(* Each step keeps the invariant                                           *)

LEMMA InitHolds == Init => WebInv
<1>. SUFFICES ASSUME Init PROVE WebInv
  OBVIOUS
<1>. USE Bounds
<1>1. procs = << >> /\ DOMAIN procs = {} /\ Len(procs) = 0 /\ Alive = {}
  BY DEF Init, Alive
<1>2. /\ \A s \in Sessions : /\ cache[s] = NoCache /\ task[s] = Idle
                             /\ gone[s] = {}
      /\ \A s \in Sessions, k \in Scripts : managed[s][k] = 0
  BY DEF Init
<1>3. TypeOK
  <2>1. procs \in Seq(Process)
    BY <1>1
  <2>2. managed \in [Sessions -> [Scripts -> 0 .. MaxStarts]]
    BY DEF Init
  <2>3. cache \in [Sessions -> List] /\ task \in [Sessions -> Task]
    BY NoCacheType, IdleType DEF Init
  <2>4. gone \in [Sessions -> SUBSET Numbers]
    BY DEF Init
  <2>5. \A s \in Sessions : task[s].left \subseteq Of(task[s].script)
    BY <1>2, IdleType
  <2>. QED
    BY <2>1, <2>2, <2>3, <2>4, <2>5 DEF TypeOK
<1>4. Known
  BY <1>1, <1>2, NoCacheType, IdleType DEF Known
<1>5. Lists /\ OwnFound /\ StoppedGone
  BY <1>1, <1>2, NoCacheType DEF Lists, OwnFound, StoppedGone
<1>6. StopsGoOn /\ StartsNamed /\ RivalsAreYoung
  BY <1>1, <1>2, IdleType DEF StopsGoOn, StartsNamed, RivalsAreYoung
<1>. QED
  BY <1>3, <1>4, <1>5, <1>6 DEF WebInv

LEMMA DrawKeeps ==
  ASSUME WebInv, NEW s \in Sessions, Draw(s)
  PROVE  WebInv'
<1>0. /\ cache' = [cache EXCEPT ![s] = Look(s)]
      /\ UNCHANGED <<procs, managed, task, gone>>
  BY DEF Draw
<1>1. /\ \A t \in Sessions \ {s} : cache'[t] = cache[t]
      /\ cache'[s] = Look(s)
      /\ cache' \in [Sessions -> List]
  BY <1>0, LookFacts DEF WebInv, TypeOK
<1>2. TypeOK'
  BY <1>0, <1>1 DEF WebInv, TypeOK, Of
<1>3. Known'
  BY <1>0, <1>1, LookFacts DEF WebInv, Known
<1>4. Lists'
  BY <1>0, <1>1, LookFacts DEF WebInv, Lists
<1>5. OwnFound' /\ StoppedGone'
  BY <1>0, <1>1, LookFacts DEF WebInv, OwnFound, StoppedGone, Alive
<1>6. StopsGoOn' /\ StartsNamed' /\ RivalsAreYoung'
  BY <1>0 DEF WebInv, StopsGoOn, StartsNamed, RivalsAreYoung, Alive, Of
<1>. QED
  BY <1>2, <1>3, <1>4, <1>5, <1>6 DEF WebInv
LEMMA DecideKeeps ==
  ASSUME WebInv, NEW s \in Sessions, NEW k \in Scripts, Decide(s, k)
  PROVE  WebInv'
<1>. USE Bounds
<1>0. /\ Counted(s, k) = {}
      /\ cache' = [cache EXCEPT ![s] = Look(s)]
      /\ task' = [task EXCEPT ![s] = [Idle EXCEPT !.do = "start", !.script = k]]
      /\ UNCHANGED <<procs, managed, gone>>
  BY DEF Decide
<1>1. /\ \A t \in Sessions \ {s} : cache'[t] = cache[t]
      /\ cache'[s] = Look(s)
      /\ cache' \in [Sessions -> List]
  BY <1>0, LookFacts DEF WebInv, TypeOK
<1>2. PICK new : new = [Idle EXCEPT !.do = "start", !.script = k]
  OBVIOUS
<1>3. new = [do |-> "start", script |-> k, todo |-> {}, left |-> {},
             upTo |-> 0, age |-> 0]
  BY <1>2 DEF Idle
<1>4. /\ new \in Task
      /\ new.do = "start" /\ new.script = k /\ new.left = {}
      /\ new.upTo = 0 /\ new.age = 0
  BY <1>3 DEF Task
<1>5. /\ \A t \in Sessions \ {s} : task'[t] = task[t]
      /\ task'[s] = new
      /\ task' \in [Sessions -> Task]
  BY <1>0, <1>2, <1>4 DEF WebInv, TypeOK
<1>6. TypeOK'
  BY <1>0, <1>1, <1>4, <1>5 DEF WebInv, TypeOK, Of
<1>7. Known'
  <2>1. Len(procs) \in Nat /\ Look(s).found \subseteq DOMAIN procs
    BY LookFacts, ProcsDomain DEF WebInv
  <2>2. \A t \in Sessions : cache'[t].found \subseteq DOMAIN procs
    BY <2>1, <1>1 DEF WebInv, Known
  <2>3. \A t \in Sessions : task'[t].left \subseteq DOMAIN procs
                           /\ task'[t].upTo <= Len(procs)
    BY <2>1, <1>4, <1>5 DEF WebInv, Known
  <2>. QED
    BY <2>2, <2>3, <1>0 DEF WebInv, Known
<1>8. Lists'
  BY <1>0, <1>1, LookFacts DEF WebInv, Lists
<1>9. OwnFound' /\ StoppedGone'
  BY <1>0, <1>1, LookFacts DEF WebInv, OwnFound, StoppedGone, Alive
<1>10. StopsGoOn' /\ StartsNamed'
  BY <1>0, <1>3, <1>5 DEF WebInv, StopsGoOn, StartsNamed, Alive, Of
<1>11. RivalsAreYoung'
  <2>1. ASSUME NEW i \in Alive \cap Of(k)
        PROVE  procs[i].by # s /\ procs[i].age <= TTL
    <3>1. /\ i \in DOMAIN procs /\ procs[i].alive /\ procs[i].script = k
          /\ procs[i].age \in 0 .. Horizon
      BY ProcessFields DEF Alive, Of, WebInv
    <3>2. i # managed[s][k] /\ i \notin Look(s).found
      BY <1>0, <2>1 DEF Counted, Own, Matching
    <3>3. Look(s).age \in 0 .. TTL /\ procs[i].age <= Look(s).age
      BY <3>1, <3>2, LookFacts DEF WebInv
    <3>4. cache[s] # NoCache /\ i \notin cache[s].found
      BY <3>2, LookFacts DEF WebInv
    <3>5. procs[i].by # s
      BY <3>1, <3>2, <3>4 DEF WebInv, OwnFound
    <3>. QED
      BY <3>1, <3>3, <3>5
  <2>. SUFFICES ASSUME NEW t \in Sessions, task'[t].do = "start",
                       NEW i \in DOMAIN procs, procs[i].alive,
                       procs[i].script = task'[t].script
                PROVE  procs[i].by # t /\ procs[i].age <= TTL + task'[t].age
    BY <1>0 DEF RivalsAreYoung, Alive, Of
  <2>2. CASE t = s
    BY <2>1, <2>2, <1>4, <1>5 DEF Alive, Of
  <2>3. CASE t # s
    BY <2>3, <1>5 DEF WebInv, RivalsAreYoung, Alive, Of
  <2>. QED
    BY <2>2, <2>3
<1>. QED
  BY <1>6, <1>7, <1>8, <1>9, <1>10, <1>11 DEF WebInv

\* The number of a new process is new to everyone.
LEMMA NewAlive ==
  ASSUME WebInv, Len(procs) < MaxStarts,
         NEW k \in Scripts, NEW by \in Sessions \cup {None},
         procs' = Append(procs, New(k, by))
  PROVE  /\ Alive' = Alive \cup {Len(procs) + 1}
         /\ \A s \in Sessions : Len(procs) + 1 > task[s].upTo
         /\ procs'[Len(procs) + 1].by = by
         /\ procs'[Len(procs) + 1].script = k
         /\ procs'[Len(procs) + 1].age = 0
         /\ procs'[Len(procs) + 1].alive
<1>. USE Bounds
<1>1. /\ DOMAIN procs' = DOMAIN procs \cup {Len(procs) + 1}
      /\ \A i \in DOMAIN procs : procs'[i] = procs[i]
      /\ procs'[Len(procs) + 1] = New(k, by)
      /\ Len(procs) + 1 \notin DOMAIN procs
  BY Started DEF WebInv
<1>2. New(k, by).alive /\ New(k, by).script = k /\ New(k, by).age = 0
      /\ New(k, by).by = by
  BY DEF New
<1>3. \A s \in Sessions : Len(procs) + 1 > task[s].upTo
  BY ProcsDomain DEF WebInv, Known, TypeOK, Task
<1>4. Alive' = Alive \cup {Len(procs) + 1}
  BY <1>1, <1>2 DEF Alive
<1>. QED
  BY <1>1, <1>2, <1>3, <1>4

\* Someone else starts a process: a page is right not to know of it.
LEMMA OtherStarts ==
  ASSUME WebInv, Len(procs) < MaxStarts, NEW k \in Scripts,
         procs' = Append(procs, New(k, None)),
         UNCHANGED <<managed, cache, gone>>,
         task' \in [Sessions -> Task],
         \A s \in Sessions : task'[s] = task[s] \/ task'[s] = Idle
  PROVE  WebInv'
<1>. USE Bounds
<1>. DEFINE n == Len(procs) + 1
<1>1. /\ procs' \in Seq(Process)
      /\ Len(procs') = n
      /\ DOMAIN procs' = DOMAIN procs \cup {n}
      /\ \A i \in DOMAIN procs : procs'[i] = procs[i]
      /\ n \notin DOMAIN procs /\ n \in Numbers
      /\ Len(procs) \in Nat
  BY Started, ProcsDomain DEF WebInv
<1>2. /\ Alive' = Alive \cup {n}
      /\ \A s \in Sessions : n > task[s].upTo
      /\ procs'[n].by = None /\ procs'[n].age = 0
  BY NewAlive
<1>3. \A s \in Sessions :
         /\ cache'[s] = cache[s] /\ gone'[s] = gone[s]
         /\ cache[s].found \subseteq DOMAIN procs
         /\ gone[s] \subseteq DOMAIN procs
  BY DEF WebInv, Known
<1>4. None \notin Sessions
  BY WebAssumption
<1>5. Alive \subseteq DOMAIN procs
  BY DEF Alive
<1>. HIDE DEF n
<1>6. TypeOK'
  <2>1. ASSUME NEW s \in Sessions, NEW i \in task'[s].left
        PROVE  i \in DOMAIN procs' /\ procs'[i].script = task'[s].script
    <3>1. task'[s] = task[s]
      BY IdleType
    <3>2. i \in DOMAIN procs /\ procs[i].script = task[s].script
      BY <3>1 DEF WebInv, TypeOK, Of
    <3>. QED
      BY <3>1, <3>2, <1>1
  <2>2. \A s \in Sessions : task'[s].left \subseteq Of(task[s].script)'
    BY <2>1 DEF Of
  <2>3. managed' = managed /\ cache' = cache /\ gone' = gone
    OBVIOUS
  <2>. QED
    BY <1>1, <2>2, <2>3 DEF WebInv, TypeOK
<1>7. Known'
  <2>1. Len(procs') <= MaxStarts
    BY <1>1 DEF n
  <2>2. \A s \in Sessions : \A c \in Scripts : managed[s][c] <= Len(procs')
    BY <1>1 DEF n, WebInv, Known, TypeOK
  <2>3. \A s \in Sessions : task'[s].left \subseteq DOMAIN procs'
    BY <1>1, IdleType DEF WebInv, Known
  <2>4. ASSUME NEW s \in Sessions PROVE task'[s].upTo <= Len(procs')
    <3>1. task[s].upTo \in 0 .. MaxStarts /\ task[s].upTo <= Len(procs)
      BY DEF WebInv, Known, TypeOK, Task
    <3>. QED
      BY <3>1, <1>1, IdleType DEF n
  <2>. QED
    BY <1>1, <1>3, <2>1, <2>2, <2>3, <2>4 DEF Known
<1>8. Lists'
  <2>. SUFFICES ASSUME NEW s \in Sessions, cache[s] # NoCache,
                       NEW i \in DOMAIN procs',
                       (i \in cache[s].found) # procs'[i].alive
                PROVE  procs'[i].age <= cache[s].age
    BY <1>3 DEF Lists, WebInv
  <2>1. cache[s].age \in 0 .. TTL
    BY DEF WebInv, Lists
  <2>2. CASE i = n
    BY <2>1, <2>2, <1>2
  <2>3. CASE i # n
    BY <2>3, <1>1 DEF WebInv, Lists
  <2>. QED
    BY <2>2, <2>3
<1>9. OwnFound'
  BY <1>1, <1>2, <1>3, <1>4 DEF WebInv, OwnFound
<1>10. StoppedGone'
  BY <1>1, <1>2, <1>3 DEF WebInv, StoppedGone
<1>11. StopsGoOn'
  <2>. SUFFICES ASSUME NEW s \in Sessions,
                       task'[s].do = "stop", task'[s].script # None,
                       NEW i \in DOMAIN procs', procs'[i].alive,
                       procs'[i].script = task'[s].script, i <= task'[s].upTo
                PROVE  i \in task'[s].left
    BY DEF StopsGoOn, Alive, Of
  <2>1. task'[s] = task[s]
    BY IdleType
  <2>2. i # n
    BY <2>1, <1>1, <1>2 DEF n, WebInv, TypeOK, Task
  <2>. QED
    BY <2>1, <2>2, <1>1 DEF WebInv, StopsGoOn, Alive, Of
<1>12. StartsNamed'
  BY IdleType DEF WebInv, StartsNamed
<1>13. RivalsAreYoung'
  <2>. SUFFICES ASSUME NEW s \in Sessions, task'[s].do = "start",
                       NEW i \in DOMAIN procs', procs'[i].alive,
                       procs'[i].script = task'[s].script
                PROVE  procs'[i].by # s /\ procs'[i].age <= TTL + task'[s].age
    BY DEF RivalsAreYoung, Alive, Of
  <2>1. task'[s] = task[s]
    BY IdleType
  <2>2. task[s].age \in 0 .. MaxPause
    BY DEF WebInv, TypeOK, Task
  <2>3. CASE i = n
    BY <2>1, <2>2, <2>3, <1>2, <1>4
  <2>4. CASE i # n
    <3>1. i \in Alive \cap Of(task[s].script) /\ procs'[i] = procs[i]
      BY <2>1, <2>4, <1>1 DEF Alive, Of
    <3>. QED
      BY <3>1, <2>1 DEF WebInv, RivalsAreYoung
  <2>. QED
    BY <2>3, <2>4
<1>. QED
  BY <1>6, <1>7, <1>8, <1>9, <1>10, <1>11, <1>12, <1>13 DEF WebInv

LEMMA LaunchUnnotedKeeps ==
  ASSUME WebInv, NEW s \in Sessions, LaunchUnnoted(s)
  PROVE  WebInv'
<1>1. task[s].script \in Scripts
  BY DEF LaunchUnnoted, WebInv, StartsNamed
<1>2. /\ task' \in [Sessions -> Task]
      /\ \A t \in Sessions : task'[t] = task[t] \/ task'[t] = Idle
  BY IdleType DEF LaunchUnnoted, WebInv, TypeOK
<1>. QED
  BY <1>1, <1>2, OtherStarts DEF LaunchUnnoted

LEMMA StartElsewhereKeeps ==
  ASSUME WebInv, NEW k \in Scripts, StartElsewhere(k)
  PROVE  WebInv'
<1>1. /\ task' \in [Sessions -> Task]
      /\ \A t \in Sessions : task'[t] = task[t]
  BY DEF StartElsewhere, WebInv, TypeOK
<1>. QED
  BY <1>1, OtherStarts DEF StartElsewhere

LEMMA LaunchKeeps ==
  ASSUME WebInv, NEW s \in Sessions, Launch(s)
  PROVE  WebInv'
<1>. USE Bounds
<1>. DEFINE n == Len(procs) + 1
            k == task[s].script
<1>0. /\ Len(procs) < MaxStarts
      /\ procs' = Append(procs, New(k, s))
      /\ managed' = [managed EXCEPT ![s][k] = n]
      /\ cache' = [cache EXCEPT ![s] = NoCache]
      /\ task' = [task EXCEPT ![s] = Idle]
      /\ UNCHANGED gone
  BY DEF Launch
<1>k. k \in Scripts
  BY DEF Launch, WebInv, StartsNamed
<1>1. /\ procs' \in Seq(Process)
      /\ Len(procs') = n
      /\ DOMAIN procs' = DOMAIN procs \cup {n}
      /\ \A i \in DOMAIN procs : procs'[i] = procs[i]
      /\ n \notin DOMAIN procs /\ n \in Numbers
      /\ Len(procs) \in Nat
  BY <1>0, <1>k, Started, ProcsDomain DEF WebInv
<1>2. /\ Alive' = Alive \cup {n}
      /\ \A t \in Sessions : n > task[t].upTo
      /\ procs'[n].by = s /\ procs'[n].script = k /\ procs'[n].age = 0
  BY <1>0, <1>k, NewAlive
<1>3. /\ cache' \in [Sessions -> List] /\ cache'[s] = NoCache
      /\ \A t \in Sessions \ {s} : cache'[t] = cache[t]
  BY <1>0, NoCacheType DEF WebInv, TypeOK
<1>4. /\ task' \in [Sessions -> Task] /\ task'[s] = Idle
      /\ \A t \in Sessions \ {s} : task'[t] = task[t]
  BY <1>0, IdleType DEF WebInv, TypeOK
<1>5. /\ managed' \in [Sessions -> [Scripts -> 0 .. MaxStarts]]
      /\ managed'[s][k] = n
      /\ \A t \in Sessions, c \in Scripts :
            t # s \/ c # k => managed'[t][c] = managed[t][c]
  <2>1. n \in 0 .. MaxStarts
    BY <1>1 DEF Numbers
  <2>2. managed \in [Sessions -> [Scripts -> 0 .. MaxStarts]]
    BY DEF WebInv, TypeOK
  <2>. QED
    BY <2>1, <2>2, <1>0, <1>k
<1>6. Alive \subseteq DOMAIN procs
  BY DEF Alive
<1>7. \A t \in Sessions : gone[t] \subseteq DOMAIN procs
                       /\ cache[t].found \subseteq DOMAIN procs
  BY DEF WebInv, Known
<1>. HIDE DEF n, k
<1>8. TypeOK'
  <2>1. ASSUME NEW t \in Sessions, NEW i \in task'[t].left
        PROVE  i \in DOMAIN procs' /\ procs'[i].script = task'[t].script
    <3>1. task'[t] = task[t]
      BY <1>4, IdleType
    <3>2. i \in DOMAIN procs /\ procs[i].script = task[t].script
      BY <3>1 DEF WebInv, TypeOK, Of
    <3>. QED
      BY <3>1, <3>2, <1>1
  <2>2. \A t \in Sessions : task'[t].left \subseteq Of(task[t].script)'
    BY <2>1 DEF Of
  <2>. QED
    BY <1>0, <1>1, <1>3, <1>4, <1>5, <2>2 DEF WebInv, TypeOK
<1>9. Known'
  <2>1. Len(procs') <= MaxStarts
    BY <1>0, <1>1 DEF n
  <2>2. ASSUME NEW t \in Sessions, NEW c \in Scripts
        PROVE  managed'[t][c] <= Len(procs')
    <3>1. managed[t][c] \in 0 .. MaxStarts /\ managed[t][c] <= Len(procs)
      BY DEF WebInv, Known, TypeOK
    <3>. QED
      BY <3>1, <1>1, <1>5 DEF n
  <2>3. \A t \in Sessions : task'[t].left \subseteq DOMAIN procs'
    BY <1>1, <1>4, IdleType DEF WebInv, Known
  <2>4. ASSUME NEW t \in Sessions PROVE task'[t].upTo <= Len(procs')
    <3>1. task[t].upTo \in 0 .. MaxStarts /\ task[t].upTo <= Len(procs)
      BY DEF WebInv, Known, TypeOK, Task
    <3>. QED
      BY <3>1, <1>1, <1>4, IdleType DEF n
  <2>5. \A t \in Sessions : cache'[t].found \subseteq DOMAIN procs'
    BY <1>1, <1>3, <1>7, NoCacheType
  <2>6. \A t \in Sessions : gone'[t] \subseteq DOMAIN procs'
    BY <1>0, <1>1, <1>7
  <2>. QED
    BY <2>1, <2>2, <2>3, <2>4, <2>5, <2>6 DEF Known
<1>10. Lists'
  <2>. SUFFICES ASSUME NEW t \in Sessions, cache'[t] # NoCache
                PROVE  /\ cache'[t].age \in 0 .. TTL
                       /\ \A i \in DOMAIN procs' :
                            (i \in cache'[t].found) # procs'[i].alive =>
                                procs'[i].age <= cache'[t].age
    BY DEF Lists
  <2>1. cache'[t] = cache[t] /\ cache[t] # NoCache
    BY <1>3
  <2>2. cache[t].age \in 0 .. TTL
    BY <2>1 DEF WebInv, Lists
  <2>. QED
    BY <2>1, <2>2, <1>1, <1>2 DEF WebInv, Lists
<1>11. OwnFound'
  <2>. SUFFICES ASSUME NEW t \in Sessions, NEW i \in DOMAIN procs',
                       procs'[i].alive, procs'[i].by = t
                PROVE  \/ managed'[t][procs'[i].script] = i
                       \/ cache'[t] = NoCache
                       \/ i \in cache'[t].found
    BY DEF OwnFound
  <2>1. CASE t = s
    BY <2>1, <1>3
  <2>2. CASE t # s
    <3>1. i \in DOMAIN procs /\ procs'[i] = procs[i]
      BY <2>2, <1>1, <1>2
    <3>2. procs[i].script \in Scripts
      BY <3>1, ProcessFields DEF WebInv
    <3>. QED
      BY <2>2, <3>1, <3>2, <1>3, <1>5 DEF WebInv, OwnFound
  <2>. QED
    BY <2>1, <2>2
<1>12. StoppedGone'
  BY <1>0, <1>1, <1>2, <1>3, <1>7, NoCacheType DEF WebInv, StoppedGone
<1>13. StopsGoOn'
  <2>. SUFFICES ASSUME NEW t \in Sessions,
                       task'[t].do = "stop", task'[t].script # None,
                       NEW i \in DOMAIN procs', procs'[i].alive,
                       procs'[i].script = task'[t].script, i <= task'[t].upTo
                PROVE  i \in task'[t].left
    BY DEF StopsGoOn, Alive, Of
  <2>1. task'[t] = task[t]
    BY <1>4, IdleType
  <2>2. i # n
    BY <2>1, <1>1, <1>2 DEF n, WebInv, TypeOK, Task
  <2>. QED
    BY <2>1, <2>2, <1>1 DEF WebInv, StopsGoOn, Alive, Of
<1>14. StartsNamed'
  BY <1>4, IdleType DEF WebInv, StartsNamed
<1>15. RivalsAreYoung'
  <2>. SUFFICES ASSUME NEW t \in Sessions, task'[t].do = "start",
                       NEW i \in DOMAIN procs', procs'[i].alive,
                       procs'[i].script = task'[t].script
                PROVE  procs'[i].by # t /\ procs'[i].age <= TTL + task'[t].age
    BY DEF RivalsAreYoung, Alive, Of
  <2>1. t # s /\ task'[t] = task[t]
    BY <1>4, IdleType
  <2>2. task[t].age \in 0 .. MaxPause
    BY DEF WebInv, TypeOK, Task
  <2>3. CASE i = n
    BY <2>1, <2>2, <2>3, <1>2
  <2>4. CASE i # n
    <3>1. i \in Alive \cap Of(task[t].script) /\ procs'[i] = procs[i]
      BY <2>1, <2>4, <1>1 DEF Alive, Of
    <3>. QED
      BY <3>1, <2>1 DEF WebInv, RivalsAreYoung
  <2>. QED
    BY <2>3, <2>4
<1>. QED
  BY <1>8, <1>9, <1>10, <1>11, <1>12, <1>13, <1>14, <1>15 DEF WebInv

\* Processes end: a list that is kept is wrong about them from now on.
LEMMA EndKeeps ==
  ASSUME WebInv, NEW dying, procs' = Without(dying),
         UNCHANGED <<managed, cache, gone>>,
         task' \in [Sessions -> Task],
         \A s \in Sessions :
            \/ task'[s] = task[s]
            \/ /\ task'[s].do = "stop" /\ task'[s].script = None
               /\ task'[s].left = {} /\ task'[s].upTo = 0
            \/ /\ task'[s].do = task[s].do
               /\ task'[s].script = task[s].script
               /\ task'[s].upTo = task[s].upTo
               /\ task'[s].age = task[s].age
               /\ task[s].left \ dying \subseteq task'[s].left
               /\ task'[s].left \subseteq task[s].left
  PROVE  WebInv'
<1>. USE Bounds
<1>1. /\ procs' \in Seq(Process)
      /\ Len(procs') = Len(procs)
      /\ Len(procs) \in Nat
      /\ DOMAIN procs' = DOMAIN procs
      /\ \A i \in DOMAIN procs :
            /\ procs'[i].script = procs[i].script
            /\ procs'[i].by = procs[i].by
            /\ procs'[i].alive = (procs[i].alive /\ i \notin dying)
            /\ procs'[i].age = IF i \in dying /\ procs[i].alive THEN 0
                                                       ELSE procs[i].age
  BY EndedOnes, ProcsDomain DEF WebInv
<1>2. managed' = managed /\ cache' = cache /\ gone' = gone
  OBVIOUS
<1>3. \A i \in DOMAIN procs : procs[i].alive \in BOOLEAN
  BY ProcessFields DEF WebInv
<1>4. Alive' \subseteq Alive
  BY <1>1, <1>3 DEF Alive
<1>5. TypeOK'
  <2>1. ASSUME NEW s \in Sessions, NEW i \in task'[s].left
        PROVE  i \in DOMAIN procs' /\ procs'[i].script = task'[s].script
    <3>1. i \in task[s].left /\ task'[s].script = task[s].script
      OBVIOUS
    <3>2. i \in DOMAIN procs /\ procs[i].script = task[s].script
      BY <3>1 DEF WebInv, TypeOK, Of
    <3>. QED
      BY <3>1, <3>2, <1>1
  <2>2. \A s \in Sessions : task'[s].left \subseteq Of(task[s].script)'
    BY <2>1 DEF Of
  <2>. QED
    BY <1>1, <1>2, <2>2 DEF WebInv, TypeOK
<1>6. Known'
  <2>1. \A s \in Sessions : /\ task'[s].left \subseteq DOMAIN procs
                            /\ task'[s].upTo <= Len(procs)
    BY <1>1 DEF WebInv, Known
  <2>. QED
    BY <1>1, <1>2, <2>1 DEF WebInv, Known
<1>7. Lists'
  <2>. SUFFICES ASSUME NEW s \in Sessions, cache[s] # NoCache,
                       NEW i \in DOMAIN procs,
                       (i \in cache[s].found) # procs'[i].alive
                PROVE  procs'[i].age <= cache[s].age
    BY <1>1, <1>2 DEF WebInv, Lists
  <2>1. cache[s].age \in 0 .. TTL
    BY DEF WebInv, Lists
  <2>2. CASE i \in dying /\ procs[i].alive
    BY <2>1, <2>2, <1>1
  <2>3. CASE ~(i \in dying /\ procs[i].alive)
    <3>1. procs'[i].alive = procs[i].alive /\ procs'[i].age = procs[i].age
      BY <2>3, <1>1, <1>3
    <3>. QED
      BY <3>1 DEF WebInv, Lists
  <2>. QED
    BY <2>2, <2>3
<1>8. OwnFound'
  BY <1>1, <1>2, <1>3 DEF WebInv, OwnFound
<1>9. StoppedGone'
  BY <1>2, <1>4 DEF WebInv, StoppedGone
<1>10. StopsGoOn'
  <2>. SUFFICES ASSUME NEW s \in Sessions,
                       task'[s].do = "stop", task'[s].script # None,
                       NEW i \in DOMAIN procs', procs'[i].alive,
                       procs'[i].script = task'[s].script, i <= task'[s].upTo
                PROVE  i \in task'[s].left
    BY DEF StopsGoOn, Alive, Of
  <2>1. procs[i].alive /\ i \notin dying /\ procs[i].script = task[s].script
        /\ i \in DOMAIN procs
    BY <1>1, <1>3
  <2>2. i \in task[s].left
    BY <2>1 DEF WebInv, StopsGoOn, Alive, Of
  <2>. QED
    BY <2>1, <2>2
<1>11. StartsNamed'
  BY DEF WebInv, StartsNamed
<1>12. RivalsAreYoung'
  <2>. SUFFICES ASSUME NEW s \in Sessions, task'[s].do = "start",
                       NEW i \in DOMAIN procs', procs'[i].alive,
                       procs'[i].script = task'[s].script
                PROVE  procs'[i].by # s /\ procs'[i].age <= TTL + task'[s].age
    BY DEF RivalsAreYoung, Alive, Of
  <2>1. i \in Alive \cap Of(task[s].script) /\ task[s].do = "start"
        /\ task'[s].age = task[s].age
    BY <1>1, <1>3 DEF Alive, Of
  <2>2. procs'[i].by = procs[i].by /\ procs'[i].age = procs[i].age
    BY <1>1, <1>3
  <2>. QED
    BY <2>1, <2>2 DEF WebInv, RivalsAreYoung
<1>. QED
  BY <1>5, <1>6, <1>7, <1>8, <1>9, <1>10, <1>11, <1>12 DEF WebInv

LEMMA BeginStopKeeps ==
  ASSUME WebInv, NEW s \in Sessions, NEW scripts \in SUBSET Scripts,
         BeginStop(s, scripts)
  PROVE  WebInv'
<1>. USE Bounds
<1>1. PICK new : new = [Idle EXCEPT !.do = "stop", !.todo = scripts]
  OBVIOUS
<1>2. new = [do |-> "stop", script |-> None, todo |-> scripts, left |-> {},
             upTo |-> 0, age |-> 0]
  BY <1>1 DEF Idle
<1>3. /\ new \in Task
      /\ new.do = "stop" /\ new.script = None
      /\ new.left = {} /\ new.upTo = 0
  BY <1>2 DEF Task
<1>4. task' = [task EXCEPT ![s] = new]
  BY <1>1 DEF BeginStop
<1>5. /\ task' \in [Sessions -> Task] /\ task'[s] = new
      /\ \A t \in Sessions \ {s} : task'[t] = task[t]
  BY <1>3, <1>4 DEF WebInv, TypeOK
<1>6. PICK dying : dying = UNION {Own(s, k) : k \in scripts}
  OBVIOUS
<1>7. procs' = Without(dying) /\ UNCHANGED <<managed, cache, gone>>
  BY <1>6 DEF BeginStop
<1>. QED
  BY <1>3, <1>5, <1>7, EndKeeps

LEMMA TerminateKeeps ==
  ASSUME WebInv, NEW s \in Sessions, NEW i, Terminate(s, i)
  PROVE  WebInv'
<1>1. PICK new : new = [task[s] EXCEPT !.left = @ \ {i}]
  OBVIOUS
<1>2. task[s] \in Task
  BY DEF WebInv, TypeOK
<1>3. /\ new \in Task
      /\ new.do = task[s].do /\ new.script = task[s].script
      /\ new.upTo = task[s].upTo /\ new.age = task[s].age
      /\ new.left = task[s].left \ {i}
  BY <1>1, <1>2 DEF Task
<1>4. task' = [task EXCEPT ![s] = new]
  BY <1>1 DEF Terminate, WebInv, TypeOK
<1>5. /\ task' \in [Sessions -> Task] /\ task'[s] = new
      /\ \A t \in Sessions \ {s} : task'[t] = task[t]
  BY <1>3, <1>4 DEF WebInv, TypeOK
<1>6. procs' = Without({i}) /\ UNCHANGED <<managed, cache, gone>>
  BY DEF Terminate
<1>. QED
  BY <1>3, <1>5, <1>6, EndKeeps

LEMMA EndElsewhereKeeps ==
  ASSUME WebInv, NEW i, EndElsewhere(i)
  PROVE  WebInv'
<1>1. procs' = Without({i}) /\ UNCHANGED <<managed, cache, gone>>
  BY DEF EndElsewhere
<1>2. /\ task' \in [Sessions -> Task]
      /\ \A t \in Sessions : task'[t] = task[t]
  BY DEF EndElsewhere, WebInv, TypeOK
<1>. QED
  BY <1>1, <1>2, EndKeeps

\* What a stop has found is all that runs.
LEMMA ScanForStopKeeps ==
  ASSUME WebInv, NEW s \in Sessions, NEW k \in Scripts, ScanForStop(s, k)
  PROVE  WebInv'
<1>. USE Bounds
<1>1. PICK list : list = [age |-> 0, found |-> Alive]
  OBVIOUS
<1>2. /\ Alive \subseteq DOMAIN procs /\ DOMAIN procs \subseteq Numbers
      /\ Len(procs) \in 0 .. MaxStarts
  BY ProcsDomain DEF Alive, WebInv, Known, Numbers
<1>3. list \in List /\ list.age = 0 /\ list.found = Alive /\ list # NoCache
  BY <1>1, <1>2 DEF List, NoCache
<1>4. /\ cache' = [cache EXCEPT ![s] = list]
      /\ UNCHANGED <<procs, managed, gone>>
  BY <1>1 DEF ScanForStop, LookForStop, Scan
<1>5. /\ cache' \in [Sessions -> List] /\ cache'[s] = list
      /\ \A t \in Sessions \ {s} : cache'[t] = cache[t]
  BY <1>3, <1>4 DEF WebInv, TypeOK
<1>6. PICK new : new = [do |-> "stop", script |-> k,
                        todo |-> task[s].todo \ {k},
                        left |-> Alive \cap Of(k), upTo |-> Len(procs),
                        age |-> 0]
  OBVIOUS
<1>7. task[s].todo \subseteq Scripts
  BY DEF WebInv, TypeOK, Task
<1>8. /\ new \in Task
      /\ new.do = "stop" /\ new.script = k /\ new.upTo = Len(procs)
      /\ new.left = Alive \cap Of(k)
  BY <1>2, <1>6, <1>7 DEF Task
<1>9. task' = [task EXCEPT ![s] = new]
  BY <1>6 DEF ScanForStop, LookForStop, Scan, Matching, WebInv, TypeOK
<1>10. /\ task' \in [Sessions -> Task] /\ task'[s] = new
       /\ \A t \in Sessions \ {s} : task'[t] = task[t]
  BY <1>8, <1>9 DEF WebInv, TypeOK
<1>11. TypeOK'
  <2>1. ASSUME NEW t \in Sessions, NEW i \in task'[t].left
        PROVE  /\ i \in DOMAIN procs'
               /\ procs'[i].script = task'[t].script
    <3>1. CASE t = s
      BY <2>1, <3>1, <1>2, <1>4, <1>8, <1>10 DEF Of
    <3>2. CASE t # s
      BY <2>1, <3>2, <1>4, <1>10 DEF WebInv, TypeOK, Of
    <3>. QED
      BY <3>1, <3>2
  <2>2. \A t \in Sessions : task'[t].left \subseteq Of(task[t].script)'
    BY <2>1 DEF Of
  <2>. QED
    BY <1>4, <1>5, <1>10, <2>2 DEF WebInv, TypeOK
<1>12. Known'
  <2>1. \A t \in Sessions : /\ task'[t].left \subseteq DOMAIN procs
                            /\ task'[t].upTo <= Len(procs)
                            /\ cache'[t].found \subseteq DOMAIN procs
    BY <1>2, <1>3, <1>5, <1>8, <1>10 DEF WebInv, Known
  <2>. QED
    BY <1>4, <2>1 DEF WebInv, Known
<1>13. Lists'
  <2>1. \A i \in DOMAIN procs : ~((i \in list.found) # procs[i].alive)
    BY <1>3, ProcessFields DEF Alive, WebInv
  <2>. QED
    BY <1>3, <1>4, <1>5, <2>1 DEF WebInv, Lists
<1>14. OwnFound' /\ StoppedGone'
  BY <1>3, <1>4, <1>5 DEF WebInv, OwnFound, StoppedGone, Alive
<1>15. StopsGoOn'
  <2>. SUFFICES ASSUME NEW t \in Sessions,
                       task'[t].do = "stop", task'[t].script # None,
                       NEW i \in DOMAIN procs, procs[i].alive,
                       procs[i].script = task'[t].script, i <= task'[t].upTo
                PROVE  i \in task'[t].left
    BY <1>4 DEF StopsGoOn, Alive, Of
  <2>1. CASE t = s
    BY <2>1, <1>8, <1>10 DEF Alive, Of
  <2>2. CASE t # s
    BY <2>2, <1>10 DEF WebInv, StopsGoOn, Alive, Of
  <2>. QED
    BY <2>1, <2>2
<1>16. StartsNamed'
  BY <1>8, <1>10 DEF WebInv, StartsNamed
<1>17. RivalsAreYoung'
  BY <1>4, <1>8, <1>10 DEF WebInv, RivalsAreYoung, Alive, Of
<1>. QED
  BY <1>11, <1>12, <1>13, <1>14, <1>15, <1>16, <1>17 DEF WebInv

\* A stop that has gone through its list has left none of it alive.
LEMMA FinishStopKeeps ==
  ASSUME WebInv, NEW s \in Sessions, FinishStop(s)
  PROVE  WebInv'
<1>. USE Bounds
<1>1. /\ task[s].do = "stop" /\ task[s].left = {}
      /\ cache' = [cache EXCEPT ![s] = NoCache]
      /\ gone' = [gone EXCEPT ![s] = @ \cup (Of(task[s].script) \ Alive)]
      /\ UNCHANGED <<procs, managed>>
  BY DEF FinishStop, AfterStop
<1>2. /\ cache' \in [Sessions -> List] /\ cache'[s] = NoCache
      /\ \A t \in Sessions \ {s} : cache'[t] = cache[t]
  BY <1>1, NoCacheType DEF WebInv, TypeOK
<1>3. Of(task[s].script) \subseteq DOMAIN procs /\ DOMAIN procs \subseteq Numbers
  BY ProcsDomain DEF Of, WebInv, Known, Numbers
<1>4. /\ gone' \in [Sessions -> SUBSET Numbers]
      /\ gone'[s] = gone[s] \cup (Of(task[s].script) \ Alive)
      /\ \A t \in Sessions \ {s} : gone'[t] = gone[t]
  BY <1>1, <1>3 DEF WebInv, TypeOK
<1>5. PICK new : new = IF task[s].todo = {} THEN Idle
                       ELSE [task[s] EXCEPT !.script = None]
  OBVIOUS
<1>6. /\ new \in Task
      /\ new.do # "start" /\ new.script = None
      /\ new.left = {} /\ new.upTo <= Len(procs)
  <2>1. task[s] \in Task /\ task[s].upTo <= Len(procs) /\ Len(procs) \in Nat
    BY ProcsDomain DEF WebInv, TypeOK, Known
  <2>2. CASE task[s].todo = {}
    BY <2>1, <2>2, <1>5, IdleType
  <2>3. CASE task[s].todo # {}
    <3>1. new = [task[s] EXCEPT !.script = None]
      BY <2>3, <1>5
    <3>. QED
      BY <2>1, <3>1, <1>1 DEF Task
  <2>. QED
    BY <2>2, <2>3
<1>7. task' = [task EXCEPT ![s] = new]
  BY <1>5 DEF FinishStop, WebInv, TypeOK
<1>8. /\ task' \in [Sessions -> Task] /\ task'[s] = new
      /\ \A t \in Sessions \ {s} : task'[t] = task[t]
  BY <1>6, <1>7 DEF WebInv, TypeOK
<1>9. TypeOK'
  <2>1. ASSUME NEW t \in Sessions, NEW i \in task'[t].left
        PROVE  /\ i \in DOMAIN procs'
               /\ procs'[i].script = task'[t].script
    <3>1. t # s
      BY <2>1, <1>6, <1>8
    <3>. QED
      BY <2>1, <3>1, <1>1, <1>8 DEF WebInv, TypeOK, Of
  <2>2. \A t \in Sessions : task'[t].left \subseteq Of(task[t].script)'
    BY <2>1 DEF Of
  <2>. QED
    BY <1>1, <1>2, <1>4, <1>8, <2>2 DEF WebInv, TypeOK
<1>10. Known'
  <2>1. \A t \in Sessions : /\ task'[t].left \subseteq DOMAIN procs
                            /\ task'[t].upTo <= Len(procs)
                            /\ cache'[t].found \subseteq DOMAIN procs
                            /\ gone'[t] \subseteq DOMAIN procs
    BY <1>2, <1>3, <1>4, <1>6, <1>8, NoCacheType DEF WebInv, Known
  <2>. QED
    BY <1>1, <2>1 DEF WebInv, Known
<1>11. Lists' /\ OwnFound'
  BY <1>1, <1>2 DEF WebInv, Lists, OwnFound
<1>12. StoppedGone'
  BY <1>1, <1>2, <1>4, NoCacheType DEF WebInv, StoppedGone, Alive
<1>13. StopsGoOn' /\ StartsNamed'
  BY <1>1, <1>6, <1>8 DEF WebInv, StopsGoOn, StartsNamed, Alive, Of
<1>14. RivalsAreYoung'
  BY <1>1, <1>6, <1>8 DEF WebInv, RivalsAreYoung, Alive, Of
<1>. QED
  BY <1>9, <1>10, <1>11, <1>12, <1>13, <1>14 DEF WebInv

LEMMA AbandonKeeps ==
  ASSUME WebInv, NEW s \in Sessions, Abandon(s)
  PROVE  WebInv'
<1>. USE Bounds
<1>1. /\ UNCHANGED <<procs, managed, cache, gone>>
      /\ task' = [task EXCEPT ![s] = Idle]
  BY DEF Abandon
<1>2. /\ task' \in [Sessions -> Task] /\ task'[s] = Idle
      /\ \A t \in Sessions \ {s} : task'[t] = task[t]
  BY <1>1, IdleType DEF WebInv, TypeOK
<1>3. TypeOK'
  BY <1>1, <1>2, IdleType DEF WebInv, TypeOK, Of
<1>4. Known'
  BY <1>1, <1>2, IdleType, ProcsDomain DEF WebInv, Known
<1>5. Lists' /\ OwnFound' /\ StoppedGone'
  BY <1>1 DEF WebInv, Lists, OwnFound, StoppedGone, Alive
<1>6. StopsGoOn' /\ StartsNamed' /\ RivalsAreYoung'
  BY <1>1, <1>2, IdleType
     DEF WebInv, StopsGoOn, StartsNamed, RivalsAreYoung, Alive, Of
<1>. QED
  BY <1>3, <1>4, <1>5, <1>6 DEF WebInv

\* A new session has no list, so that it will find what the page had started.
LEMMA ReloadKeeps ==
  ASSUME WebInv, NEW s \in Sessions, Reload(s)
  PROVE  WebInv'
<1>. USE Bounds
<1>1. /\ managed' = [managed EXCEPT ![s] = [k \in Scripts |-> 0]]
      /\ cache' = [cache EXCEPT ![s] = NoCache]
      /\ gone' = [gone EXCEPT ![s] = {}]
      /\ UNCHANGED <<procs, task>>
  BY DEF Reload
<1>2. /\ managed' \in [Sessions -> [Scripts -> 0 .. MaxStarts]]
      /\ \A k \in Scripts : managed'[s][k] = 0
      /\ \A t \in Sessions \ {s} : managed'[t] = managed[t]
  BY <1>1 DEF WebInv, TypeOK
<1>3. /\ cache' \in [Sessions -> List] /\ cache'[s] = NoCache
      /\ \A t \in Sessions \ {s} : cache'[t] = cache[t]
  BY <1>1, NoCacheType DEF WebInv, TypeOK
<1>4. /\ gone' \in [Sessions -> SUBSET Numbers] /\ gone'[s] = {}
      /\ \A t \in Sessions \ {s} : gone'[t] = gone[t]
  BY <1>1 DEF WebInv, TypeOK
<1>5. TypeOK'
  BY <1>1, <1>2, <1>3, <1>4 DEF WebInv, TypeOK, Of
<1>6. Known'
  BY <1>1, <1>2, <1>3, <1>4, NoCacheType, ProcsDomain DEF WebInv, Known
<1>7. Lists'
  BY <1>1, <1>3 DEF WebInv, Lists
<1>8. OwnFound'
  BY <1>1, <1>2, <1>3 DEF WebInv, OwnFound
<1>9. StoppedGone'
  BY <1>1, <1>3, <1>4, NoCacheType DEF WebInv, StoppedGone, Alive
<1>10. StopsGoOn' /\ StartsNamed' /\ RivalsAreYoung'
  BY <1>1 DEF WebInv, StopsGoOn, StartsNamed, RivalsAreYoung, Alive, Of
<1>. QED
  BY <1>5, <1>6, <1>7, <1>8, <1>9, <1>10 DEF WebInv

\* Lists get older no faster than what they are wrong about.
LEMMA TickKeeps ==
  ASSUME WebInv, Tick
  PROVE  WebInv'
<1>. USE Bounds
<1>1. /\ procs' \in Seq(Process)
      /\ Len(procs') = Len(procs)
      /\ Len(procs) \in Nat
      /\ DOMAIN procs' = DOMAIN procs
      /\ \A i \in DOMAIN procs :
            /\ procs'[i].script = procs[i].script
            /\ procs'[i].by = procs[i].by
            /\ procs'[i].alive = procs[i].alive
            /\ procs'[i].age <= procs[i].age + 1
            /\ procs'[i].age \in 0 .. Horizon
            /\ procs[i].age \in 0 .. Horizon
  BY AgedOnes, ProcsDomain, ProcessFields DEF Tick, WebInv
<1>2. managed' = managed /\ gone' = gone
  BY DEF Tick
<1>3. ASSUME NEW s \in Sessions, cache'[s] # NoCache
      PROVE  /\ cache[s] # NoCache
             /\ cache[s].age \in 0 .. TTL
             /\ cache'[s].age = cache[s].age + 1
             /\ cache'[s].age \in 0 .. TTL
             /\ cache'[s].found = cache[s].found
             /\ cache'[s] \in List
  <2>1. /\ cache[s] # NoCache /\ ~Expired(cache[s])
        /\ cache'[s] = [cache[s] EXCEPT !.age = Older(@)]
    BY <1>3 DEF Tick
  <2>2. cache[s] \in List /\ cache[s].age \in 0 .. TTL
    BY <2>1 DEF WebInv, TypeOK, Lists
  <2>3. cache[s].age < TTL
    BY <2>1, <2>2 DEF Expired
  <2>4. Older(cache[s].age) = cache[s].age + 1
    BY <2>2, <2>3 DEF Older
  <2>5. cache'[s] = [cache[s] EXCEPT !.age = cache[s].age + 1]
    BY <2>1, <2>2, <2>4 DEF List
  <2>. QED
    BY <2>1, <2>2, <2>3, <2>5 DEF List
<1>4. /\ cache' \in [Sessions -> List]
      /\ \A s \in Sessions : cache'[s] = NoCache
                          \/ cache'[s].found = cache[s].found
  <2>1. DOMAIN cache' = Sessions /\ cache' = [s \in Sessions |-> cache'[s]]
    BY DEF Tick
  <2>2. \A s \in Sessions : cache'[s] \in List
    BY <1>3, NoCacheType
  <2>. QED
    BY <1>3, <2>1, <2>2
<1>5. ASSUME NEW s \in Sessions
      PROVE  /\ task'[s] \in Task
             /\ task'[s].do = task[s].do
             /\ task'[s].script = task[s].script
             /\ task'[s].left = task[s].left
             /\ task'[s].upTo = task[s].upTo
             /\ task'[s].age = IF task[s].do = "start" THEN task[s].age + 1
                                                       ELSE task[s].age
             /\ task[s].age \in 0 .. MaxPause
  <2>1. task[s] \in Task /\ task[s].age \in 0 .. MaxPause
    BY DEF WebInv, TypeOK, Task
  <2>2. CASE task[s].do = "start"
    <3>1. task'[s] = [task[s] EXCEPT !.age = task[s].age + 1]
      BY <2>1, <2>2 DEF Tick, Task
    <3>2. task[s].age + 1 \in 0 .. MaxPause
      BY <2>1, <2>2 DEF Tick
    <3>. QED
      BY <2>1, <2>2, <3>1, <3>2 DEF Task
  <2>3. CASE task[s].do # "start"
    BY <2>1, <2>3 DEF Tick
  <2>. QED
    BY <2>2, <2>3
<1>6. task' \in [Sessions -> Task]
  <2>1. DOMAIN task' = Sessions /\ task' = [s \in Sessions |-> task'[s]]
    BY DEF Tick
  <2>. QED
    BY <1>5, <2>1
<1>7. TypeOK'
  <2>1. \A s \in Sessions : task'[s].left \subseteq Of(task[s].script)'
    BY <1>1, <1>5 DEF WebInv, TypeOK, Of
  <2>. QED
    BY <1>1, <1>2, <1>4, <1>6, <2>1 DEF WebInv, TypeOK
<1>8. Known'
  BY <1>1, <1>2, <1>4, <1>5, NoCacheType DEF WebInv, Known
<1>9. Lists'
  <2>. SUFFICES ASSUME NEW s \in Sessions, cache'[s] # NoCache
                PROVE  /\ cache'[s].age \in 0 .. TTL
                       /\ \A i \in DOMAIN procs :
                            (i \in cache'[s].found) # procs'[i].alive =>
                                procs'[i].age <= cache'[s].age
    BY <1>1 DEF Lists
  <2>1. /\ cache[s] # NoCache /\ cache[s].age \in 0 .. TTL
        /\ cache'[s].age = cache[s].age + 1
        /\ cache'[s].age \in 0 .. TTL
        /\ cache'[s].found = cache[s].found
    BY <1>3
  <2>2. \A i \in DOMAIN procs :
           (i \in cache[s].found) # procs[i].alive =>
               procs[i].age <= cache[s].age
    BY <2>1 DEF WebInv, Lists
  <2>. QED
    BY <2>1, <2>2, <1>1
<1>10. OwnFound'
  <2>. SUFFICES ASSUME NEW s \in Sessions, NEW i \in DOMAIN procs,
                       procs[i].alive, procs[i].by = s, cache'[s] # NoCache
                PROVE  \/ managed[s][procs[i].script] = i
                       \/ i \in cache'[s].found
    BY <1>1, <1>2 DEF OwnFound
  <2>1. cache[s] # NoCache /\ cache'[s].found = cache[s].found
    BY <1>3
  <2>. QED
    BY <2>1 DEF WebInv, OwnFound
<1>11. StoppedGone'
  BY <1>1, <1>2, <1>4, NoCacheType DEF WebInv, StoppedGone, Alive
<1>12. StopsGoOn' /\ StartsNamed'
  BY <1>1, <1>5 DEF WebInv, StopsGoOn, StartsNamed, Alive, Of
<1>13. RivalsAreYoung'
  <2>. SUFFICES ASSUME NEW s \in Sessions, task[s].do = "start",
                       NEW i \in DOMAIN procs, procs[i].alive,
                       procs[i].script = task[s].script
                PROVE  procs'[i].by # s /\ procs'[i].age <= TTL + task'[s].age
    BY <1>1, <1>5 DEF RivalsAreYoung, Alive, Of
  <2>1. procs[i].by # s /\ procs[i].age <= TTL + task[s].age
    BY DEF WebInv, RivalsAreYoung, Alive, Of
  <2>2. /\ task'[s].age = task[s].age + 1
        /\ task[s].age \in 0 .. MaxPause
    BY <1>5
  <2>3. /\ procs'[i].by = procs[i].by
        /\ procs'[i].age <= procs[i].age + 1
        /\ procs[i].age \in 0 .. Horizon
        /\ procs'[i].age \in Int
    BY <1>1, ProcessFields DEF WebInv
  <2>. QED
    BY <2>1, <2>2, <2>3
<1>. QED
  BY <1>7, <1>8, <1>9, <1>10, <1>11, <1>12, <1>13 DEF WebInv

LEMMA StutterKeeps ==
  ASSUME WebInv, UNCHANGED vars
  PROVE  WebInv'
  BY DEF vars, WebInv, TypeOK, Known, Lists, OwnFound, StoppedGone, StopsGoOn,
         StartsNamed, RivalsAreYoung, Alive, Of

LEMMA NextKeeps == WebInv /\ [Next]_vars => WebInv'
<1>. SUFFICES ASSUME WebInv, [Next]_vars PROVE WebInv'
  OBVIOUS
<1>1. CASE UNCHANGED vars
  BY <1>1, StutterKeeps
<1>2. ASSUME NEW s \in Sessions, NEW k \in Scripts,
             Decide(s, k) \/ BeginStop(s, {k}) \/ ScanForStop(s, k)
      PROVE  WebInv'
  BY <1>2, DecideKeeps, BeginStopKeeps, ScanForStopKeeps
<1>3. ASSUME NEW s \in Sessions,
             \/ Draw(s) \/ Launch(s) \/ LaunchUnnoted(s)
             \/ BeginStop(s, DeviceScripts)
             \/ FinishStop(s) \/ Abandon(s) \/ Reload(s)
      PROVE  WebInv'
  BY <1>3, DrawKeeps, LaunchKeeps, LaunchUnnotedKeeps, BeginStopKeeps,
     FinishStopKeeps, AbandonKeeps, ReloadKeeps, WebAssumption
<1>4. ASSUME NEW s \in Sessions, NEW i \in task[s].left, Terminate(s, i)
      PROVE  WebInv'
  BY <1>4, TerminateKeeps
<1>5. ASSUME NEW k \in Scripts, StartElsewhere(k) PROVE WebInv'
  BY <1>5, StartElsewhereKeeps
<1>6. ASSUME NEW i \in Alive, EndElsewhere(i) PROVE WebInv'
  BY <1>6, EndElsewhereKeeps
<1>7. CASE Tick
  BY <1>7, TickKeeps
<1>. QED
  BY <1>1, <1>2, <1>3, <1>4, <1>5, <1>6, <1>7 DEF Next

-----------------------------------------------------------------------------
(* Theorems                                                                *)

\* The inductive invariant: what lists, tasks and sessions know of processes
\* is right but for what has changed since they looked.
THEOREM WebInvariance == Spec => []WebInv
  BY InitHolds, NextKeeps, PTL DEF Spec

\* Every variable of WebProcesses keeps its type.
THEOREM TypeCorrect == Spec => []TypeOK
<1>1. WebInv => TypeOK
  BY DEF WebInv
<1>. QED
  BY <1>1, WebInvariance, PTL

\* start_process is wrong only about a program that someone else has started
\* since the page made its list, or while it starts its own.
THEOREM RivalsYoung == Spec => []RivalsAreYoung
<1>1. WebInv => RivalsAreYoung
  BY DEF WebInv
<1>. QED
  BY <1>1, WebInvariance, PTL

\* What keeps start_process from starting a program was running not long ago,
\* and is none that the page has stopped.
THEOREM RefusalsWarranted == Spec => []RefusalsAreWarranted
<1>1. WebInv => RefusalsAreWarranted
  <2>. SUFFICES ASSUME WebInv, NEW s \in Sessions, NEW k \in Scripts,
                       NEW i \in Counted(s, k)
                PROVE  /\ i \notin gone[s]
                       /\ i \in Alive \/ procs[i].age <= TTL
    BY DEF RefusalsAreWarranted
  <2>1. CASE i \in Alive
    BY <2>1 DEF WebInv, StoppedGone
  <2>2. CASE i \notin Alive
    <3>1. i \in Look(s).found
      BY <2>2 DEF Counted, Own, Matching
    <3>2. /\ i \in DOMAIN procs /\ ~procs[i].alive
          /\ procs[i].age \in 0 .. Horizon
      BY <3>1, <2>2, LookFacts, ProcessFields DEF WebInv, Alive
    <3>3. Look(s).age \in 0 .. TTL /\ procs[i].age <= Look(s).age
      BY <3>1, <3>2, LookFacts DEF WebInv
    <3>4. Look(s) = cache[s]
      BY <3>1, <2>2, LookFacts DEF WebInv
    <3>. QED
      BY <3>1, <3>2, <3>3, <3>4, Bounds DEF WebInv, StoppedGone
  <2>. QED
    BY <2>1, <2>2
<1>. QED
  BY <1>1, WebInvariance, PTL

\* stop_script_processes leaves nothing running that ran when it looked.
THEOREM StopsAreThorough == Spec => []StopIsThorough
<1>1. WebInv => StopIsThorough
  <2>. SUFFICES ASSUME WebInv, NEW s \in Sessions,
                       task[s].script # None, task[s].do = "stop",
                       task[s].left = {},
                       NEW i \in Alive \cap Of(task[s].script)
                PROVE  i > task[s].upTo
    BY DEF StopIsThorough
  <2>1. i \in Nat /\ task[s].upTo \in Nat
    BY ProcsDomain, Bounds DEF WebInv, Alive, TypeOK, Task
  <2>2. ~(i <= task[s].upTo)
    BY DEF WebInv, StopsGoOn
  <2>. QED
    BY <2>1, <2>2
<1>. QED
  BY <1>1, WebInvariance, PTL
=============================================================================
