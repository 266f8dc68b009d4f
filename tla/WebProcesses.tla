---------------------------- MODULE WebProcesses ----------------------------
(***************************************************************************)
(* The web page's buttons that start and stop the programs of the system.  *)
(*                                                                         *)
(* Every open page is a session with a state of its own: the processes it  *)
(* has started itself, and a list of all processes that it keeps for three *)
(* seconds.  Programs are also started and ended from elsewhere, and       *)
(* nothing but the pages' care prevents two gateways at a time.            *)
(*                                                                         *)
(* Time is discrete, in seconds.  A list sees the processes as they are at *)
(* one moment, and a process that is told to end does.                     *)
(***************************************************************************)
EXTENDS Integers, Sequences

CONSTANTS
    Sessions,           \* open pages
    Scripts,            \* PROCESS_SPECS
    DeviceScripts,      \* those of sensors and actuators
    None,
    TTL,                \* PROCESS_SCAN_TTL_SECONDS
    MaxPause,           \* bound: from a page's look to the start
    MaxStarts,          \* bound: processes started
    Horizon             \* bound: ages beyond it are not told apart

ASSUME WebAssumption ==
    /\ DeviceScripts \subseteq Scripts /\ DeviceScripts # {}
    /\ None \notin Scripts \cup Sessions
    /\ {TTL, MaxPause, MaxStarts, Horizon} \subseteq Nat
    /\ TTL + MaxPause < Horizon

VARIABLES
    procs,      \* every process so far; age: since its start, or its end
    managed,    \* managed[s][k]: managed_processes, 0 for none
    cache,      \* cache[s]: process_scan_cache
    task,       \* task[s]: what the page is doing
    gone        \* gone[s]: what s has stopped, to the end (history)

vars == <<procs, managed, cache, task, gone>>

Alive == {i \in DOMAIN procs : procs[i].alive}
Of(k) == {i \in DOMAIN procs : procs[i].script = k}

NoCache == [age |-> -1, found |-> {}]
Idle == [do |-> "idle", script |-> None, todo |-> {}, left |-> {},
         upTo |-> 0, age |-> 0]

Init ==
    /\ procs = << >>
    /\ managed = [s \in Sessions |-> [k \in Scripts |-> 0]]
    /\ cache = [s \in Sessions |-> NoCache]
    /\ task = [s \in Sessions |-> Idle]
    /\ gone = [s \in Sessions |-> {}]

-----------------------------------------------------------------------------
(* What a page knows                                                       *)

Scan == [age |-> 0, found |-> Alive]

\* Variant: whatever is found.
MatchingAll(found, k) == found

\* Its processes are told by their command lines.
Matching(found, k) == found \cap Of(k)

\* find_script_process_ids: an old list has been dropped (Tick).
Look(s) == IF cache[s] # NoCache THEN cache[s] ELSE Scan

\* process_is_running of the page's own process.
Own(s, k) == {managed[s][k]} \cap Alive

\* process_key_is_running, and what start_process goes by.
Counted(s, k) == Own(s, k) \cup Matching(Look(s).found, k)

-----------------------------------------------------------------------------
(* start_process                                                           *)

\* by is the page that notes the process as its own, or None.
New(k, by) == [script |-> k, alive |-> TRUE, age |-> 0, by |-> by]

\* The page is drawn, or what it is to start is running: it only looks.
Draw(s) ==
    /\ task[s] = Idle
    /\ cache' = [cache EXCEPT ![s] = Look(s)]
    /\ UNCHANGED <<procs, managed, task, gone>>

\* The page sees none, and is going to start one.
Decide(s, k) ==
    /\ task[s] = Idle
    /\ Counted(s, k) = {}
    /\ cache' = [cache EXCEPT ![s] = Look(s)]
    /\ task' = [task EXCEPT ![s] = [Idle EXCEPT !.do = "start", !.script = k]]
    /\ UNCHANGED <<procs, managed, gone>>

Launch(s) ==
    /\ task[s].do = "start"
    /\ Len(procs) < MaxStarts
    /\ procs' = Append(procs, New(task[s].script, s))
    /\ managed' = [managed EXCEPT ![s][task[s].script] = Len(procs) + 1]
    /\ cache' = [cache EXCEPT ![s] = NoCache]
    /\ task' = [task EXCEPT ![s] = Idle]
    /\ UNCHANGED gone

\* Streamlit ends a run of the page at its next access to the session's state
\* when the user has clicked again: the process runs, and the page has not
\* noted it.  From then on it is to the page as one from elsewhere.
LaunchUnnoted(s) ==
    /\ task[s].do = "start"
    /\ Len(procs) < MaxStarts
    /\ procs' = Append(procs, New(task[s].script, None))
    /\ task' = [task EXCEPT ![s] = Idle]
    /\ UNCHANGED <<managed, cache, gone>>

-----------------------------------------------------------------------------
(* stop_process, stop_all_devices, stop_script_processes                   *)

Ended(p) == [p EXCEPT !.alive = FALSE, !.age = 0]

\* procs without those in dying.
Without(dying) ==
    [i \in DOMAIN procs |-> IF i \in dying \cap Alive THEN Ended(procs[i])
                                                      ELSE procs[i]]

\* The page's own processes end first.
BeginStop(s, scripts) ==
    /\ task[s] = Idle
    /\ procs' = Without(UNION {Own(s, k) : k \in scripts})
    /\ task' = [task EXCEPT ![s] = [Idle EXCEPT !.do = "stop",
                                                !.todo = scripts]]
    /\ UNCHANGED <<managed, cache, gone>>

\* Variants: the list may be an old one; it stays when its processes do not.
LookForStopCached(s) == Look(s)
AfterStopKept(s) == cache[s]

\* The old list is dropped before the look, and the new one after the stop.
LookForStop(s) == Scan
AfterStop(s) == NoCache

\* stop_script_processes: the look ...
ScanForStop(s, k) ==
    /\ task[s].do = "stop"
    /\ task[s].script = None
    /\ k \in task[s].todo
    /\ cache' = [cache EXCEPT ![s] = LookForStop(s)]
    /\ task' = [task EXCEPT ![s] =
                  [do |-> "stop", script |-> k, todo |-> @.todo \ {k},
                   left |-> Matching(LookForStop(s).found, k),
                   upTo |-> Len(procs), age |-> 0]]
    /\ UNCHANGED <<procs, managed, gone>>

\* ... one process after the other, if it is still there ...
Terminate(s, i) ==
    /\ i \in task[s].left
    /\ procs' = Without({i})
    /\ task' = [task EXCEPT ![s].left = @ \ {i}]
    /\ UNCHANGED <<managed, cache, gone>>

\* ... and the end, of this script or of all.
FinishStop(s) ==
    /\ task[s].do = "stop"
    /\ task[s].script # None
    /\ task[s].left = {}
    /\ cache' = [cache EXCEPT ![s] = AfterStop(s)]
    /\ gone' = [gone EXCEPT ![s] = @ \cup (Of(task[s].script) \ Alive)]
    /\ task' = [task EXCEPT ![s] = IF @.todo = {} THEN Idle
                                   ELSE [@ EXCEPT !.script = None]]
    /\ UNCHANGED <<procs, managed>>

\* The run of the page ends early, as above.
Abandon(s) ==
    /\ task[s].do = "stop"
    /\ task[s].left = {}
    /\ task' = [task EXCEPT ![s] = Idle]
    /\ UNCHANGED <<procs, managed, cache, gone>>

-----------------------------------------------------------------------------
(* The world outside                                                       *)

\* The page is loaded anew: a new session.
Reload(s) ==
    /\ task[s] = Idle
    /\ managed' = [managed EXCEPT ![s] = [k \in Scripts |-> 0]]
    /\ cache' = [cache EXCEPT ![s] = NoCache]
    /\ gone' = [gone EXCEPT ![s] = {}]
    /\ UNCHANGED <<procs, task>>

\* From a terminal.
StartElsewhere(k) ==
    /\ Len(procs) < MaxStarts
    /\ procs' = Append(procs, New(k, None))
    /\ UNCHANGED <<managed, cache, task, gone>>

\* By itself, or from a terminal.
EndElsewhere(i) ==
    /\ i \in Alive
    /\ procs' = Without({i})
    /\ UNCHANGED <<managed, cache, task, gone>>

Older(n) == IF n < Horizon THEN n + 1 ELSE n

\* Variant: a list is kept until it is dropped by a start or a stop.
ExpiredNever(c) == FALSE

\* A list that is too old is looked at no more.
Expired(c) == c.age >= TTL

Tick ==
    /\ \A s \in Sessions : task[s].do = "start" => task[s].age < MaxPause
    /\ procs' = [i \in DOMAIN procs |-> [procs[i] EXCEPT !.age = Older(@)]]
    /\ cache' = [s \in Sessions |->
                   IF cache[s] = NoCache \/ Expired(cache[s]) THEN NoCache
                   ELSE [cache[s] EXCEPT !.age = Older(@)]]
    /\ task' = [s \in Sessions |->
                  IF task[s].do = "start" THEN [task[s] EXCEPT !.age = @ + 1]
                                          ELSE task[s]]
    /\ UNCHANGED <<managed, gone>>

Next ==
    \/ \E s \in Sessions :
          \/ \E k \in Scripts :
                Decide(s, k) \/ BeginStop(s, {k}) \/ ScanForStop(s, k)
          \/ Draw(s) \/ Launch(s) \/ LaunchUnnoted(s)
          \/ BeginStop(s, DeviceScripts)
          \/ \E i \in task[s].left : Terminate(s, i)
          \/ FinishStop(s) \/ Abandon(s) \/ Reload(s)
    \/ \E k \in Scripts : StartElsewhere(k)
    \/ \E i \in Alive : EndElsewhere(i)
    \/ Tick

Spec == Init /\ [][Next]_vars

-----------------------------------------------------------------------------
(* What must hold                                                          *)

Numbers == 1 .. MaxStarts

Process == [script : Scripts, alive : BOOLEAN, age : 0 .. Horizon,
            by : Sessions \cup {None}]
List == [age : -1 .. Horizon, found : SUBSET Numbers]
Task == [do : {"idle", "start", "stop"}, script : Scripts \cup {None},
         todo : SUBSET Scripts, left : SUBSET Numbers,
         upTo : 0 .. MaxStarts, age : 0 .. MaxPause]

\* Every variable has its type; a stop is never after another program.
TypeOK ==
    /\ procs \in Seq(Process)
    /\ managed \in [Sessions -> [Scripts -> 0 .. MaxStarts]]
    /\ cache \in [Sessions -> List]
    /\ task \in [Sessions -> Task]
    /\ \A s \in Sessions : task[s].left \subseteq Of(task[s].script)
    /\ gone \in [Sessions -> SUBSET Numbers]

\* A page that is about to start a program, because it sees none, is wrong only
\* about one that it has not noted as its own and that was started in the last
\* seconds: the list was made no more than PROCESS_SCAN_TTL_SECONDS before
\* start_process looked at it, and what the page has started and noted it
\* always sees, even after a reload.
RivalsAreYoung ==
    \A s \in Sessions :
        task[s].do = "start" =>
            \A i \in Alive \cap Of(task[s].script) :
                /\ procs[i].by # s
                /\ procs[i].age <= TTL + task[s].age

\* A program that a page takes to be running, so that it does not start it, is
\* running or was so PROCESS_SCAN_TTL_SECONDS ago, and it is none that this
\* page has stopped: who stops a program can start it again at once.
RefusalsAreWarranted ==
    \A s \in Sessions, k \in Scripts :
        task[s] = Idle =>
            \A i \in Counted(s, k) :
                /\ i \notin gone[s]
                /\ i \in Alive \/ procs[i].age <= TTL

\* When a stop has gone through its list, none of the program's processes runs
\* that did when the list was made, whoever had started them.
StopIsThorough ==
    \A s \in Sessions :
        task[s].script # None /\ task[s].do = "stop" /\ task[s].left = {} =>
            \A i \in Alive \cap Of(task[s].script) : i > task[s].upTo
=============================================================================
