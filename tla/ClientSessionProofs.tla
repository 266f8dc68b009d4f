------------------------ MODULE ClientSessionProofs ------------------------
(***************************************************************************)
(* Answers match requests, and commands take effect in the order in which  *)
(* their users learnt of them: for any sessions, options and bounds.       *)
(*                                                                         *)
(* The invariant: of each session at most one request is on its way, in    *)
(* one place only: sent, being worked on, at the actuator, or answered.    *)
(***************************************************************************)
EXTENDS ClientSession, SequenceTheorems, TLAPS

\* The sender of r had been shown no more than is shown by now.
Known(r) == \A t \in Sessions : r.after[t] <= shown[t]

\* r is the last request of s, and its answer has not been shown.
Outstanding(r, s) ==
    /\ r.session = s
    /\ r.number = sent[s]
    /\ shown[s] < sent[s]
    /\ Known(r)

NotExecuted(r) ==
    \A i \in DOMAIN executed :
        LET e == executed[i].request
        IN  <<e.session, e.number>> # <<r.session, r.number>>

\* No command with the number of r has been executed, or given up on.
Fresh(r) ==
    /\ NotExecuted(r)
    /\ \A a \in abandoned : <<a.session, a.number>> # <<r.session, r.number>>

Busy(s) == thread[s] \in {"working", "calling"}
NothingLeft(s) == \A r \in backlog : r.session # s

Turns ==
    \A s \in Sessions :
        /\ shown[s] <= sent[s]
        /\ client[s] \in {"off", "menu"} => shown[s] = sent[s]
        /\ client[s] = "off" => thread[s] = "none"

UpHolds ==
    \A s \in Sessions :
        up[s] # << >> =>
            /\ Tail(up[s]) = << >>
            /\ Outstanding(Head(up[s]), s)
            /\ Fresh(Head(up[s]))
            /\ ~Busy(s)
            /\ down[s] = << >>
            /\ NothingLeft(s)

JobHolds ==
    \A s \in Sessions :
        Busy(s) =>
            /\ job[s] \in Requests
            /\ Outstanding(job[s], s)
            /\ down[s] = << >>
            /\ thread[s] = "working" => Fresh(job[s]) /\ NothingLeft(s)

BacklogHolds ==
    \A r \in backlog :
        /\ Outstanding(r, r.session)
        /\ Fresh(r)
        /\ thread[r.session] = "calling" => job[r.session] = r
        /\ thread[r.session] \in {"calling", "ended"}
        /\ down[r.session] = << >>
        /\ \A q \in backlog : q.session = r.session => q = r

\* A command that was given up on may have been shown to be answered; it is
\* known from all others by its session and its number.
AbandonedHolds ==
    \A r \in abandoned :
        /\ GatewayTimeout
        /\ Known(r)
        /\ r.number <= sent[r.session]
        /\ NotExecuted(r)
        /\ \A q \in abandoned :
              <<q.session, q.number>> = <<r.session, r.number>> => q = r

DownHolds ==
    \A s \in Sessions :
        down[s] # << >> =>
            Tail(down[s]) = << >> /\ Outstanding(Head(down[s]), s)

History ==
    /\ \A i \in DOMAIN executed :
          LET e == executed[i].request
          IN  Known(e) /\ e.number <= sent[e.session]
    /\ NoOvertaking

SessionInv ==
    /\ TypeOK /\ Turns /\ UpHolds /\ JobHolds
    /\ BacklogHolds /\ AbandonedHolds /\ DownHolds /\ History

-----------------------------------------------------------------------------
(* Sequences and types                                                     *)

LEMMA Singleton ==
    ASSUME NEW S, NEW x \in S
    PROVE  /\ Append(<< >>, x) \in Seq(S)
           /\ Append(<< >>, x) # << >>
           /\ Head(Append(<< >>, x)) = x
           /\ Tail(Append(<< >>, x)) = << >>
  OBVIOUS

LEMMA EmptyIsSequence == ASSUME NEW S PROVE << >> \in Seq(S)
  OBVIOUS

LEMMA HeadAndTail ==
    ASSUME NEW S, NEW q \in Seq(S), q # << >>
    PROVE  Head(q) \in S /\ Tail(q) \in Seq(S)
  OBVIOUS

\* What the menu builds is a request, the next of its session.
LEMMA RequestBuilt ==
    ASSUME TypeOK, NEW s \in Sessions, NEW option \in Options
    PROVE  LET r == build_request(s, option)
           IN  /\ r \in Requests
               /\ r.session = s
               /\ r.number = sent[s] + 1
               /\ r.after = shown
<1>1. option \in 1 .. 11
  BY OptionsAssumption
<1>2. sent[s] + 1 \in Nat /\ shown \in [Sessions -> Nat]
  BY BoundsAssumption DEF TypeOK
<1>. HIDE DEF RequestType, CommandType
<1>. QED
  BY <1>1, <1>2 DEF build_request, Requests

LEMMA RequestFields ==
    ASSUME NEW r \in Requests
    PROVE  /\ r.session \in Sessions
           /\ r.number \in Nat
           /\ r.after \in [Sessions -> Nat]
  BY DEF Requests

LEMMA ExecutedTypes ==
    ASSUME TypeOK
    PROVE  \A i \in DOMAIN executed : executed[i].request \in Requests
<1>1. \A i \in DOMAIN executed : executed[i] \in Entries
  <2>. HIDE DEF Entries
  <2>. QED
    BY DEF TypeOK
<1>. QED
  BY <1>1 DEF Entries

-----------------------------------------------------------------------------
(* The invariant                                                           *)

LEMMA InitHolds == Init => SessionInv
<1>. SUFFICES ASSUME Init PROVE SessionInv
  OBVIOUS
<1>1. TypeOK
  <2>1. << >> \in Seq(Requests) /\ << >> \in Seq(Entries)
    BY EmptyIsSequence
  <2>2. /\ up \in [Sessions -> Seq(Requests)]
        /\ down \in [Sessions -> Seq(Requests)]
    BY <2>1 DEF Init
  <2>3. job \in [Sessions -> Requests \cup {NoJob}]
    BY DEF Init
  <2>4. power \in BOOLEAN /\ gatewayUp \in BOOLEAN
    BY DEF Init
  <2>5. /\ client \in [Sessions -> {"off", "menu", "waiting", "ended"}]
        /\ thread \in [Sessions -> {"none", "connected", "reading", "working",
                                    "calling", "ended"}]
        /\ sent \in [Sessions -> Nat]
        /\ \A s \in Sessions : sent[s] <= MaxRequests[s]
        /\ shown \in [Sessions -> Nat]
        /\ crashes \in 0 .. MaxCrashes
    BY BoundsAssumption DEF Init
  <2>6. /\ backlog \subseteq Requests /\ abandoned \subseteq Requests
        /\ executed \in Seq(Entries)
    BY <2>1 DEF Init
  <2>. QED
    BY <2>2, <2>3, <2>4, <2>5, <2>6 DEF TypeOK
<1>2. Turns /\ UpHolds /\ JobHolds /\ BacklogHolds /\ DownHolds
  BY DEF Init, Turns, UpHolds, JobHolds, BacklogHolds, DownHolds, Busy
<1>3. AbandonedHolds /\ History
  BY DEF Init, AbandonedHolds, History, NoOvertaking
<1>. QED
  BY <1>1, <1>2, <1>3 DEF SessionInv

LEMMA TypeStep == TypeOK /\ JobHolds /\ [Next]_vars => TypeOK'
<1>. SUFFICES ASSUME TypeOK, JobHolds, [Next]_vars PROVE TypeOK'
  OBVIOUS
<1>. USE BoundsAssumption
<1>1. CASE UNCHANGED vars
  BY <1>1 DEF TypeOK, vars, clientVars, deviceVars, gatewayVars
<1>2. ASSUME NEW s \in Sessions, Start(s) PROVE TypeOK'
  BY <1>2 DEF TypeOK, Start, deviceVars, gatewayVars
<1>3. ASSUME NEW s \in Sessions, Submit(s) PROVE TypeOK'
  <2>. PICK option \in Options :
          up' = [up EXCEPT ![s] = Append(@, build_request(s, option))]
    BY <1>3 DEF Submit
  <2>1. build_request(s, option) \in Requests
    BY RequestBuilt
  <2>2. up' \in [Sessions -> Seq(Requests)]
    BY <2>1 DEF TypeOK
  <2>3. /\ sent' \in [Sessions -> Nat]
        /\ \A t \in Sessions : sent'[t] <= MaxRequests[t]
    BY <1>3 DEF TypeOK, Submit
  <2>. QED
    BY <1>3, <2>2, <2>3 DEF TypeOK, Submit, deviceVars, gatewayVars
<1>4. ASSUME NEW s \in Sessions, ShowAnswer(s) PROVE TypeOK'
  <2>1. Head(down[s]) \in Requests /\ Tail(down[s]) \in Seq(Requests)
    BY <1>4, HeadAndTail DEF TypeOK, ShowAnswer
  <2>2. Head(down[s]).number \in Nat
    BY <2>1, RequestFields
  <2>. QED
    BY <1>4, <2>1, <2>2 DEF TypeOK, ShowAnswer, deviceVars, gatewayVars
<1>5. ASSUME NEW s \in Sessions, Timeout(s) \/ Disconnected(s) \/ Quit(s)
      PROVE TypeOK'
  <2>1. up' \in [Sessions -> Seq(Requests)]
    <3>1. up' = up \/ up' = [up EXCEPT ![s] = << >>]
      BY <1>5 DEF Timeout, Disconnected, Quit
    <3>2. up \in [Sessions -> Seq(Requests)] /\ << >> \in Seq(Requests)
      BY EmptyIsSequence DEF TypeOK
    <3>. QED
      BY <3>1, <3>2
  <2>2. End(s)
    BY <1>5 DEF Timeout, Disconnected, Quit
  <2>. QED
    BY <2>1, <2>2 DEF TypeOK, End, deviceVars, gatewayVars
<1>6. ASSUME NEW s \in Sessions, Accept(s) \/ HangUp(s) PROVE TypeOK'
  BY <1>6 DEF TypeOK, Accept, HangUp, Step, clientVars, deviceVars, gatewayVars
<1>7. ASSUME NEW s \in Sessions, Read(s) PROVE TypeOK'
  <2>1. Head(up[s]) \in Requests /\ Tail(up[s]) \in Seq(Requests)
    BY <1>7, HeadAndTail DEF TypeOK, Read
  <2>. QED
    BY <1>7, <2>1 DEF TypeOK, Read, Step, clientVars, deviceVars, gatewayVars
<1>8. ASSUME NEW s \in Sessions,
             Query(s) \/ Exit(s) \/ Refuse(s) \/ AnswerCommand(s)
      PROVE TypeOK'
  <2>1. /\ Answer(s)
        /\ job[s] \in Requests
        /\ thread' \in [Sessions -> {"none", "connected", "reading", "working",
                                     "calling", "ended"}]
        /\ UNCHANGED <<clientVars, up, deviceVars, gatewayVars>>
    BY <1>8
    DEF TypeOK, JobHolds, Busy, Query, Exit, Refuse, AnswerCommand, Step
  <2>2. down' \in [Sessions -> Seq(Requests)]
    BY <2>1 DEF TypeOK, Answer
  <2>3. job' \in [Sessions -> Requests \cup {NoJob}]
    BY <2>1 DEF TypeOK, Answer
  <2>. QED
    BY <2>1, <2>2, <2>3 DEF TypeOK, clientVars, deviceVars, gatewayVars
<1>14. ASSUME NEW s \in Sessions, GiveUp(s) PROVE TypeOK'
  <2>1. /\ Answer(s)
        /\ job[s] \in Requests
        /\ thread' \in [Sessions -> {"none", "connected", "reading", "working",
                                     "calling", "ended"}]
        /\ backlog' \subseteq Requests /\ abandoned' \subseteq Requests
        /\ UNCHANGED <<clientVars, up, power, executed, gatewayVars>>
    BY <1>14 DEF TypeOK, GiveUp, Step
  <2>2. down' \in [Sessions -> Seq(Requests)]
    BY <2>1 DEF TypeOK, Answer
  <2>3. job' \in [Sessions -> Requests \cup {NoJob}]
    BY <2>1 DEF TypeOK, Answer
  <2>. QED
    BY <2>1, <2>2, <2>3 DEF TypeOK, clientVars, gatewayVars
<1>9. ASSUME NEW s \in Sessions, Forward(s) PROVE TypeOK'
  <2>1. job[s] \in Requests
    BY <1>9 DEF TypeOK, Forward, NoJob
  <2>. QED
    BY <1>9, <2>1 DEF TypeOK, Forward, Step, clientVars, gatewayVars
<1>10. CASE Crash
  <2>1. << >> \in Seq(Requests)
    BY EmptyIsSequence
  <2>2. down' \in [Sessions -> Seq(Requests)]
    BY <1>10, <2>1 DEF TypeOK, Crash
  <2>3. /\ thread' \in [Sessions -> {"none", "connected", "reading", "working",
                                     "calling", "ended"}]
        /\ job' \in [Sessions -> Requests \cup {NoJob}]
    BY <1>10 DEF Crash
  <2>4. gatewayUp' \in BOOLEAN
    BY <1>10 DEF Crash
  <2>5. crashes' \in 0 .. MaxCrashes
    BY <1>10 DEF Crash, TypeOK
  <2>. QED
    BY <1>10, <2>2, <2>3, <2>4, <2>5 DEF TypeOK, Crash, clientVars
<1>11. CASE Restart
  BY <1>11 DEF TypeOK, Restart, clientVars, deviceVars
<1>12. ASSUME NEW r \in backlog \cup abandoned, Execute(r) PROVE TypeOK'
  <2>1. power' \in BOOLEAN
    BY <1>12 DEF TypeOK, Execute, PowerAfter
  <2>2. executed' \in Seq(Entries)
    <3>1. [request |-> r, changed |-> PowerAfter(r) # power,
           givenUp |-> r \in abandoned] \in Entries
      BY DEF TypeOK, Entries
    <3>. QED
      BY <1>12, <3>1 DEF TypeOK, Execute, Executed
  <2>. QED
    BY <1>12, <2>1, <2>2 DEF TypeOK, Execute, clientVars, gatewayVars
<1>13. CASE DeviceFails
  BY <1>13 DEF TypeOK, DeviceFails, clientVars, gatewayVars
<1>. QED
  BY <1>1, <1>2, <1>3, <1>4, <1>5, <1>6, <1>7, <1>8, <1>9, <1>10, <1>11,
     <1>12, <1>13, <1>14 DEF Next, ClientStep, ThreadStep

\* The invariant without the types.
Safe == Turns /\ UpHolds /\ JobHolds /\ BacklogHolds /\ DownHolds /\ History

LEMMA SafeStep == SessionInv /\ [Next]_vars => Safe'
<1>. SUFFICES ASSUME SessionInv, [Next]_vars PROVE Safe'
  OBVIOUS
<1>. USE DEF clientVars, deviceVars, gatewayVars
<1>0. \A r \in backlog : r.session \in Sessions
  BY RequestFields DEF SessionInv, TypeOK
<1>1. CASE UNCHANGED vars
  <2>1. Turns'
    BY <1>1 DEF vars, SessionInv, TypeOK, Turns, Outstanding, Known, NotExecuted, Fresh, NothingLeft, Busy
  <2>2. UpHolds'
    BY <1>1 DEF vars, SessionInv, TypeOK, UpHolds, Outstanding, Known, NotExecuted, Fresh, NothingLeft, Busy
  <2>3. JobHolds'
    BY <1>1 DEF vars, SessionInv, TypeOK, JobHolds, Outstanding, Known, NotExecuted, Fresh, NothingLeft, Busy
  <2>4. BacklogHolds'
    BY <1>1, <1>0 DEF vars, SessionInv, TypeOK, BacklogHolds, Outstanding, Known, NotExecuted, Fresh, NothingLeft, Busy
  <2>5. DownHolds'
    BY <1>1 DEF vars, SessionInv, TypeOK, DownHolds, Outstanding, Known, NotExecuted, Fresh, NothingLeft, Busy
  <2>6. History'
    BY <1>1 DEF vars, SessionInv, TypeOK, History, NoOvertaking, Awaited, Outstanding, Known, NotExecuted, Fresh, NothingLeft, Busy
  <2>. QED
    BY <2>1, <2>2, <2>3, <2>4, <2>5, <2>6 DEF Safe
<1>2. ASSUME NEW s \in Sessions, Start(s) PROVE Safe'
  <2>1. Turns'
    BY <1>2 DEF Start, SessionInv, TypeOK, Turns, Outstanding, Known, NotExecuted, Fresh, NothingLeft, Busy
  <2>2. UpHolds'
    BY <1>2 DEF Start, SessionInv, TypeOK, UpHolds, Outstanding, Known, NotExecuted, Fresh, NothingLeft, Busy
  <2>3. JobHolds'
    BY <1>2 DEF Start, SessionInv, TypeOK, JobHolds, Outstanding, Known, NotExecuted, Fresh, NothingLeft, Busy
  <2>4. BacklogHolds'
    BY <1>2, <1>0 DEF Start, SessionInv, TypeOK, Turns, BacklogHolds, Outstanding, Known, NotExecuted, Fresh, NothingLeft, Busy
  <2>5. DownHolds'
    BY <1>2 DEF Start, SessionInv, TypeOK, DownHolds, Outstanding, Known, NotExecuted, Fresh, NothingLeft, Busy
  <2>6. History'
    BY <1>2 DEF Start, SessionInv, TypeOK, History, NoOvertaking, Awaited, Outstanding, Known, NotExecuted, Fresh, NothingLeft, Busy
  <2>. QED
    BY <2>1, <2>2, <2>3, <2>4, <2>5, <2>6 DEF Safe
<1>3. ASSUME NEW s \in Sessions, Submit(s) PROVE Safe'
  <2>. PICK option \in Options :
          up' = [up EXCEPT ![s] = Append(@, build_request(s, option))]
    BY <1>3 DEF Submit
  <2>0. PICK r \in Requests : /\ r = build_request(s, option)
                             /\ r.session = s
                             /\ r.number = sent[s] + 1
                             /\ r.after = shown
    BY RequestBuilt DEF SessionInv
  <2>7. /\ UNCHANGED <<shown, down, thread, job, backlog, abandoned, executed>>
        /\ client[s] = "menu" /\ shown[s] = sent[s]
        /\ client' = [client EXCEPT ![s] = "waiting"]
        /\ sent'[s] = sent[s] + 1 /\ sent[s] \in Nat
        /\ \A t \in Sessions \ {s} : up'[t] = up[t] /\ sent'[t] = sent[t]
    BY <1>3 DEF Submit, SessionInv, TypeOK, Turns
  <2>8. /\ up[s] = << >> /\ down[s] = << >>
        /\ ~Busy(s) /\ NothingLeft(s)
    BY <2>7
    DEF SessionInv, UpHolds, DownHolds, JobHolds, BacklogHolds, Outstanding,
        NothingLeft
  <2>9. up'[s] = Append(<< >>, r)
    BY <2>0, <2>8 DEF SessionInv, TypeOK
  <2>10. Head(up'[s]) = r /\ Tail(up'[s]) = << >> /\ up'[s] # << >>
    BY <2>0, <2>9, Singleton
  <2>11. /\ Known(r)' /\ Fresh(r)'
         /\ \A q : Known(q)' = Known(q) /\ Fresh(q)' = Fresh(q)
    <3>1. Known(r)'
      BY <2>0, <2>7 DEF Known, SessionInv, TypeOK
    <3>2. NotExecuted(r)'
      BY <2>0, <2>7, ExecutedTypes, RequestFields
      DEF NotExecuted, SessionInv, History
    <3>3. ASSUME NEW a \in abandoned
          PROVE  <<a.session, a.number>> # <<r.session, r.number>>
      <4>1. a.session \in Sessions /\ a.number \in Nat
        BY RequestFields DEF SessionInv, TypeOK
      <4>2. a.number <= sent[a.session] /\ sent[a.session] \in Nat
        BY <4>1 DEF SessionInv, TypeOK, AbandonedHolds
      <4>. QED
        BY <2>0, <2>7, <4>1, <4>2
    <3>. QED
      BY <2>7, <3>1, <3>2, <3>3 DEF Known, NotExecuted, Fresh
  <2>1. Turns'
    BY <2>7 DEF SessionInv, Turns, TypeOK
  <2>2. UpHolds'
    <3>1. Outstanding(Head(up[s]), s)' /\ Fresh(Head(up[s]))'
      BY <2>0, <2>7, <2>10, <2>11 DEF Outstanding
    <3>. QED
      BY <2>7, <2>8, <2>10, <2>11, <3>1
      DEF SessionInv, UpHolds, Outstanding, NothingLeft, Busy
  <2>3. JobHolds'
    BY <2>7, <2>8, <2>11
    DEF SessionInv, JobHolds, Outstanding, NothingLeft, Busy
  <2>4. BacklogHolds'
    BY <2>7, <2>8, <2>11, <1>0
    DEF SessionInv, BacklogHolds, Outstanding, NothingLeft
  <2>5. DownHolds'
    BY <2>7, <2>8, <2>11 DEF SessionInv, DownHolds, Outstanding
  <2>6. History'
    <3>1. ASSUME NEW i \in DOMAIN executed
          PROVE  executed[i].request.number <= sent'[executed[i].request.session]
      <4>1. executed[i].request.session \in Sessions
        BY ExecutedTypes, RequestFields DEF SessionInv
      <4>2. executed[i].request.number \in Nat
        BY ExecutedTypes, RequestFields DEF SessionInv
      <4>. QED
        BY <2>7, <4>1, <4>2 DEF SessionInv, History
    <3>. QED
      BY <2>7, <2>11, <3>1 DEF SessionInv, History, NoOvertaking, Awaited
  <2>. QED
    BY <2>1, <2>2, <2>3, <2>4, <2>5, <2>6 DEF Safe
<1>4. ASSUME NEW s \in Sessions, ShowAnswer(s) PROVE Safe'
  <2>7. /\ UNCHANGED <<sent, up, thread, job, backlog, abandoned, executed>>
        /\ down[s] # << >>
        /\ Tail(down[s]) = << >> /\ Outstanding(Head(down[s]), s)
    BY <1>4 DEF ShowAnswer, SessionInv, DownHolds
  <2>8. /\ up[s] = << >> /\ ~Busy(s) /\ NothingLeft(s)
    BY <2>7
    DEF SessionInv, UpHolds, JobHolds, BacklogHolds, NothingLeft
  <2>9. /\ client'[s] \in {"ended", "menu"}
        /\ shown'[s] = sent[s] /\ down'[s] = << >>
        /\ \A t \in Sessions \ {s} : /\ client'[t] = client[t]
                                     /\ shown'[t] = shown[t]
                                     /\ down'[t] = down[t]
    BY <1>4, <2>7 DEF ShowAnswer, SessionInv, TypeOK, Outstanding
  <2>10. \A t \in Sessions : /\ shown[t] \in Nat /\ shown'[t] \in Nat
                             /\ shown[t] <= shown'[t] /\ sent[t] \in Nat
    <3>1. \A t \in Sessions : shown[t] \in Nat /\ sent[t] \in Nat
      BY DEF SessionInv, TypeOK
    <3>2. shown[s] < sent[s]
      BY <2>7 DEF Outstanding
    <3>. QED
      BY <2>9, <3>1, <3>2
  <2>11. \A q \in Requests : /\ Known(q) => Known(q)'
                             /\ Fresh(q)' = Fresh(q)
    BY <2>7, <2>10, RequestFields DEF Known, NotExecuted, Fresh
  <2>12. \A t \in Sessions : /\ up[t] # << >> => Head(up[t]) \in Requests
                             /\ down[t] # << >> => Head(down[t]) \in Requests
    BY HeadAndTail DEF SessionInv, TypeOK
  <2>13. backlog \subseteq Requests
    BY DEF SessionInv, TypeOK
  <2>1. Turns'
    BY <2>7, <2>9 DEF SessionInv, Turns, TypeOK
  <2>2. UpHolds'
    BY <2>7, <2>8, <2>9, <2>11, <2>12
    DEF SessionInv, UpHolds, Outstanding, NothingLeft, Busy
  <2>3. JobHolds'
    BY <2>7, <2>8, <2>9, <2>11
    DEF SessionInv, JobHolds, Outstanding, NothingLeft, Busy
  <2>4. BacklogHolds'
    BY <2>7, <2>8, <2>9, <2>11, <2>13, <1>0
    DEF SessionInv, BacklogHolds, Outstanding, NothingLeft
  <2>5. DownHolds'
    BY <2>7, <2>9, <2>11, <2>12 DEF SessionInv, DownHolds, Outstanding
  <2>6. History'
    <3>1. \A i \in DOMAIN executed : executed[i].request \in Requests
      BY ExecutedTypes DEF SessionInv
    <3>. QED
      BY <2>7, <2>11, <3>1 DEF SessionInv, History, NoOvertaking, Awaited
  <2>. QED
    BY <2>1, <2>2, <2>3, <2>4, <2>5, <2>6 DEF Safe
<1>5. ASSUME NEW s \in Sessions, Timeout(s) \/ Disconnected(s) \/ Quit(s)
      PROVE Safe'
  <2>0. /\ client' = [client EXCEPT ![s] = "ended"]
        /\ \A t \in Sessions : up'[t] \in {up[t], << >>}
        /\ UNCHANGED <<sent, shown, down, thread, job, backlog, abandoned,
                       executed>>
    BY <1>5 DEF Timeout, Disconnected, Quit, End, SessionInv, TypeOK
  <2>1. Turns'
    BY <2>0
    DEF SessionInv, Turns, Outstanding, Known, NotExecuted, Fresh, NothingLeft, Busy, TypeOK
  <2>2. UpHolds'
    BY <2>0
    DEF SessionInv, UpHolds, Outstanding, Known, NotExecuted, Fresh, NothingLeft, Busy
  <2>3. JobHolds'
    BY <2>0
    DEF SessionInv, JobHolds, Outstanding, Known, NotExecuted, Fresh, NothingLeft, Busy
  <2>4. BacklogHolds'
    BY <2>0
    DEF SessionInv, BacklogHolds, Outstanding, Known, NotExecuted, Fresh, NothingLeft, Busy
  <2>5. DownHolds'
    BY <2>0
    DEF SessionInv, DownHolds, Outstanding, Known, NotExecuted, Fresh, NothingLeft, Busy
  <2>6. History'
    BY <2>0
    DEF SessionInv, History, NoOvertaking, Awaited, Outstanding, Known, NotExecuted, Fresh, NothingLeft, Busy
  <2>. QED
    BY <2>1, <2>2, <2>3, <2>4, <2>5, <2>6 DEF Safe
<1>6. ASSUME NEW s \in Sessions, Accept(s) \/ HangUp(s) PROVE Safe'
  <2>0. /\ UNCHANGED <<client, sent, shown, up, down, job, backlog, abandoned,
                       executed>>
        /\ thread[s] \in {"connected", "reading"}
        /\ thread'[s] \in {"reading", "ended"}
        /\ \A t \in Sessions \ {s} : thread'[t] = thread[t]
    BY <1>6 DEF Accept, HangUp, Step, SessionInv, TypeOK
  <2>1. Turns'
    BY <2>0
    DEF SessionInv, Turns, Outstanding, Known, NotExecuted, Fresh, NothingLeft, Busy
  <2>2. UpHolds'
    BY <2>0
    DEF SessionInv, UpHolds, Outstanding, Known, NotExecuted, Fresh, NothingLeft, Busy
  <2>3. JobHolds'
    BY <2>0
    DEF SessionInv, JobHolds, Outstanding, Known, NotExecuted, Fresh, NothingLeft, Busy
  <2>4. BacklogHolds'
    BY <2>0, <1>0
    DEF SessionInv, BacklogHolds, Outstanding, Known, NotExecuted, Fresh, NothingLeft, Busy
  <2>5. DownHolds'
    BY <2>0
    DEF SessionInv, DownHolds, Outstanding, Known, NotExecuted, Fresh, NothingLeft, Busy
  <2>6. History'
    BY <2>0
    DEF SessionInv, History, NoOvertaking, Awaited, Outstanding, Known, NotExecuted, Fresh, NothingLeft, Busy
  <2>. QED
    BY <2>1, <2>2, <2>3, <2>4, <2>5, <2>6 DEF Safe
<1>7. ASSUME NEW s \in Sessions, Read(s) PROVE Safe'
  <2>0. /\ UNCHANGED <<client, sent, shown, down, backlog, abandoned, executed>>
        /\ thread[s] = "reading" /\ thread'[s] = "working"
        /\ up[s] # << >> /\ job'[s] = Head(up[s]) /\ up'[s] = Tail(up[s])
        /\ job'[s] \in Requests
        /\ \A t \in Sessions \ {s} : /\ thread'[t] = thread[t]
                                     /\ job'[t] = job[t]
                                     /\ up'[t] = up[t]
    BY <1>7, HeadAndTail DEF Read, Step, SessionInv, TypeOK
  <2>1. Turns'
    BY <2>0
    DEF SessionInv, Turns, Outstanding, Known, NotExecuted, Fresh, NothingLeft, Busy
  <2>2. UpHolds'
    <3>1. up'[s] = << >>
      BY <2>0 DEF SessionInv, UpHolds
    <3>2. ASSUME NEW t \in Sessions \ {s}
          PROVE  Busy(t)' = Busy(t)
      BY <2>0 DEF Busy
    <3>. QED
      BY <2>0, <3>1, <3>2
      DEF SessionInv, UpHolds, Outstanding, Known, NotExecuted, Fresh, NothingLeft
  <2>3. JobHolds'
    <3>1. ASSUME NEW t \in Sessions \ {s}, Busy(t)'
          PROVE  /\ job'[t] \in Requests
                 /\ Outstanding(job[t], t)'
                 /\ down'[t] = << >>
                 /\ thread'[t] = "working" =>
                       Fresh(job[t])' /\ NothingLeft(t)'
      BY <2>0, <3>1
      DEF SessionInv, JobHolds, Outstanding, Known, NotExecuted, Fresh, NothingLeft, Busy
    <3>2. /\ Outstanding(job[s], s)'
          /\ down'[s] = << >>
          /\ Fresh(job[s])' /\ NothingLeft(s)'
      BY <2>0 DEF SessionInv, UpHolds, Outstanding, Known, NotExecuted, Fresh, NothingLeft, Busy
    <3>. QED
      BY <2>0, <3>1, <3>2 DEF JobHolds
  <2>4. BacklogHolds'
    BY <2>0, <1>0
    DEF SessionInv, BacklogHolds, Outstanding, Known, NotExecuted, Fresh, NothingLeft, Busy
  <2>5. DownHolds'
    BY <2>0
    DEF SessionInv, DownHolds, Outstanding, Known, NotExecuted, Fresh, NothingLeft, Busy
  <2>6. History'
    BY <2>0
    DEF SessionInv, History, NoOvertaking, Awaited, Outstanding, Known, NotExecuted, Fresh, NothingLeft, Busy
  <2>. QED
    BY <2>1, <2>2, <2>3, <2>4, <2>5, <2>6 DEF Safe
<1>8. ASSUME NEW s \in Sessions,
             Query(s) \/ Exit(s) \/ Refuse(s) \/ AnswerCommand(s)
      PROVE Safe'
  <2>7. /\ UNCHANGED <<client, sent, shown, up, backlog, abandoned, executed>>
        /\ Busy(s) /\ thread'[s] \in {"reading", "ended"}
        /\ thread[s] = "calling" => job[s] \notin backlog
        /\ Answer(s)
        /\ \A t \in Sessions \ {s} : thread'[t] = thread[t]
    BY <1>8
    DEF Query, Exit, Refuse, AnswerCommand, Step, Busy, SessionInv, TypeOK
  <2>8. /\ job[s] \in Requests /\ Outstanding(job[s], s) /\ down[s] = << >>
        /\ up[s] = << >>
    BY <2>7 DEF SessionInv, JobHolds, UpHolds
  <2>9. NothingLeft(s)
    BY <2>7 DEF SessionInv, JobHolds, BacklogHolds, Busy, NothingLeft
  <2>10. /\ down'[s] \in {<< >>, Append(<< >>, job[s])}
         /\ \A t \in Sessions \ {s} : down'[t] = down[t] /\ job'[t] = job[t]
    BY <2>7, <2>8 DEF Answer, SessionInv, TypeOK
  <2>11. \A q : /\ Known(q)' = Known(q) /\ Fresh(q)' = Fresh(q)
                /\ \A t \in Sessions : Outstanding(q, t)' = Outstanding(q, t)
    BY <2>7 DEF Known, NotExecuted, Fresh, Outstanding
  <2>1. Turns'
    BY <2>7 DEF SessionInv, Turns, Busy
  <2>2. UpHolds'
    BY <2>7, <2>8, <2>10, <2>11 DEF SessionInv, UpHolds, NothingLeft, Busy
  <2>3. JobHolds'
    BY <2>7, <2>10, <2>11 DEF SessionInv, JobHolds, NothingLeft, Busy
  <2>4. BacklogHolds'
    BY <2>7, <2>9, <2>10, <2>11, <1>0
    DEF SessionInv, BacklogHolds, NothingLeft
  <2>5. DownHolds'
    <3>1. down'[s] # << >> =>
             /\ Tail(down'[s]) = << >>
             /\ Outstanding(Head(down[s]), s)'
      BY <2>7, <2>8, <2>10, Singleton DEF Outstanding, Known
    <3>. QED
      BY <2>10, <2>11, <3>1 DEF SessionInv, DownHolds
  <2>6. History'
    BY <2>7, <2>11 DEF SessionInv, History, NoOvertaking, Awaited
  <2>. QED
    BY <2>1, <2>2, <2>3, <2>4, <2>5, <2>6 DEF Safe
<1>9. ASSUME NEW s \in Sessions, Forward(s) PROVE Safe'
  <2>0. /\ UNCHANGED <<client, sent, shown, up, down, job, abandoned, executed>>
        /\ thread[s] = "working" /\ thread'[s] = "calling"
        /\ backlog' = backlog \cup {job[s]}
        /\ \A t \in Sessions \ {s} : thread'[t] = thread[t]
    BY <1>9 DEF Forward, Step, SessionInv, TypeOK
  <2>10. /\ job[s] \in Requests
         /\ Outstanding(job[s], s) /\ Fresh(job[s])
         /\ NothingLeft(s) /\ down[s] = << >>
    BY <2>0 DEF SessionInv, JobHolds, Busy
  <2>1. Turns'
    BY <2>0
    DEF SessionInv, Turns, Outstanding, Known, NotExecuted, Fresh, NothingLeft, Busy
  <2>2. UpHolds'
    <3>1. up[s] = << >>
      BY <2>0 DEF SessionInv, UpHolds, Busy
    <3>2. ASSUME NEW t \in Sessions \ {s}
          PROVE  /\ NothingLeft(t) => NothingLeft(t)'
                 /\ ~Busy(t) => ~Busy(t)'
      BY <2>0, <2>10 DEF Outstanding, Known, NotExecuted, Fresh, NothingLeft, Busy
    <3>. QED
      BY <2>0, <3>1, <3>2
      DEF SessionInv, UpHolds, Outstanding, Known, NotExecuted, Fresh
  <2>3. JobHolds'
    <3>1. ASSUME NEW t \in Sessions \ {s}, Busy(t)'
          PROVE  /\ job'[t] \in Requests
                 /\ Outstanding(job[t], t)'
                 /\ down'[t] = << >>
                 /\ thread'[t] = "working" =>
                       Fresh(job[t])' /\ NothingLeft(t)'
      BY <2>0, <2>10, <3>1
      DEF SessionInv, JobHolds, Outstanding, Known, NotExecuted, Fresh, NothingLeft, Busy
    <3>2. Outstanding(job[s], s)'
      BY <2>0, <2>10 DEF Outstanding, Known
    <3>. QED
      BY <2>0, <2>10, <3>1, <3>2 DEF JobHolds
  <2>4. BacklogHolds'
    <3>1. job[s].session = s
      BY <2>10 DEF Outstanding
    <3>2. ASSUME NEW r \in backlog
          PROVE  /\ r.session # s
                 /\ thread'[r.session] = thread[r.session]
      BY <2>0, <2>10, <1>0 DEF NothingLeft
    <3>. QED
      BY <2>0, <2>10, <3>1, <3>2
      DEF SessionInv, BacklogHolds, Outstanding, Known, NotExecuted, Fresh
  <2>5. DownHolds'
    BY <2>0
    DEF SessionInv, DownHolds, Outstanding, Known, NotExecuted, Fresh, NothingLeft, Busy
  <2>6. History'
    BY <2>0
    DEF SessionInv, History, NoOvertaking, Awaited, Outstanding, Known, NotExecuted, Fresh, NothingLeft, Busy
  <2>. QED
    BY <2>1, <2>2, <2>3, <2>4, <2>5, <2>6 DEF Safe
<1>10. CASE Crash
  <2>0. /\ UNCHANGED <<client, sent, shown, up, executed>>
        /\ backlog' \subseteq backlog /\ abandoned' \subseteq abandoned
        /\ \A t \in Sessions :
              /\ down'[t] \in {down[t], << >>}
              /\ thread'[t] = IF thread[t] = "none" THEN "none" ELSE "ended"
    BY <1>10 DEF Crash, SessionInv, TypeOK
  <2>1. Turns'
    BY <2>0
    DEF SessionInv, Turns, Outstanding, Known, NotExecuted, Fresh, NothingLeft, Busy
  <2>2. UpHolds'
    BY <2>0
    DEF SessionInv, UpHolds, Outstanding, Known, NotExecuted, Fresh, NothingLeft, Busy
  <2>3. JobHolds'
    BY <2>0
    DEF SessionInv, JobHolds, Outstanding, Known, NotExecuted, Fresh, NothingLeft, Busy
  <2>4. BacklogHolds'
    BY <2>0, <1>0
    DEF SessionInv, BacklogHolds, Outstanding, Known, NotExecuted, Fresh, NothingLeft, Busy
  <2>5. DownHolds'
    BY <2>0
    DEF SessionInv, DownHolds, Outstanding, Known, NotExecuted, Fresh, NothingLeft, Busy
  <2>6. History'
    BY <2>0
    DEF SessionInv, History, NoOvertaking, Awaited, Outstanding, Known, NotExecuted, Fresh, NothingLeft, Busy
  <2>. QED
    BY <2>1, <2>2, <2>3, <2>4, <2>5, <2>6 DEF Safe
<1>11. CASE Restart
  <2>1. Turns'
    BY <1>11 DEF Restart, SessionInv, TypeOK, Turns, Outstanding, Known, NotExecuted, Fresh, NothingLeft, Busy
  <2>2. UpHolds'
    BY <1>11 DEF Restart, SessionInv, TypeOK, UpHolds, Outstanding, Known, NotExecuted, Fresh, NothingLeft, Busy
  <2>3. JobHolds'
    BY <1>11 DEF Restart, SessionInv, TypeOK, JobHolds, Outstanding, Known, NotExecuted, Fresh, NothingLeft, Busy
  <2>4. BacklogHolds'
    BY <1>11, <1>0 DEF Restart, SessionInv, TypeOK, BacklogHolds, Outstanding, Known, NotExecuted, Fresh, NothingLeft, Busy
  <2>5. DownHolds'
    BY <1>11 DEF Restart, SessionInv, TypeOK, DownHolds, Outstanding, Known, NotExecuted, Fresh, NothingLeft, Busy
  <2>6. History'
    BY <1>11 DEF Restart, SessionInv, TypeOK, History, NoOvertaking, Awaited, Outstanding, Known, NotExecuted, Fresh, NothingLeft, Busy
  <2>. QED
    BY <2>1, <2>2, <2>3, <2>4, <2>5, <2>6 DEF Safe
<1>12. ASSUME NEW r \in backlog \cup abandoned, Execute(r) PROVE Safe'
  <2>. DEFINE new == [request |-> r, changed |-> PowerAfter(r) # power,
                      givenUp |-> r \in abandoned]
              n == Len(executed)
  <2>7. /\ UNCHANGED <<client, sent, shown, up, down, thread, job>>
        /\ backlog' = backlog \ {r} /\ abandoned' = abandoned \ {r}
        /\ executed' = Append(executed, new)
    BY <1>12 DEF Execute, Executed
  <2>8. /\ r \in Requests /\ r.session \in Sessions /\ n \in Nat
        /\ Known(r) /\ r.number \in Nat /\ r.number <= sent[r.session]
    <3>1. r \in Requests /\ n \in Nat
      BY DEF SessionInv, TypeOK
    <3>2. r.session \in Sessions /\ r.number \in Nat
      BY <3>1, RequestFields
    <3>3. CASE r \in backlog
      BY <3>1, <3>2, <3>3 DEF SessionInv, BacklogHolds, Outstanding
    <3>4. CASE r \in abandoned
      BY <3>1, <3>2, <3>4 DEF SessionInv, AbandonedHolds
    <3>. QED
      BY <3>1, <3>2, <3>3, <3>4
  <2>12. r \in backlog => /\ Outstanding(r, r.session)
                          /\ \A q \in backlog : q.session = r.session => q = r
    BY DEF SessionInv, BacklogHolds
  <2>9. /\ DOMAIN executed = 1 .. n
        /\ DOMAIN executed' = 1 .. n + 1
        /\ \A i \in 1 .. n : executed'[i] = executed[i]
        /\ executed'[n + 1] = new
        /\ new.request = r /\ new.givenUp = (r \in abandoned)
    BY <2>7 DEF SessionInv, TypeOK
  <2>. HIDE DEF new, n
  <2>10. ASSUME NEW q, Fresh(q), r \in backlog => q.session # r.session
         PROVE  Fresh(q)'
    <3>1. <<q.session, q.number>> # <<r.session, r.number>>
      BY <2>10 DEF Fresh
    <3>2. ASSUME NEW i \in DOMAIN executed'
          PROVE  \/ executed'[i].request = r
                 \/ i \in DOMAIN executed /\ executed'[i] = executed[i]
      <4>1. i \in 1 .. n \/ i = n + 1
        BY <2>8, <2>9
      <4>. QED
        BY <2>9, <4>1
    <3>. QED
      BY <2>7, <2>10, <3>1, <3>2 DEF Fresh, NotExecuted
  <2>11. \A q : /\ Known(q)' = Known(q)
                /\ \A t \in Sessions : Outstanding(q, t)' = Outstanding(q, t)
    BY <2>7 DEF Known, Outstanding
  <2>1. Turns'
    BY <2>7 DEF SessionInv, Turns
  <2>2. UpHolds'
    <3>1. ASSUME NEW t \in Sessions, up[t] # << >>
          PROVE  Fresh(Head(up[t]))' /\ NothingLeft(t)'
      <4>1. /\ Fresh(Head(up[t])) /\ NothingLeft(t)
            /\ Head(up[t]).session = t
        BY <3>1 DEF SessionInv, UpHolds, Outstanding
      <4>2. r \in backlog => r.session # t
        BY <4>1 DEF NothingLeft
      <4>3. NothingLeft(t)'
        BY <2>7, <4>1 DEF NothingLeft
      <4>4. ASSUME NEW q, q = Head(up[t]) PROVE Fresh(q)'
        BY <2>10, <4>1, <4>2, <4>4
      <4>. QED
        BY <2>7, <4>3, <4>4 DEF Fresh, NotExecuted
    <3>. QED
      BY <2>7, <2>11, <3>1 DEF SessionInv, UpHolds, Busy
  <2>3. JobHolds'
    <3>1. ASSUME NEW t \in Sessions, thread[t] = "working"
          PROVE  Fresh(job[t])' /\ NothingLeft(t)'
      <4>1. Fresh(job[t]) /\ NothingLeft(t) /\ job[t].session = t
        BY <3>1 DEF SessionInv, JobHolds, Outstanding, Busy
      <4>2. r \in backlog => r.session # t
        BY <4>1 DEF NothingLeft
      <4>3. NothingLeft(t)'
        BY <2>7, <4>1 DEF NothingLeft
      <4>4. ASSUME NEW q, q = job[t] PROVE Fresh(q)'
        BY <2>10, <4>1, <4>2, <4>4
      <4>. QED
        BY <2>7, <4>3, <4>4 DEF Fresh, NotExecuted
    <3>. QED
      BY <2>7, <2>11, <3>1 DEF SessionInv, JobHolds, Busy
  <2>4. BacklogHolds'
    <3>1. ASSUME NEW q \in backlog'
          PROVE  Fresh(q)'
      BY <2>7, <2>10, <2>12, <3>1 DEF SessionInv, BacklogHolds
    <3>. QED
      BY <2>7, <2>11, <3>1, <1>0 DEF SessionInv, BacklogHolds
  <2>5. DownHolds'
    BY <2>7, <2>11 DEF SessionInv, DownHolds
  <2>6. History'
    <3>1. ASSUME NEW i \in DOMAIN executed'
          PROVE  /\ Known(executed[i].request)'
                 /\ executed'[i].request.number <=
                       sent'[executed'[i].request.session]
      <4>1. CASE i \in 1 .. n
        <5>1. /\ Known(executed[i].request)
              /\ executed[i].request.number <= sent[executed[i].request.session]
          BY <2>9, <4>1 DEF SessionInv, History
        <5>2. executed'[i] = executed[i]
          BY <2>9, <4>1
        <5>. QED
          BY <2>7, <5>1, <5>2 DEF Known
      <4>2. CASE i = n + 1
        <5>1. executed'[i].request = r
          BY <2>9, <4>2
        <5>. QED
          BY <2>7, <2>8, <5>1 DEF Known
      <4>. QED
        BY <2>8, <2>9, <4>1, <4>2
    <3>2. ASSUME NEW i \in DOMAIN executed', NEW j \in DOMAIN executed', i < j,
                 Awaited(executed'[j])
          PROVE  executed'[j].request.number >
                    executed'[i].request.after[executed'[j].request.session]
      <4>1. i \in 1 .. n
        BY <2>8, <2>9, <3>2
      <4>2. CASE j \in 1 .. n
        BY <2>9, <3>2, <4>1, <4>2 DEF SessionInv, History, NoOvertaking, Awaited
      <4>3. CASE j = n + 1
        <5>1. Known(executed[i].request) /\ executed[i].request \in Requests
          BY <2>9, <4>1, ExecutedTypes DEF SessionInv, History
        <5>2. executed[i].request.after[r.session] <= shown[r.session]
          BY <2>8, <5>1 DEF Known
        <5>3. /\ executed[i].request.after[r.session] \in Nat
              /\ shown[r.session] \in Nat /\ sent[r.session] \in Nat
          BY <2>8, <5>1, RequestFields DEF SessionInv, TypeOK
        <5>4. r \in backlog
          BY <2>9, <3>2, <4>3 DEF Awaited, SessionInv, AbandonedHolds
        <5>. QED
          BY <2>9, <2>12, <4>1, <4>3, <5>2, <5>3, <5>4 DEF Outstanding
      <4>. QED
        BY <2>8, <2>9, <4>2, <4>3
    <3>3. NoOvertaking'
      BY <3>2 DEF NoOvertaking, Awaited
    <3>. QED
      BY <3>1, <3>3 DEF History
  <2>. QED
    BY <2>1, <2>2, <2>3, <2>4, <2>5, <2>6 DEF Safe
<1>14. ASSUME NEW s \in Sessions, GiveUp(s) PROVE Safe'
  <2>7. /\ UNCHANGED <<client, sent, shown, up, executed>>
        /\ thread[s] = "calling" /\ thread'[s] = "reading"
        /\ job[s] \in backlog
        /\ backlog' = backlog \ {job[s]}
        /\ abandoned' = abandoned \cup {job[s]}
        /\ Answer(s)
        /\ \A t \in Sessions \ {s} : thread'[t] = thread[t]
    BY <1>14 DEF GiveUp, Step, SessionInv, TypeOK
  <2>8. /\ job[s] \in Requests /\ Outstanding(job[s], s) /\ down[s] = << >>
        /\ up[s] = << >>
    BY <2>7 DEF SessionInv, JobHolds, UpHolds, Busy
  <2>9. \A q \in backlog' : q \in backlog /\ q.session # s
    BY <2>7, <2>8 DEF SessionInv, BacklogHolds, Outstanding
  <2>10. /\ down'[s] \in {<< >>, Append(<< >>, job[s])}
         /\ \A t \in Sessions \ {s} : down'[t] = down[t] /\ job'[t] = job[t]
    BY <2>7, <2>8 DEF Answer, SessionInv, TypeOK
  <2>11. /\ \A q : /\ Known(q)' = Known(q)
                   /\ \A t \in Sessions : Outstanding(q, t)' = Outstanding(q, t)
         /\ \A q : Fresh(q) /\ q.session # s => Fresh(q)'
    <3>1. job[s].session = s
      BY <2>8 DEF Outstanding
    <3>. QED
      BY <2>7, <3>1 DEF Known, NotExecuted, Fresh, Outstanding
  <2>1. Turns'
    BY <2>7 DEF SessionInv, Turns, Busy
  <2>2. UpHolds'
    BY <2>7, <2>8, <2>9, <2>10, <2>11
    DEF SessionInv, UpHolds, NothingLeft, Busy, Outstanding
  <2>3. JobHolds'
    BY <2>7, <2>9, <2>10, <2>11
    DEF SessionInv, JobHolds, NothingLeft, Busy, Outstanding
  <2>4. BacklogHolds'
    BY <2>7, <2>9, <2>10, <2>11, <1>0 DEF SessionInv, BacklogHolds
  <2>5. DownHolds'
    <3>1. down'[s] # << >> =>
             /\ Tail(down'[s]) = << >>
             /\ Outstanding(Head(down[s]), s)'
      BY <2>7, <2>8, <2>10, Singleton DEF Outstanding, Known
    <3>. QED
      BY <2>10, <2>11, <3>1 DEF SessionInv, DownHolds
  <2>6. History'
    BY <2>7, <2>11 DEF SessionInv, History, NoOvertaking, Awaited
  <2>. QED
    BY <2>1, <2>2, <2>3, <2>4, <2>5, <2>6 DEF Safe
<1>13. CASE DeviceFails
  <2>1. Turns'
    BY <1>13 DEF DeviceFails, SessionInv, TypeOK, Turns, Outstanding, Known, NotExecuted, Fresh, NothingLeft, Busy
  <2>2. UpHolds'
    BY <1>13 DEF DeviceFails, SessionInv, TypeOK, UpHolds, Outstanding, Known, NotExecuted, Fresh, NothingLeft, Busy
  <2>3. JobHolds'
    BY <1>13 DEF DeviceFails, SessionInv, TypeOK, JobHolds, Outstanding, Known, NotExecuted, Fresh, NothingLeft, Busy
  <2>4. BacklogHolds'
    BY <1>13, <1>0 DEF DeviceFails, SessionInv, TypeOK, BacklogHolds, Outstanding, Known, NotExecuted, Fresh, NothingLeft, Busy
  <2>5. DownHolds'
    BY <1>13 DEF DeviceFails, SessionInv, TypeOK, DownHolds, Outstanding, Known, NotExecuted, Fresh, NothingLeft, Busy
  <2>6. History'
    BY <1>13 DEF DeviceFails, SessionInv, TypeOK, History, NoOvertaking, Awaited, Outstanding, Known, NotExecuted, Fresh, NothingLeft, Busy
  <2>. QED
    BY <2>1, <2>2, <2>3, <2>4, <2>5, <2>6 DEF Safe
<1>. QED
  BY <1>1, <1>2, <1>3, <1>4, <1>5, <1>6, <1>7, <1>8, <1>9, <1>10, <1>11,
     <1>12, <1>13, <1>14 DEF SessionInv, Next, ClientStep, ThreadStep

\* What the gateway has given up on stays known from all other commands.
LEMMA AbandonedStep == SessionInv /\ [Next]_vars => AbandonedHolds'
<1>. SUFFICES ASSUME SessionInv, [Next]_vars PROVE AbandonedHolds'
  OBVIOUS
<1>. USE DEF clientVars, deviceVars, gatewayVars
<1>0. /\ \A s \in Sessions : sent[s] \in Nat /\ shown[s] \in Nat
      /\ \A r \in abandoned : /\ r.session \in Sessions /\ r.number \in Nat
                              /\ r.after \in [Sessions -> Nat]
  BY RequestFields DEF SessionInv, TypeOK
<1>1. ASSUME UNCHANGED executed, abandoned' \subseteq abandoned,
             \A s \in Sessions : /\ sent'[s] \in Nat /\ sent[s] <= sent'[s]
                                 /\ shown'[s] \in Nat /\ shown[s] <= shown'[s]
      PROVE  AbandonedHolds'
  <2>. SUFFICES ASSUME NEW r \in abandoned'
                PROVE  /\ GatewayTimeout /\ Known(r)'
                       /\ r.number <= sent'[r.session] /\ NotExecuted(r)'
                       /\ \A q \in abandoned' :
                             <<q.session, q.number>> = <<r.session, r.number>>
                                => q = r
    BY DEF AbandonedHolds
  <2>1. /\ GatewayTimeout /\ Known(r) /\ NotExecuted(r)
        /\ r.number <= sent[r.session]
        /\ \A q \in abandoned' :
              <<q.session, q.number>> = <<r.session, r.number>> => q = r
    BY <1>1 DEF SessionInv, AbandonedHolds
  <2>2. Known(r)'
    BY <1>0, <1>1, <2>1 DEF Known
  <2>3. r.number <= sent'[r.session]
    BY <1>0, <1>1, <2>1
  <2>4. NotExecuted(r)'
    BY <1>1, <2>1 DEF NotExecuted
  <2>. QED
    BY <2>1, <2>2, <2>3, <2>4
<1>2. ASSUME UNCHANGED <<executed, sent, shown>>, abandoned' \subseteq abandoned
      PROVE  AbandonedHolds'
  BY <1>0, <1>1, <1>2
<1>3. ASSUME NEW s \in Sessions, Submit(s) PROVE AbandonedHolds'
  <2>1. UNCHANGED <<executed, shown, abandoned>>
    BY <1>3 DEF Submit
  <2>2. \A t \in Sessions : sent'[t] \in Nat /\ sent[t] <= sent'[t]
    BY <1>0, <1>3 DEF Submit, SessionInv, TypeOK
  <2>. QED
    BY <1>0, <1>1, <2>1, <2>2
<1>4. ASSUME NEW s \in Sessions, ShowAnswer(s) PROVE AbandonedHolds'
  <2>1. UNCHANGED <<executed, sent, abandoned>>
    BY <1>4 DEF ShowAnswer
  <2>2. \A t \in Sessions : shown'[t] \in Nat /\ shown[t] <= shown'[t]
    <3>1. Outstanding(Head(down[s]), s)
      BY <1>4 DEF ShowAnswer, SessionInv, DownHolds
    <3>. QED
      BY <1>0, <1>4, <3>1 DEF ShowAnswer, Outstanding, SessionInv, TypeOK
  <2>. QED
    BY <1>0, <1>1, <2>1, <2>2
<1>5. ASSUME NEW s \in Sessions, GiveUp(s) PROVE AbandonedHolds'
  <2>1. /\ GatewayTimeout
        /\ job[s] \in backlog
        /\ abandoned' = abandoned \cup {job[s]}
        /\ UNCHANGED <<executed, sent, shown>>
    BY <1>5 DEF GiveUp
  <2>2. /\ Outstanding(job[s], job[s].session) /\ Fresh(job[s])
        /\ job[s].session \in Sessions
    BY <2>1, RequestFields DEF SessionInv, TypeOK, BacklogHolds
  <2>3. \A q : Known(q)' = Known(q) /\ NotExecuted(q)' = NotExecuted(q)
    BY <2>1 DEF Known, NotExecuted
  <2>4. job[s].number <= sent[job[s].session]
    BY <1>0, <2>2 DEF Outstanding
  <2>. QED
    BY <2>1, <2>2, <2>3, <2>4
    DEF SessionInv, AbandonedHolds, Outstanding, Fresh
<1>6. ASSUME NEW r \in backlog \cup abandoned, Execute(r) PROVE AbandonedHolds'
  <2>1. /\ abandoned' = abandoned \ {r}
        /\ UNCHANGED <<sent, shown>>
        /\ executed' = Executed(r)
    BY <1>6 DEF Execute
  <2>2. ASSUME NEW a \in abandoned'
        PROVE  <<a.session, a.number>> # <<r.session, r.number>>
    <3>1. CASE r \in backlog
      BY <2>1, <3>1 DEF SessionInv, BacklogHolds, Fresh
    <3>2. CASE r \in abandoned
      BY <2>1, <3>2 DEF SessionInv, AbandonedHolds
    <3>. QED
      BY <3>1, <3>2
  <2>3. ASSUME NEW i \in DOMAIN executed'
        PROVE  \/ executed'[i].request = r
               \/ i \in DOMAIN executed /\ executed'[i] = executed[i]
    <3>1. executed \in Seq(Entries)
      BY DEF SessionInv, TypeOK
    <3>2. PICK e : executed' = Append(executed, e) /\ e.request = r
      BY <2>1 DEF Executed
    <3>. QED
      BY <3>1, <3>2
  <2>4. \A a \in abandoned' : NotExecuted(a)' /\ Known(a)'
    BY <2>1, <2>2, <2>3 DEF SessionInv, AbandonedHolds, NotExecuted, Known
  <2>. QED
    BY <2>1, <2>4 DEF SessionInv, AbandonedHolds
<1>7. ASSUME NEW s \in Sessions,
             \/ Start(s) \/ Timeout(s) \/ Disconnected(s) \/ Quit(s)
             \/ ThreadStep(s)
      PROVE  AbandonedHolds'
  BY <1>2, <1>7
  DEF Start, End, Timeout, Disconnected, Quit, ThreadStep, Accept, Read, HangUp,
      Query, Exit, Forward, Refuse, AnswerCommand
<1>8. CASE DeviceFails \/ Crash \/ Restart \/ UNCHANGED vars
  BY <1>2, <1>8 DEF DeviceFails, Crash, Restart, vars
<1>. QED
  BY <1>3, <1>4, <1>5, <1>6, <1>7, <1>8 DEF Next, ClientStep

-----------------------------------------------------------------------------
(* Theorems                                                                *)

\* The invariant holds in every state of every behaviour.
THEOREM SessionInvariance == Spec => []SessionInv
<1>1. SessionInv /\ [Next]_vars => SessionInv'
  BY TypeStep, SafeStep, AbandonedStep DEF SessionInv, Safe
<1>. QED
  BY InitHolds, <1>1, PTL DEF Spec

\* Every variable of the sessions has its type (client.c, gateway.c).
THEOREM TypeCorrect == Spec => []TypeOK
<1>1. SessionInv => TypeOK
  BY DEF SessionInv
<1>. QED
  BY <1>1, SessionInvariance, PTL

\* A user who is back at the menu has seen the answer to what he asked last:
\* taking turns, and ending after a timeout, keep answers and requests
\* together (client.c 873-937).
THEOREM AnswersAlwaysMatch == Spec => []AnswersMatch
<1>1. SessionInv => AnswersMatch
  BY DEF SessionInv, Turns, AnswersMatch
<1>. QED
  BY <1>1, SessionInvariance, PTL

\* No command is executed before one whose answer was shown before it was
\* sent, in whatever session, unless the Python gateway had given up on it
\* (gateway.c and gateway.py: client_thread, send_control_command).
THEOREM NothingOvertakes == Spec => []NoOvertaking
<1>1. SessionInv => NoOvertaking
  BY DEF SessionInv, History
<1>. QED
  BY <1>1, SessionInvariance, PTL

\* Of a client that has gone at most its last command is still executed, and
\* those that the Python gateway gave up on; no command is executed twice.
THEOREM OneLeftBehind == Spec => OneIsLeftBehind
<1>. DEFINE A == executed' # executed =>
         LET last == executed'[Len(executed')]
             r == last.request
         IN  /\ client[r.session] = "ended" /\ Awaited(last) =>
                    r.number = sent[r.session] /\ r.number > shown[r.session]
             /\ \A i \in DOMAIN executed :
                    LET e == executed[i].request
                    IN  <<e.session, e.number>> # <<r.session, r.number>>
<1>1. SessionInv /\ [Next]_vars => A
  <2>. SUFFICES ASSUME SessionInv, [Next]_vars, executed' # executed PROVE A
    OBVIOUS
  <2>. USE DEF clientVars, deviceVars, gatewayVars
  <2>1. PICK r \in backlog \cup abandoned : Execute(r)
    BY DEF Next, ClientStep, ThreadStep, vars, Start, Submit, ShowAnswer, End,
           Timeout, Disconnected, Quit, Accept, Read, HangUp, Query, Exit,
           Forward, Refuse, AnswerCommand, GiveUp, Crash, Restart, DeviceFails
  <2>2. /\ executed'[Len(executed')].request = r
        /\ executed'[Len(executed')].givenUp = (r \in abandoned)
    <3>1. PICK x : /\ x = [request |-> r, changed |-> PowerAfter(r) # power,
                           givenUp |-> r \in abandoned]
                   /\ executed' = Append(executed, x)
      BY <2>1 DEF Execute, Executed
    <3>2. x.request = r /\ x.givenUp = (r \in abandoned)
      BY <3>1
    <3>3. executed \in Seq(Entries)
      BY DEF SessionInv, TypeOK
    <3>4. executed'[Len(executed')] = x
      BY <3>1, <3>3
    <3>. QED
      BY <3>2, <3>4
  <2>3. NotExecuted(r)
    BY <2>1 DEF SessionInv, BacklogHolds, Fresh, AbandonedHolds
  <2>4. ASSUME Awaited(executed'[Len(executed')])
        PROVE  r.number = sent[r.session] /\ r.number > shown[r.session]
    <3>1. r \in backlog
      BY <2>1, <2>2, <2>4 DEF Awaited, SessionInv, AbandonedHolds
    <3>2. Outstanding(r, r.session)
      BY <3>1 DEF SessionInv, BacklogHolds
    <3>3. /\ r.session \in Sessions
          /\ sent[r.session] \in Nat /\ shown[r.session] \in Nat
      BY <3>1, RequestFields DEF SessionInv, TypeOK
    <3>. QED
      BY <3>2, <3>3 DEF Outstanding
  <2>. QED
    BY <2>2, <2>3, <2>4 DEF NotExecuted
<1>2. Spec => [][A]_vars
  BY <1>1, SessionInvariance, PTL DEF Spec
<1>. QED
  BY <1>2 DEF OneIsLeftBehind

=============================================================================
