--------------------------- MODULE MessageChannel ---------------------------
(***************************************************************************)
(* What a program that calls smart_send_msg and smart_recv_msg relies on:  *)
(* messages arrive whole, unchanged, each once, in the order they were     *)
(* sent, or not at all.  Module Framing implements it over a stream of     *)
(* bytes; modules ControlPath and ClientSession take it for granted.       *)
(***************************************************************************)
EXTENDS Sequences, Naturals

CONSTANT Messages

VARIABLES
    sent,       \* the messages handed over for sending
    received    \* the messages handed out to the receiver

Init == sent = << >> /\ received = << >>

Send(m) == sent' = Append(sent, m) /\ UNCHANGED received

Deliver ==
    /\ Len(received) < Len(sent)
    /\ received' = Append(received, sent[Len(received) + 1])
    /\ UNCHANGED sent

Next == (\E m \in Messages : Send(m)) \/ Deliver

Spec == Init /\ [][Next]_<<sent, received>>
=============================================================================
