----------------------------- MODULE MCPresence -----------------------------
(* Small instances of Presence, and of its inductive invariant, for TLC, *)
(* with the periods of the code.                                         *)
EXTENDS PresenceProofs

\* A sensor announces the period of its readings, an actuator none.
Announced == [d \in Devices |-> IF d \in Sensors THEN 2 ELSE 0]
=============================================================================
