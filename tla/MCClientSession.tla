--------------------------- MODULE MCClientSession ---------------------------
(* Two runs of the client. *)
EXTENDS ClientSession, TLC

CONSTANTS s1, s2

\* A query, on, the end.
SomeOptions == {1, 7, 11}

\* One user asks twice, the other once.
TwoAndOne == (s1 :> 2) @@ (s2 :> 1)
=============================================================================
