----------------------------- MODULE MCFraming -----------------------------
(* A small instance of Framing for TLC. *)
EXTENDS Framing

\* An empty message, one that looks like a header, and one of three bytes.
SmallMessages == {<< >>, <<0, 0, 0, 1>>, <<7, 0, 9>>}
=============================================================================
