--------------------------- MODULE MCWebProcesses ---------------------------
(* One page: what another can do to the processes may happen elsewhere, too. *)
EXTENDS WebProcessesProofs

CONSTANT page1
=============================================================================
