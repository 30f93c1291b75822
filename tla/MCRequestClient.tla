-------------------------- MODULE MCRequestClient --------------------------
(***************************************************************************)
(* A few requests of one process, of either kind.                          *)
(***************************************************************************)
EXTENDS RequestClient

CONSTANTS r1, r2, r3
=============================================================================
