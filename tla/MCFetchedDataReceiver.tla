----------------------- MODULE MCFetchedDataReceiver -----------------------
(***************************************************************************)
(* Two fetches of one URL.  One response may be stored, the other not.     *)
(***************************************************************************)
EXTENDS FetchedDataReceiver

CONSTANTS f1, f2
=============================================================================
