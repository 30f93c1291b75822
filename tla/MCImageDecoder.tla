---------------------------- MODULE MCImageDecoder ----------------------------
(* ImageDecoder for TLC: the browser and one other client, four images. *)
EXTENDS ImageDecoder

CONSTANTS browser, content

MCClients == {browser, content}
MCImages == 1 .. 4
MCOwner == [i \in MCImages |-> IF i = 4 THEN browser ELSE content]
MCInvalid == {1}
MCFaults == {"crash", "replace"}
===============================================================================
