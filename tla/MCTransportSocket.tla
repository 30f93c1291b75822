------------------------- MODULE MCTransportSocket -------------------------
(***************************************************************************)
(* Two ends of a transport, for TLC.                                       *)
(***************************************************************************)
EXTENDS TransportSocket

CONSTANTS a, b, m1, m2

MCEnds == {a, b}
MCPeer == (a :> b) @@ (b :> a)

MCMessages == {m1, m2}

(* Who posts what: one end two messages, the other acknowledgements only.  *)
TwoMessages == (a :> <<m1, m2>>) @@ (b :> << >>)

(* More descriptors than travel together.                                  *)
ManyFds == (m1 :> 2) @@ (m2 :> 1)

(* The one that posts sends what is pending before it closes, the other    *)
(* closes at once.                                                         *)
BothClose == (a :> {"sent"}) @@ (b :> {"now"})

=============================================================================
