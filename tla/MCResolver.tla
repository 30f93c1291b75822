---------------------------- MODULE MCResolver -----------------------------
(* Instances of Resolver for TLC: two callers that look up one host, and   *)
(* one that looks up another, or an address.                               *)
EXTENDS Resolver, TLC

CONSTANTS c1, c2, c3, n1, n2, address, i1, i2

AllHosts == (c1 :> {n1}) @@ (c2 :> {n1}) @@ (c3 :> {n2, address})
CallersHosts == [c \in Callers |-> AllHosts[c]]
=============================================================================
