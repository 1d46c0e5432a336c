-------------------------- MODULE MCDisjointClient --------------------------
(* Values of the constants of DisjointClient for TLC.                       *)
EXTENDS DisjointClient

NoRanges == {}
OneBlock == {[first |-> 0, second |-> 0]}

ASSUME ClientsAreServed == SafeAttributes /\ AlignedAddrs
=============================================================================
