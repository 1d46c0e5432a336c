--------------------------- MODULE MCRecencyClient ---------------------------
(* Values of the constants of RecencyClient for TLC.                        *)
EXTENDS RecencyClient

NoRanges == {}

ASSUME ClientsAreServed == SafeAttributes /\ AlignedAddrs /\ NoInternal
=============================================================================
