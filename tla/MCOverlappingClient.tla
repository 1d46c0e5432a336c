------------------------- MODULE MCOverlappingClient -------------------------
(* Values of the constants of OverlappingClient for TLC.                    *)
EXTENDS OverlappingClient

NoRanges == {}
=============================================================================
