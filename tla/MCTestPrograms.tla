--------------------------- MODULE MCTestPrograms ---------------------------
(* Values of the constants of TestPrograms for TLC.                         *)
EXTENDS TestPrograms

Slot5 == {[first |-> 5, second |-> 5]}
=============================================================================
