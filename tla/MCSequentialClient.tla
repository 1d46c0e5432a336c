------------------------- MODULE MCSequentialClient -------------------------
(* Values of the constants of SequentialClient for TLC.                     *)
EXTENDS SequentialClient

Span(a, b) == [first |-> a, second |-> b]

\* With lines of two words: inside a line; across lines; one that ends at the
\* start of a line; one of a single word; one past every cached line.
Ranges == {Span(0, 1), Span(1, 3), Span(0, 4), Span(2, 2), Span(8, 9)}

\* The end of the address space, where the rounded end of the range wraps.
LastBlock == {Span(UIntMod - 2, UIntMod - 1)}

NoRanges == {}
=============================================================================
