----------------------------- MODULE MCAnyClient -----------------------------
(* Values of the constants of CacheController for TLC, and a bound.         *)
EXTENDS CacheController

OneBlock == {[first |-> 0, second |-> 0]}

\* The bound on the state space: how many request fifos, and how many response
\* fifos, are full at a time.  The threads themselves are not bounded: all four may
\* be at work, and a thread may find its response fifo full.
CONSTANT MaxMessages

FewMessages ==
    /\ Cardinality({c \in Channels : req_fifo[c] # NoMsg}) <= MaxMessages
    /\ Cardinality({c \in Channels : rsp_fifo[c] # NoMsg}) <= MaxMessages

=============================================================================
