-------------------------- MODULE SequentialClient --------------------------
(***************************************************************************)
(* The controller under a client like the repository's tests: it puts one  *)
(* request at a time, on any of the four channels, and gets the answer     *)
(* before it puts the next.  expected is what such a test keeps in         *)
(* data_write or test_data: the last value it wrote to each address.       *)
(***************************************************************************)
EXTENDS CacheController

VARIABLE expected

seqVars == <<vars, expected>>

Quiet == \A c \in Channels : ~ Outstanding(c)

SeqInit == Init /\ expected = [a \in ClientAddrs |-> 0]

Put(c) ==
    /\ Quiet
    /\ \E m \in Messages(c) :
          /\ ClientPut(c, m)
          /\ expected' = IF c = "write" THEN [expected EXCEPT ![m.addr] = m.data]
                                        ELSE expected

Get(c) == ClientGet(c) /\ UNCHANGED expected

Serve == (Controller \/ FlushSpin) /\ UNCHANGED expected

SeqNext == Serve \/ \E c \in Channels : Put(c) \/ Get(c)

(***************************************************************************)
(* A thread that can run does: the SystemC scheduler runs every process    *)
(* that is ready, every sc_core::wait has a finite delay, and the test     *)
(* calls get right after put.  Nothing obliges the test to put again.      *)
(* Only one thread has work at a time, so one condition covers all four.   *)
(***************************************************************************)
Fairness ==
    /\ WF_seqVars(Serve)
    /\ \A c \in Channels : WF_seqVars(Get(c))

SeqSpec == SeqInit /\ [][SeqNext]_seqVars /\ Fairness

-----------------------------------------------------------------------------
(***************************************************************************)
(* Properties.                                                             *)
(***************************************************************************)

\* A read returns the last value written to its address, wherever evictions,
\* write-backs and write-throughs have put it since (the check at the end of each
\* test, such as cache_consistency_check.cpp:57).
ReadBack ==
    rsp_fifo["read"] # NoMsg =>
        rsp_fifo["read"].data = expected[rsp_fifo["read"].addr]

\* Between requests, no way in front of the valid copy of a block has the
\* block's tag, valid or not.  handle_invalidate_request looks no further than
\* the first way with the tag and does not look at its valid bit: a line behind
\* it could not be invalidated.
NotShadowed ==
    Quiet => \A s \in Sets, v, w \in Ways :
                valid[s][w] /\ v < w => tag[s][v] # tag[s][w]

\* When invalidate() answers, no line of the range is valid.
InvalidateCovers ==
    LET r == gp["invalidate"]
    IN  pc["invalidate"] = "put" =>
            \A s \in Sets, w \in Ways, o \in Offsets :
                valid[s][w] => LineAddress(tag[s][w], s) + o \notin r.first .. r.second

\* An invalidation whose last address starts a line takes no line from outside its
\* range.  (With any other last address the block after the range goes too: the end
\* is rounded up and then included.)
InvalidateSpares ==
    [][LET r == gp["invalidate"]
       IN  pc["invalidate"] = "delay" /\ r.second % LineSize = 0 =>
               \A s \in Sets, w \in Ways :
                   valid[s][w] /\ ~ valid'[s][w] =>
                       LineAddress(tag[s][w], s) \in BlockAddress(r.first) .. r.second
      ]_seqVars

\* Every request is answered: no wait is left without an event that ends it, and
\* no entry of ongoing_requests keeps flush() in its loop.
Answered ==
    \A c \in Channels : req_fifo[c] # NoMsg ~> rsp_fifo[c] # NoMsg

=============================================================================
