---------------------------- MODULE RecencyClient ----------------------------
(***************************************************************************)
(* A sequential client that remembers in which order it has used blocks.   *)
(* The record, newer, is a history variable and stands for no code: the    *)
(* controller's lru_lists holds ways, and is updated by hits, fills and    *)
(* write-throughs, each for itself.                                        *)
(***************************************************************************)
EXTENDS SequentialClient

VARIABLE newer   \* <<b, c>>: block b was requested after the last request for c

recencyVars == <<seqVars, newer>>

Blocks == {BlockAddress(a) : a \in ClientAddrs}

\* The record after a request for block b: b is newer than every other block.
Touch(b) == (newer \ (Blocks \X {b})) \union ({b} \X (Blocks \ {b}))

RecencyPut(c) ==
    /\ Put(c)
    /\ newer' = IF c \in Requesters THEN Touch(BlockAddress(req_fifo'[c].addr)) ELSE newer

RecencyNext ==
    \/ \E c \in Channels : RecencyPut(c)
    \/ (Serve \/ \E c \in Channels : Get(c)) /\ UNCHANGED newer

RecencySpec == SeqInit /\ newer = {} /\ [][RecencyNext]_recencyVars

-----------------------------------------------------------------------------
\* The block a line stands for.
LineBlock(s, w) == LineAddress(tag[s][w], s)

\* A valid line gives way to another block only when its set has no free way, and
\* only if it holds the least recently requested of the set's blocks.
ReplacesLeastRecent ==
    [][\A s \in Sets, w \in Ways :
          valid[s][w] /\ valid'[s][w] /\ tag'[s][w] # tag[s][w] =>
              \A v \in Ways \ {w} :
                  valid[s][v] /\ <<LineBlock(s, v), LineBlock(s, w)>> \in newer
      ]_recencyVars
=============================================================================
