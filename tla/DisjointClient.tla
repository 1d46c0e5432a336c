--------------------------- MODULE DisjointClient ---------------------------
(***************************************************************************)
(* The controller under clients that use the four channels concurrently,   *)
(* each of which puts one request and gets its answer before it puts the   *)
(* next, as the repository's tests do, and that keep one rule: a read and  *)
(* a write of the same set are never outstanding together.  Invalidations  *)
(* and flushes come at any time.                                           *)
(*                                                                         *)
(* The rule is this specification's, no code enforces it; it is what the   *)
(* code needs: two misses of one set choose the same way, since nothing    *)
(* reserves a way while its block is on the way.                           *)
(***************************************************************************)
EXTENDS CacheController

\* No request of the other requester's set is on its way.
Disjoint(c, m) ==
    \A t \in Requesters \ {c} :
        c \in Requesters /\ Outstanding(t) =>
            SetIndex(Request(t).addr) # SetIndex(m.addr)

PutDisjoint(c) ==
    /\ ~ Outstanding(c)
    /\ \E m \in Messages(c) : Disjoint(c, m) /\ ClientPut(c, m)

DisjointNext ==
    \/ Controller
    \/ FlushSpin
    \/ ~ Spinning /\ \E c \in Channels : PutDisjoint(c) \/ ClientGet(c)

DisjointSpec == Init /\ [][DisjointNext]_vars

(***************************************************************************)
(* A thread that is ready runs, as long as no other keeps the processor:   *)
(* weak fairness.  A reader or writer that waits for a mutex needs strong  *)
(* fairness, since the next invalidation or flush may take the mutex       *)
(* again.  The code gives it: sc_mutex::unlock makes the waiting threads   *)
(* ready at once, while a client that puts a request after each answer     *)
(* cannot put the next before they have run.                               *)
(***************************************************************************)
DisjointFairness ==
    /\ SF_vars(~ Spinning /\ Read)
    /\ SF_vars(~ Spinning /\ Write)
    /\ WF_vars(~ Spinning /\ Invalidate)
    /\ WF_vars(~ Spinning /\ Flush)
    /\ \A c \in Channels : WF_vars(~ Spinning /\ ClientGet(c))

FairDisjointSpec == DisjointSpec /\ DisjointFairness

-----------------------------------------------------------------------------
(***************************************************************************)
(* The memory the clients see.                                             *)
(***************************************************************************)
CachingWays(a) ==
    {w \in Ways : valid[SetIndex(a)][w] /\ tag[SetIndex(a)][w] = TagOf(a)}

\* A word is in its valid line, or else in memory.  A write-through hit takes
\* effect when it has written the line; until it has stored the word to memory
\* too, an invalidation or a flush may drop the line.
View ==
    [a \in ClientAddrs |->
        IF pc["write"] = "store" /\ Addr("write") = a
        THEN gp["write"].data
        ELSE IF CachingWays(a) # {}
             THEN data[SetIndex(a)][Min(CachingWays(a))][ReadOffset(a)]
             ELSE ReadMemory(page_table, a, 0)]

\* Has the request been performed?
Performed(t) ==
    req_fifo[t] = NoMsg /\ (pc[t] \in {"put", "store"} \/ rsp_fifo[t] # NoMsg)

PortOf(t) ==
    IF ~ Outstanding(t) THEN [state |-> "idle"]
    ELSE [state |-> IF Performed(t) THEN "done" ELSE "pending", req |-> Request(t)]

Atomic == INSTANCE AtomicMemory WITH
    Addrs <- ClientAddrs, mem <- View, port <- [t \in Requesters |-> PortOf(t)], Requests <- Messages

\* Whatever lines are filled, evicted, written back, invalidated and flushed
\* meanwhile, reads and writes are atomic accesses to one memory.
LinearizesMemory == Atomic!Spec

\* Every request is answered, however many invalidations and flushes pass the
\* mutexes it has to wait for, unless a flush loop catches a live request and no
\* thread runs any more.
AnsweredUnlessSpinning ==
    \A c \in Channels : req_fifo[c] # NoMsg ~> rsp_fifo[c] # NoMsg \/ Spinning

\* A block is in at most one valid line: no two ways hold versions of it that
\* could drift apart.
OneCopy ==
    \A s \in Sets, v, w \in Ways :
        valid[s][v] /\ valid[s][w] /\ tag[s][v] = tag[s][w] => v = w
=============================================================================
