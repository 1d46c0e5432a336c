-------------------------- MODULE OverlappingClient --------------------------
(***************************************************************************)
(* The controller under two clients like the repository's tests, one of    *)
(* which reads while the other writes.  Each puts one request at a time;   *)
(* they never use one address at the same time, so that every read has one *)
(* right answer.  expected is as for a single client: the last value put   *)
(* to each address.  The rule is this specification's: the code has none.  *)
(***************************************************************************)
EXTENDS SequentialClient

\* No other request of the same address is on its way; one of the same block may be.
ApartFrom(c, m) ==
    \A t \in Requesters \ {c} :
        Outstanding(t) => Request(t).addr # m.addr

PutApart(c) ==
    /\ ~ Outstanding(c)
    /\ \E m \in Messages(c) :
          /\ ApartFrom(c, m)
          /\ ClientPut(c, m)
          /\ expected' = IF c = "write" THEN [expected EXCEPT ![m.addr] = m.data]
                                        ELSE expected

OverlapNext == Serve \/ \E c \in Requesters : PutApart(c) \/ Get(c)

OverlapSpec == SeqInit /\ [][OverlapNext]_seqVars
=============================================================================
