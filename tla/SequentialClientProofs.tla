----------------------- MODULE SequentialClientProofs -----------------------
(***************************************************************************)
(* A client that puts one request at a time is one of those whose reads    *)
(* and writes are disjoint: what holds for these holds for it, and an      *)
(* invalidation has the cache for itself.                                  *)
(***************************************************************************)
EXTENDS SequentialClient, LinearizabilityProofs

\* At most one request is on its way, on any channel.
OneBusy ==
    \A c, d \in Channels : Outstanding(c) /\ Outstanding(d) => c = d

LEMMA SeqStepIsDisjoint ==
    ASSUME ClientRule, OneBusy, [SeqNext]_seqVars
    PROVE  [DisjointNext]_vars
<1>1. CASE Serve
  BY <1>1 DEF Serve, DisjointNext
<1>2. ASSUME NEW c \in Channels, Put(c)
      PROVE  DisjointNext
  <2>1. PICK m \in Messages(c) : ClientPut(c, m)
    BY <1>2 DEF Put
  <2>2. \A d \in Channels : ~ Outstanding(d)
    BY <1>2 DEF Put, Quiet
  <2>3. Disjoint(c, m) /\ ~ Spinning
    BY <2>2 DEF Disjoint, Spinning, Outstanding, Requesters, Channels
  <2> QED
    BY <2>1, <2>2, <2>3 DEF DisjointNext, PutDisjoint
<1>3. ASSUME NEW c \in Channels, Get(c)
      PROVE  DisjointNext
  <2>1. rsp_fifo[c] # NoMsg /\ ClientGet(c)
    BY <1>3 DEF Get, ClientGet
  <2>2. ~ Spinning
    BY <2>1 DEF ClientRule, OnePerChannel, OneBusy, Outstanding, Spinning, Channels
  <2> QED
    BY <2>1, <2>2 DEF DisjointNext
<1>4. CASE UNCHANGED seqVars
  BY <1>4 DEF seqVars
<1> QED
  BY <1>1, <1>2, <1>3, <1>4 DEF SeqNext

LEMMA OneBusyStep ==
    TypeOK /\ ClientRule /\ OneBusy /\ [SeqNext]_seqVars => OneBusy'
<1> SUFFICES ASSUME TypeOK, ClientRule, OneBusy, [SeqNext]_seqVars PROVE OneBusy'
  OBVIOUS
<1>1. ASSUME NEW c \in Channels, Put(c)
      PROVE  OneBusy'
  <2>1. PICK m \in Messages(c) : ClientPut(c, m)
    BY <1>1 DEF Put
  <2>2. \A d \in Channels : ~ Outstanding(d)
    BY <1>1 DEF Put, Quiet
  <2>3. \A d \in Channels \ {c} : Untouched(d)
    BY <2>1, <2>2, PutChanges
  <2>4. \A d \in Channels \ {c} : ~ Outstanding(d)'
    BY <2>2, <2>3 DEF Untouched, Outstanding
  <2> QED
    BY <2>4 DEF OneBusy
<1>2. ASSUME \A c \in Channels : Moves(c)
      PROVE  OneBusy'
  BY <1>2 DEF OneBusy, Moves
<1>3. CASE \E c \in Channels : Put(c)
  BY <1>1, <1>3
<1>4. CASE ~ \E c \in Channels : Put(c)
  <2>1. ASSUME Controller \/ FlushSpin
        PROVE  \A c \in Channels : Moves(c)
    BY <2>1, ControllerMoves DEF ClientRule
  <2>2. CASE Serve
    BY <1>2, <2>1, <2>2 DEF Serve
  <2>3. ASSUME NEW c \in Channels, Get(c)
        PROVE  OneBusy'
    BY <1>2, <2>3, GetMoves DEF Get, ClientRule
  <2>4. CASE UNCHANGED seqVars
    BY <2>4 DEF seqVars, vars, locals, fifos, OneBusy, Outstanding
  <2> QED
    BY <1>4, <2>2, <2>3, <2>4 DEF SeqNext
<1> QED
  BY <1>3, <1>4

\* The invariant of this module.
SeqInv == TypeOK /\ ClientRule /\ TagsInv /\ OneBusy

LEMMA SeqInvInit == SeqInit => SeqInv
<1>1. Init => OneBusy
  BY DEF Init, OneBusy, Outstanding
<1> QED
  BY <1>1, TypeInit, RuleInit, TagsInit DEF SeqInit, SeqInv

LEMMA SeqInvStep == SeqInv /\ [SeqNext]_seqVars => SeqInv'
  BY SeqStepIsDisjoint, DisjointSteps, TypeStep, RuleStep, TagsStep, OneBusyStep DEF SeqInv

LEMMA SeqInvariant == SeqSpec => []SeqInv
  BY SeqInvInit, SeqInvStep, PTL DEF SeqSpec

\* What is proved for disjoint clients holds for a sequential one.
THEOREM SequentialIsDisjoint == SeqSpec => DisjointSpec
<1>1. SeqInit => Init
  BY DEF SeqInit
<1>2. SeqInv /\ [SeqNext]_seqVars => [DisjointNext]_vars
  BY SeqStepIsDisjoint DEF SeqInv
<1> QED
  BY <1>1, <1>2, SeqInvariant, PTL DEF SeqSpec, DisjointSpec

\* No line is shadowed by a stale tag between requests, whatever attributes the
\* requests have.
THEOREM NothingShadowed == SeqSpec => []NotShadowed
<1>1. SeqInv => NotShadowed
  BY DEF SeqInv, TagsInv, NoShadow, NotShadowed
<1> QED
  BY <1>1, SeqInvariant, PTL

-----------------------------------------------------------------------------
(***************************************************************************)
(* Invalidation.                                                           *)
(***************************************************************************)

\* While an invalidation is on its way nothing else runs.
LEMMA InvalidationAlone ==
    ASSUME SeqInv, [SeqNext]_seqVars, pc["invalidate"] # "get"
    PROVE  InvalidateLines \/ InvalidatePut \/ UNCHANGED <<lineVars, gp, pc>>
<1>1. /\ "invalidate" \in Channels /\ "flush" \in Channels
      /\ "invalidate" \notin Requesters /\ Requesters \subseteq Channels
  BY DEF Requesters, Channels
<1>2. \A c \in Channels \ {"invalidate"} : ~ Outstanding(c)
  BY <1>1 DEF SeqInv, OneBusy, Outstanding
<1>3. \A t \in Requesters : ~ Start(t) /\ ~ HandlerStep(t) /\ ~ ThreadStep(t)
  <2> SUFFICES ASSUME NEW t \in Requesters, Start(t) \/ HandlerStep(t) \/ ThreadStep(t)
               PROVE  FALSE
    OBVIOUS
  <2>1. Outstanding(t)
    BY HandlerMoves, ThreadMoves DEF SeqInv, ClientRule, Outstanding
  <2> QED
    BY <1>1, <1>2, <2>1
<1>4. ~ Flush /\ ~ InvalidateGet
  BY <1>1, <1>2 DEF Flush, FlushGet, FlushLines, FlushPut, InvalidateGet, Outstanding
<1>5. [DisjointNext]_vars
  BY SeqStepIsDisjoint DEF SeqInv
<1>6. CASE \E c \in Channels : PutDisjoint(c) \/ ClientGet(c)
  BY <1>6 DEF PutDisjoint, ClientPut, ClientGet, locals
<1>7. CASE UNCHANGED vars
  BY <1>7 DEF vars, locals
<1> QED
  BY <1>3, <1>4, <1>5, <1>6, <1>7, DisjointSteps DEF Invalidate

LEMMA RangeTypes ==
    ASSUME TypeOK, pc["invalidate"] # "get"
    PROVE  /\ gp["invalidate"] \in InvalidateRanges
           /\ gp["invalidate"] \in [first : Nat, second : Nat]
<1>1. gp["invalidate"] \in InvalidateRanges
  BY DEF TypeOK, Served, Messages, Channels
<1>2. gp["invalidate"] \in [first : 0 .. UIntMod - 1, second : 0 .. UIntMod - 1]
  BY <1>1, RangesAssumption
<1>3. \A n \in 0 .. UIntMod - 1 : n \in Nat
  BY UIntModAssumption
<1> QED
  BY <1>1, <1>2, <1>3

LEMMA InvalidateLinesCovers ==
    ASSUME SeqInv, NoWrap, InvalidateLines,
           NEW s \in Sets, NEW w \in Ways, NEW o \in Offsets, valid'[s][w]
    PROVE  LineAddress(tag[s][w], s) + o
               \notin gp["invalidate"].first .. gp["invalidate"].second
<1> DEFINE r == gp["invalidate"]
           b == LineAddress(tag[s][w], s)
<1> SUFFICES ASSUME b + o \in r.first .. r.second PROVE FALSE
  OBVIOUS
<1>1. r \in InvalidateRanges /\ r \in [first : Nat, second : Nat]
  BY RangeTypes DEF SeqInv, InvalidateLines
<1>2. tag[s][w] \in Nat /\ valid[s][w]
  BY DEF SeqInv, TypeOK, InvalidateLines
<1>3. SetIndex(b) = s /\ TagOf(b) = tag[s][w]
  BY <1>2, FieldsOfLineAddress
<1>4. b \in InvalidateBlocks(r)
  BY <1>1, <1>2, InvalidateBlocksCover DEF NoWrap
<1>5. Min(TaggedWays(s, tag[s][w])) = w /\ w \in TaggedWays(s, tag[s][w])
  <2> DEFINE S == TaggedWays(s, tag[s][w])
             v == Min(S)
  <2>1. w \in S /\ S \in SUBSET Ways
    BY DEF TaggedWays
  <2>2. v \in S /\ v <= w
    BY <2>1, MinOfWays
  <2>3. v \in Ways /\ tag[s][v] = tag[s][w]
    BY <2>2 DEF TaggedWays
  <2>4. ~ (v < w)
    BY <1>2, <2>3 DEF SeqInv, TagsInv, NoShadow
  <2> HIDE DEF v
  <2>5. v = w
    BY <2>2, <2>3, <2>4, NumWaysAssumption DEF Ways
  <2> QED
    BY <2>1, <2>5 DEF v
<1> HIDE DEF b, r
<1>6. ~ valid'[s][w]
  BY <1>3, <1>4, <1>5 DEF InvalidateLines, r
<1> QED
  BY <1>6

\* When invalidate() answers, no line of its range is valid: the search by tag
\* finds the valid line of each block, if the sum that rounds the end of the range
\* up does not wrap.
THEOREM InvalidationCovers == ASSUME NoWrap PROVE SeqSpec => []InvalidateCovers
<1>1. SeqInit => InvalidateCovers
  BY DEF SeqInit, Init, InvalidateCovers, Channels
<1>2. SeqInv /\ InvalidateCovers /\ [SeqNext]_seqVars => InvalidateCovers'
  <2> SUFFICES ASSUME SeqInv, InvalidateCovers, [SeqNext]_seqVars,
                      pc'["invalidate"] = "put",
                      NEW s \in Sets, NEW w \in Ways, NEW o \in Offsets, valid'[s][w]
               PROVE  LineAddress(tag'[s][w], s) + o
                          \notin gp'["invalidate"].first .. gp'["invalidate"].second
    BY DEF InvalidateCovers
  <2>1. "invalidate" \in Channels /\ pc \in [Channels -> Labels]
    BY DEF Channels, SeqInv, TypeOK
  <2>2. pc["invalidate"] # "get"
    <3>1. CASE InvalidateGet
      BY <2>1, <3>1 DEF InvalidateGet, Goto
    <3>2. CASE ~ InvalidateGet
      <4>1. [DisjointNext]_vars
        BY SeqStepIsDisjoint DEF SeqInv
      <4>2. \/ pc'["invalidate"] = pc["invalidate"]
            \/ InvalidateLines \/ InvalidatePut
        BY <2>1, <3>2, <4>1, InvalidatePc DEF SeqInv, Invalidate
      <4> QED
        BY <4>2 DEF InvalidateLines, InvalidatePut
    <3> QED
      BY <3>1, <3>2
  <2>3. CASE InvalidateLines
    BY <2>3, InvalidateLinesCovers DEF InvalidateLines, locals
  <2>4. CASE InvalidatePut
    BY <2>1, <2>4 DEF InvalidatePut, Goto
  <2>5. CASE UNCHANGED <<lineVars, gp, pc>>
    BY <2>5 DEF InvalidateCovers, lineVars
  <2> QED
    BY <2>2, <2>3, <2>4, <2>5, InvalidationAlone
<1> QED
  BY <1>1, <1>2, SeqInvariant, PTL DEF SeqSpec

\* An invalidation whose last address starts a line drops no line outside its
\* range, even if the sum that rounds the end up wraps.
THEOREM InvalidationSpares == SeqSpec => InvalidateSpares
<1> DEFINE r == gp["invalidate"]
           Spares == pc["invalidate"] = "delay" /\ r.second % LineSize = 0 =>
               \A s \in Sets, w \in Ways :
                   valid[s][w] /\ ~ valid'[s][w] =>
                       LineAddress(tag[s][w], s) \in BlockAddress(r.first) .. r.second
<1>1. SeqInv /\ [SeqNext]_seqVars => Spares
  <2> SUFFICES ASSUME SeqInv, [SeqNext]_seqVars,
                      pc["invalidate"] = "delay", r.second % LineSize = 0,
                      NEW s \in Sets, NEW w \in Ways, valid[s][w], ~ valid'[s][w]
               PROVE  LineAddress(tag[s][w], s) \in BlockAddress(r.first) .. r.second
    OBVIOUS
  <2>1. InvalidateLines
    BY InvalidationAlone DEF InvalidatePut, lineVars
  <2>2. PICK b \in InvalidateBlocks(r) :
           SetIndex(b) = s /\ w = Min(TaggedWays(s, TagOf(b)))
                           /\ TaggedWays(s, TagOf(b)) # {}
    BY <2>1 DEF InvalidateLines
  <2>3. tag[s][w] = TagOf(b)
    <3>1. TaggedWays(s, TagOf(b)) \in SUBSET Ways
      BY DEF TaggedWays
    <3>2. w \in TaggedWays(s, TagOf(b))
      BY <2>2, <3>1, MinOfWays
    <3> QED
      BY <3>2 DEF TaggedWays
  <2>4. r \in [first : Nat, second : Nat]
    BY RangeTypes DEF SeqInv
  <2>5. b \in BlockAddress(r.first) .. r.second /\ BlockAddress(b) = b
    BY <2>4, InvalidateBlocksSpare
  <2>6. b \in Nat
    BY <2>4, <2>5, BlockAddressType
  <2> QED
    BY <2>2, <2>3, <2>5, <2>6, LineAddressOfFields
<1> HIDE DEF r
<1>2. SeqInv /\ [SeqNext]_seqVars => [Spares]_seqVars
  BY <1>1
<1> QED
  BY <1>2, SeqInvariant, PTL DEF SeqSpec, InvalidateSpares, r

-----------------------------------------------------------------------------
(***************************************************************************)
(* Reading back.                                                           *)
(***************************************************************************)

\* What the client keeps is what the memory of AtomicMemory holds, or will hold when
\* the pending write is performed, and what a performed read has brought.
ExpectedInMemory ==
    /\ DOMAIN expected = ClientAddrs
    /\ \A a \in ClientAddrs :
          LET p == PortMap["write"]
          IN  expected[a] = IF p.state = "pending" /\ p.req.addr = a THEN p.req.data ELSE View[a]
    /\ LET p == PortMap["read"]
       IN  p.state = "done" => p.req.data = View[p.req.addr]

ReadBackInv == DisjointInv /\ OneBusy /\ ExpectedInMemory

LEMMA PortMapIs ==
    /\ PortMap["read"] = PortOf("read") /\ PortMap["write"] = PortOf("write")
    /\ PortMap'["read"] = PortOf("read")' /\ PortMap'["write"] = PortOf("write")'
  BY DEF PortMap, Requesters

LEMMA OnePort ==
    OneBusy => PortMap["read"] = IdlePort \/ PortMap["write"] = IdlePort
  BY PortMapIs DEF OneBusy, PortOf, IdlePort, Channels, Requesters

LEMMA ReadBackInit == SeqInit => ReadBackInv
<1> SUFFICES ASSUME SeqInit PROVE ReadBackInv
  OBVIOUS
<1>1. Init /\ expected = [a \in ClientAddrs |-> 0]
  BY DEF SeqInit
<1>2. View = [a \in ClientAddrs |-> 0] /\ PortMap = [t \in Requesters |-> IdlePort]
  BY <1>1, RefinesInit DEF Atomic!Init, Atomic!Ports, Atomic!Idle, PortMap, IdlePort, Requesters
<1>3. ExpectedInMemory
  BY <1>1, <1>2 DEF ExpectedInMemory, IdlePort, Requesters
<1> QED
  BY <1>1, <1>3, DisjointInvInit, SeqInvInit DEF ReadBackInv, SeqInv

\* A request that is put.
LEMMA ExpectedAfterPut ==
    ASSUME ReadBackInv, DisjointInv', SafeAttributes, AlignedAddrs, [DisjointNext]_vars,
           NEW c \in Channels, Put(c)
    PROVE  ExpectedInMemory'
<1>1. PICK m \in Messages(c) :
         /\ ClientPut(c, m)
         /\ expected' = IF c = "write" THEN [expected EXCEPT ![m.addr] = m.data] ELSE expected
  BY DEF Put
<1>2. \A d \in Channels : ~ Outstanding(d)
  BY DEF Put, Quiet
<1>3. TypeOK /\ "read" \in Channels /\ "write" \in Channels
  BY DEF ReadBackInv, DisjointInv, Channels, Requesters
<1>4. /\ \A d \in Channels \ {c} : Untouched(d)
      /\ Outstanding(c)' /\ Request(c)' = m
      /\ pc'[c] = "get" /\ rsp_fifo'[c] = NoMsg
  BY <1>1, <1>2, <1>3, PutChanges
<1>5. View' = View
  <2>1. pc' = pc
    BY <1>1 DEF ClientPut
  <2> QED
    BY <1>3, <2>1, CommitMoves, ViewStep DEF ReadBackInv
<1>6. PortMap["read"] = IdlePort /\ PortMap["write"] = IdlePort
  BY <1>2, <1>3, PortMapIs DEF PortOf, IdlePort
<1>7. \A d \in Requesters \ {c} : PortOf(d)' = PortOf(d)
  BY <1>4, UntouchedPort DEF Requesters, Channels
<1>8. PortOf(c)' = Pending(m)
  BY <1>4 DEF PortOf, Performed, Pending
<1>9. CASE c = "write"
  <2>1. PortMap'["write"] = Pending(m) /\ PortMap'["read"] = IdlePort
    BY <1>6, <1>7, <1>8, <1>9, PortMapIs DEF Requesters
  <2>2. m.addr \in ClientAddrs
    BY <1>9 DEF Messages
  <2>3. \A a \in ClientAddrs : expected[a] = View[a]
    BY <1>6 DEF ReadBackInv, ExpectedInMemory, IdlePort
  <2> QED
    BY <1>1, <1>5, <1>9, <2>1, <2>2, <2>3 DEF ReadBackInv, ExpectedInMemory, Pending, IdlePort
<1>10. CASE c # "write"
  <2>1. PortMap'["write"] = IdlePort
        /\ (PortMap'["read"] = IdlePort \/ PortMap'["read"] = Pending(m))
    BY <1>6, <1>7, <1>8, <1>10, PortMapIs DEF Requesters
  <2>2. \A a \in ClientAddrs : expected[a] = View[a]
    BY <1>6 DEF ReadBackInv, ExpectedInMemory, IdlePort
  <2> QED
    BY <1>1, <1>5, <1>10, <2>1, <2>2 DEF ReadBackInv, ExpectedInMemory, Pending, IdlePort
<1> QED
  BY <1>9, <1>10

\* Any other step: what it does to the memory and the ports is a step of AtomicMemory.
LEMMA ExpectedAfterStep ==
    ASSUME ReadBackInv, DisjointInv', OneBusy', SafeAttributes, AlignedAddrs,
           [DisjointNext]_vars, UNCHANGED expected, \A c \in Channels : Moves(c)
    PROVE  ExpectedInMemory'
<1>1. Atomic!Next \/ (View' = View /\ PortMap' = PortMap)
  BY RefinesStep DEF ReadBackInv
<1>2. \A t \in {"read", "write"} : PortMap[t] = IdlePort => PortMap'[t] = IdlePort
  <2>1. {"read", "write"} \subseteq Channels
    BY DEF Channels, Requesters
  <2> QED
    BY <2>1, PortMapIs DEF Moves, PortOf, IdlePort
<1>3. ExpectedInMemory /\ OneBusy
  BY DEF ReadBackInv
<1>4. CASE View' = View /\ PortMap' = PortMap
  BY <1>3, <1>4 DEF ExpectedInMemory
<1>5. ASSUME NEW p \in {"read", "write"}, Atomic!Invoke(p)
      PROVE  FALSE
  <2>1. PortMap[p] = IdlePort /\ PortMap'[p].state = "pending"
    BY <1>5 DEF Atomic!Invoke, Atomic!Idle, IdlePort, PortMap, Requesters
  <2> QED
    BY <1>2, <2>1 DEF IdlePort
<1>6. CASE Atomic!Perform("read")
  <2>1. /\ PortMap["read"].state = "pending" /\ View' = View
        /\ PortMap' = [PortMap EXCEPT !["read"] =
              [state |-> "done",
               req |-> [PortMap["read"].req EXCEPT !.data = View[PortMap["read"].req.addr]]]]
    BY <1>6 DEF Atomic!Perform, PortMap
  <2>2. PortMap["write"] = IdlePort /\ PortMap'["write"] = IdlePort
    BY <1>2, <1>3, <2>1, OnePort DEF IdlePort
  <2>3. LET q == PortMap'["read"] IN q.req.data = View[q.req.addr]
    <3>1. PortMap'["read"] =
              [state |-> "done",
               req |-> [PortMap["read"].req EXCEPT !.data = View[PortMap["read"].req.addr]]]
      BY <2>1 DEF PortMap, Requesters
    <3>2. PortMap["read"].req \in Served("read")
      <4>1. "read" \in Channels /\ TypeOK
        BY DEF ReadBackInv, DisjointInv, Channels, Requesters
      <4>2. Outstanding("read") /\ PortMap["read"].req = Request("read")
        BY <2>1, PortMapIs DEF PortOf
      <4> QED
        BY <4>1, <4>2, MessagesAreServed DEF TypeOK, Request, Outstanding
    <3> QED
      BY <3>1, <3>2 DEF Served
  <2> QED
    BY <1>3, <2>1, <2>2, <2>3 DEF ExpectedInMemory, IdlePort
<1>7. CASE Atomic!Perform("write")
  <2>1. /\ PortMap["write"].state = "pending"
        /\ View' = [View EXCEPT ![PortMap["write"].req.addr] = PortMap["write"].req.data]
        /\ PortMap' = [PortMap EXCEPT !["write"].state = "done"]
    BY <1>7 DEF Atomic!Perform, PortMap
  <2>2. PortMap'["read"] = IdlePort
    BY <1>2, <1>3, <2>1, OnePort DEF IdlePort
  <2>3. PortMap'["write"].state = "done"
    <3>1. PortMap["write"] = [state |-> "pending", req |-> PortMap["write"].req]
      BY <2>1, PortMapIs DEF PortOf
    <3>2. "write" \in DOMAIN PortMap
      BY DEF PortMap, Requesters
    <3> QED
      BY <2>1, <3>1, <3>2
  <2>4. DOMAIN View = ClientAddrs
    BY ViewIsAt
  <2> QED
    BY <1>3, <2>1, <2>2, <2>3, <2>4 DEF ExpectedInMemory, IdlePort
<1>8. ASSUME NEW p \in {"read", "write"}, Atomic!Return(p)
      PROVE  ExpectedInMemory'
  <2>1. /\ PortMap[p].state = "done" /\ View' = View
        /\ PortMap' = [PortMap EXCEPT ![p] = IdlePort]
    BY <1>8 DEF Atomic!Return, Atomic!Idle, IdlePort, PortMap
  <2>2. PortMap'[p] = IdlePort
        /\ \A q \in {"read", "write"} \ {p} : PortMap'[q] = PortMap[q]
    BY <2>1 DEF PortMap, Requesters
  <2> QED
    BY <1>3, <2>1, <2>2 DEF ExpectedInMemory, IdlePort
<1> QED
  BY <1>1, <1>4, <1>5, <1>6, <1>7, <1>8 DEF Atomic!Next, Atomic!Ports

LEMMA ReadBackStep ==
    ASSUME SafeAttributes, AlignedAddrs, ReadBackInv, [SeqNext]_seqVars
    PROVE  ReadBackInv'
<1>1. TypeOK /\ ClientRule /\ OnePerChannel
  BY DEF ReadBackInv, DisjointInv, ClientRule
<1>2. [DisjointNext]_vars /\ OneBusy'
  BY <1>1, SeqStepIsDisjoint, OneBusyStep DEF ReadBackInv
<1>3. DisjointInv'
  BY <1>2, DisjointInvStep DEF ReadBackInv
<1>4. ASSUME UNCHANGED expected, \A c \in Channels : Moves(c)
      PROVE  ExpectedInMemory'
  BY <1>2, <1>3, <1>4, ExpectedAfterStep
<1>5. ASSUME Serve
      PROVE  ExpectedInMemory'
  <2>1. \A c \in Channels : Moves(c)
    BY <1>1, <1>5, ControllerMoves DEF Serve
  <2>2. UNCHANGED expected
    BY <1>5 DEF Serve
  <2> QED
    BY <1>4, <2>1, <2>2
<1>6. ASSUME NEW c \in Channels, Put(c)
      PROVE  ExpectedInMemory'
  BY <1>2, <1>3, <1>6, ExpectedAfterPut
<1>7. ASSUME NEW c \in Channels, Get(c)
      PROVE  ExpectedInMemory'
  BY <1>1, <1>4, <1>7, GetMoves DEF Get
<1>8. ASSUME UNCHANGED seqVars
      PROVE  ExpectedInMemory'
  <2>1. \A c \in Channels : Untouched(c)
    BY <1>8 DEF seqVars, vars, Untouched, locals, fifos
  <2>2. \A c \in Channels : Moves(c)
    BY <1>1, <2>1, UntouchedMoves
  <2>3. UNCHANGED expected
    BY <1>8 DEF seqVars
  <2> QED
    BY <1>4, <2>2, <2>3
<1>9. ExpectedInMemory'
  BY <1>5, <1>6, <1>7, <1>8 DEF SeqNext
<1> QED
  BY <1>2, <1>3, <1>9 DEF ReadBackInv

LEMMA ReadBackHolds == ReadBackInv => ReadBack
<1> SUFFICES ASSUME ReadBackInv, rsp_fifo["read"] # NoMsg
             PROVE  rsp_fifo["read"].data = expected[rsp_fifo["read"].addr]
  BY DEF ReadBack
<1>1. "read" \in Channels /\ TypeOK /\ OnePerChannel
  BY DEF ReadBackInv, DisjointInv, ClientRule, Channels, Requesters
<1>2. PortMap["read"] = Done(rsp_fifo["read"])
  BY <1>1, PortMapIs DEF OnePerChannel, PortOf, Outstanding, Performed, Request, Done
<1>3. PortMap["write"] = IdlePort
  BY <1>2, OnePort DEF ReadBackInv, Done, IdlePort
<1>4. rsp_fifo["read"].addr \in ClientAddrs
  BY <1>1 DEF TypeOK, Served
<1> QED
  BY <1>2, <1>3, <1>4 DEF ReadBackInv, ExpectedInMemory, Done, IdlePort

\* A read returns the last value its client wrote to the address, through hits,
\* fills, evictions and write-backs of any cache and any memory.
THEOREM ReadsBack == ASSUME SafeAttributes, AlignedAddrs PROVE SeqSpec => []ReadBack
<1>1. ReadBackInv /\ [SeqNext]_seqVars => ReadBackInv'
  BY ReadBackStep
<1> QED
  BY <1>1, ReadBackInit, ReadBackHolds, PTL DEF SeqSpec

=============================================================================
