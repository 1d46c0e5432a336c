------------------------- MODULE RecencyClientProofs -------------------------
(***************************************************************************)
(* The controller replaces the least recently requested block of a full    *)
(* set: the order that lru_lists keeps of ways is the order in which the   *)
(* client has requested the blocks in them.                                *)
(***************************************************************************)
EXTENDS RecencyClient, SequentialClientProofs

-----------------------------------------------------------------------------
(***************************************************************************)
(* The order of a list of ways.                                            *)
(***************************************************************************)
Before(list, v, w) ==
    \E i, j \in 1 .. NumWays : i < j /\ list[i] = v /\ list[j] = w

LEMMA LastIsLast ==
    ASSUME NEW list \in [1 .. NumWays -> Ways], IsPermutation(list),
           NEW v \in Ways, v # list[NumWays]
    PROVE  Before(list, v, list[NumWays])
<1>1. PICK i \in 1 .. NumWays : list[i] = v
  BY DEF IsPermutation
<1>2. i < NumWays /\ NumWays \in 1 .. NumWays
  BY <1>1, NumWaysAssumption
<1> QED
  BY <1>1, <1>2 DEF Before

\* update_lru changes the place of one way only.
LEMMA MoveToFrontOrder ==
    ASSUME NEW list \in [1 .. NumWays -> Ways], IsPermutation(list),
           NEW w \in Ways, NEW u \in Ways, NEW v \in Ways,
           Before(MoveToFront(list, w), u, v), u # w
    PROVE  v # w /\ Before(list, u, v)
<1> DEFINE p == CHOOSE i \in 1 .. NumWays : list[i] = w
           new == MoveToFront(list, w)
           old(k) == IF k <= p THEN k - 1 ELSE k
<1>1. p \in 1 .. NumWays /\ list[p] = w
  BY DEF IsPermutation
<1>2. new = [i \in 1 .. NumWays |->
                IF i = 1 THEN w ELSE IF i <= p THEN list[i - 1] ELSE list[i]]
  BY DEF MoveToFront
<1>3. PICK i \in 1 .. NumWays, j \in 1 .. NumWays : i < j /\ new[i] = u /\ new[j] = v
  BY DEF Before
<1> HIDE DEF p, new
<1>4. i > 1 /\ j > 1
  BY <1>2, <1>3, NumWaysAssumption
<1>5. /\ old(i) \in 1 .. NumWays /\ old(j) \in 1 .. NumWays /\ old(i) < old(j)
      /\ list[old(i)] = u /\ list[old(j)] = v /\ old(j) # p
  BY <1>1, <1>2, <1>3, <1>4, NumWaysAssumption
<1> HIDE DEF old
<1>6. v # w
  BY <1>1, <1>5 DEF IsPermutation
<1> QED
  BY <1>5, <1>6 DEF Before

-----------------------------------------------------------------------------
(***************************************************************************)
(* The invariant.                                                          *)
(***************************************************************************)

Block(t) == BlockAddress(Request(t).addr)

\* The client counts a request when it puts it, the controller when it is done.
Unsettled(t) == req_fifo[t] # NoMsg \/ pc[t] \notin {"get", "put"}

Unsettling(b) == \E t \in Requesters : Unsettled(t) /\ Block(t) = b

Newest ==
    \A t \in Requesters :
        Unsettled(t) =>
            Block(t) \in Blocks /\ \A b \in Blocks \ {Block(t)} : <<Block(t), b>> \in newer

KnownBlocks == \A s \in Sets, w \in Ways : valid[s][w] => LineBlock(s, w) \in Blocks

\* But for the block of the request under way, lru_lists has the valid lines in the
\* order in which the client has requested their blocks.
InOrder(s, v, w) ==
    /\ valid[s][v] /\ valid[s][w] /\ Before(lru_lists[s], v, w)
    /\ ~ Unsettling(LineBlock(s, v)) /\ ~ Unsettling(LineBlock(s, w))
    => <<LineBlock(s, v), LineBlock(s, w)>> \in newer

Recency ==
    /\ Newest
    /\ KnownBlocks
    /\ \A s \in Sets, v, w \in Ways : InOrder(s, v, w)

\* The way a request waits with is the one it would choose now, or that of its block.
Chosen(t) ==
    LET s == SetOf(t)
        w == way[t]
        g == TagOf(Addr(t))
    IN  /\ pc[t] \in {"direct", "through", "evict", "fill"} => NotCached(s, g)
        /\ pc[t] \in {"evict", "fill"} => w = AllocWay(s)
        /\ pc[t] \in {"hit", "access", "store"} =>
              tag[s][w] = g /\ \A v \in Ways : valid[s][v] /\ tag[s][v] = g => v = w

AllChosen == \A t \in Requesters : Chosen(t)

RecencyInv == SeqInv /\ LruIsPermutation /\ AllChosen /\ Recency

-----------------------------------------------------------------------------
(***************************************************************************)
(* Requests and lines.                                                     *)
(***************************************************************************)
LEMMA BlockOfLine ==
    ASSUME TypeOK, NEW s \in Sets, NEW w \in Ways, NEW a \in Nat
    PROVE  LineBlock(s, w) = BlockAddress(a) <=> s = SetIndex(a) /\ tag[s][w] = TagOf(a)
<1>1. tag[s][w] \in Nat
  BY DEF TypeOK
<1>2. LineAddress(TagOf(a), SetIndex(a)) = BlockAddress(a)
      /\ TagOf(a) \in Nat /\ SetIndex(a) \in Sets
  BY LineAddressOfFields, FieldTypes
<1>3. /\ SetIndex(LineBlock(s, w)) = s /\ TagOf(LineBlock(s, w)) = tag[s][w]
      /\ SetIndex(BlockAddress(a)) = SetIndex(a) /\ TagOf(BlockAddress(a)) = TagOf(a)
  BY <1>1, <1>2, FieldsOfLineAddress DEF LineBlock
<1> QED
  BY <1>2, <1>3 DEF LineBlock

\* The block of a request that a thread has taken.
LEMMA BlockOfRequest ==
    ASSUME TypeOK, ClientRule, NEW t \in Requesters, pc[t] # "get"
    PROVE  /\ Block(t) = BlockAddress(Addr(t)) /\ Addr(t) \in Nat
           /\ SetOf(t) \in Sets /\ TagOf(Addr(t)) \in Nat
           /\ Block(t) \in Blocks
           /\ gp[t].cache \in ReadAttrs \union WriteAttrs
<1>1. Request(t) = gp[t]
  BY InFlightOutstanding
<1>2. gp[t] \in Payloads
  BY RequestTypes
<1>3. Addr(t) \in ClientAddrs
  BY <1>2 DEF Payloads, Addr
<1> QED
  BY <1>1, <1>2, <1>3, AddrsAssumption, RequestTypes DEF Block, Blocks, Addr, Payloads

LEMMA UnsettledOutstanding ==
    ASSUME NEW t \in Requesters, Unsettled(t)
    PROVE  Outstanding(t)
  BY DEF Unsettled, Outstanding

LEMMA UntouchedSettles ==
    ASSUME NEW u \in Requesters, Untouched(u)
    PROVE  (Unsettled(u)' <=> Unsettled(u)) /\ Block(u)' = Block(u)
  BY DEF Untouched, Unsettled, Block, Request

\* A thread that works on its request works alone.
LEMMA WorksAlone ==
    ASSUME SeqInv, NEW t \in Requesters, Start(t) \/ HandlerStep(t) \/ ThreadStep(t)
    PROVE  \A u \in Requesters \ {t} :
              /\ Untouched(u) /\ pc[u] = "get" /\ pc'[u] = "get"
              /\ ~ Unsettled(u) /\ ~ Unsettled(u)'
<1>1. TypeOK /\ ClientRule /\ OnePerChannel /\ OneBusy /\ Requesters \subseteq Channels
  BY DEF SeqInv, ClientRule, Requesters, Channels
<1>2. Outstanding(t)
  BY <1>1, HandlerMoves, ThreadMoves DEF Outstanding
<1>3. \A u \in Requesters \ {t} : ~ Outstanding(u) /\ Untouched(u)
  BY <1>1, <1>2, ThreadsApart DEF OneBusy
<1> QED
  BY <1>3, UntouchedSettles, UnsettledOutstanding DEF Outstanding, Untouched

-----------------------------------------------------------------------------
(***************************************************************************)
(* The way a request waits with.                                           *)
(***************************************************************************)
LEMMA StartChosen ==
    ASSUME SeqInv, NoInternal, NEW t \in Requesters, Start(t)
    PROVE  Chosen(t)'
<1>1. TypeOK /\ ClientRule /\ TagsInv /\ t \in Channels /\ pc[t] # "get"
  BY EnterChanges DEF SeqInv, Requesters, Channels
<1>2. PICK s \in Sets, g \in Nat : s = SetOf(t) /\ g = TagOf(Addr(t))
  BY <1>1, BlockOfRequest
<1>3. UNCHANGED <<valid, tag, lru_lists, gp>>
  BY DEF Start, StartInternal, StartHit, StartThrough, StartBypass, StartFill, StartEvict,
         Miss, Enter, lineVars
<1>4. SetOf(t)' = s /\ TagOf(Addr(t))' = g
  BY <1>2, <1>3 DEF SetOf, Addr
<1>5. HitWays(t) = {} => NotCached(s, g)'
  BY <1>2, <1>3 DEF HitWays, NotCached
<1>6. AllocWay(s)' = AllocWay(s) /\ (FreeWays(s) = {} => AllocWay(s) = LruWay(s))
  BY <1>3 DEF AllocWay, FreeWays, LruWay
<1>7. ~ StartInternal(t)
  BY <1>1, BlockOfRequest DEF StartInternal, Policy, NoInternal
<1>8. CASE StartHit(t)
  <2>1. HitWays(t) # {} /\ way'[t] = Min(HitWays(t)) /\ pc'[t] = "hit"
    BY <1>1, <1>8 DEF StartHit, Goto, TypeOK
  <2>2. way'[t] \in HitWays(t)
    BY <2>1, MinOfWays DEF HitWays
  <2>3. way'[t] \in Ways /\ valid[s][way'[t]] /\ tag[s][way'[t]] = g
    BY <1>2, <2>2 DEF HitWays
  <2>4. \A v \in Ways : valid[s][v] /\ tag[s][v] = g => v = way'[t]
    BY <1>1, <2>3, OnlyCachingWay
  <2> QED
    BY <1>3, <1>4, <2>1, <2>3, <2>4 DEF Chosen
<1>9. CASE (t = "write" /\ StartThrough) \/ StartBypass(t)
  <2>1. HitWays(t) = {} /\ pc'[t] \in {"through", "direct"}
    BY <1>1, <1>9 DEF StartThrough, StartBypass, Miss, Goto, TypeOK
  <2> QED
    BY <1>4, <1>5, <2>1 DEF Chosen
<1>10. CASE StartFill(t) \/ StartEvict(t)
  <2>1. HitWays(t) = {} /\ pc'[t] \in {"fill", "evict"}
    BY <1>1, <1>10 DEF StartFill, StartEvict, Miss, Goto, TypeOK
  <2>2. way'[t] = AllocWay(s)
    BY <1>1, <1>2, <1>6, <1>10 DEF StartFill, StartEvict, EvictsDirty, TypeOK
  <2> QED
    BY <1>4, <1>5, <1>6, <2>1, <2>2 DEF Chosen
<1> QED
  BY <1>7, <1>8, <1>9, <1>10 DEF Start

\* The two steps that give a line a new tag.
ClaimStep(t) == FillLine(t) \/ (t = "write" /\ WriteThroughAllocate)

LEMMA ClaimChanges ==
    ASSUME TypeOK, NEW t \in Requesters, Chosen(t), ClaimStep(t),
           NEW s \in Sets, s = SetOf(t), NEW g \in Nat, g = TagOf(Addr(t))
    PROVE  /\ NotCached(s, g)
           /\ AllocWay(s) \in Ways /\ way'[t] = AllocWay(s)
           /\ pc[t] \in {"fill", "through"} /\ pc'[t] = "access"
           /\ \E b \in BOOLEAN : valid' = [valid EXCEPT ![s][AllocWay(s)] = b]
           /\ tag' = [tag EXCEPT ![s][AllocWay(s)] = g]
           /\ UNCHANGED <<lru_lists, gp, fifos>>
<1>1. t \in Channels /\ AllocWay(s) \in Ways
  BY AllocWayType DEF Requesters, Channels
<1>2. CASE FillLine(t)
  <2>1. way[t] = AllocWay(s) /\ NotCached(s, g)
    BY <1>2 DEF FillLine, Chosen
  <2> QED
    BY <1>1, <1>2, <2>1 DEF FillLine, Goto, TypeOK, Live, locals
<1>3. CASE t = "write" /\ WriteThroughAllocate
  <2>1. NotCached(s, g)
    BY <1>3 DEF WriteThroughAllocate, Chosen
  <2> QED
    BY <1>1, <1>3, <2>1 DEF WriteThroughAllocate, Goto, TypeOK, Live, locals
<1> QED
  BY <1>2, <1>3 DEF ClaimStep

LEMMA HandlerChosen ==
    ASSUME SeqInv, NEW t \in Requesters, Chosen(t), HandlerStep(t)
    PROVE  Chosen(t)'
<1>1. TypeOK /\ ClientRule /\ t \in Channels /\ pc[t] # "get"
  BY HandlerChanges DEF SeqInv, InFlight, WaitsWithWay, Requesters, Channels
<1>2. PICK s \in Sets, g \in Nat : s = SetOf(t) /\ g = TagOf(Addr(t))
  BY <1>1, BlockOfRequest
<1>3. SetOf(t)' = s /\ TagOf(Addr(t))' = g
  BY <1>1, <1>2, HandlerChanges DEF SetOf, Addr
<1>4. CASE WriteBackVictim(t) \/ (t = "write" /\ WriteThroughHit)
  <2>1. UNCHANGED <<valid, tag, lru_lists, way>>
    BY <1>4 DEF WriteBackVictim, WriteThroughHit, locals
  <2>2. AllocWay(s)' = AllocWay(s) /\ NotCached(s, g)' = NotCached(s, g)
    BY <2>1 DEF AllocWay, FreeWays, LruWay, NotCached
  <2>3. \/ pc[t] = "evict" /\ pc'[t] = "fill"
        \/ pc[t] = "hit" /\ pc'[t] = "store"
    BY <1>1, <1>4 DEF WriteBackVictim, WriteThroughHit, Goto, TypeOK
  <2> QED
    BY <1>2, <1>3, <2>1, <2>2, <2>3 DEF Chosen
<1>5. CASE ClaimStep(t)
  <2>1. PICK w \in Ways, b \in BOOLEAN :
           /\ NotCached(s, g) /\ way'[t] = w /\ pc'[t] = "access"
           /\ valid' = [valid EXCEPT ![s][w] = b] /\ tag' = [tag EXCEPT ![s][w] = g]
    BY <1>1, <1>2, <1>5, ClaimChanges
  <2>2. /\ tag'[s][w] = g
        /\ \A v \in Ways \ {w} : valid'[s][v] = valid[s][v] /\ tag'[s][v] = tag[s][v]
    BY <1>1, <2>1 DEF TypeOK
  <2> QED
    BY <1>3, <2>1, <2>2 DEF Chosen, NotCached
<1>6. CASE ~ ClaimStep(t) /\ ~ WriteBackVictim(t) /\ ~ (t = "write" /\ WriteThroughHit)
  <2>1. pc'[t] = "put"
    BY <1>1, <1>6 DEF HandlerStep, WriteAccess, ClaimStep, ReadDirect, ReadLine, WriteDirect,
       WriteBackHit, WriteThroughStore, WriteThroughMiss, AllocatedWrite, Finish, Goto, TypeOK
  <2> QED
    BY <2>1 DEF Chosen
<1> QED
  BY <1>4, <1>5, <1>6

-----------------------------------------------------------------------------
(***************************************************************************)
(* The order of the lines.                                                 *)
(***************************************************************************)

\* Requests are where they were, as far as the order is concerned.
SameRequests ==
    \A t \in Requesters :
        (Unsettled(t)' <=> Unsettled(t)) /\ (Unsettled(t) => Block(t)' = Block(t))

\* Steps that move no line and settle no request.
LEMMA OrderKept ==
    ASSUME Recency, SameRequests, UNCHANGED <<tag, lru_lists, newer>>,
           \A s \in Sets, w \in Ways : valid'[s][w] => valid[s][w]
    PROVE  Recency'
<1>1. \A b : Unsettling(b)' <=> Unsettling(b)
  BY DEF SameRequests, Unsettling
<1>2. \A s \in Sets, w \in Ways : LineBlock(s, w)' = LineBlock(s, w)
  BY DEF LineBlock
<1>3. Newest'
  BY DEF Recency, Newest, SameRequests
<1>4. KnownBlocks'
  BY <1>2 DEF Recency, KnownBlocks
<1>5. ASSUME NEW s \in Sets, NEW v \in Ways, NEW w \in Ways
      PROVE  InOrder(s, v, w)'
  <2>1. Unsettling(LineBlock(s, v))' = Unsettling(LineBlock(s, v))
        /\ Unsettling(LineBlock(s, w))' = Unsettling(LineBlock(s, w))
    BY <1>1, <1>2 DEF Unsettling
  <2> QED
    BY <1>2, <2>1 DEF Recency, InOrder
<1> QED
  BY <1>3, <1>4, <1>5 DEF Recency

\* A request puts its block in front of all others.
LEMMA OrderAfterPut ==
    ASSUME SeqInv, Recency, NEW c \in Channels, RecencyPut(c)
    PROVE  Recency'
<1>1. PICK m \in Messages(c) : ClientPut(c, m)
  BY DEF RecencyPut, Put
<1>2. /\ \A d \in Channels : ~ Outstanding(d)
      /\ TypeOK /\ Requesters \subseteq Channels
  BY DEF RecencyPut, Put, Quiet, SeqInv, Requesters, Channels
<1>3. /\ \A d \in Channels \ {c} : Untouched(d)
      /\ Request(c)' = m
  BY <1>1, <1>2, PutChanges
<1>4. UNCHANGED <<valid, tag, lru_lists>>
  BY <1>1 DEF ClientPut, lineVars
<1>5. \A t \in Requesters : ~ Unsettled(t)
  BY <1>2, UnsettledOutstanding
<1>6. \A t \in Requesters \ {c} : ~ Unsettled(t)'
  BY <1>2, <1>3, <1>5, UntouchedSettles
<1>7. CASE c \notin Requesters
  <2>1. UNCHANGED newer
    BY <1>7 DEF RecencyPut
  <2>2. SameRequests
    BY <1>5, <1>6, <1>7 DEF SameRequests
  <2> QED
    BY <1>4, <2>1, <2>2, OrderKept
<1>8. CASE c \in Requesters
  <2> DEFINE b == BlockAddress(m.addr)
  <2>1. req_fifo'[c] = m
    BY <1>1, <1>2 DEF ClientPut, TypeOK
  <2>2. m.addr \in ClientAddrs
    BY <1>8 DEF Messages, Requesters
  <2>3. b \in Blocks /\ newer' = (newer \ (Blocks \X {b})) \union ({b} \X (Blocks \ {b}))
    BY <1>8, <2>1, <2>2 DEF RecencyPut, Touch, Blocks
  <2>4. Block(c)' = b
    BY <1>3 DEF Block
  <2>5. Unsettled(c)'
    <3>1. m # NoMsg
      BY RealMessages
    <3> QED
      BY <2>1, <3>1 DEF Unsettled
  <2> HIDE DEF b
  <2>6. Newest'
    BY <1>6, <2>3, <2>4 DEF Newest, Blocks
  <2>7. \A s \in Sets, w \in Ways : LineBlock(s, w)' = LineBlock(s, w)
    BY <1>4 DEF LineBlock
  <2>8. KnownBlocks'
    BY <1>4, <2>7 DEF Recency, KnownBlocks, Blocks
  <2>9. ASSUME NEW s \in Sets, NEW v \in Ways, NEW w \in Ways
        PROVE  InOrder(s, v, w)'
    <3>1. ~ Unsettling(LineBlock(s, v)) /\ ~ Unsettling(LineBlock(s, w))
      BY <1>5 DEF Unsettling
    <3>2. ~ Unsettling(LineBlock(s, w))' => LineBlock(s, w) # b
      BY <1>8, <2>4, <2>5, <2>7 DEF Unsettling
    <3>3. InOrder(s, v, w)
      BY DEF Recency
    <3> QED
      BY <1>4, <2>3, <2>7, <3>1, <3>2, <3>3 DEF InOrder
  <2> QED
    BY <2>6, <2>8, <2>9 DEF Recency
<1> QED
  BY <1>7, <1>8

\* The line that a request claims holds the block of that request, which has no
\* place in the order until it is settled.
LEMMA OrderAfterClaim ==
    ASSUME SeqInv, Recency, NEW t \in Requesters, Chosen(t), ClaimStep(t), HandlerStep(t),
           UNCHANGED newer
    PROVE  Recency'
<1>1. TypeOK /\ ClientRule /\ pc[t] # "get"
  BY HandlerChanges DEF SeqInv, InFlight, WaitsWithWay
<1>2. PICK s \in Sets, g \in Nat : s = SetOf(t) /\ g = TagOf(Addr(t))
  BY <1>1, BlockOfRequest
<1>3. PICK w \in Ways, b \in BOOLEAN :
         /\ pc[t] \in {"fill", "through"} /\ pc'[t] = "access"
         /\ valid' = [valid EXCEPT ![s][w] = b] /\ tag' = [tag EXCEPT ![s][w] = g]
         /\ UNCHANGED <<lru_lists, gp, fifos>>
  BY <1>1, <1>2, ClaimChanges
<1>4. Block(t)' = Block(t)
  <2>1. Request(t) = gp[t] /\ pc'[t] # "get"
    BY <1>1, <1>3, InFlightOutstanding
  <2>2. Request(t)' = Request(t)
    BY <1>1, <1>3 DEF Request, fifos
  <2> QED
    BY <2>2 DEF Block
<1>5. Unsettled(t) /\ Unsettled(t)'
  BY <1>3 DEF Unsettled
<1>6. \A u \in Requesters \ {t} : ~ Unsettled(u) /\ ~ Unsettled(u)'
  BY WorksAlone
<1>7. \A c : (Unsettling(c)' <=> c = Block(t)) /\ (Unsettling(c) <=> c = Block(t))
  BY <1>4, <1>5, <1>6 DEF Unsettling
<1>8. Newest'
  BY <1>4, <1>5, <1>6 DEF Recency, Newest, Blocks
<1>9. ASSUME NEW r \in Sets, NEW v \in Ways, ~ (r = s /\ v = w)
      PROVE  valid'[r][v] = valid[r][v] /\ LineBlock(r, v)' = LineBlock(r, v)
  BY <1>1, <1>3, <1>9 DEF LineBlock, TypeOK
<1>10. LineBlock(s, w)' = Block(t) /\ Block(t) \in Blocks
  <2>1. LineBlock(s, w)' = LineAddress(g, s)
    BY <1>1, <1>3 DEF LineBlock, TypeOK
  <2> QED
    BY <1>1, <1>2, <2>1, BlockOfRequest, LineAddressOfFields DEF SetOf
<1>11. KnownBlocks'
  <2> SUFFICES ASSUME NEW r \in Sets, NEW v \in Ways, valid'[r][v]
               PROVE  LineBlock(r, v)' \in Blocks
    BY DEF KnownBlocks, Blocks
  <2> QED
    BY <1>9, <1>10 DEF Recency, KnownBlocks
<1>12. ASSUME NEW r \in Sets, NEW u \in Ways, NEW v \in Ways
       PROVE  InOrder(r, u, v)'
  <2>1. CASE r = s /\ (u = w \/ v = w)
    <3>1. LineBlock(r, u)' = Block(t) \/ LineBlock(r, v)' = Block(t)
      BY <1>10, <2>1
    <3>2. Unsettling(LineBlock(r, u))' \/ Unsettling(LineBlock(r, v))'
      BY <1>4, <1>5, <3>1 DEF Unsettling
    <3> QED
      BY <3>2 DEF InOrder
  <2>2. CASE ~ (r = s /\ (u = w \/ v = w))
    <3>1. /\ valid'[r][u] = valid[r][u] /\ LineBlock(r, u)' = LineBlock(r, u)
          /\ valid'[r][v] = valid[r][v] /\ LineBlock(r, v)' = LineBlock(r, v)
      BY <1>9, <2>2
    <3>2. /\ Unsettling(LineBlock(r, u)) => Unsettling(LineBlock(r, u))'
          /\ Unsettling(LineBlock(r, v)) => Unsettling(LineBlock(r, v))'
      BY <1>4, <1>5, <1>6, <3>1 DEF Unsettling
    <3>3. InOrder(r, u, v)
      BY DEF Recency
    <3> QED
      BY <1>3, <3>1, <3>2, <3>3 DEF InOrder
  <2> QED
    BY <2>1, <2>2
<1> QED
  BY <1>8, <1>11, <1>12 DEF Recency

\* The last step of a handler, which counts as a use of the line it has used.
FinishStep(t) ==
    /\ pc'[t] = "put"
    /\ UNCHANGED <<valid, tag, fifos>>
    /\ \/ pc[t] \in {"direct", "through"} /\ UNCHANGED lru_lists
       \/ pc[t] \in {"hit", "access", "store"} /\ UpdateLru(SetOf(t), way[t])

LEMMA OrderAfterFinish ==
    ASSUME SeqInv, LruIsPermutation, Recency, NEW t \in Requesters, Chosen(t),
           HandlerStep(t), FinishStep(t), UNCHANGED newer
    PROVE  Recency'
<1>1. TypeOK /\ ClientRule /\ pc[t] # "get" /\ t \in Channels
  BY HandlerChanges DEF SeqInv, InFlight, WaitsWithWay, Requesters, Channels
<1>2. PICK s \in Sets, g \in Nat : s = SetOf(t) /\ g = TagOf(Addr(t))
  BY <1>1, BlockOfRequest
<1>3. Block(t) \in Blocks
      /\ \A r \in Sets, v \in Ways : LineBlock(r, v) = Block(t) <=> r = s /\ tag[r][v] = g
  BY <1>1, <1>2, BlockOfRequest, BlockOfLine DEF SetOf
<1>4. Unsettled(t) /\ ~ Unsettled(t)'
  BY <1>1 DEF FinishStep, Unsettled, ClientRule, OnePerChannel, fifos
<1>5. \A u \in Requesters \ {t} : ~ Unsettled(u) /\ ~ Unsettled(u)'
  BY WorksAlone
<1>6. \A b : Unsettling(b) <=> b = Block(t)
  BY <1>4, <1>5 DEF Unsettling
<1>7. UNCHANGED <<valid, tag>> /\ \A r \in Sets, v \in Ways : LineBlock(r, v)' = LineBlock(r, v)
  BY DEF FinishStep, LineBlock
<1>8. Newest'
  BY <1>4, <1>5 DEF Newest
<1>9. KnownBlocks'
  BY <1>7 DEF Recency, KnownBlocks, Blocks
<1>10. ASSUME NEW r \in Sets, NEW u \in Ways, NEW v \in Ways,
              valid[r][u], valid[r][v], Before(lru_lists'[r], u, v)
       PROVE  <<LineBlock(r, u), LineBlock(r, v)>> \in newer
  <2>1. lru_lists[r] \in [1 .. NumWays -> Ways] /\ IsPermutation(lru_lists[r])
    BY <1>1 DEF TypeOK, LruIsPermutation
  <2>2. \/ lru_lists'[r] = lru_lists[r] /\ ~ (r = s /\ pc[t] \in {"hit", "access", "store"})
        \/ /\ r = s /\ pc[t] \in {"hit", "access", "store"} /\ way[t] \in Ways
           /\ lru_lists'[r] = MoveToFront(lru_lists[r], way[t])
    BY <1>1, <1>2 DEF FinishStep, UpdateLru, TypeOK, WaitsWithWay
  <2>3. CASE LineBlock(r, v) = Block(t)
    <3>1. r = s /\ tag[s][v] = g /\ valid[s][v]
      BY <1>3, <1>10, <2>3
    <3>2. pc[t] \in {"hit", "access", "store"} /\ v = way[t]
      BY <1>2, <3>1 DEF FinishStep, Chosen, NotCached
    <3>3. lru_lists'[s] = MoveToFront(lru_lists[s], v)
      BY <2>2, <3>1, <3>2
    <3>4. u = v
      BY <1>10, <2>1, <3>1, <3>3, MoveToFrontOrder
    <3>5. IsPermutation(MoveToFront(lru_lists[s], v))
      BY <2>1, <3>1, MoveToFrontPermutes
    <3> QED
      BY <1>10, <3>1, <3>3, <3>4, <3>5 DEF Before, IsPermutation
  <2>4. CASE LineBlock(r, v) # Block(t) /\ LineBlock(r, u) = Block(t)
    BY <1>4, <1>10, <2>4 DEF Recency, Newest, KnownBlocks
  <2>5. CASE LineBlock(r, v) # Block(t) /\ LineBlock(r, u) # Block(t)
    <3>1. Before(lru_lists[r], u, v)
      <4>1. CASE lru_lists'[r] = lru_lists[r]
        BY <1>10, <4>1
      <4>2. CASE lru_lists'[r] # lru_lists[r]
        <5>1. /\ r = s /\ pc[t] \in {"hit", "access", "store"} /\ way[t] \in Ways
              /\ lru_lists'[r] = MoveToFront(lru_lists[r], way[t])
          BY <2>2, <4>2
        <5>2. tag[s][way[t]] = g
          BY <1>2, <5>1 DEF Chosen
        <5>3. u # way[t]
          BY <1>3, <2>5, <5>1, <5>2
        <5> QED
          BY <1>10, <2>1, <5>1, <5>3, MoveToFrontOrder
      <4> QED
        BY <4>1, <4>2
    <3> QED
      BY <1>6, <1>10, <2>5, <3>1 DEF Recency, InOrder
  <2> QED
    BY <2>3, <2>4, <2>5
<1>11. ASSUME NEW r \in Sets, NEW u \in Ways, NEW v \in Ways
       PROVE  InOrder(r, u, v)'
  BY <1>7, <1>10 DEF InOrder
<1> QED
  BY <1>8, <1>9, <1>11 DEF Recency

LEMMA HandlerKinds ==
    ASSUME TypeOK, NEW t \in Requesters, HandlerStep(t)
    PROVE  \/ ClaimStep(t)
           \/ FinishStep(t)
           \/ /\ pc'[t] \in {"fill", "store"} /\ UNCHANGED <<valid, tag, lru_lists, gp, fifos>>
<1>1. t \in Channels
  BY DEF Requesters, Channels
<1>2. CASE WriteBackVictim(t) \/ (t = "write" /\ WriteThroughHit)
  BY <1>1, <1>2 DEF WriteBackVictim, WriteThroughHit, Goto, TypeOK, locals
<1>3. CASE (t = "read" /\ ReadDirect) \/ (t = "write" /\ (WriteDirect \/ WriteThroughMiss))
  BY <1>1, <1>3 DEF ReadDirect, WriteDirect, WriteThroughMiss, Finish, Goto, TypeOK, locals,
                    lineVars, FinishStep
<1>4. CASE \/ t = "read" /\ ReadLine
           \/ t = "write" /\ (WriteBackHit \/ WriteThroughStore \/ AllocatedWrite)
  BY <1>1, <1>4 DEF ReadLine, WriteBackHit, WriteThroughStore, AllocatedWrite, Finish, Goto,
                    TypeOK, locals, lineVars, FinishStep
<1> QED
  BY <1>2, <1>3, <1>4 DEF HandlerStep, WriteAccess, ClaimStep

-----------------------------------------------------------------------------
(***************************************************************************)
(* The steps.                                                              *)
(***************************************************************************)
LEMMA RecencyStepIsSeq == ASSUME [RecencyNext]_recencyVars PROVE [SeqNext]_seqVars
  BY DEF RecencyNext, RecencyPut, SeqNext, recencyVars

\* Every step is a put, a step of one thread, or one that moves no request.
LEMMA RecencySteps ==
    ASSUME [RecencyNext]_recencyVars
    PROVE  \/ \E c \in Channels : RecencyPut(c)
           \/ /\ UNCHANGED newer
              /\ \/ \E t \in Requesters : Start(t) \/ HandlerStep(t) \/ ThreadStep(t)
                 \/ Invalidate \/ Flush
                 \/ \E c \in Channels : ClientGet(c)
                 \/ UNCHANGED vars
<1>1. ASSUME Read \/ Write
      PROVE  \E t \in Requesters : Start(t) \/ HandlerStep(t) \/ ThreadStep(t)
  <2>1. CASE Read
    BY <2>1 DEF Read, HandlerStep, ThreadStep, Requesters
  <2>2. CASE Write
    BY <2>2 DEF Write, HandlerStep, ThreadStep, WriteAccess, Requesters
  <2> QED
    BY <1>1, <2>1, <2>2
<1>2. CASE Serve /\ UNCHANGED newer
  BY <1>1, <1>2 DEF Serve, Controller, FlushSpin
<1>3. CASE UNCHANGED recencyVars
  BY <1>3 DEF recencyVars, seqVars
<1> QED
  BY <1>2, <1>3 DEF RecencyNext, Get

\* A thread that takes, holds up or answers a request.
LEMMA ThreadKeepsOrder ==
    ASSUME SeqInv, Recency, UNCHANGED newer, NEW t \in Requesters, ThreadStep(t)
    PROVE  Chosen(t)' /\ Recency'
<1>1. TypeOK /\ ClientRule /\ OnePerChannel /\ t \in Channels
  BY DEF SeqInv, ClientRule, Requesters, Channels
<1>2. UNCHANGED <<valid, tag, lru_lists>>
  BY DEF ThreadStep, GetRequest, WaitForFlush, PutResponse, lineVars
<1>3. /\ Unsettled(t)' <=> Unsettled(t)
      /\ pc'[t] \in {"get", "invalidate_mutex", "flush_mutex"}
  BY <1>1 DEF ThreadStep, GetRequest, WaitForFlush, PutResponse, Goto, TypeOK, fifos,
              OnePerChannel, Unsettled
<1>4. Block(t)' = Block(t)
  BY <1>1, ThreadMoves DEF Block
<1>5. SameRequests
  BY <1>3, <1>4, WorksAlone DEF SameRequests
<1>6. Recency'
  BY <1>2, <1>5, OrderKept
<1>7. Chosen(t)'
  BY <1>3 DEF Chosen
<1> QED
  BY <1>6, <1>7

\* A step of a handler.
LEMMA HandlerKeepsOrder ==
    ASSUME RecencyInv, NoInternal, UNCHANGED newer,
           NEW t \in Requesters, Start(t) \/ HandlerStep(t)
    PROVE  Chosen(t)' /\ Recency'
<1>1. /\ SeqInv /\ TypeOK /\ ClientRule /\ OnePerChannel /\ LruIsPermutation
      /\ Chosen(t) /\ Recency
  BY DEF RecencyInv, SeqInv, ClientRule, AllChosen
<1>2. ASSUME UNCHANGED <<valid, tag, lru_lists, gp, fifos>>,
             pc[t] \notin {"get", "put"}, pc'[t] \notin {"get", "put"}
      PROVE  Recency'
  <2>1. Unsettled(t) /\ Unsettled(t)' /\ Block(t)' = Block(t)
    BY <1>2 DEF Unsettled, Block, Request, fifos
  <2>2. SameRequests
    BY <2>1, WorksAlone, <1>1 DEF SameRequests
  <2> QED
    BY <1>1, <1>2, <2>2, OrderKept
<1>3. CASE Start(t)
  <2>1. UNCHANGED <<valid, tag, lru_lists, gp, fifos>> /\ Enter(t)
    BY <1>3 DEF Start, StartInternal, StartHit, StartThrough, StartBypass, StartFill,
                StartEvict, Miss, Enter, lineVars
  <2>2. pc[t] \notin {"get", "put"} /\ pc'[t] \notin {"get", "put"}
    BY <1>1, <1>3, <2>1, EnterChanges DEF Enter, PassMutexes, InFlight, WaitsWithWay
  <2> QED
    BY <1>1, <1>2, <1>3, <2>1, <2>2, StartChosen
<1>4. CASE HandlerStep(t)
  <2>1. pc[t] \notin {"get", "put"}
    BY <1>1, <1>4, HandlerChanges DEF InFlight, WaitsWithWay
  <2>2. Recency'
    BY <1>1, <1>2, <1>4, <2>1, HandlerKinds, OrderAfterClaim, OrderAfterFinish
  <2> QED
    BY <1>1, <1>4, <2>2, HandlerChosen
<1> QED
  BY <1>3, <1>4

LEMMA RecencyInvInit == SeqInit /\ newer = {} => RecencyInv
<1> SUFFICES ASSUME SeqInit, newer = {} PROVE RecencyInv
  OBVIOUS
<1>1. Init /\ SeqInv /\ LruIsPermutation
  BY SeqInvInit, LruInit DEF SeqInit
<1>2. \A t \in Requesters : pc[t] = "get" /\ req_fifo[t] = NoMsg
  BY <1>1 DEF Init, Requesters, Channels
<1>3. \A s \in Sets, w \in Ways : ~ valid[s][w]
  BY <1>1 DEF Init
<1>4. Recency
  BY <1>2, <1>3 DEF Recency, Newest, KnownBlocks, InOrder, Unsettled
<1>5. AllChosen
  BY <1>2 DEF AllChosen, Chosen
<1> QED
  BY <1>1, <1>4, <1>5 DEF RecencyInv

LEMMA RecencyInvStep ==
    ASSUME RecencyInv, NoInternal, [RecencyNext]_recencyVars
    PROVE  RecencyInv'
<1>1. SeqInv /\ TypeOK /\ ClientRule /\ LruIsPermutation /\ AllChosen /\ Recency
  BY DEF RecencyInv, SeqInv
<1>2. SeqInv'
  BY <1>1, RecencyStepIsSeq, SeqInvStep
<1>3. LruIsPermutation'
  BY <1>1, RecencyStepIsSeq, SeqStepIsDisjoint, DisjointSteps, LruStep DEF SeqInv
<1>4. ASSUME UNCHANGED <<pc, gp, way, valid, tag, lru_lists>>
      PROVE  AllChosen'
  <2>1. \A t \in Requesters : SetOf(t)' = SetOf(t) /\ TagOf(Addr(t))' = TagOf(Addr(t))
    BY <1>4 DEF SetOf, Addr
  <2>2. \A t \in Requesters : AllocWay(SetOf(t))' = AllocWay(SetOf(t))
    BY <1>4, <2>1 DEF AllocWay, FreeWays, LruWay
  <2> QED
    BY <1>1, <1>4, <2>1, <2>2 DEF AllChosen, Chosen, NotCached
<1>5. ASSUME NEW c \in Channels, RecencyPut(c)
      PROVE  AllChosen' /\ Recency'
  BY <1>1, <1>4, <1>5, OrderAfterPut DEF RecencyPut, Put, ClientPut, locals, lineVars
<1>6. ASSUME NEW t \in Requesters, Start(t) \/ HandlerStep(t) \/ ThreadStep(t), UNCHANGED newer
      PROVE  AllChosen' /\ Recency'
  <2>1. Chosen(t)' /\ Recency'
    BY <1>1, <1>6, ThreadKeepsOrder, HandlerKeepsOrder
  <2>2. \A u \in Requesters \ {t} : Chosen(u)'
    BY <1>1, <1>6, WorksAlone DEF Chosen
  <2> QED
    BY <2>1, <2>2 DEF AllChosen
<1>7. ASSUME Invalidate \/ Flush, UNCHANGED newer
      PROVE  AllChosen' /\ Recency'
  <2>1. {"invalidate", "flush"} \subseteq Channels \ Requesters /\ Requesters \subseteq Channels
    BY DEF Requesters, Channels
  <2>2. Outstanding("invalidate") \/ Outstanding("flush")
    BY <1>7 DEF Invalidate, InvalidateGet, InvalidateLines, InvalidatePut, Flush, FlushGet,
                FlushLines, FlushPut, Outstanding
  <2>3. \A t \in Requesters : ~ Outstanding(t)
    BY <1>1, <2>1, <2>2 DEF SeqInv, OneBusy
  <2>4. /\ UNCHANGED <<tag, lru_lists>>
        /\ \A s \in Sets, w \in Ways : valid'[s][w] => valid[s][w]
        /\ \A t \in Requesters : Untouched(t)
    BY <1>1, <1>7, <2>1 DEF Invalidate, InvalidateGet, InvalidateLines, InvalidatePut, Flush,
       FlushGet, FlushLines, FlushPut, Goto, Untouched, locals, fifos, lineVars, TypeOK
  <2>5. SameRequests
    BY <2>4, UntouchedSettles DEF SameRequests
  <2>6. \A t \in Requesters : pc'[t] = "get"
    BY <2>3, <2>4 DEF Outstanding, Untouched
  <2>7. AllChosen'
    BY <2>6 DEF AllChosen, Chosen
  <2> QED
    BY <1>1, <1>7, <2>4, <2>5, <2>7, OrderKept
<1>8. ASSUME UNCHANGED <<pc, gp, way, valid, tag, lru_lists, req_fifo, newer>>
      PROVE  AllChosen' /\ Recency'
  <2>1. SameRequests
    BY <1>8 DEF SameRequests, Unsettled, Block, Request
  <2> QED
    BY <1>1, <1>4, <1>8, <2>1, OrderKept
<1>9. ASSUME NEW c \in Channels, ClientGet(c), UNCHANGED newer
      PROVE  AllChosen' /\ Recency'
  BY <1>8, <1>9 DEF ClientGet, locals, lineVars
<1>10. ASSUME UNCHANGED vars, UNCHANGED newer
       PROVE  AllChosen' /\ Recency'
  BY <1>8, <1>10 DEF vars, locals, lineVars, fifos
<1>11. AllChosen' /\ Recency'
  BY <1>5, <1>6, <1>7, <1>9, <1>10, RecencySteps
<1> QED
  BY <1>2, <1>3, <1>11 DEF RecencyInv

-----------------------------------------------------------------------------
(***************************************************************************)
(* Replacement.                                                            *)
(***************************************************************************)
Replaces(s, w) == valid[s][w] /\ valid'[s][w] /\ tag'[s][w] # tag[s][w]

\* Only the handlers' claims put another tag on a line.
LEMMA OnlyClaimsReplace ==
    ASSUME RecencyInv, [RecencyNext]_recencyVars, NEW s \in Sets, NEW w \in Ways,
           Replaces(s, w)
    PROVE  \E t \in Requesters : HandlerStep(t) /\ ClaimStep(t)
<1>1. tag' # tag /\ TypeOK
  BY DEF Replaces, RecencyInv, SeqInv
<1>2. ASSUME NEW t \in Requesters, Start(t) \/ ThreadStep(t)
      PROVE  FALSE
  BY <1>1, <1>2 DEF Start, StartInternal, StartHit, StartThrough, StartBypass, StartFill,
     StartEvict, Miss, Enter, ThreadStep, GetRequest, WaitForFlush, PutResponse, lineVars
<1>3. ASSUME NEW t \in Requesters, HandlerStep(t)
      PROVE  ClaimStep(t)
  BY <1>1, <1>3, HandlerKinds DEF FinishStep
<1>4. ~ Invalidate /\ ~ Flush
  BY <1>1 DEF Invalidate, InvalidateGet, InvalidateLines, InvalidatePut, Flush, FlushGet,
              FlushLines, FlushPut, lineVars
<1>5. ASSUME NEW c \in Channels, RecencyPut(c) \/ ClientGet(c)
      PROVE  FALSE
  BY <1>1, <1>5 DEF RecencyPut, Put, ClientPut, ClientGet, lineVars
<1>6. ~ UNCHANGED vars
  BY <1>1 DEF vars, lineVars
<1> QED
  BY <1>2, <1>3, <1>4, <1>5, <1>6, RecencySteps

LEMMA ReplacesLeast ==
    ASSUME RecencyInv, [RecencyNext]_recencyVars, NEW s \in Sets, NEW w \in Ways,
           Replaces(s, w), NEW v \in Ways \ {w}
    PROVE  valid[s][v] /\ <<LineBlock(s, v), LineBlock(s, w)>> \in newer
<1>1. PICK t \in Requesters : HandlerStep(t) /\ ClaimStep(t)
  BY OnlyClaimsReplace
<1>2. /\ SeqInv /\ TypeOK /\ ClientRule /\ LruIsPermutation /\ Chosen(t) /\ Recency
      /\ pc[t] # "get"
  BY <1>1, HandlerChanges DEF RecencyInv, SeqInv, AllChosen, InFlight, WaitsWithWay
<1>3. PICK r \in Sets, g \in Nat : r = SetOf(t) /\ g = TagOf(Addr(t))
  BY <1>2, BlockOfRequest
<1>4. /\ NotCached(r, g) /\ AllocWay(r) \in Ways
      /\ tag' = [tag EXCEPT ![r][AllocWay(r)] = g]
  BY <1>1, <1>2, <1>3, ClaimChanges
<1>5. r = s /\ AllocWay(s) = w
  BY <1>2, <1>4 DEF Replaces, TypeOK
<1>6. FreeWays(s) = {}
  <2> SUFFICES ASSUME FreeWays(s) # {} PROVE FALSE
    OBVIOUS
  <2>1. AllocWay(s) \in FreeWays(s)
    BY MinOfWays DEF AllocWay, FreeWays
  <2> QED
    BY <1>5, <2>1 DEF FreeWays, Replaces
<1>7. \A u \in Ways : valid[s][u] /\ tag[s][u] # g
  BY <1>4, <1>5, <1>6 DEF FreeWays, NotCached
<1>8. w = lru_lists[s][NumWays]
  BY <1>5, <1>6 DEF AllocWay, LruWay
<1>9. Before(lru_lists[s], v, w)
  BY <1>2, <1>8, LastIsLast DEF TypeOK, LruIsPermutation
<1>10. \A u \in Ways : ~ Unsettling(LineBlock(s, u))
  <2> SUFFICES ASSUME NEW u \in Ways, NEW p \in Requesters,
                      Unsettled(p), Block(p) = LineBlock(s, u)
               PROVE  FALSE
    BY DEF Unsettling
  <2>1. p = t
    BY <1>1, <1>2, WorksAlone
  <2>2. tag[s][u] = g
    BY <1>2, <1>3, <2>1, BlockOfRequest, BlockOfLine
  <2> QED
    BY <1>7, <2>2
<1> QED
  BY <1>2, <1>7, <1>9, <1>10 DEF Recency, InOrder

\* A block gives way to another only when its set has no free way, and only if it is
\* the one whose last request is longest ago, with any number of ways and any
\* attributes that do not send requests past the cache.
THEOREM LeastRecentReplaced == ASSUME NoInternal PROVE RecencySpec => ReplacesLeastRecent
<1>1. RecencyInv /\ [RecencyNext]_recencyVars => RecencyInv'
  BY RecencyInvStep
<1>2. RecencyInv /\ [RecencyNext]_recencyVars
      => [\A s \in Sets, w \in Ways :
             valid[s][w] /\ valid'[s][w] /\ tag'[s][w] # tag[s][w] =>
                 \A v \in Ways \ {w} :
                     valid[s][v] /\ <<LineBlock(s, v), LineBlock(s, w)>> \in newer]_recencyVars
  BY ReplacesLeast DEF Replaces
<1> QED
  BY <1>1, <1>2, RecencyInvInit, PTL DEF RecencySpec, ReplacesLeastRecent

\* The recency client is a sequential one: what it reads back is what it wrote.
THEOREM RecencyReadsBack ==
    ASSUME SafeAttributes, AlignedAddrs
    PROVE  RecencySpec => []ReadBack
<1>1. ReadBackInv /\ [RecencyNext]_recencyVars => ReadBackInv'
  BY RecencyStepIsSeq, ReadBackStep
<1>2. ReadBackInv => ReadBack
  BY ReadBackHolds
<1> QED
  BY <1>1, <1>2, ReadBackInit, PTL DEF RecencySpec

=============================================================================
