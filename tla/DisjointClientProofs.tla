------------------------ MODULE DisjointClientProofs ------------------------
(***************************************************************************)
(* Invariants of the controller under the clients of DisjointClient, whose *)
(* reads and writes never meet in a set: one request per channel, one copy *)
(* of a block.                                                             *)
(***************************************************************************)
EXTENDS DisjointClient, CacheControllerProofs

-----------------------------------------------------------------------------
(***************************************************************************)
(* The steps.                                                              *)
(***************************************************************************)

\* A thread takes a request, waits for a mutex or answers.
ThreadStep(t) == GetRequest(t) \/ WaitForFlush(t) \/ PutResponse(t)

\* Every step is a step of CacheController, of one of a few kinds.
LEMMA DisjointSteps ==
    ASSUME [DisjointNext]_vars
    PROVE  /\ [Next]_vars
           /\ \/ \E t \in Requesters : Start(t) \/ HandlerStep(t) \/ ThreadStep(t)
              \/ Invalidate \/ Flush
              \/ \E c \in Channels : PutDisjoint(c) \/ ClientGet(c)
              \/ UNCHANGED vars
<1>1. [Next]_vars
  BY DEF DisjointNext, PutDisjoint, Next, Client
<1>2. CASE Read
  BY <1>1, <1>2 DEF Read, HandlerStep, ThreadStep, Requesters
<1>3. CASE Write
  BY <1>1, <1>3 DEF Write, HandlerStep, ThreadStep, WriteAccess, Requesters
<1> QED
  BY <1>1, <1>2, <1>3 DEF DisjointNext, Controller, FlushSpin

LEMMA DisjointSpecIsSpec == DisjointSpec => Spec
<1>1. [DisjointNext]_vars => [Next]_vars
  BY DisjointSteps
<1> QED
  BY <1>1, PTL DEF DisjointSpec, Spec

-----------------------------------------------------------------------------
(***************************************************************************)
(* What the client's rule makes of the channels.                           *)
(***************************************************************************)

\* A request is in one place: in the request fifo, with the thread, or, as the
\* answer, in the response fifo.
OnePerChannel ==
    \A c \in Channels :
        /\ req_fifo[c] # NoMsg => pc[c] = "get" /\ rsp_fifo[c] = NoMsg
        /\ pc[c] # "get" => rsp_fifo[c] = NoMsg

SetsApart ==
    Outstanding("read") /\ Outstanding("write") =>
        SetIndex(Request("read").addr) # SetIndex(Request("write").addr)

ClientRule == OnePerChannel /\ SetsApart

LEMMA RealMessages ==
    ASSUME NEW c \in Channels
    PROVE  NoMsg \notin Messages(c) /\ NoMsg \notin Served(c)
<1>1. NoMsg \notin Messages("read") /\ NoMsg \notin Messages("write")
      /\ NoMsg \notin Served("read")
  BY NoMsgAssumption, ValuesAssumption DEF Messages, Served, Payloads
<1>2. NoMsg \notin Messages("invalidate") /\ NoMsg \notin Messages("flush")
  BY NoMsgAssumption DEF Messages
<1> QED
  BY <1>1, <1>2 DEF Served, Channels, Requesters

\* A step moves a request on or leaves it, it does not replace it.
Moves(c) ==
    /\ Outstanding(c)' => Outstanding(c)
    /\ c \in Requesters /\ Outstanding(c)' => Request(c)'.addr = Request(c).addr
    /\ req_fifo'[c] # NoMsg => pc'[c] = "get" /\ rsp_fifo'[c] = NoMsg
    /\ pc'[c] # "get" => rsp_fifo'[c] = NoMsg

Untouched(c) ==
    /\ pc'[c] = pc[c] /\ gp'[c] = gp[c]
    /\ req_fifo'[c] = req_fifo[c] /\ rsp_fifo'[c] = rsp_fifo[c]

LEMMA UntouchedMoves ==
    ASSUME OnePerChannel, NEW c \in Channels, Untouched(c)
    PROVE  Moves(c)
  BY DEF OnePerChannel, Moves, Untouched, Outstanding, Request

\* Each thread works on its own request.
LEMMA ThreadsApart ==
    ASSUME TypeOK,
           NEW t \in Requesters, Start(t) \/ HandlerStep(t) \/ ThreadStep(t),
           NEW c \in Channels \ {t}
    PROVE  Untouched(c)
<1>1. t \in Channels
  BY DEF Requesters, Channels
<1>2. CASE Start(t)
  <2>1. UNCHANGED fifos
    BY <1>2 DEF Start, StartInternal, StartHit, StartThrough, StartBypass, StartFill,
                StartEvict, Miss, Enter
  <2> QED
    BY <1>2, <2>1, EnterChanges DEF Untouched, fifos
<1>3. CASE HandlerStep(t)
  <2>1. UNCHANGED fifos
    BY <1>3 DEF HandlerStep, ReadDirect, ReadLine, WriteAccess, WriteDirect, WriteBackHit,
                WriteThroughHit, WriteThroughStore, WriteThroughMiss, AllocatedWrite,
                WriteThroughAllocate, WriteBackVictim, FillLine
  <2> QED
    BY <1>3, <2>1, HandlerChanges DEF Untouched, fifos
<1>4. CASE ThreadStep(t)
  BY <1>1, <1>4 DEF ThreadStep, GetRequest, WaitForFlush, PutResponse, Goto, Untouched,
                    TypeOK, locals, fifos
<1> QED
  BY <1>2, <1>3, <1>4

\* A request in the handler stays there, or is about to be answered.
LEMMA HandlerMoves ==
    ASSUME TypeOK, OnePerChannel, NEW t \in Requesters, Start(t) \/ HandlerStep(t)
    PROVE  Moves(t) /\ pc[t] # "get" /\ pc'[t] # "get"
<1>1. t \in Channels
  BY DEF Requesters, Channels
<1>2. UNCHANGED fifos
  BY DEF Start, StartInternal, StartHit, StartThrough, StartBypass, StartFill,
         StartEvict, Miss, Enter,
         HandlerStep, ReadDirect, ReadLine, WriteAccess, WriteDirect, WriteBackHit,
         WriteThroughHit, WriteThroughStore, WriteThroughMiss, AllocatedWrite,
         WriteThroughAllocate, WriteBackVictim, FillLine
<1>3. pc[t] # "get" /\ gp'[t].addr = gp[t].addr
  BY EnterChanges, HandlerChanges DEF InFlight, WaitsWithWay
<1>4. pc'[t] # "get"
  <2>1. CASE Start(t)
    BY <2>1, EnterChanges DEF InFlight, WaitsWithWay
  <2>2. CASE HandlerStep(t)
    BY <1>1, <2>2 DEF HandlerStep, ReadDirect, ReadLine, WriteAccess, WriteDirect,
         WriteBackHit, WriteThroughHit, WriteThroughStore, WriteThroughMiss, AllocatedWrite,
         WriteThroughAllocate, WriteBackVictim, FillLine, Finish, Goto, TypeOK
  <2> QED
    BY <2>1, <2>2
<1> QED
  BY <1>1, <1>2, <1>3, <1>4 DEF Moves, OnePerChannel, Outstanding, Request, fifos

LEMMA ThreadMoves ==
    ASSUME TypeOK, OnePerChannel, NEW t \in Requesters, ThreadStep(t)
    PROVE  Moves(t) /\ Outstanding(t) /\ Outstanding(t)' /\ Request(t)' = Request(t)
<1>1. t \in Channels
  BY DEF Requesters, Channels
<1>2. CASE GetRequest(t)
  BY <1>1, <1>2 DEF GetRequest, Goto, Moves, OnePerChannel, Outstanding, Request, TypeOK
<1>3. CASE WaitForFlush(t)
  BY <1>1, <1>3
  DEF WaitForFlush, Goto, Moves, OnePerChannel, Outstanding, Request, TypeOK, fifos, locals
<1>4. CASE PutResponse(t)
  <2>1. gp[t] # NoMsg
    BY <1>1, <1>4, RealMessages DEF PutResponse, TypeOK
  <2> QED
    BY <1>1, <1>4, <2>1
    DEF PutResponse, Goto, Moves, OnePerChannel, Outstanding, Request, TypeOK
<1> QED
  BY <1>2, <1>3, <1>4 DEF ThreadStep

LEMMA ServiceMoves ==
    ASSUME TypeOK, OnePerChannel, NEW c \in Channels, Invalidate \/ Flush
    PROVE  Moves(c)
<1>1. /\ {"invalidate", "flush"} \subseteq Channels
      /\ "invalidate" \notin Requesters /\ "flush" \notin Requesters
  BY DEF Requesters, Channels
<1>2. CASE InvalidateLines \/ FlushLines
  BY <1>1, <1>2
  DEF InvalidateLines, FlushLines, Goto, Moves, OnePerChannel, Outstanding, Request, TypeOK,
      fifos, locals
<1>3. CASE InvalidateGet \/ FlushGet
  BY <1>1, <1>3
  DEF InvalidateGet, FlushGet, Goto, Moves, OnePerChannel, Outstanding, Request, TypeOK
<1>4. CASE InvalidatePut \/ FlushPut
  BY <1>1, <1>4
  DEF InvalidatePut, FlushPut, Goto, Moves, OnePerChannel, Outstanding, Request, TypeOK
<1> QED
  BY <1>2, <1>3, <1>4 DEF Invalidate, Flush

LEMMA GetMoves ==
    ASSUME TypeOK, OnePerChannel, NEW c \in Channels, NEW d \in Channels, ClientGet(d)
    PROVE  Moves(c)
  BY DEF ClientGet, Moves, OnePerChannel, Outstanding, Request, TypeOK, locals

\* A request put on an idle channel.
LEMMA PutChanges ==
    ASSUME TypeOK, NEW c \in Channels, NEW m \in Messages(c), ~ Outstanding(c),
           ClientPut(c, m)
    PROVE  /\ \A d \in Channels \ {c} : Untouched(d)
           /\ Outstanding(c)' /\ Request(c)' = m
           /\ pc'[c] = "get" /\ rsp_fifo'[c] = NoMsg
<1>1. m # NoMsg
  BY RealMessages
<1> QED
  BY <1>1 DEF ClientPut, Untouched, Outstanding, Request, TypeOK, locals

LEMMA RuleInit == Init => ClientRule
  BY DEF Init, ClientRule, OnePerChannel, SetsApart, Outstanding, Channels, Requesters

LEMMA MovesKeepRule ==
    ASSUME ClientRule, \A c \in Channels : Moves(c)
    PROVE  ClientRule'
<1>1. OnePerChannel'
  BY DEF OnePerChannel, Moves
<1>2. {"read", "write"} \subseteq Channels /\ {"read", "write"} \subseteq Requesters
  BY DEF Channels, Requesters
<1>3. SetsApart'
  BY <1>2 DEF SetsApart, ClientRule, Moves
<1> QED
  BY <1>1, <1>3 DEF ClientRule

\* The controller moves the requests on, and puts none.
LEMMA ControllerMoves ==
    ASSUME TypeOK, OnePerChannel, Controller \/ FlushSpin
    PROVE  \A c \in Channels : Moves(c)
<1>1. ASSUME NEW t \in Requesters, Start(t) \/ HandlerStep(t) \/ ThreadStep(t)
      PROVE  \A c \in Channels : Moves(c)
  <2>1. t \in Channels /\ Moves(t)
    BY <1>1, HandlerMoves, ThreadMoves DEF Requesters, Channels
  <2>2. \A c \in Channels \ {t} : Moves(c)
    BY <1>1, ThreadsApart, UntouchedMoves
  <2> QED
    BY <2>1, <2>2
<1>2. CASE FlushSpin
  <2>1. \A c \in Channels : Untouched(c)
    BY <1>2 DEF FlushSpin, vars, Untouched, locals, fifos
  <2> QED
    BY <2>1, UntouchedMoves
<1>3. CASE Read
  BY <1>1, <1>3 DEF Read, HandlerStep, ThreadStep, Requesters
<1>4. CASE Write
  BY <1>1, <1>4 DEF Write, HandlerStep, ThreadStep, WriteAccess, Requesters
<1> QED
  BY <1>2, <1>3, <1>4, ServiceMoves DEF Controller

\* A step moves the requests on, or puts a new one.
LEMMA StepMoves ==
    ASSUME TypeOK, ClientRule, [DisjointNext]_vars
    PROVE  (\A c \in Channels : Moves(c)) \/ \E c \in Channels : PutDisjoint(c)
<1>1. OnePerChannel
  BY DEF ClientRule
<1>2. CASE UNCHANGED vars
  <2>1. \A c \in Channels : Untouched(c)
    BY <1>2 DEF vars, Untouched, locals, fifos
  <2> QED
    BY <1>1, <2>1, UntouchedMoves
<1> QED
  BY <1>1, <1>2, ControllerMoves, GetMoves DEF DisjointNext

\* Only invalidate() moves its thread.
LEMMA InvalidatePc ==
    ASSUME TypeOK, [DisjointNext]_vars, ~ Invalidate
    PROVE  pc'["invalidate"] = pc["invalidate"]
<1>1. /\ "invalidate" \in Channels /\ \A t \in Requesters : "invalidate" \in Channels \ {t}
  BY DEF Channels, Requesters
<1>2. ASSUME NEW t \in Requesters, Start(t) \/ HandlerStep(t) \/ ThreadStep(t)
      PROVE  pc'["invalidate"] = pc["invalidate"]
  BY <1>1, <1>2, ThreadsApart DEF Untouched
<1>3. CASE Flush
  BY <1>1, <1>3 DEF Flush, FlushGet, FlushLines, FlushPut, Goto, TypeOK
<1>4. CASE (\E c \in Channels : PutDisjoint(c) \/ ClientGet(c)) \/ UNCHANGED vars
  BY <1>4 DEF PutDisjoint, ClientPut, ClientGet, vars
<1> QED
  BY <1>2, <1>3, <1>4, DisjointSteps

LEMMA RuleStep == TypeOK /\ ClientRule /\ [DisjointNext]_vars => ClientRule'
<1> SUFFICES ASSUME TypeOK, ClientRule, [DisjointNext]_vars PROVE ClientRule'
  OBVIOUS
<1> USE DEF ClientRule
<1>1. ASSUME NEW c \in Channels, PutDisjoint(c)
      PROVE  ClientRule'
  <2>1. PICK m \in Messages(c) : Disjoint(c, m) /\ ClientPut(c, m)
    BY <1>1 DEF PutDisjoint
  <2>2. ~ Outstanding(c)
    BY <1>1 DEF PutDisjoint
  <2>3. /\ \A d \in Channels \ {c} : Untouched(d)
        /\ Outstanding(c)' /\ Request(c)' = m
        /\ pc'[c] = "get" /\ rsp_fifo'[c] = NoMsg
    BY <2>1, <2>2, PutChanges
  <2>4. \A d \in Channels \ {c} : Moves(d)
    BY <2>3, UntouchedMoves
  <2>5. OnePerChannel'
    BY <2>3, <2>4 DEF OnePerChannel, Moves
  <2>6. SetsApart'
    <3>1. CASE c \in Requesters
      <4>1. PICK u \in Requesters : u # c /\ Requesters = {c, u}
        BY <3>1 DEF Requesters
      <4>2. Outstanding(u)' => Outstanding(u) /\ Request(u)'.addr = Request(u).addr
        BY <2>4, <4>1 DEF Moves, Requesters, Channels
      <4>3. Outstanding(u) => SetIndex(Request(u).addr) # SetIndex(m.addr)
        BY <2>1, <3>1, <4>1 DEF Disjoint
      <4>4. Outstanding(u)' => SetIndex(Request(u)'.addr) # SetIndex(Request(c)'.addr)
        BY <2>3, <4>2, <4>3
      <4>5. (c = "read" /\ u = "write") \/ (c = "write" /\ u = "read")
        BY <4>1 DEF Requesters
      <4> QED
        BY <4>4, <4>5 DEF SetsApart
    <3>2. CASE c \notin Requesters
      <4>1. \A t \in {"read", "write"} : t \in Requesters /\ t \in Channels \ {c}
        BY <3>2 DEF Channels, Requesters
      <4> QED
        BY <2>4, <4>1 DEF SetsApart, Moves
    <3> QED
      BY <3>1, <3>2
  <2> QED
    BY <2>5, <2>6
<1> QED
  BY <1>1, StepMoves, MovesKeepRule

-----------------------------------------------------------------------------
(***************************************************************************)
(* What a step of a request reaches: the lines and entries of its set, and *)
(* its own locals.                                                         *)
(***************************************************************************)
SameSet(s) ==
    /\ valid'[s] = valid[s] /\ dirty'[s] = dirty[s]
    /\ tag'[s] = tag[s] /\ data'[s] = data[s]
    /\ ongoing_requests'[s] = ongoing_requests[s]

SameThread(t) ==
    pc'[t] = pc[t] /\ gp'[t] = gp[t] /\ way'[t] = way[t] /\ victim'[t] = victim[t]

LEMMA InFlightOutstanding ==
    ASSUME ClientRule, NEW t \in Requesters, pc[t] # "get"
    PROVE  Outstanding(t) /\ Request(t) = gp[t]
<1>1. t \in Channels
  BY DEF Requesters, Channels
<1> QED
  BY <1>1 DEF ClientRule, OnePerChannel, Outstanding, Request

\* Two requests that are both past their get are for different sets.
LEMMA HandledApart ==
    ASSUME ClientRule, NEW t \in Requesters, NEW u \in Requesters \ {t},
           pc[t] # "get", pc[u] # "get"
    PROVE  SetOf(t) # SetOf(u)
<1>1. Outstanding(t) /\ Request(t) = gp[t] /\ Outstanding(u) /\ Request(u) = gp[u]
  BY InFlightOutstanding
<1>2. (t = "read" /\ u = "write") \/ (t = "write" /\ u = "read")
  BY DEF Requesters
<1> QED
  BY <1>1, <1>2 DEF ClientRule, SetsApart, SetOf, Addr

LEMMA OtherSets ==
    ASSUME TypeOK, NEW t \in Requesters, Start(t) \/ HandlerStep(t),
           NEW s \in Sets \ {SetOf(t)}
    PROVE  SameSet(s)
<1>1. CASE Start(t)
  <2>1. UNCHANGED lineVars /\ SetOngoing(t, "live")
    BY <1>1 DEF Start, StartInternal, StartHit, StartThrough, StartBypass, StartFill,
                StartEvict, Miss, Enter
  <2> QED
    BY <2>1 DEF SetOngoing, SameSet, lineVars, TypeOK
<1>2. CASE HandlerStep(t)
  <2>1. ongoing_requests'[s] = ongoing_requests[s]
    BY <1>2, HandlerChanges DEF ProbeOngoing, EraseOngoing, SetOngoing, TypeOK
  <2>2. \/ UNCHANGED lineVars
        \/ /\ valid'[s] = valid[s] /\ dirty'[s] = dirty[s]
           /\ tag'[s] = tag[s] /\ data'[s] = data[s]
    BY <1>2
    DEF HandlerStep, ReadDirect, ReadLine, WriteAccess, WriteDirect, WriteBackHit,
        WriteThroughHit, WriteThroughStore, WriteThroughMiss, AllocatedWrite,
        WriteThroughAllocate, WriteBackVictim, FillLine, WriteWord, TypeOK
  <2> QED
    BY <2>1, <2>2 DEF SameSet, lineVars
<1> QED
  BY <1>1, <1>2

LEMMA OtherThread ==
    ASSUME TypeOK, NEW t \in Requesters, Start(t) \/ HandlerStep(t) \/ ThreadStep(t),
           NEW u \in Requesters \ {t}
    PROVE  SameThread(u)
<1>1. Untouched(u)
  BY ThreadsApart DEF Requesters, Channels
<1>2. way'[u] = way[u] /\ victim'[u] = victim[u]
  <2>1. CASE Start(t)
    BY <2>1 DEF Start, StartInternal, StartHit, StartThrough, StartBypass, StartFill,
                StartEvict, TypeOK
  <2>2. CASE HandlerStep(t)
    BY <2>2 DEF HandlerStep, ReadDirect, ReadLine, WriteAccess, WriteDirect, WriteBackHit,
        WriteThroughHit, WriteThroughStore, WriteThroughMiss, AllocatedWrite,
        WriteThroughAllocate, WriteBackVictim, FillLine, locals, TypeOK
  <2>3. CASE ThreadStep(t)
    BY <2>3 DEF ThreadStep, GetRequest, WaitForFlush, PutResponse, locals, TypeOK
  <2> QED
    BY <2>1, <2>2, <2>3
<1> QED
  BY <1>1, <1>2 DEF Untouched, SameThread

-----------------------------------------------------------------------------
(***************************************************************************)
(* Tags.                                                                   *)
(***************************************************************************)

\* No way in front of a valid line has its tag.
NoShadow(s) ==
    \A v, w \in Ways : valid[s][w] /\ v < w => tag[s][v] # tag[s][w]

\* The block is in no valid line of the set.
NotCached(s, g) == \A w \in Ways : valid[s][w] => tag[s][w] # g

\* The block may take way w: it would be neither a second copy nor shadowed.
Claimable(s, g, w) ==
    NotCached(s, g) /\ \A v \in Ways : v < w => tag[s][v] # g

\* From a miss to the fill, the way that was chosen stays the right one.
Claims(t) ==
    /\ pc[t] = "through" => NotCached(SetOf(t), TagOf(Addr(t)))
    /\ pc[t] \in {"evict", "fill"} => Claimable(SetOf(t), TagOf(Addr(t)), way[t])

TagsInv ==
    /\ \A s \in Sets : NoShadow(s)
    /\ \A t \in Requesters : Claims(t)

LEMMA AllocWayClaimable ==
    ASSUME TypeOK, NEW s \in Sets, NEW g, NotCached(s, g)
    PROVE  /\ Claimable(s, g, AllocWay(s))
           /\ FreeWays(s) = {} => Claimable(s, g, LruWay(s))
<1>1. CASE FreeWays(s) = {}
  <2>1. \A v \in Ways : valid[s][v]
    BY <1>1 DEF FreeWays
  <2> QED
    BY <2>1, <1>1 DEF AllocWay, NotCached, Claimable
<1>2. CASE FreeWays(s) # {}
  <2>1. AllocWay(s) \in Ways /\ \A v \in FreeWays(s) : AllocWay(s) <= v
    BY <1>2, MinOfWays DEF AllocWay, FreeWays
  <2>2. \A v \in Ways : v < AllocWay(s) => valid[s][v]
    <3> SUFFICES ASSUME NEW v \in Ways, v < AllocWay(s), ~ valid[s][v] PROVE FALSE
      OBVIOUS
    <3>1. AllocWay(s) <= v /\ v \in Int /\ AllocWay(s) \in Int
      BY <2>1, NumWaysAssumption DEF FreeWays, Ways
    <3> QED
      BY <3>1
  <2> QED
    BY <1>2, <2>2 DEF NotCached, Claimable
<1> QED
  BY <1>1, <1>2

LEMMA ClaimKeepsTags ==
    ASSUME TypeOK, NEW s \in Sets, NEW g \in Nat, NEW w \in Ways, NEW b \in BOOLEAN,
           NoShadow(s), Claimable(s, g, w),
           valid' = [valid EXCEPT ![s][w] = b],
           tag' = [tag EXCEPT ![s][w] = g]
    PROVE  NoShadow(s)'
<1> SUFFICES ASSUME NEW v \in Ways, NEW x \in Ways, valid'[s][x], v < x
             PROVE  tag'[s][v] # tag'[s][x]
  BY DEF NoShadow
<1>1. /\ valid'[s] = [valid[s] EXCEPT ![w] = b] /\ valid[s] \in [Ways -> BOOLEAN]
      /\ tag'[s] = [tag[s] EXCEPT ![w] = g] /\ tag[s] \in [Ways -> Nat]
  BY DEF TypeOK
<1>2. v # x
  BY NumWaysAssumption DEF Ways
<1>3. CASE x = w
  BY <1>1, <1>2, <1>3 DEF Claimable
<1>4. CASE x # w /\ v = w
  BY <1>1, <1>4 DEF Claimable, NotCached
<1>5. CASE x # w /\ v # w
  BY <1>1, <1>5 DEF NoShadow
<1> QED
  BY <1>3, <1>4, <1>5

LEMMA TagsInit == Init => TagsInv
<1> SUFFICES ASSUME Init PROVE TagsInv
  OBVIOUS
<1>1. \A s \in Sets : NoShadow(s)
  BY DEF Init, NoShadow
<1>2. \A t \in Requesters : pc[t] = "get"
  BY DEF Init, Requesters, Channels
<1> QED
  BY <1>1, <1>2 DEF TagsInv, Claims

\* The tags of a set, under a step of a request of that set.
LEMMA TagsOfOwnSet ==
    ASSUME TypeOK, TagsInv, NEW t \in Requesters, Start(t) \/ HandlerStep(t),
           NEW s \in Sets, s = SetOf(t)
    PROVE  NoShadow(s)'
<1>1. pc[t] # "get"
  BY EnterChanges, HandlerChanges DEF InFlight, WaitsWithWay
<1>2. PICK g \in Nat : g = TagOf(Addr(t))
  BY <1>1, RequestTypes
<1>3. NoShadow(s)
  BY DEF TagsInv
<1>4. CASE FillLine(t)
  <2>1. Claimable(s, g, way[t]) /\ way[t] \in Ways
    BY <1>2, <1>4 DEF FillLine, TagsInv, Claims, TypeOK, WaitsWithWay
  <2>2. \E b \in BOOLEAN : valid' = [valid EXCEPT ![s][way[t]] = b]
    BY <1>4, <2>1 DEF FillLine, TypeOK, Live
  <2>3. tag' = [tag EXCEPT ![s][way[t]] = g]
    BY <1>2, <1>4 DEF FillLine
  <2> QED
    BY <1>3, <2>1, <2>2, <2>3, ClaimKeepsTags
<1>5. CASE t = "write" /\ WriteThroughAllocate
  <2> DEFINE w == AllocWay(s)
  <2>1. NotCached(s, g)
    BY <1>2, <1>5 DEF WriteThroughAllocate, TagsInv, Claims
  <2>2. Claimable(s, g, w) /\ w \in Ways
    BY <2>1, AllocWayClaimable, AllocWayType
  <2>3. \E b \in BOOLEAN : valid' = [valid EXCEPT ![s][w] = b]
    BY <1>5, <2>2 DEF WriteThroughAllocate, TypeOK, Live
  <2>4. tag' = [tag EXCEPT ![s][w] = g]
    BY <1>2, <1>5 DEF WriteThroughAllocate
  <2> HIDE DEF w
  <2> QED
    BY <1>3, <2>2, <2>3, <2>4, ClaimKeepsTags
<1>6. CASE ~ FillLine(t) /\ ~ (t = "write" /\ WriteThroughAllocate)
  <2>1. UNCHANGED <<valid, tag>>
    BY <1>6 DEF HandlerStep, ReadDirect, ReadLine, WriteAccess, WriteDirect, WriteBackHit,
        WriteThroughHit, WriteThroughStore, WriteThroughMiss, AllocatedWrite, WriteBackVictim,
        Start, StartInternal, StartHit, StartThrough, StartBypass, StartFill, StartEvict,
        Miss, Enter, lineVars
  <2> QED
    BY <1>3, <2>1 DEF NoShadow
<1> QED
  BY <1>4, <1>5, <1>6

\* What the request itself has claimed.
LEMMA ClaimsOfOwnThread ==
    ASSUME TypeOK, TagsInv, NEW t \in Requesters, Start(t) \/ HandlerStep(t)
    PROVE  Claims(t)'
<1>1. pc[t] # "get" /\ t \in Channels
  BY EnterChanges, HandlerChanges DEF InFlight, WaitsWithWay, Requesters, Channels
<1>2. PICK s \in Sets, g \in Nat : s = SetOf(t) /\ g = TagOf(Addr(t))
  BY <1>1, RequestTypes
<1>3. SetOf(t)' = s /\ TagOf(Addr(t))' = g
  BY <1>2, EnterChanges, HandlerChanges DEF SetOf, Addr
<1>4. HitWays(t) = {} => NotCached(s, g)
  BY <1>2 DEF HitWays, NotCached
<1>5. CASE StartFill(t) \/ StartEvict(t)
  <2>1. HitWays(t) = {} /\ UNCHANGED lineVars
    BY <1>5 DEF StartFill, StartEvict, Miss, Enter
  <2>2. /\ way'[t] = AllocWay(s) \/ (FreeWays(s) = {} /\ way'[t] = LruWay(s))
        /\ pc'[t] \in {"evict", "fill"}
    BY <1>1, <1>2, <1>5 DEF StartFill, StartEvict, EvictsDirty, Goto, TypeOK
  <2>3. Claimable(s, g, way'[t])
    BY <1>4, <2>1, <2>2, AllocWayClaimable
  <2>4. Claimable(s, g, way[t])'
    BY <2>1, <2>3 DEF Claimable, NotCached, lineVars
  <2> QED
    BY <1>3, <2>2, <2>4 DEF Claims
<1>6. CASE t = "write" /\ StartThrough
  <2>1. HitWays(t) = {} /\ UNCHANGED lineVars /\ pc'[t] = "through"
    BY <1>1, <1>6 DEF StartThrough, Enter, Goto, TypeOK
  <2>2. NotCached(s, g)'
    BY <1>4, <2>1 DEF NotCached, lineVars
  <2> QED
    BY <1>3, <2>1, <2>2 DEF Claims
<1>7. CASE WriteBackVictim(t)
  <2>1. pc[t] = "evict" /\ pc'[t] = "fill" /\ UNCHANGED <<valid, tag, way>>
    BY <1>1, <1>7 DEF WriteBackVictim, Goto, TypeOK, locals
  <2>2. Claimable(s, g, way[t])'
    BY <1>2, <2>1 DEF TagsInv, Claims, Claimable, NotCached
  <2> QED
    BY <1>3, <2>1, <2>2 DEF Claims
<1>8. CASE /\ ~ StartFill(t) /\ ~ StartEvict(t) /\ ~ (t = "write" /\ StartThrough)
           /\ ~ WriteBackVictim(t)
  <2>1. pc'[t] \notin {"through", "evict", "fill"}
    BY <1>1, <1>8 DEF HandlerStep, ReadDirect, ReadLine, WriteAccess, WriteDirect,
        WriteBackHit, WriteThroughHit, WriteThroughStore, WriteThroughMiss, AllocatedWrite,
        WriteThroughAllocate, FillLine, Start, StartInternal, StartHit, StartBypass,
        Finish, Goto, TypeOK
  <2> QED
    BY <2>1 DEF Claims
<1> QED
  BY <1>5, <1>6, <1>7, <1>8

\* What no step of another request, and no step that only drops lines, disturbs.
LEMMA ClaimsKept ==
    ASSUME NEW t \in Requesters, Claims(t), SameThread(t), tag'[SetOf(t)] = tag[SetOf(t)],
           \A w \in Ways : valid'[SetOf(t)][w] => valid[SetOf(t)][w]
    PROVE  Claims(t)'
<1>1. SetOf(t)' = SetOf(t) /\ TagOf(Addr(t))' = TagOf(Addr(t))
  BY DEF SetOf, Addr, SameThread
<1> QED
  BY <1>1 DEF Claims, Claimable, NotCached, SameThread

LEMMA TagsStep == TypeOK /\ ClientRule /\ TagsInv /\ [DisjointNext]_vars => TagsInv'
<1> SUFFICES ASSUME TypeOK, ClientRule, TagsInv, [DisjointNext]_vars PROVE TagsInv'
  OBVIOUS
<1>1. ASSUME NEW t \in Requesters, Start(t) \/ HandlerStep(t)
      PROVE  TagsInv'
  <2>1. Claims(t)'
    BY <1>1, ClaimsOfOwnThread
  <2>2. SetOf(t)' = SetOf(t) /\ pc[t] # "get"
    BY <1>1, EnterChanges, HandlerChanges DEF SetOf, Addr, InFlight, WaitsWithWay
  <2>3. ASSUME NEW s \in Sets
        PROVE  NoShadow(s)'
    <3>1. CASE s = SetOf(t)
      BY <1>1, <3>1, TagsOfOwnSet
    <3>2. CASE s # SetOf(t)
      BY <1>1, <3>2, OtherSets DEF TagsInv, NoShadow, SameSet
    <3> QED
      BY <3>1, <3>2
  <2>4. ASSUME NEW u \in Requesters, u # t
        PROVE  Claims(u)'
    <3>1. SameThread(u)
      BY <1>1, <2>4, OtherThread
    <3>2. CASE pc[u] = "get"
      BY <3>1, <3>2 DEF Claims, SameThread
    <3>3. CASE pc[u] # "get"
      <4>1. SetOf(u) \in Sets \ {SetOf(t)}
        BY <2>2, <2>4, <3>3, HandledApart, RequestTypes
      <4> QED
        BY <1>1, <3>1, <4>1, OtherSets, ClaimsKept DEF TagsInv, SameSet
    <3> QED
      BY <3>2, <3>3
  <2> QED
    BY <2>1, <2>3, <2>4 DEF TagsInv
<1>2. ASSUME UNCHANGED tag, \A s \in Sets, w \in Ways : valid'[s][w] => valid[s][w],
             \A t \in Requesters : SameThread(t)
      PROVE  TagsInv'
  <2>1. \A s \in Sets : NoShadow(s)'
    BY <1>2 DEF TagsInv, NoShadow
  <2>2. ASSUME NEW t \in Requesters
        PROVE  Claims(t)'
    <3>1. CASE pc[t] = "get"
      BY <1>2, <3>1 DEF Claims, SameThread
    <3>2. CASE pc[t] # "get"
      <4>1. SetOf(t) \in Sets
        BY <3>2, RequestTypes
      <4> QED
        BY <1>2, <4>1, ClaimsKept DEF TagsInv
    <3> QED
      BY <3>1, <3>2
  <2> QED
    BY <2>1, <2>2 DEF TagsInv
<1>3. CASE Invalidate \/ Flush
  <2>1. UNCHANGED tag /\ \A s \in Sets, w \in Ways : valid'[s][w] => valid[s][w]
    BY <1>3 DEF Invalidate, InvalidateGet, InvalidateLines, InvalidatePut, Flush, FlushGet,
                FlushLines, FlushPut, lineVars, TypeOK
  <2>2. \A t \in Requesters : SameThread(t)
    BY <1>3 DEF Invalidate, InvalidateGet, InvalidateLines, InvalidatePut, Flush, FlushGet,
                FlushLines, FlushPut, Goto, SameThread, locals, TypeOK, Requesters, Channels
  <2> QED
    BY <1>2, <2>1, <2>2
<1>4. ASSUME NEW t \in Requesters, ThreadStep(t)
      PROVE  TagsInv'
  <2>1. UNCHANGED <<valid, tag>>
    BY <1>4 DEF ThreadStep, GetRequest, WaitForFlush, PutResponse, lineVars
  <2>2. pc'[t] \notin {"through", "evict", "fill"}
    BY <1>4 DEF ThreadStep, GetRequest, WaitForFlush, PutResponse, Goto, TypeOK,
                Requesters, Channels
  <2>3. ASSUME NEW u \in Requesters, u # t
        PROVE  Claims(u)'
    BY <1>4, <2>1, <2>3, OtherThread, ClaimsKept DEF TagsInv
  <2> QED
    BY <2>1, <2>2, <2>3 DEF TagsInv, Claims, NoShadow
<1>5. CASE (\E c \in Channels : PutDisjoint(c) \/ ClientGet(c)) \/ UNCHANGED vars
  <2>1. UNCHANGED <<valid, tag>> /\ \A t \in Requesters : SameThread(t)
    BY <1>5 DEF PutDisjoint, ClientPut, ClientGet, vars, lineVars, locals, SameThread
  <2> QED
    BY <1>2, <2>1
<1> QED
  BY <1>1, <1>3, <1>4, <1>5, DisjointSteps

\* The invariant of this section and of all that follow.
LEMMA DisjointInvariant == DisjointSpec => [](TypeOK /\ ClientRule /\ TagsInv)
<1>1. Init => TypeOK /\ ClientRule /\ TagsInv
  BY TypeInit, RuleInit, TagsInit
<1>2. TypeOK /\ ClientRule /\ TagsInv /\ [DisjointNext]_vars
      => (TypeOK /\ ClientRule /\ TagsInv)'
  BY TypeStep, RuleStep, TagsStep, DisjointSteps
<1> QED
  BY <1>1, <1>2, PTL DEF DisjointSpec

\* A block is never in two valid lines, however many requests, fills, cancelled
\* fills, invalidations and flushes overlap: as long as a read and a write of one
\* set do not.
THEOREM OneCopyOnly == DisjointSpec => []OneCopy
<1>1. TagsInv => OneCopy
  <2> SUFFICES ASSUME TagsInv, NEW s \in Sets, NEW v \in Ways, NEW w \in Ways,
                      valid[s][v], valid[s][w], tag[s][v] = tag[s][w], v # w
               PROVE  FALSE
    BY DEF OneCopy
  <2>1. v < w \/ w < v
    BY NumWaysAssumption DEF Ways
  <2> QED
    BY <2>1 DEF TagsInv, NoShadow
<1> QED
  BY <1>1, DisjointInvariant, PTL

=============================================================================
