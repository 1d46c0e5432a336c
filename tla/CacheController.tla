--------------------------- MODULE CacheController ---------------------------
(***************************************************************************)
(* The cache controller with its cache memory and the main memory behind   *)
(* it: four SystemC threads (read, write, invalidate, flush), each fed and *)
(* drained through a pair of tlm_fifo channels.                            *)
(*                                                                         *)
(* SystemC threads are coroutines: a thread runs until it waits, so what   *)
(* the code does between two waits is one action here.  A thread waits in  *)
(* fifo get and put, in sc_mutex::lock when the mutex is taken, and in     *)
(* sc_core::wait, which every access to a line or to memory goes through.  *)
(* pc names the wait a thread is in.  Delays are parameters of the         *)
(* program, so their length is left out: pending waits end in any order.   *)
(*                                                                         *)
(* A request transfers one unit of the address space, inside one line.     *)
(***************************************************************************)
EXTENDS MainMemory, CacheAttributes, FiniteSetsExt

CONSTANTS
    NumWays,           \* params.set_assoc_count
    KeyMod,            \* 2^32 in the build: ongoing_request_map_t's uint32_t key
    ClientAddrs,       \* the addresses clients access
    ReadAttrs,         \* the cache attributes clients put on reads,
    WriteAttrs,        \* and on writes
    InvalidateRanges,  \* the ranges clients invalidate
    FlushTokens,       \* {"flush"}, or {} for clients that never flush
    NoMsg              \* an empty fifo slot

ASSUME NumWaysAssumption == NumWays \in Nat \ {0}
ASSUME KeyModAssumption  == KeyMod \in Nat \ {0}
ASSUME AttrsAssumption   == ReadAttrs \subseteq Nat /\ WriteAttrs \subseteq Nat
ASSUME RangesAssumption  ==
    InvalidateRanges \subseteq [first : 0 .. UIntMod - 1, second : 0 .. UIntMod - 1]
ASSUME AddrsAssumption   == ClientAddrs \subseteq Nat

Ways       == 0 .. NumWays - 1
Keys       == 0 .. KeyMod - 1
Requesters == {"read", "write"}
Channels   == Requesters \union {"invalidate", "flush"}
NoWay      == -1   \* the placeholder of cache_action_params::way_index

VARIABLES
    valid, dirty, tag, data,  \* [set][way]: the cache lines
    lru_lists,                \* [set]: the ways, most recently used first
    ongoing_requests,         \* [set][key]: "absent", "live" (true), "cancelled" (false)
    page_table,               \* [page]: main memory
    invalidate_mutex,         \* is it locked?
    flush_mutex,              \* is it locked?
    pc,                       \* [channel]: where the thread waits
    gp,                       \* [channel]: the request it works on
    way,                      \* [requester]: cache_action_params::way_index
    victim,                   \* [requester]: handle_cache_eviction's block_addr
    req_fifo, rsp_fifo        \* [channel]: the one slot of each tlm_fifo

lineVars == <<valid, dirty, tag, data>>
mutexes  == <<invalidate_mutex, flush_mutex>>
fifos    == <<req_fifo, rsp_fifo>>
locals   == <<gp, way, victim>>

vars == <<lineVars, lru_lists, ongoing_requests, page_table, mutexes, pc, locals, fifos>>

Payloads ==
    [addr : ClientAddrs, cache : ReadAttrs \union WriteAttrs, data : Values]

\* An empty slot is not taken for a message.
ASSUME NoMsgAssumption == NoMsg \notin Payloads \union InvalidateRanges \union FlushTokens

Messages(c) ==
    CASE c = "read"       -> [addr : ClientAddrs, cache : ReadAttrs, data : {0}]
      [] c = "write"      -> [addr : ClientAddrs, cache : WriteAttrs, data : Values]
      [] c = "invalidate" -> InvalidateRanges
      [] c = "flush"      -> FlushTokens

Init ==
    /\ valid = [s \in Sets |-> [w \in Ways |-> FALSE]]
    /\ dirty = [s \in Sets |-> [w \in Ways |-> FALSE]]
    /\ tag   = [s \in Sets |-> [w \in Ways |-> 0]]
    /\ data  = [s \in Sets |-> [w \in Ways |-> [o \in Offsets |-> 0]]]
    /\ lru_lists = [s \in Sets |-> [i \in 1 .. NumWays |-> i - 1]]
    /\ ongoing_requests = [s \in Sets |-> [k \in Keys |-> "absent"]]
    /\ page_table = NoPages
    /\ invalidate_mutex = FALSE
    /\ flush_mutex = FALSE
    /\ pc = [c \in Channels |-> "get"]
    /\ gp = [c \in Channels |-> NoMsg]
    /\ way = [t \in Requesters |-> NoWay]
    /\ victim = [t \in Requesters |-> 0]
    /\ req_fifo = [c \in Channels |-> NoMsg]
    /\ rsp_fifo = [c \in Channels |-> NoMsg]

Goto(c, label) == pc' = [pc EXCEPT ![c] = label]

-----------------------------------------------------------------------------
(***************************************************************************)
(* The clients' side of the fifos: put on a request fifo waits for room,   *)
(* get on a response fifo waits for an answer.                             *)
(***************************************************************************)
ClientPut(c, m) ==
    /\ req_fifo[c] = NoMsg
    /\ req_fifo' = [req_fifo EXCEPT ![c] = m]
    /\ UNCHANGED <<lineVars, lru_lists, ongoing_requests, page_table, mutexes, pc, locals, rsp_fifo>>

ClientGet(c) ==
    /\ rsp_fifo[c] # NoMsg
    /\ rsp_fifo' = [rsp_fifo EXCEPT ![c] = NoMsg]
    /\ UNCHANGED <<lineVars, lru_lists, ongoing_requests, page_table, mutexes, pc, locals, req_fifo>>

\* Is a request of channel c put and its answer not yet taken?
Outstanding(c) == req_fifo[c] # NoMsg \/ pc[c] # "get" \/ rsp_fifo[c] # NoMsg

\* That request, wherever it has got to, if the client puts one at a time.
Request(c) ==
    CASE req_fifo[c] # NoMsg -> req_fifo[c]
      [] pc[c] # "get"       -> gp[c]
      [] OTHER               -> rsp_fifo[c]

-----------------------------------------------------------------------------
(***************************************************************************)
(* What handle_read_request and handle_write_request derive from the       *)
(* request of thread t.                                                    *)
(***************************************************************************)
Addr(t)   == gp[t].addr
SetOf(t)  == SetIndex(Addr(t))
Policy(t) == WritePolicy(gp[t].cache)

Allocates(t) ==
    IF t = "read" THEN ReadAllocates(gp[t].cache) ELSE WriteAllocates(gp[t].cache)

\* The key of a uint64_t tag in the uint32_t-keyed map.
RequestKey(g) == g % KeyMod

Key(t) == RequestKey(TagOf(Addr(t)))

(***************************************************************************)
(* Selection of a way.  The code's loops take the first way that fits.     *)
(***************************************************************************)
\* A faulty HitWays, for testing the properties: the search starts at way 1.
HitWaysButFirst(t) ==
    {w \in Ways \ {0} : valid[SetOf(t)][w] /\ tag[SetOf(t)][w] = TagOf(Addr(t))}

HitWays(t) ==
    {w \in Ways : valid[SetOf(t)][w] /\ tag[SetOf(t)][w] = TagOf(Addr(t))}

FreeWays(s) == {w \in Ways : ~ valid[s][w]}

\* get_lru_index: the back of the list.
LruWay(s) == lru_lists[s][NumWays]

\* A faulty AllocWay, for testing the properties: no victim for a full set.
FreeWayOnly(s) == IF FreeWays(s) # {} THEN Min(FreeWays(s)) ELSE NoWay

\* The first free way, else the least recently used one.
AllocWay(s) == IF FreeWays(s) # {} THEN Min(FreeWays(s)) ELSE LruWay(s)

\* A faulty MoveToFront, for testing the properties: it shifts one entry short.
MoveToFrontShort(list, w) ==
    LET p == CHOOSE i \in 1 .. NumWays : list[i] = w
    IN  [i \in 1 .. NumWays |->
            IF i = 1 THEN w ELSE IF i < p THEN list[i - 1] ELSE list[i]]

\* update_lru: remove the way from the list, push it to the front.
MoveToFront(list, w) ==
    LET p == CHOOSE i \in 1 .. NumWays : list[i] = w
    IN  [i \in 1 .. NumWays |->
            IF i = 1 THEN w ELSE IF i <= p THEN list[i - 1] ELSE list[i]]

UpdateLru(s, w) == lru_lists' = [lru_lists EXCEPT ![s] = MoveToFront(@, w)]

(***************************************************************************)
(* ongoing_requests[set][key], an entry of an unordered_map.               *)
(***************************************************************************)
SetOngoing(t, state) ==
    ongoing_requests' = [ongoing_requests EXCEPT ![SetOf(t)][Key(t)] = state]

\* A faulty Live, for testing the properties: a cancellation is not looked at.
LiveAlways(t) == TRUE

Live(t) == ongoing_requests[SetOf(t)][Key(t)] = "live"

\* Reading the entry with operator[] inserts false where there was none.
ProbeOngoing(t) == SetOngoing(t, IF Live(t) THEN "live" ELSE "cancelled")

\* A faulty EraseOngoing, for testing the properties: the entry is left behind.
KeepOngoing(t) == UNCHANGED ongoing_requests

EraseOngoing(t) == SetOngoing(t, "absent")

\* load_block_from_memory
MemoryBlock(a) == [o \in Offsets |-> ReadMemory(page_table, BlockAddress(a), o)]

-----------------------------------------------------------------------------
(***************************************************************************)
(* read() and write(): take a request, pass both mutexes, mark the request *)
(* as ongoing and run the handler up to its first wait.  Each mutex is     *)
(* unlocked as soon as it is locked, so a free one does not hold a thread  *)
(* up; a thread that waits for flush_mutex has invalidate_mutex behind it. *)
(* The model allows other threads in between a get and a free mutex, and   *)
(* between the end of a handler and the put, where the code does not wait: *)
(* it has every behaviour of the code, and some more.                      *)
(***************************************************************************)
GetRequest(t) ==
    /\ pc[t] = "get"
    /\ req_fifo[t] # NoMsg
    /\ gp' = [gp EXCEPT ![t] = req_fifo[t]]
    /\ req_fifo' = [req_fifo EXCEPT ![t] = NoMsg]
    /\ Goto(t, "invalidate_mutex")
    /\ UNCHANGED <<lineVars, lru_lists, ongoing_requests, page_table, mutexes, way, victim, rsp_fifo>>

WaitForFlush(t) ==
    /\ pc[t] = "invalidate_mutex"
    /\ ~ invalidate_mutex
    /\ flush_mutex
    /\ Goto(t, "flush_mutex")
    /\ UNCHANGED <<lineVars, lru_lists, ongoing_requests, page_table, mutexes, locals, fifos>>

\* A faulty PassMutexes, for testing the properties: the thread does not
\* stop at flush_mutex.
PassInvalidateMutex(t) ==
    \/ pc[t] = "invalidate_mutex" /\ ~ invalidate_mutex
    \/ pc[t] = "flush_mutex"

PassMutexes(t) ==
    /\ \/ pc[t] = "invalidate_mutex" /\ ~ invalidate_mutex
       \/ pc[t] = "flush_mutex"
    /\ ~ flush_mutex

Enter(t) ==
    /\ PassMutexes(t)
    /\ SetOngoing(t, "live")
    /\ UNCHANGED <<lineVars, lru_lists, page_table, mutexes, gp, fifos>>

\* INTERNAL: straight to memory.
StartInternal(t) ==
    /\ Enter(t)
    /\ Policy(t) = "internal"
    /\ Goto(t, "direct")
    /\ UNCHANGED <<way, victim>>

\* try_read_from_cache, try_write_to_cache: a hit waits for the line.
StartHit(t) ==
    /\ Enter(t)
    /\ Policy(t) # "internal"
    /\ HitWays(t) # {}
    /\ way' = [way EXCEPT ![t] = Min(HitWays(t))]
    /\ Goto(t, "hit")
    /\ UNCHANGED victim

\* update_write_through_cache: memory first.
StartThrough ==
    /\ Enter("write")
    /\ Policy("write") = "write_through"
    /\ HitWays("write") = {}
    /\ Goto("write", "through")
    /\ UNCHANGED <<way, victim>>

\* A miss that goes on to load_block.
Miss(t) ==
    /\ Enter(t)
    /\ HitWays(t) = {}
    /\ \/ t = "read" /\ Policy(t) # "internal"
       \/ Policy(t) = "write_back"

\* load_block without allocation: straight to memory.
StartBypass(t) ==
    /\ Miss(t)
    /\ ~ Allocates(t)
    /\ Goto(t, "direct")
    /\ UNCHANGED <<way, victim>>

\* A faulty EvictsDirty, for testing the properties: victims are dropped.
EvictsNever(t) == FALSE

\* Only a write-back request writes a dirty victim back.
EvictsDirty(t) ==
    LET s == SetOf(t)
    IN  /\ FreeWays(s) = {}
        /\ dirty[s][LruWay(s)]
        /\ Policy(t) = "write_back"

StartFill(t) ==
    /\ Miss(t)
    /\ Allocates(t)
    /\ ~ EvictsDirty(t)
    /\ way' = [way EXCEPT ![t] = AllocWay(SetOf(t))]
    /\ Goto(t, "fill")
    /\ UNCHANGED victim

StartEvict(t) ==
    /\ Miss(t)
    /\ Allocates(t)
    /\ EvictsDirty(t)
    /\ LET s == SetOf(t)
           w == LruWay(s)
       IN  /\ way' = [way EXCEPT ![t] = w]
           /\ victim' = [victim EXCEPT ![t] = LineAddress(tag[s][w], s)]
    /\ Goto(t, "evict")

Start(t) ==
    \/ StartInternal(t)
    \/ StartHit(t)
    \/ t = "write" /\ StartThrough
    \/ StartBypass(t)
    \/ StartFill(t)
    \/ StartEvict(t)

-----------------------------------------------------------------------------
(***************************************************************************)
(* The rest of the handlers, one action per wait that ends.                *)
(***************************************************************************)
Finish(t) == EraseOngoing(t) /\ Goto(t, "put")

\* cache_line::read_word into the payload.
ReadWord(t) ==
    gp' = [gp EXCEPT ![t].data = data[SetOf(t)][way[t]][ReadOffset(Addr(t))]]

\* cache_line::write_word from the payload.
WriteWord(t) ==
    data' = [data EXCEPT ![SetOf(t)][way[t]][WriteOffset(Addr(t))] = gp[t].data]

\* store_block_to_memory(op.address, op.data, op.size)
StoreWord(t) == page_table' = WriteMemory(page_table, Addr(t), [i \in {0} |-> gp[t].data])

\* A memory access that bypasses the cache.  A read fetches the block and
\* copies the payload from its start.
ReadDirect ==
    /\ pc["read"] = "direct"
    /\ gp' = [gp EXCEPT !["read"].data = MemoryBlock(Addr("read"))[0]]
    /\ Finish("read")
    /\ UNCHANGED <<lineVars, lru_lists, page_table, mutexes, way, victim, fifos>>

WriteDirect ==
    /\ pc["write"] = "direct"
    /\ StoreWord("write")
    /\ Finish("write")
    /\ UNCHANGED <<lineVars, lru_lists, mutexes, locals, fifos>>

\* A faulty ReadLine, for testing the properties: reads do not count as uses.
ReadLineUncounted ==
    /\ pc["read"] \in {"hit", "access"}
    /\ ReadWord("read")
    /\ Finish("read")
    /\ UNCHANGED <<lineVars, lru_lists, page_table, mutexes, way, victim, fifos>>

\* A read hit, and the read_word that ends load_block.
ReadLine ==
    /\ pc["read"] \in {"hit", "access"}
    /\ ReadWord("read")
    /\ UpdateLru(SetOf("read"), way["read"])
    /\ Finish("read")
    /\ UNCHANGED <<lineVars, page_table, mutexes, way, victim, fifos>>

WriteBackHit ==
    /\ pc["write"] = "hit"
    /\ Policy("write") = "write_back"
    /\ WriteWord("write")
    /\ dirty' = [dirty EXCEPT ![SetOf("write")][way["write"]] = TRUE]
    /\ UpdateLru(SetOf("write"), way["write"])
    /\ Finish("write")
    /\ UNCHANGED <<valid, tag, page_table, mutexes, locals, fifos>>

\* A faulty WriteThroughHit, for testing the properties: memory is left out.
WriteLineOnly ==
    /\ pc["write"] = "hit"
    /\ Policy("write") = "write_through"
    /\ WriteWord("write")
    /\ UpdateLru(SetOf("write"), way["write"])
    /\ Finish("write")
    /\ UNCHANGED <<valid, dirty, tag, page_table, mutexes, locals, fifos>>

WriteThroughHit ==
    /\ pc["write"] = "hit"
    /\ Policy("write") = "write_through"
    /\ WriteWord("write")
    /\ Goto("write", "store")
    /\ UNCHANGED <<valid, dirty, tag, lru_lists, ongoing_requests, page_table, mutexes, locals, fifos>>

WriteThroughStore ==
    /\ pc["write"] = "store"
    /\ StoreWord("write")
    /\ UpdateLru(SetOf("write"), way["write"])
    /\ Finish("write")
    /\ UNCHANGED <<lineVars, mutexes, locals, fifos>>

WriteThroughMiss ==
    /\ pc["write"] = "through"
    /\ ~ Allocates("write")
    /\ StoreWord("write")
    /\ Finish("write")
    /\ UNCHANGED <<lineVars, lru_lists, mutexes, locals, fifos>>

\* The line is claimed after the store; its data and dirty bit stay as they
\* are, but for the word that AllocatedWrite writes.
WriteThroughAllocate ==
    LET s == SetOf("write")
        w == AllocWay(s)
    IN  /\ pc["write"] = "through"
        /\ Allocates("write")
        /\ StoreWord("write")
        /\ way' = [way EXCEPT !["write"] = w]
        /\ valid' = [valid EXCEPT ![s][w] = @ \/ Live("write")]
        /\ tag' = [tag EXCEPT ![s][w] = TagOf(Addr("write"))]
        /\ ProbeOngoing("write")
        /\ Goto("write", "access")
        /\ UNCHANGED <<dirty, data, lru_lists, mutexes, gp, victim, fifos>>

\* write_word, the end of load_block and of update_write_through_cache.
AllocatedWrite ==
    /\ pc["write"] = "access"
    /\ WriteWord("write")
    /\ UpdateLru(SetOf("write"), way["write"])
    /\ Finish("write")
    /\ UNCHANGED <<valid, dirty, tag, page_table, mutexes, locals, fifos>>

\* The victim's data is read when the memory write's delay ends, its address
\* was computed before.
WriteBackVictim(t) ==
    LET s == SetOf(t)
    IN  /\ pc[t] = "evict"
        /\ page_table' = WriteMemory(page_table, victim[t], data[s][way[t]])
        /\ dirty' = [dirty EXCEPT ![s][way[t]] = FALSE]
        /\ Goto(t, "fill")
        /\ UNCHANGED <<valid, tag, data, lru_lists, ongoing_requests, mutexes, locals, fifos>>

\* load_block: the line takes the block over when the memory read ends.
FillLine(t) ==
    LET s == SetOf(t)
        w == way[t]
    IN  /\ pc[t] = "fill"
        /\ valid' = [valid EXCEPT ![s][w] = @ \/ Live(t)]
        /\ tag' = [tag EXCEPT ![s][w] = TagOf(Addr(t))]
        /\ data' = [data EXCEPT ![s][w] = MemoryBlock(Addr(t))]
        /\ dirty' = [dirty EXCEPT ![s][w] = t = "write" /\ Policy(t) = "write_back"]
        /\ ProbeOngoing(t)
        /\ Goto(t, "access")
        /\ UNCHANGED <<lru_lists, page_table, mutexes, locals, fifos>>

\* The response; the locals go out of scope.
PutResponse(t) ==
    /\ pc[t] = "put"
    /\ rsp_fifo[t] = NoMsg
    /\ rsp_fifo' = [rsp_fifo EXCEPT ![t] = gp[t]]
    /\ gp' = [gp EXCEPT ![t] = NoMsg]
    /\ way' = [way EXCEPT ![t] = NoWay]
    /\ victim' = [victim EXCEPT ![t] = 0]
    /\ Goto(t, "get")
    /\ UNCHANGED <<lineVars, lru_lists, ongoing_requests, page_table, mutexes, req_fifo>>

Read ==
    \/ GetRequest("read") \/ WaitForFlush("read") \/ Start("read")
    \/ ReadDirect \/ ReadLine \/ WriteBackVictim("read") \/ FillLine("read")
    \/ PutResponse("read")

Write ==
    \/ GetRequest("write") \/ WaitForFlush("write") \/ Start("write")
    \/ WriteDirect \/ WriteBackHit \/ WriteThroughHit \/ WriteThroughStore
    \/ WriteThroughMiss \/ WriteThroughAllocate \/ AllocatedWrite
    \/ WriteBackVictim("write") \/ FillLine("write")
    \/ PutResponse("write")

-----------------------------------------------------------------------------
(***************************************************************************)
(* invalidate()                                                            *)
(***************************************************************************)
InvalidateGet ==
    /\ pc["invalidate"] = "get"
    /\ req_fifo["invalidate"] # NoMsg
    /\ gp' = [gp EXCEPT !["invalidate"] = req_fifo["invalidate"]]
    /\ req_fifo' = [req_fifo EXCEPT !["invalidate"] = NoMsg]
    /\ invalidate_mutex' = TRUE
    /\ Goto("invalidate", "delay")
    /\ UNCHANGED <<lineVars, lru_lists, ongoing_requests, page_table, flush_mutex, way, victim, rsp_fifo>>

\* A faulty TaggedWays, for testing the properties: the search starts at way 1.
TaggedWaysButFirst(s, g) == {w \in Ways \ {0} : tag[s][w] = g}

\* The search for a block compares tags only, and stops at the first match.
TaggedWays(s, g) == {w \in Ways : tag[s][w] = g}

InvalidateLines ==
    LET blocks == InvalidateBlocks(gp["invalidate"])
        found  == {b \in blocks : TaggedWays(SetIndex(b), TagOf(b)) # {}}
    IN  /\ pc["invalidate"] = "delay"
        /\ valid' = [s \in Sets |-> [w \in Ways |->
                /\ valid[s][w]
                /\ \A b \in found :
                      SetIndex(b) = s => w # Min(TaggedWays(s, TagOf(b)))]]
        /\ ongoing_requests' = [s \in Sets |-> [k \in Keys |->
                IF /\ ongoing_requests[s][k] = "live"
                   /\ \E b \in found : SetIndex(b) = s /\ RequestKey(TagOf(b)) = k
                THEN "cancelled"
                ELSE ongoing_requests[s][k]]]
        /\ Goto("invalidate", "put")
        /\ UNCHANGED <<dirty, tag, data, lru_lists, page_table, mutexes, locals, fifos>>

\* A faulty InvalidatePut, for testing the properties: the mutex stays locked.
InvalidatePutLocked ==
    /\ pc["invalidate"] = "put"
    /\ rsp_fifo["invalidate"] = NoMsg
    /\ rsp_fifo' = [rsp_fifo EXCEPT !["invalidate"] = gp["invalidate"]]
    /\ gp' = [gp EXCEPT !["invalidate"] = NoMsg]
    /\ Goto("invalidate", "get")
    /\ UNCHANGED <<lineVars, lru_lists, ongoing_requests, page_table, mutexes, way, victim, req_fifo>>

\* The response goes out before the mutex is unlocked.
InvalidatePut ==
    /\ pc["invalidate"] = "put"
    /\ rsp_fifo["invalidate"] = NoMsg
    /\ rsp_fifo' = [rsp_fifo EXCEPT !["invalidate"] = gp["invalidate"]]
    /\ gp' = [gp EXCEPT !["invalidate"] = NoMsg]
    /\ invalidate_mutex' = FALSE
    /\ Goto("invalidate", "get")
    /\ UNCHANGED <<lineVars, lru_lists, ongoing_requests, page_table, flush_mutex, way, victim, req_fifo>>

Invalidate == InvalidateGet \/ InvalidateLines \/ InvalidatePut

-----------------------------------------------------------------------------
(***************************************************************************)
(* flush().  The loop that looks for live requests has no wait in it: if   *)
(* it finds one, no other thread ever runs again to finish it.             *)
(***************************************************************************)
\* A faulty NoLiveRequest, for testing the properties: set 0 is not looked at.
NoLiveRequestButFirstSet ==
    \A s \in Sets \ {0}, k \in Keys : ongoing_requests[s][k] # "live"

NoLiveRequest ==
    \A s \in Sets, k \in Keys : ongoing_requests[s][k] # "live"

FlushGet ==
    /\ pc["flush"] = "get"
    /\ req_fifo["flush"] # NoMsg
    /\ gp' = [gp EXCEPT !["flush"] = req_fifo["flush"]]
    /\ req_fifo' = [req_fifo EXCEPT !["flush"] = NoMsg]
    /\ flush_mutex' = TRUE
    /\ Goto("flush", IF NoLiveRequest THEN "delay" ELSE "spin")
    /\ UNCHANGED <<lineVars, lru_lists, ongoing_requests, page_table, invalidate_mutex, way, victim, rsp_fifo>>

\* Dirty or not, no line is written back.
FlushLines ==
    /\ pc["flush"] = "delay"
    /\ valid' = [s \in Sets |-> [w \in Ways |-> FALSE]]
    /\ Goto("flush", "put")
    /\ UNCHANGED <<dirty, tag, data, lru_lists, ongoing_requests, page_table, mutexes, locals, fifos>>

FlushPut ==
    /\ pc["flush"] = "put"
    /\ rsp_fifo["flush"] = NoMsg
    /\ rsp_fifo' = [rsp_fifo EXCEPT !["flush"] = gp["flush"]]
    /\ gp' = [gp EXCEPT !["flush"] = NoMsg]
    /\ flush_mutex' = FALSE
    /\ Goto("flush", "get")
    /\ UNCHANGED <<lineVars, lru_lists, ongoing_requests, page_table, invalidate_mutex, way, victim, req_fifo>>

Flush == FlushGet \/ FlushLines \/ FlushPut

Spinning == pc["flush"] = "spin"

FlushSpin == Spinning /\ UNCHANGED vars

-----------------------------------------------------------------------------
Controller == ~ Spinning /\ (Read \/ Write \/ Invalidate \/ Flush)

\* Any client, with any number of threads: it may use every fifo at any time.
Client ==
    /\ ~ Spinning
    /\ \E c \in Channels :
          \/ \E m \in Messages(c) : ClientPut(c, m)
          \/ ClientGet(c)

Next == Controller \/ FlushSpin \/ Client

Spec == Init /\ [][Next]_vars

-----------------------------------------------------------------------------
(***************************************************************************)
(* Properties of the controller whatever its clients do.                   *)
(***************************************************************************)
WaitsWithWay == {"hit", "store", "evict", "fill", "access"}
InFlight(t)  == pc[t] \in WaitsWithWay \union {"direct", "through"}

Labels       == WaitsWithWay \union
    {"get", "invalidate_mutex", "flush_mutex", "direct", "through", "put", "delay", "spin"}

\* What a request of channel c turns into while it is served: the payload of a
\* read gets the data.
Served(c) == IF c = "read" THEN [addr : ClientAddrs, cache : ReadAttrs, data : Values]
                           ELSE Messages(c)

\* The type of every variable; a thread between get and put has a request, and
\* one that waits for a line knows which.
TypeOK ==
    /\ valid \in [Sets -> [Ways -> BOOLEAN]]
    /\ dirty \in [Sets -> [Ways -> BOOLEAN]]
    /\ tag \in [Sets -> [Ways -> Nat]]
    /\ data \in [Sets -> [Ways -> [Offsets -> Values]]]
    /\ lru_lists \in [Sets -> [1 .. NumWays -> Ways]]
    /\ ongoing_requests \in [Sets -> [Keys -> {"absent", "live", "cancelled"}]]
    /\ IsPageTable(page_table)
    /\ invalidate_mutex \in BOOLEAN /\ flush_mutex \in BOOLEAN
    /\ pc \in [Channels -> Labels]
    /\ DOMAIN gp = Channels
    /\ \A c \in Channels : pc[c] # "get" => gp[c] \in Served(c)
    /\ way \in [Requesters -> Ways \union {NoWay}]
    /\ \A t \in Requesters : pc[t] \in WaitsWithWay => way[t] \in Ways
    /\ victim \in [Requesters -> Nat]
    /\ DOMAIN req_fifo = Channels
    /\ \A c \in Channels : req_fifo[c] \in Messages(c) \union {NoMsg}
    /\ DOMAIN rsp_fifo = Channels
    /\ \A c \in Channels : rsp_fifo[c] \in Served(c) \union {NoMsg}

\* Each lru_lists[s] holds every way exactly once (update_lru removes and pushes
\* the same way): no way is ever lost to eviction, none is counted twice.
IsPermutation(list) ==
    /\ \A i, j \in 1 .. NumWays : list[i] = list[j] => i = j
    /\ \A w \in Ways : \E i \in 1 .. NumWays : list[i] = w

LruIsPermutation == \A s \in Sets : IsPermutation(lru_lists[s])

\* An entry of ongoing_requests belongs to a request that is being handled, so no
\* interleaving of two requests for one key and an invalidation, each of which
\* writes or erases the entry, leaves one behind.  A live one left behind would
\* hang every later flush (lines 575-591).
OngoingOwned ==
    \A s \in Sets, k \in Keys :
        ongoing_requests[s][k] # "absent" =>
            \E t \in Requesters : InFlight(t) /\ SetOf(t) = s /\ Key(t) = k

\* The flush loop can only catch a request that is still being handled: a flush
\* that arrives when none is, is not lost to the busy loop.
SpinsOnlyOnRequest == Spinning => \E t \in Requesters : InFlight(t)

\* From the moment the flush loop has seen that no request is live, to its
\* response, no live request appears: flush_mutex keeps new ones out, and
\* operator[] does not revive the cancelled ones that are still running.
FlushSeesNoLiveRequest == pc["flush"] \in {"delay", "put"} => NoLiveRequest

\* When flush() answers, the cache is empty, even with a request in flight whose
\* fill ended after handle_flush_request cleared the lines.
FlushLeavesCacheEmpty ==
    pc["flush"] = "put" => \A s \in Sets, w \in Ways : ~ valid[s][w]

\* No line becomes valid while flush() holds flush_mutex.
NoFillDuringFlush ==
    [][flush_mutex => \A s \in Sets, w \in Ways : valid'[s][w] => valid[s][w]]_vars

-----------------------------------------------------------------------------
(***************************************************************************)
(* What the controller needs of the constants to serve its clients well.   *)
(* The properties of data, of replacement and of ranges hold under these   *)
(* conditions.  The runs read_no_allocate, write_through_allocate,         *)
(* dirty_victim, wide_words and invalidate_last_block show what happens    *)
(* without them.                                                           *)
(***************************************************************************)

\* Writes go through to memory, and claim no line: no line is ever dirty.
WriteThroughOnly ==
    \A c \in WriteAttrs : WritePolicy(c) = "write_through" /\ ~ WriteAllocates(c)

\* Lines only leave by eviction, which writes a dirty one back for a write-back
\* request, and for no other.
NoLineDropped ==
    /\ InvalidateRanges = {} /\ FlushTokens = {}
    /\ \A c \in ReadAttrs : WritePolicy(c) = "write_back"

SafeAttributes ==
    /\ \A c \in ReadAttrs : WritePolicy(c) # "internal" /\ ReadAllocates(c)
    /\ \A c \in WriteAttrs :
          \/ WritePolicy(c) = "write_back"
          \/ WritePolicy(c) = "write_through" /\ ~ WriteAllocates(c)
    /\ WriteThroughOnly \/ NoLineDropped

\* Clients access the first unit of a word, where reads and writes agree.
AlignedAddrs == \A a \in ClientAddrs : (a % LineSize) % WordSize = 0

\* No request is sent past a line that holds its block.
NoInternal == \A c \in ReadAttrs \union WriteAttrs : WritePolicy(c) # "internal"

\* The rounded end of a range fits in 32 bits.
NoWrap == \A r \in InvalidateRanges : r.second + LineSize - 1 < UIntMod

=============================================================================
