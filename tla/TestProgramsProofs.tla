-------------------------- MODULE TestProgramsProofs --------------------------
(***************************************************************************)
(* The five tests pass, whatever cache and memory they run in.  Two of     *)
(* them are sequential clients whose attributes the controller serves; the *)
(* other three use one block, whose line is followed step by step.         *)
(***************************************************************************)
EXTENDS TestPrograms, DisjointClientProofs

-----------------------------------------------------------------------------
(***************************************************************************)
(* The scripts.                                                            *)
(***************************************************************************)

\* The tests that write four slots and read them back.
FourSlotTests == {"cache_eviction_check", "cache_bulk_read_write_check"}

\* The slot before the first of the four.
Base == IF test_name = "cache_eviction_check" THEN 2 ELSE 5

\* The tests that use one slot.
OneSlotTests ==
    {"cache_consistency_check", "cache_overwrite_check", "cache_invalidation_check"}

Slot == CASE test_name = "cache_consistency_check" -> 2
          [] test_name = "cache_overwrite_check"   -> 4
          [] OTHER                                 -> 5

\* The string that the cache holds in the slot after the first k requests; 0 stands
\* for a block that is not cached.
Holdings == CASE test_name = "cache_consistency_check" -> <<0, 1, 1>>
              [] test_name = "cache_overwrite_check"   -> <<0, 1, 2, 2>>
              [] OTHER                                 -> <<0, 1, 0, 0>>

Held(k) == Holdings[k + 1]

LEMMA Names == TestNames = FourSlotTests \union OneSlotTests
  BY DEF TestNames, Scripts, FourSlotTests, OneSlotTests

LEMMA FourSlotScript ==
    ASSUME test_name \in FourSlotTests
    PROVE  /\ Len(Script) = 8
           /\ \A i \in 1 .. 4 : Script[i] = WriteOf(Base + i, i)
           /\ \A i \in 5 .. 8 : Script[i] = ReadOf(Base + i - 4, 7)
<1>1. Script = [i \in 1 .. 8 |-> IF i <= 4 THEN WriteOf(Base + i, i)
                                           ELSE ReadOf(Base + i - 4, 7)]
  BY DEF Script, Scripts, FourSlotTests, Base, EvictionCheck, BulkReadWriteCheck
<1>2. Script \in Seq({WriteOf(Base + i, i) : i \in 1 .. 8}
                     \union {ReadOf(Base + i - 4, 7) : i \in 1 .. 8})
  BY <1>1
<1>3. Len(Script) = 8
  BY <1>1, <1>2
<1> QED
  BY <1>1, <1>3

\* The request at a step of a test of one slot.
LEMMA OneSlotScript ==
    ASSUME test_name \in OneSlotTests
    PROVE  /\ Len(Script) \in 2 .. 3
           /\ \A i \in 1 .. Len(Script) :
                 \/ Held(i) # 0 /\ Script[i] = WriteOf(Slot, Held(i))
                 \/ Held(i) = Held(i - 1) /\ Script[i] = ReadOf(Slot, 11)
                 \/ Held(i) = 0 /\ Script[i] = InvalidationOf(Slot)
<1>1. CASE test_name = "cache_consistency_check"
  <2>1. Script = <<WriteOf(2, 1), ReadOf(2, 11)>>
    BY <1>1 DEF Script, Scripts, ConsistencyCheck
  <2>2. Slot = 2 /\ Held(0) = 0 /\ Held(1) = 1 /\ Held(2) = 1
    BY <1>1 DEF Slot, Held, Holdings
  <2> QED
    BY <2>1, <2>2
<1>2. CASE test_name = "cache_overwrite_check"
  <2>1. Script = <<WriteOf(4, 1), WriteOf(4, 2), ReadOf(4, 11)>>
    BY <1>2 DEF Script, Scripts, OverwriteCheck
  <2>2. Slot = 4 /\ Held(0) = 0 /\ Held(1) = 1 /\ Held(2) = 2 /\ Held(3) = 2
    BY <1>2 DEF Slot, Held, Holdings
  <2> QED
    BY <2>1, <2>2
<1>3. CASE test_name = "cache_invalidation_check"
  <2>1. Script = <<WriteOf(5, 1), InvalidationOf(5), ReadOf(5, 11)>>
    BY <1>3 DEF Script, Scripts, InvalidationCheck
  <2>2. Slot = 5 /\ Held(0) = 0 /\ Held(1) = 1 /\ Held(2) = 0 /\ Held(3) = 0
    BY <1>3 DEF Slot, Held, Holdings
  <2> QED
    BY <2>1, <2>2
<1> QED
  BY <1>1, <1>2, <1>3 DEF OneSlotTests

LEMMA ScriptMessages ==
    ASSUME test_name \in TestNames, NEW i \in 1 .. Len(Script)
    PROVE  /\ Script[i].channel \in Channels
           /\ Script[i].msg \in Messages(Script[i].channel)
           /\ Script[i].msg # NoMsg
<1>1. CASE test_name \in FourSlotTests
  <2>1. i \in 1 .. 4 \/ i \in 5 .. 8
    <3>1. Len(Script) = 8
      BY <1>1, FourSlotScript
    <3> HIDE DEF Script
    <3> QED
      BY <3>1
  <2>2. Script[i].channel \in Channels
    BY <1>1, <2>1, FourSlotScript DEF WriteOf, ReadOf, Channels, Requesters
  <2>3. i \in DOMAIN Script
    BY <1>1, <2>1 DEF Script, Scripts, FourSlotTests, EvictionCheck, BulkReadWriteCheck
  <2> QED
    BY <2>2, <2>3, ScriptsAreRequests, RealMessages DEF Script
<1>2. CASE test_name \in OneSlotTests
  <2>1. Script[i].channel \in Channels
    <3>1. \/ Script[i] = WriteOf(Slot, Held(i))
          \/ Script[i] = ReadOf(Slot, 11)
          \/ Script[i] = InvalidationOf(Slot)
      BY <1>2, OneSlotScript
    <3> QED
      BY <3>1 DEF WriteOf, ReadOf, InvalidationOf, Channels, Requesters
  <2>2. i \in DOMAIN Script
    BY <1>2 DEF Script, Scripts, OneSlotTests, ConsistencyCheck, OverwriteCheck,
                  InvalidationCheck
  <2> QED
    BY <2>1, <2>2, ScriptsAreRequests, RealMessages DEF Script
<1> QED
  BY <1>1, <1>2, Names

-----------------------------------------------------------------------------
(***************************************************************************)
(* A test is a client that puts one request at a time.                     *)
(***************************************************************************)
Execute == ExecutePut \/ ExecuteGet \/ Simulate

\* Only the request that execute() has come to is on its way.
Turn ==
    /\ step \in 1 .. Len(Script) + 1
    /\ waiting \in BOOLEAN
    /\ waiting => step \in 1 .. Len(Script)
    /\ \A c \in Channels : Outstanding(c) => waiting /\ c = Script[step].channel
    /\ Outstanding("read") => Request("read").addr = Script[step].msg.addr

LEMMA LenScript == ASSUME test_name \in TestNames PROVE Len(Script) \in Nat
<1>1. CASE test_name \in FourSlotTests
  BY <1>1, FourSlotScript
<1>2. CASE test_name \in OneSlotTests
  BY <1>2, OneSlotScript
<1> QED
  BY <1>1, <1>2, Names

LEMMA ExecuteIsDisjoint ==
    ASSUME ClientRule, Turn, test_name \in TestNames, Execute
    PROVE  [DisjointNext]_vars
<1>1. CASE ExecutePut
  <2>1. step \in 1 .. Len(Script) /\ \A c \in Channels : ~ Outstanding(c)
    BY <1>1, LenScript DEF ExecutePut, Turn
  <2>2. PICK c \in Channels : \E m \in Messages(c) : ClientPut(c, m)
    BY <1>1, <2>1, ScriptMessages DEF ExecutePut
  <2>3. ~ Spinning /\ \A m \in Messages(c) : Disjoint(c, m)
    BY <2>1 DEF Disjoint, Spinning, Outstanding, Requesters, Channels
  <2> QED
    BY <2>1, <2>2, <2>3 DEF DisjointNext, PutDisjoint
<1>2. CASE ExecuteGet
  <2>1. PICK c \in Channels : ClientGet(c) /\ rsp_fifo[c] # NoMsg
    BY <1>2, ScriptMessages DEF ExecuteGet, ClientGet, Turn
  <2>2. \A d \in Channels : d # c => ~ Outstanding(d)
    BY <2>1 DEF Turn, Outstanding
  <2>3. ~ Spinning
    BY <2>1, <2>2 DEF ClientRule, OnePerChannel, Outstanding, Spinning, Channels
  <2> QED
    BY <2>1, <2>3 DEF DisjointNext
<1>3. CASE Simulate
  BY <1>3 DEF Simulate, DisjointNext
<1> QED
  BY <1>1, <1>2, <1>3 DEF Execute

\* The get of an answer leaves nothing on its way.
LEMMA AfterGet ==
    ASSUME TypeOK, ClientRule, Turn, test_name \in TestNames, ExecuteGet
    PROVE  \A c \in Channels : ~ Outstanding(c)'
<1>1. PICK d \in Channels : ClientGet(d) /\ rsp_fifo[d] # NoMsg
  BY ScriptMessages DEF ExecuteGet, ClientGet, Turn
<1>2. \A c \in Channels : c # d => ~ Outstanding(c)
  BY <1>1 DEF Turn, Outstanding
<1>3. \A c \in Channels : c # d => ~ Outstanding(c)'
  BY <1>1, <1>2, GetMoves DEF ClientRule, Moves
<1>4. ~ Outstanding(d)'
  BY <1>1 DEF ClientGet, ClientRule, OnePerChannel, Outstanding, TypeOK
<1> QED
  BY <1>3, <1>4

LEMMA TurnStep ==
    ASSUME TypeOK, ClientRule, Turn, test_name \in TestNames, Execute
    PROVE  Turn' /\ test_name' = test_name /\ Script' = Script
<1>1. test_name' = test_name /\ Script' = Script
  BY DEF Execute, ExecutePut, ExecuteGet, Simulate, programVars, Script
<1>2. Len(Script) \in Nat
  BY LenScript
<1>3. CASE ExecutePut
  <2>1. step \in 1 .. Len(Script) /\ \A c \in Channels : ~ Outstanding(c)
    BY <1>2, <1>3 DEF ExecutePut, Turn
  <2>2. Script[step].channel \in Channels /\ Script[step].msg \in Messages(Script[step].channel)
    BY <2>1, ScriptMessages
  <2>3. PICK d \in Channels : d = Script[step].channel
    BY <2>2
  <2>4. PICK m \in Messages(d) : m = Script[step].msg /\ ClientPut(d, m)
    BY <1>3, <2>2, <2>3 DEF ExecutePut
  <2>5. /\ \A c \in Channels \ {d} : Untouched(c)
        /\ Request(d)' = m
    BY <2>1, <2>4, PutChanges
  <2>6. \A c \in Channels : Outstanding(c)' => c = d
    BY <2>1, <2>5 DEF Untouched, Outstanding
  <2>7. "read" \in Channels
    BY DEF Channels, Requesters
  <2>8. /\ step' = step /\ waiting' = TRUE
        /\ step' \in 1 .. Len(Script') + 1 /\ step' \in 1 .. Len(Script')
    BY <1>1, <1>2, <1>3, <2>1 DEF ExecutePut
  <2>9. \A c \in Channels : Outstanding(c)' => c = Script'[step'].channel
    BY <1>1, <2>3, <2>6, <2>8
  <2>10. Outstanding("read")' => Request("read")'.addr = Script'[step'].msg.addr
    BY <1>1, <2>3, <2>4, <2>5, <2>6, <2>7, <2>8
  <2> QED
    BY <1>1, <2>8, <2>9, <2>10 DEF Turn
<1>4. CASE ExecuteGet
  <2>1. step \in 1 .. Len(Script) /\ step' = step + 1 /\ waiting' = FALSE
    BY <1>4 DEF ExecuteGet, Turn
  <2>2. "read" \in Channels
    BY DEF Channels, Requesters
  <2>3. step' \in 1 .. Len(Script') + 1 /\ waiting' = FALSE
    BY <1>1, <1>2, <2>1
  <2> QED
    BY <1>1, <1>4, <2>2, <2>3, AfterGet DEF Turn
<1>5. CASE Simulate
  <2>1. step' = step /\ waiting' = waiting
    BY <1>5 DEF Simulate, programVars
  <2>2. \A c \in Channels : Moves(c)
    BY <1>5, ControllerMoves DEF Simulate, ClientRule
  <2>3. "read" \in Channels /\ "read" \in Requesters
    BY DEF Channels, Requesters
  <2> QED
    BY <1>1, <2>1, <2>2, <2>3 DEF Turn, Moves
<1> QED
  BY <1>1, <1>3, <1>4, <1>5 DEF Execute

-----------------------------------------------------------------------------
(***************************************************************************)
(* The tests of four slots, seen as the sequential client whose reads have *)
(* the attributes 7, whose writes have 11, and which neither invalidates   *)
(* nor flushes.  All that is proved for the client of SequentialClient     *)
(* with these constants holds for them.                                    *)
(***************************************************************************)

\* The requests that execute() has put.
Asked == IF waiting THEN step ELSE step - 1

Expected ==
    [a \in ClientAddrs |->
        IF a \in Base + 1 .. Base + 4 /\ a - Base <= Asked THEN a - Base ELSE 0]

Safe == INSTANCE SequentialClientProofs WITH
    ReadAttrs <- {7}, WriteAttrs <- {11}, InvalidateRanges <- {}, FlushTokens <- {},
    expected <- Expected

\* The operators of the instance are those of the program, action by action: the
\* constants that differ are in none of them.
USE DEF Sets, Ways, Offsets, BlockAddress, SetIndex, TagOf, UpperBits, LowerBits, WritePolicy,
        ReadAllocates, WriteAllocates, Addr, SetOf, Policy, Allocates, RequestKey, Key,
        SetOngoing, Live, Goto, lineVars, mutexes, fifos, locals,
        Safe!Sets, Safe!Ways, Safe!Offsets, Safe!BlockAddress, Safe!SetIndex, Safe!TagOf,
        Safe!UpperBits, Safe!LowerBits, Safe!WritePolicy, Safe!ReadAllocates,
        Safe!WriteAllocates, Safe!Addr, Safe!SetOf, Safe!Policy, Safe!Allocates,
        Safe!RequestKey, Safe!Key, Safe!SetOngoing, Safe!Live, Safe!Goto, Safe!lineVars,
        Safe!mutexes, Safe!fifos, Safe!locals

LEMMA StartIsSafe ==
    ASSUME NEW t \in {"read", "write"}, Start(t)
    PROVE  Safe!Start(t)
  BY DEF Start, StartInternal, StartHit, StartThrough, StartBypass, StartFill, StartEvict,
         Miss, Enter, PassMutexes, HitWays, FreeWays, LruWay, AllocWay, EvictsDirty,
         LineAddress, Min,
         Safe!Start, Safe!StartInternal, Safe!StartHit, Safe!StartThrough,
         Safe!StartBypass, Safe!StartFill, Safe!StartEvict, Safe!Miss, Safe!Enter,
         Safe!PassMutexes, Safe!HitWays, Safe!FreeWays, Safe!LruWay, Safe!AllocWay,
         Safe!EvictsDirty, Safe!LineAddress, Safe!Min

LEMMA ThreadIsSafe ==
    ASSUME NEW t \in {"read", "write"}
    PROVE  /\ GetRequest(t) => Safe!GetRequest(t)
           /\ WaitForFlush(t) => Safe!WaitForFlush(t)
           /\ PutResponse(t) => Safe!PutResponse(t)
  BY DEF GetRequest, WaitForFlush, PutResponse, NoWay,
         Safe!GetRequest, Safe!WaitForFlush, Safe!PutResponse, Safe!NoWay

LEMMA FillIsSafe ==
    ASSUME NEW t \in {"read", "write"}, FillLine(t)
    PROVE  Safe!FillLine(t)
  BY DEF FillLine, ProbeOngoing, MemoryBlock, ReadMemory, PageNumber, PageOffset,
         Safe!FillLine, Safe!ProbeOngoing, Safe!MemoryBlock, Safe!ReadMemory,
         Safe!PageNumber, Safe!PageOffset

LEMMA VictimIsSafe ==
    ASSUME NEW t \in {"read", "write"}, WriteBackVictim(t)
    PROVE  Safe!WriteBackVictim(t)
<1>1. ASSUME NEW pt, NEW a, NEW block
      PROVE  WriteMemory(pt, a, block) = Safe!WriteMemory(pt, a, block)
  BY DEF WriteMemory, WithPage, LoadPage, PageOffsets, PageNumber, PageOffset,
         Safe!WriteMemory, Safe!WithPage, Safe!LoadPage, Safe!PageOffsets, Safe!PageNumber,
         Safe!PageOffset
<1> QED
  BY <1>1 DEF WriteBackVictim, Safe!WriteBackVictim

LEMMA AccessIsSafe ==
    /\ ReadDirect => Safe!ReadDirect
    /\ ReadLine => Safe!ReadLine
    /\ WriteDirect => Safe!WriteDirect
    /\ WriteBackHit => Safe!WriteBackHit
    /\ WriteThroughHit => Safe!WriteThroughHit
    /\ WriteThroughStore => Safe!WriteThroughStore
    /\ WriteThroughMiss => Safe!WriteThroughMiss
    /\ WriteThroughAllocate => Safe!WriteThroughAllocate
    /\ AllocatedWrite => Safe!AllocatedWrite
  BY DEF ReadDirect, ReadLine, WriteDirect, WriteBackHit, WriteThroughHit, WriteThroughStore,
         WriteThroughMiss, WriteThroughAllocate, AllocatedWrite, Finish, EraseOngoing,
         ProbeOngoing, ReadWord, WriteWord, StoreWord, ReadOffset, WriteOffset, UpdateLru,
         MoveToFront, MemoryBlock, ReadMemory, WriteMemory, WithPage, LoadPage, PageOffsets,
         PageNumber, PageOffset, AllocWay, FreeWays, LruWay, Min,
         Safe!ReadDirect, Safe!ReadLine, Safe!WriteDirect, Safe!WriteBackHit,
         Safe!WriteThroughHit, Safe!WriteThroughStore, Safe!WriteThroughMiss,
         Safe!WriteThroughAllocate, Safe!AllocatedWrite, Safe!Finish, Safe!EraseOngoing,
         Safe!ProbeOngoing, Safe!ReadWord, Safe!WriteWord, Safe!StoreWord,
         Safe!ReadOffset, Safe!WriteOffset, Safe!UpdateLru, Safe!MoveToFront,
         Safe!MemoryBlock, Safe!ReadMemory, Safe!WriteMemory, Safe!WithPage,
         Safe!LoadPage, Safe!PageOffsets, Safe!PageNumber, Safe!PageOffset,
         Safe!AllocWay, Safe!FreeWays, Safe!LruWay, Safe!Min

LEMMA ServiceIsSafe ==
    /\ Invalidate => Safe!Invalidate
    /\ Flush => Safe!Flush
  BY DEF Invalidate, InvalidateGet, InvalidateLines, InvalidatePut, InvalidateBlocks, StartBlock,
         EndBlock, TaggedWays, Min, Flush, FlushGet, FlushLines, FlushPut, NoLiveRequest, Keys,
         Safe!Invalidate, Safe!InvalidateGet, Safe!InvalidateLines, Safe!InvalidatePut,
         Safe!InvalidateBlocks, Safe!StartBlock, Safe!EndBlock, Safe!TaggedWays,
         Safe!Min, Safe!Flush, Safe!FlushGet, Safe!FlushLines, Safe!FlushPut,
         Safe!NoLiveRequest, Safe!Keys

LEMMA ControllerIsSafe == Controller => Safe!Controller
<1>1. Read => Safe!Read
  BY StartIsSafe, ThreadIsSafe, FillIsSafe, VictimIsSafe, AccessIsSafe DEF Read, Safe!Read
<1>2. Write => Safe!Write
  BY StartIsSafe, ThreadIsSafe, FillIsSafe, VictimIsSafe, AccessIsSafe DEF Write, Safe!Write
<1> QED
  BY <1>1, <1>2, ServiceIsSafe
  DEF Controller, Safe!Controller, Spinning, Safe!Spinning

HIDE DEF Sets, Ways, Offsets, BlockAddress, SetIndex, TagOf, UpperBits, LowerBits, WritePolicy,
         ReadAllocates, WriteAllocates, Addr, SetOf, Policy, Allocates, RequestKey, Key,
         SetOngoing, Live, Goto, lineVars, mutexes, fifos, locals,
         Safe!Sets, Safe!Ways, Safe!Offsets, Safe!BlockAddress, Safe!SetIndex, Safe!TagOf,
         Safe!UpperBits, Safe!LowerBits, Safe!WritePolicy, Safe!ReadAllocates,
         Safe!WriteAllocates, Safe!Addr, Safe!SetOf, Safe!Policy, Safe!Allocates,
         Safe!RequestKey, Safe!Key, Safe!SetOngoing, Safe!Live, Safe!Goto, Safe!lineVars,
         Safe!mutexes, Safe!fifos, Safe!locals

\* The assumptions of the modules hold of the instance.
SafeAssumptions ==
    /\ LineSize \in Nat \ {0} /\ WordSize \in Nat \ {0} /\ NumSets \in Nat \ {0}
    /\ UIntMod \in Nat \ {0}
    /\ PageSize \in Nat \ {0} /\ PageSize % LineSize = 0
    /\ 0 \in Values
    /\ NumWays \in Nat \ {0} /\ KeyMod \in Nat \ {0}
    /\ {7} \subseteq Nat /\ {11} \subseteq Nat
    /\ {} \subseteq [first : 0 .. UIntMod - 1, second : 0 .. UIntMod - 1]
    /\ ClientAddrs \subseteq Nat
    /\ NoMsg \notin Safe!Payloads \union {} \union {}

LEMMA SafeAssumptionsHold == SafeAssumptions
<1>1. 7 \in ReadAttrs /\ 11 \in WriteAttrs
  <2>1. /\ "cache_eviction_check" \in TestNames
        /\ 1 \in DOMAIN EvictionCheck /\ 5 \in DOMAIN EvictionCheck
        /\ Scripts["cache_eviction_check"] = EvictionCheck
    BY DEF TestNames, Scripts, EvictionCheck
  <2>2. EvictionCheck[1] = WriteOf(3, 1) /\ EvictionCheck[5] = ReadOf(3, 7)
    BY DEF EvictionCheck
  <2>3. /\ EvictionCheck[1].msg \in Messages(EvictionCheck[1].channel)
        /\ EvictionCheck[5].msg \in Messages(EvictionCheck[5].channel)
    BY <2>1, ScriptsAreRequests
  <2>4. /\ WriteOf(3, 1).msg \in Messages("write")
        /\ ReadOf(3, 7).msg \in Messages("read")
    BY <2>2, <2>3 DEF WriteOf, ReadOf
  <2> QED
    BY <2>4 DEF WriteOf, ReadOf, Messages
<1>2. Safe!Payloads \subseteq Payloads
  BY <1>1 DEF Payloads, Safe!Payloads
<1> QED
  BY <1>2, LineSizeAssumption, WordSizeAssumption, NumSetsAssumption, UIntModAssumption,
     PageSizeAssumption, ValuesAssumption, NumWaysAssumption, KeyModAssumption,
     AddrsAssumption, NoMsgAssumption
  DEF SafeAssumptions

LEMMA FourSlotsAreServed == Safe!SafeAttributes /\ (AlignedAddrs => Safe!AlignedAddrs)
  BY DEF Safe!SafeAttributes, Safe!WriteThroughOnly, Safe!NoLineDropped, Safe!WritePolicy,
         Safe!ReadAllocates, Safe!WriteAllocates, Safe!UpperBits, Safe!LowerBits,
         AlignedAddrs, Safe!AlignedAddrs

\* What the client expects changes with the requests it puts.
LEMMA ExpectedAfterPut ==
    ASSUME test_name \in FourSlotTests, test_name' = test_name, step \in 1 .. 8,
           step' = step, waiting = FALSE, waiting' = TRUE
    PROVE  Expected' = IF Script[step].channel = "write"
                       THEN [Expected EXCEPT ![Script[step].msg.addr] = Script[step].msg.data]
                       ELSE Expected
<1>1. Base' = Base /\ Base \in {2, 5} /\ Asked = step - 1 /\ Asked' = step
  BY DEF Base, Asked
<1>2. ClientAddrs \subseteq Nat
  BY AddrsAssumption
<1>3. CASE step \in 1 .. 4
  <2>1. Script[step] = WriteOf(Base + step, step)
    BY <1>3, FourSlotScript
  <2>2. \A a \in ClientAddrs : Expected'[a] = IF a = Base + step THEN step ELSE Expected[a]
    <3> TAKE a \in ClientAddrs
    <3>1. Expected[a] = IF a \in Base + 1 .. Base + 4 /\ a - Base <= step - 1
                        THEN a - Base ELSE 0
      BY <1>1 DEF Expected
    <3>2. Expected'[a] = IF a \in Base + 1 .. Base + 4 /\ a - Base <= step
                         THEN a - Base ELSE 0
      BY <1>1 DEF Expected
    <3> QED
      BY <1>1, <1>2, <1>3, <3>1, <3>2
  <2>3. Expected' = [a \in ClientAddrs |-> IF a = Base + step THEN step ELSE Expected[a]]
    <3>1. Expected' = [a \in ClientAddrs |-> Expected'[a]]
      BY DEF Expected
    <3> QED
      BY <2>2, <3>1
  <2>4. [Expected EXCEPT ![Base + step] = step]
            = [a \in ClientAddrs |-> IF a = Base + step THEN step ELSE Expected[a]]
    BY DEF Expected
  <2>5. /\ Script[step].channel = "write"
        /\ Script[step].msg.addr = Base + step /\ Script[step].msg.data = step
    BY <2>1 DEF WriteOf
  <2> QED
    BY <2>3, <2>4, <2>5
<1>4. CASE step \in 5 .. 8
  <2>1. Script[step] = ReadOf(Base + step - 4, 7)
    BY <1>4, FourSlotScript
  <2>2. \A a \in ClientAddrs : Expected'[a] = Expected[a]
    BY <1>1, <1>2, <1>4 DEF Expected
  <2> QED
    BY <2>1, <2>2 DEF ReadOf, Expected
<1> QED
  BY <1>3, <1>4

LEMMA ExecuteIsSafe ==
    ASSUME ClientRule, Turn, test_name \in FourSlotTests, Execute
    PROVE  [Safe!SeqNext]_Safe!seqVars
<1>1. Len(Script) = 8 /\ test_name \in TestNames
  BY FourSlotScript, Names
<1>2. CASE ExecutePut
  <2>1. /\ step \in 1 .. 8 /\ step' = step /\ waiting = FALSE /\ waiting' = TRUE
        /\ test_name' = test_name
        /\ \A c \in Channels : ~ Outstanding(c)
    BY <1>1, <1>2 DEF ExecutePut, Turn
  <2>2. PICK c \in Channels : c = Script[step].channel /\ Script[step].msg \in Messages(c)
    <3>1. step \in 1 .. Len(Script)
      BY <1>1, <2>1
    <3> QED
      BY <1>1, <3>1, ScriptMessages
  <2>3. PICK m \in Messages(c) : m = Script[step].msg /\ ClientPut(c, m)
    BY <1>2, <2>2 DEF ExecutePut
  <2>4. m \in Safe!Messages(c)
    <3>1. m \in Messages(c)
      BY <2>3
    <3>2. CASE step \in 1 .. 4
      <4>1. Script[step] = WriteOf(Base + step, step)
        BY <3>2, FourSlotScript
      <4>2. c = "write" /\ m = [addr |-> Base + step, cache |-> 11, data |-> step]
        BY <2>2, <2>3, <4>1 DEF WriteOf
      <4>3. Base + step \in ClientAddrs /\ step \in Values
        BY <3>1, <4>2 DEF Messages
      <4> QED
        BY <4>2, <4>3 DEF Safe!Messages
    <3>3. CASE step \in 5 .. 8
      <4>1. Script[step] = ReadOf(Base + step - 4, 7)
        BY <3>3, FourSlotScript
      <4>2. c = "read" /\ m = [addr |-> Base + step - 4, cache |-> 7, data |-> 0]
        BY <2>2, <2>3, <4>1 DEF ReadOf
      <4>3. Base + step - 4 \in ClientAddrs
        BY <3>1, <4>2 DEF Messages
      <4> QED
        BY <4>2, <4>3 DEF Safe!Messages
    <3> QED
      BY <2>1, <3>2, <3>3
  <2>5. Expected' = IF c = "write" THEN [Expected EXCEPT ![m.addr] = m.data] ELSE Expected
    BY <2>1, <2>2, <2>3, ExpectedAfterPut
  <2>6. Safe!Quiet
    BY <2>1 DEF Safe!Quiet, Safe!Outstanding, Safe!Channels, Safe!Requesters, Outstanding,
                Channels, Requesters
  <2>7. Safe!ClientPut(c, m)
    BY <2>3 DEF ClientPut, lineVars, mutexes, locals, Safe!ClientPut, Safe!lineVars,
                Safe!mutexes, Safe!locals
  <2>8. Safe!Put(c) /\ c \in Safe!Channels
    BY <2>4, <2>5, <2>6, <2>7 DEF Safe!Put, Channels, Requesters, Safe!Channels,
                                  Safe!Requesters
  <2> QED
    BY <2>8 DEF Safe!SeqNext
<1>3. CASE ExecuteGet
  <2>1. step \in 1 .. 8
    BY <1>1, <1>3 DEF ExecuteGet, Turn
  <2>2. PICK c \in Channels : ClientGet(c)
    BY <1>1, <1>3, <2>1, ScriptMessages DEF ExecuteGet
  <2>3. waiting = TRUE /\ waiting' = FALSE /\ step' = step + 1 /\ test_name' = test_name
    BY <1>3 DEF ExecuteGet, Turn
  <2>4. Asked' = Asked /\ Base' = Base
    BY <2>1, <2>3 DEF Asked, Base
  <2>5. UNCHANGED Expected
    BY <2>4 DEF Expected
  <2>6. Safe!Get(c) /\ c \in Safe!Channels
    BY <2>2, <2>5 DEF ClientGet, lineVars, mutexes, locals, Safe!Get, Safe!ClientGet,
       Safe!lineVars, Safe!mutexes, Safe!locals, Channels, Requesters, Safe!Channels,
       Safe!Requesters
  <2> QED
    BY <2>6 DEF Safe!SeqNext
<1>4. CASE Simulate
  <2>1. UNCHANGED Expected
    BY <1>4 DEF Simulate, programVars, Expected, Asked, Base
  <2> QED
    BY <1>4, <2>1, ControllerIsSafe DEF Simulate, Safe!SeqNext, Safe!Serve
<1> QED
  BY <1>2, <1>3, <1>4 DEF Execute

\* What a test of four slots has got for its reads so far.
FourSlotInv ==
    /\ Safe!ReadBackInv
    /\ \A i \in 5 .. 8 : i < step => read_data[i] = i - 4

LEMMA FourSlotStart ==
    ASSUME test_name \in FourSlotTests, Init, step = 1, waiting = FALSE
    PROVE  FourSlotInv
<1>1. Safe!Init
  BY DEF Init, Sets, Ways, Offsets, Keys, Channels, Requesters, NoWay, NoPages, PageOffsets,
         Safe!Init, Safe!Sets, Safe!Ways, Safe!Offsets, Safe!Keys, Safe!Channels,
         Safe!Requesters, Safe!NoWay, Safe!NoPages, Safe!PageOffsets
<1>2. Expected = [a \in ClientAddrs |-> 0]
  <2>1. Asked = 0 /\ Base \in {2, 5} /\ ClientAddrs \subseteq Nat
    BY AddrsAssumption DEF Asked, Base
  <2>2. \A a \in ClientAddrs : ~ (a \in Base + 1 .. Base + 4 /\ a - Base <= Asked)
    BY <2>1
  <2> QED
    BY <2>2 DEF Expected
<1>3. Safe!ReadBackInv
  BY <1>1, <1>2, SafeAssumptionsHold, Safe!ReadBackInit DEF SafeAssumptions, Safe!SeqInit
<1> QED
  BY <1>3 DEF FourSlotInv

LEMMA FourSlotStep ==
    ASSUME AlignedAddrs, ClientRule, Turn, test_name \in FourSlotTests, Execute,
           DOMAIN read_data = 1 .. 8, FourSlotInv
    PROVE  FourSlotInv'
<1>1. Safe!ReadBackInv'
  BY ExecuteIsSafe, FourSlotsAreServed, SafeAssumptionsHold, Safe!ReadBackStep
  DEF SafeAssumptions, FourSlotInv
<1>2. CASE ExecuteGet
  <2>1. Len(Script) = 8 /\ test_name \in TestNames
    BY FourSlotScript, Names
  <2>2. step \in 1 .. 8 /\ step' = step + 1 /\ Asked = step
    BY <1>2, <2>1 DEF ExecuteGet, Turn, Asked
  <2>3. CASE step \in 1 .. 4
    <3>1. Script[step].channel = "write"
      BY <2>3, FourSlotScript DEF WriteOf
    <3> QED
      BY <1>1, <1>2, <2>2, <2>3, <3>1 DEF ExecuteGet, FourSlotInv
  <2>4. CASE step \in 5 .. 8
    <3>1. Script[step] = ReadOf(Base + step - 4, 7)
      BY <2>4, FourSlotScript
    <3>2. /\ rsp_fifo["read"] # NoMsg
          /\ read_data' = [read_data EXCEPT ![step] = rsp_fifo["read"].data]
      BY <1>2, <3>1 DEF ExecuteGet, ClientGet, ReadOf
    <3>3. "read" \in Channels
      BY DEF Channels, Requesters
    <3>4. Outstanding("read") /\ Request("read") = rsp_fifo["read"]
      BY <3>2, <3>3 DEF ClientRule, OnePerChannel, Outstanding, Request
    <3>5. rsp_fifo["read"].addr = Base + step - 4
      BY <3>1, <3>4 DEF Turn, ReadOf
    <3>6. rsp_fifo["read"].data = Expected[Base + step - 4]
      BY <3>2, <3>5, SafeAssumptionsHold, Safe!ReadBackHolds
      DEF SafeAssumptions, FourSlotInv, Safe!ReadBack
    <3>7. Base + step - 4 \in ClientAddrs
      <4>1. step \in 1 .. Len(Script)
        BY <2>1, <2>2
      <4>2. Script[step].msg \in Messages("read")
        BY <2>1, <3>1, <4>1, ScriptMessages DEF ReadOf
      <4> QED
        BY <3>1, <4>2 DEF Messages, ReadOf
    <3>8. Expected[Base + step - 4] = step - 4
      <4>1. Base \in {2, 5}
        BY DEF Base
      <4> QED
        BY <2>2, <2>4, <3>7, <4>1 DEF Expected
    <3> QED
      BY <1>1, <2>2, <2>4, <3>2, <3>6, <3>8 DEF FourSlotInv
  <2> QED
    BY <2>2, <2>3, <2>4
<1>3. CASE ~ ExecuteGet
  BY <1>1, <1>3 DEF Execute, ExecutePut, Simulate, programVars, FourSlotInv
<1> QED
  BY <1>2, <1>3

LEMMA FourSlotVerdict ==
    ASSUME test_name \in FourSlotTests, FourSlotInv, step > Len(Script), step \in Nat
    PROVE  Verdict = {"passed"}
<1>0. Len(Script) = 8
  BY FourSlotScript
<1>1. \A i \in 5 .. 8 : read_data[i] = i - 4
  BY <1>0 DEF FourSlotInv
<1>2. ASSUME NEW i \in 5 .. 8
      PROVE  Written(i) = i - 4
  <2> DEFINE writes == {j \in 1 .. i - 1 : /\ Script[j].channel = "write"
                                            /\ Script[j].msg.addr = Script[i].msg.addr}
  <2>1. Script[i].msg.addr = Base + i - 4 /\ Base \in {2, 5}
    BY FourSlotScript DEF ReadOf, Base
  <2>2. \A j \in 5 .. 8 : Script[j].channel # "write"
    BY FourSlotScript DEF ReadOf
  <2>3. \A j \in 1 .. 4 : Script[j].channel = "write" /\ Script[j].msg.addr = Base + j
                                                      /\ Script[j].msg.data = j
    BY FourSlotScript DEF WriteOf
  <2>4. writes = {i - 4}
    <3>1. \A j \in 1 .. i - 1 : j \in 1 .. 4 \/ j \in 5 .. 8
      OBVIOUS
    <3>2. \A j \in 1 .. i - 1 : j \in writes <=> j = i - 4
      <4> TAKE j \in 1 .. i - 1
      <4>1. CASE j \in 1 .. 4
        BY <2>1, <2>3, <4>1
      <4>2. CASE j \in 5 .. 8
        BY <2>2, <4>2
      <4> QED
        BY <3>1, <4>1, <4>2
    <3>3. i - 4 \in 1 .. i - 1 /\ writes \subseteq 1 .. i - 1
      OBVIOUS
    <3> QED
      BY <3>2, <3>3
  <2> HIDE DEF writes
  <2>5. Max(writes) = i - 4
    BY <2>4 DEF Max
  <2> QED
    BY <2>3, <2>5 DEF Written, writes
<1>3. AllMatch
  <2>1. \A i \in 1 .. Len(Script) : Script[i].channel = "read" => i \in 5 .. 8
    <3>1. \A i \in 1 .. 8 : i \in 1 .. 4 \/ i \in 5 .. 8
      OBVIOUS
    <3>2. \A i \in 1 .. 4 : Script[i].channel # "read"
      BY FourSlotScript DEF WriteOf
    <3> QED
      BY <1>0, <3>1, <3>2
  <2> QED
    BY <1>1, <1>2, <2>1 DEF AllMatch
<1> QED
  BY <1>3 DEF Verdict, FourSlotTests

-----------------------------------------------------------------------------
(***************************************************************************)
(* The tests of one slot, whose requests have the attributes 11: a write   *)
(* claims the first way of a set that is empty but for that way, a read of *)
(* a block that is not cached passes the cache by.  Nothing is ever        *)
(* written back, so memory stays empty.                                    *)
(***************************************************************************)

\* Way 0 of the slot's set caches its block, or no line is valid.
Caches(a, cached) ==
    /\ page_table = NoPages
    /\ \A s \in Sets, w \in Ways : valid[s][w] <=> cached /\ s = SetIndex(a) /\ w = 0
    /\ cached => tag[SetIndex(a)][0] = TagOf(a)

\* ... and holds the string v; 0 stands for a block that is not cached.
LinesHold(a, v) ==
    /\ Caches(a, v # 0)
    /\ v # 0 => data[SetIndex(a)][0][WriteOffset(a)] = v

LEMMA WriteBackAttrs ==
    WritePolicy(11) = "write_back" /\ WriteAllocates(11) /\ ~ ReadAllocates(11)
  BY DEF WritePolicy, WriteAllocates, ReadAllocates, UpperBits, LowerBits

LEMMA FirstWay ==
    /\ 0 \in Ways
    /\ \A S \in SUBSET Ways : 0 \in S => Min(S) = 0
<1>1. 0 \in Ways /\ Ways \subseteq Nat
  BY NumWaysAssumption DEF Ways
<1>2. ASSUME NEW S \in SUBSET Ways, 0 \in S
      PROVE  Min(S) = 0
  <2>1. PICK m \in S : m = Min(S) /\ \A y \in S : m <= y
    BY <1>2, MinOfWays
  <2>2. m \in Nat /\ m <= 0
    BY <1>1, <1>2, <2>1
  <2> QED
    BY <2>1, <2>2
<1> QED
  BY <1>1, <1>2

\* What a request of the slot finds in the cache.
LEMMA LookUp ==
    ASSUME TypeOK, NEW a, NEW cached \in BOOLEAN, Caches(a, cached),
           NEW t \in Requesters, pc[t] # "get", Addr(t) = a
    PROVE  /\ cached => HitWays(t) # {} /\ Min(HitWays(t)) = 0
           /\ ~ cached => /\ HitWays(t) = {} /\ ~ EvictsDirty(t)
                           /\ AllocWay(SetOf(t)) = 0
<1>1. SetOf(t) = SetIndex(a) /\ SetOf(t) \in Sets
  BY RequestTypes DEF SetOf
<1>2. CASE cached
  <2>1. HitWays(t) = {0}
    BY <1>1, <1>2, FirstWay DEF HitWays, Caches
  <2> QED
    BY <1>2, <2>1, FirstWay
<1>3. CASE ~ cached
  <2>1. HitWays(t) = {}
    BY <1>1, <1>3 DEF HitWays, Caches
  <2>2. FreeWays(SetOf(t)) = Ways
    BY <1>1, <1>3 DEF FreeWays, Caches
  <2>3. Min(Ways) = 0
    BY FirstWay
  <2> QED
    BY <1>3, <2>1, <2>2, <2>3, FirstWay DEF EvictsDirty, AllocWay
<1> QED
  BY <1>2, <1>3

\* The progress of a write of new over old.
WriteProgress(a, old, new) ==
    LET r == [addr |-> a, cache |-> 11, data |-> new]
        label == pc["write"]
    IN  /\ req_fifo["write"] # NoMsg => req_fifo["write"] = r /\ LinesHold(a, old)
        /\ label \in {"get", "invalidate_mutex", "flush_mutex", "hit", "fill", "access", "put"}
        /\ label # "get" => gp["write"] = r
        /\ label \in {"invalidate_mutex", "flush_mutex", "hit", "fill"} => LinesHold(a, old)
        /\ label \in {"hit", "fill", "access"} => way["write"] = 0
        /\ label = "hit" => old # 0
        /\ label = "fill" => old = 0 /\ Live("write")
        /\ label = "access" => Caches(a, TRUE)
        /\ label = "put" \/ rsp_fifo["write"] # NoMsg => LinesHold(a, new)

\* The progress of a read.
ReadProgress(a, v) ==
    LET label == pc["read"]
    IN  /\ LinesHold(a, v)
        /\ req_fifo["read"] # NoMsg => req_fifo["read"] = ReadOf(a, 11).msg
        /\ label \in {"get", "invalidate_mutex", "flush_mutex", "hit", "direct", "put"}
        /\ label # "get" => gp["read"].addr = a /\ gp["read"].cache = 11
        /\ label = "hit" => v # 0 /\ way["read"] = 0
        /\ label = "direct" => v = 0
        /\ label = "put" => gp["read"].data = v
        /\ rsp_fifo["read"] # NoMsg => rsp_fifo["read"].data = v

\* The progress of the invalidation.
InvalidateProgress(a, old) ==
    LET r == [first |-> a, second |-> a]
        label == pc["invalidate"]
    IN  /\ req_fifo["invalidate"] # NoMsg => req_fifo["invalidate"] = r /\ LinesHold(a, old)
        /\ label \in {"get", "delay", "put"}
        /\ label = "delay" => gp["invalidate"] = r /\ LinesHold(a, old)
        /\ label = "put" \/ rsp_fifo["invalidate"] # NoMsg => LinesHold(a, 0)

LEMMA WriteRuns ==
    ASSUME TypeOK, NEW a \in Nat, NEW old, NEW new, new # 0,
           OnePerChannel, WriteProgress(a, old, new), Write
    PROVE  WriteProgress(a, old, new)'
<1>1. /\ "write" \in Channels /\ "write" \in Requesters
      /\ pc["write"] # "get" => /\ Addr("write") = a /\ SetOf("write") = SetIndex(a)
                               /\ Policy("write") = "write_back" /\ Allocates("write")
  BY WriteBackAttrs
  DEF Channels, Requesters, WriteProgress, Addr, Policy, Allocates, SetOf
<1>2. SetIndex(a) \in Sets /\ TagOf(a) \in Nat /\ WriteOffset(a) \in Offsets /\ 0 \in Ways
  BY FieldTypes, FirstWay
<1>3. CASE GetRequest("write")
  <2>1. UNCHANGED <<valid, tag, data, page_table>>
    BY <1>3 DEF GetRequest, lineVars
  <2>2. /\ pc'["write"] = "invalidate_mutex" /\ gp'["write"] = req_fifo["write"]
        /\ req_fifo'["write"] = NoMsg /\ rsp_fifo' = rsp_fifo
    BY <1>1, <1>3 DEF GetRequest, Goto, TypeOK
  <2>3. req_fifo["write"] # NoMsg
    BY <1>3 DEF GetRequest
  <2> QED
    BY <2>1, <2>2, <2>3 DEF WriteProgress, LinesHold, Caches
<1>4. CASE WaitForFlush("write")
  <2>1. UNCHANGED <<valid, tag, data, page_table, gp, req_fifo, rsp_fifo>>
    BY <1>4 DEF WaitForFlush, lineVars, locals, fifos
  <2>2. pc["write"] = "invalidate_mutex" /\ pc'["write"] = "flush_mutex"
    BY <1>1, <1>4 DEF WaitForFlush, Goto, TypeOK
  <2> QED
    BY <2>1, <2>2 DEF WriteProgress, LinesHold, Caches
<1>5. CASE Start("write")
  <2>1. /\ UNCHANGED <<valid, tag, data, page_table, gp, req_fifo, rsp_fifo>>
        /\ pc["write"] \in {"invalidate_mutex", "flush_mutex"} /\ Live("write")'
    <3>1. /\ UNCHANGED <<lineVars, page_table, gp, fifos>>
          /\ PassMutexes("write") /\ SetOngoing("write", "live")
      BY <1>5 DEF Start, StartInternal, StartHit, StartThrough, StartBypass, StartFill,
                  StartEvict, Miss, Enter
    <3>2. pc["write"] \in {"invalidate_mutex", "flush_mutex"}
      BY <3>1 DEF PassMutexes
    <3>3. SetOf("write") \in Sets /\ Key("write") \in Keys
      BY <1>1, <3>2, RequestTypes
    <3>4. SetOf("write")' = SetOf("write") /\ Key("write")' = Key("write")
      BY <3>1 DEF SetOf, Key, Addr
    <3>5. ongoing_requests'[SetOf("write")][Key("write")] = "live"
      BY <3>1, <3>3 DEF SetOngoing, TypeOK
    <3> QED
      BY <3>1, <3>2, <3>4, <3>5 DEF Live, lineVars, fifos
  <2>2. /\ LinesHold(a, old) /\ LinesHold(a, old)'
        /\ gp["write"] = [addr |-> a, cache |-> 11, data |-> new]
    BY <2>1 DEF WriteProgress, LinesHold, Caches
  <2>3. /\ old # 0 => HitWays("write") # {} /\ Min(HitWays("write")) = 0
        /\ old = 0 => /\ HitWays("write") = {} /\ ~ EvictsDirty("write")
                      /\ AllocWay(SetOf("write")) = 0
    BY <1>1, <2>1, <2>2, LookUp DEF LinesHold
  <2>4. \/ old # 0 /\ pc'["write"] = "hit" /\ way'["write"] = 0
        \/ old = 0 /\ pc'["write"] = "fill" /\ way'["write"] = 0
    BY <1>1, <1>5, <2>1, <2>3
    DEF Start, StartInternal, StartHit, StartThrough, StartBypass, StartFill, StartEvict,
        Miss, Enter, Goto, TypeOK
  <2>5. rsp_fifo["write"] = NoMsg /\ req_fifo["write"] = NoMsg
    BY <1>1, <2>1 DEF OnePerChannel
  <2> QED
    BY <2>1, <2>2, <2>4, <2>5 DEF WriteProgress
<1>6. CASE WriteBackHit \/ AllocatedWrite
  <2>1. /\ UNCHANGED <<valid, tag, page_table, gp, fifos>> /\ WriteWord("write")
        /\ pc["write"] \in {"hit", "access"} /\ pc'["write"] = "put"
    BY <1>1, <1>6 DEF WriteBackHit, AllocatedWrite, Finish, Goto, TypeOK, locals
  <2>2. way["write"] = 0 /\ gp["write"].data = new /\ Caches(a, TRUE)
    BY <2>1 DEF WriteProgress, LinesHold, Caches
  <2>3. data' = [data EXCEPT ![SetIndex(a)][0][WriteOffset(a)] = new]
    BY <1>1, <2>1, <2>2 DEF WriteWord
  <2>4. data'[SetIndex(a)][0][WriteOffset(a)] = new
    BY <1>2, <2>3 DEF TypeOK
  <2>5. LinesHold(a, new)'
    BY <2>1, <2>2, <2>4 DEF LinesHold, Caches
  <2>6. gp["write"] = [addr |-> a, cache |-> 11, data |-> new]
    BY <2>1 DEF WriteProgress
  <2>7. req_fifo'["write"] = NoMsg
    BY <1>1, <2>1 DEF fifos, OnePerChannel
  <2> QED
    BY <2>1, <2>5, <2>6, <2>7 DEF WriteProgress, fifos
<1>7. CASE FillLine("write")
  <2>1. /\ UNCHANGED <<page_table, way, gp, fifos>>
        /\ pc["write"] = "fill" /\ pc'["write"] = "access"
    BY <1>1, <1>7 DEF FillLine, Goto, TypeOK, locals
  <2>2. /\ way["write"] = 0 /\ Caches(a, FALSE) /\ Live("write")
        /\ gp["write"] = [addr |-> a, cache |-> 11, data |-> new]
        /\ req_fifo["write"] = NoMsg /\ rsp_fifo["write"] = NoMsg
    BY <1>1, <2>1 DEF WriteProgress, LinesHold, Caches, OnePerChannel
  <2>3. /\ valid' = [valid EXCEPT ![SetIndex(a)][0] = TRUE]
        /\ tag' = [tag EXCEPT ![SetIndex(a)][0] = TagOf(a)]
    BY <1>1, <1>7, <2>1, <2>2 DEF FillLine
  <2>4. Caches(a, TRUE)'
    BY <1>2, <2>1, <2>2, <2>3 DEF Caches, TypeOK
  <2> QED
    BY <2>1, <2>2, <2>4 DEF WriteProgress, fifos
<1>8. CASE PutResponse("write")
  <2>1. /\ UNCHANGED <<valid, tag, data, page_table, req_fifo>>
        /\ pc["write"] = "put" /\ pc'["write"] = "get" /\ req_fifo["write"] = NoMsg
    BY <1>1, <1>8 DEF PutResponse, Goto, lineVars, TypeOK, OnePerChannel
  <2> QED
    BY <2>1 DEF WriteProgress, LinesHold, Caches
<1>9. /\ pc["write"] \notin {"direct", "store", "through", "evict"}
      /\ pc["write"] = "hit" => Policy("write") # "write_through"
  BY <1>1 DEF WriteProgress
<1> QED
  BY <1>3, <1>4, <1>5, <1>6, <1>7, <1>8, <1>9
  DEF Write, WriteDirect, WriteThroughHit, WriteThroughStore, WriteThroughMiss,
      WriteThroughAllocate, WriteBackVictim

LEMMA ReadRuns ==
    ASSUME TypeOK, NEW a \in Nat, ReadOffset(a) = WriteOffset(a), NEW v,
           OnePerChannel, ReadProgress(a, v), Read
    PROVE  ReadProgress(a, v)'
<1>1. /\ "read" \in Channels /\ "read" \in Requesters
      /\ pc["read"] # "get" => /\ Addr("read") = a /\ SetOf("read") = SetIndex(a)
                               /\ Policy("read") = "write_back" /\ ~ Allocates("read")
  BY WriteBackAttrs
  DEF Channels, Requesters, ReadProgress, Addr, Policy, Allocates, SetOf
<1>2. LinesHold(a, v)
  BY DEF ReadProgress
<1>3. UNCHANGED <<valid, tag, data, page_table>> => LinesHold(a, v)'
  BY <1>2 DEF LinesHold, Caches
<1>4. CASE GetRequest("read")
  <2>1. UNCHANGED <<valid, tag, data, page_table>>
    BY <1>4 DEF GetRequest, lineVars
  <2>2. /\ pc'["read"] = "invalidate_mutex" /\ gp'["read"] = req_fifo["read"]
        /\ req_fifo'["read"] = NoMsg /\ rsp_fifo' = rsp_fifo
    BY <1>1, <1>4 DEF GetRequest, Goto, TypeOK
  <2>3. req_fifo["read"] = [addr |-> a, cache |-> 11, data |-> 0]
    BY <1>4 DEF GetRequest, ReadProgress, ReadOf
  <2> QED
    BY <1>3, <2>1, <2>2, <2>3 DEF ReadProgress
<1>5. CASE WaitForFlush("read")
  <2>1. UNCHANGED <<valid, tag, data, page_table, gp, req_fifo, rsp_fifo>>
    BY <1>5 DEF WaitForFlush, lineVars, locals, fifos
  <2>2. pc["read"] = "invalidate_mutex" /\ pc'["read"] = "flush_mutex"
    BY <1>1, <1>5 DEF WaitForFlush, Goto, TypeOK
  <2> QED
    BY <1>3, <2>1, <2>2 DEF ReadProgress
<1>6. CASE Start("read")
  <2>1. /\ UNCHANGED <<valid, tag, data, page_table, gp, req_fifo, rsp_fifo>>
        /\ pc["read"] \in {"invalidate_mutex", "flush_mutex"}
    BY <1>6 DEF Start, StartInternal, StartHit, StartThrough, StartBypass, StartFill,
                StartEvict, Miss, Enter, PassMutexes, lineVars, fifos
  <2>2. /\ v # 0 => HitWays("read") # {} /\ Min(HitWays("read")) = 0
        /\ v = 0 => HitWays("read") = {}
    BY <1>1, <1>2, <2>1, LookUp DEF LinesHold
  <2>3. \/ v # 0 /\ pc'["read"] = "hit" /\ way'["read"] = 0
        \/ v = 0 /\ pc'["read"] = "direct"
    BY <1>1, <1>6, <2>1, <2>2
    DEF Start, StartInternal, StartHit, StartBypass, StartFill, StartEvict, Miss, Enter,
        Goto, TypeOK
  <2> QED
    BY <1>3, <2>1, <2>3 DEF ReadProgress
<1>7. CASE ReadLine
  <2>1. /\ UNCHANGED <<valid, tag, data, page_table, fifos>> /\ ReadWord("read")
        /\ pc["read"] = "hit" /\ pc'["read"] = "put"
    BY <1>1, <1>7 DEF ReadLine, Finish, Goto, TypeOK, lineVars, ReadProgress
  <2>2. data[SetIndex(a)][0][ReadOffset(a)] = v /\ way["read"] = 0
    BY <1>2, <2>1 DEF ReadProgress, LinesHold
  <2>3. gp' = [gp EXCEPT !["read"].data = v]
    BY <1>1, <2>1, <2>2 DEF ReadWord
  <2>4. /\ gp'["read"].data = v /\ gp'["read"].addr = gp["read"].addr
        /\ gp'["read"].cache = gp["read"].cache
    <3>1. gp["read"] \in [addr : ClientAddrs, cache : ReadAttrs, data : Values]
      BY <1>1, <2>1 DEF TypeOK, Served
    <3> QED
      BY <1>1, <2>3, <3>1 DEF TypeOK
  <2> QED
    BY <1>3, <2>1, <2>4 DEF ReadProgress, fifos
<1>8. CASE ReadDirect
  <2>1. /\ UNCHANGED <<valid, tag, data, page_table, fifos>>
        /\ pc["read"] = "direct" /\ pc'["read"] = "put" /\ v = 0
    BY <1>1, <1>8 DEF ReadDirect, Finish, Goto, TypeOK, lineVars, ReadProgress
  <2>2. MemoryBlock(a)[0] = v
    <3>1. 0 \in Offsets
      BY LineSizeAssumption DEF Offsets
    <3>2. PageNumber(BlockAddress(a)) \notin DOMAIN page_table
      BY <1>2 DEF LinesHold, Caches, NoPages
    <3> QED
      BY <2>1, <3>1, <3>2 DEF MemoryBlock, ReadMemory
  <2>3. gp' = [gp EXCEPT !["read"].data = v]
    BY <1>1, <1>8, <2>1, <2>2 DEF ReadDirect
  <2>4. /\ gp'["read"].data = v /\ gp'["read"].addr = gp["read"].addr
        /\ gp'["read"].cache = gp["read"].cache
    <3>1. gp["read"] \in [addr : ClientAddrs, cache : ReadAttrs, data : Values]
      BY <1>1, <2>1 DEF TypeOK, Served
    <3> QED
      BY <1>1, <2>3, <3>1 DEF TypeOK
  <2> QED
    BY <1>3, <2>1, <2>4 DEF ReadProgress, fifos
<1>9. CASE PutResponse("read")
  <2>1. /\ UNCHANGED <<valid, tag, data, page_table, req_fifo>>
        /\ pc["read"] = "put" /\ pc'["read"] = "get" /\ rsp_fifo'["read"] = gp["read"]
    BY <1>1, <1>9 DEF PutResponse, Goto, lineVars, TypeOK
  <2> QED
    BY <1>3, <2>1 DEF ReadProgress
<1> QED
  <2>1. pc["read"] \notin {"evict", "fill"}
    BY DEF ReadProgress
  <2> QED
    BY <1>4, <1>5, <1>6, <1>7, <1>8, <1>9, <2>1 DEF Read, WriteBackVictim, FillLine

LEMMA InvalidateRuns ==
    ASSUME TypeOK, NEW a \in Nat, [first |-> a, second |-> a] \in InvalidateRanges, NoWrap,
           NEW old, OnePerChannel, InvalidateProgress(a, old), Invalidate
    PROVE  InvalidateProgress(a, old)'
<1> DEFINE r == [first |-> a, second |-> a]
<1>1. "invalidate" \in Channels
  BY DEF Channels
<1>2. CASE InvalidateGet
  <2>1. UNCHANGED <<valid, tag, data, page_table, rsp_fifo>> /\ req_fifo["invalidate"] # NoMsg
    BY <1>2 DEF InvalidateGet, lineVars
  <2>2. /\ pc'["invalidate"] = "delay" /\ gp'["invalidate"] = req_fifo["invalidate"]
        /\ req_fifo'["invalidate"] = NoMsg
    BY <1>1, <1>2 DEF InvalidateGet, Goto, TypeOK
  <2> QED
    BY <2>1, <2>2 DEF InvalidateProgress, LinesHold, Caches
<1>3. CASE InvalidateLines
  <2>1. /\ UNCHANGED <<tag, data, page_table, gp, fifos>>
        /\ pc["invalidate"] = "delay" /\ pc'["invalidate"] = "put"
    BY <1>1, <1>3 DEF InvalidateLines, Goto, TypeOK, locals
  <2>2. gp["invalidate"] = r /\ LinesHold(a, old) /\ req_fifo["invalidate"] = NoMsg
    BY <1>1, <2>1 DEF InvalidateProgress, OnePerChannel
  <2> DEFINE s == SetIndex(a)
             g == TagOf(a)
             b == LineAddress(g, s)
  <2>3. s \in Sets /\ g \in Nat /\ 0 \in Ways
    BY FieldTypes, FirstWay
  <2>4. b \in InvalidateBlocks(r)
    <3>1. r.second + LineSize - 1 < UIntMod /\ r \in [first : Nat, second : Nat]
      BY DEF NoWrap
    <3>2. a % LineSize \in Offsets /\ b + (a % LineSize) \in r.first .. r.second
      BY WordOfLine
    <3> HIDE DEF r, s, g
    <3> QED
      BY <2>3, <3>1, <3>2, InvalidateBlocksCover
  <2>5. SetIndex(b) = s /\ TagOf(b) = g
    BY <2>3, FieldsOfLineAddress
  <2>6. ASSUME old # 0
        PROVE  ~ valid'[s][0]
    <3>1. 0 \in TaggedWays(s, g) /\ TaggedWays(s, g) \subseteq Ways
      BY <2>2, <2>3, <2>6 DEF LinesHold, Caches, TaggedWays
    <3>2. Min(TaggedWays(s, g)) = 0
      BY <3>1, FirstWay
    <3> HIDE DEF r, s, g, b
    <3> QED
      BY <1>3, <2>2, <2>3, <2>4, <2>5, <3>1, <3>2 DEF InvalidateLines
  <2>7. \A x \in Sets, w \in Ways : valid'[x][w] => valid[x][w]
    BY <1>3 DEF InvalidateLines
  <2>8. \A x \in Sets, w \in Ways : ~ valid'[x][w]
    BY <2>2, <2>6, <2>7 DEF LinesHold, Caches
  <2>9. LinesHold(a, 0)'
    BY <2>1, <2>2, <2>8 DEF LinesHold, Caches
  <2> QED
    BY <2>1, <2>2, <2>9 DEF InvalidateProgress, fifos
<1>4. CASE InvalidatePut
  <2>1. /\ UNCHANGED <<valid, tag, data, page_table, req_fifo>>
        /\ pc["invalidate"] = "put" /\ pc'["invalidate"] = "get"
        /\ req_fifo["invalidate"] = NoMsg
    BY <1>1, <1>4 DEF InvalidatePut, Goto, lineVars, TypeOK, OnePerChannel
  <2> QED
    BY <2>1 DEF InvalidateProgress, LinesHold, Caches
<1> QED
  BY <1>2, <1>3, <1>4 DEF Invalidate

\* What a test of one slot has done to the cache, and has got for its reads.
OneSlotInv ==
    /\ ~ waiting => LinesHold(Slot, Held(step - 1))
    /\ waiting =>
          LET c == Script[step].channel
          IN  /\ c = "write" => WriteProgress(Slot, Held(step - 1), Held(step))
              /\ c = "read" => ReadProgress(Slot, Held(step))
              /\ c = "invalidate" => InvalidateProgress(Slot, Held(step - 1))
    /\ \A i \in 1 .. Len(Script) :
          i < step /\ Script[i].channel = "read" => read_data[i] = Held(i)

LEMMA OneSlotStart ==
    ASSUME test_name \in OneSlotTests, Init, step = 1, waiting = FALSE
    PROVE  OneSlotInv
<1>1. Held(step - 1) = 0 /\ Len(Script) \in Nat
  BY OneSlotScript DEF OneSlotTests, Held, Holdings
<1>2. LinesHold(Slot, 0)
  BY DEF Init, LinesHold, Caches
<1> QED
  BY <1>1, <1>2 DEF OneSlotInv

\* A thread without a request has no step.
LEMMA IdleThreads ==
    /\ ~ Outstanding("read") => ~ Read
    /\ ~ Outstanding("write") => ~ Write
    /\ ~ Outstanding("invalidate") => ~ Invalidate
    /\ ~ Outstanding("flush") => ~ Flush
<1>1. ASSUME NEW t, ~ Outstanding(t)
      PROVE  /\ ~ GetRequest(t) /\ ~ WaitForFlush(t) /\ ~ Start(t)
             /\ ~ WriteBackVictim(t) /\ ~ FillLine(t) /\ ~ PutResponse(t)
  BY <1>1 DEF Outstanding, GetRequest, WaitForFlush, Start, StartInternal, StartHit,
              StartThrough, StartBypass, StartFill, StartEvict, Miss, Enter, PassMutexes,
              WriteBackVictim, FillLine, PutResponse
<1>2. ~ Outstanding("read") => ~ Read
  BY <1>1 DEF Outstanding, Read, ReadDirect, ReadLine
<1>3. ~ Outstanding("write") => ~ Write
  BY <1>1 DEF Outstanding, Write, WriteDirect, WriteBackHit, WriteThroughHit,
     WriteThroughStore, WriteThroughMiss, WriteThroughAllocate, AllocatedWrite
<1>4. ~ Outstanding("invalidate") => ~ Invalidate
  BY DEF Outstanding, Invalidate, InvalidateGet, InvalidateLines, InvalidatePut
<1>5. ~ Outstanding("flush") => ~ Flush
  BY DEF Outstanding, Flush, FlushGet, FlushLines, FlushPut
<1> QED
  BY <1>2, <1>3, <1>4, <1>5

LEMMA SlotType == Slot \in Nat
  BY DEF Slot

\* The reads of a test are of the first unit of a word.
LEMMA SlotAligned ==
    ASSUME AlignedAddrs, test_name \in OneSlotTests, NEW i \in 1 .. Len(Script),
           Script[i].channel = "read"
    PROVE  ReadOffset(Slot) = WriteOffset(Slot)
<1>1. Script[i] = ReadOf(Slot, 11)
  <2>1. \/ Script[i] = WriteOf(Slot, Held(i))
        \/ Script[i] = ReadOf(Slot, 11)
        \/ Script[i] = InvalidationOf(Slot)
    BY OneSlotScript
  <2> QED
    BY <2>1 DEF WriteOf, InvalidationOf
<1>2. Script[i].msg \in Messages("read")
  BY ScriptMessages, Names
<1>3. Slot \in ClientAddrs
  BY <1>1, <1>2 DEF ReadOf, Messages
<1> QED
  BY <1>3, SlotType, OffsetsAgree DEF AlignedAddrs

LEMMA OneSlotPut ==
    ASSUME TypeOK, Turn, test_name \in OneSlotTests, ExecutePut, OneSlotInv
    PROVE  OneSlotInv'
<1>1. /\ step \in 1 .. Len(Script) /\ step' = step /\ waiting = FALSE /\ waiting' = TRUE
      /\ test_name' = test_name /\ read_data' = read_data
      /\ \A c \in Channels : ~ Outstanding(c)
  BY OneSlotScript DEF ExecutePut, Turn
<1>2. PICK a, old, new, n : a = Slot /\ old = Held(step - 1) /\ new = Held(step) /\ n = step
  OBVIOUS
<1>3. /\ Slot' = a /\ Held(step - 1)' = old /\ Held(step)' = new /\ Script' = Script
      /\ Script'[step'].channel = Script[step].channel
  BY <1>1, <1>2 DEF Slot, Held, Holdings, Script
<1>4. LinesHold(a, old)'
  <2>1. LinesHold(a, old)
    BY <1>1, <1>2 DEF OneSlotInv
  <2>2. UNCHANGED <<valid, tag, data, page_table>>
    BY DEF ExecutePut, ClientPut, lineVars
  <2> QED
    BY <2>1, <2>2 DEF LinesHold, Caches
<1>5. /\ {"read", "write", "invalidate"} \subseteq Channels
      /\ \A c \in Channels : pc'[c] = "get" /\ rsp_fifo'[c] = NoMsg
  BY <1>1 DEF ExecutePut, ClientPut, Outstanding, Channels, Requesters
<1>6. /\ Script[step].channel \in Channels
      /\ req_fifo'[Script[step].channel] = Script[step].msg
  BY <1>1, ScriptMessages, Names DEF ExecutePut, ClientPut, TypeOK
<1>7. \A i \in 1 .. Len(Script) : Held(i)' = Held(i)
  BY <1>1 DEF Held, Holdings
<1>8. CASE new # 0 /\ Script[step] = WriteOf(a, new)
  <2>1. /\ Script[step].channel = "write"
        /\ Script[step].msg = [addr |-> a, cache |-> 11, data |-> new]
    BY <1>8 DEF WriteOf
  <2>2. WriteProgress(a, old, new)'
    BY <1>4, <1>5, <1>6, <1>8, <2>1 DEF WriteProgress
  <2> QED
    BY <1>1, <1>3, <1>7, <2>1, <2>2 DEF OneSlotInv
<1>9. CASE new = old /\ Script[step] = ReadOf(a, 11)
  <2>1. Script[step].channel = "read" /\ Script[step].msg = ReadOf(a, 11).msg
    BY <1>9 DEF ReadOf
  <2>2. ReadProgress(a, new)'
    BY <1>4, <1>5, <1>6, <1>9, <2>1 DEF ReadProgress
  <2> QED
    BY <1>1, <1>3, <1>7, <2>1, <2>2 DEF OneSlotInv
<1>10. CASE new = 0 /\ Script[step] = InvalidationOf(a)
  <2>1. Script[step].channel = "invalidate" /\ Script[step].msg = [first |-> a, second |-> a]
    BY <1>10 DEF InvalidationOf
  <2>2. InvalidateProgress(a, old)'
    BY <1>4, <1>5, <1>6, <1>10, <2>1 DEF InvalidateProgress
  <2> QED
    BY <1>1, <1>3, <1>7, <2>1, <2>2 DEF OneSlotInv
<1> QED
  BY <1>1, <1>2, <1>8, <1>9, <1>10, OneSlotScript

LEMMA OneSlotGet ==
    ASSUME TypeOK, Turn, test_name \in OneSlotTests, ExecuteGet, OneSlotInv,
           DOMAIN read_data = 1 .. 8
    PROVE  OneSlotInv'
<1>1. /\ step \in 1 .. Len(Script) /\ step' = step + 1 /\ waiting = TRUE /\ waiting' = FALSE
      /\ test_name' = test_name /\ Len(Script) \in 2 .. 3
  BY OneSlotScript DEF ExecuteGet, Turn
<1>2. PICK a, new : a = Slot /\ new = Held(step)
  OBVIOUS
<1>3. Slot' = a /\ Held(step - 1)' = new /\ Script' = Script
  <2>1. step' - 1 = step
    BY <1>1
  <2> QED
    BY <1>1, <1>2, <2>1 DEF Slot, Held, Holdings, Script
<1>4. \/ new # 0 /\ Script[step] = WriteOf(a, new)
      \/ new = Held(step - 1) /\ Script[step] = ReadOf(a, 11)
      \/ new = 0 /\ Script[step] = InvalidationOf(a)
  BY <1>1, <1>2, OneSlotScript
<1>5. rsp_fifo[Script[step].channel] # NoMsg
  BY DEF ExecuteGet, ClientGet
<1>6. /\ LinesHold(a, new)
      /\ Script[step].channel = "read" => rsp_fifo["read"].data = new
  <2>1. CASE new # 0 /\ Script[step] = WriteOf(a, new)
    <3>1. Script[step].channel = "write"
      BY <2>1 DEF WriteOf
    <3> QED
      BY <1>1, <1>2, <1>5, <3>1 DEF OneSlotInv, WriteProgress
  <2>2. CASE new = Held(step - 1) /\ Script[step] = ReadOf(a, 11)
    <3>1. Script[step].channel = "read"
      BY <2>2 DEF ReadOf
    <3> QED
      BY <1>1, <1>2, <1>5, <3>1 DEF OneSlotInv, ReadProgress
  <2>3. CASE new = 0 /\ Script[step] = InvalidationOf(a)
    <3>1. Script[step].channel = "invalidate"
      BY <2>3 DEF InvalidationOf
    <3> QED
      BY <1>1, <1>2, <1>5, <2>3, <3>1 DEF OneSlotInv, InvalidateProgress
  <2> QED
    BY <1>4, <2>1, <2>2, <2>3
<1>7. LinesHold(a, new)'
  <2>1. UNCHANGED <<valid, tag, data, page_table>>
    BY DEF ExecuteGet, ClientGet, lineVars
  <2> QED
    BY <1>6, <2>1 DEF LinesHold, Caches
<1>8. ASSUME NEW i \in 1 .. Len(Script), i < step', Script[i].channel = "read"
      PROVE  read_data'[i] = Held(i)
  <2>1. i \in 1 .. 8 /\ step \in 1 .. 8
    <3>1. PICK n \in 2 .. 3 : n = Len(Script)
      BY <1>1
    <3>2. i \in 1 .. n /\ step \in 1 .. n
      BY <1>1, <1>8, <3>1
    <3> QED
      BY <3>1, <3>2
  <2>2. CASE i = step
    BY <1>2, <1>6, <1>8, <2>1, <2>2 DEF ExecuteGet
  <2>3. CASE i # step
    <3>1. i < step
      BY <1>1, <1>8, <2>3
    <3>2. read_data[i] = Held(i)
      BY <1>8, <3>1 DEF OneSlotInv
    <3> QED
      BY <2>1, <2>3, <3>2 DEF ExecuteGet
  <2> QED
    BY <2>2, <2>3
<1>9. \A i \in 1 .. Len(Script) : Held(i)' = Held(i)
  BY <1>1 DEF Held, Holdings
<1> QED
  BY <1>1, <1>3, <1>7, <1>8, <1>9 DEF OneSlotInv

LEMMA OneSlotServe ==
    ASSUME AlignedAddrs, NoWrap, TypeOK, ClientRule, Turn, test_name \in OneSlotTests,
           Simulate, OneSlotInv
    PROVE  OneSlotInv'
<1>1. /\ UNCHANGED <<step, waiting, test_name, read_data>>
      /\ Read \/ Write \/ Invalidate \/ Flush
  BY DEF Simulate, programVars, Controller
<1>2. /\ waiting = TRUE /\ step \in 1 .. Len(Script)
      /\ \/ Script[step].channel = "read" /\ Read
         \/ Script[step].channel = "write" /\ Write
         \/ Script[step].channel = "invalidate" /\ Invalidate
         \/ Script[step].channel = "flush" /\ Flush
  BY <1>1, IdleThreads DEF Turn, Channels, Requesters
<1>3. PICK a, old, new : a = Slot /\ old = Held(step - 1) /\ new = Held(step)
  OBVIOUS
<1>4. /\ Slot' = a /\ Held(step - 1)' = old /\ Held(step)' = new /\ Script' = Script
      /\ Script'[step'].channel = Script[step].channel
      /\ \A i \in 1 .. Len(Script) : Held(i)' = Held(i)
  BY <1>1, <1>3 DEF Slot, Held, Holdings, Script
<1>5. \/ new # 0 /\ Script[step] = WriteOf(a, new)
      \/ new = old /\ Script[step] = ReadOf(a, 11)
      \/ new = 0 /\ Script[step] = InvalidationOf(a)
  BY <1>2, <1>3, OneSlotScript
<1>6. a \in Nat /\ OnePerChannel
  BY <1>3, SlotType DEF ClientRule
<1>7. CASE new # 0 /\ Script[step] = WriteOf(a, new)
  <2>1. Write /\ WriteProgress(a, old, new)
    BY <1>2, <1>3, <1>7 DEF OneSlotInv, WriteOf
  <2>2. WriteProgress(a, old, new)'
    BY <1>6, <1>7, <2>1, WriteRuns
  <2> QED
    BY <1>1, <1>2, <1>4, <1>7, <2>2 DEF OneSlotInv, WriteOf
<1>8. CASE new = old /\ Script[step] = ReadOf(a, 11)
  <2>1. Read /\ ReadProgress(a, new)
    BY <1>2, <1>3, <1>8 DEF OneSlotInv, ReadOf
  <2>2. ReadOffset(a) = WriteOffset(a)
    BY <1>2, <1>3, <1>8, SlotAligned DEF ReadOf
  <2>3. ReadProgress(a, new)'
    BY <1>6, <2>1, <2>2, ReadRuns
  <2> QED
    BY <1>1, <1>2, <1>4, <1>8, <2>3 DEF OneSlotInv, ReadOf
<1>9. CASE new = 0 /\ Script[step] = InvalidationOf(a)
  <2>1. Invalidate /\ InvalidateProgress(a, old)
    BY <1>2, <1>3, <1>9 DEF OneSlotInv, InvalidationOf
  <2>2. [first |-> a, second |-> a] \in InvalidateRanges
    <3>1. Script[step].msg \in Messages("invalidate")
      BY <1>2, <1>9, ScriptMessages, Names DEF InvalidationOf
    <3> QED
      BY <1>9, <3>1 DEF Messages, InvalidationOf
  <2>3. InvalidateProgress(a, old)'
    BY <1>6, <2>1, <2>2, InvalidateRuns
  <2> QED
    BY <1>1, <1>2, <1>4, <1>9, <2>3 DEF OneSlotInv, InvalidationOf
<1> QED
  BY <1>5, <1>7, <1>8, <1>9

LEMMA OneSlotStep ==
    ASSUME AlignedAddrs, NoWrap, TypeOK, ClientRule, Turn, test_name \in OneSlotTests,
           Execute, DOMAIN read_data = 1 .. 8, OneSlotInv
    PROVE  OneSlotInv'
  BY OneSlotPut, OneSlotGet, OneSlotServe DEF Execute

LEMMA OneSlotVerdict ==
    ASSUME test_name \in OneSlotTests, OneSlotInv, step > Len(Script), step \in Nat
    PROVE  Verdict = {"passed"}
<1>1. \A i \in 1 .. Len(Script) : Script[i].channel = "read" => read_data[i] = Held(i)
  <2>1. PICK n \in 2 .. 3 : n = Len(Script)
    BY OneSlotScript
  <2>2. \A i \in 1 .. n : i < step
    BY <2>1
  <2> QED
    BY <2>1, <2>2 DEF OneSlotInv
<1>2. CASE test_name = "cache_consistency_check"
  <2>1. Script = <<WriteOf(2, 1), ReadOf(2, 11)>> /\ Held(2) = 1
    BY <1>2 DEF Script, Scripts, ConsistencyCheck, Held, Holdings
  <2>2. /\ Len(Script) = 2
        /\ Script[1].channel = "write" /\ Script[1].msg.addr = 2 /\ Script[1].msg.data = 1
        /\ Script[2].channel = "read" /\ Script[2].msg.addr = 2
    BY <2>1 DEF WriteOf, ReadOf
  <2>3. Written(2) = 1
    <3>1. {j \in 1 .. 2 - 1 : /\ Script[j].channel = "write"
                               /\ Script[j].msg.addr = Script[2].msg.addr} = {1}
      BY <2>2
    <3>2. Max({1}) = 1
      BY DEF Max
    <3> QED
      BY <2>2, <3>1, <3>2 DEF Written
  <2>4. AllMatch
    <3> SUFFICES ASSUME NEW i \in 1 .. 2, Script[i].channel = "read"
                 PROVE  read_data[i] = Written(i)
      BY <2>2 DEF AllMatch
    <3>1. i = 2
      BY <2>2
    <3> QED
      BY <1>1, <2>1, <2>2, <2>3, <3>1
  <2> QED
    BY <1>2, <2>4 DEF Verdict
<1>3. CASE test_name = "cache_overwrite_check"
  <2>1. Script = <<WriteOf(4, 1), WriteOf(4, 2), ReadOf(4, 11)>> /\ Held(3) = 2
    BY <1>3 DEF Script, Scripts, OverwriteCheck, Held, Holdings
  <2>2. /\ Len(Script) = 3
        /\ Script[1].channel = "write" /\ Script[1].msg.addr = 4
        /\ Script[2].channel = "write" /\ Script[2].msg.addr = 4 /\ Script[2].msg.data = 2
        /\ Script[3].channel = "read" /\ Script[3].msg.addr = 4
    BY <2>1 DEF WriteOf, ReadOf
  <2>3. Written(3) = 2
    <3>1. {j \in 1 .. 3 - 1 : /\ Script[j].channel = "write"
                               /\ Script[j].msg.addr = Script[3].msg.addr} = {1, 2}
      BY <2>2
    <3>2. Max({1, 2}) = 2
      BY DEF Max
    <3> QED
      BY <2>2, <3>1, <3>2 DEF Written
  <2>4. AllMatch
    <3> SUFFICES ASSUME NEW i \in 1 .. 3, Script[i].channel = "read"
                 PROVE  read_data[i] = Written(i)
      BY <2>2 DEF AllMatch
    <3>1. i = 3
      BY <2>2
    <3> QED
      BY <1>1, <2>1, <2>2, <2>3, <3>1
  <2> QED
    BY <1>3, <2>4 DEF Verdict
<1>4. CASE test_name = "cache_invalidation_check"
  <2>1. Script = <<WriteOf(5, 1), InvalidationOf(5), ReadOf(5, 11)>> /\ Held(3) = 0
    BY <1>4 DEF Script, Scripts, InvalidationCheck, Held, Holdings
  <2>2. /\ Len(Script) = 3
        /\ Script[1].channel = "write" /\ Script[1].msg.addr = 5 /\ Script[1].msg.data = 1
        /\ Script[2].channel = "invalidate"
        /\ Script[3].channel = "read" /\ Script[3].msg.addr = 5
    BY <2>1 DEF WriteOf, InvalidationOf, ReadOf
  <2>3. Written(3) = 1
    <3>1. {j \in 1 .. 3 - 1 : /\ Script[j].channel = "write"
                               /\ Script[j].msg.addr = Script[3].msg.addr} = {1}
      BY <2>2
    <3>2. Max({1}) = 1
      BY DEF Max
    <3> QED
      BY <2>2, <3>1, <3>2 DEF Written
  <2>4. ~ AllMatch
    <3>1. read_data[3] = 0
      BY <1>1, <2>1, <2>2
    <3> QED
      BY <2>2, <2>3, <3>1 DEF AllMatch
  <2> QED
    BY <1>4, <2>4 DEF Verdict
<1> QED
  BY <1>2, <1>3, <1>4 DEF OneSlotTests

-----------------------------------------------------------------------------
(***************************************************************************)
(* The program.                                                            *)
(***************************************************************************)

\* Before main, the tests register and nothing else happens.
StaticInv ==
    /\ Init
    /\ registered \subseteq TestNames /\ factory_map = registered
    /\ step = 1 /\ waiting = FALSE
    /\ read_data = [i \in 1 .. 8 |-> 0]

\* What holds while execute() runs.
SimulatingInv ==
    /\ test_name \in TestNames
    /\ TypeOK /\ ClientRule /\ Turn
    /\ DOMAIN read_data = 1 .. 8
    /\ test_name \in FourSlotTests => FourSlotInv
    /\ test_name \in OneSlotTests => OneSlotInv

ProgramInv ==
    /\ stage \in {"static", "simulating", "exited"}
    /\ stage = "static" => StaticInv
    /\ stage = "simulating" => SimulatingInv
    /\ stage = "exited" => ~ waiting
    /\ Outcome

LEMMA ProgramInit == TestInit => ProgramInv
  BY DEF TestInit, ProgramInv, StaticInv, Outcome

\* The simulation starts as the tests expect.
LEMMA SimulationStart ==
    ASSUME StaticInv, test_name \in TestNames
    PROVE  SimulatingInv
<1>1. TypeOK /\ ClientRule
  BY TypeInit, RuleInit DEF StaticInv
<1>2. Turn
  <2>1. \A c \in Channels : ~ Outstanding(c)
    BY DEF StaticInv, Init, Outstanding
  <2>2. "read" \in Channels
    BY DEF Channels, Requesters
  <2>3. step \in 1 .. Len(Script) + 1
    <3>1. PICK n \in Nat : n = Len(Script)
      BY LenScript
    <3> QED
      BY <3>1 DEF StaticInv
  <2> QED
    BY <2>1, <2>2, <2>3 DEF StaticInv, Turn
<1>3. DOMAIN read_data = 1 .. 8
  BY DEF StaticInv
<1>4. test_name \in FourSlotTests => FourSlotInv
  BY FourSlotStart DEF StaticInv
<1>5. test_name \in OneSlotTests => OneSlotInv
  BY OneSlotStart DEF StaticInv
<1> QED
  BY <1>1, <1>2, <1>3, <1>4, <1>5 DEF SimulatingInv

\* ... and does not change before execute() does.
LEMMA SimulationKept ==
    ASSUME AlignedAddrs, SimulatingInv, UNCHANGED <<vars, test_name, step, waiting, read_data>>
    PROVE  SimulatingInv'
<1>1. TypeOK' /\ ClientRule'
  <2>1. [DisjointNext]_vars
    OBVIOUS
  <2> QED
    BY <2>1, DisjointSteps, TypeStep, RuleStep DEF SimulatingInv
<1>2. UNCHANGED <<test_name, step, waiting, read_data, valid, tag, data, ongoing_requests,
                  page_table, pc, gp, way, req_fifo, rsp_fifo>>
  BY DEF vars, lineVars, locals, fifos
<1>3. Turn'
  BY <1>2 DEF SimulatingInv, Turn, Outstanding, Request, Script
<1>4. test_name \in FourSlotTests => FourSlotInv'
  <2>1. UNCHANGED Safe!seqVars
    BY <1>2 DEF vars, lineVars, mutexes, locals, fifos, Safe!seqVars, Safe!vars, Safe!lineVars,
       Safe!mutexes, Safe!locals, Safe!fifos, Expected, Asked, Base
  <2>2. test_name \in FourSlotTests => Safe!ReadBackInv'
    BY <2>1, FourSlotsAreServed, SafeAssumptionsHold, Safe!ReadBackStep
    DEF SafeAssumptions, SimulatingInv, FourSlotInv
  <2> QED
    BY <1>2, <2>2 DEF SimulatingInv, FourSlotInv
<1>5. test_name \in OneSlotTests => OneSlotInv'
  BY <1>2 DEF SimulatingInv, OneSlotInv, Slot, Held, Holdings, Script, LinesHold, Caches,
     WriteProgress, ReadProgress, InvalidateProgress, Live, Key, SetOf, Addr
<1> QED
  BY <1>1, <1>2, <1>3, <1>4, <1>5 DEF SimulatingInv

LEMMA SimulationStep ==
    ASSUME AlignedAddrs, NoWrap, SimulatingInv, Execute
    PROVE  SimulatingInv'
<1>1. Turn' /\ test_name' = test_name
  BY TurnStep DEF SimulatingInv
<1>2. TypeOK' /\ ClientRule'
  <2>1. [DisjointNext]_vars
    BY ExecuteIsDisjoint DEF SimulatingInv
  <2> QED
    BY <2>1, DisjointSteps, TypeStep, RuleStep DEF SimulatingInv
<1>3. DOMAIN read_data' = 1 .. 8
  BY DEF Execute, ExecutePut, ExecuteGet, Simulate, programVars, SimulatingInv
<1>4. test_name \in FourSlotTests => FourSlotInv'
  BY FourSlotStep DEF SimulatingInv
<1>5. test_name \in OneSlotTests => OneSlotInv'
  BY OneSlotStep DEF SimulatingInv
<1> QED
  BY <1>1, <1>2, <1>3, <1>4, <1>5 DEF SimulatingInv

\* No test keeps what it reports from the verdict.
LEMMA SimulationEnd ==
    ASSUME SimulatingInv, ExecuteEnd
    PROVE  /\ reports' = {"passed"} /\ test_name' = test_name /\ test_name \in TestNames
           /\ ~ waiting /\ waiting' = waiting
<1>1. step \in Nat /\ step > Len(Script) /\ ~ waiting
  <2>1. PICK n \in Nat : n = Len(Script)
    BY LenScript DEF SimulatingInv
  <2> QED
    BY <2>1 DEF SimulatingInv, Turn, ExecuteEnd
<1>2. Verdict = {"passed"}
  BY <1>1, Names, FourSlotVerdict, OneSlotVerdict DEF SimulatingInv
<1> QED
  BY <1>1, <1>2 DEF SimulatingInv, ExecuteEnd

LEMMA ProgramStep ==
    ASSUME AlignedAddrs, NoWrap, ProgramInv, [TestNext]_testVars
    PROVE  ProgramInv'
<1>1. ASSUME NEW name \in TestNames, RegisterTest(name)
      PROVE  ProgramInv'
  <2>1. /\ stage = "static" /\ stage' = "static"
        /\ registered' = registered \union {name} /\ factory_map' = factory_map \union {name}
        /\ UNCHANGED <<vars, step, waiting, read_data>>
    BY <1>1 DEF RegisterTest, GetFactoryMap
  <2>2. StaticInv'
    BY <2>1 DEF ProgramInv, StaticInv, Init, vars, lineVars, mutexes, locals, fifos
  <2> QED
    BY <2>1, <2>2 DEF ProgramInv, Outcome
<1>2. CASE Main
  <2>1. /\ stage = "static" /\ StaticInv /\ registered = TestNames /\ factory_map = TestNames
        /\ UNCHANGED <<vars, test_name, step, waiting, read_data>>
    BY <1>2 DEF Main, ProgramInv, StaticInv
  <2>2. CASE test_name \in TestNames
    <3>1. stage' = "simulating"
      BY <1>2, <2>1, <2>2 DEF Main, Creates, GetFactoryMap
    <3>2. SimulatingInv'
      BY <2>1, <2>2, SimulationStart, SimulationKept
    <3> QED
      BY <3>1, <3>2 DEF ProgramInv, Outcome
  <2>3. CASE test_name \notin TestNames
    BY <1>2, <2>1, <2>3 DEF Main, Creates, GetFactoryMap, StaticInv, ProgramInv, Outcome
  <2> QED
    BY <2>2, <2>3
<1>3. CASE Execute
  <2>1. stage = "simulating" /\ stage' = stage
    BY <1>3 DEF Execute, ExecutePut, ExecuteGet, Simulate, programVars, ProgramInv, StaticInv
  <2> QED
    BY <1>3, <2>1, SimulationStep DEF ProgramInv, Outcome
<1>4. CASE ExecuteEnd
  <2>1. stage = "simulating" /\ stage' = "exited"
    BY <1>4 DEF ExecuteEnd
  <2> QED
    BY <1>4, <2>1, SimulationEnd DEF ProgramInv, Outcome
<1>5. CASE UNCHANGED testVars
  <2>1. UNCHANGED <<vars, test_name, registered, factory_map, stage, step, waiting,
                    read_data, reports>>
    BY <1>5 DEF testVars, programVars
  <2>2. StaticInv => StaticInv'
    BY <2>1 DEF StaticInv, Init, vars, lineVars, mutexes, locals, fifos
  <2>3. SimulatingInv => SimulatingInv'
    BY <2>1, SimulationKept
  <2>4. Outcome => Outcome'
    BY <2>1 DEF Outcome
  <2> QED
    BY <2>1, <2>2, <2>3, <2>4 DEF ProgramInv
<1> QED
  BY <1>1, <1>2, <1>3, <1>4, <1>5 DEF TestNext, Execute

\* Whatever the size of the cache, of its lines and of the memory's pages, however
\* the threads' waits end, and in whatever order the tests have registered: a program
\* that is given the name of a test reports that it passed and nothing else, and one
\* that is given another name reports an error.  The slots lie where reads and writes
\* agree on the place of a word, and the end of the invalidated range fits in 32 bits.
THEOREM TestsPass ==
    ASSUME AlignedAddrs, NoWrap
    PROVE  TestSpec => []Outcome
<1>1. ProgramInv /\ [TestNext]_testVars => ProgramInv'
  BY ProgramStep
<1>2. ProgramInv => Outcome
  BY DEF ProgramInv
<1> QED
  BY ProgramInit, <1>1, <1>2, PTL DEF TestSpec

=============================================================================
