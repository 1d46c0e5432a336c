# A SystemC cache model: TLA+ specifications, TLC runs and TLAPS proofs

The program under `src/sc_cache_model/` is a SystemC/TLM model of a
set-associative cache in front of a main memory, with a handful of test
programs that drive it. This directory holds TLA+ modules of its core, the TLC
configurations that check them and the proofs that hold for every geometry of
the cache and the memory.

## 1. The system

### Components

| component | state | operations |
|---|---|---|
| `cache_controller` | `lru_lists`, `ongoing_requests`, `invalidate_mutex`, `flush_mutex`, eight `tlm_fifo`s of one slot | four `SC_THREAD`s: `read`, `write`, `invalidate`, `flush`, each a loop *get a request, handle it, put the response* |
| `cache_memory`, `cache_line` | per set and way: `valid`, `dirty`, `tag`, `data` | `read_word`, `write_word` (both wait first), getters and setters |
| `main_memory` | pages of 4096 bytes, allocated on first write | `read_b_transport`, `write_b_transport` (both wait first, then access) |
| `cache_optional_fields_extension` | `cache`, four bits on each request | decoded into a write policy and an allocation policy |
| tests (`sc_cache_tests`) | the data they wrote, the data they read | put one request, get its response, put the next; compare and report at the end |
| `test_factory` | a map from names to constructors, filled by static initialisers | `register_test`, `create` |
| `source.cpp` | none | `sc_main`: create the named test, run the simulation |
| `testbench`, `base_test`, utilities, Makefile | none at run time | construction, command line |

### How they interact

A client puts a request into one of the controller's four request fifos and
gets the answer from the matching response fifo. Each of the four threads takes
one request at a time. The read and the write thread pass `invalidate_mutex`
and `flush_mutex` (lock and unlock at once) before they handle a request; the
invalidate thread holds the first, the flush thread the second, from the get to
the put. Requests in flight are marked in `ongoing_requests[set][tag]`: an
invalidation sets the mark to `false` so that the fill that follows does not
validate its line, and a flush loops until no mark is `true`.

SystemC threads are coroutines: a thread runs until it waits. The waits are
the delays in front of every line and memory access, the mutexes, and the
fifos. What happens between two waits is atomic; what happens across one is
where every hard behaviour of this program is:

- a hit test, a choice of a way or of a victim is made before a wait and used
  after it, while the other threads run (`cache_controller.cpp` 252-256,
  332-335, 347-364);
- the read and the write thread share the marks of one key, and the key is 32
  bits of a 64-bit tag (lines 165, 244, 383; `cache_parameters.h` 83);
- a write-through miss looks at the cache before its store and not after it
  (143-145, 294);
- a flush loops without waiting (575-591), so whoever could end the loop never
  runs again;
- a cancelled request goes on to fill its line after the flush or the
  invalidation that cancelled it;
- addresses are rounded, the end of a range in 32 bits (43-45), the place of a
  read in its line, but not that of a write, to a word (177, 95);
- the threads compete for two mutexes with invalidations and flushes that may
  come in any number (513-517, 531-535).

`PROJECT.json` lists them one by one under `hazards`, with the properties that
cover each, or the reason none does (see also "What no property covers" below).

### What makes each component correct

- **Data path** (read and write threads, lines, memory): a read returns the
  last value written, wherever evictions, write-backs and write-throughs put it
  (`ReadBack`); with concurrent clients reads and writes are atomic accesses to
  one memory (`LinearizesMemory`), and a block has one valid copy (`OneCopy`).
- **Replacement**: the LRU list of a set always holds each way once
  (`LruIsPermutation`); only the least recently requested block of a full set is
  replaced (`ReplacesLeastRecent`); the address an eviction writes to is the
  block's own (`LineAddressOfFields`).
- **Main memory**: the page table is one flat array, whatever pages exist
  (`WriteThenRead`, `ReadInPage`), and no line crosses a page
  (`BlocksStayInPage`).
- **Ongoing requests**: an entry never outlives its request (`OngoingOwned`).
- **Invalidate**: no line of the range is valid at the answer
  (`InvalidateCovers`), no line outside is touched if the last address of
  the range starts a line (`InvalidateSpares`), no stale tag shields a line
  (`NotShadowed`).
- **Flush**: no live request and no valid line at the answer
  (`FlushSeesNoLiveRequest`, `FlushLeavesCacheEmpty`, `NoFillDuringFlush`); only
  a request in flight can catch the loop (`SpinsOnlyOnRequest`).
- **All threads**: every request is answered (`Answered`), and with concurrent
  clients too, unless a flush loop has caught a live request
  (`AnsweredUnlessSpinning`).
- **Tests and program entry**: every test ends and reports that it passed, and
  nothing else (`Completes`, `Outcome`), and it reports that only if its data
  matched (`PassedMeansMatched`, violated).

## 2. The modules

```
AddressMap
    |
MainMemory     CacheAttributes            pure operators
      \          /
     CacheController                      the four threads, the lines
      |         |       |         |
      |  DisjointClient |    TestPrograms the five tests, registration, sc_main
      |         |       |
      |   AtomicMemory  MCAnyClient
      |   (INSTANCE: what is implemented)
SequentialClient                          one request at a time
      |        |
RecencyClient  OverlappingClient          with a history; a reader and a writer
```

The theorems are in modules of their own, each of which extends the module it
is about and the proofs it cites:

```
       MainMemoryProofs                   the pure operators: addresses, page table
               |
      CacheControllerProofs               any client: types, LRU lists, flush
               |
      DisjointClientProofs                the client's rule; tags and copies
         |            |
   CoherenceProofs    |                   lines against memory
         |            |
 LinearizabilityProofs|                   the refinement of AtomicMemory
         |            |
SequentialClientProofs|                   one request at a time: invalidation, data
         |        \   |
         |   TestProgramsProofs           the five tests pass
         |
RecencyClientProofs                       replacement
```

`TestProgramsProofs` extends `DisjointClientProofs` and takes
`SequentialClientProofs` as an INSTANCE, with the constants and the `expected` of
the two tests that read back what they wrote.

- **AddressMap**: block address, set and tag of an address, the offsets at which
  a read and a write look in the line, the address of a line, the blocks an
  invalidation visits. The unit of an address is what one request transfers.
  `UIntMod` is 2^32 in the build.
- **MainMemory**: the page table as a partial function from page numbers to
  pages. Reading a missing page gives zeros, writing to one makes it.
- **CacheAttributes**: the write policy and the allocation policies of the four
  attribute bits.
- **CacheController**: the component. `pc[c]` names the wait that thread `c` is
  in, `gp[c]` its request, `way[t]` and `victim[t]` the locals that live across a
  wait. Each action is what the code does from the end of one wait to the next:

  | wait (`pc`) | in the code | actions that end it |
  |---|---|---|
  | `get` | request fifo empty | `GetRequest`, `InvalidateGet`, `FlushGet` |
  | `invalidate_mutex`, `flush_mutex` | mutex taken | `WaitForFlush`, `Start...` |
  | `hit` | `read_word`, `write_word` after a hit | `ReadLine`, `WriteBackHit`, `WriteThroughHit` |
  | `store` | memory write of a write-through hit | `WriteThroughStore` |
  | `through` | memory write of a write-through miss | `WriteThroughMiss`, `WriteThroughAllocate` |
  | `direct` | memory access that bypasses the cache | `ReadDirect`, `WriteDirect` |
  | `evict` | memory write of a victim | `WriteBackVictim` |
  | `fill` | memory read of a block | `FillLine` |
  | `access` | `read_word`, `write_word` after a fill | `ReadLine`, `AllocatedWrite` |
  | `delay` | the delay of an invalidation or a flush | `InvalidateLines`, `FlushLines` |
  | `put` | response fifo full | `PutResponse`, `InvalidatePut`, `FlushPut` |
  | `spin` | no wait at all: the flush loop | `FlushSpin`; nothing else is enabled |

  `ongoing_requests` distinguishes a missing entry from `false`, because
  `operator[]` inserts and `find` does not. A handler's branch is chosen in
  `Start`, from the hit test to the first wait. The module ends with the
  conditions on clients under which data is kept (`SafeAttributes`,
  `AlignedAddrs`, `NoInternal`, `NoWrap`), which the theorems assume.
- **SequentialClient**: the protocol of the repository's tests, one request at
  a time. `expected` is the data the test keeps to compare with.
- **RecencyClient**: a sequential client with a history variable, the relation
  `newer` on the blocks it used, to compare the replacement with. It stands for
  no code: the controller keeps no such record, `lru_lists` is updated by each
  handler on its own.
- **DisjointClient**: concurrent clients, one request at a time per channel,
  that never have a read and a write of one set outstanding together. That rule
  (`Disjoint`) is the specification's, as is the one of the next module: no code
  enforces either, so `PROJECT.json` maps them to none. The refinement mapping to **AtomicMemory** is `View` (a word is in its valid line,
  or else in memory) and `PortOf`.
- **OverlappingClient**: a reader and a writer that only keep off each other's
  address, so that each read has one right answer. It exists for a violation: the
  rule of `DisjointClient` is needed.
- **TestPrograms**: the program as it is run. Static initialisers register the
  five tests in any order, `Main` is `sc_main`, and each test is the sequence of
  its requests (`Scripts`), put and got one by one (`ExecutePut`, `ExecuteGet`),
  with the comparison and the report at the end (`Verdict`, `ExecuteEnd`). The
  unit is 16 bytes, the distance of the tests' entries; a string is one value.
  `SC_REPORT_ERROR` throws by SystemC's default, which ends the program.
- **MCAnyClient, MCSequentialClient, MCRecencyClient, MCDisjointClient,
  MCOverlappingClient, MCTestPrograms**: values for TLC. `MCDisjointClient` and
  `MCRecencyClient` assume, under the name `ClientsAreServed`, the conditions of
  the theorems that state the properties of their runs, so that TLC evaluates
  them on those clients.

Operators whose comment begins "A faulty ..." are used by no specification:
they are the plausible bugs that `PROJECT.json` pairs with each property, to see
that the property notices.

### Modelling decisions

- **Delays** are run-time parameters, so their length is left out and pending
  waits end in any order. `cache_flush_delay` is never assigned by
  `source.cpp`; any value it may have is covered by this.
- **Two extra interleaving points**: between the get and a free mutex, and
  between the end of a handler and the put, the code does not wait but the model
  lets other threads run. The model has all behaviours of the code and a few
  more; no property fails because of them.
- **Data** is one unit of the address space per request, inside one line.
- **Lines** lie in one page: the line size divides the page size
  (`PageSizeAssumption`), as every power of two up to 4096 does. For another
  line size the code reads past the end of a vector, which has no meaning to
  model.
- **A cache has a set**: `CACHE_SIZE` is at least one set of lines
  (`NumSetsAssumption`); otherwise the code divides by zero.
- **Left out**: logging (`print_cache`, informational reports of the controller),
  the construction of payloads.

## 3. The runs

| run | module | shows |
|---|---|---|
| `any_client` | MCAnyClient | under any client: types, ownership of ongoing entries, flush against requests in flight and their fills |
| `sequential_any_attributes` | MCSequentialClient | invalidation removes what it should and no more; every request is answered |
| `sequential_write_back` | MCRecencyClient | reads return the last value written, through evictions, words and pages; replacement is least recently used |
| `disjoint_write_back` | MCDisjointClient | the controller implements AtomicMemory, with evictions; LRU lists of concurrent requests |
| `disjoint_write_through` | MCDisjointClient | the same with invalidations and flushes; nobody starves at a mutex |
| `test_programs` | MCTestPrograms | the five tests end and pass in a cache of one line; an unknown name is an error |
| `read_no_allocate` | MCSequentialClient | *violation of ReadBack*, finding 1 |
| `write_through_allocate` | MCSequentialClient | *violation of ReadBack*, finding 2 |
| `invalidate_last_block` | MCSequentialClient | *violation of InvalidateCovers*, finding 3 |
| `wide_words` | MCTestPrograms | *violation of PassedMeansMatched*, finding 4 |
| `same_set_misses` | MCOverlappingClient | *violation of ReadBack*, finding 5 |
| `dirty_victim` | MCSequentialClient | *violation of ReadBack*, finding 6 |

Deadlock is checked in every run but those of TestPrograms, where the program
really ends; `Completes` says that it ends nowhere else.

**Bounds, and why they are enough.**
- `any_client`: one set of one way and two blocks that share a key
  (`KeyMod = 2`): every miss evicts, and two requests collide on one mark.
  Writes are write-back and write-through, both with allocation. `FewMessages`
  with `MaxMessages = 1` allows one full request fifo and one full response fifo
  at a time. It does not bound the threads: all four can be at work, and a thread
  can find its response fifo still full, though no two threads at once. Data
  plays no part in these properties, so there is one value.
- `sequential_*`: lines of two words, so that the word and its line differ; more
  blocks than ways in a set, so that evictions happen; attributes of every
  class that the decoding distinguishes (0 INTERNAL, 6 and 14 write-through
  without and with write allocation, 7 and 11 write-back with read or write
  allocation only). `sequential_write_back` has words of two units and two
  pages: the scaling of a read's offset and the making of a page both matter.
- `disjoint_*`: two sets, so that a read and a write can be in flight together;
  two ways and three blocks in set 0 with write-back; one way and one block per
  set with write-through, where a miss stores nothing and the interest is in
  invalidations and flushes; two values.
- `same_set_misses`: lines of one word, one set of two ways and two blocks, with
  reads and writes that are write-back and allocate: no eviction, and none of the
  other findings can be the cause.
- `test_programs`: one set of one way, where the eviction and the bulk test
  evict at every change of block. (With the default geometry of 128 sets of 4
  ways, their addresses lie in two or three blocks of different sets, and the
  eviction test evicts nothing.)

**Fairness.** In `SequentialClient`, `WF(Serve)`: the SystemC scheduler runs
every thread that is ready and every delay is finite; `WF(Get)`: a test calls
`get` right after `put`. Nothing obliges a test to put again. `Serve` is one
condition because a sequential client gives work to one thread at a time. It
includes `FlushSpin`: had the loop been caught, fairness would not help it out.
`TestPrograms` is sequential too, with one condition for the whole program.

`DisjointClient` has one condition per thread. The read and the write thread get
strong fairness, since a mutex they wait for is free again and again but may be
retaken. The code justifies it: `sc_mutex::unlock` notifies the waiting threads
immediately, so they run before time passes, and the invalidate or flush thread
goes back to a `get` on a fifo that is still empty, because its client puts the
next request only after it has taken the answer. A client that pipelines its
invalidations would take that away: then the thread finds its next request at
once, locks the mutex again before the readers run, and a stream of them starves
every reader.

**Attributes and data.** The data properties are checked for write-back and for
write-through clients apart, since mixing them on one set loses written data
(finding 6). `flush` and `invalidate` drop dirty lines (54-66, 76-81); the
invalidation test even requires that, so flushes and invalidations come with
data properties only under write-through.

### Findings

1. **A read that bypasses the cache returns the start of the block**
   (`cache_controller.cpp` 414-418, 211-215), whatever offset it asked for. The
   consistency and overwrite tests use exactly these attributes and pass
   because the line is still cached.
2. **Write-through allocation validates a line it has not fetched** (296-322).
   The rest of the line is the data of the line it replaced.
3. **Invalidating the last line of the 32-bit address space does nothing**
   (43-47): the rounded end wraps to zero.
4. **Reads round an address down to a word, writes do not** (177 and 95;
   `OffsetsAgree` proves exactly when the two meet). With `WORD_SIZE` at 32 the
   eviction and the bulk test read wrong data, report it, **and then report that
   they passed** (`cache_bulk_read_write_check.cpp` 68-74,
   `cache_eviction_check.cpp` 68-73).
5. **Two misses of one set take the same way** (332-335, 344-347): nothing
   reserves it until the block arrives, and a read that overlaps a write of
   another block returns that block's data.
6. **A write-through request drops a dirty victim** (349-351, and 313-322 in the
   same way): only a write-back request writes it back.
### What no property covers

These are in the model as they are in the code. No listed run shows them, and no
property that holds tells them apart: clients keep clear of them, or a property
makes the exception it names. The two in bold can be seen by giving
`same_set_misses.cfg` one way (`NumWays = 1`) and lines of two words
(`LineSize = 2`): TLC then finds `ReadBack` violated by the first with
`ReadAttrs = {6}` and `WriteAttrs = {6}`, by the second with `ReadAttrs = {11}` and
`WriteAttrs = {11}`.

- the victim of a write-back whose way is filled by another request before its
  data is read (347-364): it takes two misses of one set, which go wrong by
  finding 5 first;
- a read, during a write-through hit of the same word, after an invalidation or a
  flush has dropped the line and before the store to memory (256-261): `View`
  masks the old memory there, and the clients do not read that word meanwhile;
- the line after the range, which an invalidation takes along (47):
  `InvalidateSpares` carves it out;
- **a write-through miss that leaves a stale line** (294): a read of another word of
  the block, which fetches it between the hit test and the store of the write,
  makes a line valid that keeps the old word for good;
- **a read that finishes first and loses a write of the same block** (244, 383): it
  erases their common mark, `operator[]` inserts `false` for the write's fill, and
  the write goes into a line that never becomes valid;
- a flush that meets a live request and hangs the simulation (576):
  `AnsweredUnlessSpinning` carves it out;
- readers and writers starved by a client that pipelines its invalidations (513):
  the fairness of `DisjointClient` assumes clients that wait for each answer;
- dirty data dropped by a flush or an invalidation (54-66, 76-81).

## 4. The proofs

Every theorem holds for every number of sets and ways, every line, word and page
size and key width, every memory content, every set of addresses, attributes and
ranges that its hypotheses allow, and every client of the specification it
names.

| theorem | of | states | under |
|---|---|---|---|
| `TypeCorrect` | any client (`Spec`) | `TypeOK` | |
| `LruPermutation` | any client | `LruIsPermutation` | |
| `OngoingIsOwned` | any client | `OngoingOwned` | |
| `FlushSpinsOnRequest` | any client | `SpinsOnlyOnRequest` | |
| `FlushExcludesRequests` | any client | `FlushSeesNoLiveRequest` | |
| `FlushEmptiesCache` | any client | `FlushLeavesCacheEmpty` | |
| `FlushExcludesFills` | any client | `NoFillDuringFlush` | |
| `OneCopyOnly` | disjoint clients | `OneCopy` | |
| `CachesAreCoherent` | disjoint clients | lines against memory | `SafeAttributes` |
| `ControllerLinearizes` | disjoint clients | `LinearizesMemory` | `SafeAttributes`, `AlignedAddrs` |
| `SequentialIsDisjoint` | sequential client | it is a disjoint client | |
| `NothingShadowed` | sequential client | `NotShadowed` | |
| `InvalidationCovers` | sequential client | `InvalidateCovers` | `NoWrap` |
| `InvalidationSpares` | sequential client | `InvalidateSpares` | |
| `ReadsBack` | sequential client | `ReadBack` | `SafeAttributes`, `AlignedAddrs` |
| `RecencyReadsBack` | the client with the history | `ReadBack` | `SafeAttributes`, `AlignedAddrs` |
| `LeastRecentReplaced` | the client with the history | `ReplacesLeastRecent` | `NoInternal` |
| `TestsPass` | the program (`TestSpec`) | `Outcome` | `AlignedAddrs`, `NoWrap` |

### What is assumed

The assumptions named in `AddressMap`, `MainMemory` and `CacheController` say
that sizes are positive, that the page size is a multiple of the line size, that
zero is a value, that the constants have their types, and that an empty fifo can
be told from a message; the one of `TestPrograms` (`ScriptsAreRequests`), that the
requests of the tests are among those that the constants allow. TLC evaluates
them on the runs.

The hypotheses of the last column are what the code needs of its clients. Each
is there because the property fails without it, and a run shows how:

- `SafeAttributes` (at the end of `CacheController`): no INTERNAL request, reads
  allocate, writes are write-back, or write-through without allocation; and
  either all writes are write-through, or no line is invalidated or flushed and
  all reads are write-back. Without "reads allocate" see `read_no_allocate`
  (finding 1), with allocating write-through `write_through_allocate`
  (finding 2), with both policies `dirty_victim` (finding 6). An invalidation or
  a flush drops dirty lines, by design.
- `AlignedAddrs`: an address is the first of a word. See `wide_words`
  (finding 4).
- `NoWrap`: the rounded end of a range fits in 32 bits. See
  `invalidate_last_block` (finding 3).
- `NoInternal`: an INTERNAL request for a block that is cached goes to memory and
  leaves the LRU list alone, so "least recently requested" is not what the list
  records. (TLC finds `ReplacesLeastRecent` violated if INTERNAL attributes are
  added.)
- The rule of `DisjointClient`, that a read and a write of one set are not
  outstanding together. See `same_set_misses` (finding 5) and the two in bold under
  "What no property covers".

### The arguments

**Any client** (`CacheControllerProofs`). `TypeOK` is inductive by itself; its
conjunct "a thread that waits for a line knows which" is what makes every
`EXCEPT` land in a real way, and `BlocksStayInPage` what makes every fill a block
of values. `LruIsPermutation` needs the lemma that `MoveToFront` of a permutation
is a permutation. `OngoingOwned` is inductive with `TypeOK`: an action that
writes an entry is an action of a request that owns it and stays in flight, an
erasure removes the entry of the one key whose owner leaves, and when two
requests share a key the first to finish removes the entry of both. The flush
properties are not inductive alone. `FlushInv` joins them and adds that
`flush_mutex` is held exactly while the flush thread is past its get: the mutex
keeps new requests out, so what the loop saw stays true; a cancelled request
whose fill ends meanwhile finds its mark `false` or missing, `ProbeOngoing`
leaves `false`, and no line becomes valid.

**One copy** (`DisjointClientProofs`). `ClientRule` says what the client keeps
(one request per channel, the sets of a read and a write apart). `TagsInv` says
that no way in front of a valid line has its tag (`NoShadow`), and what a request
in flight has found out and must still be true when its wait ends (`Claims`): a
block that missed is in no valid line, and the way it is going to take is behind
no way with its tag. `NoShadow` gives `OneCopy`. That an invalidation looks at
tags without their valid bit, and that `AllocWay` takes the first invalid way,
both matter here: an invalidated line keeps its tag and may be in front.

**Coherence** (`CoherenceProofs`). `Coherent` says that a valid clean line equals
memory word for word, that with write-through clients no line is dirty
(`CoherentLine`), and for each wait what the thread holds (`CoherentThread`): a
request past its hit test still has its block in its line, a victim is written
to its own address, and at the fill the way's dirty data has been written back.
The step that carries it is that a request only touches lines of its own set,
and memory only in blocks of its own set (`FieldsIdentifyBlock`,
`LineAddressOfFields`, `WriteThenRead`), so the other request's claims stand.
`DisjointInv == TypeOK /\ ClientRule /\ TagsInv /\ Coherent` is inductive.

**Refinement** (`LinearizabilityProofs`). Under `DisjointInv` every step maps to
a step of `AtomicMemory` or a stutter. `View` changes only when a write is
performed, and then only at its address; a fill, an eviction, a write-back, an
invalidation and a flush leave it as it is, because what a line loses is in
memory and what it gains came from there. The answer of a read is `View` at its
address at the step that reads the line. `AlignedAddrs` enters by `OffsetsAgree`.

**Sequential client** (`SequentialClientProofs`). `SeqInv` adds that at most one
channel is busy (`OneBusy`), with which each step of the client is a step of a
disjoint client, so all of the above holds for it. `InvalidationCovers` is
`InvalidateBlocksCover` (with `NoWrap`, the blocks that are visited include the
block of every address of the range) with `NotShadowed`; `InvalidationSpares` is
`InvalidateBlocksSpare`. `ReadsBack` goes through the refinement: `expected` is
the abstract memory (`View`), but for a write that has been put and not
performed (`ExpectedInMemory`).

**Replacement** (`RecencyClientProofs`). `Recency` links `lru_lists` to `newer`:
of two valid lines of a set, but for the one of the request under way, the line
whose way comes later in the list has the block that was used longer ago
(`InOrder`); the block of the request under way is the newest (`Newest`); every block in a line has been requested (`KnownBlocks`).
`AllChosen` says that the way a request waits with is the way it would choose
now, so the choice made before the wait is not stale when it is used.

**The tests** (`TestProgramsProofs`). Each test puts one request at a time
(`Turn`), so each of its steps is a step of a disjoint client
(`ExecuteIsDisjoint`). The eviction and the bulk test write with the attributes
11, read with 7, and neither invalidate nor flush: with those constants
`SafeAttributes` holds, every step of theirs is a step of `SequentialClient`
(`ExecuteIsSafe`), where `Expected`, what they have put so far, is the
`expected` of that module, and `ReadBack` gives their reads. The other three read
with the attributes 11, which do not allocate, so `SafeAttributes` fails and
`ReadBack` is not to be had (finding 1): their reads go to memory when the block
is not cached. They use one block of a cache that is otherwise empty, and
`OneSlotInv` follows it: `Caches` says that way 0 of the slot's set is the only
valid line, or none is, and that memory has no page, `WriteProgress`,
`ReadProgress` and `InvalidateProgress` what a request has done at each of its
waits. The invalidation test *passes if its data differ*: it reads zeros from
memory, as the dirty line was dropped. `ProgramInv` joins these with what
registration and `sc_main` leave.

**Pure operators** (`MainMemoryProofs`). Addresses: set and tag identify a block
(`FieldsIdentifyBlock`), an eviction's address is the one of the block
(`LineAddressOfFields`, `FieldsOfLineAddress`), a read and a write of one address
meet in the line exactly when it starts a word (`OffsetsAgree`), and the blocks
of an invalidation (`InvalidateBlocksCover`, `InvalidateBlocksSpare`).
Memory: the page table is one flat array: `WriteThenRead` (a write
changes the words it covers and no other, whether it makes a page or not),
`ReadInPage` (a word of a transfer is the word at its own address) and
`BlocksStayInPage`.

**Only model-checked**: `Answered`, `AnsweredUnlessSpinning` and `Completes`,
which are liveness under fairness and out of the prover's reach. Every other
property of a passing run is the statement of a theorem.

## 5. Not modelled, and the plan

Not modelled:

- the conversion of the command line into parameters (`argparse.hpp`,
  `parse_verbosity_level`, the `std::stoi` calls of `sc_main`): parameters are
  constants here, and no state of the cache is in them;
- `testbench` and `base_test`, which bind sockets, and the Makefile;
- `print_cache` and the log messages;
- transfers that leave their line or their page, which read and write past the
  end of a vector;
- what happens to dirty data at a flush, beyond that it is dropped: no document
  of the repository says what should.

What is left, in order of importance:

1. **Same-set concurrency** beyond the violation: the weakest rule under which
   clients may share a set (hits with hits; a miss alone).
2. **Pipelined clients**, with a response in the fifo while the next request is
   served: `any_client` has them for the bookkeeping, not for the data.
