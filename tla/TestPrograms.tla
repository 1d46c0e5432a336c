---------------------------- MODULE TestPrograms ----------------------------
(***************************************************************************)
(* The program as it is run: the five tests register themselves before     *)
(* main, in any order, sc_main creates the one that the command line names *)
(* and starts the simulation, and the test's execute() puts its requests   *)
(* one after the other, compares and reports.                              *)
(*                                                                         *)
(* The unit of an address is 16 bytes, the distance of the tests' entries; *)
(* each string the tests write fits in one.  LineSize = 4 is a line of 64  *)
(* bytes, WordSize = 1 any word size that divides 16.  A string is a       *)
(* number, and 0 the zeros of an untouched buffer.                         *)
(***************************************************************************)
EXTENDS CacheController, Sequences

CONSTANT UnknownName   \* a name that no test has

VARIABLES
    test_name,      \* the test that the command line names
    registered,     \* the tests whose static member registered is initialised
    factory_map,    \* the names in the map of getFactoryMap
    stage,          \* "static", "simulating" or "exited"
    step,           \* the request that execute() has come to
    waiting,        \* has it put the request?
    read_data,      \* [step]: the buffer of that request, when it is a read
    reports         \* what the program has reported

programVars == <<test_name, registered, factory_map, stage, step, waiting, read_data, reports>>
testVars    == <<vars, programVars>>

-----------------------------------------------------------------------------
(***************************************************************************)
(* The requests of each test.                                              *)
(***************************************************************************)
WriteOf(slot, string) ==
    [channel |-> "write", msg |-> [addr |-> slot, cache |-> 11, data |-> string]]

ReadOf(slot, attrs) ==
    [channel |-> "read", msg |-> [addr |-> slot, cache |-> attrs, data |-> 0]]

InvalidationOf(slot) ==
    [channel |-> "invalidate", msg |-> [first |-> slot, second |-> slot]]

ConsistencyCheck == <<WriteOf(2, 1), ReadOf(2, 11)>>

EvictionCheck ==
    [i \in 1 .. 8 |-> IF i <= 4 THEN WriteOf(2 + i, i) ELSE ReadOf(i - 2, 7)]

OverwriteCheck == <<WriteOf(4, 1), WriteOf(4, 2), ReadOf(4, 11)>>

InvalidationCheck == <<WriteOf(5, 1), InvalidationOf(5), ReadOf(5, 11)>>

BulkReadWriteCheck ==
    [i \in 1 .. 8 |-> IF i <= 4 THEN WriteOf(5 + i, i) ELSE ReadOf(i + 1, 7)]

Scripts ==
    [cache_consistency_check     |-> ConsistencyCheck,
     cache_eviction_check        |-> EvictionCheck,
     cache_overwrite_check       |-> OverwriteCheck,
     cache_invalidation_check    |-> InvalidationCheck,
     cache_bulk_read_write_check |-> BulkReadWriteCheck]

TestNames == DOMAIN Scripts

\* The clients of CacheController make these requests, and perhaps others.
ASSUME ScriptsAreRequests ==
    \A name \in TestNames : \A i \in DOMAIN Scripts[name] :
        Scripts[name][i].msg \in Messages(Scripts[name][i].channel)

Script == Scripts[test_name]

-----------------------------------------------------------------------------
(***************************************************************************)
(* Registration and sc_main.                                               *)
(***************************************************************************)
TestInit ==
    /\ Init
    /\ test_name \in TestNames \union {UnknownName}
    /\ registered = {}
    /\ factory_map = {}
    /\ stage = "static"
    /\ step = 1
    /\ waiting = FALSE
    /\ read_data = [i \in 1 .. 8 |-> 0]
    /\ reports = {}

\* A faulty GetFactoryMap, for testing the properties: the map is not static, each
\* call makes a new one.
GetNewFactoryMap == {}

\* The map is made by the first call, whichever test that comes from.
GetFactoryMap == factory_map

\* test_factory::create finds a test of that name.
Creates(name) == name \in GetFactoryMap

\* The initialiser of one test's static member.
RegisterTest(name) ==
    /\ stage = "static"
    /\ name \notin registered
    /\ registered' = registered \union {name}
    /\ factory_map' = GetFactoryMap \union {name}
    /\ UNCHANGED <<vars, test_name, stage, step, waiting, read_data, reports>>

\* sc_main, entered when static initialisation is over.  An error report throws.
Main ==
    /\ stage = "static"
    /\ registered = TestNames
    /\ \/ /\ Creates(test_name)
          /\ stage' = "simulating"
          /\ UNCHANGED reports
       \/ /\ ~ Creates(test_name)
          /\ stage' = "exited"
          /\ reports' = {"error"}
    /\ UNCHANGED <<vars, test_name, registered, factory_map, step, waiting, read_data>>

-----------------------------------------------------------------------------
(***************************************************************************)
(* execute()                                                               *)
(***************************************************************************)
ExecutePut ==
    /\ stage = "simulating"
    /\ ~ waiting
    /\ step <= Len(Script)
    /\ ClientPut(Script[step].channel, Script[step].msg)
    /\ waiting' = TRUE
    /\ UNCHANGED <<test_name, registered, factory_map, stage, step, read_data, reports>>

ExecuteGet ==
    LET c == Script[step].channel
    IN  /\ waiting
        /\ ClientGet(c)
        /\ read_data' = IF c = "read" THEN [read_data EXCEPT ![step] = rsp_fifo[c].data]
                                      ELSE read_data
        /\ step' = step + 1
        /\ waiting' = FALSE
        /\ UNCHANGED <<test_name, registered, factory_map, stage, reports>>

\* What the test wrote last, before its request i, to the address of request i.
Written(i) ==
    LET writes == {j \in 1 .. i - 1 : /\ Script[j].channel = "write"
                                      /\ Script[j].msg.addr = Script[i].msg.addr}
    IN  Script[Max(writes)].msg.data

AllMatch ==
    \A i \in 1 .. Len(Script) :
        Script[i].channel = "read" => read_data[i] = Written(i)

\* The comparison at the end of execute().  The eviction and the bulk test report
\* that they passed whatever they have reported before.
Verdict ==
    CASE test_name \in {"cache_consistency_check", "cache_overwrite_check"} ->
            IF AllMatch THEN {"passed"} ELSE {"error"}
      [] test_name = "cache_invalidation_check" ->
            IF AllMatch THEN {"error"} ELSE {"passed"}
      [] OTHER ->
            IF AllMatch THEN {"passed"} ELSE {"failed", "passed"}

\* The report and sc_stop, or the exception of an error report, end the simulation.
ExecuteEnd ==
    /\ stage = "simulating"
    /\ step > Len(Script)
    /\ reports' = Verdict
    /\ stage' = "exited"
    /\ UNCHANGED <<vars, test_name, registered, factory_map, step, waiting, read_data>>

Simulate ==
    /\ stage = "simulating"
    /\ Controller
    /\ UNCHANGED programVars

TestNext ==
    \/ \E name \in TestNames : RegisterTest(name)
    \/ Main
    \/ ExecutePut \/ ExecuteGet \/ ExecuteEnd
    \/ Simulate

\* One thread at a time has work, and the scheduler runs it.
TestSpec == TestInit /\ [][TestNext]_testVars /\ WF_testVars(TestNext)

-----------------------------------------------------------------------------
(***************************************************************************)
(* Properties.                                                             *)
(***************************************************************************)

\* A program that is given the name of a test reports that the test passed, and
\* nothing else, in a cache as small as one line; with any other name it reports
\* an error and runs nothing.
Outcome ==
    stage = "exited" =>
        reports = IF test_name \in TestNames THEN {"passed"} ELSE {"error"}

\* Every run of the program ends.
Completes == <>(stage = "exited")

\* A test that reports it passed has not reported that its data differ
\* (cache_bulk_read_write_check.cpp:69 and 74, cache_eviction_check.cpp:69 and 73).
PassedMeansMatched == "passed" \in reports => "failed" \notin reports

=============================================================================
