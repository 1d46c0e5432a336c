---------------------------- MODULE AtomicMemory ----------------------------
(***************************************************************************)
(* What a cached memory promises: behind a read port and a write port that *)
(* serve one request at a time, every access takes effect on one flat      *)
(* memory at a single instant between its request and its answer.          *)
(***************************************************************************)
CONSTANTS Addrs, Values, Requests(_)

VARIABLES
    mem,    \* [Addrs -> Values]
    port    \* ["read" | "write"]: "idle", or a request and whether it is done

Ports == {"read", "write"}
Idle  == [state |-> "idle"]

Init == /\ mem = [a \in Addrs |-> 0]
        /\ port = [p \in Ports |-> Idle]

Invoke(p) ==
    /\ port[p] = Idle
    /\ \E r \in Requests(p) : port' = [port EXCEPT ![p] = [state |-> "pending", req |-> r]]
    /\ UNCHANGED mem

Perform(p) ==
    /\ port[p].state = "pending"
    /\ LET r == port[p].req
       IN  \/ /\ p = "read"
              /\ port' = [port EXCEPT ![p] =
                            [state |-> "done", req |-> [r EXCEPT !.data = mem[r.addr]]]]
              /\ UNCHANGED mem
           \/ /\ p = "write"
              /\ mem' = [mem EXCEPT ![r.addr] = r.data]
              /\ port' = [port EXCEPT ![p].state = "done"]

Return(p) ==
    /\ port[p].state = "done"
    /\ port' = [port EXCEPT ![p] = Idle]
    /\ UNCHANGED mem

Next == \E p \in Ports : Invoke(p) \/ Perform(p) \/ Return(p)

Spec == Init /\ [][Next]_<<mem, port>>
=============================================================================
