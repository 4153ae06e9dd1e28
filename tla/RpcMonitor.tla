------------------------------- MODULE RpcMonitor -------------------------------
(***************************************************************************)
(* The stand-alone RPC monitor (rpcMonitor.js): a cycle reads which        *)
(* endpoints there are, tests the chains of a batch at once, each chain's  *)
(* endpoints one after the other, then the next batch, and puts what it    *)
(* finds into one list that everyone reads meanwhile.  Between two tests   *)
(* of a chain, and from the last one of a batch to the first ones of the   *)
(* next, the code runs without a pause: that is one step here.  What an    *)
(* endpoint says is of the moment.                                         *)
(***************************************************************************)
EXTENDS Integers, Sequences, FiniteSets, FiniteSetsExt

CONSTANTS
    Listings,    \* what getAllEndpoints may return: of each chain its endpoints, TRUE for one that can be tested
    Concurrency, \* RPC_CHECK_CONCURRENCY
    MaxPerChain, \* MAX_ENDPOINTS_PER_CHAIN
    Loops,       \* what RPC_MONITOR_LOOP may be
    MaxCycles    \* bound: cycles

\* What the constants are; asserted by the module that gives them values.
MonitorAssumption ==
    /\ Listings \subseteq Seq(Seq(BOOLEAN)) /\ Loops \subseteq BOOLEAN
    /\ Concurrency \in Nat \ {0} /\ MaxPerChain \in Nat

VARIABLES
    loop,   \* RPC_MONITOR_LOOP
    cycles, \* those that were begun, in order
    found   \* monitoringResults: the counts as last written, and the list

NoFindings == [total |-> 0, tested |-> 0, working |-> 0, failed |-> 0, list |-> <<>>]

Init == loop \in Loops /\ cycles = <<>> /\ found = NoFindings

-----------------------------------------------------------------------------
(* testChainEndpoints                                                      *)

\* isValidUrl
Valid(endpoints) == {e \in DOMAIN endpoints : endpoints[e]}

\* The endpoints of a chain that have a test: the first few of the valid ones.
Testable(endpoints) ==
    {e \in Valid(endpoints) : Cardinality({d \in Valid(endpoints) : d < e}) < MaxPerChain}

\* The endpoint a chain's loop stops at after `from`: the next one with a test, else none.
StopsAt(endpoints, from) ==
    LET later == {e \in Testable(endpoints) : e > from} IN IF later = {} THEN Len(endpoints) + 1 ELSE Min(later)

\* Every endpoint the loop comes to is counted, and those it tests again apart.
Advanced(c, n) ==
    LET endpoints == c.chains[n]
        to == StopsAt(endpoints, c.at[n])
        tests == to <= Len(endpoints)
    IN [c EXCEPT !.at[n] = to, !.busy = IF tests THEN @ \cup {n} ELSE @ \ {n},
                 !.total = @ + (IF tests THEN to ELSE Len(endpoints)) - c.at[n],
                 !.tested = @ + IF tests THEN 1 ELSE 0]

-----------------------------------------------------------------------------
(* testAllEndpoints                                                        *)

Over(c) == c.from > Len(c.chains)

\* Each chain of the batch up to its first test, one after the other; they share the counters.
BatchBegun(c) ==
    LET size == Min({Concurrency, Len(c.chains) - c.from + 1})
        begun[i \in 0 .. size] == IF i = 0 THEN c ELSE Advanced(begun[i - 1], c.from + i - 1)
    IN  IF Over(c) THEN c ELSE begun[size]

\* `at` is the endpoint a chain waits for, `busy` the chains that wait.
NewCycle(chains) ==
    BatchBegun([chains |-> chains, from |-> 1, at |-> [n \in DOMAIN chains |-> 0], busy |-> {},
                total |-> 0, tested |-> 0, working |-> 0, failed |-> 0])

InProgress == \E k \in DOMAIN cycles : ~Over(cycles[k])

\* startMonitoring: who comes while a cycle runs gets that one.
AnyTime == Len(cycles) < MaxCycles
MayStart == Len(cycles) < MaxCycles /\ ~InProgress

StartMonitoring ==
    /\ MayStart
    /\ \E chains \in Listings : cycles' = Append(cycles, NewCycle(chains))
    /\ found' = NoFindings
    /\ UNCHANGED loop

Counted(c, n, works) ==
    IF works THEN [c EXCEPT !.working = @ + 1] ELSE [c EXCEPT !.failed = @ + 1]

\* recordEndpointResult, after a height that can be read or anything else; then
\* the chain goes on.
Recorded(c, n, works) ==
    [total |-> c.total, tested |-> c.tested, working |-> c.working, failed |-> c.failed,
     list |-> Append(found.list, [chain |-> n, endpoint |-> c.at[n], works |-> works])]

EndsTest(k, n, works) ==
    /\ n \in cycles[k].busy
    /\ found' = Recorded(Counted(cycles[k], n, works), n, works)
    /\ cycles' = [cycles EXCEPT ![k] = Advanced(Counted(@, n, works), n)]
    /\ UNCHANGED loop

\* The next batch waits for the whole of this one; with `loop`, the next cycle for the last.
BatchEnds(k) ==
    LET after == [cycles[k] EXCEPT !.from = @ + Concurrency]
    IN /\ ~Over(cycles[k]) /\ cycles[k].busy = {}
       /\ IF loop /\ Over(after)
          THEN /\ Len(cycles) < MaxCycles
               /\ \E chains \in Listings : cycles' = Append([cycles EXCEPT ![k] = after], NewCycle(chains))
               /\ found' = NoFindings
          ELSE cycles' = [cycles EXCEPT ![k] = BatchBegun(after)] /\ UNCHANGED found
       /\ UNCHANGED loop

Next ==
    \/ StartMonitoring
    \/ \E k \in DOMAIN cycles :
        \/ \E n \in cycles[k].busy, works \in BOOLEAN : EndsTest(k, n, works)
        \/ BatchEnds(k)

-----------------------------------------------------------------------------
(* Properties                                                              *)

With(works) == Cardinality({r \in DOMAIN found.list : found.list[r].works = works})

\* What is read is of one cycle, at any moment of it: no endpoint twice, the counts
\* those of the list, none but the first endpoints of a chain tested; and a cycle that
\* is over has tested all it may (rpcMonitor.js:112-129, 134-159, 164-190).
FindingsAreOfOneCycle ==
    /\ \A r, q \in DOMAIN found.list :
        found.list[r].chain = found.list[q].chain /\ found.list[r].endpoint = found.list[q].endpoint => r = q
    /\ found.working = With(TRUE) /\ found.failed = With(FALSE)
    /\ Len(found.list) <= found.tested /\ found.tested <= found.total
    /\ cycles # <<>> /\ ~InProgress =>
        \A n \in DOMAIN cycles[Len(cycles)].chains :
            {found.list[r].endpoint : r \in {q \in DOMAIN found.list : found.list[q].chain = n}}
                = Testable(cycles[Len(cycles)].chains[n])
=============================================================================
