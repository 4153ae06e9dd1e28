---------------------------- MODULE BrowserProbes ----------------------------
(***************************************************************************)
(* The endpoints of a profile page, tested from the reader's browser       *)
(* (src/public/profile.js 824-1077).  A row is tested when it is first on  *)
(* the screen, at most so many at a time; rows behind "Show more" are      *)
(* tested too while few work; and when a round is over the list is sorted, *)
(* what works from here first.  "Test again" and a new list may come while *)
(* tests are under way.  Endpoints are numbered in the order they are      *)
(* listed in.  The page has two lists, the rows on the screen and those    *)
(* behind "Show more"; here they are one sequence, the shown ones first.   *)
(*                                                                         *)
(* A round trip is a constant of the row; which outcome a test has, is     *)
(* open.  A list is drawn again at most MaxLists times.                    *)
(***************************************************************************)
EXTENDS Naturals, FiniteSets, Sequences

CONSTANTS
    Url,
    Verdict,      \* [Url -> what the monitor found: "working", "limited", "failed", "none"]
    NeedsKey,     \* the URLs with a placeholder
    Skipped,      \* the URLs a browser cannot test: keyed, private, not secure
    Speed,        \* [Url -> its round trip]
    Concurrency,  \* BROWSER_PROBE_CONCURRENCY
    Want,         \* BROWSER_PROBE_WANT
    Batch,        \* BROWSER_PROBE_BATCH
    OnScreen,     \* how many rows are shown, the rest are behind "Show more"
    MaxLists

ProbesAssumption ==
    /\ Url \subseteq Nat /\ IsFiniteSet(Url) /\ Speed \in [Url -> Nat] /\ NeedsKey \subseteq Skipped
    /\ Concurrency \in Nat \ {0} /\ Batch \in Nat \ {0} /\ Want \in Nat
    /\ OnScreen \in Nat \ {0}

VARIABLES
    shown,    \* the list is on the page
    list,     \* the rows in the order they stand in on the page
    sorts,    \* how often this list was sorted: 0, 1, or 2 for more
    watched,  \* the rows that were not on the screen yet
    result,   \* [Url -> "none", "skip", "pending", "ok" or "failed"]
    queue,    \* rows to be tested
    active,   \* probeActive
    token,    \* probeToken
    flying    \* the tests under way: <<row, token, n>> is the n-th of the row under the token

vars == <<shown, list, sorts, watched, result, queue, active, token, flying>>

\* The order of the server: working, then limited, then untested, keyed last.
Order(u) ==
    CASE Verdict[u] = "working" -> 0 [] Verdict[u] = "none" -> IF u \in NeedsKey THEN 3 ELSE 2 [] OTHER -> 1

Sorted(S, before) ==
    [i \in 1..Cardinality(S) |-> CHOOSE u \in S : Cardinality({w \in S : <<w, u>> \in before}) = i - 1]

\* An endpoint that failed the monitor's last check is not offered.
Offered == {u \in Url : Verdict[u] # "failed"}

\* renderProfileRpc: equals keep the order they are listed in.
ServerOrder ==
    {p \in Url \X Url : Order(p[1]) < Order(p[2]) \/ (Order(p[1]) = Order(p[2]) /\ p[1] < p[2])}

\* browserProbeRows of new rows, each of which is watched until it is seen.
NewList ==
    /\ shown' = TRUE
    /\ list' = Sorted(Offered, ServerOrder)
    /\ sorts' = 0
    /\ watched' = Offered
    /\ result' = [u \in Url |-> "none"]
    /\ queue' = <<>>
    /\ active' = 0
    /\ token' = token + 1

Init ==
    /\ shown = TRUE
    /\ list = Sorted(Offered, ServerOrder)
    /\ sorts = 0
    /\ watched = Offered
    /\ result = [u \in Url |-> "none"]
    /\ queue = <<>>
    /\ active = 0
    /\ token = 1
    /\ flying = {}

\* Rendered again; tests of the old rows go on for nobody.
Rerender == token < MaxLists /\ NewList /\ UNCHANGED flying

\* stopBrowserProbes, when the reader leaves.
Leave ==
    /\ shown /\ token < MaxLists
    /\ shown' = FALSE /\ watched' = {} /\ queue' = <<>> /\ active' = 0 /\ token' = token + 1
    /\ UNCHANGED <<list, sorts, result, flying>>

-----------------------------------------------------------------------------
(* The pool                                                                *)

\* enqueueProbe for each of some rows, in the order of the server.
Queued(q, rows) == q \o Sorted(rows \ Skipped, ServerOrder)
Marked(res, rows) ==
    [u \in Url |-> IF u \in rows THEN IF u \in Skipped THEN "skip" ELSE "pending" ELSE res[u]]

Copies(tests, u, t) == Cardinality({f \in tests : f[1] = u /\ f[2] = t})

Started(tests, u) == tests \cup {<<u, token, Copies(tests, u, token) + 1>>}

\* pumpProbes: the first of the queue leave it while there is room.
Pumped(q, running, others) ==
    LET room == IF running < Concurrency THEN Concurrency - running ELSE 0
        n == IF room < Len(q) THEN room ELSE Len(q)
        started[i \in 0..n] == IF i = 0 THEN others ELSE Started(started[i - 1], q[i])
    IN /\ active' = running + n
       /\ queue' = [i \in 1..(Len(q) - n) |-> q[n + i]]
       /\ flying' = started[n]

\* A row comes into view.
Seen(u) ==
    /\ u \in watched
    /\ watched' = watched \ {u}
    /\ IF result[u] # "none" THEN UNCHANGED <<result, queue, active, flying>>
       ELSE /\ result' = Marked(result, {u})
            /\ Pumped(Queued(queue, {u}), active, flying)
    /\ UNCHANGED <<shown, list, sorts, token>>

\* "Test again": the rows with a result that is no skip, those under test too
\* (bound: not while others wait).
Again == {u \in Offered : result[u] \notin {"none", "skip"}}

TestAgain ==
    /\ shown
    /\ Len(queue) + active <= Concurrency
    /\ result' = Marked(result, Again)
    /\ Pumped(Queued(queue, Again), active, flying)
    /\ UNCHANGED <<shown, list, sorts, watched, token>>

\* Mutant: rows that are about to be tested count as working.
FewSoFar(res) == Cardinality({u \in Url : res[u] \in {"ok", "failed"}}) < Want

\* probeMoreIfFewWork.
FewWork(res) == Cardinality({u \in Url : res[u] = "ok"}) < Want

\* The untested that are tested next, the first in the order of the server.
More(res) ==
    LET untested == {u \in Offered \ Skipped : res[u] = "none"}
    IN {u \in untested : FewWork(res) /\ Cardinality({w \in untested : <<w, u>> \in ServerOrder}) < Batch}

\* sortProbedRows: by round trip, those without one after them; the sort is
\* stable, and the rows are those the server sorted, wherever they stand.
Faster(res) ==
    {p \in Url \X Url :
        \/ res[p[1]] = "ok" /\ res[p[2]] # "ok"
        \/ res[p[1]] = "ok" /\ res[p[2]] = "ok" /\ Speed[p[1]] < Speed[p[2]]
        \/ res[p[1]] = "ok" /\ res[p[2]] = "ok" /\ Speed[p[1]] = Speed[p[2]] /\ p \in ServerOrder
        \/ res[p[1]] # "ok" /\ res[p[2]] # "ok" /\ p \in ServerOrder}

\* How many rows stand behind "Show more".
Hidden(rows) == IF Len(rows) > OnScreen THEN Len(rows) - OnScreen ELSE 0

\* sortProbedRows: each list keeps its number of rows; which is filled first, is
\* the one that the first row of the server's order stands in.
Refilled(fastest) ==
    IF \E i \in DOMAIN list : i > OnScreen /\ list[i] = Sorted(Offered, ServerOrder)[1]
    THEN [i \in DOMAIN fastest |->
             IF i <= OnScreen THEN fastest[i + Hidden(fastest)] ELSE fastest[i - OnScreen]]
    ELSE fastest

\* A test ends.  One of an older list changes nothing; the last one of a round
\* sends for more or sorts.
ProbeEnds(f, outcome) ==
    LET res == [result EXCEPT ![f[1]] = outcome]
        idle == active = 1 /\ queue = <<>>
        more == More(res)
        others == flying \ {f}
    IN
    /\ f[3] = Copies(flying, f[1], f[2])
    /\ UNCHANGED <<shown, token>>
    /\ \/ /\ f[2] # token
          /\ flying' = others
          /\ UNCHANGED <<list, sorts, watched, result, queue, active>>
       \/ /\ f[2] = token /\ ~(idle /\ more # {})
          /\ result' = res
          /\ Pumped(queue, active - 1, others)
          /\ IF idle THEN /\ list' = Refilled(Sorted(Offered, Faster(res)))
                          /\ sorts' = IF sorts = 0 THEN 1 ELSE 2
             ELSE UNCHANGED <<list, sorts>>
          /\ UNCHANGED watched
       \/ /\ f[2] = token /\ idle /\ more # {}
          /\ result' = Marked(res, more)
          /\ Pumped(Queued(queue, more), 0, others)
          /\ watched' = watched \ more
          /\ UNCHANGED <<list, sorts>>

Next ==
    \/ \E u \in Url : Seen(u)
    \/ TestAgain \/ Rerender \/ Leave
    \/ \E f \in flying, outcome \in {"ok", "failed"} : ProbeEnds(f, outcome)

Spec == Init /\ [][Next]_vars

-----------------------------------------------------------------------------
(* Properties                                                              *)

Tested == {u \in Url : result[u] \in {"ok", "failed"}}
Working == {u \in Url : result[u] = "ok"}
Resting == shown /\ active = 0 /\ queue = <<>> /\ Tested # {}

\* What works stands first, the fastest on top.
FastestFirst(rows) ==
    \A i, j \in DOMAIN rows :
        i < j /\ rows[j] \in Working => rows[i] \in Working /\ Speed[rows[i]] <= Speed[rows[j]]

\* The rows behind "Show more", and then those on the screen.
Behind(rows) ==
    [i \in DOMAIN rows |-> IF i <= Hidden(rows) THEN rows[i + OnScreen] ELSE rows[i - Hidden(rows)]]

\* "So a working endpoint is not left hidden" (profile.js:1041-1075): when a
\* round is over, enough rows work or every row that can be has been tested, and
\* after the first round of a list the working ones stand first, the fastest on
\* top.  After a later one the two lists may be filled the other way about, and
\* the fastest stand behind "Show more".  While a round goes on, the tests of
\* this list are as many as are counted, and no more than allowed.
WorkingOnesAreOnScreen ==
    /\ active = Cardinality({f \in flying : f[2] = token}) /\ active <= Concurrency
    /\ Resting => Cardinality(Working) >= Want \/ Offered \ Skipped \subseteq Tested
    /\ Resting /\ sorts = 1 => FastestFirst(list)
    /\ Resting => FastestFirst(list) \/ FastestFirst(Behind(list))
=============================================================================
