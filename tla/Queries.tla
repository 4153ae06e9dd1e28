------------------------------- MODULE Queries -------------------------------
(***************************************************************************)
(* Reads of the registry (src/src/store/queries.js).  The list of all      *)
(* chains is built once and kept while what it was built from is the same, *)
(* by the marks the code compares; the data itself is replaced by loads    *)
(* and changed in place by L2BEAT batches.  What a search finds is ranked  *)
(* by several passes over the registry.                                    *)
(*                                                                         *)
(* The data is told by the number of its load and by L2BEAT's answer in    *)
(* it: a live one by its number, the checked-in snapshot as 0, and nothing *)
(* at all as None.  An answer replaces all that was known of L2BEAT; the   *)
(* tags derived from it, which do depend on earlier answers, are left to   *)
(* ChainIndex.  What a query's words say of a chain's names are sets of    *)
(* words: is (its names), alias (of The Graph), carries (the words in its  *)
(* names).                                                                 *)
(***************************************************************************)
EXTENDS Integers, Sequences, FiniteSets, FiniteSetsExt

CONSTANTS
    ChainList,  \* the registry, in its order: <<[id, deprecated, testnet, is, alias, carries]>>
    Query,      \* what may be asked: [number, text, needle, kind]
    None,
    MaxTime,    \* bound: the clock, in milliseconds
    MaxChanges  \* bound: loads and batches

\* What the constants are; asserted by the module that gives them values.  A query that
\* names no kind of network is asked for as it stands.
SearchAssumption ==
    /\ ChainList \in Seq([id : Nat, deprecated : BOOLEAN, testnet : BOOLEAN,
                           is : SUBSET STRING, alias : SUBSET STRING, carries : SUBSET STRING])
    /\ \A q \in Query : q.kind = None => q.needle = q.text
    /\ None \notin Nat

VARIABLES
    clock,
    data,      \* what is indexed, with the marks lastUpdated and l2beat.fetchedAt
    past,      \* history: the marks of the live answers of this load now replaced
    allChains, \* allChainsCache
    found      \* the last search: [query, chains]

vars == <<clock, data, past, allChains, found>>

Init ==
    /\ clock = 1
    /\ data = [load |-> 0, batch |-> 0, l2beat |-> None, lastUpdated |-> None, fetchedAt |-> None]
    /\ past = {}
    /\ allChains = None /\ found = None

Indexed == data.load > 0

-----------------------------------------------------------------------------
(* What changes the data                                                   *)

MayChange == data.load + data.batch < MaxChanges

\* What fetchL2Beat may answer at time t: live, with the time; else the snapshot, with
\* the date it was made (0, as it is before any of a process); else nothing.
Answers(t) ==
    {[l2beat |-> data.load + data.batch + 1, fetchedAt |-> t],
     [l2beat |-> 0, fetchedAt |-> 0],
     [l2beat |-> None, fetchedAt |-> None]}

Loaded(a) ==
    [data EXCEPT !.load = @ + 1, !.lastUpdated = clock, !.l2beat = a.l2beat, !.fetchedAt = a.fetchedAt]
Merged(a) ==
    [data EXCEPT !.batch = @ + 1, !.l2beat = a.l2beat, !.fetchedAt = a.fetchedAt]

\* A load that answered at once ends in the millisecond of the one before; L2BEAT's
\* answer came before its end.
LoadEnds ==
    /\ MayChange
    /\ \E t \in 1 .. clock : \E a \in Answers(t) : data' = Loaded(a)
    /\ past' = {}
    /\ UNCHANGED <<clock, allChains, found>>

IsLive(answer) == answer # None /\ answer > 0

\* processL2BeatBatch merges into the chains that are there.
L2BeatBatchEnds ==
    /\ MayChange /\ Indexed
    /\ \E a \in Answers(clock) : data' = Merged(a)
    /\ past' = IF IsLive(data.l2beat) THEN past \cup {data.fetchedAt} ELSE past
    /\ UNCHANGED <<clock, allChains, found>>

Tick ==
    /\ clock < MaxTime
    /\ clock' = clock + 1
    /\ UNCHANGED <<data, past, allChains, found>>

-----------------------------------------------------------------------------
(* What is kept of it                                                      *)

\* transformChain of every chain.
Chains == [load |-> data.load, l2beat |-> data.l2beat]

AllChainsKey == [lastUpdated |-> data.lastUpdated, fetchedAt |-> data.fetchedAt, indexed |-> data.load]

AllChainsKept == allChains # None /\ allChains.key = AllChainsKey

\* What getAllChains answers.
AllChains == IF AllChainsKept THEN allChains.value ELSE Chains

GetAllChains ==
    /\ Indexed
    /\ allChains' = [key |-> AllChainsKey, value |-> AllChains]
    /\ UNCHANGED <<clock, data, past, found>>

-----------------------------------------------------------------------------
(* Search                                                                  *)

\* The chain is of the kind the query says: a test network or a main one.
Eligible(c, q) == c.testnet = (q.kind = "testnet")

\* What each pass of the search finds, in their order; the fourth to the sixth hear
\* "mainnet" and "testnet" as the kind of network.
Finds(q, pass, c) ==
    LET ofKind == q.kind # None /\ Eligible(c, q)
    IN  \/ pass = 1 /\ c.id = q.number
        \/ pass = 2 /\ q.text \in c.is
        \/ pass = 3 /\ q.text \in c.alias
        \/ pass = 4 /\ ofKind /\ q.needle \in c.alias
        \/ pass = 5 /\ ofKind /\ q.needle \in c.is
        \/ pass = 6 /\ ofKind /\ q.needle \in c.carries
        \/ pass = 7 /\ q.text \in c.carries

Hits(q) == {n \in DOMAIN ChainList : \E pass \in 1 .. 7 : Finds(q, pass, ChainList[n])}

FirstPass(q, n) == Min({pass \in 1 .. 7 : Finds(q, pass, ChainList[n])})

\* Each chain where it was found first; dead ones below.
Above(q, m, n) ==
    LET dead(k) == ChainList[k].deprecated
    IN  \/ ~dead(m) /\ dead(n)
        \/ /\ dead(m) <=> dead(n)
           /\ FirstPass(q, m) < FirstPass(q, n) \/ (FirstPass(q, m) = FirstPass(q, n) /\ m < n)

Ranked(q) ==
    [k \in 1 .. Cardinality(Hits(q)) |->
        ChainList[CHOOSE n \in Hits(q) : Cardinality({m \in Hits(q) : Above(q, m, n)}) = k - 1]]

SearchChains(q) ==
    /\ Indexed
    /\ found' = [query |-> q, chains |-> Ranked(q)]
    /\ UNCHANGED <<clock, data, past, allChains>>

-----------------------------------------------------------------------------

Next ==
    \/ LoadEnds \/ L2BeatBatchEnds \/ Tick \/ GetAllChains
    \/ \E q \in Query : SearchChains(q)

Spec == Init /\ [][Next]_vars

-----------------------------------------------------------------------------
(* Properties                                                              *)

\* "The index object itself is part of the key: two loads inside one millisecond
\* share a lastUpdated, and the second must not be served the first one's chains"
\* (queries.js:80): the list is of this load, and of L2BEAT's last answer, whichever
\* times the snapshot came in between, unless that answer has the millisecond of an
\* earlier live one, which its mark cannot tell.
ListsAreCurrent ==
    Indexed => AllChains.load = data.load /\ (data.fetchedAt \notin past => AllChains = Chains)

\* "Base mainnet must find the chain named just Base" (queries.js:110): of the living
\* chains of the kind that is asked for, one with exactly that name or alias is above
\* all that only carry it in theirs, but for the chain of that number.
NamedIsAboveLookalikes ==
    found # None =>
        LET q == found.query
            Named(c) == q.needle \in c.is \cup c.alias /\ (q.kind # None => Eligible(c, q))
            Lookalike(c) == ~Named(c) /\ c.id # q.number /\ q.text \notin c.is \cup c.alias
        IN  \A i, j \in DOMAIN found.chains :
                Named(found.chains[i]) /\ Lookalike(found.chains[j]) /\ ~found.chains[i].deprecated => i < j
=============================================================================
