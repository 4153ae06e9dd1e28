------------------------------ MODULE HealthRules ------------------------------
(***************************************************************************)
(* The validation rules that judge one chain by what its endpoints said    *)
(* (src/src/services/validation.js, rules 12, 16, 18, 19 and 21), while    *)
(* sweeps probe them and reloads change which ones are listed, in which    *)
(* registry, and what the chain is called: a reload keeps what was found.  *)
(* A check is one step; what a reload in the middle of it does to its      *)
(* results is in ChainProbes, and so are the backoffs of the providers.    *)
(*                                                                         *)
(* `heard` remembers when each endpoint last answered anything.            *)
(***************************************************************************)
EXTENDS Integers, FiniteSets, FiniteSetsExt

CONSTANTS
    None,
    Url,          \* endpoints: numbers, in the order a record lists them
    Height,       \* block heights an endpoint may report
    Drift,        \* RPC_BLOCK_HEIGHT_DRIFT_THRESHOLD
    DeadAfter,    \* RPC_DEAD_AFTER_MS
    MaxEndpoints, \* MAX_ENDPOINTS_PER_CHAIN
    Record,       \* what a load may find: [chains, chainlist, deprecated]
    MaxTime,      \* bound: days
    MaxLoads      \* bound: reloads

\* What the constants are; asserted by the module that gives them values.
RulesAssumption == None \notin Nat /\ \A r \in Record : r.chains \cup r.chainlist \subseteq Url

VARIABLES
    record, \* the chain as it is indexed
    found,  \* cachedData.rpcHealth of it: a result for each endpoint
    private, \* endpoints that answered 401 or 403 once
    now, loads, heard

vars == <<record, found, private, now, loads, heard>>

Init ==
    /\ record \in Record
    /\ found = [u \in {} |-> None] /\ private = {} /\ now = 0 /\ loads = 0
    /\ heard = [u \in Url |-> None]

-----------------------------------------------------------------------------
(* What was found                                                          *)

\* chain.rpc, from which stripPrivateRpcs has taken the private ones.
Listed == (record.chains \cup record.chainlist) \ private

\* Every endpoint of the record takes one of its places.
Probed == {u \in Listed : Cardinality({v \in Listed : v < u}) < MaxEndpoints}

\* checkRpcEndpoint: blocks, blocks of another chain, a refusal or an error, a
\* demand for credentials, or one of NO_ANSWER_FAILURES.
Served(h) == [is |-> "ok", height |-> h, since |-> None]
Answers == {Served(h) : h \in Height} \cup {[is |-> k, height |-> None, since |-> None] : k \in {"wrong", "refused", "private"}}
Silent == [is |-> "silent", height |-> None, since |-> None]
NotChecked == [is |-> "refused", height |-> None, since |-> None]

SinceOf(u) == IF u \in DOMAIN found THEN found[u].since ELSE None

\* A clock that goes on through refusals.
SinceAnyFailure(u, r) == IF r.is # "ok" THEN IF SinceOf(u) = None THEN now ELSE SinceOf(u) ELSE None

UnansweredSince(u, r) == IF r.is = "silent" THEN IF SinceOf(u) = None THEN now ELSE SinceOf(u) ELSE None

\* What a sweep keeps of an endpoint whose provider limits it.
Before(u) == IF u \in DOMAIN found THEN found[u] ELSE NotChecked

\* processChainRpc
ProcessChainRpc ==
    /\ Probed # {}
    /\ \E deferred \in SUBSET Probed :
       \E said \in [Probed \ deferred -> Answers \cup {Silent}] :
          LET result(u) == IF u \in deferred THEN Before(u) ELSE said[u]
              closed == {u \in Probed \ deferred : said[u].is = "private"}
          IN /\ private' = private \cup closed
             /\ found' = [u \in Probed \ closed |-> [result(u) EXCEPT !.since = UnansweredSince(u, result(u))]]
             /\ heard' = [u \in Url |-> IF u \in Probed \ deferred /\ said[u] \in Answers THEN now ELSE heard[u]]
    /\ UNCHANGED <<record, now, loads>>

Reload ==
    /\ loads < MaxLoads
    /\ \E r \in Record : r # record /\ record' = r
    /\ loads' = loads + 1
    /\ UNCHANGED <<found, private, now, heard>>

Tick == now < MaxTime /\ now' = now + 1 /\ UNCHANGED <<record, found, private, loads, heard>>

Next == ProcessChainRpc \/ Reload \/ Tick

-----------------------------------------------------------------------------
(* The rules: the endpoints each of them reports                           *)

Works(u) == u \in DOMAIN found /\ found[u].is = "ok"
At(height) == {u \in DOMAIN found : Works(u) /\ found[u].height = height}
Heights == {h \in Height : At(h) # {}}

\* The first of the lowest and the first of the highest.
Rule12RpcBlockHeightDrift ==
    IF Heights # {} /\ Max(Heights) - Min(Heights) > Drift
    THEN {Min(At(Min(Heights))), Min(At(Max(Heights)))} ELSE {}

Rule16RpcUrlInOneSourceOnly ==
    IF record.chains = {} \/ record.chainlist = {} THEN {}
    ELSE {u \in (record.chains \ record.chainlist) \cup (record.chainlist \ record.chains) : Works(u)}

Gone(u) == found[u].is = "silent" /\ now - found[u].since >= DeadAfter

Rule18NoReachableRpc ==
    IF ~record.deprecated /\ \A u \in DOMAIN found : Gone(u) THEN DOMAIN found ELSE {}

\* Since when none of them has answered.
UnansweredSinceAll == Max({found[u].since : u \in DOMAIN found})

Rule19DeprecatedRpcAnswers == IF record.deprecated THEN {u \in DOMAIN found : Works(u)} ELSE {}

\* All that were found.
WrongOnes == {u \in DOMAIN found : found[u].is = "wrong"}

Rule21RpcServesAnotherChain == WrongOnes \cap Listed

-----------------------------------------------------------------------------
(* Properties                                                              *)

\* A network is called dead only when no endpoint of it answered anything since the
\* day it says, for as long as it takes: not after one bad sweep, not across an answer
\* in between, however many sweeps were put off and whatever was listed meanwhile; and
\* then nothing is found of it that takes an answer (validation.js:550-570,
\* chainRefresher.js:289-296).
DeadMeansSilent ==
    Rule18NoReachableRpc # {} =>
        /\ now - UnansweredSinceAll >= DeadAfter
        /\ \A u \in Rule18NoReachableRpc : heard[u] # None => heard[u] <= UnansweredSinceAll
        /\ Rule12RpcBlockHeightDrift \cup Rule16RpcUrlInOneSourceOnly
               \cup Rule19DeprecatedRpcAnswers \cup Rule21RpcServesAnotherChain = {}

\* What the registries are asked to mend is what they say now: an endpoint they list,
\* which did answer, in one of them only or for another chain (validation.js:488-508, 592-597).
FindingsAreOfTheRegistry ==
    /\ \A u \in Rule16RpcUrlInOneSourceOnly \cup Rule21RpcServesAnotherChain : u \in Listed /\ heard[u] # None
    /\ Rule16RpcUrlInOneSourceOnly \cap Rule21RpcServesAnotherChain = {}
===============================================================================
