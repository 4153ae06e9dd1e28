----------------------------- MODULE MCServices -----------------------------
(***************************************************************************)
(* The parts of the service that share nothing, side by side: in a         *)
(* behaviour one of them, `part`, runs, and the others rest.  PriceService *)
(* has two assets and three calls, so that one may wait for two batches of *)
(* others; Assistant three jobs of which two may run, and a primary model  *)
(* and a fallback; NodeForks a schedule with a next fork and one without,  *)
(* two names and two calls; L2Metrics two files, one of which the snapshot *)
(* lacks, with days missing and days twice; Blockscout two chains of which *)
(* one lists two hosts; ClientFeed three bodies with room for two; Queries *)
(* names and aliases that several chains share, one of them dead;          *)
(* RpcMonitor three chains, two at a time, of which one has more endpoints *)
(* than its share; and HealthRules three endpoints that both registries,   *)
(* one, or neither list.                                                   *)
(***************************************************************************)
EXTENDS PriceService, Integers, Sequences, TLC

prices == vars

CONSTANTS Job, MaxConcurrentJobs

VARIABLES jobs, status, post, timer, polled

chats == <<jobs, status, post, timer, polled>>

CONSTANTS Providers, Budget, GuardCap, AttemptCap, ToolTime, MaxIterations, MaxStrikes, MaxToolCalls

VARIABLES part, well, step, left, index, retried, iteration, strikes, message, outcome

turn == <<well, step, left, index, retried, iteration, strikes, message, outcome>>

T == INSTANCE Assistant WITH None <- NoEntry

CONSTANTS Schedule, Name, Asker, MaxUrls, RefreshAfter, RetryAfter, MaxClock, MaxSnapshots

VARIABLES clock, schedule, nodeVersion, refreshing, answers, asking, nameVersion, snapshot, memo, calls

forks == <<clock, schedule, nodeVersion, refreshing, answers, asking, nameVersion, snapshot, memo, calls>>

K == INSTANCE NodeForks WITH None <- NoEntry, Caller <- Asker, MaxTime <- MaxClock, now <- clock, at <- calls

WithAndWithoutNext == {<<1, NoEntry, NoEntry>>, <<1, 2, 2>>}

CONSTANTS File, Landing, Publication, Fallback, MaxAge, FileRetryAfter, SeriesDays, Week, MaxDays

VARIABLES day, parts, fetching, fallbackLoaded, waiting

metrics == <<day, parts, fetching, fallbackLoaded, waiting>>

G == INSTANCE L2Metrics WITH
         None <- NoEntry, now <- day, refreshing <- fetching, RetryAfter <- FileRetryAfter, MaxTime <- MaxDays

\* Nothing, days out of order and twice, and days that are missing.
GapsAndRepeats ==
    {<<>>, <<<<2, 1>>, <<1, 1>>, <<2, 3>>>>, <<<<5, 1>>, <<4, 2>>, <<2, 5>>, <<2, 6>>, <<1, 1>>>>,
     <<<<4, 2>>, <<4, 4>>, <<1, 1>>, <<2, 2>>>>}
FundamentalsAlone == [fundamentals |-> <<<<1, 1>>>>, landing |-> NoEntry]
OneAndTwo == [fundamentals |-> 1, landing |-> 2]

CONSTANTS Explored, Candidates, CacheTtl, InstanceTtl, Interval, ParkFor, MaxHours

VARIABLES hour, instances, stats, flights, parked, lastRequest, sent

explorer == <<hour, instances, stats, flights, parked, lastRequest, sent>>

B == INSTANCE Blockscout WITH
         None <- NoEntry, Chain <- Explored, now <- hour, inflight <- flights, MaxTime <- MaxHours

TwoAndOneOfThem == [a |-> <<"h", "i">>, b |-> <<"h">>]

CONSTANTS Feed, Size, MaxKeys, MaxBytes, FeedTtl, MaxReads, MaxMinutes

VARIABLES minute, kept, cacheBytes, reads, answer

proxy == <<minute, kept, cacheBytes, reads, answer>>

F == INSTANCE ClientFeed WITH
         None <- NoEntry, Url <- Feed, now <- minute, cache <- kept, Ttl <- FeedTtl, MaxTime <- MaxMinutes

OneToThree == [a |-> {1, 3}, b |-> {1}, c |-> {2}]

CONSTANTS ChainList, Query, MaxMilliseconds, MaxChanges

VARIABLES millisecond, data, past, allChains, hits

lists == <<millisecond, data, past, allChains, hits>>

Q == INSTANCE Queries WITH None <- NoEntry, clock <- millisecond, found <- hits, MaxTime <- MaxMilliseconds

Named(id, testnet, is, alias, carries) ==
    [id |-> id, deprecated |-> FALSE, testnet |-> testnet, is |-> is, alias |-> alias, carries |-> carries]
Asked(text, needle, kind) == [text |-> text, needle |-> needle, kind |-> kind]

Namesakes ==
    <<Named(1, FALSE, {"zk"}, {}, {"zk", "base", "base mainnet"}), Named(2, FALSE, {"base"}, {"base mainnet"}, {"base"}),
      Named(3, TRUE, {"base"}, {}, {"base"}), [Named(4, FALSE, {"op"}, {"base"}, {"op"}) EXCEPT !.deprecated = TRUE],
      Named(5, FALSE, {"base"}, {}, {"base"})>>
WithAndWithoutNumber ==
    {Asked("base", "base", NoEntry) @@ [number |-> 9], Asked("base mainnet", "base", "mainnet") @@ [number |-> 1]}
    \cup {a @@ [number |-> NoEntry] :
             a \in {Asked("base", "base", NoEntry), Asked("base mainnet", "base", "mainnet"),
                    Asked("base testnet", "base", "testnet"), Asked("op mainnet", "op", "mainnet")}}

CONSTANTS Listings, Concurrency, MaxPerChain, Loops, MaxCycles

VARIABLES loop, cycles, findings

monitor == <<loop, cycles, findings>>

O == INSTANCE RpcMonitor WITH found <- findings

ThreeChainsOrTwo == {<<<<TRUE, FALSE, TRUE, TRUE, FALSE>>, <<FALSE, TRUE>>, <<TRUE>>>>, <<<<TRUE, TRUE>>, <<FALSE>>>>}

CONSTANTS Url, Height, Drift, DeadAfter, MaxEndpoints, Record, MaxToday, MaxLoads

VARIABLES record, results, private, today, loads, heard

rules == <<record, results, private, today, loads, heard>>

H == INSTANCE HealthRules WITH None <- NoEntry, found <- results, now <- today, MaxTime <- MaxToday

BothOneOrNeither ==
    {[chains |-> {1, 2}, chainlist |-> {2, 3}, deprecated |-> FALSE],
     [chains |-> {1}, chainlist |-> {2}, deprecated |-> TRUE],
     [chains |-> {3}, chainlist |-> {}, deprecated |-> FALSE]}

ASSUME ServicesAssumption ==
    /\ T!JobsAssumption /\ T!RunAssumption /\ K!NodeForksAssumption
    /\ G!FilesAssumption /\ B!PaceAssumption /\ H!RulesAssumption
    /\ F!CacheAssumption /\ Q!SearchAssumption /\ O!MonitorAssumption

everything == <<part, prices, chats, turn, forks, metrics, explorer, proxy, lists, monitor, rules>>

ASSUME PricesAssumption == NoEntry \notin Quote

ServicesInit ==
    /\ part \in {"prices", "jobs", "turn", "nodes", "l2", "explorer", "proxy", "lists", "monitor", "rules"}
    /\ Init /\ T!JobsInit /\ T!RunInit
    /\ K!Init /\ G!Init /\ B!Init /\ F!Init /\ Q!Init /\ O!Init /\ H!Init
    /\ part # "turn" => well = {}
    /\ part # "rules" => record.deprecated
    /\ part # "monitor" => ~loop

PricesRun == part = "prices" /\ UNCHANGED <<part, chats, turn, forks, metrics, explorer, proxy, lists, monitor, rules>>
JobsRun == part = "jobs" /\ UNCHANGED <<part, prices, turn, forks, metrics, explorer, proxy, lists, monitor, rules>>
TurnRun == part = "turn" /\ UNCHANGED <<part, prices, chats, forks, metrics, explorer, proxy, lists, monitor, rules>>
NodesRun == part = "nodes" /\ UNCHANGED <<part, prices, chats, turn, metrics, explorer, proxy, lists, monitor, rules>>
MetricsRun == part = "l2" /\ UNCHANGED <<part, prices, chats, turn, forks, explorer, proxy, lists, monitor, rules>>
ExplorerRun == part = "explorer" /\ UNCHANGED <<part, prices, chats, turn, forks, metrics, proxy, lists, monitor, rules>>
ProxyRun == part = "proxy" /\ UNCHANGED <<part, prices, chats, turn, forks, metrics, explorer, lists, monitor, rules>>
ListsRun == part = "lists" /\ UNCHANGED <<part, prices, chats, turn, forks, metrics, explorer, proxy, monitor, rules>>
MonitorRuns == part = "monitor" /\ UNCHANGED <<part, prices, chats, turn, forks, metrics, explorer, proxy, lists, rules>>
RulesRun == part = "rules" /\ UNCHANGED <<part, prices, chats, turn, forks, metrics, explorer, proxy, lists, monitor>>

\* Each job has had its removal; the run is over.
Over ==
    \/ part = "jobs" /\ \A j \in Job : timer[j] = "fired"
    \/ part = "turn" /\ step = "done"
    \/ part = "explorer" /\ hour = MaxHours
    \/ part = "proxy" /\ minute = MaxMinutes
    \/ part = "monitor" /\ Len(cycles) = MaxCycles
    \/ part = "rules" /\ today = MaxToday /\ loads = MaxLoads

ServicesNext ==
    \/ PricesRun /\ Next
    \/ JobsRun /\ T!JobsNext
    \/ TurnRun /\ T!RunNext
    \/ NodesRun /\ K!Next
    \/ MetricsRun /\ G!Next
    \/ ExplorerRun /\ B!Next
    \/ ProxyRun /\ F!Next
    \/ ListsRun /\ Q!Next
    \/ MonitorRuns /\ O!Next
    \/ RulesRun /\ H!Next
    \/ Over /\ UNCHANGED everything

ServicesSpec == ServicesInit /\ [][ServicesNext]_everything

-----------------------------------------------------------------------------
(* The properties of the instances                                         *)

\* Who was told to poll a job finds it (routes/assistant.js:90), and a question is refused
\* only when the last provider was tried (assistant.js:209).
AnswersAreGiven == T!PromisedAnswersWait /\ T!FallbackGetsItsTry

\* What is kept is what would be built now: the forks (nodeForkSchedule.js:105), and the
\* list of chains (queries.js:80).
NothingStaleIsServed == K!MemoIsCurrent /\ Q!ListsAreCurrent

\* What was learned stays (nodeForkSchedule.js:97), and so does a good copy
\* (growthepie.js:345).
WhatIsKnownStays == K!KnowledgeStays /\ G!GoodCopyStays

\* Requests to explorers leave apart (blockscout.js:25).
PaceHolds == B!RequestsArePaced

\* What is kept and reported can be relied on: kept bodies are counted right and within
\* both bounds (clientFeed.js:48), a mean is of whole windows (growthepie.js:466), what
\* has a name is above what only carries it (queries.js:110), and what the monitor shows
\* is of one cycle (rpcMonitor.js:190).
ReportsAreSound ==
    F!CacheIsBounded /\ G!MeansAreOfWholeWindows /\ Q!NamedIsAboveLookalikes /\ O!FindingsAreOfOneCycle

\* A network called dead was silent all the while (validation.js:538), and what the
\* registries are asked to mend is what they say now (validation.js:471, 594).
VerdictsAreOfNow == H!DeadMeansSilent /\ H!FindingsAreOfTheRegistry
=============================================================================
