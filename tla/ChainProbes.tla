----------------------------- MODULE ChainProbes -----------------------------
(***************************************************************************)
(* Probing the RPC endpoints of chains (src/src/services/chainRefresher.js)*)
(* and what the cache says of them while reloads replace the data.         *)
(*                                                                         *)
(* processChainRpc runs in two synchronous pieces around its one await:    *)
(* the first picks the URLs and sends the probes, the second takes all the *)
(* answers at once.  Between them anything else may run: a reload of the   *)
(* registries, another probe of the same chain, a probe of a chain that    *)
(* lists the same URL.  Probes are sent by the refresher's tick, one job   *)
(* at a time (SweepScheduler says which chain), and by requests for a      *)
(* chain that has no results yet, one per chain at a time.                 *)
(*                                                                         *)
(* Abstracted: a URL's result is one of three statuses; how long a         *)
(* back-off or a cool-down lasts; MAX_ENDPOINTS_PER_CHAIN (a registry      *)
(* lists no more URLs for a chain than are probed at once).                *)
(***************************************************************************)
EXTENDS Naturals, TLC, TLAPS

CONSTANTS
    Chain,        \* chain IDs
    Url,          \* HTTP(S) endpoints without an API key placeholder
    Provider,     \* registrable domains
    ProviderOf,   \* providerOf: the provider of each URL
    Registries,   \* what a load may find: functions from some chains to their URLs
    Demands,      \* the sets of chains whose results requests may ask for
    Tick,         \* the refresher's tick, as a sender of probes
    Idle,         \* no probe under way
    Stamps        \* bound: values of cachedData.lastUpdated, reused when forgotten

ASSUME ProbesAssumption ==
    /\ ProviderOf \in [Url -> Provider]
    /\ Registries # {}
    /\ \A r \in Registries : DOMAIN r \subseteq Chain /\ \A c \in DOMAIN r : r[c] \subseteq Url
    /\ Demands \subseteq SUBSET Chain
    /\ Tick \notin Chain

\* ok; not working; not working because the provider limits us.
Status == {"ok", "down", "limited"}

\* What checkRpcEndpoint may find.  "ok_limited": it serves blocks, but its
\* eth_chainId was refused for our volume.  "denied": HTTP 401 or 403.
Outcome == Status \cup {"ok_limited", "denied"}

Job == [chain : Chain, stamp : Stamps, probed : SUBSET Url, deferred : SUBSET Url]

VARIABLES
    index,       \* the rpc list of every chain of cachedData.indexed
    stamp,       \* cachedData.lastUpdated
    health,      \* cachedData.rpcHealth: for each chain the status of each URL
    private,     \* privateUrls
    throttled,   \* providers in throttledProviders whose back-off still runs
    job,         \* the probe each sender waits for
    cooling,     \* chains under ON_DEMAND_NO_RESULT_COOLDOWN_MS
    onDemand,    \* the chains that requests ask for, which stay the same
    owed         \* history: providers that limited us and are owed a back-off

vars == <<index, stamp, health, private, throttled, job, cooling, onDemand, owed>>

Sender == {Tick} \cup onDemand

Busy == {s \in Sender : job[s] # Idle}

\* A tick's probe is of any chain; a request's is of the chain it asks for.
TypeOK ==
    /\ DOMAIN index \subseteq Chain
    /\ \A c \in DOMAIN index : index[c] \subseteq Url
    /\ stamp \in Stamps
    /\ DOMAIN health = Chain
    /\ \A c \in Chain : /\ DOMAIN health[c] \subseteq Url
                        /\ \A u \in DOMAIN health[c] : health[c][u] \in Status
    /\ private \subseteq Url
    /\ throttled \subseteq Provider /\ owed \subseteq Provider
    /\ job \in [Sender -> Job \cup {Idle}]
    /\ \A s \in Busy : job[s].probed # {} /\ (s # Tick => job[s].chain = s)
    /\ onDemand \in Demands /\ cooling \subseteq onDemand

-----------------------------------------------------------------------------
(* Operators                                                               *)

\* A list or a result map with some URLs left out.
Without(f, U) == [u \in DOMAIN f \ U |-> f[u]]

NoHealth == [c \in Chain |-> [u \in {} |-> "down"]]

\* stripPrivateRpcs, on the chains' lists and on the results.
StripIndex(r, U) == [c \in DOMAIN r |-> r[c] \ U]

\* Mutant: the results are not handed to stripPrivateRpcs.
StripHealthForgotten(h, U) == [c \in Chain |-> h[c]]

StripHealth(h, U) == [c \in Chain |-> Without(h[c], U)]

Listed(c) == IF c \in DOMAIN index THEN index[c] ELSE {}

Probeable(c) == Listed(c) \ private

Throttled(U) == {u \in U : ProviderOf[u] \in throttled}

Denied(found) == {u \in DOMAIN found : found[u] = "denied"}

Limiting(found) ==
    {ProviderOf[u] : u \in {v \in DOMAIN found : found[v] \in {"limited", "ok_limited"}}}

Serving(found) ==
    {ProviderOf[u] : u \in {v \in DOMAIN found : found[v] \in {"ok", "ok_limited"}}}

\* Mutant: a success lifts the back-off that a refusal beside it asks for.
ThrottledAfterSuccessWins(found) == (throttled \cup Limiting(found)) \ Serving(found)

\* noteProviderResponses: a refusal in the batch outranks a success beside it.
ThrottledAfter(found) == (throttled \ Serving(found)) \cup Limiting(found)

\* What a job records: of a probed URL what was found, of a deferred one the
\* result it has when the job ends, or the placeholder when it has none.
Results(c, found, deferred) ==
    [u \in (DOMAIN found \cup deferred) \ Denied(found) |->
        IF u \notin DOMAIN found
        THEN IF u \in DOMAIN health[c] THEN health[c][u] ELSE "limited"
        ELSE IF found[u] = "ok_limited" THEN "ok" ELSE found[u]]

\* Mutant: no race guard.
SameDataAlways(s) == s \in Stamps

\* The race guard: the cache still holds the data the probe started from.
SameData(s) == stamp = s

\* A URL found private leaves the live lists, whatever data they come from.
StripFound(found, s) ==
    IF Denied(found) # {} THEN index' = StripIndex(index, private \cup Denied(found))
                          ELSE UNCHANGED index

\* The second piece of processChainRpc for chain c, `found` being the outcome
\* of each probed URL and s the stamp of the data the probe started from.
TakeAnswers(c, found, deferred, s) ==
    LET results == Results(c, found, deferred)
        kept    == IF Denied(found) = {} THEN health
                   ELSE StripHealth(health, private \cup Denied(found))
    IN  /\ throttled' = ThrottledAfter(found)
        /\ owed' = owed \cup Limiting(found)
        /\ private' = private \cup Denied(found)
        /\ StripFound(found, s)
        /\ health' = IF SameData(s) THEN [kept EXCEPT ![c] = results] ELSE kept

\* ensureChainRpcResults, after its probe: no results, no new probe for a while.
CoolDown(s) ==
    cooling' = IF s # Tick /\ DOMAIN health'[s] = {} THEN cooling \cup {s} ELSE cooling

-----------------------------------------------------------------------------
(* Actions                                                                 *)

Init ==
    /\ onDemand \in Demands
    /\ index \in Registries
    /\ stamp \in Stamps
    /\ health = NoHealth
    /\ private = {}
    /\ throttled = {} /\ owed = {}
    /\ job = [s \in Sender |-> Idle]
    /\ cooling = {}

\* The sender may ask for a probe of c: the tick for any chain of its sweep, a
\* request when the chain is served, has no results and is not cooling down.
MayProbe(s, c) ==
    /\ s \in Sender
    /\ job[s] = Idle
    /\ s # Tick => c = s /\ c \in DOMAIN index /\ DOMAIN health[c] = {} /\ c \notin cooling

\* The first piece of processChainRpc: every URL that is not private and whose
\* provider is not backed off is probed.
SendProbes(s, c) ==
    LET urls == Probeable(c)
        new  == [chain |-> c, stamp |-> stamp,
                 probed |-> urls \ Throttled(urls), deferred |-> Throttled(urls)]
    IN  /\ MayProbe(s, c)
        /\ new.probed # {}
        /\ job' = [job EXCEPT ![s] = new]
            /\ UNCHANGED <<index, stamp, health, private, throttled, cooling, onDemand, owed>>

\* All URLs are deferred: there is nothing to wait for, and the second piece
\* follows at once.
DeferAll(s, c) ==
    LET urls == Probeable(c)
    IN  /\ MayProbe(s, c)
        /\ urls # {} /\ urls = Throttled(urls)
        /\ TakeAnswers(c, [u \in {} |-> "ok"], urls, stamp)
        /\ CoolDown(s)
        /\ UNCHANGED <<stamp, job, onDemand>>

\* Nothing to probe: the request goes away with nothing, and cools down.
NothingToProbe(c) ==
    /\ c \in onDemand
    /\ MayProbe(c, c)
    /\ Probeable(c) = {}
    /\ cooling' = cooling \cup {c}
    /\ UNCHANGED <<index, stamp, health, private, throttled, job, onDemand, owed>>

\* All answers of a job are in; each probe ends within RPC_CHECK_TIMEOUT_MS.
AnswersArrive(s) ==
    /\ job[s] # Idle
    /\ \E found \in [job[s].probed -> Outcome] :
          TakeAnswers(job[s].chain, found, job[s].deferred, job[s].stamp)
    /\ job' = [job EXCEPT ![s] = Idle]
    /\ CoolDown(s)
    /\ UNCHANGED <<stamp, onDemand>>

\* applyDataToCache, by a reload that keeps the results or starts them afresh.
\* A stamp no job remembers is as good as a new one.
Reload ==
    /\ \E r \in Registries : index' = StripIndex(r, private)
    /\ stamp' \in Stamps \ ({stamp} \cup {job[s].stamp : s \in Busy})
    /\ \E h \in {health, NoHealth} : health' = StripHealth(h, private)
    /\ UNCHANGED <<private, throttled, job, cooling, onDemand, owed>>

BackoffPasses(p) ==
    /\ p \in throttled \cup owed
    /\ throttled' = throttled \ {p}
    /\ owed' = owed \ {p}
    /\ UNCHANGED <<index, stamp, health, private, job, cooling, onDemand>>

CooldownPasses(c) ==
    /\ c \in cooling
    /\ cooling' = cooling \ {c}
    /\ UNCHANGED <<index, stamp, health, private, throttled, job, onDemand, owed>>

Next ==
    \/ \E s \in Sender, c \in Chain : SendProbes(s, c) \/ DeferAll(s, c)
    \/ \E c \in onDemand : NothingToProbe(c)
    \/ \E s \in Sender : AnswersArrive(s)
    \/ Reload
    \/ \E p \in Provider : BackoffPasses(p)
    \/ \E c \in onDemand : CooldownPasses(c)

Spec == Init /\ [][Next]_vars

-----------------------------------------------------------------------------
(* Properties                                                              *)

\* "It is dropped from every chain's served `rpc` list": a URL that answered
\* 401/403 is listed by no chain, even when a reload lands while it is probed.
PrivateUnlisted == \A c \in DOMAIN index : index[c] \cap private = {}

\* "... and from rpcHealth": no results are reported for it either.
PrivateUnreported == \A c \in Chain : DOMAIN health[c] \cap private = {}

\* That holds while the tick alone sends probes; an overlapping job that saw the
\* URL before it was found private brings it back.
PrivateUnreportedByTick == onDemand = {} => PrivateUnreported

\* Both halves of the promise, as far as the refresher is the one to keep it.
PrivateStaysOut == PrivateUnlisted /\ PrivateUnreportedByTick

RespectsBackoff ==
    \A s \in Sender : job[s] = Idle /\ job'[s] # Idle =>
        \A u \in job'[s].probed : ProviderOf[u] \notin owed

\* "Once a provider limits us, its endpoints are not probed again until a
\* back-off passes."
BackoffRespected == [][RespectsBackoff]_vars

\* That, too, holds while the tick alone sends probes: the answers to an older
\* probe take back the back-off a newer one asked for.
BackoffRespectedByTick == [][onDemand = {} => RespectsBackoff]_vars

\* No results of one data version land in another: a URL that gains a result
\* for a chain is one that the chain lists now, or was just found private.
ResultsAreOfListed ==
    [][\A c \in Chain : DOMAIN health'[c] \ DOMAIN health[c] \subseteq
          private' \cup Listed(c)]_vars

-----------------------------------------------------------------------------
(* An instance for the runs: chains 1 and 2 share the URL a1, and two      *)
(* providers serve three URLs.  A reload finds both chains, or chain 1 with*)
(* one URL less and chain 2 gone.  As many stamps as probes under way, plus*)
(* the live one and a fresh one.                                           *)

Providers == [a1 |-> "A", a2 |-> "A", b1 |-> "B"]

FullOrReduced == {[c \in {1, 2} |-> IF c = 1 THEN {"a1", "b1"} ELSE {"a1", "a2"}], [c \in {1} |-> {"b1"}]}

\* Stamps are only compared, so they may be swapped.
StampSymmetry == Permutations(Stamps)

-----------------------------------------------------------------------------
(* Proofs, for all chains, URLs, providers and registries.  A private URL  *)
(* stays unlisted whoever sends probes.  That it stays unreported, and     *)
(* that a back-off is respected, hold for a refresher that is the only     *)
(* sender: between a probe and its answers nobody else then marks a URL or *)
(* limits a provider.                                                      *)

\* "It is dropped from every chain's served `rpc` list" (privateRpcStore.js:10-14),
\* for every interleaving of reloads with probes of the tick and of requests.
THEOREM PrivateStaysUnlisted == Spec => []PrivateUnlisted
<1>1. Init => PrivateUnlisted
    BY DEF Init, PrivateUnlisted
<1>2. PrivateUnlisted /\ [Next]_vars => PrivateUnlisted'
    <2> SUFFICES ASSUME PrivateUnlisted, [Next]_vars PROVE PrivateUnlisted'
        OBVIOUS
    <2>1. ASSUME NEW c, NEW found, NEW deferred, NEW s, TakeAnswers(c, found, deferred, s)
          PROVE  PrivateUnlisted'
        <3>1. CASE Denied(found) = {}
            BY <2>1, <3>1 DEF TakeAnswers, StripFound, PrivateUnlisted
        <3>2. CASE Denied(found) # {}
            BY <2>1, <3>2 DEF TakeAnswers, StripFound, StripIndex, PrivateUnlisted
        <3> QED BY <3>1, <3>2
    <2>2. ASSUME NEW s \in Sender, NEW c \in Chain, SendProbes(s, c) \/ DeferAll(s, c)
          PROVE  PrivateUnlisted'
        BY <2>1, <2>2 DEF SendProbes, DeferAll, PrivateUnlisted
    <2>3. ASSUME NEW s \in Sender, AnswersArrive(s) PROVE PrivateUnlisted'
        BY <2>1, <2>3 DEF AnswersArrive
    <2>4. CASE Reload
        BY <2>4 DEF Reload, StripIndex, PrivateUnlisted
    <2>5. CASE UNCHANGED <<index, private>>
        BY <2>5 DEF PrivateUnlisted
    <2> QED BY <2>2, <2>3, <2>4, <2>5
            DEF Next, NothingToProbe, BackoffPasses, CooldownPasses, vars
<1> QED BY <1>1, <1>2, PTL DEF Spec

-----------------------------------------------------------------------------
(* The race guard                                                          *)

\* Requests ask for the same chains throughout.
LEMMA DemandStays == [Next]_vars => onDemand' = onDemand
BY DEF Next, SendProbes, DeferAll, NothingToProbe, AnswersArrive, Reload, BackoffPasses,
       CooldownPasses, vars

\* A probe that started from the live data is of URLs its chain lists, but for
\* those that were found private since.
GuardInv ==
    /\ DOMAIN job = Sender
    /\ DOMAIN health = Chain
    /\ \A s \in Sender : job[s] # Idle /\ job[s].stamp = stamp =>
           job[s].probed \cup job[s].deferred \subseteq private \cup Listed(job[s].chain)

\* What a job records has no denied URL, and no URL it did not set out with.
LEMMA ResultsDomain ==
    ASSUME NEW c, NEW found, NEW deferred
    PROVE  DOMAIN Results(c, found, deferred) = (DOMAIN found \cup deferred) \ Denied(found)
BY DEF Results

\* The lists lose a URL only by its being private.
LEMMA AnswersKeepLists ==
    ASSUME NEW c, NEW found, NEW deferred, NEW s, TakeAnswers(c, found, deferred, s), NEW d
    PROVE  /\ private \subseteq private'
           /\ private \cup Listed(d) \subseteq (private \cup Listed(d))'
BY DEF TakeAnswers, StripFound, StripIndex, Listed

\* Answers for listed URLs give results to listed URLs only, and to chain c alone.
LEMMA AnswersOfListed ==
    ASSUME DOMAIN health = Chain, NEW c, NEW found, NEW deferred, NEW s,
           SameData(s) => DOMAIN found \cup deferred \subseteq private \cup Listed(c),
           TakeAnswers(c, found, deferred, s), NEW d \in Chain
    PROVE  DOMAIN health'[d] \ DOMAIN health[d] \subseteq private' \cup Listed(d)
<1> DEFINE kept == IF Denied(found) = {} THEN health
                   ELSE StripHealth(health, private \cup Denied(found))
<1>1. DOMAIN kept = Chain /\ DOMAIN kept[d] \subseteq DOMAIN health[d]
    BY DEF StripHealth, Without
<1>2. DOMAIN Results(c, found, deferred) \subseteq DOMAIN found \cup deferred
    <2>1. DOMAIN Results(c, found, deferred) = (DOMAIN found \cup deferred) \ Denied(found)
        BY ResultsDomain
    <2> QED BY <2>1
<1>3. health' = IF SameData(s) THEN [kept EXCEPT ![c] = Results(c, found, deferred)] ELSE kept
    BY DEF TakeAnswers
<1>4. private \subseteq private'
    BY AnswersKeepLists
<1> HIDE DEF kept
<1> QED BY <1>1, <1>2, <1>3, <1>4

\* No step makes GuardInv false: a reload takes a stamp that no job remembers.
LEMMA GuardStep == GuardInv /\ [Next]_vars => GuardInv'
<1> SUFFICES ASSUME GuardInv, [Next]_vars PROVE GuardInv'
    OBVIOUS
<1>0. Sender' = Sender
    BY DemandStays DEF Sender
<1>1. ASSUME NEW s \in Sender, NEW c \in Chain, SendProbes(s, c) PROVE GuardInv'
    <2> DEFINE urls == Probeable(c)
               new  == [chain |-> c, stamp |-> stamp,
                        probed |-> urls \ Throttled(urls), deferred |-> Throttled(urls)]
    <2>1. job' = [job EXCEPT ![s] = new] /\ UNCHANGED <<index, stamp, health, private>>
        BY <1>1 DEF SendProbes
    <2>2. new.chain = c /\ new.probed \cup new.deferred \subseteq Listed(c)
        BY DEF Probeable, Throttled
    <2> HIDE DEF new
    <2> QED BY <1>0, <2>1, <2>2 DEF GuardInv, Listed
<1>2. ASSUME NEW c, NEW found, NEW deferred, NEW s, TakeAnswers(c, found, deferred, s),
             UNCHANGED stamp, DOMAIN job' = DOMAIN job,
             \A t \in Sender : job'[t] # Idle => job'[t] = job[t]
      PROVE  GuardInv'
    <2>1. DOMAIN health' = Chain
        BY <1>2 DEF TakeAnswers, StripHealth, GuardInv
    <2>2. ASSUME NEW t \in Sender, job'[t] # Idle, job'[t].stamp = stamp
          PROVE  job'[t].probed \cup job'[t].deferred \subseteq
                     (private \cup Listed(job[t].chain))'
        <3>1. job'[t] = job[t]
            BY <1>2, <2>2
        <3>2. job[t].probed \cup job[t].deferred \subseteq private \cup Listed(job[t].chain)
            BY <2>2, <3>1 DEF GuardInv
        <3>3. PICK d : d = job[t].chain
            OBVIOUS
        <3>4. private \cup Listed(d) \subseteq (private \cup Listed(d))'
            BY <1>2, AnswersKeepLists
        <3>5. (Listed(job[t].chain))' = (Listed(d))'
            BY <3>1, <3>3 DEF Listed
        <3> QED BY <3>1, <3>2, <3>3, <3>4, <3>5
    <2> QED BY <1>0, <1>2, <2>1, <2>2 DEF GuardInv
<1>3. ASSUME NEW s \in Sender, NEW c \in Chain, DeferAll(s, c) PROVE GuardInv'
    BY <1>2, <1>3 DEF DeferAll
<1>4. ASSUME NEW s \in Sender, AnswersArrive(s) PROVE GuardInv'
    BY <1>2, <1>4 DEF AnswersArrive, GuardInv
<1>5. CASE Reload
    <2>1. \A s \in Sender : job[s] # Idle => job[s].stamp # stamp'
        BY <1>5 DEF Reload, Busy
    <2>2. DOMAIN health' = Chain /\ UNCHANGED job
        BY <1>5 DEF Reload, StripHealth
    <2> QED BY <1>0, <2>1, <2>2 DEF GuardInv
<1>6. CASE UNCHANGED <<index, stamp, health, private, job>>
    BY <1>0, <1>6 DEF GuardInv, Listed
<1> QED BY <1>1, <1>3, <1>4, <1>5, <1>6
        DEF Next, NothingToProbe, BackoffPasses, CooldownPasses, vars

\* "A concurrent loadData() may have replaced the cache" (chainRefresher.js:279):
\* no results of one data version land in another, whoever sends probes.
THEOREM ResultsStayWithTheirData == Spec => ResultsAreOfListed
<1>1. Init => GuardInv
    BY DEF Init, GuardInv, NoHealth
<1>2. GuardInv /\ [Next]_vars =>
        [\A c \in Chain : DOMAIN health'[c] \ DOMAIN health[c] \subseteq
             private' \cup Listed(c)]_vars
    <2> SUFFICES ASSUME GuardInv, Next, NEW d \in Chain
                 PROVE  DOMAIN health'[d] \ DOMAIN health[d] \subseteq private' \cup Listed(d)
        OBVIOUS
    <2>1. ASSUME NEW s \in Sender, NEW c \in Chain, DeferAll(s, c)
          PROVE  DOMAIN health'[d] \ DOMAIN health[d] \subseteq private' \cup Listed(d)
        <3> DEFINE none == [u \in {} |-> "ok"]
        <3>1. TakeAnswers(c, none, Throttled(Probeable(c)), stamp)
            BY <2>1 DEF DeferAll
        <3>2. DOMAIN none \cup Throttled(Probeable(c)) \subseteq private \cup Listed(c)
            BY DEF Throttled, Probeable
        <3> QED BY <3>1, <3>2, AnswersOfListed DEF GuardInv
    <2>2. ASSUME NEW s \in Sender, AnswersArrive(s)
          PROVE  DOMAIN health'[d] \ DOMAIN health[d] \subseteq private' \cup Listed(d)
        <3>1. PICK found \in [job[s].probed -> Outcome] :
                  TakeAnswers(job[s].chain, found, job[s].deferred, job[s].stamp)
            BY <2>2 DEF AnswersArrive
        <3>2. SameData(job[s].stamp) =>
                  DOMAIN found \cup job[s].deferred \subseteq private \cup Listed(job[s].chain)
            BY <2>2 DEF AnswersArrive, SameData, GuardInv
        <3> QED BY <3>1, <3>2, AnswersOfListed DEF GuardInv
    <2>3. CASE Reload
        BY <2>3 DEF Reload, StripHealth, Without, NoHealth, GuardInv
    <2>4. CASE UNCHANGED health
        BY <2>4
    <2> QED BY <2>1, <2>2, <2>3, <2>4
            DEF Next, SendProbes, NothingToProbe, BackoffPasses, CooldownPasses
<1>3. Spec => []GuardInv
    BY <1>1, GuardStep, PTL DEF Spec
<1> QED BY <1>2, <1>3, PTL DEF Spec, ResultsAreOfListed

-----------------------------------------------------------------------------
(* The tick alone                                                          *)

\* No result is kept for a private URL, and none is awaited.
ReportInv ==
    /\ DOMAIN job = {Tick}
    /\ DOMAIN health = Chain
    /\ PrivateUnreported
    /\ job[Tick] # Idle => (job[Tick].probed \cup job[Tick].deferred) \cap private = {}

\* A provider that is owed a back-off is backed off, and none of its URLs is
\* being probed.
BackoffInv ==
    /\ DOMAIN job = {Tick}
    /\ owed \subseteq throttled
    /\ job[Tick] # Idle => \A u \in job[Tick].probed : ProviderOf[u] \notin owed

\* Answers for URLs that were not private leave no private URL reported.
LEMMA AnswersReport ==
    ASSUME DOMAIN health = Chain, PrivateUnreported,
           NEW c, NEW found, NEW deferred, NEW s,
           (DOMAIN found \cup deferred) \cap private = {},
           TakeAnswers(c, found, deferred, s)
    PROVE  DOMAIN health' = Chain /\ PrivateUnreported'
<1> DEFINE kept == IF Denied(found) = {} THEN health
                   ELSE StripHealth(health, private \cup Denied(found))
<1>1. private' = private \cup Denied(found)
    BY DEF TakeAnswers
<1>2. DOMAIN kept = Chain /\ \A d \in Chain : DOMAIN kept[d] \cap private' = {}
    <2>1. CASE Denied(found) = {}
        BY <1>1, <2>1 DEF PrivateUnreported
    <2>2. CASE Denied(found) # {}
        BY <1>1, <2>2 DEF StripHealth, Without
    <2> QED BY <2>1, <2>2
<1>3. DOMAIN Results(c, found, deferred) \cap private' = {}
    <2>1. DOMAIN Results(c, found, deferred) = (DOMAIN found \cup deferred) \ Denied(found)
        BY ResultsDomain
    <2> QED BY <1>1, <2>1
<1>4. health' = IF SameData(s) THEN [kept EXCEPT ![c] = Results(c, found, deferred)] ELSE kept
    BY DEF TakeAnswers
<1> HIDE DEF kept
<1> QED BY <1>2, <1>3, <1>4 DEF PrivateUnreported

\* As long as no request sends a probe, no step makes ReportInv false.
LEMMA ReportStep == onDemand = {} /\ ReportInv /\ [Next]_vars => ReportInv'
<1> SUFFICES ASSUME onDemand = {}, ReportInv, [Next]_vars PROVE ReportInv'
    OBVIOUS
<1>0. Sender = {Tick}
    BY DEF Sender
<1> USE DEF ReportInv
<1>1. ASSUME NEW s \in Sender, NEW c \in Chain, SendProbes(s, c) PROVE ReportInv'
    <2> DEFINE urls == Probeable(c)
               new  == [chain |-> c, stamp |-> stamp,
                        probed |-> urls \ Throttled(urls), deferred |-> Throttled(urls)]
    <2>1. s = Tick /\ job' = [job EXCEPT ![s] = new] /\ UNCHANGED <<health, private>>
        BY <1>0, <1>1 DEF SendProbes
    <2>2. (new.probed \cup new.deferred) \cap private = {}
        BY DEF Probeable, Throttled
    <2> HIDE DEF new
    <2> QED BY <2>1, <2>2 DEF PrivateUnreported
<1>2. ASSUME NEW s \in Sender, NEW c \in Chain, DeferAll(s, c) PROVE ReportInv'
    <2> DEFINE none == [u \in {} |-> "ok"]
    <2>1. TakeAnswers(c, none, Throttled(Probeable(c)), stamp) /\ UNCHANGED job
        BY <1>2 DEF DeferAll
    <2>2. (DOMAIN none \cup Throttled(Probeable(c))) \cap private = {}
        BY DEF Throttled, Probeable
    <2>3. job[Tick] = Idle
        BY <1>0, <1>2 DEF DeferAll, MayProbe
    <2> QED BY <2>1, <2>2, <2>3, AnswersReport
<1>3. ASSUME NEW s \in Sender, AnswersArrive(s) PROVE ReportInv'
    <2>1. s = Tick /\ job[s] # Idle /\ job' = [job EXCEPT ![s] = Idle]
        BY <1>0, <1>3 DEF AnswersArrive
    <2>2. PICK found \in [job[s].probed -> Outcome] :
              TakeAnswers(job[s].chain, found, job[s].deferred, job[s].stamp)
        BY <1>3 DEF AnswersArrive
    <2>3. (DOMAIN found \cup job[s].deferred) \cap private = {}
        BY <2>1
    <2> QED BY <2>1, <2>2, <2>3, AnswersReport
<1>4. CASE Reload
    BY <1>4 DEF Reload, StripHealth, Without, PrivateUnreported
<1>5. CASE UNCHANGED <<health, private, job>>
    BY <1>5 DEF PrivateUnreported
<1> QED BY <1>1, <1>2, <1>3, <1>4, <1>5
        DEF Next, NothingToProbe, BackoffPasses, CooldownPasses, vars

\* "... and from rpcHealth" (privateRpcStore.js:10-14), for a refresher that is
\* the only one to send probes.
THEOREM PrivateStaysUnreported == Spec => []PrivateUnreportedByTick
<1> DEFINE Inv == onDemand = {} => ReportInv
<1>1. Init => Inv
    BY DEF Init, ReportInv, PrivateUnreported, NoHealth, Sender
<1>2. Inv /\ [Next]_vars => Inv'
    BY ReportStep, DemandStays
<1>3. Inv => PrivateUnreportedByTick
    BY DEF ReportInv, PrivateUnreportedByTick
<1> QED BY <1>1, <1>2, <1>3, PTL DEF Spec

\* Both halves of the promise of privateRpcStore.js:10-14.
THEOREM PrivateIsKeptOut == Spec => []PrivateStaysOut
<1>1. PrivateUnlisted /\ PrivateUnreportedByTick => PrivateStaysOut
    BY DEF PrivateStaysOut
<1> QED BY <1>1, PrivateStaysUnlisted, PrivateStaysUnreported, PTL

\* As long as no request sends a probe, no step makes BackoffInv false.
LEMMA BackoffStep == onDemand = {} /\ BackoffInv /\ [Next]_vars => BackoffInv'
<1> SUFFICES ASSUME onDemand = {}, BackoffInv, [Next]_vars PROVE BackoffInv'
    OBVIOUS
<1>0. Sender = {Tick}
    BY DEF Sender
<1> USE DEF BackoffInv
<1>1. ASSUME NEW s \in Sender, NEW c \in Chain, SendProbes(s, c) PROVE BackoffInv'
    BY <1>0, <1>1 DEF SendProbes, Throttled
<1>2. ASSUME NEW s \in Sender, NEW c \in Chain, DeferAll(s, c) PROVE BackoffInv'
    <2> DEFINE none == [u \in {} |-> "ok"]
    <2>1. TakeAnswers(c, none, Throttled(Probeable(c)), stamp) /\ UNCHANGED job
        BY <1>2 DEF DeferAll
    <2>2. Limiting(none) = {} /\ Serving(none) = {}
        BY DEF Limiting, Serving
    <2>3. UNCHANGED <<owed, throttled>>
        BY <2>1, <2>2 DEF TakeAnswers, ThrottledAfter
    <2> QED BY <2>1, <2>3
<1>3. ASSUME NEW s \in Sender, AnswersArrive(s) PROVE BackoffInv'
    <2>1. s = Tick /\ job[s] # Idle /\ job' = [job EXCEPT ![s] = Idle]
        BY <1>0, <1>3 DEF AnswersArrive
    <2>2. PICK found \in [job[s].probed -> Outcome] :
              TakeAnswers(job[s].chain, found, job[s].deferred, job[s].stamp)
        BY <1>3 DEF AnswersArrive
    <2>3. Serving(found) \cap owed = {}
        BY <2>1 DEF Serving
    <2>4. owed' \subseteq throttled'
        BY <2>2, <2>3 DEF TakeAnswers, ThrottledAfter
    <2> QED BY <2>1, <2>4
<1>4. CASE Reload
    BY <1>4 DEF Reload
<1>5. ASSUME NEW p \in Provider, BackoffPasses(p) PROVE BackoffInv'
    BY <1>5 DEF BackoffPasses
<1>6. CASE UNCHANGED <<throttled, owed, job>>
    BY <1>6
<1> QED BY <1>1, <1>2, <1>3, <1>4, <1>5, <1>6 DEF Next, NothingToProbe, CooldownPasses, vars

\* "Once a provider limits us, its endpoints are not probed again until a back-off
\* passes" (chainRefresher.js:81-82), for a refresher that is the only one to send
\* probes.
THEOREM BackoffIsRespected == Spec => BackoffRespectedByTick
<1> DEFINE Inv == onDemand = {} => BackoffInv
<1>1. Init => Inv
    BY DEF Init, BackoffInv, Sender
<1>2. Inv /\ [Next]_vars => Inv'
    BY BackoffStep, DemandStays
<1>3. Inv /\ [Next]_vars => [onDemand = {} => RespectsBackoff]_vars
    <2> SUFFICES ASSUME BackoffInv, Next, NEW s \in Sender, job[s] = Idle, job'[s] # Idle,
                        NEW u \in job'[s].probed
                 PROVE  ProviderOf[u] \notin owed
        BY DEF RespectsBackoff
    <2>1. ASSUME NEW t \in Sender, NEW c \in Chain, SendProbes(t, c)
          PROVE  ProviderOf[u] \notin owed
        <3>1. t = s /\ job'[s].probed = Probeable(c) \ Throttled(Probeable(c))
            BY <2>1 DEF SendProbes, BackoffInv
        <3> QED BY <3>1 DEF Throttled, BackoffInv
    <2>2. ASSUME NEW t \in Sender, AnswersArrive(t) PROVE ProviderOf[u] \notin owed
        BY <2>2 DEF AnswersArrive, BackoffInv
    <2>3. CASE UNCHANGED job
        BY <2>3
    <2> QED BY <2>1, <2>2, <2>3
            DEF Next, DeferAll, NothingToProbe, Reload, BackoffPasses, CooldownPasses
<1> QED BY <1>1, <1>2, <1>3, PTL DEF Spec, BackoffRespectedByTick
=============================================================================
