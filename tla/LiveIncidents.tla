--------------------------- MODULE LiveIncidents ---------------------------
(***************************************************************************)
(* The feed of live incidents as the server reads it                       *)
(* (src/src/sources/liveIncidents.js): the updates that were fetched last, *)
(* the incidents made of them, the chain each is about                     *)
(* (domain/incidentChains.js), what several providers say of one chain     *)
(* (services/chainIncidents.js), and the contradictions in it all          *)
(* (services/incidentSentinel.js).                                         *)
(*                                                                         *)
(* An update is [id, key, at, status, ongoing, page, isProvider, chains,   *)
(* queries, class, low, named, banner]: key is what groups updates of one  *)
(* incident, chains the declared ones in order, queries the candidates of  *)
(* its title, class and low what the model says and how sure it is, named  *)
(* the chains the model names, banner whether the text announces a window. *)
(* Updates of one incident have times of their own (of two of one time the *)
(* order they came in would tell).                                         *)
(***************************************************************************)
EXTENDS Integers, Sequences, FiniteSets, SequencesExt, FiniteSetsExt

CONSTANTS
    Update,
    Search,       \* [query -> Seq(chain)]: searchChains once the registry is loaded
    None,
    MaxAmbiguity, \* MAX_AMBIGUITY
    MinProviders, \* MIN_PROVIDERS
    CacheTtl,     \* LIVE_INCIDENTS_CACHE_TTL_MS
    MaxTime       \* bound: the clock

LiveAssumption ==
    /\ \A u \in Update : DOMAIN u = {"id", "key", "at", "status", "ongoing", "page", "isProvider", "chains",
                                     "queries", "class", "low", "named", "banner"}
    /\ \A u \in Update : u.chains = <<>> \/ 1 \in DOMAIN u.chains
    /\ \A u, v \in Update : u.at \in Nat /\ (u.key = v.key /\ u.at = v.at => u = v)

VARIABLES
    now,
    feed,        \* what the feed has
    registry,    \* the registry is loaded
    cache,       \* [fetchedAt, events, incidents, registry], or None
    pendingLoad,
    lastSummary  \* of the sentinel

vars == <<now, feed, registry, cache, pendingLoad, lastSummary>>

Maintenance == {"maintenance_scheduled", "maintenance_in_progress", "maintenance_completed"}
LiveStatuses == {"investigating", "identified", "monitoring"}
KnownStatuses == Maintenance \cup LiveStatuses \cup {"resolved", "operational"}
PlannedClasses == {"planned_hard_fork", "scheduled_maintenance"}
IncidentClasses == {"chain_halt", "provider_incident"}
KnownClasses == PlannedClasses \cup IncidentClasses \cup {"other"}

Init ==
    /\ now = 1
    /\ feed = {} /\ registry = FALSE /\ cache = None /\ pendingLoad = FALSE /\ lastSummary = None

-----------------------------------------------------------------------------
(* From updates to incidents                                               *)

Newest(updates) == CHOOSE u \in updates : \A v \in updates : v.at <= u.at

ConfidentClass(u) == u.class # None /\ ~u.low

\* Mutant: the newest update's own class is all there is.
AsTheNewest(u, updates) == u

\* The newest inherits the newest confident class of its earlier updates.
WithInherited(u, updates) ==
    LET classified == {v \in updates : ConfidentClass(v)}
    IN  IF ConfidentClass(u) \/ classified = {} THEN u
        ELSE LET v == Newest(classified) IN [u EXCEPT !.class = v.class, !.low = v.low, !.named = v.named]

DedupeEvents(events) ==
    {LET of == {u \in events : u.key = k} IN WithInherited(Newest(of), of) : k \in {u.key : u \in events}}

\* resolveIncidentChain: the declared chain, or what the first telling words find.
ResolveIncidentChain(u, loaded) ==
    LET Hits(q) == IF loaded THEN Search[q] ELSE <<>>
        telling == {i \in DOMAIN u.queries : Len(Hits(u.queries[i])) \in 1 .. MaxAmbiguity}
    IN  IF u.chains # <<>> THEN [chain |-> u.chains[1], evidence |-> "declared"]
        ELSE IF telling # {} THEN [chain |-> Hits(u.queries[Min(telling)])[1], evidence |-> "title"]
        ELSE None

\* attachChain: a chain read out of a title stays apart from declared ones.
DerivedChain(u, loaded) ==
    LET resolved == ResolveIncidentChain(u, loaded)
    IN  IF resolved # None /\ resolved.evidence # "declared" THEN resolved.chain ELSE None

AttachChain(u, loaded) ==
    [x \in DOMAIN u \cup {"derivedChain"} |-> IF x = "derivedChain" THEN DerivedChain(u, loaded) ELSE u[x]]

\* isPlannedClass, isPlannedGroup (plannedWork.js).
IsPlannedClass(u) == ConfidentClass(u) /\ u.class \in PlannedClasses

IsPlannedGroup(updates) ==
    \/ Newest(updates).status \in Maintenance
    \/ LET classified == {u \in updates : ConfidentClass(u)}
       IN  classified # {} /\ Newest(classified).class \in PlannedClasses

-----------------------------------------------------------------------------
(* What several providers say                                              *)

KindOf(it) == IF it.status \in Maintenance \/ IsPlannedClass(it) THEN "maintenance" ELSE "incident"

CorrelateChainIncidents(incidents) ==
    LET Counts(it) == it.isProvider /\ it.ongoing /\ ResolveIncidentChain(it, registry) # None
        About(it) == [chain |-> ResolveIncidentChain(it, registry).chain, kind |-> KindOf(it)]
        reports == {it \in incidents : Counts(it)}
        Group(about) == [chain |-> about.chain, kind |-> about.kind, reports |-> {it \in reports : About(it) = about}]
    IN  {g \in {Group(About(it)) : it \in reports} : Cardinality({it.page : it \in g.reports}) >= MinProviders}

Affects(it, chain) == chain \in ToSet(it.chains) \/ it.derivedChain = chain

\* getLiveIncidents, asked for what is going on with a chain.
OngoingOf(incidents, chain) == {it \in incidents : Affects(it, chain) /\ it.ongoing}

-----------------------------------------------------------------------------
(* The sentinel: which updates each rule hits                              *)

BuildIncidentSentinel(events) ==
    [S1 |-> {u \in events : u.status \notin KnownStatuses \cup {None}},
     S2 |-> {u \in events : u.class \in PlannedClasses /\ u.status \in LiveStatuses},
     S3 |-> {u \in events : u.class \in IncidentClasses /\ u.status \in Maintenance},
     S4 |-> {u \in events : u.ongoing /\ u.status \in {"resolved", "maintenance_completed"}},
     S5 |-> {u \in events : u.class \notin KnownClasses \cup {None}},
     S6 |-> {u \in events : u.banner /\ u.status \notin Maintenance \cup {None}},
     A1 |-> {u \in events : u.named \ ToSet(u.chains) # {}}]

-----------------------------------------------------------------------------
(* The cache                                                               *)

Publish(u) ==
    /\ u \notin feed
    /\ feed' = feed \cup {u}
    /\ UNCHANGED <<now, registry, cache, pendingLoad, lastSummary>>

RegistryLoads ==
    /\ ~registry /\ registry' = TRUE
    /\ UNCHANGED <<now, feed, cache, pendingLoad, lastSummary>>

\* loadIncidents: a young copy answers; others join the fetch that is under way.
LoadIncidents ==
    /\ ~pendingLoad
    /\ cache # None => now - cache.fetchedAt >= CacheTtl
    /\ pendingLoad' = TRUE
    /\ UNCHANGED <<now, feed, registry, cache, lastSummary>>

FetchEnds ==
    /\ pendingLoad /\ pendingLoad' = FALSE
    /\ LET events == {AttachChain(u, registry) : u \in feed}
       IN  cache' = [fetchedAt |-> now, events |-> events, incidents |-> DedupeEvents(events), registry |-> registry]
    /\ UNCHANGED <<now, feed, registry, lastSummary>>

\* The copy of before is served on.
FetchFails ==
    /\ pendingLoad /\ pendingLoad' = FALSE
    /\ UNCHANGED <<now, feed, registry, cache, lastSummary>>

\* inspectCachedIncidents: a report on what is there, without a fetch.
InspectCachedIncidents ==
    /\ cache # None
    /\ LET report == BuildIncidentSentinel(cache.events)
       IN  lastSummary' = [r \in DOMAIN report |-> Cardinality(report[r])]
    /\ UNCHANGED <<now, feed, registry, cache, pendingLoad>>

Tick ==
    /\ now < MaxTime
    /\ now' = now + 1
    /\ UNCHANGED <<feed, registry, cache, pendingLoad, lastSummary>>

Next ==
    \/ RegistryLoads \/ LoadIncidents \/ FetchEnds \/ FetchFails \/ InspectCachedIncidents \/ Tick
    \/ \E u \in Update : Publish(u)

Spec == Init /\ [][Next]_vars

-----------------------------------------------------------------------------
(* Properties                                                              *)

\* "or planned work posted under an incident status would be read as an outage here
\* (chain-level correlation) and as maintenance there (/upgrades, provider stats)"
\* (liveIncidents.js:178-180): both make the same of an incident's updates.
PlannedIsNoOutage ==
    cache # None => \A it \in cache.incidents :
        KindOf(it) = "maintenance" <=> IsPlannedGroup({u \in cache.events : u.key = it.key})

\* What several providers report of a chain is found by asking for that chain
\* (liveIncidents.js:85-89), unless the registry came after the feed.
TroubleIsFound ==
    cache # None /\ cache.registry = registry =>
        \A g \in CorrelateChainIncidents(cache.incidents) : g.reports \subseteq OngoingOf(cache.incidents, g.chain)
=============================================================================
