---------------------------- MODULE ProviderStats ----------------------------
(***************************************************************************)
(* What is made of the updates of RPC providers' status pages: which of    *)
(* them are one incident or one planned window (groupEventsByIncident,     *)
(* plannedWork.js), how long an incident lasted and what it cost           *)
(* (providerStats.js), and when a planned window runs and what followed it *)
(* (upgrades.js).  The feed hands updates over in any order.               *)
(*                                                                         *)
(* One provider.  An entry keeps its title and its chains; of its statuses *)
(* one stands for all that leave an incident open, and "unknown" for an    *)
(* open one of no known kind.  Times are counted in parts of a day.  Two   *)
(* updates under one title have different times.                           *)
(***************************************************************************)
EXTENDS Integers, Sequences, FiniteSets, FiniteSetsExt, SequencesExt

CONSTANTS
    Entry,          \* incidentIds
    TitleOf,        \* [Entry -> titles], after normalizeIncidentTitle
    ChainsOf,       \* [Entry -> sets of chains]
    ChainsListed,   \* coverage.chainsListed
    DayLength,      \* parts of a day
    SparkDays,      \* days of the sparkline
    Spans,          \* the availability windows
    StaleAfter,     \* PROVIDER_INCIDENT_STALE_MS
    FollowWindow,   \* FOLLOW_WINDOW_MS
    MaxTime,        \* bound: the last time of an update
    MaxUpdates      \* bound: updates published

VARIABLES
    events,  \* the updates the feed has handed over
    now

vars == <<events, now>>

IncidentStatuses == {"investigating", "resolved"}
MaintenanceStatuses == {"maintenance_scheduled", "maintenance_in_progress", "maintenance_completed"}

\* class: what the update is confidently classed as; window: the body states one.
Update ==
    [entry : Entry, at : 0..MaxTime, status : IncidentStatuses, class : {"none", "planned", "other"}, window : {FALSE}]
        \cup [entry : Entry, at : 0..MaxTime, status : {"unknown"}, class : {"none", "other"}, window : {FALSE}]
        \cup [entry : Entry, at : 0..MaxTime, status : MaintenanceStatuses, class : {"none"}, window : BOOLEAN]
        \cup [entry : Entry, at : 0..MaxTime, status : {"maintenance_scheduled"}, class : {"other"}, window : {FALSE}]

Ongoing(u) == u.status \in {"investigating", "unknown", "maintenance_in_progress"}

-----------------------------------------------------------------------------
(* Groups                                                                  *)

First(g) == CHOOSE u \in g : \A v \in g : u.at <= v.at
Latest(g) == CHOOSE u \in g : \A v \in g : u.at >= v.at

\* The newest status, else the newest confident class.
IsPlannedGroup(g) ==
    LET classed == {u \in g : u.class # "none"} IN
    \/ Latest(g).status \in MaintenanceStatuses
    \/ classed # {} /\ Latest(classed).class = "planned"

ByEntry == {{u \in events : u.entry = e} : e \in Entry} \ {{}}

TitleOfGroup(g) == TitleOf[Latest(g).entry]

\* An announcement and its window are two entries of one title.
OneRollout(g, h) == IsPlannedGroup(g) /\ IsPlannedGroup(h) /\ TitleOfGroup(g) = TitleOfGroup(h)

GroupEventsByIncident ==
    {UNION {h \in ByEntry : h = g \/ OneRollout(g, h)} : g \in ByEntry}

IncidentGroups ==
    {g \in GroupEventsByIncident : ~IsPlannedGroup(g) /\ Latest(g).status \in IncidentStatuses}

PlannedGroups == {g \in GroupEventsByIncident : IsPlannedGroup(g)}

Chains(g) == UNION {ChainsOf[u.entry] : u \in g}

-----------------------------------------------------------------------------
(* How long an incident lasted                                             *)

IsStale(g) == now - Latest(g).at > StaleAfter

Resolutions(g) == {u \in g \ {First(g)} : u.status = "resolved"}

Evidence(g) ==
    IF Resolutions(g) # {} THEN "observed"
    ELSE IF Ongoing(Latest(g)) /\ IsStale(g) THEN "stale"
    ELSE IF Ongoing(Latest(g)) THEN "ongoing"
    ELSE "unpublished"

\* No end is known of an incident whose page posted it once, when it was over.
DowntimeEnd(g) ==
    CASE Evidence(g) = "observed" -> {Min({u.at : u \in Resolutions(g)})}
      [] Evidence(g) = "stale" -> {Latest(g).at}
      [] Evidence(g) = "ongoing" -> {now}
      [] Evidence(g) = "unpublished" -> {}

\* What is open and not planned, whatever its status; of what the provider has
\* forgotten only the link is shown.
OpenIncidents == {g \in GroupEventsByIncident : ~IsPlannedGroup(g) /\ Ongoing(Latest(g))}
StaleGroups == {g \in OpenIncidents : IsStale(g)}
OngoingNow == OpenIncidents \ StaleGroups

ResolutionHours == {Min({u.at : u \in Resolutions(g)}) - First(g).at : g \in {h \in IncidentGroups : Resolutions(h) # {}}}

-----------------------------------------------------------------------------
(* What it cost                                                            *)

\* An incident on no chain counts as one chain of its own, and no incident as more
\* chains than the page lists.
Keys(g) ==
    LET order == SetToSeq(Chains(g)) IN
    IF order = <<>> THEN {g} ELSE ToSet(SubSeq(order, 1, Min({Len(order), ChainsListed})))

Intervals(key) ==
    {<<First(g).at, Max(DowntimeEnd(g))>> :
        g \in {h \in IncidentGroups : key \in Keys(h) /\ \E end \in DowntimeEnd(h) : end > First(h).at}}

AllKeys == UNION {Keys(g) : g \in IncidentGroups}

Clipped(intervals, from, to) ==
    {i \in {<<Max({i[1], from}), Min({i[2], to})>> : i \in intervals} : i[2] > i[1]}

\* Mutant: overlaps are added up.
OverlapMs(intervals, from, to) == SumSet({i[2] - i[1] : i \in Clipped(intervals, from, to)})

\* The intervals by their start; one that begins before the last has ended joins it.
MergedOverlapMs(intervals, from, to) ==
    LET order == SetToSortSeq(Clipped(intervals, from, to), LAMBDA i, j : i[1] < j[1] \/ (i[1] = j[1] /\ i[2] < j[2]))
        Join(sum, i) == IF sum.end = -1 \/ i[1] > sum.end
                        THEN [total |-> sum.total + (sum.end - sum.start), start |-> i[1], end |-> i[2]]
                        ELSE [sum EXCEPT !.end = Max({@, i[2]})]
        all == FoldLeft(Join, [total |-> 0, start |-> -1, end |-> -1], order)
    IN all.total + (all.end - all.start)

Lost(span) == SumFunction([key \in AllKeys |-> MergedOverlapMs(Intervals(key), now - span, now)])

Capacity(span) == ChainsListed * span

\* percent is this share of the capacity.
Charged(span) == Min({Lost(span), Capacity(span)})

\* The sparkline charges a day with the hours of every incident, on each of its chains.
DayStart == (now \div DayLength) * DayLength
DailySeries ==
    [day \in 1..SparkDays |->
        LET from == DayStart - (SparkDays - day) * DayLength
            hours(g) == MapThenSumSet(LAMBDA end : Max({0, Min({end, from + DayLength}) - Max({First(g).at, from})})
                                                      * Max({1, Cardinality(Chains(g))}),
                                      DowntimeEnd(g))
        IN [started |-> Cardinality({g \in IncidentGroups : First(g).at \in from..(from + DayLength - 1)}),
            lost |-> MapThenSumSet(hours, IncidentGroups)]]

-----------------------------------------------------------------------------
(* When a planned window runs                                              *)

Dated(g, P(_)) == {u.at : u \in {v \in g : P(v)}}

\* The next one to come, else the last that was.
Pick(times) == IF \E t \in times : t > now THEN Min({t \in times : t > now}) ELSE Max(times)

IsTerminal(u) == u.status \in {"maintenance_completed", "maintenance_in_progress"}

\* Strongest first: a stated window; a scheduled entry other than the announcement; a
\* start or an end, dated in the future or seen.
Candidates(g) ==
    <<Dated(g, LAMBDA u : u.window),
      Dated(g, LAMBDA u : u.status = "maintenance_scheduled" /\ u.at # First(g).at),
      LET future == Dated(g, LAMBDA u : IsTerminal(u) /\ u.at > now) IN IF future = {} THEN {} ELSE {Min(future)},
      Dated(g, LAMBDA u : u.status = "maintenance_in_progress" /\ u.at <= now),
      Dated(g, LAMBDA u : u.status = "maintenance_completed" /\ u.at <= now)>>

\* "window", "scheduled" (2 and 3), "started", "completed", "announced".
Level(g) == Min({l \in 1..5 : Candidates(g)[l] # {}} \cup {6})

ActivationFor(g) == IF Level(g) = 6 THEN {} ELSE {Pick(Candidates(g)[Level(g)])}

FollowingIncidents(g) ==
    {inc \in IncidentGroups :
        \E at \in ActivationFor(g) :
            First(inc).at - at \in 1..FollowWindow /\ Chains(inc) \cap Chains(g) # {}}

\* Pending, undated and open, past, undated and completed.
OrderBucket(g) ==
    IF \E at \in ActivationFor(g) : at > now THEN 0
    ELSE IF ActivationFor(g) = {} /\ Latest(g).status # "maintenance_completed" THEN 1
    ELSE IF ActivationFor(g) # {} THEN 2
    ELSE 3

-----------------------------------------------------------------------------
Init == events = {} /\ now = MaxTime - 1

\* An incident is posted when it happens; a window's entry has the time of the window.
Publish(u) ==
    /\ Cardinality(events) < MaxUpdates
    /\ u.status \notin MaintenanceStatuses => u.at <= now
    /\ \A v \in events : TitleOf[v.entry] = TitleOf[u.entry] => v.at # u.at
    /\ events' = events \cup {u}
    /\ UNCHANGED now

Next == \E u \in Update : Publish(u)

Spec == Init /\ [][Next]_vars

-----------------------------------------------------------------------------
(* Properties                                                              *)

\* "Overlapping intervals are merged PER CHAIN before summing, so two simultaneous
\* incidents on the same chain don't double-count its downtime" (providerStats.js:
\* 283-284): what is lost is the parts of time in which a chain was down.  The
\* sparkline, which does not merge, agrees when no two incidents of a chain overlap.
NoHourCountedTwice ==
    /\ \A span \in Spans :
          Lost(span) = Cardinality({p \in AllKeys \X ((now - span)..(now - 1)) :
                                       \E i \in Intervals(p[1]) : i[1] <= p[2] /\ p[2] < i[2]})
    /\ (\A g, h \in IncidentGroups : g # h => Keys(g) \cap Keys(h) = {}) =>
          MapThenSumSet(LAMBDA d : DailySeries[d].lost, 1..SparkDays) =
              MapThenSumSet(LAMBDA key : MergedOverlapMs(Intervals(key), DayStart - (SparkDays - 1) * DayLength, now), AllKeys)

\* "A real duration must never be replaced by a weaker guess just because a further
\* update arrived" (providerStats.js:380-382); nor does "a later WEAKER update
\* overwrite an earlier precise one" (upgrades.js:231-233): what is known of an incident
\* or a window is not known worse after another update of it.
KnownBetter ==
    [][/\ \A g \in IncidentGroups, h \in IncidentGroups' :
              g \subseteq h /\ Evidence(g) = "observed" => Evidence(h)' = "observed"
       /\ \A g \in PlannedGroups, h \in PlannedGroups' : g \subseteq h => Level(h)' <= Level(g)]_vars

\* "Superposition Testnet RPC went down recurs verbatim across genuinely separate
\* outages" (upgrades.js:165-168): every update is in one group, and what is an outage
\* by its own updates is a group by itself, in no other outage and in no window; only
\* entries that were each taken for planned work are put together, and together they may
\* be taken for one outage, when the newest of their classes is no planned one.
OutagesStayApart ==
    /\ UNION GroupEventsByIncident = events
    /\ \A g, h \in GroupEventsByIncident : g # h => g \cap h = {}
    /\ \A g \in ByEntry : ~IsPlannedGroup(g) => g \in GroupEventsByIncident
    /\ \A g \in IncidentGroups :
          Cardinality({u.entry : u \in g}) > 1 => \E u \in g : u.status \in MaintenanceStatuses \/ u.class = "planned"

\* One figure does not contradict another: what counts as ongoing is charged up to this
\* moment on each of its chains unless it was once resolved or its status is unknown, and
\* what the provider has forgotten is not (providerStats.js:139-182, 386-400); a duration
\* ends after it began (183-193); what is listed as following a window follows one that is
\* filed as past (upgrades.js:240-290); and where every incident names its chains, nothing
\* of what they lost is cut off.
FiguresAgree ==
    /\ \A g \in OngoingNow :
          Latest(g).status # "unknown" /\ Resolutions(g) = {} /\ First(g).at < now =>
              \A key \in Keys(g) : <<First(g).at, now>> \in Intervals(key)
    /\ \A g \in StaleGroups : now \notin DowntimeEnd(g)
    /\ \A hours \in ResolutionHours : hours > 0
    /\ \A g \in PlannedGroups : FollowingIncidents(g) # {} => OrderBucket(g) = 2
    /\ \A span \in Spans : Cardinality(AllKeys) <= ChainsListed => Charged(span) = Lost(span)
=============================================================================
