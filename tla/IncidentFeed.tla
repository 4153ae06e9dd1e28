---------------------------- MODULE IncidentFeed ----------------------------
(***************************************************************************)
(* The dashboard's incidents (src/public/app.js).  Status events reach the *)
(* page twice, in one REST answer and as frames of a socket that replays   *)
(* the newest ones whenever it opens; a classification comes with its event*)
(* or in a frame of its own, possibly before the event.  Several events    *)
(* make one incident.  What the page shows is settled by a repaint, a      *)
(* moment after the last change.                                           *)
(*                                                                         *)
(* An event: id, key (its incident's), at (None when its time cannot be    *)
(* read), status, ongoing (or None), chains, enrichment (or None).  An     *)
(* enrichment: of (the event), class, lowConfidence, stamp (or None).      *)
(* Severity, wording and what is painted of a card are left out.           *)
(***************************************************************************)
EXTENDS Integers, SequencesExt

CONSTANTS
    Event,
    Frame,        \* enrichments the feed may send in a frame
    Replay,       \* frames the socket replays (100)
    Backfill,     \* events of the REST answer (500)
    Transitions,  \* MAX_TRANSITIONS
    Retries,      \* failed connections in a row before the page gives up (6)
    Time,         \* Date.now() when a frame arrives, in the feed's time
    None

VARIABLES
    published, \* what the feed holds, in the order it got it
    link,      \* the socket: "waiting" for its timer, "connecting", "open", "given up"
    retries,
    wire,      \* frames on their way
    backfill,  \* "none", "asked" with what the answer is made of, or "done"
    page,      \* incidents.byKey, .eventToKey, .enrichPending, .enrichByKey
    repaintDue, rerenderDue, \* the timers
    shown,     \* kinds and open incidents as of the last repaint
    arrived    \* history: the events and enrichments that reached the page

vars == <<published, link, retries, wire, backfill, page, repaintDue, rerenderDue, shown, arrived>>

Scheduled == {"scheduled", "in progress", "completed"}
OpenStatuses == {"monitoring", "identified"}
PlannedClasses == {"hard_fork", "maintenance"}

-----------------------------------------------------------------------------
(* One incident                                                            *)

\* incidentModel
Incident(e) ==
    [at |-> e.at, first |-> e.at, status |-> e.status, ongoing |-> e.ongoing, chains |-> e.chains,
     opened |-> e.id, transitions |-> IF e.at = None THEN {} ELSE {e}]

\* addTransition: the newest ones, each once.
AddTransition(list, e) ==
    LET all == list \cup {e}
    IN  {x \in all : Cardinality({y \in all : y.at > x.at}) < Transitions}

\* Mutant: the event that arrives last wins.
Latest(it, e) == TRUE

\* Newest event wins for current state.
Newer(it, e) == it.at = None \/ e.at >= it.at

\* The rest of addIncidents for one event of an incident that is there.
Updated(it, e) ==
    LET opening == it.first = None \/ e.at < it.first
        dated == [it EXCEPT !.first = IF opening THEN e.at ELSE @,
                            !.opened = IF opening THEN e.id ELSE @,
                            !.transitions = AddTransition(@, e)]
    IN  IF e.at = None THEN it
        ELSE IF ~Newer(it, e) THEN dated
        ELSE [dated EXCEPT !.at = e.at, !.status = e.status, !.ongoing = e.ongoing,
                           !.chains = IF e.chains = {} THEN @ ELSE e.chains]

\* enrichmentStamp
Stamp(enr, at) == IF enr.stamp # None THEN enr.stamp ELSE IF at # None THEN at ELSE 0

\* A Map's set.
With(map, key, value) == [k \in DOMAIN map \cup {key} |-> IF k = key THEN value ELSE map[k]]

\* applyEnrichment: the newest is shown, the newest confident one decides.
Enriched(byKey, key, enr, at) ==
    LET stamp == Stamp(enr, at)
        old == IF key \in DOMAIN byKey THEN byKey[key] ELSE [data |-> None, at |-> -1, confident |-> None, confidentAt |-> -1]
        sure == ~enr.lowConfidence /\ old.confidentAt <= stamp
        new == [data |-> IF old.at > stamp THEN old.data ELSE enr.class,
                at |-> IF old.at > stamp THEN old.at ELSE stamp,
                confident |-> IF sure THEN enr.class ELSE old.confident,
                confidentAt |-> IF sure THEN stamp ELSE old.confidentAt]
    IN  With(byKey, key, new)

\* addIncidents for one event; a classification that was there first is applied
\* before the event's own.
AddIncident(p, e) ==
    LET early == {enr \in p.pending : enr.of = e.id}
        first == IF early = {} THEN p.enriched ELSE Enriched(p.enriched, e.key, CHOOSE enr \in early : TRUE, e.at)
    IN  [known |-> p.known \cup {e},
         pending |-> p.pending \ early,
         enriched |-> IF e.enrichment = None THEN first ELSE Enriched(first, e.key, e.enrichment, e.at),
         byKey |-> With(p.byKey, e.key, IF e.key \in DOMAIN p.byKey THEN Updated(p.byKey[e.key], e) ELSE Incident(e))]

IsEvent(x) == x \in Event

\* The events among what came, one after the other.
Added(p, items) ==
    LET after[i \in 0..Len(items)] ==
            IF i = 0 THEN p
            ELSE IF IsEvent(items[i]) THEN AddIncident(after[i - 1], items[i])
            ELSE after[i - 1]
    IN  after[Len(items)]

AddIncidents(items) ==
    /\ page' = Added(page, items)
    /\ repaintDue' = (repaintDue \/ \E x \in ToSet(items) : IsEvent(x))
    /\ arrived' = [arrived EXCEPT !.events = @ \cup (ToSet(items) \cap Event)]
    /\ UNCHANGED rerenderDue

\* addEnrichment
AddEnrichment(enr) ==
    LET of == {e \in page.known : e.id = enr.of}
        key == (CHOOSE e \in of : TRUE).key
    IN  /\ IF of = {}
           THEN /\ page' = [page EXCEPT !.pending = {x \in @ : x.of # enr.of} \cup {enr}]
                /\ UNCHANGED rerenderDue
           ELSE /\ page' = [page EXCEPT !.enriched = Enriched(@, key, enr, Time)]
                /\ rerenderDue' = (rerenderDue \/ page'.enriched # page.enriched)
        /\ arrived' = [arrived EXCEPT !.frames = @ \cup {enr}]
        /\ UNCHANGED repaintDue

\* The confident classes told of an incident by some events and frames, and when.
Said(key, events, frames) ==
    {<<enr.class, enr.stamp>> : enr \in {x \in frames : ~x.lowConfidence /\ \E e \in events : e.id = x.of /\ e.key = key}}
    \cup {<<e.enrichment.class, Stamp(e.enrichment, e.at)>> :
             e \in {x \in events : x.key = key /\ x.enrichment # None /\ ~x.enrichment.lowConfidence}}

\* A frame says when it was sent (docs/SERVICE-CONTRACT.md:118).  Of two frames of one
\* event that come before it, of two events of an incident at one time, and of two classes
\* told at one time the one that came last counts, so there are none.
FeedAssumption ==
    /\ None \notin Int /\ Transitions \in Nat \ {0} /\ Replay \in Nat /\ Backfill \in Nat
    /\ Event \cap Frame = {}
    /\ \A e \in Event : e.at \in Nat \cup {None} /\ (e.enrichment # None => e.enrichment.stamp \in Nat \cup {None})
    /\ \A e, f \in Event : e.id = f.id \/ (e.key = f.key /\ e.at = f.at /\ e.at # None) => e = f
    /\ \A x, y \in Frame : x.stamp \in Nat /\ (x.of = y.of => x = y)
    /\ \A e \in Event : \A x, y \in Said(e.key, Event, Frame) : x[2] = y[2] => x = y

-----------------------------------------------------------------------------
(* The repaint                                                             *)

\* settleKind: by the status, or by a class the classifier was sure of.
Kind(status, class) == IF status \in Scheduled \/ class \in PlannedClasses THEN "scheduled" ELSE "incident"

\* isOpen, for an incident that is not stale.
IsOpen(kind, ongoing, status) ==
    /\ kind # "scheduled"
    /\ IF ongoing # None THEN ongoing ELSE status \in OpenStatuses

Confident(key) == IF key \in DOMAIN page.enriched THEN page.enriched[key].confident ELSE None

\* scheduleIncidentRepaint's callback, with buildOpenIncidentIndex.
Repaint ==
    LET it == page.byKey
        kind == [k \in DOMAIN it |-> Kind(it[k].status, Confident(k))]
        open == {k \in DOMAIN it : IsOpen(kind[k], it[k].ongoing, it[k].status)}
    IN  /\ repaintDue
        /\ repaintDue' = FALSE
        /\ shown' = [kind |-> kind, open |-> open, byChain |-> UNION {it[k].chains \X {k} : k \in open}]
        /\ UNCHANGED <<published, link, retries, wire, backfill, page, rerenderDue, arrived>>

\* scheduleEnrichmentRerender's callback.
Rerender ==
    /\ rerenderDue
    /\ rerenderDue' = FALSE
    /\ repaintDue' = TRUE
    /\ UNCHANGED <<published, link, retries, wire, backfill, page, shown, arrived>>

-----------------------------------------------------------------------------
(* The feed and its transport                                              *)

Newest(n) == SubSeq(published, Max({1, Len(published) - n + 1}), Len(published))

Unasked == [is |-> "none", answer |-> <<>>]

\* statusFeedBackfill, unless it has succeeded or is under way.
Ask ==
    IF backfill.is # "none" THEN backfill
    ELSE [is |-> "asked", answer |-> Newest(Backfill)]

Init ==
    /\ published = <<>>
    /\ link = "waiting"
    /\ retries = 0
    /\ wire = <<>>
    /\ backfill = Unasked
    /\ page = [byKey |-> <<>>, known |-> {}, pending |-> {}, enriched |-> <<>>]
    /\ repaintDue = FALSE
    /\ rerenderDue = FALSE
    /\ shown = [kind |-> <<>>, open |-> {}, byChain |-> {}]
    /\ arrived = [events |-> {}, frames |-> {}]

\* The feed gets an event or makes a classification, in any order of their times.
Publish(x) ==
    /\ x \notin ToSet(published)
    /\ ~IsEvent(x) => \E e \in ToSet(published) : IsEvent(e) /\ e.id = x.of
    /\ published' = Append(published, x)
    /\ wire' = IF link = "open" THEN Append(wire, x) ELSE wire
    /\ UNCHANGED <<link, retries, backfill, page, repaintDue, rerenderDue, shown, arrived>>

\* connectStatusFeed
Connect ==
    /\ link = "waiting"
    /\ link' = "connecting"
    /\ backfill' = Ask
    /\ UNCHANGED <<published, retries, wire, page, repaintDue, rerenderDue, shown, arrived>>

\* onopen; the server replays.
Opens ==
    /\ link = "connecting"
    /\ link' = "open"
    /\ retries' = 0
    /\ backfill' = Ask
    /\ wire' = Newest(Replay)
    /\ UNCHANGED <<published, page, repaintDue, rerenderDue, shown, arrived>>

\* onclose: what was on its way is lost.
Closes ==
    /\ link \in {"connecting", "open"}
    /\ link' = IF retries < Retries THEN "waiting" ELSE "given up"
    /\ retries' = IF retries < Retries THEN retries + 1 ELSE retries
    /\ wire' = <<>>
    /\ UNCHANGED <<published, backfill, page, repaintDue, rerenderDue, shown, arrived>>

\* onmessage
FrameArrives ==
    /\ wire # <<>>
    /\ wire' = Tail(wire)
    /\ IF IsEvent(Head(wire)) THEN AddIncidents(<<Head(wire)>>) ELSE AddEnrichment(Head(wire))
    /\ UNCHANGED <<published, link, retries, backfill, shown>>

BackfillArrives ==
    /\ backfill.is = "asked"
    /\ AddIncidents(backfill.answer)
    /\ backfill' = [is |-> "done", answer |-> <<>>]
    /\ UNCHANGED <<published, link, retries, wire, shown>>

BackfillFails ==
    /\ backfill.is = "asked"
    /\ backfill' = Unasked
    /\ UNCHANGED <<published, link, retries, wire, page, repaintDue, rerenderDue, shown, arrived>>

Next ==
    \/ \E x \in Event \cup Frame : Publish(x)
    \/ Connect \/ Opens \/ Closes
    \/ FrameArrives \/ BackfillArrives \/ BackfillFails
    \/ Repaint \/ Rerender

-----------------------------------------------------------------------------
(* Properties                                                              *)

\* Whatever reached the page in whatever order and however often, an incident
\* has the state of its newest event, the headline of its first and the newest
\* transitions; and once no repaint is due the page shows it as open, or as
\* planned work, by that state and the newest confident class (app.js:1131-1162,
\* 1221-1249).
PageFollowsNewestWord ==
    \A k \in DOMAIN page.byKey :
        LET it == page.byKey[k]
            dated == {e \in arrived.events : e.key = k /\ e.at # None}
            newest == CHOOSE e \in dated : \A f \in dated : f.at <= e.at
            first == CHOOSE e \in dated : \A f \in dated : f.at >= e.at
            said == Said(k, arrived.events, arrived.frames)
            class == IF said = {} THEN None ELSE (CHOOSE x \in said : \A y \in said : y[2] <= x[2])[1]
        IN  dated # {} =>
                /\ it.status = newest.status /\ it.ongoing = newest.ongoing
                /\ it.opened = first.id
                /\ it.transitions = {e \in dated : Cardinality({f \in dated : f.at > e.at}) < Transitions}
                /\ ~repaintDue /\ ~rerenderDue =>
                       /\ shown.kind[k] = Kind(newest.status, class)
                       /\ k \in shown.open <=> IsOpen(shown.kind[k], newest.ongoing, newest.status)
=============================================================================
