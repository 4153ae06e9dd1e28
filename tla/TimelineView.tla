----------------------------- MODULE TimelineView -----------------------------
(***************************************************************************)
(* The dashboard's timeline (src/public/app.js 6536-7506): one list of     *)
(* events is loaded, and every filter, the search and the minute ticker    *)
(* render it anew.  A screen is kept as it was last rendered, with the     *)
(* moment of it, since time passes without rendering.                      *)
(*                                                                         *)
(* An event is [id, type, at, day, phase, status, rollouts, fallout,       *)
(* block, words]: `at` is its activation or NoDate, `day` says that only   *)
(* the day is known, `block` that a height is, `rollouts` are the statuses *)
(* of its provider updates, and `words` what a search finds it by.         *)
(***************************************************************************)
EXTENDS Integers, FiniteSetsExt, SequencesExt

CONSTANTS
    NoDate,
    NoQuery,    \* an empty search field
    Timeline,   \* what GET /timeline answers
    Upgrades,   \* what GET /upgrades answers
    Queries,    \* what a reader searches for
    Day,        \* the length of a day
    Ranges,     \* days of the range buttons; 0 is all
    Streams,    \* the tabs
    History,    \* TL_HF_CHART_HISTORY_MS
    Step,       \* bound: how time passes
    FirstMoment, LastMoment  \* bound: from when to when

IsEvent(u) ==
    /\ u = [id |-> u.id, type |-> u.type, at |-> u.at, day |-> u.day, phase |-> u.phase, status |-> u.status,
            rollouts |-> u.rollouts, fallout |-> u.fallout, block |-> u.block, words |-> u.words]
    /\ u.id \in Int /\ u.at \in (Nat \ {0}) \cup {NoDate}

\* What a server answers: events of after 1970, each under an ID of its own.
IsList(events) ==
    /\ IsFiniteSet(events) /\ \A u \in events : IsEvent(u)
    /\ \A u, w \in events : u.id = w.id => u = w

TimelineViewAssumption ==
    /\ Day \in Nat \ {0} /\ Step \in Nat \ {0} /\ FirstMoment \in Nat /\ LastMoment \in Nat /\ History \in Nat
    /\ Ranges \subseteq Nat /\ NoDate \notin Int
    /\ "upcoming" \in Streams
    /\ IsList(Timeline) /\ IsList(Upgrades)

VARIABLES
    view,    \* the timeline as the page keeps it
    moment   \* the clock

HardforkStreams == {"upcoming", "past", "tba"}

Blank ==
    [upgrades |-> {}, load |-> "no", error |-> "no", on |-> FALSE, search |-> NoQuery,
     type |-> "all", stream |-> "all", hf |-> "upcoming", range |-> 7, ticker |-> FALSE,
     looked |-> FirstMoment,   \* when the page last rendered or its ticker fired
     screen |-> [kind |-> "none"]]

-----------------------------------------------------------------------------
(* What an event is at a moment                                            *)

IsDated(u) == u.at # NoDate

IsUndatedPast(u) == ~IsDated(u) /\ u.phase = "past"

ActivationBlock(u) == ~IsDated(u) /\ u.block

\* A day without an hour is to come until it is over.
Pending(u, now) ==
    /\ u.phase # "cancelled" /\ IsDated(u)
    /\ (IF u.day THEN u.at + Day ELSE u.at) > now

HardforkStreamOf(u, now) ==
    CASE u.phase = "cancelled" -> "past"
      [] u.phase # "cancelled" /\ ~IsDated(u) -> (IF u.phase = "past" THEN "past" ELSE "tba")
      [] OTHER -> (IF Pending(u, now) THEN "upcoming" ELSE "past")

StreamOf(u, now) ==
    CASE u.phase = "cancelled" -> "done"
      [] u.phase # "cancelled" /\ ~IsDated(u) ->
            (IF u.status = "maintenance_completed" \/ u.phase = "past" THEN "done" ELSE "undated")
      [] Pending(u, now) -> "upcoming"
      [] OTHER -> (IF "maintenance_in_progress" \in {u.status} \cup u.rollouts THEN "active" ELSE "done")

InStream(u, stream, now) ==
    \/ stream = "all"
    \/ stream = "fallout" /\ u.fallout
    \/ StreamOf(u, now) = stream

\* A provider window in the shape of an event.
UpgradeAsEvent(u) ==
    [u EXCEPT !.type = IF u.type = "hardfork" THEN "software_update" ELSE @, !.phase = "none",
              !.rollouts = {u.status}]

-----------------------------------------------------------------------------
(* The axis and the rows                                                   *)

Times(items) == {u.at : u \in {i \in items : IsDated(i)}}

\* Padding is 2 % of the span and at least an hour, here one unit of time.
Padded(lo, hi) == LET pad == Max({(hi - lo) \div 50, 1}) IN <<lo - pad, hi + pad>>

Domain(range, items, now) ==
    LET times == Times(items)
        span == range * Day
        lastPending == Max({now} \cup {t \in times : t > now})
    IN IF range = 0
       THEN Padded(IF times = {} THEN now - 7 * Day ELSE Min(times \cup {now}),
                   IF times = {} THEN now + Day ELSE Max(times \cup {now}))
       ELSE <<now - span, Min({lastPending + span \div 20, now + span})>>

InRange(u, domain) == IsDated(u) /\ u.at >= domain[1] /\ u.at <= domain[2]

\* To come, and beyond the axis.
Later(u, domain, now) == IsDated(u) /\ u.at > domain[2] /\ Pending(u, now)

At(u) == IF IsDated(u) THEN u.at ELSE 0

\* A height, then past, then to be announced.
UndatedRank(u) == IF IsUndatedPast(u) THEN 1 ELSE IF ActivationBlock(u) THEN 0 ELSE 2

\* The tie-break is the order of the list, here of the ids.
Before(a, b, now) ==
    LET p == Pending(a, now)
        tied == At(a) = At(b)
    IN CASE p # Pending(b, now) -> p
         [] p = Pending(b, now) /\ tied /\ UndatedRank(a) # UndatedRank(b) -> UndatedRank(a) < UndatedRank(b)
         [] p = Pending(b, now) /\ tied /\ UndatedRank(a) = UndatedRank(b) -> a.id < b.id
         [] OTHER -> (IF p THEN At(a) < At(b) ELSE At(a) > At(b))

Sorted(items, now) ==
    LET place == [u \in items |-> 1 + Cardinality({w \in items : Before(w, u, now)})]
    IN [i \in 1..Cardinality(items) |-> CHOOSE u \in items : place[u] = i]

\* The separator over a row, in time order.
Separator(u, now) ==
    [day |-> CASE IsUndatedPast(u) -> "past"
               [] ~IsUndatedPast(u) /\ ActivationBlock(u) -> "height"
               [] ~IsDated(u) /\ ~ActivationBlock(u) /\ ~IsUndatedPast(u) -> "unannounced"
               [] OTHER -> "day",
     of |-> IF IsDated(u) THEN u.at \div Day ELSE 0,
     scheduled |-> Pending(u, now)]

-----------------------------------------------------------------------------
(* Rendering                                                               *)

Typed(v) == {u \in v.upgrades : v.type \in {"all", u.type}}

Searched(v) == {u \in Typed(v) : v.search = NoQuery \/ v.search \in u.words}

Counts(items, now) ==
    [s \in Streams |-> Cardinality({u \in items : InStream(u, s, now)})]

HardforkCounts(items, now) ==
    [s \in HardforkStreams |-> Cardinality({u \in items : HardforkStreamOf(u, now) = s})]

\* finishTimelineRender: the headline counts down to the next of what the
\* search found, shown by the tab or not.
NextUp(searched, now) ==
    LET ahead == {u \in searched : IsDated(u) /\ u.phase # "cancelled" /\ At(u) > now}
    IN IF ahead = {} THEN NoDate ELSE Min(Times(ahead))

\* The chart, the note of what it leaves out, the tabs and the rows.
RangeScreen(v, now) ==
    LET searched == Searched(v)
        domain == Domain(v.range, searched, now)
        inRange == {u \in searched : InRange(u, domain)}
        later == {u \in searched : Later(u, domain, now)}
        undated == {u \in searched : ~IsDated(u)}
        tabbable == inRange \cup later \cup undated
    IN [kind |-> "list", at |-> now, plotted |-> inRange, tabs |-> Counts(tabbable, now),
        omitted |-> [undated |-> Cardinality(undated), later |-> Cardinality(later), older |-> 0],
        rows |-> Sorted({u \in tabbable : InStream(u, v.stream, now)}, now), next |-> NextUp(searched, now)]

HardforkScreen(v, now) ==
    LET searched == Searched(v)
        items == {u \in searched : HardforkStreamOf(u, now) = v.hf}
        dated == {u \in items : IsDated(u)}
        plotted == {u \in dated : v.hf = "past" => u.at >= now - History}
    IN [kind |-> "list", at |-> now, plotted |-> plotted, tabs |-> HardforkCounts(searched, now),
        omitted |-> [undated |-> Cardinality(items \ dated), later |-> 0,
                     older |-> Cardinality(dated \ plotted)],
        rows |-> Sorted(items, now), next |-> NextUp(searched, now)]

Rendered(v, now) ==
    IF v.error # "no" THEN [v EXCEPT !.screen = [kind |-> v.error]]
    ELSE IF v.load # "yes" THEN [v EXCEPT !.screen = [kind |-> "loading"]]
    ELSE LET screen == IF v.type = "hardfork" THEN HardforkScreen(v, now) ELSE RangeScreen(v, now)
         IN [v EXCEPT !.screen = screen, !.looked = now,
                      !.ticker = \E u \in Searched(v) : Pending(u, now)]

\* Only the rows count down.
RowCountdowns(screen) ==
    IF screen.kind # "list" THEN {}
    ELSE {u.at : u \in {r \in Range(screen.rows) : r.phase # "cancelled" /\ IsDated(r) /\ At(r) > screen.at}}

\* The moments a countdown on the screen ends at: the headline's, and of every
\* row that is ahead by its stated time.
Countdowns(screen) ==
    IF screen.kind # "list" THEN {}
    ELSE ({screen.next} \ {NoDate})
         \cup {u.at : u \in {r \in Range(screen.rows) :
                                 r.phase # "cancelled" /\ IsDated(r) /\ At(r) > screen.at}}

-----------------------------------------------------------------------------
(* What happens                                                            *)

Init == view = Blank /\ moment = FirstMoment

\* ensureTimelineView: a list that is loaded is rendered, one that is being
\* loaded is waited for; after an error it is asked for again.
SwitchToTimeline ==
    /\ ~view.on
    /\ LET v == [view EXCEPT !.on = TRUE] IN
       view' = Rendered(CASE v.load = "no" -> [v EXCEPT !.load = "loading"] [] OTHER -> v, moment)
    /\ UNCHANGED moment

\* switchView to anything else stops the ticker.
SwitchAway ==
    /\ view.on
    /\ view' = [view EXCEPT !.on = FALSE, !.ticker = FALSE]
    /\ UNCHANGED moment

\* loadTimeline: an older API has no /timeline, and an API older still no
\* /upgrades.  The list is rendered whatever is on screen by then.
LoadEnds(events) ==
    /\ view.load = "loading"
    /\ view' = Rendered([view EXCEPT !.load = "yes", !.error = "no", !.upgrades = events], moment)
    /\ UNCHANGED moment

LoadTimeline == LoadEnds(Timeline) \/ LoadEnds({UpgradeAsEvent(u) : u \in Upgrades})

LoadFails(how) ==
    /\ view.load = "loading"
    /\ view' = Rendered([view EXCEPT !.load = "no", !.error = how], moment)
    /\ UNCHANGED moment

Click(v) ==
    /\ view.on
    /\ view' = Rendered(v, moment)
    /\ UNCHANGED moment

ClicksType(type) == Click([view EXCEPT !.type = type])

ClicksRange(days) == view.type # "hardfork" /\ Click([view EXCEPT !.range = days])

ClicksTab(stream) ==
    /\ view.screen.kind = "list"
    /\ IF view.type = "hardfork"
       THEN stream \in HardforkStreams /\ Click([view EXCEPT !.hf = stream])
       ELSE stream \in Streams /\ Click([view EXCEPT !.stream = stream])

\* The field is that of every view; the one on screen is rendered.
Searches(q) ==
    /\ view' = LET v == [view EXCEPT !.search = q] IN IF v.on THEN Rendered(v, moment) ELSE v
    /\ UNCHANGED moment

\* The interval fires; a countdown that has ended renders everything anew.
TickerFires ==
    /\ view.ticker
    /\ view' = IF view.on /\ \E at \in Countdowns(view.screen) : at <= moment
               THEN Rendered(view, moment) ELSE [view EXCEPT !.looked = moment]
    /\ UNCHANGED moment

Tick ==
    /\ moment < LastMoment
    /\ moment' = moment + Step
    /\ UNCHANGED view

Next ==
    \/ SwitchToTimeline \/ SwitchAway \/ LoadTimeline \/ TickerFires \/ Tick
    \/ \E how \in {"old-api", "down"} : LoadFails(how)
    \/ \E type \in {"all", "hardfork", "maintenance"} : ClicksType(type)
    \/ \E days \in Ranges : ClicksRange(days)
    \/ \E stream \in Streams \cup HardforkStreams : ClicksTab(stream)
    \/ \E q \in Queries \cup {NoQuery} : Searches(q)

Spec == Init /\ [][Next]_<<view, moment>>

-----------------------------------------------------------------------------
(* Properties                                                              *)

\* The range bounds history and never what is to come (app.js:6758-6761): what
\* is ahead or has no date is on the page's tabs whatever the range, and what a
\* tab lists is on the chart or counted in its note.
ToComeIsListed ==
    view.on /\ view.screen.kind = "list" =>
        LET s == view.screen IN
        /\ s.tabs["upcoming"] = Cardinality({u \in Searched(view) : Pending(u, s.at)})
        /\ (view.type = "hardfork" \/ view.stream = "all") =>
               Len(s.rows) = Cardinality(s.plotted) + s.omitted.undated + s.omitted.later + s.omitted.older

\* In time order each separator heads one run of rows (app.js:7149-7150,
\* 7160-7162): no day comes up twice.
EachDayOnce ==
    view.screen.kind = "list" =>
        LET rows == view.screen.rows
            sep(i) == Separator(rows[i], view.screen.at)
        IN \A i, k \in 1..Len(rows) :
               i < k /\ sep(i) = sep(k) => \A j \in i..k : sep(j) = sep(i)

\* A window whose time has come is filed as past by the minute's tick
\* (app.js:7206-7208), also one the tab on screen does not list: after the tick
\* every event with a stated hour counts as it stands now.
WindowsCrossIntoThePast ==
    view.on /\ view.screen.kind = "list" =>
        \A u \in Searched(view) : ~u.day => (Pending(u, view.screen.at) <=> Pending(u, view.looked))
=============================================================================
