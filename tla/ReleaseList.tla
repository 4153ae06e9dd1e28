------------------------------ MODULE ReleaseList ------------------------------
(***************************************************************************)
(* The dashboard's releases view (src/public/app.js 5690-6168): a list for *)
(* each query (a scope and a range of dates), asked for when a reader      *)
(* comes to it and, quietly, every minute while it is on screen.  Answers  *)
(* of several queries are under way at once; a quiet one redraws only when *)
(* it says something new.                                                  *)
(*                                                                         *)
(* The list on screen is kept as it was last drawn.                        *)
(***************************************************************************)
EXTENDS Integers, FiniteSets

CONSTANTS
    None,
    Query,     \* scope and dates, releaseKey()
    BadRange,  \* the queries that end before they begin
    First,     \* the query a page opens with
    Answer,    \* what the feed may answer: [items, stale], an item being [id, chains]
    Chains,    \* the chains of the filter
    RefreshMs, \* RELEASE_REFRESH_MS
    MaxTime    \* bound: how long is looked at

ReleaseListAssumption == First \in Query /\ BadRange \subseteq Query /\ RefreshMs \in Nat \ {0} /\ MaxTime \in Nat

VARIABLES
    releases,  \* the view as the page keeps it
    hour       \* the clock

Says(what) == [says |-> what, stale |-> FALSE, shown |-> {}]

\* `loading` says how a query is being asked; `configured` whether the API has
\* a feed at all, None before it is known.
Init ==
    /\ releases = [on |-> FALSE, hidden |-> FALSE, query |-> First, chain |-> None, configured |-> None,
                   items |-> [q \in Query |-> None], error |-> [q \in Query |-> "no"],
                   loading |-> [q \in Query |-> "no"], loadedAt |-> [q \in Query |-> -RefreshMs], drawn |-> Says("nothing")]
    /\ hour = 0

-----------------------------------------------------------------------------
(* Drawing                                                                 *)

\* renderReleaseList: a failed revalidation keeps the list that is there.
Drawn(r) ==
    LET q == r.query IN
    CASE r.configured = FALSE -> Says("not available")
      [] r.configured # FALSE /\ r.error[q] = "range" -> Says("bad range")
      [] r.configured # FALSE /\ r.error[q] = "yes" /\ r.items[q] = None -> Says("outage")
      [] r.configured # FALSE /\ r.error[q] = "no" /\ r.items[q] = None -> Says("loading")
      [] OTHER -> [says |-> "list", stale |-> r.items[q].stale,
                   shown |-> {i \in r.items[q].items : r.chain = None \/ r.chain \in i.chains}]

Redrawn(r) == [r EXCEPT !.drawn = Drawn(r)]

IfOnScreen(r) == IF r.on THEN Redrawn(r) ELSE r

\* setClientFeedConfigured
Configured(r, is) == IF r.configured = is THEN r ELSE IfOnScreen([r EXCEPT !.configured = is])

\* rebuildReleaseChainOptions: a chain no loaded list has is not filtered by.
WithChainOptions(r) ==
    LET offered == UNION {i.chains : i \in UNION {r.items[q].items : q \in {p \in Query : r.items[p] # None}}}
    IN [r EXCEPT !.chain = IF @ \in offered THEN @ ELSE None]

-----------------------------------------------------------------------------
(* Asking                                                                  *)

\* loadReleases up to its await: one request for a query at a time.
Asked(r, quiet) ==
    LET q == r.query IN
    IF r.loading[q] # "no" THEN r
    ELSE IF q \in BadRange THEN IfOnScreen([r EXCEPT !.error[q] = "range"])
    ELSE [r EXCEPT !.loading[q] = IF quiet THEN "quietly" ELSE "aloud",
                   !.error[q] = IF quiet THEN @ ELSE "no"]

IsDue(r, age) == hour - r.loadedAt[r.query] >= age

\* probeClientFeed: the page asks at its start, whatever it shows.
Probe ==
    /\ releases.configured = None /\ releases.loading[First] = "no" /\ releases.items[First] = None
    /\ releases.error[First] = "no" /\ releases.query = First
    /\ releases' = Asked(releases, FALSE)
    /\ UNCHANGED hour

\* ensureReleasesView
Enter ==
    /\ ~releases.on
    /\ LET r == [releases EXCEPT !.on = TRUE] IN
       releases' = Redrawn(IF IsDue(r, RefreshMs) \/ r.error[r.query] # "no" THEN Asked(r, FALSE) ELSE r)
    /\ UNCHANGED hour

Leave == releases.on /\ releases' = [releases EXCEPT !.on = FALSE] /\ UNCHANGED hour

\* Another scope or another range of dates.
ChangesQuery(q) ==
    /\ releases.on /\ q # releases.query
    /\ releases' = Redrawn(Asked([releases EXCEPT !.query = q], FALSE))
    /\ UNCHANGED hour

PicksChain(c) ==
    /\ releases.on /\ c # releases.chain
    /\ releases' = Redrawn([releases EXCEPT !.chain = c])
    /\ UNCHANGED hour

TabHides == releases' = [releases EXCEPT !.hidden = ~@] /\ ~releases.hidden /\ UNCHANGED hour

\* refreshReleasesIfDue, of the interval and of a tab that is shown again.
RefreshIfDue(r) ==
    IF ~r.on \/ r.hidden \/ r.configured = FALSE \/ ~IsDue(r, RefreshMs) THEN r ELSE Asked(r, TRUE)

IntervalFires == releases' = RefreshIfDue(releases) /\ releases' # releases /\ UNCHANGED hour

TabShows == releases.hidden /\ releases' = RefreshIfDue([releases EXCEPT !.hidden = FALSE]) /\ UNCHANGED hour

-----------------------------------------------------------------------------
(* Answers                                                                 *)

\* Only other releases are something new.
OtherReleases(r, q, answer) == r.items[q] = None \/ answer.items # r.items[q].items \/ r.error[q] = "yes"

\* A list that says the same is drawn again over an outage.
Changed(r, q, answer) == answer # r.items[q] \/ r.error[q] = "yes"

Ends(r, changed) == IF changed THEN IfOnScreen(WithChainOptions(r)) ELSE r

Loaded(q, answer) ==
    /\ releases.loading[q] # "no"
    /\ LET kept == [releases EXCEPT !.items[q] = answer, !.error[q] = "no", !.loadedAt[q] = hour]
           known == Configured(kept, TRUE)
       IN releases' = Ends([known EXCEPT !.loading[q] = "no"], Changed(releases, q, answer))
    /\ UNCHANGED hour

\* A quiet request that fails changes nothing.
FailsQuietly(q) ==
    /\ releases.loading[q] = "quietly"
    /\ releases' = [releases EXCEPT !.loading[q] = "no"]
    /\ UNCHANGED hour

\* 503, and 404 of an API that has no such route.
Absent(q) ==
    /\ releases.loading[q] = "aloud"
    /\ releases' = Ends([Configured(releases, FALSE) EXCEPT !.loading[q] = "no"], TRUE)
    /\ UNCHANGED hour

\* An error that has a status says that there is a feed.
Fails(q, hasStatus) ==
    /\ releases.loading[q] = "aloud"
    /\ LET r == [releases EXCEPT !.error[q] = "yes"]
           known == IF hasStatus /\ r.configured = None THEN Configured(r, TRUE) ELSE r
       IN releases' = Ends([known EXCEPT !.loading[q] = "no"], TRUE)
    /\ UNCHANGED hour

Tick == hour < MaxTime /\ hour' = hour + 1 /\ UNCHANGED releases

Next ==
    \/ Probe \/ Enter \/ Leave \/ TabHides \/ TabShows \/ IntervalFires \/ Tick
    \/ \E q \in Query :
        \/ ChangesQuery(q) \/ FailsQuietly(q) \/ Absent(q)
        \/ \E a \in Answer : Loaded(q, a)
        \/ \E hasStatus \in BOOLEAN : Fails(q, hasStatus)
    \/ \E c \in Chains \cup {None} : PicksChain(c)

Spec == Init /\ [][Next]_<<releases, hour>>

-----------------------------------------------------------------------------
(* Properties                                                              *)

\* Redrawing only on a change leaves nothing old on screen (app.js:5801-5803,
\* 5827): when no answer is under way for the query of the view, the list is
\* drawn as it would be now.
ListIsWhatWasAnswered ==
    releases.on /\ releases.loading[releases.query] = "no" => releases.drawn = Drawn(releases)
=============================================================================
