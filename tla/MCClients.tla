----------------------------- MODULE MCClients -----------------------------
(***************************************************************************)
(* What runs for a client of the service, one part at a time: in a         *)
(* behaviour `part` runs and the others rest.  "connectors" (Grants): two  *)
(* keys, so that one is revoked and the other not; two connectors, so that *)
(* one may spend what the other was given; one grant, whose code and       *)
(* tokens two overlapping requests contend for.  The rest is the dashboard.*)
(* "drawer" (ChainPage): two networks and a client program, three openings *)
(* on a browser with or without a kept list.  "probes" (BrowserProbes):    *)
(* five endpoints, of which one cannot be tested and one failed, two at a  *)
(* time, two on the screen.  "chat" (ChatPanel): three questions.          *)
(* "timeline" (TimelineView): ten events, dated by the hour, by the day,   *)
(* or not, before and after both edges of a range.  "releases"             *)
(* (ReleaseList): two queries, one of dates that cannot be, three answers, *)
(* one stale.  "table" (NetworkTable) and "graph" (NetworkGraph): two      *)
(* lists of three networks, which differ in what is filtered, sorted and   *)
(* linked.  "feeds" (FeedPages): two articles of one story and one of      *)
(* another, of which the socket may replay the newest.                     *)
(***************************************************************************)
EXTENDS Grants, Sequences, TLC

CONSTANTS k1, k2, c1, c2, g1, r1, r2

TwoKeys == {k1, k2}
TwoClients == {c1, c2}
OneGrant == {g1}
TwoRequests == {r1, r2}

\* Keys, connectors and requests are only compared, and only by Grants.
Symmetry == Permutations(TwoKeys) \cup Permutations(TwoClients) \cup Permutations(TwoRequests)

-----------------------------------------------------------------------------
(* The dashboard: one network                                              *)

CONSTANTS n1, n2

CONSTANTS Network, Software, InList, KeptList, MaxOpenings, MaxHistory

VARIABLES part, page

D == INSTANCE ChainPage WITH Chain <- Network, Client <- Software, Listed <- InList, Kept <- KeptList

VARIABLES shown, list, sorts, watched, result, queue, active, token, flying

probes == <<shown, list, sorts, watched, result, queue, active, token, flying>>

CONSTANTS Endpoint, Verdict, NeedsKey, Skipped, RoundTrip, AtATime, WantWorking, BatchSize, RowsShown, MaxLists

B == INSTANCE BrowserProbes WITH
         Url <- Endpoint, Speed <- RoundTrip, Concurrency <- AtATime, Want <- WantWorking, Batch <- BatchSize, OnScreen <- RowsShown

FiveVerdicts == <<"working", "limited", "none", "none", "failed">>
FiveRoundTrips == <<3, 1, 3, 2, 1>>

CONSTANTS KeptMessages, MaxMisses, MaxPolls, MaxQuestions, MaxLooks

VARIABLES messages, busy, enabled, warned, looks, opened, question, asked, job, notices

chat == <<messages, busy, enabled, warned, looks, opened, question, asked, job, notices>>

C == INSTANCE ChatPanel WITH Kept <- KeptMessages, MaxOpenings <- MaxLooks

-----------------------------------------------------------------------------
(* The dashboard: events and releases                                      *)

CONSTANTS TimelineEvents, WindowEvents, Sought, DayLength, RangeDays, Tabs, ChartHistory, MomentStep, FirstMoment, LastMoment

VARIABLES view, moment

timeline == <<view, moment>>

Happens(id, at, phase, words) ==
    [id |-> id, type |-> "hardfork", at |-> at, day |-> FALSE, phase |-> phase, status |-> "scheduled",
     rollouts |-> {}, fallout |-> FALSE, block |-> FALSE, words |-> words]

Events == {
    Happens(1, None, "announced", {n1}), [Happens(2, None, "announced", {}) EXCEPT !.block = TRUE],
    Happens(3, None, "announced", {}), [Happens(4, None, "past", {}) EXCEPT !.block = TRUE],
    Happens(5, 110, "announced", {}), [Happens(6, 120, "announced", {n1}) EXCEPT !.day = TRUE],
    [Happens(7, 130, "none", {}) EXCEPT !.type = "maintenance", !.status = "maintenance_in_progress"],
    Happens(8, 290, "announced", {}), Happens(9, 115, "cancelled", {}),
    [Happens(10, 20, "none", {}) EXCEPT !.type = "maintenance"]}

WindowsOfThem == {u \in Events : u.id \in {1, 7, 10}}

E == INSTANCE TimelineView WITH
         NoDate <- None, NoQuery <- None, Timeline <- TimelineEvents, Upgrades <- WindowEvents, Queries <- Sought,
         Day <- DayLength, Ranges <- RangeDays, Streams <- Tabs, History <- ChartHistory, Step <- MomentStep

CONSTANTS Query, BadRange, FirstQuery, Filterable, RefreshMs, MaxHours, ReleaseAnswer

VARIABLES releases, hour

R == INSTANCE ReleaseList WITH First <- FirstQuery, Chains <- Filterable, MaxTime <- MaxHours, Answer <- ReleaseAnswer

Shipped(ids, stale) == [items |-> {[id |-> i, chains |-> IF i = 1 THEN {n1} ELSE {n2}] : i \in ids}, stale |-> stale]

FreshAndStale == {Shipped({1}, FALSE), Shipped({1, 2}, FALSE), Shipped({1}, TRUE)}

-----------------------------------------------------------------------------
(* The dashboard: all networks                                             *)

CONSTANTS TableList, Incident, Word, Sortable, PageSize, MaxTableClicks, MaxArrivals

VARIABLES table, clicks, arrivals

tableVars == <<table, clicks, arrivals>>

T == INSTANCE NetworkTable WITH
         Bulk <- TableList, MaxClicks <- MaxTableClicks, MaxNews <- MaxArrivals, news <- arrivals

Row(id, class, status, tvs, words) == [id |-> id, class |-> class, status |-> status, tvs |-> tvs, words |-> words]

TwoLists ==
    {{Row(1, "l1", "active", None, {"a"}), Row(2, "l2", "active", 7, {"a", "b"})},
     {Row(1, "l1", "deprecated", 0, {"a"}), Row(2, "l2", "active", 5, {"b"}), Row(3, "l2", "active", 9, {"a"})}}

TwoIncidents == {[rank |-> 1, chains |-> {1, 2}], [rank |-> 2, chains |-> {3}]}

CONSTANTS GraphList, Troubled, AllSources, Kind, MaxLoads, MaxPresses, MaxChanges

VARIABLES graph, presses, changes

graphVars == <<graph, presses, changes>>

G == INSTANCE NetworkGraph WITH
         Bulk <- GraphList, Affected <- Troubled, Class <- Kind, MaxClicks <- MaxPresses, MaxNews <- MaxChanges,
         clicks <- presses, news <- changes

Node(id, class, sources, relations) == [id |-> id, class |-> class, sources |-> sources, relations |-> relations]
Says(how, id) == [kind |-> how, id |-> id]

TwoGraphs ==
    {<<Node(1, "l1", {"x"}, <<Says("parentOf", 2)>>), Node(2, "l2", {"x"}, <<Says("l2Of", 1)>>),
       Node(3, "test", {"y"}, <<Says("testnetOf", 1), Says("l2Of", 9)>>)>>,
     <<Node(1, "l1", {"y"}, <<Says("mainnetOf", 2)>>), Node(2, "l2", {"x", "y"}, <<Says("l2Of", 3)>>), Node(3, "l1", {}, <<>>)>>}

NoneOrTwo == {{}, {2}}

CONSTANTS Article, StoryClass, Retries, Fresh, MaxFrames, MaxCloses

VARIABLES kind, screen, link, feed, told, closes

feedVars == <<kind, screen, link, feed, told, closes>>

F == INSTANCE FeedPages WITH Class <- StoryClass

Published(story, source, at, chain) == [story |-> story, source |-> source, at |-> at, chain |-> chain]

TwoStories == {Published("s", "x", 2, FALSE), Published("s", "y", 1, TRUE), Published("t", "x", 3, TRUE)}

ASSUME DashboardAssumption ==
    D!PageAssumption /\ B!ProbesAssumption /\ C!PanelAssumption /\ E!TimelineViewAssumption /\ R!ReleaseListAssumption /\ F!FeedAssumption

-----------------------------------------------------------------------------
(* One part at a time                                                      *)

CONSTANT Parts

everything == <<part, vars, page, probes, chat, timeline, releases, hour, tableVars, graphVars, feedVars>>

\* A page before its script ran, while other parts run.
NoPage == D!Blank([profile |-> None, view |-> "overview", chain |-> None, client |-> None], {})

ClientsInit ==
    /\ part \in Parts
    /\ Init /\ B!Init /\ C!Init /\ E!Init /\ R!Init /\ T!Init /\ G!Init /\ F!Init
    /\ IF part = "drawer" THEN D!Init ELSE page = NoPage
    /\ part # "feeds" => kind = "news"
    /\ part # "table" => ~table.on
    /\ part # "graph" => ~graph.on

\* The reader has what was asked for, has left, or has clicked enough.
Over ==
    \/ part = "drawer" /\ page.asked = {} /\ ~page.loading
    \/ part = "probes" /\ ~shown /\ flying = {}
    \/ part = "chat" /\ question = None /\ looks = 0
    \/ part = "table" /\ clicks = MaxTableClicks
    \/ part = "graph" /\ presses = MaxPresses

ClientsNext ==
    \/ /\ part = "connectors" /\ Next
       /\ UNCHANGED <<part, page, probes, chat, timeline, releases, hour, tableVars, graphVars, feedVars>>
    \/ /\ part = "drawer" /\ D!Next
       /\ UNCHANGED <<part, vars, probes, chat, timeline, releases, hour, tableVars, graphVars, feedVars>>
    \/ /\ part = "probes" /\ B!Next
       /\ UNCHANGED <<part, vars, page, chat, timeline, releases, hour, tableVars, graphVars, feedVars>>
    \/ /\ part = "chat" /\ C!Next
       /\ UNCHANGED <<part, vars, page, probes, timeline, releases, hour, tableVars, graphVars, feedVars>>
    \/ /\ part = "timeline" /\ E!Next
       /\ UNCHANGED <<part, vars, page, probes, chat, releases, hour, tableVars, graphVars, feedVars>>
    \/ /\ part = "releases" /\ R!Next
       /\ UNCHANGED <<part, vars, page, probes, chat, timeline, tableVars, graphVars, feedVars>>
    \/ /\ part = "table" /\ T!Next
       /\ UNCHANGED <<part, vars, page, probes, chat, timeline, releases, hour, graphVars, feedVars>>
    \/ /\ part = "graph" /\ G!Next
       /\ UNCHANGED <<part, vars, page, probes, chat, timeline, releases, hour, tableVars, feedVars>>
    \/ /\ part = "feeds" /\ F!Next
       /\ UNCHANGED <<part, vars, page, probes, chat, timeline, releases, hour, tableVars, graphVars>>
    \/ Over /\ UNCHANGED everything

ClientsSpec == ClientsInit /\ [][ClientsNext]_everything

-----------------------------------------------------------------------------
(* The properties of the instances                                         *)

\* The address is the screen, whatever list loads when (app.js:761-793); a slow answer
\* for what is no longer shown is dropped (app.js:630-635); and no part of the screen
\* waits for an answer that was dropped (profile.js:9-11).
PageIsWhatWasAskedFor ==
    D!ScreenMatchesAddress /\ D!LateAnswersStayOff /\ D!NothingWaitsForDroppedAnswer

\* A list that loads late leaves the open drawer alone (profile.js:69-70).
BulkKeepsDrawer == D!BulkKeepsDrawer

\* No working endpoint is left hidden (profile.js:1041-1075).
WorkingOnesAreOnScreen == B!WorkingOnesAreOnScreen

\* Every question ends in the conversation it was asked in (app.js:4824-4921).
AnswersFollowQuestions == C!AnswersFollowQuestions

\* The range bounds history and never what is to come (app.js:6758-6761), no day comes up
\* twice (app.js:7149), and a window whose time has come is filed as past (app.js:7206).
TimelineIsComplete ==
    E!ToComeIsListed /\ E!EachDayOnce /\ E!WindowsCrossIntoThePast

\* The list of releases is that of the last answer to the query of the view
\* (app.js:5801), and those of the news and the forum are of what the page has, with
\* what was told twice counted once (app.js:5349-5378, 5430-5441).
ListsAreOfWhatWasTold ==
    R!ListIsWhatWasAnswered /\ F!ToldOnceCountsOnce /\ F!ListIsCurrent

\* The table and the graph are of the newest list and of the pressed chips (app.js:717,
\* 2345); a table is sorted by a column that is there (app.js:2186), the incident column
\* stays (app.js:2032), every link has both ends (app.js:2479), and nothing is drawn
\* behind another view (app.js:2334).
NetworksAreCurrent ==
    /\ [](T!TableIsCurrent /\ T!SortIsVisible /\ G!EndsAreDrawn /\ G!GraphIsCurrent /\ G!LoopIsPaused)
    /\ T!ColumnStays
=============================================================================
