----------------------------- MODULE NetworkTable -----------------------------
(***************************************************************************)
(* The table of the dashboard's networks view (src/public/app.js 2023-     *)
(* 2290): the networks of the newest list that pass the filters and the    *)
(* search, in the order of one column, as many of them as were asked for.  *)
(* Lists come from the loader, open incidents from the feed, after a pause *)
(* that collects them, and a search after one that waits for the typist.   *)
(* The table on screen is kept as it was last drawn.                       *)
(***************************************************************************)
EXTENDS Integers, Sequences, FiniteSets, FiniteSetsExt, SequencesExt

CONSTANTS
    None,
    Bulk,      \* lists of networks: [id, class, status, tvs, words]
    Incident,  \* open incidents: [rank, chains]
    Word,      \* what may be searched for, besides nothing
    Sortable,  \* the columns that are clicked: of "chainId", "tvs", "incident"
    PageSize,  \* rows before "show more"
    MaxClicks, \* bound: clicks and searches
    MaxNews    \* bound: lists and changes of the feed

VARIABLES
    table,  \* the view as the page keeps it
    clicks, news

-----------------------------------------------------------------------------
(* What a table is drawn from                                              *)

Chains(t) == IF t.bulk = None THEN {} ELSE t.bulk

\* buildOpenIncidentIndex, of the incidents the feed says are open.
OpenOf(live, c) == {i \in live : c \in i.chains}
Affected(live) == UNION {i.chains : i \in live}

Passes(t, c) ==
    /\ t.type # "all" => c.class = t.type
    /\ t.status # "all" => c.status = t.status
    /\ t.incidentOnly => c.id \in Affected(t.open)
    /\ t.tvsOnly => c.tvs # None /\ c.tvs > 0
    /\ t.query # None => t.query \in c.words

\* chainSort, and the incidents a row is sorted by.
SortOf(t) == [key |-> t.key, dir |-> t.dir, open |-> t.open]

\* chainRow: what a row is sorted by.
SortValue(by, c) ==
    CASE by.key = "chainId" -> c.id
      [] by.key = "tvs" -> IF c.tvs = None THEN -1 ELSE c.tvs
      [] by.key = "incident" ->
           LET open == OpenOf(by.open, c.id)
           IN IF open = {} THEN 0 ELSE Max({i.rank : i \in open}) * 1000 + Cardinality(open)

\* The sort keeps the list's order of what is equal.
Above(by, a, b) ==
    LET x == SortValue(by, a) * by.dir
        y == SortValue(by, b) * by.dir
    IN x < y \/ (x = y /\ a.id < b.id)

Ranked(by, rows) ==
    [k \in 1..Cardinality(rows) |-> (CHOOSE c \in rows : Cardinality({b \in rows : Above(by, b, c)}) = k - 1).id]

ShowsL2Beat(t) == t.tvsOnly \/ t.type = "l2" \/ t.key = "tvs"
ShowsIncident(t) == t.incidentOnly \/ t.latched \/ t.open # {}

Rows(t) == {c \in Chains(t) : Passes(t, c)}
Limit(t) == IF t.shown = None THEN PageSize ELSE t.shown

\* What a reader sees: rows, columns, and how many are left.
Drawn(t) ==
    LET rows == Rows(t) IN
    [rows |-> SubSeq(Ranked(SortOf(t), rows), 1, Min({Limit(t), Cardinality(rows)})),
     more |-> Max({0, Cardinality(rows) - Limit(t)}), of |-> Cardinality(Chains(t)),
     l2beat |-> ShowsL2Beat(t), incident |-> ShowsIncident(t)]

\* renderChainsTable: once there, the incident column stays.
Latched(t) == [t EXCEPT !.latched = @ \/ ShowsIncident(t)]

SyncedHeaders(t) == [t EXCEPT !.header = <<t.key, t.dir>>]

WithVisibleSort(t) ==
    IF ~ShowsIncident(t) /\ t.key = "incident" THEN SyncedHeaders([t EXCEPT !.key = "chainId", !.dir = 1]) ELSE t

RenderChainsTable(t) ==
    LET u == WithVisibleSort(Latched(t)) IN [u EXCEPT !.drawn = Drawn(u)]

IfOnScreen(t) == IF t.on THEN RenderChainsTable(t) ELSE t

\* applySearch, with a first page.
ApplySearch(t) == IF t.on THEN RenderChainsTable([t EXCEPT !.shown = None]) ELSE t

SwitchView(t, on) ==
    LET u == [t EXCEPT !.on = on]
    IN ApplySearch(IF on /\ u.stale THEN RenderChainsTable([u EXCEPT !.stale = FALSE]) ELSE u)

\* applyBulk, which applies the address again.
ApplyBulk(t, bulk) ==
    LET u == [t EXCEPT !.bulk = bulk, !.open = t.live]
        v == IF u.on THEN RenderChainsTable(u) ELSE [u EXCEPT !.stale = TRUE]
    IN SwitchView(v, v.on)

-----------------------------------------------------------------------------
(* What happens                                                            *)

Init ==
    /\ clicks = 0 /\ news = 0
    /\ \E on \in BOOLEAN :
         LET t == [on |-> on, bulk |-> None, live |-> {}, due |-> FALSE, open |-> {},
                   query |-> None, typed |-> FALSE, type |-> "all", status |-> "all", incidentOnly |-> FALSE, tvsOnly |-> FALSE,
                   key |-> "chainId", dir |-> 1, header |-> <<"chainId", 1>>, shown |-> None, latched |-> FALSE, stale |-> FALSE,
                   drawn |-> [rows |-> <<>>, more |-> 0, of |-> 0, l2beat |-> TRUE, incident |-> TRUE]]
         IN table = IF on THEN RenderChainsTable(t) ELSE t

Clicked(t) == clicks < MaxClicks /\ clicks' = clicks + 1 /\ table' = t /\ UNCHANGED news
Told(t) == news < MaxNews /\ news' = news + 1 /\ table' = t /\ UNCHANGED clicks

BulkArrives == \E bulk \in Bulk : Told(ApplyBulk(table, bulk))

\* addIncidents: the page knows at once, the index after 120 ms.
FeedChanges == \E live \in SUBSET Incident : live # table.live /\ Told([table EXCEPT !.live = live, !.due = TRUE])

\* scheduleIncidentRepaint
Repaint ==
    /\ table.due
    /\ table' = IfOnScreen([table EXCEPT !.due = FALSE, !.open = table.live])
    /\ UNCHANGED <<clicks, news>>

ChangesView == Clicked(SwitchView(table, ~table.on))

Types == \E w \in Word \cup {None} : w # table.query /\ Clicked([table EXCEPT !.query = w, !.typed = TRUE])

\* The debounced applySearch.
TypingRests == table.typed /\ table' = ApplySearch([table EXCEPT !.typed = FALSE]) /\ UNCHANGED <<clicks, news>>

\* Only a column that is there has a header to click.
ShownColumn(t, key) == (key = "tvs" => t.drawn.l2beat) /\ (key = "incident" => t.drawn.incident)

ClicksHeader(key) ==
    /\ table.on /\ ShownColumn(table, key)
    /\ LET t == [table EXCEPT !.dir = IF table.key = key THEN -@ ELSE 1, !.key = key]
       IN Clicked(RenderChainsTable(SyncedHeaders(t)))

ClicksType(type) == table.on /\ Clicked(RenderChainsTable([table EXCEPT !.type = type, !.shown = None]))
ClicksStatus(status) == table.on /\ Clicked(RenderChainsTable([table EXCEPT !.status = status, !.shown = None]))
ClicksIncidentOnly == table.on /\ Clicked(RenderChainsTable([table EXCEPT !.incidentOnly = ~@, !.shown = None]))
ClicksTvsOnly == table.on /\ Clicked(RenderChainsTable([table EXCEPT !.tvsOnly = ~@, !.shown = None]))

ShowsMore ==
    /\ table.on /\ table.drawn.more > 0
    /\ Clicked(RenderChainsTable([table EXCEPT !.shown = Limit(table) + PageSize * 3]))

Next ==
    \/ BulkArrives \/ FeedChanges \/ Repaint
    \/ ChangesView \/ Types \/ TypingRests
    \/ \E key \in Sortable : ClicksHeader(key)
    \/ \E type \in {"all", "l2"} : ClicksType(type)
    \/ \E status \in {"all", "deprecated"} : ClicksStatus(status)
    \/ ClicksIncidentOnly \/ ClicksTvsOnly \/ ShowsMore

-----------------------------------------------------------------------------
(* Properties                                                              *)

\* The table on screen is that of the newest list, of the incidents the other
\* views show, of the search box and of the pressed chips, however they changed
\* while another view was on (app.js:717, 752, 1277).
TableIsCurrent == table.on /\ ~table.typed => table.drawn = Drawn(table)

\* "a table silently sorted by an invisible column is a puzzle" (app.js:2186-2187), and
\* "the caret can never disagree with chainSort" (app.js:2038).
SortIsVisible ==
    /\ table.header = <<table.key, table.dir>>
    /\ table.on => ShownColumn(table, table.key)

\* "Once the Incident column has appeared it stays" (app.js:2032): no incident that
\* closes and no filter that is lifted takes it away.
ColumnStays == [][table.on /\ table.drawn.incident /\ table'.on => table'.drawn.incident]_table
===============================================================================
