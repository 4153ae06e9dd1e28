----------------------------- MODULE NetworkGraph -----------------------------
(***************************************************************************)
(* The dashboard's 3D graph (src/public/app.js 2290-2620, 540-570): its    *)
(* library comes with the first visit, and a list of networks, a filter, a *)
(* choice of sources or the reader's leaving may come before it.  Nodes    *)
(* and links are built of one list; the filter reads the relations of the  *)
(* newest.  A loop draws frames until it is paused.                        *)
(***************************************************************************)
EXTENDS Integers, Sequences, FiniteSets, SequencesExt

CONSTANTS
    None,
    Bulk,      \* lists of networks: sequences of [id, class, sources, relations], a relation being [kind, id]
    Affected,  \* sets of networks with an open incident, as the feed has them
    AllSources,
    Class,     \* what may be filtered by
    MaxLoads,  \* bound: tries to load the library
    MaxClicks, \* bound: clicks
    MaxNews    \* bound: lists and changes of the feed

VARIABLES
    graph,  \* the view as the page keeps it
    clicks, news

-----------------------------------------------------------------------------
(* Relations of a list                                                     *)

Listed(bulk) == IF bulk = None THEN <<>> ELSE bulk

\* buildRelations: /summary carries both directions of an edge; the last of
\* the list says who a network's parent is.
Edges(bulk) ==
    FlattenSeq([k \in DOMAIN Listed(bulk) |->
        [r \in DOMAIN Listed(bulk)[k].relations |->
            LET c == Listed(bulk)[k]
                said == c.relations[r]
            IN IF said.kind \in {"l2Of", "testnetOf"}
               THEN [kind |-> said.kind, child |-> c.id, parent |-> said.id]
               ELSE [kind |-> IF said.kind = "parentOf" THEN "l2Of" ELSE "testnetOf", child |-> said.id, parent |-> c.id]]])

ParentOf(bulk, kind, id) ==
    LET says == SelectSeq(Edges(bulk), LAMBDA e : e.kind = kind /\ e.child = id /\ e.parent # None)
    IN IF says = <<>> THEN None ELSE Last(says).parent

Parents(bulk, id) == {ParentOf(bulk, kind, id) : kind \in {"l2Of", "testnetOf"}} \ {None}

-----------------------------------------------------------------------------
(* The graph                                                               *)

Nothing == [nodes |-> {}, links |-> {}]

VisibleChains(g) ==
    {c \in Range(Listed(g.bulk)) : g.sources = AllSources \/ c.sources \cap g.sources # {}}

\* buildGraph, once the library is there.
Data(g) ==
    LET ids == {c.id : c \in VisibleChains(g)} IN
    [nodes |-> {[id |-> c.id, class |-> c.class, size |-> g.size] : c \in VisibleChains(g)},
     links |-> {[kind |-> p[1], from |-> p[2], to |-> ParentOf(g.bulk, p[1], p[2])] :
                    p \in {q \in {"l2Of", "testnetOf"} \X ids : ParentOf(g.bulk, q[1], q[2]) \in ids}}]

\* renderGraph draws what was built and starts the loop.
BuildGraph(g) ==
    IF g.lib # "loaded" THEN [g EXCEPT !.dirty = TRUE]
    ELSE LET data == Data(g) IN
         IF g.built THEN [g EXCEPT !.data = data]
         ELSE [g EXCEPT !.data = data, !.built = TRUE, !.drawn = data, !.running = TRUE]

LinksFor(g, ids) == {l \in g.data.links : l.from \in ids /\ l.to \in ids}

\* applyGraphFilter: each match with its parents, of the newest list.
Filtered(g) ==
    IF g.type = "all" THEN g.data
    ELSE LET matches == {n.id : n \in {m \in g.data.nodes : m.class = g.type}}
             ids == matches \cup UNION {Parents(g.bulk, id) : id \in matches}
         IN [nodes |-> {n \in g.data.nodes : n.id \in ids}, links |-> LinksFor(g, ids)]

\* What is given to the library is coloured anew.
ApplyGraphFilter(g) ==
    IF g.built THEN [g EXCEPT !.drawn = Filtered(g), !.coloured = IF g.emphasis THEN g.open ELSE None] ELSE g

Redrawn(g) == ApplyGraphFilter(BuildGraph(g))

\* One that takes the mark for what is being built.
EnsureAndClear(g) ==
    LET r == [g EXCEPT !.running = @ \/ g.built]
    IN IF Listed(r.bulk) = <<>> THEN r
       ELSE [r EXCEPT !.waiting = @ + 1, !.lib = IF @ = "none" THEN "loading" ELSE @, !.dirty = g.lib # "loaded"]

\* ensureGraphView up to its await, and after it.
EnsureGraphView(g) ==
    LET r == [g EXCEPT !.running = @ \/ g.built]
    IN IF Listed(r.bulk) = <<>> THEN r
       ELSE [r EXCEPT !.waiting = @ + 1, !.lib = IF @ = "none" THEN "loading" ELSE @]

Ensured(g) == IF g.on /\ g.dirty THEN [Redrawn(g) EXCEPT !.dirty = FALSE] ELSE g

PauseGraph(g) == [g EXCEPT !.running = FALSE]

\* switchView; applyBulk comes through it again.
SwitchView(g, on) == IF on THEN EnsureGraphView([g EXCEPT !.on = TRUE]) ELSE PauseGraph([g EXCEPT !.on = FALSE])

ApplyBulk(g, bulk) ==
    LET u == [g EXCEPT !.bulk = bulk, !.open = g.live, !.dirty = TRUE]
    IN SwitchView(IF u.on THEN EnsureGraphView(u) ELSE u, u.on)

-----------------------------------------------------------------------------
(* What happens                                                            *)

Init ==
    /\ clicks = 0 /\ news = 0
    /\ \E on \in BOOLEAN :
        graph = [on |-> on, bulk |-> None, lib |-> "none", loads |-> 0, built |-> FALSE, dirty |-> TRUE, waiting |-> 0,
                 running |-> FALSE, data |-> Nothing, drawn |-> Nothing, coloured |-> None, live |-> {}, due |-> FALSE,
                 open |-> {}, type |-> "all", size |-> "tvs", emphasis |-> FALSE, sources |-> AllSources]

Clicked(g) == clicks < MaxClicks /\ clicks' = clicks + 1 /\ graph' = g /\ UNCHANGED news
Told(g) == news < MaxNews /\ news' = news + 1 /\ graph' = g /\ UNCHANGED clicks
Goes(g) == graph' = g /\ UNCHANGED <<clicks, news>>

BulkArrives == \E bulk \in Bulk : Told(ApplyBulk(graph, bulk))

\* The script of ensureGraphLib answers; one that fails may be asked for again.
LibraryLoads == graph.lib = "loading" /\ Goes([graph EXCEPT !.lib = "loaded"])
LibraryFails ==
    /\ graph.lib = "loading" /\ graph.loads < MaxLoads
    /\ Goes([graph EXCEPT !.lib = "none", !.loads = @ + 1, !.waiting = 0])

\* A visit resumes after its await.
ViewIsEnsured == graph.waiting > 0 /\ graph.lib = "loaded" /\ Goes(Ensured([graph EXCEPT !.waiting = @ - 1]))

FeedChanges == \E live \in Affected : live # graph.live /\ Told([graph EXCEPT !.live = live, !.due = TRUE])

\* repaintIncidentSurfaces, whatever view is on.
Repaint ==
    /\ graph.due
    /\ LET g == [graph EXCEPT !.due = FALSE, !.open = graph.live]
       IN Goes(IF g.emphasis THEN ApplyGraphFilter(g) ELSE g)

ChangesView == Clicked(SwitchView(graph, ~graph.on))

ClicksType(type) == graph.on /\ type # graph.type /\ Clicked(ApplyGraphFilter([graph EXCEPT !.type = type]))
ClicksSize(size) == graph.on /\ size # graph.size /\ Clicked(Redrawn([graph EXCEPT !.size = size]))
ClicksEmphasis == graph.on /\ Clicked(ApplyGraphFilter([graph EXCEPT !.emphasis = ~@]))
ClicksSource(s) ==
    graph.on /\ Clicked(Redrawn([graph EXCEPT !.sources = IF s \in @ THEN @ \ {s} ELSE @ \cup {s}]))

Next ==
    \/ BulkArrives \/ LibraryLoads \/ LibraryFails \/ ViewIsEnsured \/ FeedChanges \/ Repaint \/ ChangesView
    \/ \E type \in Class \cup {"all"} : ClicksType(type)
    \/ \E size \in {"tvs", "flat"} : ClicksSize(size)
    \/ ClicksEmphasis \/ \E s \in AllSources : ClicksSource(s)

-----------------------------------------------------------------------------
(* Properties                                                              *)

\* Every link that is drawn has both its ends, though the filter reads the relations
\* of a newer list than the nodes are of: the library has no frame for one that has
\* not (app.js:2479-2499).
EndsAreDrawn ==
    LET ids == {n.id : n \in graph.drawn.nodes}
    IN \A l \in graph.drawn.links : l.from \in ids /\ l.to \in ids

\* Once a visit has its library, the graph is that of the newest list, of the pressed
\* chips and of the incidents (app.js:2345-2353, 2445, 1282).
GraphIsCurrent ==
    graph.on /\ Listed(graph.bulk) # <<>> /\ graph.lib = "loaded" /\ graph.waiting = 0 =>
        /\ graph.drawn = Filtered([graph EXCEPT !.data = Data(graph)])
        /\ graph.emphasis => graph.coloured = graph.open

\* "the render loop does NOT stop when the section is hidden" (app.js:2334-2335): no
\* list, filter or repaint starts it again behind another view, and it runs before a
\* reader.
LoopIsPaused == graph.built => graph.running = graph.on
===============================================================================
