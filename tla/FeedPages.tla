------------------------------- MODULE FeedPages -------------------------------
(***************************************************************************)
(* The dashboard's news and forum views (src/public/app.js 5222-5690,      *)
(* 3697-3780), in a behaviour one of them, `kind`.  Both load once, when   *)
(* they are first shown, and then listen to a socket that, each time it    *)
(* opens, replays the newest frame; a list is drawn again 400 ms after a   *)
(* change.  News are grouped into stories, each with its publishers;       *)
(* of a forum's thread the newest post is kept, and the threads are        *)
(* grouped by forum: a tile for each, and a list.  Searching and paging    *)
(* are left out.                                                           *)
(*                                                                         *)
(* `told` remembers what the page has received.                            *)
(***************************************************************************)
EXTENDS Integers, Sequences, FiniteSets, FiniteSetsExt, SequencesExt

CONSTANTS
    None,
    Article,   \* what may be published: [story, source, at, chain]; of a forum, a thread and the forum
    Class,     \* what a story may be classified as
    Retries,   \* tries of a socket that does not open
    Fresh,     \* the frames a socket replays
    MaxFrames, \* bound: what is published and classified
    MaxCloses  \* bound: sockets that close

FeedAssumption == (\A a \in Article : a.at \in Int) /\ None \notin Class /\ Fresh \in Nat

VARIABLES
    kind,   \* "news" or "forum"
    screen, \* the view as the page keeps it
    link,   \* the socket: its state, its tries, its frames under way
    feed,   \* what the service has published, in order
    told, closes

vars == <<kind, screen, link, feed, told, closes>>

-----------------------------------------------------------------------------
(* Stories                                                                 *)

Item(a) == [is |-> "item", story |-> a.story, source |-> a.source, at |-> a.at, chain |-> a.chain, class |-> None]
Classified(story, class) == [is |-> "class", story |-> story, source |-> None, at |-> 0, chain |-> FALSE, class |-> class]
Hello == [Classified(None, None) EXCEPT !.is = "hello"]

Items(frames) == {f \in frames : f.is = "item"}
Known(s) == DOMAIN s.stories

\* The service's own grouping of what it has published.
Grouped(frames, story) ==
    LET said == {i \in DOMAIN frames : frames[i].is = "item" /\ frames[i].story = story}
        classes == {i \in DOMAIN frames : frames[i].is = "class" /\ frames[i].story = story}
        sources == {frames[i].source : i \in said}
    IN [at |-> Max({frames[i].at : i \in said}), sources |-> sources, count |-> Cardinality(sources),
        chain |-> frames[Min(said)].chain, class |-> IF classes = {} THEN None ELSE frames[Max(classes)].class]

\* Map.set, of each of them.
Stored(new, old) == [id \in DOMAIN new \cup DOMAIN old |-> IF id \in DOMAIN new THEN new[id] ELSE old[id]]

\* upsertStory: one that is older and of no more articles changes nothing.
UpsertStory(s, id, story) ==
    IF id \in Known(s) /\ s.stories[id].at >= story.at /\ s.stories[id].count >= story.count THEN s
    ELSE [s EXCEPT !.stories = Stored([x \in {id} |-> story], @)]

OneArticle(f) == [at |-> f.at, sources |-> {f.source}, count |-> 1, chain |-> f.chain, class |-> None]

\* What the service answers, once it has published some frames: of a thread its newest post.
StoriesOf(frames) ==
    LET said == Items(Range(frames))
        Newest(id) == CHOOSE f \in said : f.story = id /\ \A g \in said : g.story = id => g.at <= f.at
    IN [id \in {f.story : f \in said} |-> IF kind = "news" THEN Grouped(frames, id) ELSE OneArticle(Newest(id))]

\* A publisher is counted once, and the newest time stands.
Merged(f, story) ==
    IF f.source \in story.sources THEN [story EXCEPT !.at = Max({@, f.at})]
    ELSE [story EXCEPT !.sources = @ \cup {f.source}, !.count = @ + 1, !.at = Max({@, f.at})]

\* upsertArticle
UpsertArticle(s, f) ==
    IF f.story \in Known(s) THEN [s EXCEPT !.stories[f.story] = Merged(f, @)]
    ELSE UpsertStory(s, f.story, OneArticle(f))

\* upsertForumPost
UpsertForumPost(s, f) ==
    IF f.story \in Known(s) /\ s.stories[f.story].at >= f.at THEN s
    ELSE [s EXCEPT !.stories = Stored([x \in {f.story} |-> OneArticle(f)], @)]

-----------------------------------------------------------------------------
(* The list                                                                *)

\* visibleNews
Visible(s) ==
    {id \in Known(s) :
        /\ s.scope = "chain" => s.stories[id].chain
        /\ s.scope = "multi" => s.stories[id].count > 1
        /\ s.class # "all" => s.stories[id].class = s.class}

Drawn(s) == [id \in Visible(s) |-> [at |-> s.stories[id].at, count |-> s.stories[id].count]]

\* renderNewsUnavailable
Unavailable(s) == [s EXCEPT !.drawn = None, !.chips = {}]

\* renderNewsList: of a feed that is not there, that it is not.
RenderNewsList(s) ==
    IF s.unreachable THEN Unavailable(s) ELSE IF s.loaded THEN [s EXCEPT !.drawn = Drawn(s)] ELSE s

\* groupByForum: the threads of each forum, with their times.
GroupByForum(s) ==
    LET Of(x) == {id \in Known(s) : x \in s.stories[id].sources}
    IN  [x \in UNION {s.stories[id].sources : id \in Known(s)} |-> [id \in Of(x) |-> s.stories[id].at]]

RegroupForum(s) == [s EXCEPT !.groups = GroupByForum(s)]

\* renderForumTreemap: as many posts as each forum has.
RenderForumTreemap(s) == [s EXCEPT !.tiles = [x \in DOMAIN s.groups |-> Cardinality(DOMAIN s.groups[x])]]

\* Of all forums, or of the one whose tile is picked.
Listed(s) == [x \in {y \in DOMAIN s.groups : s.filter \in {None, y}} |-> s.groups[x]]

RenderForumList(s) == IF s.loaded THEN [s EXCEPT !.drawn = Listed(s)] ELSE s

RenderForum(s) == RenderForumList(RenderForumTreemap(s))

\* renderNewsClassChips: a chip for each class that some story has; with nothing
\* classified no chips and no filter are left.
ClassChips(s) == {s.stories[id].class : id \in Known(s)} \ {None}

WithClassChips(s) ==
    IF ClassChips(s) = {} THEN [s EXCEPT !.chips = {}, !.class = "all"]
    ELSE [s EXCEPT !.chips = ClassChips(s) \cup {"all"}]

\* applySearch, which each change of view runs.
Shown(s) == IF kind = "news" THEN RenderNewsList(s) ELSE RenderForum(s)

Rendered(s) == Shown(IF kind = "news" THEN WithClassChips(s) ELSE s)

-----------------------------------------------------------------------------
(* What happens                                                            *)

Init ==
    /\ kind \in {"news", "forum"}
    /\ screen = [on |-> FALSE, loaded |-> FALSE, loading |-> FALSE, unreachable |-> FALSE, stories |-> <<>>,
                 scope |-> "all", class |-> "all", chips |-> {}, due |-> FALSE, drawn |-> None,
                 groups |-> <<>>, filter |-> None, tiles |-> <<>>]
    /\ link = [is |-> "none", tries |-> 0, wire |-> <<>>]
    /\ feed = <<>> /\ told = {} /\ closes = 0

Publishes(f) ==
    /\ Len(feed) < MaxFrames
    /\ feed' = Append(feed, f)
    /\ link' = [link EXCEPT !.wire = IF link.is = "open" THEN Append(@, f) ELSE @]
    /\ UNCHANGED <<kind, screen, told, closes>>

PublishesArticle == \E a \in Article : Publishes(Item(a))

ClassifiesStory ==
    /\ kind = "news"
    /\ \E f \in Items(Range(feed)), class \in Class : Publishes(Classified(f.story, class))

\* ensureNewsView, ensureForumView: one load at a time, none after one that was
\* answered.  switchView draws the list.
Enter ==
    /\ ~screen.on
    /\ LET s == [screen EXCEPT !.on = TRUE, !.loading = ~screen.loaded]
       IN screen' = Shown(s)
    /\ UNCHANGED <<kind, link, feed, told, closes>>

Leave == screen.on /\ screen' = [screen EXCEPT !.on = FALSE] /\ UNCHANGED <<kind, link, feed, told, closes>>

Regrouped(s) == IF kind = "forum" THEN RegroupForum(s) ELSE s

Loaded(s) == [s EXCEPT !.loaded = TRUE, !.loading = FALSE, !.unreachable = FALSE]

Connecting == [link EXCEPT !.is = "connecting", !.wire = <<>>]

\* loadNewsFeed, loadForumFeed: drawn whatever view is on.
LoadEnds ==
    /\ screen.loading
    /\ screen' = Rendered(Loaded(Regrouped([screen EXCEPT !.stories = Stored(StoriesOf(feed), @)])))
    /\ told' = told \cup Items(Range(feed))
    /\ link' = Connecting
    /\ UNCHANGED <<kind, feed, closes>>

LoadFails ==
    /\ screen.loading
    /\ screen' = IF kind = "news" THEN Unavailable([screen EXCEPT !.loading = FALSE, !.unreachable = TRUE])
                 ELSE [screen EXCEPT !.loading = FALSE, !.drawn = None]
    /\ UNCHANGED <<kind, link, feed, told, closes>>

SocketOpens ==
    /\ link.is = "connecting"
    /\ LET newest == Items(Range(SubSeq(feed, Len(feed) - Min({Fresh, Len(feed)}) + 1, Len(feed))))
       IN link' = [is |-> "open", tries |-> 0, wire |-> <<Hello>> \o SetToSeq(newest)]
    /\ UNCHANGED <<kind, screen, feed, told, closes>>

\* What was under way is lost; after some tries the page gives up.
SocketCloses ==
    /\ link.is \in {"connecting", "open"} /\ closes < MaxCloses
    /\ closes' = closes + 1
    /\ link' = IF link.tries < Retries THEN [is |-> "waiting", tries |-> link.tries + 1, wire |-> <<>>]
               ELSE [link EXCEPT !.is = "given up", !.wire = <<>>]
    /\ UNCHANGED <<kind, screen, feed, told>>

Reconnects == link.is = "waiting" /\ link' = Connecting /\ UNCHANGED <<kind, screen, feed, told, closes>>

\* scheduleNewsRerender, scheduleForumRerender
Due(s) == IF s.stories = screen.stories THEN s ELSE [s EXCEPT !.due = TRUE]

\* A classification of a story the page has not is dropped.
Received(f) ==
    CASE f.is = "hello" -> IF kind = "news" THEN WithClassChips(screen) ELSE screen
      [] f.is = "item" -> Due(IF kind = "news" THEN UpsertArticle(screen, f) ELSE UpsertForumPost(screen, f))
      [] f.is = "class" -> IF f.story \in Known(screen) THEN [screen EXCEPT !.stories[f.story].class = f.class, !.due = TRUE] ELSE screen

FrameArrives ==
    /\ link.wire # <<>>
    /\ screen' = Received(Head(link.wire))
    /\ told' = told \cup Items({Head(link.wire)})
    /\ link' = [link EXCEPT !.wire = Tail(@)]
    /\ UNCHANGED <<kind, feed, closes>>

\* The threads are grouped anew whatever view is on.
Refreshed(s) == IF s.on THEN Rendered(Regrouped(s)) ELSE Regrouped(s)

Rerenders ==
    /\ screen.due
    /\ screen' = Refreshed([screen EXCEPT !.due = FALSE])
    /\ UNCHANGED <<kind, link, feed, told, closes>>

ClicksScope(scope) ==
    /\ kind = "news" /\ screen.on
    /\ screen' = RenderNewsList([screen EXCEPT !.scope = scope])
    /\ UNCHANGED <<kind, link, feed, told, closes>>

\* A chip that was drawn.
ClicksClass(class) ==
    /\ kind = "news" /\ screen.on /\ class \in screen.chips
    /\ screen' = Rendered([screen EXCEPT !.class = class])
    /\ UNCHANGED <<kind, link, feed, told, closes>>

\* Picking the tile again shows all.
ClicksTile(x) ==
    /\ kind = "forum" /\ screen.on
    /\ screen' = RenderForum([screen EXCEPT !.filter = IF @ = x THEN None ELSE x])
    /\ UNCHANGED <<kind, link, feed, told, closes>>

Next ==
    \/ PublishesArticle \/ ClassifiesStory
    \/ Enter \/ Leave \/ LoadEnds \/ LoadFails
    \/ SocketOpens \/ SocketCloses \/ Reconnects \/ FrameArrives \/ Rerenders
    \/ \E scope \in {"all", "chain", "multi"} : ClicksScope(scope)
    \/ \E class \in Class \cup {"all"} : ClicksClass(class)
    \/ \E x \in DOMAIN screen.tiles : ClicksTile(x)

-----------------------------------------------------------------------------
(* Properties                                                              *)

\* However often an article is told, by the load, by the socket and by the replay of
\* each reconnection, its publisher is counted once and the newest time stands
\* (app.js:5349-5378, 3765-3778).
ToldOnceCountsOnce ==
    \A id \in Known(screen) :
        LET of == {f \in told : f.story = id}
            story == screen.stories[id]
        IN /\ story.at = Max({f.at : f \in of})
           /\ kind = "news" => story.sources = {f.source : f \in of} /\ story.count = Cardinality(story.sources)

\* The list before a reader is of what the page has, though it changed behind another
\* view or while it was loading, and "the list below stays in lockstep" with the tiles:
\* each shows the posts the list has of its forum (app.js:719-752, 5430-5441, 3861-3863).
ListIsCurrent ==
    screen.on /\ screen.loaded =>
        /\ ~screen.due => screen.drawn = IF kind = "news" THEN Drawn(screen) ELSE Listed(RegroupForum(screen))
        /\ kind = "forum" =>
              /\ DOMAIN screen.drawn = {x \in DOMAIN screen.tiles : screen.filter \in {None, x}}
              /\ \A x \in DOMAIN screen.drawn : screen.tiles[x] = Cardinality(DOMAIN screen.drawn[x])
=============================================================================
