----------------------------- MODULE ForumNews -----------------------------
(***************************************************************************)
(* The forum-news store (src/src/sources/forumNews.js): pushed by a socket *)
(* that replays the newest posts when it opens, and seeded over REST when  *)
(* it is read while the socket is down or nothing has come yet.  Revisions *)
(* of a post arrive in any order and several times.                        *)
(*                                                                         *)
(* A revision: id, published, fresh (when it was edited).  How long the    *)
(* socket waits before it reconnects (wsRetries, WS_STABLE_AFTER_MS), the  *)
(* filters of a read and the posts' wording are left out.                  *)
(***************************************************************************)
EXTENDS Naturals, SequencesExt

CONSTANTS
    Revision,  \* the revisions of posts the feed may hold
    Replay,    \* posts a socket replays, and a REST answer holds
    MaxItems   \* MAX_STORE_ITEMS

\* An edit leaves a post's time of publication and has a time of its own; no two posts
\* are of one millisecond (of those the store may keep either).
NewsAssumption ==
    /\ Replay \in Nat \ {0} /\ MaxItems \in Nat \ {0}
    /\ \A x, y \in Revision :
          /\ x.published \in Nat /\ x.fresh \in Nat
          /\ x.published = y.published <=> x.id = y.id
          /\ x.id = y.id /\ x.fresh = y.fresh => x = y

VARIABLES
    feed,      \* what the feed has, in the order it got it
    socket,    \* "none", "connecting", "open" or "waiting" to reconnect
    wire,      \* pushed revisions on their way
    store,     \* one revision per post
    seed,      \* the REST answers under way: none or one
    attempted, \* a REST attempt was made within FORUM_NEWS_CACHE_TTL_MS
    heard      \* history: the revisions that were given to upsertItem

vars == <<feed, socket, wire, store, seed, attempted, heard>>

Newest(n) == SubSeq(feed, Max({1, Len(feed) - n + 1}), Len(feed))

Init ==
    /\ feed = <<>>
    /\ socket = "none"
    /\ wire = <<>>
    /\ store = {}
    /\ seed = {}
    /\ attempted = FALSE
    /\ heard = {}

-----------------------------------------------------------------------------
(* The store                                                               *)

\* A revision that is not fresher than the stored one is dropped.
Stale(old, x) == old.fresh >= x.fresh

\* evictOldest, when there is one too many.
Capped(st) ==
    IF Cardinality(st) <= MaxItems THEN st
    ELSE st \ {CHOOSE x \in st : \A y \in st : x.published <= y.published}

\* upsertItem
UpsertItem(st, x) ==
    IF \E old \in st : old.id = x.id /\ Stale(old, x) THEN st
    ELSE Capped({y \in st : y.id # x.id} \cup {x})

\* Of a batch, one after the other.
Taken(st, revisions) ==
    LET after[i \in 0..Len(revisions)] == IF i = 0 THEN st ELSE UpsertItem(after[i - 1], revisions[i])
    IN  after[Len(revisions)]

Take(revisions) ==
    /\ store' = Taken(store, revisions)
    /\ heard' = heard \cup ToSet(revisions)

-----------------------------------------------------------------------------
(* Its two sources                                                         *)

\* A post appears or is edited; an open socket pushes it.
Publish(x) ==
    /\ x \notin ToSet(feed)
    /\ feed' = Append(feed, x)
    /\ wire' = IF socket = "open" THEN Append(wire, x) ELSE wire
    /\ UNCHANGED <<socket, store, seed, attempted, heard>>

\* getForumNews up to its await: the socket is opened on the first call; a call
\* that needs REST joins the answer under way, and makes at most one attempt in
\* a time to live.
GetForumNews ==
    LET needsRest == socket # "open" \/ store = {}
        starts == needsRest /\ seed = {} /\ ~attempted
    IN  /\ socket' = IF socket = "none" THEN "connecting" ELSE socket
        /\ seed' = IF starts THEN {Newest(Replay)} ELSE seed
        /\ attempted' = (attempted \/ starts)
        /\ UNCHANGED <<feed, wire, store, heard>>

\* doRestSeed has its answer; its posts were there when the feed answered.
SeedArrives ==
    /\ \E answer \in seed : Take(answer)
    /\ seed' = {}
    /\ UNCHANGED <<feed, socket, wire, attempted>>

\* It fails: what is stored is served, or the call is refused.
SeedFails ==
    /\ seed # {}
    /\ seed' = {}
    /\ UNCHANGED <<feed, socket, wire, store, attempted, heard>>

TtlEnds ==
    /\ attempted
    /\ attempted' = FALSE
    /\ UNCHANGED <<feed, socket, wire, store, seed, heard>>

\* ws 'open'
WsOpens ==
    /\ socket = "connecting"
    /\ socket' = "open"
    /\ wire' = Newest(Replay)
    /\ UNCHANGED <<feed, store, seed, attempted, heard>>

\* ws 'message'
WsMessage ==
    /\ wire # <<>>
    /\ wire' = Tail(wire)
    /\ Take(<<Head(wire)>>)
    /\ UNCHANGED <<feed, socket, seed, attempted>>

\* ws 'close': what was on its way is lost.
WsCloses ==
    /\ socket \in {"connecting", "open"}
    /\ socket' = "waiting"
    /\ wire' = <<>>
    /\ UNCHANGED <<feed, store, seed, attempted, heard>>

\* scheduleWsReconnect's timer; the constructor may fail at once.
WsReconnects ==
    /\ socket = "waiting"
    /\ socket' = "connecting"
    /\ UNCHANGED <<feed, wire, store, seed, attempted, heard>>

Next ==
    \/ \E x \in Revision : Publish(x)
    \/ GetForumNews \/ SeedArrives \/ SeedFails \/ TtlEnds
    \/ WsOpens \/ WsMessage \/ WsCloses \/ WsReconnects

-----------------------------------------------------------------------------
(* Properties                                                              *)

\* A lagging answer or a replay changes nothing: of all that was ever heard the
\* store has the newest posts, each as it was last edited (forumNews.js:209-235).
StoreHoldsNewest ==
    LET latest == {x \in heard : \A y \in heard : y.id = x.id => y.fresh <= x.fresh}
    IN  store = {x \in latest : Cardinality({y \in latest : y.published > x.published}) < MaxItems}
=============================================================================
