----------------------------- MODULE ForkFeeds -----------------------------
(***************************************************************************)
(* The feed items that mention forks (src/src/sources/forkFeeds.js), of the*)
(* one feed whose archive is paged: its newest page is read in every round,*)
(* the older pages once an hour, by time, while the feed goes on.  Other   *)
(* feeds appear as whether one of them answered.                           *)
(*                                                                         *)
(* An item: id, at (its publication), fork (whether it mentions one).      *)
(***************************************************************************)
EXTENDS Integers, FiniteSetsExt

CONSTANTS
    Item,
    Limit,     \* FETCH_LIMIT
    MaxPages   \* HISTORY_MAX_PAGES

\* Times are in milliseconds since 1970.
FeedsAssumption == Limit \in Nat \ {0} /\ \A x \in Item : x.at \in Nat

VARIABLES
    feed,      \* the items it has
    round,     \* the refresh under way, step by step
    older,     \* history[feed.kind]
    olderFresh, \* read less than HISTORY_TTL_MS ago
    cache,     \* what is served of this feed, and whether it answered
    rest,      \* why the cache is not refreshed: "fresh", "failed" or no reason, "due"
    rejecting  \* `fork=true` was refused less than an hour ago

vars == <<feed, round, older, olderFresh, cache, rest, rejecting>>

Never == -1
NoRound == [step |-> "none"]
NoPages == [items |-> {}, start |-> Never, oldest |-> Never, asOf |-> {}]
Nothing == [items |-> {}, ok |-> FALSE, filtered |-> FALSE, oldest |-> Never, page |-> Never, asOf |-> {}, with |-> NoPages]

Forks(list) == {x \in list : x.fork}
OldestTime(list) == IF list = {} THEN Never ELSE Min({x.at : x \in list})

\* The newest items, of one time in some order.
Pages(items) ==
    {page \in SUBSET items :
        /\ Cardinality(page) = Min({Limit, Cardinality(items)})
        /\ \A x \in page, y \in items \ page : x.at >= y.at}

Init ==
    /\ feed = {}
    /\ round = NoRound
    /\ older = NoPages
    /\ olderFresh = FALSE
    /\ cache = Nothing
    /\ rest = "due"
    /\ rejecting = FALSE

-----------------------------------------------------------------------------

\* An item is published, or found late.
Publish(x) ==
    /\ feed' = feed \cup {x}
    /\ feed' # feed
    /\ UNCHANGED <<round, older, olderFresh, cache, rest, rejecting>>

\* getForkMentions: callers share a round.
GetForkMentions ==
    /\ round = NoRound /\ rest = "due"
    /\ round' = [step |-> "newest", filtered |-> ~rejecting]
    /\ UNCHANGED <<feed, older, olderFresh, cache, rest, rejecting>>

\* fetchFeed, its first request: the parameter is refused.
Rejected ==
    /\ round.step = "newest" /\ round.filtered
    /\ round' = [round EXCEPT !.filtered = FALSE]
    /\ rejecting' = TRUE
    /\ UNCHANGED <<feed, older, olderFresh, cache, rest>>

\* The feed's part of the next cache: its newest page, and older ones if any.
Answered(list, page, pages, filtered, asOf) ==
    [step |-> "answered", items |-> Forks(list) \cup pages.items, ok |-> TRUE, filtered |-> filtered,
     oldest |-> IF pages = NoPages THEN page ELSE pages.oldest, page |-> page, asOf |-> asOf, with |-> pages]

\* The newest page; a full one of forks alone says that there are older ones.
NewestPage ==
    /\ round.step = "newest"
    /\ \E list \in Pages(IF round.filtered THEN Forks(feed) ELSE feed) :
          LET page == OldestTime(list)
          IN  round' = IF ~round.filtered \/ Cardinality(list) < Limit
                       THEN Answered(list, page, NoPages, round.filtered, feed)
                       ELSE IF olderFresh
                       THEN Answered(list, page, older, TRUE, feed)
                       ELSE [step |-> "older", newest |-> list, page |-> page, asOf |-> feed,
                             items |-> {}, until |-> page, left |-> MaxPages]
    /\ UNCHANGED <<feed, older, olderFresh, cache, rest, rejecting>>

\* Mutant: the next page starts below the last item of this one.
UntilExclusive(u) == {x \in Forks(feed) : x.at < u}

\* `until` is inclusive.
Until(u) == {x \in Forks(feed) : x.at <= u}

\* fetchHistory: one page after the other; one that is not full, or that is all
\* of one time, is the last.
OlderPage ==
    /\ round.step = "older"
    /\ \E list \in Pages(Until(round.until)) :
          LET next == OldestTime(list)
              items == round.items \cup list
              ends == Cardinality(list) < Limit \/ next = round.until \/ round.left = 1
              read == [items |-> items, start |-> round.page, oldest |-> IF list = {} THEN round.until ELSE next, asOf |-> round.asOf]
          IN  IF ends
              THEN /\ older' = read
                   /\ olderFresh' = TRUE
                   /\ round' = Answered(round.newest, round.page, read, TRUE, round.asOf)
              ELSE /\ round' = [round EXCEPT !.items = items, !.until = next, !.left = @ - 1]
                   /\ UNCHANGED <<older, olderFresh>>
    /\ UNCHANGED <<feed, cache, rest, rejecting>>

\* A page that fails leaves the pages that were there.
OlderPageFails ==
    /\ round.step = "older"
    /\ round' = Answered(round.newest, round.page, older, TRUE, round.asOf)
    /\ UNCHANGED <<feed, older, olderFresh, cache, rest, rejecting>>

NewestPageFails ==
    /\ round.step = "newest"
    /\ round' = [step |-> "failed"]
    /\ UNCHANGED <<feed, older, olderFresh, cache, rest, rejecting>>

\* refresh, once every feed has answered or failed: a feed that failed keeps its
\* items; when all did, the last good set is served for a while.
EndRound(another) ==
    /\ round.step \in {"answered", "failed"}
    /\ IF round.step = "answered"
       THEN cache' = [f \in DOMAIN cache |-> round[f]] /\ rest' = "fresh"
       ELSE /\ cache' = [cache EXCEPT !.ok = FALSE]
            /\ rest' = IF another THEN "fresh" ELSE IF cache = Nothing THEN "due" ELSE "failed"
    /\ round' = NoRound
    /\ UNCHANGED <<feed, older, olderFresh, rejecting>>

\* Times to live and FAILURE_BACKOFF_MS run out.
CacheAges == rest # "due" /\ rest' = "due" /\ UNCHANGED <<feed, round, older, olderFresh, cache, rejecting>>
OlderAges == olderFresh /\ olderFresh' = FALSE /\ UNCHANGED <<feed, round, older, cache, rest, rejecting>>
RejectionAges == rejecting /\ rejecting' = FALSE /\ UNCHANGED <<feed, round, older, olderFresh, cache, rest>>

Next ==
    \/ \E x \in Item : Publish(x)
    \/ GetForkMentions \/ Rejected \/ NewestPage \/ NewestPageFails \/ OlderPage \/ OlderPageFails
    \/ \E another \in BOOLEAN : EndRound(another)
    \/ CacheAges \/ OlderAges \/ RejectionAges

-----------------------------------------------------------------------------
(* Properties                                                              *)

\* What is served is complete down to the time it claims, `oldest`, wherever
\* pages ended and whatever was published meanwhile, but for the stretch that
\* forkFeeds.js:189-190 names: between where the older pages were started from
\* and the newest page now.
NoHolesInHistory ==
    \A x \in cache.asOf :
        /\ x.fork /\ x.at > cache.oldest
        /\ x.at > cache.page \/ (x \in cache.with.asOf /\ x.at <= cache.with.start)
        => x \in cache.items
=============================================================================
