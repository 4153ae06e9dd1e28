----------------------------- MODULE ClientFeed -----------------------------
(***************************************************************************)
(* The proxied client release feed (src/src/sources/clientFeed.js).  Each  *)
(* URL's body is kept for a while, and longer to be served stale when the  *)
(* feed fails; the kept ones are bounded in number and in bytes, oldest    *)
(* first to go.  Reads overlap: nothing joins two of one URL.              *)
(***************************************************************************)
EXTENDS Integers, Sequences, FiniteSets, SequencesExt, FiniteSetsExt

CONSTANTS
    Url,
    Size,      \* [Url -> sizes its body may have]
    MaxKeys,   \* MAX_CACHE_KEYS
    MaxBytes,  \* CLIENT_FEED_CACHE_MAX_BYTES
    Ttl,       \* CLIENT_FEED_CACHE_TTL_MS
    None,
    MaxReads,  \* bound: reads under way
    MaxTime    \* bound: the clock

\* What the constants are; asserted by the module that gives them values.
CacheAssumption == None \notin [url : Url, fetchedAt : Nat, bytes : Nat] /\ \A u \in Url : Size[u] \subseteq Nat

VARIABLES
    now,
    cache,     \* the Map, in its order: <<[url, fetchedAt, bytes]>>
    cacheBytes,
    reads,     \* under way: {[url, hit, since]}
    answer     \* of the read that ended last

vars == <<now, cache, cacheBytes, reads, answer>>

Init == now = 0 /\ cache = <<>> /\ cacheBytes = 0 /\ reads = {} /\ answer = None

IsKept(url) == \E i \in DOMAIN cache : cache[i].url = url
Place(url) == CHOOSE i \in DOMAIN cache : cache[i].url = url

Hit(url) == IF IsKept(url) THEN cache[Place(url)] ELSE None

\* Together, and of the first n.
BytesUpTo(entries, n) ==
    LET upTo[i \in 0 .. Len(entries)] == IF i = 0 THEN 0 ELSE upTo[i - 1] + entries[i].bytes IN upTo[n]

BytesOf(entries) == BytesUpTo(entries, Len(entries))

\* The most recent entries that both bounds allow, the last one in any case.
Allowed(entries, bytes) ==
    Max({n \in 1 .. Len(entries) :
            n = 1 \/ (n <= MaxKeys /\ bytes - BytesUpTo(entries, Len(entries) - n) <= MaxBytes)})

PriorBytes(url) == IF Hit(url) = None THEN 0 ELSE Hit(url).bytes

Remember(url, bytes) ==
    LET others  == IF IsKept(url) THEN RemoveAt(cache, Place(url)) ELSE cache
        entries == Append(others, [url |-> url, fetchedAt |-> now, bytes |-> bytes])
        held    == cacheBytes - PriorBytes(url) + bytes
        kept    == Allowed(entries, held)
    IN  /\ cache' = SubSeq(entries, Len(entries) - kept + 1, Len(entries))
        /\ cacheBytes' = held - BytesUpTo(entries, Len(entries) - kept)

\* cachedGet: a young body answers, else the feed is asked.
CachedGet(url) ==
    /\ Cardinality(reads) < MaxReads
    /\ IF Hit(url) # None /\ now - Hit(url).fetchedAt < Ttl
       THEN answer' = [url |-> url, fetchedAt |-> Hit(url).fetchedAt, stale |-> FALSE] /\ UNCHANGED reads
       ELSE reads' = reads \cup {[url |-> url, hit |-> Hit(url), since |-> now]} /\ UNCHANGED answer
    /\ UNCHANGED <<now, cache, cacheBytes>>

FeedAnswers(r, bytes) ==
    /\ r \in reads
    /\ Remember(r.url, bytes)
    /\ reads' = reads \ {r}
    /\ answer' = [url |-> r.url, fetchedAt |-> now, stale |-> FALSE]
    /\ UNCHANGED now

\* Unknown to the feed, or a query it rejects: not kept, and never answered stale.
FeedRejects(r) ==
    /\ r \in reads
    /\ reads' = reads \ {r} /\ answer' = None
    /\ UNCHANGED <<now, cache, cacheBytes>>

\* The body that was there when the read began is served, if there was one.
FeedFails(r) ==
    /\ r \in reads
    /\ reads' = reads \ {r}
    /\ answer' = IF r.hit = None THEN None ELSE [url |-> r.url, fetchedAt |-> r.hit.fetchedAt, stale |-> TRUE]
    /\ UNCHANGED <<now, cache, cacheBytes>>

Tick ==
    /\ now < MaxTime
    /\ now' = now + 1
    /\ UNCHANGED <<cache, cacheBytes, reads, answer>>

Next ==
    \/ Tick
    \/ \E u \in Url : CachedGet(u)
    \/ \E r \in reads : FeedRejects(r) \/ FeedFails(r) \/ \E b \in Size[r.url] : FeedAnswers(r, b)

Spec == Init /\ [][Next]_vars

-----------------------------------------------------------------------------
(* Properties                                                              *)

\* "Bounded by entries AND by total size" (clientFeed.js:48): the count of bytes is
\* that of the bodies that are kept, however reads of one URL overlap, so that the
\* bounds hold and no body goes while there is room.
CacheIsBounded ==
    /\ cacheBytes = BytesOf(cache)
    /\ Len(cache) > 1 => Len(cache) <= MaxKeys /\ BytesOf(cache) <= MaxBytes
    /\ \A i, j \in DOMAIN cache : i < j => cache[i].url # cache[j].url /\ cache[i].fetchedAt <= cache[j].fetchedAt
=============================================================================
