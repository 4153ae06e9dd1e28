---------------------------- MODULE PriceService ----------------------------
(***************************************************************************)
(* The price cache (src/priceService.js): requests that find an asset      *)
(* missing or expired, and the timer that re-warms every asset, share one  *)
(* request per asset.  A call sends one batch for the assets nobody is     *)
(* fetching, waits for it and for the batches that fetch the others, and   *)
(* only then records everything it got.                                    *)
(*                                                                         *)
(* Promise callbacks run before anything else does: when a batch answers,  *)
(* every call that waited for nothing more records in the same step.       *)
(*                                                                         *)
(* Abstracted: a quote is there ("some") or the upstream does not know the *)
(* asset ("none"); the two TTLs are expiry at any moment.                  *)
(***************************************************************************)
CONSTANTS
    Coin,    \* CoinGecko IDs
    Caller,  \* calls that may be under way at once: requests and the timer
    NoEntry, \* no entry in priceCache: no quote
    Nobody   \* no fetch of an asset is in flight: no caller

ASSUME NobodyAssumption == Nobody \notin Caller

\* The quote of a cache entry; "none" is a negative entry.
Quote == {"some", "none"}

VARIABLES
    cache,    \* priceCache
    expired,  \* the assets whose entry is past its TTL
    inflight, \* for each asset, the caller whose batch fetches it
    needs,    \* what each call set out to get; {} when it is not under way
    own,      \* its own batch, while unanswered
    waits,    \* the assets it awaits from batches of others
    found,    \* the assets it has a quote for
    failed    \* the calls of which some batch has failed

vars == <<cache, expired, inflight, needs, own, waits, found, failed>>

TypeOK ==
    /\ cache \in [Coin -> Quote \cup {NoEntry}]
    /\ expired \in SUBSET Coin
    /\ inflight \in [Coin -> Caller \cup {Nobody}]
    /\ needs \in [Caller -> SUBSET Coin]
    /\ own \in [Caller -> SUBSET Coin] /\ waits \in [Caller -> SUBSET Coin]
    /\ found \in [Caller -> SUBSET Coin]
    /\ failed \in SUBSET Caller

Init ==
    /\ cache = [i \in Coin |-> NoEntry]
    /\ expired = {}
    /\ inflight = [i \in Coin |-> Nobody]
    /\ needs = [c \in Caller |-> {}]
    /\ own = [c \in Caller |-> {}] /\ waits = [c \in Caller |-> {}]
    /\ found = [c \in Caller |-> {}]
    /\ failed = {}

-----------------------------------------------------------------------------

UnderWay == {c \in Caller : needs[c] # {}}

Fresh(i) == cache[i] # NoEntry /\ i \notin expired

\* Mutant: a call fetches whatever it needs.
UnfetchedOrNot(I) == I

\* The assets no batch is fetching.
Unfetched(I) == {i \in I : inflight[i] = Nobody}

\* fetchCoinIds up to its first await.
Fetch(c, I) ==
    LET mine == Unfetched(I)
    IN  /\ c \notin UnderWay /\ I # {}
        /\ needs' = [needs EXCEPT ![c] = I]
        /\ own' = [own EXCEPT ![c] = mine]
        /\ waits' = [waits EXCEPT ![c] = I \ mine]
        /\ inflight' = [i \in Coin |-> IF i \in mine THEN c ELSE inflight[i]]
        /\ UNCHANGED <<cache, expired, found, failed>>

\* getPriceForChain, getPricesForChains: what is fresh is served from the cache.
GetPrices(c, I) == Fetch(c, {i \in I : ~Fresh(i)})

\* prefetchAllPrices, at start-up and on the timer.
Prefetch(c) == Fetch(c, Coin)

\* Mutant: a call forgets that an earlier batch of its own failed.
LossyAfterAny(c, ok) == ~ok

\* Whether a call, once a batch it waits for has answered, has met a failure.
LossyAfter(c, ok) == c \in failed \/ ~ok

\* recordResults of call c: what it found, and what a call without failure did
\* not find.
Recorded(c, i, got) == IF i \in found[c] \cup got THEN "some" ELSE "none"

Records(c, got, ok) ==
    IF LossyAfter(c, ok) THEN needs[c] \cap (found[c] \cup got) ELSE needs[c]

\* The batch of call o has answered with quotes for `got`, or failed: o and the
\* calls that wait for one of its assets go on, and those with nothing left to
\* wait for record and end.  Two that record one asset do so in some order.
Settle(o, got, ok) ==
    LET batch == own[o]
        Reached(c) == c = o \/ waits[c] \cap batch # {}
        Ends(c) == Reached(c) /\ (c = o \/ own[c] = {}) /\ waits[c] \subseteq batch
        ending == {c \in UnderWay : Ends(c)}
        Writers(i) == {c \in ending : i \in Records(c, got, ok)}
    IN  /\ batch # {}
        /\ inflight' = [i \in Coin |-> IF i \in batch THEN Nobody ELSE inflight[i]]
        /\ own' = [own EXCEPT ![o] = {}]
        /\ waits' = [c \in Caller |-> waits[c] \ batch]
        /\ found' = [c \in Caller |->
                        IF c \in ending THEN {}
                        ELSE IF Reached(c) THEN found[c] \cup (got \cap needs[c]) ELSE found[c]]
        /\ failed' = {c \in UnderWay \ ending : IF Reached(c) THEN LossyAfter(c, ok) ELSE c \in failed}
        /\ needs' = [c \in Caller |-> IF c \in ending THEN {} ELSE needs[c]]
        /\ \E last \in [Coin -> Caller] :
              /\ \A i \in Coin : Writers(i) # {} => last[i] \in Writers(i)
              /\ cache' = [i \in Coin |-> IF Writers(i) = {} THEN cache[i]
                                          ELSE Recorded(last[i], i, got)]
        /\ expired' = {i \in expired : Writers(i) = {}}

\* The upstream answers, perhaps without some of the assets.
BatchAnswers(o) == \E got \in SUBSET own[o] : Settle(o, got, TRUE)

\* PRICE_FETCH_TIMEOUT_MS, an HTTP error, or a body that cannot be read.
BatchFails(o) == Settle(o, {}, FALSE)

Expire(i) ==
    /\ Fresh(i)
    /\ expired' = expired \cup {i}
    /\ UNCHANGED <<cache, inflight, needs, own, waits, found, failed>>

Next ==
    \/ \E c \in Caller, I \in SUBSET Coin : GetPrices(c, I)
    \/ \E c \in Caller : Prefetch(c)
    \/ \E o \in Caller : BatchAnswers(o) \/ BatchFails(o)
    \/ \E i \in Coin : Expire(i)

Spec == Init /\ [][Next]_vars

-----------------------------------------------------------------------------
(* Properties                                                              *)

\* "One in-flight promise per coinId": no asset is in two batches at a time,
\* and nobody waits for ever: a call under way has a batch of its own out, or
\* what it waits for is in the batch of another (priceService.js:74).
OneRequestPerCoin ==
    /\ \A c, d \in Caller : c # d => own[c] \cap own[d] = {}
    /\ \A c \in UnderWay : own[c] \cup waits[c] # {}
    /\ \A c \in Caller : waits[c] \subseteq UNION {own[d] : d \in Caller \ {c}}

\* "Upstream failed; leave any prior entry intact": a quote gives way to "no
\* such asset" only on the word of a call none of whose batches failed, however
\* the batches it waited for ended (priceService.js:215).
FailureKeepsQuotes ==
    [][\A i \in Coin :
          cache[i] = "some" /\ cache'[i] = "none" =>
             /\ \A o \in Caller : ~BatchFails(o)
             /\ \E c \in UnderWay \ failed : i \in needs[c] /\ needs'[c] = {}]_vars
=============================================================================
