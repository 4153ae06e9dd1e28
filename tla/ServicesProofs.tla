--------------------------- MODULE ServicesProofs ---------------------------
(***************************************************************************)
(* Parts of the service that MCServices runs side by side, for all their   *)
(* constants.  Of each part, the invariant that its steps keep comes       *)
(* first, then the steps, then what MCServices checks of it.               *)
(***************************************************************************)
EXTENDS MCServices, FiniteSetTheorems, WellFoundedInduction, TLAPS

-----------------------------------------------------------------------------
(* Orders of finite sets, and induction up to a number                     *)

Below(S, R, n) == {m \in S : <<m, n>> \in R}

\* As many are below one as below another only if they are the same, so each number is taken.
LEMMA EveryRankIsTaken ==
    ASSUME NEW S, IsFiniteSet(S), NEW R,
           \A x \in S : <<x, x>> \notin R,
           \A x, y \in S : x = y \/ <<x, y>> \in R \/ <<y, x>> \in R,
           \A x, y, z \in S : <<x, y>> \in R /\ <<y, z>> \in R => <<x, z>> \in R
    PROVE  /\ Cardinality(S) \in Nat
           /\ \A m, n \in S : <<m, n>> \in R => Cardinality(Below(S, R, m)) < Cardinality(Below(S, R, n))
           /\ \A k \in 1 .. Cardinality(S) : \E n \in S : Cardinality(Below(S, R, n)) = k - 1
<1> DEFINE Ranks == 0 .. Cardinality(S) - 1
           rank == [n \in S |-> Cardinality(Below(S, R, n))]
<1>1. Cardinality(S) \in Nat
    BY FS_CardinalityType
<1>2. ASSUME NEW n \in S
      PROVE  IsFiniteSet(Below(S, R, n)) /\ Cardinality(Below(S, R, n)) \in Nat /\ Cardinality(Below(S, R, n)) < Cardinality(S)
    <2>1. IsFiniteSet(S \ {n}) /\ Cardinality(S \ {n}) = Cardinality(S) - 1
        BY FS_RemoveElement
    <2>2. Below(S, R, n) \in SUBSET (S \ {n})
        BY DEF Below
    <2>3. IsFiniteSet(Below(S, R, n)) /\ Cardinality(Below(S, R, n)) <= Cardinality(S \ {n})
        BY <2>1, <2>2, FS_Subset
    <2> QED BY <1>1, <2>1, <2>3, FS_CardinalityType
<1>3. ASSUME NEW m \in S, NEW n \in S, <<m, n>> \in R
      PROVE  Cardinality(Below(S, R, m)) < Cardinality(Below(S, R, n))
    <2>1. Below(S, R, m) \cup {m} \in SUBSET Below(S, R, n) /\ m \notin Below(S, R, m)
        BY <1>3 DEF Below
    <2>2. Cardinality(Below(S, R, m) \cup {m}) = Cardinality(Below(S, R, m)) + 1
        BY <1>2, <2>1, FS_AddElement
    <2>3. Cardinality(Below(S, R, m) \cup {m}) <= Cardinality(Below(S, R, n))
        BY <1>2, <2>1, FS_Subset
    <2> QED BY <1>2, <2>2, <2>3
<1>4. rank \in Injection(S, Ranks)
    <2>1. rank \in [S -> Ranks]
        BY <1>1, <1>2
    <2>2. ASSUME NEW m \in S, NEW n \in S, m # n PROVE rank[m] # rank[n]
        <3>1. <<m, n>> \in R \/ <<n, m>> \in R
            BY <2>2
        <3> QED BY <1>2, <1>3, <3>1
    <2>3. \A m, n \in DOMAIN rank : rank[m] = rank[n] => m = n
        BY <2>2
    <2> HIDE DEF rank, Ranks
    <2>4. IsInjective(rank)
        BY <2>3 DEF IsInjective
    <2> QED BY <2>1, <2>4 DEF Injection
<1>5. IsFiniteSet(Ranks) /\ Cardinality(Ranks) = Cardinality(S)
    <2>1. 0 \in Int /\ Cardinality(S) - 1 \in Int
        BY <1>1
    <2>2. IsFiniteSet(Ranks) /\ Cardinality(Ranks) = IF 0 > Cardinality(S) - 1 THEN 0 ELSE Cardinality(S) - 1 - 0 + 1
        BY <2>1, FS_Interval
    <2> QED BY <1>1, <2>2
<1>6. rank \in Surjection(S, Ranks)
    <2> HIDE DEF rank, Ranks
    <2> QED BY <1>4, <1>5, FS_Injection
<1>7. ASSUME NEW k \in 1 .. Cardinality(S) PROVE \E n \in S : Cardinality(Below(S, R, n)) = k - 1
    <2>1. k - 1 \in Ranks
        BY <1>1
    <2>2. \E n \in S : rank[n] = k - 1
        <3> HIDE DEF rank, Ranks
        <3> QED BY <1>6, <2>1 DEF Surjection
    <2> QED BY <2>2
<1> QED BY <1>1, <1>3, <1>7

LEMMA FiniteHasLeast ==
    ASSUME NEW Set \in SUBSET Int, IsFiniteSet(Set), Set # {}
    PROVE  \E m \in Set : \A x \in Set : m <= x
<1> DEFINE R == {p \in Set \X Set : p[1] < p[2]}
<1>1. /\ \A x \in Set : <<x, x>> \notin R
      /\ \A x, y \in Set : x = y \/ <<x, y>> \in R \/ <<y, x>> \in R
      /\ \A x, y, z \in Set : <<x, y>> \in R /\ <<y, z>> \in R => <<x, z>> \in R
    OBVIOUS
<1>2. Cardinality(Set) \in Nat /\ Cardinality(Set) # 0
    BY FS_CardinalityType, FS_EmptySet
<1>3. \E m \in Set : Cardinality(Below(Set, R, m)) = 1 - 1
    <2>1. 1 \in 1 .. Cardinality(Set)
        BY <1>2
    <2> HIDE DEF R
    <2> QED BY <1>1, <2>1, EveryRankIsTaken
<1>4. PICK m \in Set : Cardinality(Below(Set, R, m)) = 0
    BY <1>3
<1>5. Below(Set, R, m) = {}
    <2>1. Below(Set, R, m) \in SUBSET Set
        BY DEF Below
    <2> HIDE DEF R
    <2> QED BY <1>4, <2>1, FS_Subset, FS_EmptySet
<1>6. ASSUME NEW x \in Set PROVE m <= x
    <2>1. ~(x < m)
        BY <1>5 DEF Below
    <2> QED BY <2>1
<1> QED BY <1>6

LEMMA FiniteHasGreatest ==
    ASSUME NEW Set \in SUBSET Int, IsFiniteSet(Set), Set # {}
    PROVE  \E m \in Set : \A x \in Set : x <= m
<1> DEFINE Minus == {-x : x \in Set}
           f == [x \in Set |-> -x]
<1>1. Minus \in SUBSET Int /\ Minus # {}
    OBVIOUS
<1>2. IsFiniteSet(Minus)
    <2>1. f \in Surjection(Set, Minus)
        BY DEF Surjection
    <2> HIDE DEF f, Minus
    <2> QED BY <2>1, FS_Surjection
<1>3. PICK y \in Minus : \A x \in Minus : y <= x
    <2> HIDE DEF Minus
    <2> QED BY <1>1, <1>2, FiniteHasLeast
<1>4. PICK m \in Set : y = -m
    OBVIOUS
<1>5. ASSUME NEW x \in Set PROVE x <= m
    <2>1. -m <= -x
        BY <1>3, <1>4
    <2> QED BY <2>1
<1> QED BY <1>5

\* Induction: what holds at first, and after each number at the next, holds up to the last.
LEMMA EachUpTo ==
    ASSUME NEW n \in Nat, NEW S, 0 \in S, \A i \in 0 .. n - 1 : i \in S => i + 1 \in S
    PROVE  \A i \in 0 .. n : i \in S
<1> DEFINE bad == {i \in 0 .. n : i \notin S}
<1> SUFFICES ASSUME bad # {} PROVE FALSE
    OBVIOUS
<1>1. IsFiniteSet(0 .. n)
    BY FS_Interval, 0 \in Int, n \in Int
<1>2. IsFiniteSet(bad) /\ bad \in SUBSET Int
    <2>1. bad \in SUBSET (0 .. n) /\ bad \in SUBSET Int
        OBVIOUS
    <2> HIDE DEF bad
    <2> QED BY <1>1, <2>1, FS_Subset
<1>3. PICK k \in bad : \A x \in bad : k <= x
    <2> HIDE DEF bad
    <2> QED BY <1>2, FiniteHasLeast
<1>4. k \in 0 .. n /\ k \notin S /\ k # 0
    OBVIOUS
<1>5. k - 1 \in 0 .. n - 1 /\ k - 1 \notin bad
    BY <1>3, <1>4
<1>6. k - 1 \in S
    BY <1>5
<1> QED BY <1>4, <1>5, <1>6

-----------------------------------------------------------------------------
(* The price cache                                                         *)

\* The batches that are out are exactly what priceInflight names, a call awaits
\* only what another's batch fetches, and it is under way as long as it waits.
BatchInv ==
    /\ TypeOK
    /\ \A c \in Caller, i \in Coin : i \in own[c] <=> inflight[i] = c
    /\ \A c \in Caller : \A i \in waits[c] : inflight[i] \in Caller \ {c}
    /\ \A c \in Caller : needs[c] = {} <=> own[c] \cup waits[c] = {}

\* A call that sets out fetches what nobody fetches and awaits the rest.
LEMMA FetchKeepsBatches ==
    ASSUME BatchInv, NEW c \in Caller, NEW I \in SUBSET Coin, Fetch(c, I)
    PROVE  BatchInv'
<1> DEFINE mine == {i \in I : inflight[i] = Nobody}
<1>1. /\ needs' = [needs EXCEPT ![c] = I] /\ own' = [own EXCEPT ![c] = mine]
      /\ waits' = [waits EXCEPT ![c] = I \ mine]
      /\ inflight' = [i \in Coin |-> IF i \in mine THEN c ELSE inflight[i]]
      /\ UNCHANGED <<cache, expired, found, failed>>
      /\ needs[c] = {} /\ I # {}
    BY DEF Fetch, Unfetched, UnderWay
<1>2. mine \in SUBSET Coin /\ \A i \in mine : inflight[i] = Nobody
    OBVIOUS
<1>3. \A i \in I \ mine : inflight[i] \in Caller
    BY DEF BatchInv, TypeOK
<1>4. own[c] = {} /\ waits[c] = {}
    BY <1>1 DEF BatchInv
<1>5. mine \cup (I \ mine) = I
    OBVIOUS
<1> HIDE DEF mine
<1>6. TypeOK'
    BY <1>1, <1>2 DEF BatchInv, TypeOK
<1>7. ASSUME NEW d \in Caller, NEW i \in Coin PROVE i \in own'[d] <=> inflight'[i] = d
    BY <1>1, <1>2, <1>4, NobodyAssumption DEF BatchInv, TypeOK
<1>8. ASSUME NEW d \in Caller, NEW i \in waits'[d] PROVE inflight'[i] \in Caller \ {d}
    <2>1. CASE d = c
        BY <1>1, <1>3, <1>4, <1>8, <2>1 DEF BatchInv, TypeOK
    <2>2. CASE d # c
        BY <1>1, <1>2, <1>8, <2>2, NobodyAssumption DEF BatchInv, TypeOK
    <2> QED BY <2>1, <2>2
<1>9. ASSUME NEW d \in Caller PROVE needs'[d] = {} <=> own'[d] \cup waits'[d] = {}
    BY <1>1, <1>5 DEF BatchInv, TypeOK
<1> QED BY <1>6, <1>7, <1>8, <1>9 DEF BatchInv

\* A batch that ends leaves the batches of the others, and ends no call that
\* still waits for one.
LEMMA SettleKeepsBatches ==
    ASSUME BatchInv, NEW o \in Caller, NEW got \in SUBSET own[o], NEW ok \in BOOLEAN, Settle(o, got, ok)
    PROVE  BatchInv'
<1> DEFINE batch == own[o]
           Reached(c) == c = o \/ waits[c] \cap batch # {}
           Ends(c) == Reached(c) /\ (c = o \/ own[c] = {}) /\ waits[c] \subseteq batch
           ending == {c \in UnderWay : Ends(c)}
           Writers(i) == {c \in ending : i \in Records(c, got, ok)}
<1>1. /\ batch # {}
      /\ inflight' = [i \in Coin |-> IF i \in batch THEN Nobody ELSE inflight[i]]
      /\ own' = [own EXCEPT ![o] = {}]
      /\ waits' = [c \in Caller |-> waits[c] \ batch]
      /\ needs' = [c \in Caller |-> IF c \in ending THEN {} ELSE needs[c]]
    BY DEF Settle
<1>2. found' = [c \in Caller |->
                   IF c \in ending THEN {}
                   ELSE IF Reached(c) THEN found[c] \cup (got \cap needs[c]) ELSE found[c]]
    BY DEF Settle
<1>3. failed' \in SUBSET Caller /\ expired' \in SUBSET Coin
    BY DEF Settle, UnderWay, BatchInv, TypeOK
<1>4. cache' \in [Coin -> Quote \cup {NoEntry}]
    BY DEF Settle, Recorded, Quote, BatchInv, TypeOK
<1>5. TypeOK'
    <2>1. found' \in [Caller -> SUBSET Coin]
        BY <1>2 DEF BatchInv, TypeOK
    <2>2. needs' \in [Caller -> SUBSET Coin] /\ waits' \in [Caller -> SUBSET Coin]
        BY <1>1 DEF BatchInv, TypeOK
    <2>3. own' \in [Caller -> SUBSET Coin] /\ inflight' \in [Coin -> Caller \cup {Nobody}]
        BY <1>1 DEF BatchInv, TypeOK
    <2> QED BY <1>3, <1>4, <2>1, <2>2, <2>3 DEF TypeOK
<1>6. \A i \in batch : inflight[i] = o
    BY DEF BatchInv, TypeOK
<1>7. o \in UnderWay
    BY <1>1 DEF BatchInv, UnderWay
<1>8. \A c \in UnderWay \ ending : own'[c] \cup waits'[c] # {}
    <2> SUFFICES ASSUME NEW c \in UnderWay, ~Ends(c) PROVE own'[c] \cup waits'[c] # {}
        OBVIOUS
    <2>1. c \in Caller /\ own[c] \cup waits[c] # {}
        BY DEF BatchInv, UnderWay
    <2>2. CASE ~Reached(c)
        BY <1>1, <2>1, <2>2 DEF BatchInv, TypeOK
    <2>3. CASE ~(waits[c] \subseteq batch)
        BY <1>1, <2>1, <2>3
    <2>4. CASE c # o /\ own[c] # {}
        BY <1>1, <2>1, <2>4 DEF BatchInv, TypeOK
    <2> QED BY <2>2, <2>3, <2>4
<1>9. \A c \in ending : own'[c] = {} /\ waits'[c] = {}
    BY <1>1 DEF UnderWay, BatchInv, TypeOK
<1>10. ASSUME NEW c \in Caller PROVE needs'[c] = {} <=> own'[c] \cup waits'[c] = {}
    <2>1. CASE c \in ending
        BY <1>1, <1>9, <2>1
    <2>2. CASE c \in UnderWay \ ending
        BY <1>1, <1>8, <2>2 DEF UnderWay
    <2>3. CASE c \notin UnderWay
        BY <1>1, <1>7, <2>3 DEF UnderWay, BatchInv, TypeOK
    <2> QED BY <2>1, <2>2, <2>3
<1>11. ASSUME NEW c \in Caller, NEW i \in Coin PROVE i \in own'[c] <=> inflight'[i] = c
    BY <1>1, <1>6, NobodyAssumption DEF BatchInv, TypeOK
<1>12. ASSUME NEW c \in Caller, NEW i \in waits'[c] PROVE inflight'[i] \in Caller \ {c}
    BY <1>1, <1>12 DEF BatchInv, TypeOK
<1> QED BY <1>5, <1>10, <1>11, <1>12 DEF BatchInv

\* BatchInv holds throughout.
LEMMA BatchInvariant == Spec => []BatchInv
<1>1. Init => BatchInv
    BY NobodyAssumption DEF Init, BatchInv, TypeOK
<1>2. BatchInv /\ [Next]_vars => BatchInv'
    <2> SUFFICES ASSUME BatchInv, [Next]_vars PROVE BatchInv'
        OBVIOUS
    <2>1. ASSUME NEW c \in Caller, NEW I \in SUBSET Coin, GetPrices(c, I) PROVE BatchInv'
        BY <2>1, FetchKeepsBatches DEF GetPrices
    <2>2. ASSUME NEW c \in Caller, Prefetch(c) PROVE BatchInv'
        BY <2>2, FetchKeepsBatches DEF Prefetch
    <2>3. ASSUME NEW o \in Caller, BatchAnswers(o) \/ BatchFails(o) PROVE BatchInv'
        BY <2>3, SettleKeepsBatches DEF BatchAnswers, BatchFails
    <2>4. ASSUME NEW i \in Coin, Expire(i) PROVE BatchInv'
        BY <2>4 DEF Expire, BatchInv, TypeOK
    <2>5. CASE UNCHANGED vars
        BY <2>5 DEF vars, BatchInv, TypeOK
    <2> QED BY <2>1, <2>2, <2>3, <2>4, <2>5 DEF Next
<1> QED BY <1>1, <1>2, PTL DEF Spec

\* "One in-flight promise per coinId" (priceService.js:74) for any number of
\* coins and calls, and no call under way waits for a batch that is not out.
THEOREM SharedRequests == Spec => []OneRequestPerCoin
<1>1. BatchInv => OneRequestPerCoin
    <2> SUFFICES ASSUME BatchInv PROVE OneRequestPerCoin
        OBVIOUS
    <2>1. \A c, d \in Caller : c # d => own[c] \cap own[d] = {}
        BY DEF BatchInv, TypeOK
    <2>2. \A c \in UnderWay : own[c] \cup waits[c] # {}
        BY DEF BatchInv, UnderWay
    <2>3. \A c \in Caller : waits[c] \subseteq UNION {own[d] : d \in Caller \ {c}}
        BY DEF BatchInv, TypeOK
    <2> QED BY <2>1, <2>2, <2>3 DEF OneRequestPerCoin
<1> QED BY <1>1, BatchInvariant, PTL

\* A batch that fails turns no quote into "no such asset".
LEMMA FailedBatchKeeps ==
    ASSUME TypeOK, NEW o \in Caller, BatchFails(o), NEW i \in Coin, cache[i] = "some"
    PROVE  cache'[i] = "some"
BY DEF BatchFails, Settle, Records, LossyAfter, Recorded

\* "Upstream failed; leave any prior entry intact" (priceService.js:215),
\* whatever calls share which batches and however those end.
THEOREM QuotesAreKept == Spec => FailureKeepsQuotes
<1> DEFINE Lost(i) == cache[i] = "some" /\ cache'[i] = "none"
           Told(i) == /\ \A o \in Caller : ~BatchFails(o)
                      /\ \E c \in UnderWay \ failed : i \in needs[c] /\ needs'[c] = {}
<1>1. BatchInv /\ [Next]_vars => [\A i \in Coin : Lost(i) => Told(i)]_vars
    <2> SUFFICES ASSUME BatchInv, Next, NEW i \in Coin, Lost(i) PROVE Told(i)
        OBVIOUS
    <2>1. \A o \in Caller : ~BatchFails(o)
        BY FailedBatchKeeps DEF BatchInv
    <2>2. PICK o \in Caller : BatchAnswers(o)
        BY <2>1 DEF Next, GetPrices, Prefetch, Fetch, Expire
    <2>3. PICK got \in SUBSET own[o] : Settle(o, got, TRUE)
        BY <2>2 DEF BatchAnswers
    <2>4. \E c \in UnderWay \ failed : i \in needs[c] /\ needs'[c] = {}
        BY <2>3 DEF Settle, Records, LossyAfter, Recorded, UnderWay
    <2> QED BY <2>1, <2>4
<1> QED BY <1>1, BatchInvariant, PTL DEF Spec, FailureKeepsQuotes

-----------------------------------------------------------------------------
(* Chat jobs                                                               *)

JobsTypeOK ==
    /\ jobs \in SUBSET Job
    /\ status \in [Job -> {"none", "running", "done", "error"}]
    /\ post \in [Job -> {"none", "waiting", "woken", "200", "202", "503"}]
    /\ timer \in [Job -> {"none", "set", "fired"}]
    /\ polled \in [Job -> {"nothing", "none", "running", "done", "error", "not found"}]

\* A job that runs is in the map and has no removal yet; one whose client was told to
\* poll is taken out by its removal alone.
JobsInv ==
    /\ \A j \in Job :
          /\ status[j] = "none" => post[j] = "none" /\ timer[j] = "none"
          /\ status[j] = "running" => j \in jobs /\ timer[j] = "none"
          /\ post[j] = "202" => j \in jobs \/ timer[j] = "fired"
          /\ polled[j] = "not found" => timer[j] = "fired"

RunningInv == IsFiniteSet(T!Running) /\ Cardinality(T!Running) <= MaxConcurrentJobs

LEMMA JobsTypeStep == JobsTypeOK /\ T!JobsNext => JobsTypeOK'
<1> SUFFICES ASSUME JobsTypeOK, NEW j \in Job,
                    \/ T!StartAssistantJob(j) \/ T!RunEnds(j) \/ T!Wakes(j)
                    \/ T!Answers(j) \/ T!Poll(j) \/ T!Removed(j)
             PROVE  JobsTypeOK'
    BY DEF T!JobsNext
<1> USE DEF JobsTypeOK
<1>1. CASE T!StartAssistantJob(j)
    BY <1>1 DEF T!StartAssistantJob
<1>2. CASE T!RunEnds(j)
    BY <1>2 DEF T!RunEnds
<1>3. CASE T!Wakes(j)
    BY <1>3 DEF T!Wakes
<1>4. CASE T!Answers(j)
    BY <1>4 DEF T!Answers
<1>5. CASE T!Poll(j)
    BY <1>5 DEF T!Poll
<1>6. CASE T!Removed(j)
    BY <1>6 DEF T!Removed, T!RemovalDue
<1> QED BY <1>1, <1>2, <1>3, <1>4, <1>5, <1>6

LEMMA JobsInvStep == JobsTypeOK /\ JobsInv /\ T!JobsNext => JobsInv'
<1> SUFFICES ASSUME JobsTypeOK, JobsInv, NEW j \in Job,
                    \/ T!StartAssistantJob(j) \/ T!RunEnds(j) \/ T!Wakes(j)
                    \/ T!Answers(j) \/ T!Poll(j) \/ T!Removed(j)
             PROVE  JobsInv'
    BY DEF T!JobsNext
<1> USE DEF JobsTypeOK, JobsInv
<1>1. CASE T!StartAssistantJob(j)
    BY <1>1 DEF T!StartAssistantJob
<1>2. CASE T!RunEnds(j)
    BY <1>2 DEF T!RunEnds
<1>3. CASE T!Wakes(j)
    BY <1>3 DEF T!Wakes
<1>4. CASE T!Answers(j)
    <2>1. status[j] # "none" /\ UNCHANGED <<status, timer, polled>>
        BY <1>4 DEF T!Answers
    <2>2. CASE status[j] = "running"
        BY <1>4, <2>1, <2>2 DEF T!Answers
    <2>3. CASE status[j] # "running"
        <3>1. \E to \in {"200", "503"} : post' = [post EXCEPT ![j] = to]
            BY <1>4, <2>1, <2>3 DEF T!Answers
        <3> QED BY <1>4, <2>1, <2>3, <3>1 DEF T!Answers
    <2> QED BY <2>2, <2>3
<1>5. CASE T!Poll(j)
    BY <1>5 DEF T!Poll
<1>6. CASE T!Removed(j)
    BY <1>6 DEF T!Removed, T!RemovalDue
<1> QED BY <1>1, <1>2, <1>3, <1>4, <1>5, <1>6

\* A job starts only below the limit; any other step leaves as many running, or fewer.
LEMMA RunningInvStep == JobsTypeOK /\ RunningInv /\ T!JobsNext => RunningInv'
<1> SUFFICES ASSUME JobsTypeOK, RunningInv, T!JobsNext PROVE RunningInv'
    OBVIOUS
<1>m. MaxConcurrentJobs \in Nat /\ Cardinality(T!Running) \in Nat
    BY ServicesAssumption, FS_CardinalityType DEF T!JobsAssumption, RunningInv
<1>1. ASSUME T!Running' \subseteq T!Running PROVE RunningInv'
    <2>1. IsFiniteSet(T!Running') /\ Cardinality(T!Running') <= Cardinality(T!Running) /\ Cardinality(T!Running') \in Nat
        <3> HIDE DEF T!Running
        <3> QED BY <1>1, FS_Subset, FS_CardinalityType DEF RunningInv
    <2> QED BY <1>m, <2>1 DEF RunningInv
<1>2. ASSUME NEW j \in Job, T!StartAssistantJob(j) PROVE RunningInv'
    <2>1. T!Running' = T!Running \cup {j} /\ j \notin T!Running
        BY <1>2 DEF T!StartAssistantJob, T!Running, JobsTypeOK
    <2>2. Cardinality(T!Running) < MaxConcurrentJobs
        BY <1>2 DEF T!StartAssistantJob, T!Cardinality, Cardinality
    <2>3. IsFiniteSet(T!Running') /\ Cardinality(T!Running') = Cardinality(T!Running) + 1
        <3> HIDE DEF T!Running
        <3> QED BY <2>1, FS_AddElement DEF RunningInv
    <2> QED BY <1>m, <2>2, <2>3 DEF RunningInv
<1>3. ASSUME NEW j \in Job, T!RunEnds(j) \/ T!Wakes(j) \/ T!Answers(j) \/ T!Poll(j) \/ T!Removed(j)
      PROVE  T!Running' \subseteq T!Running
    BY <1>3 DEF T!RunEnds, T!Wakes, T!Answers, T!Poll, T!Removed, T!Running, JobsTypeOK
<1> QED BY <1>1, <1>2, <1>3 DEF T!JobsNext

LEMMA JobsRunAlone == ServicesSpec => T!JobsInit /\ [][T!JobsNext]_chats
<1>1. ServicesInit => T!JobsInit
    BY DEF ServicesInit
<1>2. [ServicesNext]_everything => [T!JobsNext]_chats
    BY DEF ServicesNext, everything, PricesRun, JobsRun, TurnRun, NodesRun, MetricsRun, ExplorerRun, ProxyRun,
           ListsRun, MonitorRuns, RulesRun, Over, chats
<1> QED BY <1>1, <1>2, PTL DEF ServicesSpec

\* Who was told to poll finds the job, whatever order the end of the run, the end of the
\* wait and the removal come in, and no more jobs run than may (routes/assistant.js:90-95,
\* 228-250).
LEMMA JobsKeepPromises == ServicesSpec => []T!PromisedAnswersWait
<1>1. T!JobsInit => JobsTypeOK /\ JobsInv /\ RunningInv
    <2> SUFFICES ASSUME T!JobsInit PROVE JobsTypeOK /\ JobsInv /\ RunningInv
        OBVIOUS
    <2>1. T!Running = {}
        BY DEF T!JobsInit, T!Running
    <2>2. RunningInv
        BY <2>1, FS_EmptySet, ServicesAssumption DEF RunningInv, T!JobsAssumption
    <2> QED BY <2>2 DEF T!JobsInit, JobsTypeOK, JobsInv
<1>2. (JobsTypeOK /\ JobsInv /\ RunningInv) /\ [T!JobsNext]_chats => (JobsTypeOK /\ JobsInv /\ RunningInv)'
    <2>1. CASE UNCHANGED chats
        BY <2>1 DEF chats, JobsTypeOK, JobsInv, RunningInv, T!Running
    <2> QED BY <2>1, JobsTypeStep, JobsInvStep, RunningInvStep
<1>3. JobsTypeOK /\ JobsInv /\ RunningInv => T!PromisedAnswersWait
    BY DEF JobsTypeOK, JobsInv, RunningInv, T!PromisedAnswersWait, T!Cardinality, Cardinality
<1> QED BY <1>1, <1>2, <1>3, JobsRunAlone, PTL

-----------------------------------------------------------------------------
(* Requests to explorers                                                   *)

Paced(c) == flights[c] # NoEntry /\ flights[c].at = "paced"

PaceTypeOK ==
    /\ hour \in Int /\ lastRequest \in Int
    /\ sent \in Seq(Int)
    /\ \A c \in Explored : Paced(c) => flights[c].turn \in Int

\* The turns that were taken lie apart, those of requests that left and those of flights
\* that wait, and lastRequest is the last of them.
PaceInv ==
    /\ DOMAIN flights = Explored
    /\ \A c \in Explored : Paced(c) => hour <= flights[c].turn /\ flights[c].turn <= lastRequest
    /\ \A c, d \in Explored :
          Paced(c) /\ Paced(d) /\ c # d =>
              \/ flights[c].turn + Interval <= flights[d].turn
              \/ flights[d].turn + Interval <= flights[c].turn
    /\ \A i \in DOMAIN sent : sent[i] <= lastRequest /\ sent[i] <= hour
    /\ \A i \in DOMAIN sent, c \in Explored : Paced(c) => sent[i] + Interval <= flights[c].turn
    /\ B!RequestsArePaced

\* A turn is no earlier than now, and an interval after the one before.
LEMMA TurnIs ==
    ASSUME PaceTypeOK
    PROVE  B!Turn \in Int /\ B!Turn >= hour /\ B!Turn >= lastRequest + Interval
<1>1. Interval \in Nat /\ hour \in Int /\ lastRequest \in Int
    BY ServicesAssumption DEF B!PaceAssumption, PaceTypeOK
<1>2. \E x \in {hour, lastRequest + Interval} : \A y \in {hour, lastRequest + Interval} : x >= y
    BY <1>1
<1> QED BY <1>1, <1>2 DEF B!Turn, B!Max

\* The flight of c lands, or takes a turn.
PaceMoves(c) ==
    /\ UNCHANGED <<hour, sent>>
    /\ \/ flights' = [flights EXCEPT ![c] = NoEntry] /\ UNCHANGED lastRequest
       \/ \E flight :
             /\ flights' = [flights EXCEPT ![c] = flight]
             /\ lastRequest' = B!Turn /\ flight.turn = B!Turn

LEMMA AskingMoves ==
    ASSUME NEW c, NEW hosts, NEW resolves, B!AsksNext(c, hosts, resolves), UNCHANGED hour
    PROVE  PaceMoves(c)
<1>1. CASE B!Unparked(hosts) = {}
    BY <1>1 DEF B!AsksNext, B!Land, PaceMoves
<1>2. CASE B!Unparked(hosts) # {}
    <2> DEFINE flight == flights'[c]
               i == B!Min(B!Unparked(hosts))
               asked == [at |-> "paced", host |-> hosts[i], left |-> B!SubSeq(hosts, i + 1, B!Len(hosts)),
                         turn |-> B!Turn, resolves |-> resolves]
    <2>1. flights' = [flights EXCEPT ![c] = asked] /\ lastRequest' = B!Turn /\ UNCHANGED sent
        BY <1>2 DEF B!AsksNext
    <2>2. asked.turn = B!Turn
        OBVIOUS
    <2> HIDE DEF asked
    <2> QED BY <2>1, <2>2 DEF PaceMoves
<1> QED BY <1>1, <1>2

LEMMA MovesKeepPace == ASSUME PaceTypeOK, PaceInv, NEW c \in Explored, PaceMoves(c) PROVE PaceTypeOK' /\ PaceInv'
<1>a. Interval \in Nat
    BY ServicesAssumption DEF B!PaceAssumption
<1>1. CASE flights' = [flights EXCEPT ![c] = NoEntry] /\ UNCHANGED lastRequest
    BY <1>1 DEF PaceMoves, PaceTypeOK, PaceInv, Paced, B!RequestsArePaced
<1>2. ASSUME NEW flight, flights' = [flights EXCEPT ![c] = flight], lastRequest' = B!Turn, flight.turn = B!Turn
      PROVE  PaceTypeOK' /\ PaceInv'
    <2> DEFINE t == B!Turn
    <2>1. t \in Int /\ t >= hour /\ t >= lastRequest + Interval
        BY TurnIs
    <2> HIDE DEF t
    <2>2. lastRequest' = t /\ flight.turn = t /\ UNCHANGED <<hour, sent>>
        BY <1>2 DEF t, PaceMoves
    <2>3. \A d \in Explored : Paced(d)' => (d # c /\ Paced(d) /\ flights'[d] = flights[d]) \/ (d = c /\ flights'[d].turn = t)
        BY <1>2, <2>2 DEF Paced, PaceInv
    <2>4. DOMAIN flights' = Explored
        BY <1>2 DEF PaceInv
    <2>5. PaceTypeOK'
        BY <2>1, <2>2, <2>3 DEF PaceTypeOK
    <2>6. \A d \in Explored : Paced(d)' => hour' <= flights'[d].turn /\ flights'[d].turn <= lastRequest'
        BY <1>a, <2>1, <2>2, <2>3 DEF PaceTypeOK, PaceInv
    <2>7. \A d, e \in Explored :
              Paced(d)' /\ Paced(e)' /\ d # e =>
                  \/ flights'[d].turn + Interval <= flights'[e].turn
                  \/ flights'[e].turn + Interval <= flights'[d].turn
        BY <1>a, <2>1, <2>2, <2>3 DEF PaceTypeOK, PaceInv
    <2>8. \A i \in DOMAIN sent : sent[i] \in Int
        BY DEF PaceTypeOK
    <2>9. \A i \in DOMAIN sent : sent[i] <= lastRequest' /\ sent[i] <= hour'
        BY <1>a, <2>1, <2>2, <2>8 DEF PaceTypeOK, PaceInv
    <2>10. \A i \in DOMAIN sent, d \in Explored : Paced(d)' => sent[i] + Interval <= flights'[d].turn
        BY <1>a, <2>1, <2>2, <2>3, <2>8 DEF PaceTypeOK, PaceInv
    <2> QED BY <2>2, <2>4, <2>5, <2>6, <2>7, <2>9, <2>10 DEF PaceInv, B!RequestsArePaced
<1> QED BY <1>1, <1>2 DEF PaceMoves

\* A request leaves when its turn has come: every other turn is an interval away.
LEMMA LeavingKeepsPace == ASSUME PaceTypeOK, PaceInv, NEW c \in Explored, B!Leaves(c) PROVE PaceTypeOK' /\ PaceInv'
<1>a. Interval \in Nat
    BY ServicesAssumption DEF B!PaceAssumption
<1>1. /\ Paced(c) /\ hour = flights[c].turn /\ hour <= lastRequest
      /\ UNCHANGED <<hour, lastRequest>> /\ sent' = Append(sent, hour)
    BY DEF B!Leaves, Paced, PaceTypeOK, PaceInv
<1>2. \A d \in Explored : Paced(d)' => d # c /\ Paced(d) /\ flights'[d] = flights[d]
    BY DEF B!Leaves, Paced, PaceInv
<1>3. DOMAIN flights' = Explored
    BY DEF B!Leaves, PaceInv
<1>4. \A i \in DOMAIN sent' :
          \/ i \in DOMAIN sent /\ sent'[i] = sent[i] /\ sent[i] \in Int
          \/ i = Len(sent) + 1 /\ sent'[i] = hour
    BY <1>1 DEF PaceTypeOK
<1>5. PaceTypeOK'
    BY <1>1, <1>2 DEF PaceTypeOK
<1>6. \A d \in Explored : Paced(d)' => hour + Interval <= flights'[d].turn
    BY <1>a, <1>1, <1>2 DEF PaceTypeOK, PaceInv
<1>7. \A i \in DOMAIN sent : sent[i] + Interval <= hour
    BY <1>1 DEF PaceInv
<1>8. B!RequestsArePaced'
    <2> SUFFICES ASSUME NEW i \in DOMAIN sent', NEW j \in DOMAIN sent', i < j PROVE sent'[j] - sent'[i] >= Interval
        BY DEF B!RequestsArePaced
    <2>1. DOMAIN sent = 1 .. Len(sent) /\ Len(sent) \in Nat
        BY DEF PaceTypeOK
    <2>2. i \in DOMAIN sent /\ sent'[i] = sent[i] /\ sent[i] \in Int
        BY <1>1, <1>4, <2>1 DEF PaceTypeOK
    <2>3. CASE j \in DOMAIN sent /\ sent'[j] = sent[j]
        BY <2>2, <2>3 DEF PaceInv, B!RequestsArePaced
    <2>4. CASE sent'[j] = hour
        BY <1>a, <1>7, <2>2, <2>4 DEF PaceTypeOK
    <2> QED BY <1>4, <2>3, <2>4
<1>9. \A i \in DOMAIN sent' : sent'[i] <= lastRequest' /\ sent'[i] <= hour'
    BY <1>1, <1>4 DEF PaceInv, PaceTypeOK
<1>10. \A i \in DOMAIN sent', d \in Explored : Paced(d)' => sent'[i] + Interval <= flights'[d].turn
    BY <1>2, <1>4, <1>6 DEF PaceInv
<1>11. \A d \in Explored : Paced(d)' => hour' <= flights'[d].turn /\ flights'[d].turn <= lastRequest'
    BY <1>1, <1>2 DEF PaceInv
<1>12. \A d, e \in Explored :
          Paced(d)' /\ Paced(e)' /\ d # e =>
              \/ flights'[d].turn + Interval <= flights'[e].turn
              \/ flights'[e].turn + Interval <= flights'[d].turn
    BY <1>2 DEF PaceInv
<1> QED BY <1>3, <1>5, <1>8, <1>9, <1>10, <1>11, <1>12 DEF PaceInv

LEMMA PaceInvStep == PaceTypeOK /\ PaceInv /\ [B!Next]_explorer => (PaceTypeOK /\ PaceInv)'
<1> SUFFICES ASSUME PaceTypeOK, PaceInv, [B!Next]_explorer PROVE (PaceTypeOK /\ PaceInv)'
    OBVIOUS
<1>1. CASE B!Tick
    BY <1>1 DEF B!Tick, PaceTypeOK, PaceInv, Paced, B!RequestsArePaced
<1>2. ASSUME NEW c \in Explored, B!GetExplorerTip(c) \/ B!Fails(c) \/ B!IsParked(c) \/ B!Answers(c, hour)
      PROVE  PaceMoves(c)
    <2>1. CASE B!GetExplorerTip(c)
        <3>1. UNCHANGED hour /\ (B!Land(c, NoEntry) \/ \E hosts, resolves : B!AsksNext(c, hosts, resolves))
            BY <2>1 DEF B!GetExplorerTip
        <3> QED BY <3>1, AskingMoves DEF B!Land, PaceMoves
    <2>2. CASE B!Fails(c)
        BY <2>2, AskingMoves DEF B!Fails
    <2>3. CASE B!IsParked(c)
        BY <2>3, AskingMoves DEF B!IsParked
    <2>4. CASE B!Answers(c, hour)
        BY <2>4 DEF B!Answers, B!Land, PaceMoves
    <2> QED BY <1>2, <2>1, <2>2, <2>3, <2>4
<1>3. CASE UNCHANGED explorer
    BY <1>3 DEF explorer, PaceTypeOK, PaceInv, Paced, B!RequestsArePaced
<1> QED BY <1>1, <1>2, <1>3, MovesKeepPace, LeavingKeepsPace DEF B!Next

LEMMA ExplorersRunAlone == ServicesSpec => B!Init /\ [][B!Next]_explorer
<1>1. ServicesInit => B!Init
    BY DEF ServicesInit
<1>2. [ServicesNext]_everything => [B!Next]_explorer
    BY DEF ServicesNext, everything, PricesRun, JobsRun, TurnRun, NodesRun, MetricsRun, ExplorerRun, ProxyRun,
           ListsRun, MonitorRuns, RulesRun, Over, explorer
<1> QED BY <1>1, <1>2, PTL DEF ServicesSpec

\* Whatever chains are asked about at once and whichever hosts fail or are parked, no two
\* requests leave within an interval (blockscout.js:25-27, 82-87).
THEOREM ExplorersAreSpared == ServicesSpec => []PaceHolds
<1>1. B!Init => PaceTypeOK /\ PaceInv
    <2> SUFFICES ASSUME B!Init PROVE PaceTypeOK /\ PaceInv
        OBVIOUS
    <2>1. \A c \in Explored : ~Paced(c)
        BY DEF B!Init, Paced
    <2>2. sent = <<>> /\ hour = 0 /\ lastRequest = -Interval /\ DOMAIN flights = Explored /\ Interval \in Nat
        BY ServicesAssumption DEF B!Init, B!PaceAssumption
    <2> QED BY <2>1, <2>2 DEF PaceTypeOK, PaceInv, B!RequestsArePaced
<1>2. PaceInv => PaceHolds
    BY DEF PaceInv, PaceHolds
<1> QED BY <1>1, <1>2, PaceInvStep, ExplorersRunAlone, PTL

-----------------------------------------------------------------------------
(* One turn of the assistant                                               *)

TurnTypeOK ==
    /\ well \in SUBSET T!Provider /\ index \in T!Provider
    /\ left \in Int /\ iteration \in Nat
    /\ step \in {"guard", "loop", "call", "message", "done"}
    /\ retried \in T!Provider \cup {NoEntry}

\* What the steps before the fallback's first try leave of the budget: of more than 6250
\* milliseconds more than 2500 after the guard, 1000 after one attempt, none after two.
TurnInv ==
    /\ left >= -1000 - ToolTime
    /\ step = "guard" => left = Budget /\ iteration = 0
    /\ step \in {"call", "message"} => left > -1000 /\ iteration >= 1
    /\ step = "loop" /\ iteration = 0 => left > 2500
    /\ step = "call" /\ iteration = 1 /\ index \in well => left >= 1
    /\ step = "call" /\ iteration = 1 /\ index < Providers => left > IF retried = index THEN 1000 ELSE 2500
    /\ step = "call" /\ iteration = 1 /\ index = Providers /\ Providers \in well => left >= 1
    /\ outcome = "unavailable" => Providers \notin well

LEMMA TimeoutIs ==
    ASSUME NEW cap \in Nat \cup {NoEntry}, left \in Int, left >= 1
    PROVE  /\ T!TimeoutOf(cap) \in Nat /\ (T!TimeoutOf(cap) <= left \/ T!TimeoutOf(cap) = 1000)
           /\ cap # NoEntry => T!TimeoutOf(cap) = 1000 \/ T!TimeoutOf(cap) <= (left * 6) \div 10
<1>1. \A a, b \in Int : /\ T!Max({a, b}) \in {a, b} /\ T!Max({a, b}) >= a /\ T!Max({a, b}) >= b
                        /\ T!Min({a, b}) \in {a, b} /\ T!Min({a, b}) <= a /\ T!Min({a, b}) <= b
    <2> SUFFICES ASSUME NEW a \in Int, NEW b \in Int
                 PROVE  /\ T!Max({a, b}) \in {a, b} /\ T!Max({a, b}) >= a /\ T!Max({a, b}) >= b
                        /\ T!Min({a, b}) \in {a, b} /\ T!Min({a, b}) <= a /\ T!Min({a, b}) <= b
        OBVIOUS
    <2>1. \E x \in {a, b} : \A y \in {a, b} : x >= y
        OBVIOUS
    <2>2. \E x \in {a, b} : \A y \in {a, b} : x <= y
        OBVIOUS
    <2>3. T!Max({a, b}) \in {a, b} /\ T!Max({a, b}) >= a /\ T!Max({a, b}) >= b
        BY <2>1 DEF T!Max
    <2>4. T!Min({a, b}) \in {a, b} /\ T!Min({a, b}) <= a /\ T!Min({a, b}) <= b
        BY <2>2 DEF T!Min
    <2> QED BY <2>3, <2>4
<1>2. CASE cap = NoEntry
    <2>1. T!TimeoutOf(cap) = T!Max({1000, left})
        BY <1>2 DEF T!TimeoutOf, T!Second
    <2>2. T!Max({1000, left}) \in {1000, left}
        BY <1>1
    <2> QED BY <1>2, <2>1, <2>2
<1>3. CASE cap # NoEntry
    <2> DEFINE share == (left * 6) \div 10
               least == T!Min({share, cap})
    <2>1. share \in Nat /\ share <= left /\ cap \in Nat
        BY <1>3
    <2>2. T!TimeoutOf(cap) = T!Max({1000, least})
        BY <1>3 DEF T!TimeoutOf, T!Second
    <2> HIDE DEF share
    <2>3. least \in Nat /\ least <= share
        BY <1>1, <2>1
    <2>4. T!Max({1000, least}) \in {1000, least}
        BY <1>1, <2>3
    <2> HIDE DEF least
    <2> QED BY <1>3, <2>1, <2>2, <2>3, <2>4 DEF share
<1> QED BY <1>2, <1>3

\* What an attempt takes, and what it leaves.
LEMMA AttemptLeaves ==
    ASSUME TurnTypeOK, NEW cap \in Nat \cup {NoEntry}, NEW o \in T!Outcomes(cap), NEW rest, rest = left - o[2]
    PROVE  /\ rest \in Int /\ rest <= left
           /\ left <= 0 => rest = left /\ o[1] = "network"
           /\ left > 0 => rest > -1000
           /\ left > 0 /\ index \in well => rest = left /\ o[1] = "ok"
           /\ cap # NoEntry => /\ left > 1000 => rest > 0
                               /\ left > 2500 => rest > 1000
                               /\ left > 6250 => rest > 2500
<1>1. CASE left <= 0
    BY <1>1 DEF T!Outcomes, TurnTypeOK
<1>2. CASE left > 0 /\ index \in well
    BY <1>2 DEF T!Outcomes, TurnTypeOK
<1>3. CASE left > 0 /\ index \notin well
    <2>1. left \in Int /\ left >= 1
        BY <1>3 DEF TurnTypeOK
    <2> DEFINE t == T!TimeoutOf(cap)
    <2>2. /\ t \in Nat /\ (t <= left \/ t = 1000)
          /\ cap # NoEntry => t = 1000 \/ t <= (left * 6) \div 10
        BY <2>1, TimeoutIs
    <2>3. o[2] = 0 \/ o[2] = t
        BY <1>3 DEF T!Outcomes
    <2> HIDE DEF t
    <2>4. o[2] \in Nat /\ rest \in Int /\ rest <= left /\ rest > -1000
        BY <2>1, <2>2, <2>3
    <2>5. ASSUME cap # NoEntry PROVE o[2] <= 1000 \/ o[2] <= (left * 6) \div 10
        BY <2>1, <2>2, <2>3, <2>5
    <2>6. ASSUME cap # NoEntry, left > 1000 PROVE rest > 0
        BY <2>1, <2>4, <2>5, <2>6
    <2>7. ASSUME cap # NoEntry, left > 2500 PROVE rest > 1000
        BY <2>1, <2>4, <2>5, <2>7
    <2>8. ASSUME cap # NoEntry, left > 6250 PROVE rest > 2500
        BY <2>1, <2>4, <2>5, <2>8
    <2> QED BY <1>3, <2>1, <2>4, <2>6, <2>7, <2>8
<1> QED BY <1>1, <1>2, <1>3 DEF TurnTypeOK

\* The caps of the two kinds of call.
LEMMA CapsAre ==
    /\ GuardCap \in Nat /\ AttemptCap \in Nat /\ GuardCap # NoEntry /\ AttemptCap # NoEntry
    /\ Providers \in {1, 2} /\ Budget \in Nat /\ Budget > 6250 /\ ToolTime \in Nat
    /\ T!Provider = 1 .. Providers /\ NoEntry \notin T!Provider
BY ServicesAssumption DEF T!RunAssumption, T!Provider

LEMMA TurnTypeStep == TurnTypeOK /\ T!RunNext => TurnTypeOK'
<1> SUFFICES ASSUME TurnTypeOK, T!RunNext PROVE TurnTypeOK'
    OBVIOUS
<1>a. \A cap \in Nat \cup {NoEntry} : \A o \in T!Outcomes(cap) : left - o[2] \in Int
    BY AttemptLeaves
<1>b. T!HasNext => index + 1 \in T!Provider
    BY CapsAre DEF T!HasNext, TurnTypeOK
<1>1. CASE T!Guard
    BY <1>1, <1>a, <1>b, CapsAre DEF T!Guard, TurnTypeOK
<1>2. CASE T!StartCall
    BY <1>2 DEF T!StartCall, T!End, TurnTypeOK
<1>3. CASE T!CallLlm
    <2>1. PICK o \in T!Outcomes(IF T!HasNext THEN AttemptCap ELSE NoEntry) :
              /\ left' = left - o[2]
              /\ \/ step' = "message" /\ UNCHANGED <<index, retried>>
                 \/ retried' = index /\ UNCHANGED <<step, index>>
                 \/ T!HasNext /\ index' = index + 1 /\ UNCHANGED <<step, retried>>
                 \/ step' = "done" /\ UNCHANGED <<index, retried>>
        BY <1>3 DEF T!CallLlm, T!CallFails, T!End
    <2>2. left' \in Int
        BY <1>a, <2>1, CapsAre
    <2>3. UNCHANGED <<well, iteration>>
        BY <1>3 DEF T!CallLlm
    <2> QED BY <1>b, <2>1, <2>2, <2>3 DEF TurnTypeOK
<1>4. CASE T!Message
    BY <1>4, <1>b, CapsAre DEF T!Message, T!End, T!Strike, TurnTypeOK
<1> QED BY <1>1, <1>2, <1>3, <1>4 DEF T!RunNext

LEMMA TurnInvStep == TurnTypeOK /\ TurnInv /\ T!RunNext => TurnInv'
<1> SUFFICES ASSUME TurnTypeOK, TurnInv, T!RunNext PROVE TurnInv'
    OBVIOUS
<1>1. CASE T!Guard
    <2>1. PICK o \in T!Outcomes(GuardCap) :
              /\ left' = left - o[2]
              /\ \/ step' = "loop" /\ UNCHANGED outcome
                 \/ step' = "done" /\ outcome' = "off_topic"
        BY <1>1 DEF T!Guard
    <2>2. left = Budget /\ iteration = 0 /\ UNCHANGED <<well, iteration>>
        BY <1>1 DEF T!Guard, TurnInv
    <2>3. left' \in Int /\ left' > 2500
        BY <2>1, <2>2, AttemptLeaves, CapsAre
    <2>4. left' >= -1000 - ToolTime
        BY <2>3, CapsAre
    <2>5. outcome' = "unavailable" => outcome = "unavailable"
        BY <2>1
    <2>6. step' \in {"loop", "done"}
        BY <2>1
    <2> QED BY <2>2, <2>3, <2>4, <2>5, <2>6 DEF TurnInv
<1>2. CASE T!StartCall
    BY <1>2, CapsAre DEF T!StartCall, T!End, TurnTypeOK, TurnInv
<1>3. CASE T!CallLlm
    <2> DEFINE cap == IF T!HasNext THEN AttemptCap ELSE NoEntry
    <2>1. PICK o \in T!Outcomes(cap) :
              /\ left' = left - o[2]
              /\ IF o[1] = "ok" THEN step' = "message" /\ UNCHANGED <<index, retried, outcome>>
                 ELSE IF retried # index THEN retried' = index /\ UNCHANGED <<step, index, outcome>>
                 ELSE IF T!HasNext THEN index' = index + 1 /\ UNCHANGED <<step, retried, outcome>>
                 ELSE T!CallFails /\ UNCHANGED <<index, retried>>
        BY <1>3 DEF T!CallLlm
    <2>2. step = "call" /\ UNCHANGED <<well, iteration>>
        BY <1>3 DEF T!CallLlm
    <2>3. cap \in Nat \cup {NoEntry} /\ (index < Providers => cap # NoEntry)
        BY CapsAre DEF T!HasNext
    <2> HIDE DEF cap
    <2>4. /\ left' \in Int /\ left' <= left /\ left > -1000 /\ left' > -1000
          /\ left > 0 /\ index \in well => left' = left /\ o[1] = "ok"
          /\ index < Providers /\ left > 1000 => left' > 0
          /\ index < Providers /\ left > 2500 => left' > 1000
        BY <2>1, <2>2, <2>3, AttemptLeaves DEF TurnInv, TurnTypeOK
    <2>5. CASE o[1] = "ok"
        BY <2>1, <2>2, <2>4, <2>5, CapsAre DEF TurnInv, TurnTypeOK
    <2>6. CASE o[1] # "ok" /\ retried # index
        BY <2>1, <2>2, <2>4, <2>6, CapsAre DEF TurnInv, TurnTypeOK
    <2>7. CASE o[1] # "ok" /\ retried = index /\ T!HasNext
        BY <2>1, <2>2, <2>4, <2>7, CapsAre DEF TurnInv, TurnTypeOK, T!HasNext
    <2>8. CASE o[1] # "ok" /\ retried = index /\ ~T!HasNext
        <3>1. index = Providers
            BY <2>8, CapsAre DEF T!HasNext, TurnTypeOK
        <3>2. step' = "done" /\ (outcome' = "unavailable" => iteration = 1)
            BY <2>1, <2>8 DEF T!CallFails, T!End
        <3> QED BY <2>1, <2>2, <2>4, <2>8, <3>1, <3>2, CapsAre DEF TurnInv, TurnTypeOK
    <2> QED BY <2>5, <2>6, <2>7, <2>8
<1>4. CASE T!Message
    <2>1. left > -1000 /\ iteration >= 1 /\ UNCHANGED <<well, iteration>>
        BY <1>4 DEF T!Message, TurnInv
    <2>2. step' \in {"loop", "done"} /\ left' \in {left, left - ToolTime}
        BY <1>4 DEF T!Message, T!End, T!Strike
    <2>3. outcome' = outcome \/ outcome' \in {"answer", "degraded"}
        BY <1>4 DEF T!Message, T!End, T!Strike
    <2> QED BY <2>1, <2>2, <2>3, CapsAre DEF TurnInv, TurnTypeOK
<1> QED BY <1>1, <1>2, <1>3, <1>4 DEF T!RunNext

LEMMA TurnRunsAlone == ServicesSpec => T!RunInit /\ [][T!RunNext]_turn
<1>1. ServicesInit => T!RunInit
    BY DEF ServicesInit
<1>2. [ServicesNext]_everything => [T!RunNext]_turn
    BY DEF ServicesNext, everything, PricesRun, JobsRun, TurnRun, NodesRun, MetricsRun, ExplorerRun, ProxyRun,
           ListsRun, MonitorRuns, RulesRun, Over, turn
<1> QED BY <1>1, <1>2, PTL DEF ServicesSpec

\* However long the guard and the primary model take, a fallback that is well is tried, and
\* the deadline is overdrawn by a second and the tools at most (assistant.js:209-212).
LEMMA FallbackIsTried == ServicesSpec => []T!FallbackGetsItsTry
<1>1. T!RunInit => TurnTypeOK /\ TurnInv
    <2> SUFFICES ASSUME T!RunInit PROVE TurnTypeOK /\ TurnInv
        OBVIOUS
    <2>1. left = Budget /\ left >= -1000 - ToolTime /\ step = "guard" /\ iteration = 0 /\ outcome = NoEntry
        BY CapsAre DEF T!RunInit
    <2>2. NoEntry # "unavailable"
        BY ServicesAssumption DEF T!RunAssumption
    <2> QED BY <2>1, <2>2, CapsAre DEF T!RunInit, TurnTypeOK, TurnInv
<1>2. (TurnTypeOK /\ TurnInv) /\ [T!RunNext]_turn => (TurnTypeOK /\ TurnInv)'
    <2>1. CASE UNCHANGED turn
        BY <2>1 DEF turn, TurnTypeOK, TurnInv
    <2> QED BY <2>1, TurnTypeStep, TurnInvStep
<1>3. TurnInv => T!FallbackGetsItsTry
    BY DEF TurnInv, T!FallbackGetsItsTry, T!Second
<1> QED BY <1>1, <1>2, <1>3, TurnRunsAlone, PTL

\* Who was told to poll a chat job finds it, and no question is refused while the last
\* provider is well and untried (routes/assistant.js:90, assistant.js:209).
THEOREM AnswersAreAlwaysGiven == ServicesSpec => []AnswersAreGiven
<1>1. T!PromisedAnswersWait /\ T!FallbackGetsItsTry => AnswersAreGiven
    BY DEF AnswersAreGiven
<1> QED BY <1>1, JobsKeepPromises, FallbackIsTried, PTL

-----------------------------------------------------------------------------
(* What the validation rules find                                          *)

Kinds == {"ok", "wrong", "refused", "private", "silent"}

RulesTypeOK ==
    /\ today \in Nat /\ record \in Record
    /\ heard \in [Url -> Nat \cup {NoEntry}]
    /\ \A u \in DOMAIN results : results[u] \in [is : Kinds, height : Height \cup {NoEntry}, since : Nat \cup {NoEntry}]

\* Only the silent have a time since when, which no answer has come after; what was found
\* to serve something has answered, and is not private.
RulesInv ==
    /\ DOMAIN results \subseteq Url \ private
    /\ \A u \in Url : heard[u] # NoEntry => heard[u] <= today
    /\ \A u \in DOMAIN results :
          /\ results[u].is = "silent" =>
                /\ results[u].since \in Nat /\ results[u].since <= today
                /\ heard[u] # NoEntry => heard[u] <= results[u].since
          /\ results[u].is # "silent" => results[u].since = NoEntry
          /\ results[u].is \in {"ok", "wrong"} => heard[u] # NoEntry

LEMMA RulesInvStep == RulesTypeOK /\ RulesInv /\ [H!Next]_rules => (RulesTypeOK /\ RulesInv)'
<1> SUFFICES ASSUME RulesTypeOK, RulesInv, [H!Next]_rules PROVE (RulesTypeOK /\ RulesInv)'
    OBVIOUS
<1>a. NoEntry \notin Nat
    BY ServicesAssumption DEF H!RulesAssumption
<1>1. CASE H!ProcessChainRpc
    <2> DEFINE From(deferred, said) ==
                   LET result(u) == IF u \in deferred THEN H!Before(u) ELSE said[u]
                       closed == {u \in H!Probed \ deferred : said[u].is = "private"}
                   IN /\ private' = private \cup closed
                      /\ results' = [u \in H!Probed \ closed |-> [result(u) EXCEPT !.since = H!UnansweredSince(u, result(u))]]
                      /\ heard' = [u \in Url |-> IF u \in H!Probed \ deferred /\ said[u] \in H!Answers THEN today ELSE heard[u]]
    <2>0. PICK deferred \in SUBSET H!Probed :
              \E said \in [H!Probed \ deferred -> H!Answers \cup {H!Silent}] : From(deferred, said)
        BY <1>1 DEF H!ProcessChainRpc
    <2>1. PICK said \in [H!Probed \ deferred -> H!Answers \cup {H!Silent}] : From(deferred, said)
        BY <2>0
    <2> DEFINE result(u) == IF u \in deferred THEN H!Before(u) ELSE said[u]
               closed == {u \in H!Probed \ deferred : said[u].is = "private"}
    <2>2. /\ private' = private \cup closed
          /\ results' = [u \in H!Probed \ closed |-> [result(u) EXCEPT !.since = H!UnansweredSince(u, result(u))]]
          /\ heard' = [u \in Url |-> IF u \in H!Probed \ deferred /\ said[u] \in H!Answers THEN today ELSE heard[u]]
          /\ UNCHANGED today
        BY <1>1, <2>1 DEF H!ProcessChainRpc
    <2> HIDE DEF result
    <2>3. H!Probed \subseteq Url \ private
        BY ServicesAssumption DEF H!Probed, H!Listed, H!RulesAssumption, RulesTypeOK
    <2>4. ASSUME NEW u \in H!Probed
          PROVE  /\ result(u) \in [is : Kinds, height : Height \cup {NoEntry}, since : Nat \cup {NoEntry}]
                 /\ u \in deferred /\ u \in DOMAIN results => result(u) = results[u]
                 /\ u \in deferred /\ u \notin DOMAIN results => result(u).is = "refused"
                 /\ u \notin deferred => result(u) = said[u] /\ (result(u) \in H!Answers <=> result(u).is # "silent")
        BY <2>4 DEF result, H!Before, H!NotChecked, H!Answers, H!Served, H!Silent, RulesTypeOK, Kinds
    <2>5. ASSUME NEW u \in H!Probed PROVE H!SinceOf(u) \in Nat \cup {NoEntry}
        BY DEF H!SinceOf, RulesTypeOK
    <2>6. ASSUME NEW u \in DOMAIN results'
          PROVE  /\ u \in Url \ private' /\ u \in H!Probed
                 /\ results'[u] \in [is : Kinds, height : Height \cup {NoEntry}, since : Nat \cup {NoEntry}]
                 /\ results'[u].is = result(u).is
                 /\ results'[u].since = H!UnansweredSince(u, result(u))
        <3>1. u \in H!Probed \ closed /\ results'[u] = [result(u) EXCEPT !.since = H!UnansweredSince(u, result(u))]
            BY <2>2
        <3>2. H!UnansweredSince(u, result(u)) \in Nat \cup {NoEntry}
            BY <2>5, <3>1 DEF H!UnansweredSince, RulesTypeOK
        <3> HIDE DEF closed, H!UnansweredSince
        <3>3. u \in Url \ private'
            BY <2>2, <2>3, <3>1
        <3> QED BY <2>4, <3>1, <3>2, <3>3
    <2> HIDE DEF closed
    <2>7. RulesTypeOK'
        BY <1>1, <2>2, <2>6 DEF RulesTypeOK, H!ProcessChainRpc
    <2>8. ASSUME NEW u \in DOMAIN results'
          PROVE  /\ results'[u].is = "silent" =>
                       /\ results'[u].since \in Nat /\ results'[u].since <= today
                       /\ heard'[u] # NoEntry => heard'[u] <= results'[u].since
                 /\ results'[u].is # "silent" => results'[u].since = NoEntry
                 /\ results'[u].is \in {"ok", "wrong"} => heard'[u] # NoEntry
        <3>1. CASE u \in deferred
            <4>1. heard'[u] = heard[u]
                BY <2>2, <2>6, <3>1
            <4>2. CASE u \in DOMAIN results
                BY <1>a, <2>4, <2>6, <3>1, <4>1, <4>2 DEF RulesInv, RulesTypeOK, H!UnansweredSince, H!SinceOf
            <4>3. CASE u \notin DOMAIN results
                BY <2>4, <2>6, <3>1, <4>1, <4>3 DEF H!UnansweredSince
            <4> QED BY <4>2, <4>3
        <3>2. CASE u \notin deferred /\ result(u).is = "silent"
            <4>1. heard'[u] = heard[u] /\ heard[u] \in Nat \cup {NoEntry}
                BY <2>2, <2>4, <2>6, <3>2 DEF RulesTypeOK
            <4>2. CASE H!SinceOf(u) = NoEntry
                BY <1>a, <2>6, <3>2, <4>1, <4>2 DEF RulesInv, RulesTypeOK, H!UnansweredSince
            <4>3. CASE H!SinceOf(u) # NoEntry
                <5>1. u \in DOMAIN results /\ results[u].is = "silent" /\ H!SinceOf(u) = results[u].since
                    BY <4>3 DEF RulesInv, H!SinceOf
                <5> QED BY <1>a, <2>6, <3>2, <4>1, <4>3, <5>1 DEF RulesInv, H!UnansweredSince
            <4> QED BY <4>2, <4>3
        <3>3. CASE u \notin deferred /\ result(u).is # "silent"
            <4>1. heard'[u] = today
                BY <2>2, <2>4, <2>6, <3>3
            <4> QED BY <1>a, <2>6, <3>3, <4>1 DEF RulesTypeOK, H!UnansweredSince
        <3> QED BY <3>1, <3>2, <3>3
    <2>9. \A u \in Url : heard'[u] # NoEntry => heard'[u] <= today
        BY <2>2 DEF RulesInv, RulesTypeOK
    <2> QED BY <2>2, <2>6, <2>7, <2>8, <2>9 DEF RulesInv
<1>2. CASE H!Reload
    BY <1>2 DEF H!Reload, RulesTypeOK, RulesInv
<1>3. CASE H!Tick
    BY <1>3, <1>a DEF H!Tick, RulesTypeOK, RulesInv
<1>4. CASE UNCHANGED rules
    BY <1>4 DEF rules, RulesTypeOK, RulesInv
<1> QED BY <1>1, <1>2, <1>3, <1>4 DEF H!Next

\* A set of numbers up to a bound, if not empty, has a greatest.
LEMMA GreatestIs ==
    ASSUME NEW n \in Nat, NEW S \in SUBSET (0 .. n), S # {}
    PROVE  H!Max(S) \in S /\ \A x \in S : x <= H!Max(S)
<1> DEFINE R == OpToRel(<, Nat)
           D == {n - x : x \in S}
<1>1. IsWellFoundedOn(R, Nat)
    BY NatLessThanWellFounded
<1>2. D \subseteq Nat /\ D # {}
    <2>1. \A x \in S : x \in Int /\ 0 <= x /\ x <= n
        OBVIOUS
    <2>2. \A x \in S : n - x \in Nat
        BY <2>1
    <2>3. D # {}
        OBVIOUS
    <2> QED BY <2>2, <2>3
<1>3. PICK d \in D : \A e \in D : ~(<<e, d>> \in R)
    <2> HIDE DEF R, D
    <2> QED BY <1>1, <1>2, WFMin
<1>4. \A e \in D : d <= e
    <2> SUFFICES ASSUME NEW e \in D, ~(d <= e) PROVE FALSE
        OBVIOUS
    <2>1. d \in Nat /\ e \in Nat
        BY <1>2
    <2>2. e < d
        BY <2>1
    <2>3. <<e, d>> \in R
        BY <2>1, <2>2 DEF OpToRel
    <2> QED BY <1>3, <2>3
<1>5. PICK x \in S : d = n - x
    OBVIOUS
<1>6. \A y \in S : x >= y
    BY <1>4, <1>5
<1>7. \E z \in S : \A y \in S : z >= y
    BY <1>6
<1>8. H!Max(S) \in S /\ \A y \in S : H!Max(S) >= y
    BY <1>7 DEF H!Max
<1> QED BY <1>8

LEMMA DeadIsSilent == RulesTypeOK /\ RulesInv => H!DeadMeansSilent
<1> SUFFICES ASSUME RulesTypeOK, RulesInv, H!Rule18NoReachableRpc # {} PROVE
        /\ today - H!UnansweredSinceAll >= DeadAfter
        /\ \A u \in H!Rule18NoReachableRpc : heard[u] # NoEntry => heard[u] <= H!UnansweredSinceAll
        /\ H!Rule12RpcBlockHeightDrift \cup H!Rule16RpcUrlInOneSourceOnly
               \cup H!Rule19DeprecatedRpcAnswers \cup H!Rule21RpcServesAnotherChain = {}
    BY DEF H!DeadMeansSilent
<1>1. ~record.deprecated /\ DOMAIN results # {} /\ H!Rule18NoReachableRpc = DOMAIN results
    BY DEF H!Rule18NoReachableRpc
<1>2. \A u \in DOMAIN results : results[u].is = "silent" /\ today - results[u].since >= DeadAfter
    BY DEF H!Rule18NoReachableRpc, H!Gone
<1> DEFINE S == {results[u].since : u \in DOMAIN results}
<1>3. S \in SUBSET (0 .. today) /\ S # {} /\ today \in Nat
    BY <1>1, <1>2 DEF RulesInv, RulesTypeOK
<1>4. H!Max(S) \in S /\ \A x \in S : x <= H!Max(S)
    <2> HIDE DEF S
    <2> QED BY <1>3, GreatestIs
<1>5. H!UnansweredSinceAll = H!Max(S)
    BY DEF H!UnansweredSinceAll
<1>6. today - H!UnansweredSinceAll >= DeadAfter
    BY <1>2, <1>4, <1>5
<1>7. ASSUME NEW u \in DOMAIN results, heard[u] # NoEntry PROVE heard[u] <= H!UnansweredSinceAll
    <2>1. results[u].since \in S /\ results[u].since <= H!Max(S) /\ H!Max(S) \in Nat /\ results[u].since \in Nat
        BY <1>3, <1>4
    <2>2. heard[u] <= results[u].since /\ heard[u] \in Nat
        BY <1>2, <1>7 DEF RulesInv, RulesTypeOK
    <2> HIDE DEF S
    <2> QED BY <1>5, <2>1, <2>2
<1>8. \A u \in DOMAIN results : ~H!Works(u) /\ results[u].is # "wrong"
    BY <1>2 DEF H!Works
<1>9. H!Rule12RpcBlockHeightDrift = {}
    BY <1>8 DEF H!Rule12RpcBlockHeightDrift, H!Heights, H!At
<1>10. H!Rule16RpcUrlInOneSourceOnly = {} /\ H!Rule19DeprecatedRpcAnswers = {} /\ H!Rule21RpcServesAnotherChain = {}
    BY <1>8 DEF H!Rule16RpcUrlInOneSourceOnly, H!Rule19DeprecatedRpcAnswers, H!Rule21RpcServesAnotherChain,
                H!WrongOnes, H!Works
<1> QED BY <1>1, <1>6, <1>7, <1>9, <1>10

LEMMA FindingsAreListed == RulesTypeOK /\ RulesInv => H!FindingsAreOfTheRegistry
BY DEF RulesInv, H!FindingsAreOfTheRegistry, H!Rule16RpcUrlInOneSourceOnly, H!Rule21RpcServesAnotherChain,
       H!WrongOnes, H!Works, H!Listed

LEMMA RulesRunAlone == ServicesSpec => H!Init /\ [][H!Next]_rules
<1>1. ServicesInit => H!Init
    BY DEF ServicesInit
<1>2. [ServicesNext]_everything => [H!Next]_rules
    BY DEF ServicesNext, everything, PricesRun, JobsRun, TurnRun, NodesRun, MetricsRun, ExplorerRun, ProxyRun,
           ListsRun, MonitorRuns, RulesRun, Over, rules
<1> QED BY <1>1, <1>2, PTL DEF ServicesSpec

\* A network that is called dead was silent since the day it says, whatever was put off,
\* listed or found private meanwhile, and what the registries are asked to mend they list
\* (validation.js:538-570, 471-508, 594).
THEOREM VerdictsAreAlwaysOfNow == ServicesSpec => []VerdictsAreOfNow
<1>1. H!Init => RulesTypeOK /\ RulesInv
    BY ServicesAssumption DEF H!Init, RulesTypeOK, RulesInv, H!RulesAssumption
<1>2. RulesTypeOK /\ RulesInv => VerdictsAreOfNow
    BY DeadIsSilent, FindingsAreListed DEF VerdictsAreOfNow
<1> QED BY <1>1, <1>2, RulesInvStep, RulesRunAlone, PTL

-----------------------------------------------------------------------------
(* The list of all chains                                                  *)

\* A mark tells L2BEAT's answer: the snapshot's and the missing one are always the same, and
\* a live one's is among the past marks once another is there, unless the other has it too.
Tells(mark, told) ==
    \/ mark = 0 /\ told = 0
    \/ mark = NoEntry /\ told = NoEntry
    \/ mark \in Nat /\ mark > 0 /\ told \in Nat /\ told > 0

\* A list kept of this load has the answer its mark tells, and that of a live one is the
\* one there is or is past.
KeptOfThisLoad ==
    /\ Q!Indexed
    /\ allChains.value = [load |-> data.load, l2beat |-> allChains.value.l2beat]
    /\ Tells(allChains.key.fetchedAt, allChains.value.l2beat)
    /\ allChains.value.l2beat \in Nat \ {0} =>
          allChains.key.fetchedAt \in past \/ allChains.value.l2beat = data.l2beat

ListsInv ==
    /\ millisecond \in Nat /\ millisecond > 0
    /\ data.load \in Nat /\ data.batch \in Nat
    /\ data = [load |-> data.load, batch |-> data.batch, l2beat |-> data.l2beat,
               lastUpdated |-> data.lastUpdated, fetchedAt |-> data.fetchedAt]
    /\ Tells(data.fetchedAt, data.l2beat)
    /\ allChains # NoEntry =>
          /\ allChains.key.indexed \in Nat /\ allChains.key.indexed <= data.load
          /\ allChains.key.indexed = data.load => KeptOfThisLoad
          /\ allChains.key.indexed = data.load /\ allChains.value.l2beat \in Nat \ {0}
                /\ allChains.key.fetchedAt \notin past => allChains.key.fetchedAt = data.fetchedAt

\* A live answer is a number above 0, and nothing at all is none.
LEMMA NoEntryIsNoNumber == NoEntry \notin Nat
BY ServicesAssumption DEF Q!SearchAssumption

\* What fetchL2Beat answers has a mark that tells it.
LEMMA AnswersTell ==
    ASSUME data.load \in Nat, data.batch \in Nat, NEW t \in Nat, t > 0, NEW a \in Q!Answers(t)
    PROVE  Tells(a.fetchedAt, a.l2beat)
BY DEF Q!Answers, Tells

\* A batch makes the live answer before it a past one.
LEMMA BatchKeepsLists == ListsInv /\ Q!L2BeatBatchEnds => ListsInv'
<1> SUFFICES ASSUME ListsInv, Q!L2BeatBatchEnds PROVE ListsInv'
    OBVIOUS
<1>1. PICK a \in Q!Answers(millisecond) : data' = Q!Merged(a)
    BY DEF Q!L2BeatBatchEnds
<1>2. Tells(a.fetchedAt, a.l2beat)
    BY AnswersTell DEF ListsInv
<1>3. /\ data'.load = data.load /\ data'.batch = data.batch + 1 /\ data'.lastUpdated = data.lastUpdated
      /\ data'.l2beat = a.l2beat /\ data'.fetchedAt = a.fetchedAt
      /\ data' = [load |-> data'.load, batch |-> data'.batch, l2beat |-> data'.l2beat,
                   lastUpdated |-> data'.lastUpdated, fetchedAt |-> data'.fetchedAt]
    BY <1>1 DEF ListsInv, Q!Merged
<1>4. /\ UNCHANGED <<millisecond, allChains>> /\ past \subseteq past'
      /\ Q!IsLive(data.l2beat) => data.fetchedAt \in past'
    BY DEF Q!L2BeatBatchEnds
<1>5. ASSUME allChains # NoEntry, allChains.key.indexed = data.load, allChains.value.l2beat \in Nat \ {0}
      PROVE  allChains.key.fetchedAt \in past'
    <2>1. CASE allChains.key.fetchedAt \in past
        BY <1>4, <2>1
    <2>2. CASE allChains.key.fetchedAt \notin past
        <3>1. allChains.key.fetchedAt = data.fetchedAt /\ allChains.value.l2beat = data.l2beat
            BY <1>5, <2>2 DEF ListsInv, KeptOfThisLoad
        <3>2. Q!IsLive(data.l2beat)
            BY <1>5, <3>1, NoEntryIsNoNumber DEF Q!IsLive
        <3> QED BY <1>4, <3>1, <3>2
    <2> QED BY <2>1, <2>2
<1>6. allChains # NoEntry /\ allChains.key.indexed = data.load => KeptOfThisLoad'
    BY <1>3, <1>4, <1>5 DEF ListsInv, KeptOfThisLoad, Q!Indexed, Tells
<1>7. Tells(data.fetchedAt, data.l2beat)'
    BY <1>2, <1>3 DEF Tells
<1> QED BY <1>3, <1>4, <1>5, <1>6, <1>7 DEF ListsInv

\* With the mark of what there is, a list has the answer there is, but for the past marks.
LEMMA MarkedAlike ==
    ASSUME ListsInv, allChains # NoEntry, allChains.key.indexed = data.load,
           allChains.key.fetchedAt = data.fetchedAt, data.fetchedAt \notin past
    PROVE  allChains.value = Q!Chains
<1>1. KeptOfThisLoad /\ Tells(data.fetchedAt, data.l2beat) /\ Tells(data.fetchedAt, allChains.value.l2beat)
    BY DEF ListsInv, KeptOfThisLoad
<1>2. allChains.value.l2beat = data.l2beat
    BY <1>1, NoEntryIsNoNumber DEF KeptOfThisLoad, Tells
<1> QED BY <1>1, <1>2 DEF KeptOfThisLoad, Q!Chains

LEMMA ListsInvStep == ListsInv /\ [Q!Next]_lists => ListsInv'
<1> SUFFICES ASSUME ListsInv, [Q!Next]_lists PROVE ListsInv'
    OBVIOUS
<1>1. CASE Q!LoadEnds
    <2>1. PICK t \in 1 .. millisecond : \E a \in Q!Answers(t) : data' = Q!Loaded(a)
        BY <1>1 DEF Q!LoadEnds
    <2>a. PICK a \in Q!Answers(t) : data' = Q!Loaded(a)
        BY <2>1
    <2>2. Tells(a.fetchedAt, a.l2beat)
        BY AnswersTell DEF ListsInv
    <2>3. /\ data'.load = data.load + 1 /\ data'.batch = data.batch
          /\ data'.l2beat = a.l2beat /\ data'.fetchedAt = a.fetchedAt
          /\ data' = [load |-> data'.load, batch |-> data'.batch, l2beat |-> data'.l2beat,
                       lastUpdated |-> data'.lastUpdated, fetchedAt |-> data'.fetchedAt]
        BY <2>a DEF ListsInv, Q!Loaded
    <2>4. UNCHANGED <<millisecond, allChains>>
        BY <1>1 DEF Q!LoadEnds
    <2>5. allChains # NoEntry => allChains.key.indexed \in Nat /\ allChains.key.indexed < data'.load
        BY <2>3 DEF ListsInv
    <2>6. Tells(data.fetchedAt, data.l2beat)'
        BY <2>2, <2>3 DEF Tells
    <2> QED BY <2>3, <2>4, <2>5, <2>6 DEF ListsInv
<1>2. CASE Q!L2BeatBatchEnds
    BY <1>2, BatchKeepsLists
<1>3. CASE Q!Tick
    BY <1>3 DEF Q!Tick, ListsInv, KeptOfThisLoad, Tells, Q!Indexed
<1>4. CASE Q!GetAllChains
    <2>1. /\ UNCHANGED <<millisecond, data, past>> /\ Q!Indexed
          /\ allChains' = [key |-> Q!AllChainsKey, value |-> Q!AllChains]
        BY <1>4 DEF Q!GetAllChains
    <2>2. CASE Q!AllChainsKept
        <3>1. allChains'.key = allChains.key /\ allChains'.value = allChains.value /\ allChains # NoEntry
            BY <2>1, <2>2 DEF Q!AllChainsKept, Q!AllChains
        <3> QED BY <2>1, <3>1 DEF ListsInv, KeptOfThisLoad, Tells, Q!Indexed
    <2>3. CASE ~Q!AllChainsKept
        <3>1. /\ allChains'.key.fetchedAt = data.fetchedAt /\ allChains'.key.indexed = data.load
              /\ allChains'.value = [load |-> data.load, l2beat |-> data.l2beat]
            BY <2>1, <2>3 DEF Q!AllChains, Q!AllChainsKey, Q!Chains
        <3> QED BY <2>1, <3>1 DEF ListsInv, KeptOfThisLoad, Tells, Q!Indexed
    <2> QED BY <2>2, <2>3
<1>5. ASSUME NEW q \in Query, Q!SearchChains(q) PROVE ListsInv'
    BY <1>5 DEF Q!SearchChains, ListsInv, KeptOfThisLoad, Tells, Q!Indexed
<1>6. CASE UNCHANGED lists
    BY <1>6 DEF lists, ListsInv, KeptOfThisLoad, Tells, Q!Indexed
<1> QED BY <1>1, <1>2, <1>3, <1>4, <1>5, <1>6 DEF Q!Next

LEMMA ListsRunAlone == ServicesSpec => Q!Init /\ [][Q!Next]_lists
<1>1. ServicesInit => Q!Init
    BY DEF ServicesInit
<1>2. [ServicesNext]_everything => [Q!Next]_lists
    BY DEF ServicesNext, everything, PricesRun, JobsRun, TurnRun, NodesRun, MetricsRun, ExplorerRun, ProxyRun,
           ListsRun, MonitorRuns, RulesRun, Over, lists
<1> QED BY <1>1, <1>2, PTL DEF ServicesSpec

\* Two loads within a millisecond, or a batch after the list was built, be it the snapshot's
\* again: the list is still that of the chains there are (queries.js:80), but for two live
\* answers within a millisecond.
LEMMA ListsStayCurrent == ServicesSpec => []Q!ListsAreCurrent
<1>1. Q!Init => ListsInv
    BY DEF Q!Init, ListsInv, Tells
<1>2. ListsInv => Q!ListsAreCurrent
    <2> SUFFICES ASSUME ListsInv, Q!Indexed
                 PROVE  Q!AllChains.load = data.load /\ (data.fetchedAt \notin past => Q!AllChains = Q!Chains)
        BY DEF Q!ListsAreCurrent
    <2>1. CASE Q!AllChainsKept
        <3>1. /\ Q!AllChains = allChains.value /\ allChains # NoEntry
              /\ allChains.key.indexed = data.load /\ allChains.key.fetchedAt = data.fetchedAt
            BY <2>1 DEF Q!AllChains, Q!AllChainsKept, Q!AllChainsKey
        <3>2. allChains.value.load = data.load
            BY <3>1 DEF ListsInv, KeptOfThisLoad
        <3> QED BY <3>1, <3>2, MarkedAlike
    <2>2. CASE ~Q!AllChainsKept
        BY <2>2 DEF Q!AllChains, Q!Chains
    <2> QED BY <2>1, <2>2
<1> QED BY <1>1, <1>2, ListsInvStep, ListsRunAlone, PTL

-----------------------------------------------------------------------------
(* The figures of growthepie's files                                       *)

LEMMA TheGreatest ==
    ASSUME NEW Set \in SUBSET Int, IsFiniteSet(Set), Set # {}
    PROVE  G!Max(Set) \in Set /\ \A x \in Set : x <= G!Max(Set)
<1>1. PICK m \in Set : \A x \in Set : x <= m
    BY FiniteHasGreatest
<1>2. \A x \in Set : m >= x
    BY <1>1
<1>3. G!Max(Set) \in Set /\ \A x \in Set : G!Max(Set) >= x
    BY <1>1, <1>2 DEF G!Max
<1> QED BY <1>3

\* The rows of a sequence that a condition picks.
LEMMA PlacesAreFinite ==
    ASSUME NEW s, Len(s) \in Nat, DOMAIN s = 1 .. Len(s), NEW P \in SUBSET DOMAIN s
    PROVE  IsFiniteSet(P) /\ P \in SUBSET Int
<1>1. 1 \in Int /\ Len(s) \in Int
    OBVIOUS
<1>2. IsFiniteSet(1 .. Len(s))
    BY <1>1, FS_Interval
<1> QED BY <1>2, FS_Subset

LEMMA DaysAreInOrder ==
    ASSUME NEW rows \in G!Rows
    PROVE  LET days == G!Days(rows)
           IN  /\ \E n \in Nat : DOMAIN days = 1 .. n
               /\ \A k \in DOMAIN days : \E i \in DOMAIN rows : days[k] = rows[i][1]
               /\ \A j, k \in DOMAIN days : days[j] = days[k] => j = k
<1> DEFINE of == {rows[i][1] : i \in DOMAIN rows}
           R == {p \in Int \X Int : p[1] < p[2]}
           days == G!Days(rows)
           f == [i \in DOMAIN rows |-> rows[i][1]]
<1>1. Len(rows) \in Nat /\ DOMAIN rows = 1 .. Len(rows) /\ \A i \in DOMAIN rows : rows[i] \in Int \X Int
    BY DEF G!Rows
<1>2. of \in SUBSET Int
    BY <1>1
<1>3. IsFiniteSet(of)
    <2>1. f \in Surjection(DOMAIN rows, of)
        BY DEF Surjection
    <2>2. IsFiniteSet(DOMAIN rows)
        BY <1>1, PlacesAreFinite
    <2> HIDE DEF f, of
    <2> QED BY <2>1, <2>2, FS_Surjection
<1>4. days = [k \in 1 .. Cardinality(of) |-> CHOOSE d \in of : Cardinality({e \in of : e < d}) = k - 1]
    BY DEF G!Days, G!Cardinality, Cardinality
<1> HIDE DEF days, of
<1>5. /\ \A x \in of : <<x, x>> \notin R
      /\ \A x, y \in of : x = y \/ <<x, y>> \in R \/ <<y, x>> \in R
      /\ \A x, y, z \in of : <<x, y>> \in R /\ <<y, z>> \in R => <<x, z>> \in R
    BY <1>2
<1>6. \A d \in of : {e \in of : e < d} = Below(of, R, d)
    BY <1>2 DEF Below
<1> HIDE DEF R
<1>7. Cardinality(of) \in Nat /\ \A k \in 1 .. Cardinality(of) : \E d \in of : Cardinality(Below(of, R, d)) = k - 1
    BY <1>3, <1>5, EveryRankIsTaken
<1>8. \A k \in 1 .. Cardinality(of) : days[k] \in of /\ Cardinality({e \in of : e < days[k]}) = k - 1
    <2> SUFFICES ASSUME NEW k \in 1 .. Cardinality(of) PROVE days[k] \in of /\ Cardinality({e \in of : e < days[k]}) = k - 1
        OBVIOUS
    <2>1. \E d \in of : Cardinality({e \in of : e < d}) = k - 1
        BY <1>6, <1>7
    <2>2. days[k] = CHOOSE d \in of : Cardinality({e \in of : e < d}) = k - 1
        BY <1>4
    <2> QED BY <2>1, <2>2
<1>9. DOMAIN days = 1 .. Cardinality(of)
    BY <1>4
<1>10. \A j, k \in DOMAIN days : days[j] = days[k] => j = k
    <2> SUFFICES ASSUME NEW j \in 1 .. Cardinality(of), NEW k \in 1 .. Cardinality(of), days[j] = days[k] PROVE j = k
        BY <1>9
    <2>1. j - 1 = k - 1
        BY <1>8
    <2> QED BY <1>7, <2>1
<1>11. \A k \in DOMAIN days : \E i \in DOMAIN rows : days[k] = rows[i][1]
    BY <1>8, <1>9 DEF of
<1> QED BY <1>7, <1>9, <1>10, <1>11 DEF days

\* A last stretch of a series is of rows, each day once, if the series is.
LEMMA LastOnesStay ==
    ASSUME NEW s \in G!Rows
    PROVE  G!LastOf(s) \in G!Rows /\ (G!OncePerDay(s) => G!OncePerDay(G!LastOf(s)))
<1> DEFINE L == Len(s)
           S == {1, Len(s) - SeriesDays + 1}
           m == G!Max(S)
           a == m - 1
           n == L - a
           g == [j \in 1 .. n |-> s[a + j]]
<1>1. L \in Nat /\ DOMAIN s = 1 .. L /\ (\A i \in 1 .. L : s[i] \in Int \X Int) /\ SeriesDays \in Nat \ {0}
    BY ServicesAssumption DEF G!Rows, G!FilesAssumption
<1>2. m \in 1 .. L + 1
    <2>1. S \in SUBSET Int /\ S # {} /\ 1 \in S
        BY <1>1
    <2>2. IsFiniteSet(S)
        <3>1. IsFiniteSet({1}) /\ S = {1} \cup {Len(s) - SeriesDays + 1}
            BY FS_Singleton
        <3> HIDE DEF S
        <3> QED BY <3>1, FS_AddElement
    <2>3. \A x \in S : x <= L + 1
        BY <1>1
    <2> HIDE DEF S, L
    <2>4. m \in S /\ 1 <= m
        BY <2>1, <2>2, TheGreatest
    <2>5. m \in Int /\ m <= L + 1
        BY <2>1, <2>3, <2>4
    <2> QED BY <2>4, <2>5
<1> HIDE DEF m
<1>3. a \in Nat /\ n \in Nat /\ \A j \in 1 .. n : a + j \in 1 .. L
    BY <1>1, <1>2
<1>4. G!LastOf(s) = g
    <2>1. \A j \in 1 .. n : j + m - 1 = a + j
        BY <1>2
    <2>2. 1 + L - m = n
        BY <1>1, <1>2
    <2>3. SubSeq(s, m, L) = [j \in 1 .. 1 + L - m |-> s[j + m - 1]]
        BY <1>1, <1>2 DEF G!Rows
    <2>4. G!LastOf(s) = SubSeq(s, m, L)
        BY DEF G!LastOf, m
    <2> QED BY <2>1, <2>2, <2>3, <2>4
<1> HIDE DEF a, n, L
<1>5. g \in Seq(Int \X Int) /\ DOMAIN g = 1 .. n
    <2>1. n \in Nat /\ \A j \in 1 .. n : s[a + j] \in Int \X Int
        BY <1>1, <1>3
    <2> DEFINE Pair == Int \X Int
    <2>2. \A j \in 1 .. n : g[j] \in Pair
        BY <2>1
    <2>3. g = [j \in 1 .. n |-> g[j]]
        OBVIOUS
    <2> HIDE DEF g, Pair
    <2>4. g \in Seq(Pair) /\ DOMAIN g = 1 .. n
        BY <2>1, <2>2, <2>3
    <2> QED BY <2>4 DEF Pair
<1>6. G!OncePerDay(s) => \A i, j \in 1 .. n : g[i][1] = g[j][1] => i = j
    <2> SUFFICES ASSUME G!OncePerDay(s), NEW i \in 1 .. n, NEW j \in 1 .. n, s[a + i][1] = s[a + j][1] PROVE i = j
        OBVIOUS
    <2>1. a + i = a + j
        BY <1>1, <1>3 DEF G!OncePerDay
    <2> QED BY <1>3, <2>1
<1> QED BY <1>4, <1>5, <1>6 DEF G!Rows, G!OncePerDay

LEMMA NormalizedOncePerDay ==
    ASSUME NEW rows \in G!Rows
    PROVE  G!NormalizeFundamentals(rows) \in G!Rows /\ G!OncePerDay(G!NormalizeFundamentals(rows))
<1> DEFINE days == G!Days(rows)
           series == [i \in DOMAIN days |-> <<days[i], G!OnDay(rows, days[i])>>]
<1>1. /\ \E n \in Nat : DOMAIN days = 1 .. n
      /\ \A k \in DOMAIN days : \E i \in DOMAIN rows : days[k] = rows[i][1]
      /\ \A j, k \in DOMAIN days : days[j] = days[k] => j = k
    BY DaysAreInOrder
<1>2. Len(rows) \in Nat /\ DOMAIN rows = 1 .. Len(rows) /\ \A i \in DOMAIN rows : rows[i] \in Int \X Int
    BY DEF G!Rows
<1> HIDE DEF days
<1>3. ASSUME NEW k \in DOMAIN days PROVE days[k] \in Int /\ G!OnDay(rows, days[k]) \in Int
    <2> DEFINE at == {i \in DOMAIN rows : rows[i][1] = days[k]}
    <2>1. at # {} /\ days[k] \in Int
        BY <1>1, <1>2
    <2>2. at \in SUBSET DOMAIN rows
        OBVIOUS
    <2>3. G!OnDay(rows, days[k]) = rows[G!Max(at)][2]
        BY DEF G!OnDay
    <2> HIDE DEF at
    <2>4. IsFiniteSet(at) /\ at \in SUBSET Int
        BY <1>2, <2>2, PlacesAreFinite
    <2>5. G!Max(at) \in at
        BY <2>1, <2>4, TheGreatest
    <2> QED BY <1>2, <2>1, <2>2, <2>3, <2>5
<1>4. series \in G!Rows
    BY <1>1, <1>3 DEF G!Rows
<1>5. G!OncePerDay(series)
    BY <1>1 DEF G!OncePerDay
<1>6. G!NormalizeFundamentals(rows) = G!LastOf(series)
    BY DEF G!NormalizeFundamentals, days
<1> HIDE DEF series
<1> QED BY <1>4, <1>5, <1>6, LastOnesStay

\* What is sorted are the rows there were.
LEMMA LandingIsOfRows ==
    ASSUME NEW rows \in G!Rows
    PROVE  G!NormalizeLanding(rows) \in G!Rows
<1> DEFINE D == DOMAIN rows
           R == {p \in D \X D : G!Earlier(rows, p[1], p[2])}
           At(k) == CHOOSE i \in D : Cardinality({j \in D : G!Earlier(rows, j, i)}) = k - 1
           sorted == [k \in D |-> rows[At(k)]]
<1>1. Len(rows) \in Nat /\ D = 1 .. Len(rows) /\ \A i \in D : rows[i] \in Int \X Int
    BY DEF G!Rows
<1>2. IsFiniteSet(D) /\ Cardinality(D) = Len(rows)
    <2>1. IsFiniteSet(1 .. Len(rows)) /\ Cardinality(1 .. Len(rows)) = IF 1 > Len(rows) THEN 0 ELSE Len(rows) - 1 + 1
        BY <1>1, FS_Interval
    <2> QED BY <1>1, <2>1
<1>3. \A i, j \in D : <<j, i>> \in R <=> G!Earlier(rows, j, i)
    OBVIOUS
<1>4. /\ \A x \in D : ~G!Earlier(rows, x, x)
      /\ \A x, y \in D : x = y \/ G!Earlier(rows, x, y) \/ G!Earlier(rows, y, x)
      /\ \A x, y, z \in D : G!Earlier(rows, x, y) /\ G!Earlier(rows, y, z) => G!Earlier(rows, x, z)
    BY <1>1 DEF G!Earlier
<1>5. \A i \in D : {j \in D : G!Earlier(rows, j, i)} = Below(D, R, i)
    BY <1>3 DEF Below
<1> HIDE DEF R
<1>6. \A k \in 1 .. Cardinality(D) : \E i \in D : Cardinality(Below(D, R, i)) = k - 1
    <2> HIDE DEF D
    <2> QED BY <1>2, <1>3, <1>4, EveryRankIsTaken
<1>7. ASSUME NEW k \in D PROVE rows[At(k)] \in Int \X Int
    <2>1. \E i \in D : Cardinality({j \in D : G!Earlier(rows, j, i)}) = k - 1
        BY <1>1, <1>2, <1>5, <1>6
    <2>2. At(k) \in D
        BY <2>1
    <2> HIDE DEF At
    <2> QED BY <1>1, <2>2
<1>8. sorted \in Seq(Int \X Int)
    <2> DEFINE Pair == Int \X Int
    <2>1. \A k \in 1 .. Len(rows) : sorted[k] \in Pair
        BY <1>1, <1>7
    <2>2. sorted = [k \in 1 .. Len(rows) |-> sorted[k]]
        BY <1>1
    <2> HIDE DEF sorted, Pair
    <2>3. sorted \in Seq(Pair)
        BY <1>1, <2>1, <2>2
    <2> QED BY <2>3 DEF Pair
<1>9. G!NormalizeLanding(rows) = G!LastOf(sorted)
    BY DEF G!NormalizeLanding, G!Cardinality, Cardinality
<1> HIDE DEF sorted
<1> QED BY <1>8, <1>9, LastOnesStay DEF G!Rows

\* A mean there is has a row for each day of its window.
LEMMA WindowsAreWhole ==
    ASSUME NEW s \in G!Rows, G!OncePerDay(s), s # <<>>, NEW offset \in Nat, G!WindowMean(s, Week, offset) # NoEntry
    PROVE  \A d \in offset .. offset + Week - 1 : \E i \in DOMAIN s : s[i][1] = G!Latest(s)[1] - d
<1> DEFINE end == G!Latest(s)[1] - offset
           W == end - Week + 1 .. end
           of == {i \in DOMAIN s : s[i][1] \in W}
           f == [i \in of |-> s[i][1]]
<1>1. Len(s) \in Nat /\ DOMAIN s = 1 .. Len(s) /\ (\A i \in DOMAIN s : s[i] \in Int \X Int) /\ Week \in Nat \ {0}
    BY ServicesAssumption DEF G!Rows, G!FilesAssumption
<1>2. G!Latest(s)[1] \in Int
    <2>1. Len(s) \in DOMAIN s
        BY <1>1 DEF G!Rows
    <2> QED BY <1>1, <2>1 DEF G!Latest
<1>3. Cardinality(of) = Week
    BY DEF G!WindowMean, G!Cardinality, Cardinality
<1>4. end \in Int
    BY <1>2
<1> HIDE DEF end
<1>5. IsFiniteSet(W) /\ Cardinality(W) = Week
    <2>1. end - Week + 1 \in Int
        BY <1>1, <1>4
    <2>2. IsFiniteSet(W) /\ Cardinality(W) = IF end - Week + 1 > end THEN 0 ELSE end - (end - Week + 1) + 1
        BY <1>4, <2>1, FS_Interval
    <2> QED BY <1>1, <1>4, <2>2
<1>6. f \in Injection(of, W)
    <2>1. f \in [of -> W]
        OBVIOUS
    <2>2. \A i, j \in DOMAIN f : f[i] = f[j] => i = j
        BY DEF G!OncePerDay
    <2> HIDE DEF f, W, of
    <2> QED BY <2>1, <2>2 DEF Injection, IsInjective
<1>7. f \in Surjection(of, W)
    <2> HIDE DEF f, W, of
    <2> QED BY <1>3, <1>5, <1>6, FS_Injection
<1>8. \A y \in W : \E i \in of : s[i][1] = y
    <2>1. \A y \in W : \E i \in of : f[i] = y
        <3> HIDE DEF f, W, of
        <3> QED BY <1>7 DEF Surjection
    <2> QED BY <2>1
<1> SUFFICES ASSUME NEW d \in offset .. offset + Week - 1 PROVE \E i \in DOMAIN s : s[i][1] = G!Latest(s)[1] - d
    OBVIOUS
<1>9. G!Latest(s)[1] - d \in W
    BY <1>1, <1>2 DEF end
<1> HIDE DEF W
<1> QED BY <1>8, <1>9

\* What a part holds, once it holds something.
GoodCopy(f, copied) ==
    copied = NoEntry \/ (copied \in G!Rows /\ (f \notin Landing => copied # <<>> /\ G!OncePerDay(copied)))

LEMMA GoodCopiesGiveWholeMeans == (\A f \in File : GoodCopy(f, parts[f].data)) => G!MeansAreOfWholeWindows
<1> SUFFICES ASSUME NEW f \in File, parts[f].data \notin {NoEntry, <<>>}, GoodCopy(f, parts[f].data),
                    f \in Landing => G!OncePerDay(parts[f].data)
             PROVE  LET s == G!MetricSummary(parts[f].data)
                        has(on) == \E i \in DOMAIN parts[f].data : parts[f].data[i][1] = on
                    IN  /\ s.mean # NoEntry => \A d \in 0 .. Week - 1 : has(s.date - d)
                        /\ s.meanBefore # NoEntry => \A d \in Week .. 2 * Week - 1 : has(s.date - d)
                        /\ s.mean # NoEntry /\ s.meanBefore # NoEntry => s.before # NoEntry
    BY DEF G!MeansAreOfWholeWindows
<1> DEFINE t == parts[f].data
           s == G!MetricSummary(t)
<1>1. t \in G!Rows /\ G!OncePerDay(t) /\ t # <<>>
    BY DEF GoodCopy
<1> HIDE DEF t
<1>2. /\ s.date = G!Latest(t)[1] /\ s.before = G!ValueDaysBefore(t, Week)
      /\ s.mean = G!WindowMean(t, Week, 0) /\ s.meanBefore = G!WindowMean(t, Week, Week)
    BY DEF G!MetricSummary
<1> HIDE DEF s
<1>3. Week \in Nat /\ 0 \in Nat /\ Week # 0 /\ NoEntry \notin Int
    BY ServicesAssumption DEF G!FilesAssumption
<1>4. s.mean # NoEntry => \A d \in 0 .. Week - 1 : \E i \in DOMAIN t : t[i][1] = s.date - d
    <2>1. s.mean # NoEntry => \A d \in 0 .. 0 + Week - 1 : \E i \in DOMAIN t : t[i][1] = G!Latest(t)[1] - d
        BY <1>1, <1>2, <1>3, WindowsAreWhole
    <2> QED BY <1>2, <1>3, <2>1
<1>5. s.meanBefore # NoEntry => \A d \in Week .. 2 * Week - 1 : \E i \in DOMAIN t : t[i][1] = s.date - d
    <2>1. s.meanBefore # NoEntry => \A d \in Week .. Week + Week - 1 : \E i \in DOMAIN t : t[i][1] = G!Latest(t)[1] - d
        BY <1>1, <1>2, <1>3, WindowsAreWhole
    <2>2. 2 * Week - 1 = Week + Week - 1
        BY <1>3
    <2> QED BY <1>2, <2>1, <2>2
<1>6. s.meanBefore # NoEntry => s.before # NoEntry
    <2> SUFFICES ASSUME s.meanBefore # NoEntry PROVE s.before # NoEntry
        OBVIOUS
    <2> DEFINE there == {i \in DOMAIN t : t[i][1] = G!Latest(t)[1] - Week}
    <2>1. Week \in Week .. 2 * Week - 1
        BY <1>3
    <2>2. there # {}
        BY <1>2, <1>5, <2>1
    <2>3. Len(t) \in Nat /\ DOMAIN t = 1 .. Len(t) /\ \A i \in DOMAIN t : t[i] \in Int \X Int
        BY <1>1 DEF G!Rows
    <2>4. there \in SUBSET DOMAIN t
        OBVIOUS
    <2>5. G!ValueDaysBefore(t, Week) = IF there = {} THEN NoEntry ELSE t[G!Max(there)][2]
        BY DEF G!ValueDaysBefore
    <2> HIDE DEF there
    <2>6. IsFiniteSet(there) /\ there \in SUBSET Int
        BY <2>3, <2>4, PlacesAreFinite
    <2>7. G!Max(there) \in there
        BY <2>2, <2>6, TheGreatest
    <2>8. t[G!Max(there)][2] \in Int
        BY <2>3, <2>4, <2>7
    <2> QED BY <1>2, <1>3, <2>2, <2>5, <2>8
<1> QED BY <1>4, <1>5, <1>6 DEF s, t

-----------------------------------------------------------------------------
(* The copies of growthepie's files                                        *)

FilesInv ==
    /\ day \in Nat
    /\ DOMAIN parts = File
    /\ \A f \in File :
          /\ {"data", "fetchedAt", "source", "error", "lastAttemptAt"} = DOMAIN parts[f]
          /\ parts[f] = [g \in DOMAIN parts[f] |-> parts[f][g]]
          /\ GoodCopy(f, parts[f].data)
          /\ parts[f].fetchedAt \in Nat /\ parts[f].fetchedAt <= day
    /\ parts = [f \in File |-> parts[f]]

\* What a step may do to the copy of a file: nothing to one that is there, but for a newer.
KeepsCopy(f) ==
    parts[f].data # NoEntry =>
        /\ parts'[f].data # NoEntry /\ (f \notin Landing => parts'[f].data # <<>>)
        /\ parts'[f].fetchedAt >= parts[f].fetchedAt
        /\ parts[f].source = "live" => parts'[f].source = "live"

\* A part of f as good as p, or better.
AsGood(f, p, q) ==
    /\ DOMAIN q = {"data", "fetchedAt", "source", "error", "lastAttemptAt"} /\ q = [g \in DOMAIN q |-> q[g]]
    /\ GoodCopy(f, q.data) /\ q.fetchedAt \in Nat /\ q.fetchedAt <= day
    /\ p.data # NoEntry =>
          q.data # NoEntry /\ q.fetchedAt >= p.fetchedAt /\ (p.source = "live" => q.source = "live")

LEMMA PartsStayGood ==
    ASSUME FilesInv, UNCHANGED day, DOMAIN parts' = File, parts' = [f \in File |-> parts'[f]],
           \A f \in File : AsGood(f, parts[f], parts'[f])
    PROVE  FilesInv' /\ \A f \in File : KeepsCopy(f)
<1>1. ASSUME NEW f \in File
      PROVE  /\ {"data", "fetchedAt", "source", "error", "lastAttemptAt"} = DOMAIN parts'[f]
             /\ parts'[f] = [g \in DOMAIN parts'[f] |-> parts'[f][g]]
             /\ GoodCopy(f, parts'[f].data)
             /\ parts'[f].fetchedAt \in Nat /\ parts'[f].fetchedAt <= day
             /\ KeepsCopy(f)
    <2>1. AsGood(f, parts[f], parts'[f])
        OBVIOUS
    <2>2. parts'[f].data # NoEntry => (f \notin Landing => parts'[f].data # <<>>)
        BY <2>1 DEF AsGood, GoodCopy
    <2> QED BY <2>1, <2>2 DEF AsGood, KeepsCopy
<1>2. (\A f \in File : GoodCopy(f, parts[f].data))'
    <2>1. \A f \in File : GoodCopy(f, parts'[f].data)
        BY <1>1
    <2> QED BY <2>1 DEF GoodCopy, G!OncePerDay
<1> HIDE DEF GoodCopy
<1> QED BY <1>1, <1>2 DEF FilesInv

LEMMA FilesStep == FilesInv /\ [G!Next]_metrics => FilesInv' /\ \A f \in File : KeepsCopy(f)
<1> SUFFICES ASSUME FilesInv, [G!Next]_metrics PROVE FilesInv' /\ \A f \in File : KeepsCopy(f)
    OBVIOUS
<1>a. \A f \in File : GoodCopy(f, Fallback[f])
    BY ServicesAssumption DEF G!FilesAssumption, GoodCopy
<1>s. ASSUME NEW f \in File PROVE AsGood(f, parts[f], parts[f])
    BY DEF AsGood, FilesInv
<1>b. ASSUME NEW f \in File PROVE AsGood(f, parts[f], G!WithFallback[f])
    <2>1. CASE G!WithFallback[f] = parts[f]
        BY <1>s, <2>1
    <2> DEFINE q == [G!NothingRead EXCEPT !.data = Fallback[f], !.source = "fallback"]
    <2>2. /\ DOMAIN q = {"data", "fetchedAt", "source", "error", "lastAttemptAt"} /\ q = [g \in DOMAIN q |-> q[g]]
          /\ q.data = Fallback[f] /\ q.fetchedAt = 0
        BY DEF G!NothingRead
    <2>3. \/ G!WithFallback[f] = parts[f]
          \/ parts[f].data = NoEntry /\ G!WithFallback[f] = q
        BY DEF G!WithFallback
    <2> HIDE DEF q
    <2> QED BY <1>a, <2>1, <2>2, <2>3 DEF AsGood, FilesInv
<1>c. ASSUME NEW due \in SUBSET File, UNCHANGED day,
             parts' = [f \in File |-> IF f \in due THEN [G!WithFallback[f] EXCEPT !.lastAttemptAt = day] ELSE G!WithFallback[f]]
      PROVE  FilesInv' /\ \A f \in File : KeepsCopy(f)
    <2>1. ASSUME NEW f \in File PROVE AsGood(f, parts[f], parts'[f])
        <3> DEFINE w == G!WithFallback[f]
        <3>1. parts'[f] = w \/ parts'[f] = [w EXCEPT !.lastAttemptAt = day]
            BY <1>c
        <3>2. AsGood(f, parts[f], w)
            BY <1>b
        <3> HIDE DEF w
        <3> QED BY <3>1, <3>2 DEF AsGood
    <2>2. DOMAIN parts' = File /\ parts' = [f \in File |-> parts'[f]]
        BY <1>c
    <2> QED BY <1>c, <2>1, <2>2, PartsStayGood
<1>d. ASSUME NEW f \in File, NEW p, AsGood(f, parts[f], p), parts' = [parts EXCEPT ![f] = p], UNCHANGED day
      PROVE  FilesInv' /\ \A g \in File : KeepsCopy(g)
    <2>1. DOMAIN parts' = File /\ parts' = [g \in File |-> parts'[g]]
        BY <1>d DEF FilesInv
    <2>2. \A g \in File : parts'[g] = IF g = f THEN p ELSE parts[g]
        BY <1>d DEF FilesInv
    <2> QED BY <1>d, <1>s, <2>1, <2>2, PartsStayGood
<1>1. ASSUME UNCHANGED <<day, parts>> PROVE FilesInv' /\ \A f \in File : KeepsCopy(f)
    BY <1>1, <1>s, PartsStayGood DEF FilesInv
<1>2. CASE G!TimerRefreshes
    BY <1>1, <1>2, <1>c DEF G!TimerRefreshes, G!RefreshGrowthepie, G!DueFiles
<1>3. CASE G!EnsureGrowthepie
    <2> DEFINE due == {f \in File : fetching = {} /\ f \in G!DueFiles}
    <2>1. parts' = [f \in File |-> IF f \in due THEN [G!WithFallback[f] EXCEPT !.lastAttemptAt = day] ELSE G!WithFallback[f]]
        BY <1>3 DEF G!EnsureGrowthepie
    <2>2. due \in SUBSET File /\ UNCHANGED day
        BY <1>3 DEF G!EnsureGrowthepie
    <2> HIDE DEF due
    <2> QED BY <1>c, <2>1, <2>2
<1>4. CASE G!Tick
    <2>1. UNCHANGED parts /\ day' \in Nat /\ day' >= day
        BY <1>4 DEF G!Tick, FilesInv
    <2>2. \A f \in File : KeepsCopy(f)
        BY <2>1 DEF FilesInv, KeepsCopy, GoodCopy
    <2>3. (\A f \in File : GoodCopy(f, parts[f].data))'
        BY <2>1 DEF FilesInv, GoodCopy, G!OncePerDay
    <2> QED BY <2>1, <2>2, <2>3 DEF FilesInv
<1>5. ASSUME NEW f \in File, G!FetchPartFails(f) PROVE FilesInv' /\ \A g \in File : KeepsCopy(g)
    <2> DEFINE p == [parts[f] EXCEPT !.error = TRUE]
    <2>1. parts' = [parts EXCEPT ![f] = p] /\ UNCHANGED day
        BY <1>5 DEF G!FetchPartFails, G!Settled
    <2>2. AsGood(f, parts[f], p)
        BY <1>s DEF AsGood
    <2> HIDE DEF p
    <2> QED BY <1>d, <2>1, <2>2
<1>6. ASSUME NEW f \in File, NEW rows \in Publication, NEW table \in BOOLEAN, G!FetchPartEnds(f, rows, table)
      PROVE  FilesInv' /\ \A g \in File : KeepsCopy(g)
    <2> DEFINE copied == G!Normalize(f, rows)
               p == [parts[f] EXCEPT !.data = copied, !.fetchedAt = day, !.source = "live", !.error = FALSE]
               q == [parts[f] EXCEPT !.error = TRUE]
    <2>1. copied \in G!Rows /\ NoEntry \notin G!Rows /\ (f \notin Landing => G!OncePerDay(copied))
        <3>1. rows \in G!Rows /\ NoEntry \notin G!Rows
            BY ServicesAssumption DEF G!FilesAssumption
        <3>2. G!NormalizeFundamentals(rows) \in G!Rows /\ G!OncePerDay(G!NormalizeFundamentals(rows))
            BY <3>1, NormalizedOncePerDay
        <3>3. G!NormalizeLanding(rows) \in G!Rows
            BY <3>1, LandingIsOfRows
        <3> QED BY <3>1, <3>2, <3>3 DEF G!Normalize
    <2>2. /\ UNCHANGED day
          /\ parts' = [parts EXCEPT ![f] = IF G!HasData(f, copied, table) THEN p ELSE q]
        BY <1>6 DEF G!FetchPartEnds, G!Settled, copied
    <2> HIDE DEF copied
    <2>3. CASE G!HasData(f, copied, table)
        <3>1. parts' = [parts EXCEPT ![f] = p]
            BY <2>2, <2>3
        <3>2. /\ DOMAIN p = {"data", "fetchedAt", "source", "error", "lastAttemptAt"} /\ p = [g \in DOMAIN p |-> p[g]]
              /\ p.data = copied /\ p.fetchedAt = day /\ p.source = "live"
            BY DEF FilesInv
        <3> HIDE DEF p
        <3>3. GoodCopy(f, copied) /\ copied # NoEntry
            BY <2>1, <2>3 DEF GoodCopy, G!HasData
        <3>4. AsGood(f, parts[f], p)
            BY <3>2, <3>3 DEF AsGood, FilesInv
        <3> QED BY <1>d, <2>2, <3>1, <3>4
    <2>4. CASE ~G!HasData(f, copied, table)
        <3>1. parts' = [parts EXCEPT ![f] = q]
            BY <2>2, <2>4
        <3>2. AsGood(f, parts[f], q)
            BY <1>s DEF AsGood
        <3> HIDE DEF q
        <3> QED BY <1>d, <2>2, <3>1, <3>2
    <2> QED BY <2>3, <2>4
<1>7. CASE UNCHANGED metrics
    BY <1>1, <1>7 DEF metrics
<1> QED BY <1>2, <1>3, <1>4, <1>5, <1>6, <1>7 DEF G!Next

LEMMA FilesRunAlone == ServicesSpec => G!Init /\ [][G!Next]_metrics
<1>1. ServicesInit => G!Init
    BY DEF ServicesInit
<1>2. [ServicesNext]_everything => [G!Next]_metrics
    BY DEF ServicesNext, everything, PricesRun, JobsRun, TurnRun, NodesRun, MetricsRun, ExplorerRun, ProxyRun,
           ListsRun, MonitorRuns, RulesRun, Over, metrics
<1> QED BY <1>1, <1>2, PTL DEF ServicesSpec

LEMMA FilesBegin == G!Init => FilesInv
<1> DEFINE q == G!NothingRead
<1>1. /\ DOMAIN q = {"data", "fetchedAt", "source", "error", "lastAttemptAt"} /\ q = [g \in DOMAIN q |-> q[g]]
      /\ q.data = NoEntry /\ q.fetchedAt = 0
    BY DEF G!NothingRead
<1>2. \A f \in File : GoodCopy(f, NoEntry)
    BY DEF GoodCopy
<1>3. G!Init => day = 1 /\ parts = [f \in File |-> q]
    BY DEF G!Init
<1> HIDE DEF q
<1> QED BY <1>1, <1>2, <1>3 DEF FilesInv

\* No read that fails, drifts or comes late takes a good copy away, or puts an older one in
\* its place (growthepie.js:345).
LEMMA CopiesStay == ServicesSpec => G!GoodCopyStays
<1>2. FilesInv /\ [G!Next]_metrics => [\A f \in File : KeepsCopy(f)]_metrics
    BY FilesStep
<1>3. [\A f \in File : KeepsCopy(f)]_metrics =>
          [\A f \in File : parts[f].data # NoEntry =>
              /\ parts'[f].data # NoEntry /\ (f \notin Landing => parts'[f].data # <<>>)
              /\ parts'[f].fetchedAt >= parts[f].fetchedAt
              /\ parts[f].source = "live" => parts'[f].source = "live"]_(G!vars)
    BY DEF KeepsCopy, metrics, G!vars
<1> QED BY <1>2, <1>3, FilesBegin, FilesStep, FilesRunAlone, PTL DEF G!GoodCopyStays

-----------------------------------------------------------------------------
(* The forks of nodes and feeds                                            *)

NodesTypeOK ==
    /\ clock \in Nat /\ nodeVersion \in Nat /\ nameVersion \in Nat
    /\ schedule \in K!Entry \cup {NoEntry}
    /\ answers \in [K!Time -> K!Answer \cup {NoEntry}]
    /\ DOMAIN calls = Asker
    /\ asking # NoEntry =>
          asking.wanted \in SUBSET K!Time /\ IsFiniteSet(asking.wanted) /\ asking.since \in Nat

\* One refresh at a time, and the schedule it began with is the one there still is.
RefreshInv ==
    \A r \in refreshing :
        /\ DOMAIN r = {"known", "asked", "since", "n"}
        /\ r.known = schedule /\ r.since \in Nat
        /\ \A q \in refreshing : q = r

\* Forks that were built under a key are those of now while both versions are the key's.
Current(key, built) ==
    /\ key.nodes \in Nat /\ key.nodes <= nodeVersion
    /\ key.names \in Nat /\ key.names <= nameVersion
    /\ key.nodes = nodeVersion /\ key.names = nameVersion => built = K!NodeForkMentions

MemoInv ==
    /\ memo # NoEntry => Current(memo.key, memo.forks)
    /\ \A c \in Asker : calls[c].is = "building" => Current(calls[c].key, calls[c].forks)

\* Every change of what is known moves a version, and nothing known is forgotten.
VersionsTell ==
    /\ nodeVersion' \in Nat /\ nodeVersion' >= nodeVersion
    /\ nameVersion' \in Nat /\ nameVersion' >= nameVersion
    /\ nodeVersion' = nodeVersion /\ nameVersion' = nameVersion => K!NodeForkMentions' = K!NodeForkMentions

LEMMA NodesConstantsAre ==
    /\ NoEntry \notin Schedule /\ NoEntry \notin K!Entry /\ NoEntry \notin K!Answer
    /\ \A s \in Schedule : DOMAIN s = 1 .. 3
BY ServicesAssumption DEF K!NodeForksAssumption

\* A schedule has three times at most, all of them known.
LEMMA PairsAre == NodesTypeOK => K!Pairs \in SUBSET K!Time /\ IsFiniteSet(K!Pairs)
<1> SUFFICES ASSUME NodesTypeOK PROVE K!Pairs \in SUBSET K!Time /\ IsFiniteSet(K!Pairs)
    OBVIOUS
<1>1. CASE K!Forks(schedule) = NoEntry
    BY <1>1, FS_EmptySet DEF K!Pairs
<1>2. CASE K!Forks(schedule) # NoEntry
    <2> DEFINE s == schedule.forks
    <2>1. s \in Schedule /\ DOMAIN s = 1 .. 3 /\ K!Pairs = {s[i] : i \in DOMAIN s} \ {NoEntry}
        BY <1>2, NodesConstantsAre DEF NodesTypeOK, K!Forks, K!Pairs, K!ToSet, K!Entry
    <2> HIDE DEF s
    <2>2. K!Pairs \subseteq {s[1], s[2], s[3]}
        BY <2>1
    <2>3. IsFiniteSet({s[1], s[2], s[3]})
        <3>1. IsFiniteSet({s[1]})
            BY FS_Singleton
        <3>2. IsFiniteSet({s[1]} \cup {s[2]})
            BY <3>1, FS_AddElement
        <3>3. IsFiniteSet(({s[1]} \cup {s[2]}) \cup {s[3]})
            BY <3>2, FS_AddElement
        <3>4. {s[1], s[2], s[3]} = ({s[1]} \cup {s[2]}) \cup {s[3]}
            OBVIOUS
        <3> QED BY <3>3, <3>4
    <2>4. \A i \in DOMAIN s : s[i] # NoEntry => s[i] \in K!Time
        <3>1. \A i \in DOMAIN s : s[i] \in K!ToSet(s)
            BY DEF K!ToSet
        <3>2. ASSUME NEW t \in K!ToSet(s) PROVE t \in UNION {K!ToSet(y) : y \in Schedule}
            <4>1. K!ToSet(s) \in {K!ToSet(y) : y \in Schedule}
                <5> HIDE DEF K!ToSet
                <5> QED BY <2>1
            <4> QED BY <3>2, <4>1
        <3>3. K!Time = (UNION {K!ToSet(y) : y \in Schedule}) \ {NoEntry}
            BY DEF K!Time
        <3>4. ASSUME NEW i \in DOMAIN s, s[i] # NoEntry PROVE s[i] \in K!Time
            <4> HIDE DEF K!ToSet, K!Time
            <4>1. s[i] \in UNION {K!ToSet(y) : y \in Schedule}
                BY <3>1, <3>2
            <4> QED BY <3>3, <3>4, <4>1
        <3> QED BY <3>4
    <2>5. K!Pairs \subseteq K!Time
        BY <2>1, <2>4
    <2> QED BY <2>2, <2>3, <2>5, FS_Subset
<1> QED BY <1>1, <1>2

\* What a failure keeps of a name, and of nothing.
LEMMA MissedKeeps ==
    ASSUME NodesTypeOK, NEW t \in K!Time, NEW since \in Nat
    PROVE  /\ K!Missed(t, since) \in K!Answer
           /\ K!Found(t) => K!Missed(t, since).is = "found" /\ K!Missed(t, since).name = answers[t].name
           /\ ~K!Found(t) => K!Missed(t, since).is = "failed"
<1>1. CASE K!Found(t)
    BY <1>1 DEF K!Missed, K!Found, K!Answer, NodesTypeOK
<1>2. CASE ~K!Found(t)
    BY <1>2 DEF K!Missed, K!Answer
<1> QED BY <1>1, <1>2

\* Names that arrive: each that is new or differs counts, the others stay.
LEMMA NamesArrive ==
    ASSUME NodesTypeOK, NEW given, K!FeedNames(given), \A t \in DOMAIN given : given[t] \in Name
    PROVE  /\ answers' \in [K!Time -> K!Answer \cup {NoEntry}]
           /\ \A t \in K!Time : K!Found(t) => K!Found(t)'
           /\ VersionsTell
<1>1. /\ asking.wanted \in SUBSET K!Time /\ IsFiniteSet(asking.wanted) /\ asking.since \in Nat
      /\ DOMAIN given \subseteq asking.wanted /\ UNCHANGED <<schedule, nodeVersion>>
      /\ nodeVersion \in Nat /\ nameVersion \in Nat
    BY DEF NodesTypeOK, K!FeedNames
<1> DEFINE fresh == {t \in DOMAIN given : ~(K!Found(t) /\ answers[t].name = given[t])}
<1>2. IsFiniteSet(fresh) /\ Cardinality(fresh) \in Nat /\ (Cardinality(fresh) = 0 => fresh = {})
    <2>1. fresh \subseteq asking.wanted
        BY <1>1
    <2> HIDE DEF fresh
    <2> QED BY <1>1, <2>1, FS_Subset, FS_CardinalityType, FS_EmptySet
<1>3. nameVersion' = nameVersion + Cardinality(fresh)
    BY DEF K!FeedNames, K!Cardinality, Cardinality
<1>4. answers' = [t \in K!Time |->
                      IF t \in DOMAIN given THEN [is |-> "found", askedAt |-> asking.since, name |-> given[t]]
                      ELSE IF t \in asking.wanted THEN K!Missed(t, asking.since)
                      ELSE answers[t]]
    BY DEF K!FeedNames
<1>5. ASSUME NEW t \in K!Time
      PROVE  /\ answers'[t] \in K!Answer \cup {NoEntry}
             /\ K!Found(t) => K!Found(t)'
             /\ t \notin fresh => (K!Found(t)' <=> K!Found(t)) /\ (K!Found(t) => answers'[t].name = answers[t].name)
    <2>1. CASE t \in DOMAIN given
        <3>1. answers'[t] = [is |-> "found", askedAt |-> asking.since, name |-> given[t]]
            BY <1>4, <2>1
        <3>2. answers'[t] \in K!Answer /\ answers'[t].is = "found" /\ answers'[t].name = given[t]
            BY <1>1, <2>1, <3>1 DEF K!Answer
        <3> QED BY <2>1, <3>2, NodesConstantsAre DEF K!Found
    <2>2. CASE t \notin DOMAIN given /\ t \in asking.wanted
        <3>1. answers'[t] = K!Missed(t, asking.since)
            BY <1>4, <2>2
        <3> QED BY <1>1, <3>1, MissedKeeps, NodesConstantsAre DEF K!Found
    <2>3. CASE t \notin asking.wanted
        BY <1>1, <1>4, <2>3 DEF K!Found, NodesTypeOK
    <2> QED BY <2>1, <2>2, <2>3
<1>6. ASSUME fresh = {} PROVE K!NodeForkMentions' = K!NodeForkMentions
    <2>1. K!Pairs' = K!Pairs /\ K!Pairs \subseteq K!Time
        BY <1>1, PairsAre DEF K!Pairs, K!Forks
    <2>2. \A t \in K!Pairs : (IF K!Found(t) THEN answers[t].name ELSE NoEntry)' = IF K!Found(t) THEN answers[t].name ELSE NoEntry
        BY <1>5, <1>6, <2>1
    <2> HIDE DEF K!Pairs, K!Found
    <2> QED BY <2>1, <2>2 DEF K!NodeForkMentions
<1>7. answers' \in [K!Time -> K!Answer \cup {NoEntry}]
    BY <1>4, <1>5
<1> HIDE DEF fresh
<1>8. VersionsTell
    BY <1>1, <1>2, <1>3, <1>6 DEF VersionsTell
<1> QED BY <1>5, <1>7, <1>8

\* Where neither schedule nor names change, neither do the forks.
LEMMA NothingNew ==
    ASSUME nodeVersion \in Nat, nameVersion \in Nat, UNCHANGED <<nodeVersion, nameVersion, answers>>,
           K!Forks(schedule)' = K!Forks(schedule)
    PROVE  K!NodeForkMentions' = K!NodeForkMentions /\ VersionsTell
<1>1. K!Pairs' = K!Pairs
    BY DEF K!Pairs, K!Forks
<1>2. K!NodeForkMentions' = K!NodeForkMentions
    <2> HIDE DEF K!Pairs
    <2> QED BY <1>1 DEF K!NodeForkMentions, K!Found
<1> QED BY <1>2 DEF VersionsTell

\* A node that was reached or not: the version moves if and only if its forks do.
LEMMA RefreshEnds ==
    ASSUME NodesTypeOK, RefreshInv, NEW r \in refreshing,
           K!NodeFails(r) \/ \E s \in Schedule : K!NodeAnswers(r, s)
    PROVE  /\ schedule' \in K!Entry \cup {NoEntry}
           /\ K!Forks(schedule) # NoEntry => K!Forks(schedule)' # NoEntry
           /\ VersionsTell /\ RefreshInv'
<1>1. /\ refreshing = {r} /\ r.known = schedule /\ r.since \in Nat /\ DOMAIN r = {"known", "asked", "since", "n"}
      /\ nodeVersion \in Nat /\ nameVersion \in Nat /\ schedule \in K!Entry \cup {NoEntry}
    BY DEF RefreshInv, NodesTypeOK
<1>2. ASSUME NEW s \in Schedule, K!NodeAnswers(r, s) PROVE schedule' \in K!Entry /\ K!Forks(schedule)' = s /\ VersionsTell /\ refreshing' = {}
    <2>1. schedule' = [forks |-> s, checkedAt |-> r.since, nextSince |-> K!NextSince(r, s)]
        BY <1>2 DEF K!NodeAnswers
    <2>2. K!NextSince(r, s) \in Nat \cup {NoEntry}
        <3>1. CASE K!NextSince(r, s) = r.since
            BY <1>1, <3>1
        <3>2. CASE K!Forks(schedule) # NoEntry /\ K!NextSince(r, s) = schedule.nextSince
            BY <1>1, <3>2 DEF K!Forks, K!Entry
        <3> QED BY <1>1, <3>1, <3>2 DEF K!NextSince
    <2>3. schedule' \in K!Entry /\ schedule'.forks = s
        BY <1>1, <2>1, <2>2 DEF K!Entry
    <2>4. K!Forks(schedule)' = s
        BY <2>3, NodesConstantsAre DEF K!Forks
    <2>5. CASE K!Forks(schedule) = s
        <3>1. UNCHANGED <<nodeVersion, nameVersion, answers>>
            BY <1>1, <1>2, <2>5 DEF K!NodeAnswers
        <3> QED BY <1>1, <1>2, <2>3, <2>4, <2>5, <3>1, NothingNew DEF K!NodeAnswers
    <2>6. CASE K!Forks(schedule) # s
        <3>1. nodeVersion' = nodeVersion + 1 /\ UNCHANGED nameVersion
            BY <1>1, <1>2, <2>6 DEF K!NodeAnswers
        <3> QED BY <1>1, <1>2, <2>3, <2>4, <3>1 DEF K!NodeAnswers, VersionsTell
    <2> QED BY <2>5, <2>6
<1>3. CASE K!NodeFails(r)
    <2>1. UNCHANGED <<nodeVersion, nameVersion, answers>>
        BY <1>3 DEF K!NodeFails
    <2>2. schedule' \in K!Entry \cup {NoEntry} /\ K!Forks(schedule)' = K!Forks(schedule)
        <3>1. CASE UNCHANGED schedule
            BY <1>1, <3>1 DEF K!Forks
        <3>2. CASE K!Forks(schedule) = NoEntry /\ schedule' = K!Unsupported(r.since)
            <4>1. schedule' \in K!Entry /\ schedule'.forks = NoEntry
                BY <1>1, <3>2 DEF K!Unsupported, K!Entry
            <4> QED BY <3>2, <4>1 DEF K!Forks
        <3>3. CASE K!Forks(schedule) # NoEntry /\ schedule' = [schedule EXCEPT !.checkedAt = r.since]
            <4>1. schedule \in K!Entry
                BY <1>1, <3>3 DEF K!Forks
            <4>2. schedule' \in K!Entry /\ schedule'.forks = schedule.forks
                BY <1>1, <3>3, <4>1 DEF K!Entry
            <4> QED BY <4>1, <4>2, NodesConstantsAre DEF K!Forks
        <3> QED BY <1>1, <1>3, <3>1, <3>2, <3>3 DEF K!NodeFails
    <2>3. RefreshInv'
        <3>1. CASE refreshing' = {}
            BY <3>1 DEF RefreshInv
        <3>2. CASE refreshing' = {[r EXCEPT !.asked = @ + 1]} /\ UNCHANGED schedule
            <4> DEFINE q == [r EXCEPT !.asked = @ + 1]
            <4>1. DOMAIN q = {"known", "asked", "since", "n"} /\ q.known = r.known /\ q.since = r.since
                BY <1>1
            <4> HIDE DEF q
            <4> QED BY <1>1, <3>2, <4>1 DEF RefreshInv, q
        <3> QED BY <1>1, <1>3, <3>1, <3>2 DEF K!NodeFails
    <2> QED BY <1>1, <2>1, <2>2, <2>3, NothingNew
<1>4. ASSUME refreshing' = {} PROVE RefreshInv'
    BY <1>4 DEF RefreshInv
<1> QED BY <1>2, <1>3, <1>4, NodesConstantsAre

\* Versions that tell keep what was built under a key current, or under an old key.
LEMMA CurrentStays ==
    ASSUME nodeVersion \in Nat, nameVersion \in Nat, VersionsTell, NEW key, NEW built, Current(key, built)
    PROVE  /\ key.nodes \in Nat /\ key.nodes <= nodeVersion'
           /\ key.names \in Nat /\ key.names <= nameVersion'
           /\ key.nodes = nodeVersion' /\ key.names = nameVersion' => built = K!NodeForkMentions'
<1>1. /\ nodeVersion' \in Nat /\ nodeVersion' >= nodeVersion /\ nameVersion' \in Nat /\ nameVersion' >= nameVersion
      /\ key.nodes \in Nat /\ key.nodes <= nodeVersion /\ key.names \in Nat /\ key.names <= nameVersion
    BY DEF VersionsTell, Current
<1>2. ASSUME key.nodes = nodeVersion', key.names = nameVersion' PROVE built = K!NodeForkMentions'
    <2>1. nodeVersion' = nodeVersion /\ nameVersion' = nameVersion
        BY <1>1, <1>2
    <2> QED BY <1>2, <2>1 DEF VersionsTell, Current
<1> QED BY <1>1, <1>2

LEMMA MemoStays ==
    ASSUME NodesTypeOK, MemoInv, VersionsTell, UNCHANGED <<memo, calls>>
    PROVE  MemoInv'
<1>1. nodeVersion \in Nat /\ nameVersion \in Nat
    BY DEF NodesTypeOK
<1>2. memo # NoEntry => Current(memo.key, memo.forks)'
    BY <1>1, CurrentStays DEF MemoInv, Current
<1>3. ASSUME NEW c \in Asker, calls[c].is = "building" PROVE Current(calls[c].key, calls[c].forks)'
    BY <1>1, <1>3, CurrentStays DEF MemoInv, Current
<1> QED BY <1>2, <1>3 DEF MemoInv

NodesInv == NodesTypeOK /\ RefreshInv /\ MemoInv

\* No step takes a schedule or a name back.
Remembers ==
    /\ K!Forks(schedule) # NoEntry => K!Forks(schedule)' # NoEntry
    /\ \A t \in K!Time : K!Found(t) => K!Found(t)'

LEMMA NodesStep == NodesInv /\ [K!Next]_forks => NodesInv' /\ Remembers
<1> SUFFICES ASSUME NodesInv, [K!Next]_forks PROVE NodesInv' /\ Remembers
    OBVIOUS
<1>a. NodesTypeOK /\ RefreshInv /\ MemoInv /\ nodeVersion \in Nat /\ nameVersion \in Nat
    BY DEF NodesInv, NodesTypeOK
<1>b. ASSUME UNCHANGED <<schedule, nodeVersion, answers, nameVersion>>
      PROVE  VersionsTell /\ Remembers /\ K!NodeForkMentions' = K!NodeForkMentions
    <2>1. K!Forks(schedule)' = K!Forks(schedule)
        BY <1>b DEF K!Forks
    <2> QED BY <1>a, <1>b, <2>1, NothingNew DEF Remembers, K!Found
<1>1. CASE K!RefreshNodeForkSchedule
    <2>1. /\ UNCHANGED <<clock, schedule, nodeVersion, answers, asking, nameVersion, memo, calls>>
          /\ refreshing' = {[known |-> schedule, asked |-> 1, since |-> clock, n |-> K!Cardinality(refreshing)]}
        BY <1>1 DEF K!RefreshNodeForkSchedule, K!MayRefresh
    <2>2. NodesTypeOK'
        BY <1>a, <2>1 DEF NodesTypeOK
    <2>3. RefreshInv'
        BY <1>a, <2>1 DEF NodesTypeOK, RefreshInv
    <2> QED BY <1>a, <1>b, <2>1, <2>2, <2>3, MemoStays DEF NodesInv
<1>2. ASSUME NEW r \in refreshing, K!NodeFails(r) \/ \E s \in Schedule : K!NodeAnswers(r, s) PROVE NodesInv' /\ Remembers
    <2>1. UNCHANGED <<clock, answers, asking, nameVersion, memo, calls>>
        BY <1>2 DEF K!NodeFails, K!NodeAnswers
    <2>2. /\ schedule' \in K!Entry \cup {NoEntry}
          /\ K!Forks(schedule) # NoEntry => K!Forks(schedule)' # NoEntry
          /\ VersionsTell /\ RefreshInv'
        BY <1>a, <1>2, RefreshEnds
    <2>3. NodesTypeOK'
        BY <1>a, <2>1, <2>2 DEF NodesTypeOK, VersionsTell
    <2>4. Remembers
        BY <2>1, <2>2 DEF Remembers, K!Found
    <2> QED BY <1>a, <2>1, <2>2, <2>3, <2>4, MemoStays DEF NodesInv
<1>3. ASSUME asking # NoEntry, NEW W \in SUBSET asking.wanted, NEW given \in [W -> Name], K!FeedNames(given)
      PROVE  NodesInv' /\ Remembers
    <2>1. UNCHANGED <<clock, schedule, nodeVersion, refreshing, memo, calls>> /\ asking' = NoEntry
        BY <1>3 DEF K!FeedNames
    <2>2. /\ answers' \in [K!Time -> K!Answer \cup {NoEntry}]
          /\ \A t \in K!Time : K!Found(t) => K!Found(t)'
          /\ VersionsTell
        BY <1>a, <1>3, NamesArrive
    <2>3. NodesTypeOK'
        BY <1>a, <2>1, <2>2 DEF NodesTypeOK, VersionsTell
    <2>4. Remembers
        BY <2>1, <2>2 DEF Remembers, K!Forks
    <2>5. RefreshInv'
        BY <1>a, <2>1 DEF RefreshInv
    <2> QED BY <1>a, <2>1, <2>2, <2>3, <2>4, <2>5, MemoStays DEF NodesInv
<1>4. ASSUME NEW c \in Asker, K!CallStarts(c) PROVE NodesInv' /\ Remembers
    <2>1. UNCHANGED <<clock, schedule, nodeVersion, refreshing, answers, nameVersion, memo>>
        BY <1>4 DEF K!CallStarts
    <2>2. calls' = [calls EXCEPT ![c] = [is |-> "asking"]]
        BY <1>4 DEF K!CallStarts
    <2>3. asking' = asking \/ (asking' = [wanted |-> K!Wanted, since |-> clock] /\ K!Wanted \subseteq K!Pairs)
        BY <1>4 DEF K!CallStarts, K!RequestForkSources, K!Wanted
    <2>4. asking' # NoEntry => asking'.wanted \in SUBSET K!Time /\ IsFiniteSet(asking'.wanted) /\ asking'.since \in Nat
        <3>1. CASE asking' = asking
            BY <1>a, <3>1 DEF NodesTypeOK
        <3>2. CASE asking' = [wanted |-> K!Wanted, since |-> clock] /\ K!Wanted \subseteq K!Pairs
            <4>1. IsFiniteSet(K!Wanted) /\ K!Wanted \subseteq K!Time
                <5> HIDE DEF K!Wanted, K!Pairs
                <5> QED BY <1>a, <3>2, PairsAre, FS_Subset
            <4>2. asking'.wanted = K!Wanted /\ asking'.since = clock
                BY <3>2
            <4> QED BY <1>a, <4>1, <4>2 DEF NodesTypeOK
        <3> QED BY <2>3, <3>1, <3>2
    <2>5. NodesTypeOK'
        BY <1>a, <2>1, <2>2, <2>4 DEF NodesTypeOK
    <2>6. MemoInv'
        BY <1>a, <1>b, <2>1, <2>2 DEF MemoInv, NodesTypeOK, Current
    <2> QED BY <1>a, <1>b, <2>1, <2>5, <2>6 DEF NodesInv, RefreshInv
<1>5. ASSUME NEW c \in Asker, NEW feeds, K!FeedsAnswer(c, feeds) PROVE NodesInv' /\ Remembers
    <2>1. UNCHANGED <<clock, schedule, nodeVersion, refreshing, answers, asking, nameVersion, memo>>
        BY <1>5 DEF K!FeedsAnswer
    <2>2. \/ calls' = [calls EXCEPT ![c] = K!Idle]
          \/ calls' = [calls EXCEPT ![c] = [is |-> "building", key |-> K!KeyWith(feeds), forks |-> K!NodeForkMentions]]
        BY <1>5 DEF K!FeedsAnswer
    <2>3. Current(K!KeyWith(feeds), K!NodeForkMentions)
        BY <1>a DEF Current, K!KeyWith
    <2>4. MemoInv'
        <3>1. CASE calls' = [calls EXCEPT ![c] = K!Idle]
            BY <1>a, <1>b, <2>1, <3>1 DEF MemoInv, NodesTypeOK, Current, K!Idle
        <3>2. CASE calls' = [calls EXCEPT ![c] = [is |-> "building", key |-> K!KeyWith(feeds), forks |-> K!NodeForkMentions]]
            BY <1>a, <1>b, <2>1, <2>3, <3>2 DEF MemoInv, NodesTypeOK, Current
        <3> QED BY <2>2, <3>1, <3>2
    <2>5. DOMAIN calls' = Asker
        BY <1>a, <2>2 DEF NodesTypeOK
    <2> QED BY <1>a, <1>b, <2>1, <2>4, <2>5 DEF NodesInv, NodesTypeOK, RefreshInv
<1>6. ASSUME NEW c \in Asker, K!FeedsFail(c) PROVE NodesInv' /\ Remembers
    <2>1. CASE K!NodeForkMentions = {}
        <3>1. calls' = [calls EXCEPT ![c] = K!Idle] /\ UNCHANGED <<clock, schedule, nodeVersion, refreshing, answers, asking, nameVersion, memo>>
            BY <1>6, <2>1 DEF K!FeedsFail
        <3>2. MemoInv'
            BY <1>a, <1>b, <3>1 DEF MemoInv, NodesTypeOK, Current, K!Idle
        <3> QED BY <1>a, <1>b, <3>1, <3>2 DEF NodesInv, NodesTypeOK, RefreshInv
    <2> QED BY <1>5, <1>6, <2>1 DEF K!FeedsFail
<1>7. ASSUME NEW c \in Asker, K!BuildEnds(c) PROVE NodesInv' /\ Remembers
    <2>1. /\ calls' = [calls EXCEPT ![c] = K!Idle] /\ memo' = [key |-> calls[c].key, forks |-> calls[c].forks]
          /\ UNCHANGED <<clock, schedule, nodeVersion, refreshing, answers, asking, nameVersion>>
        BY <1>7 DEF K!BuildEnds, K!KeyOfBuild
    <2>2. Current(calls[c].key, calls[c].forks)
        BY <1>a, <1>7 DEF K!BuildEnds, K!Building, MemoInv
    <2>3. MemoInv'
        BY <1>a, <1>b, <2>1, <2>2 DEF MemoInv, NodesTypeOK, Current, K!Idle
    <2> QED BY <1>a, <1>b, <2>1, <2>3 DEF NodesInv, NodesTypeOK, RefreshInv
<1>8. ASSUME UNCHANGED <<schedule, nodeVersion, refreshing, answers, asking, nameVersion, memo, calls>>, clock' \in Nat
      PROVE  NodesInv' /\ Remembers
    BY <1>a, <1>b, <1>8, MemoStays DEF NodesInv, NodesTypeOK, RefreshInv
<1>9. CASE K!SnapshotChanges
    BY <1>a, <1>8, <1>9 DEF K!SnapshotChanges, NodesTypeOK
<1>10. CASE K!Tick
    BY <1>a, <1>8, <1>10 DEF K!Tick, NodesTypeOK
<1>11. CASE UNCHANGED forks
    BY <1>a, <1>8, <1>11 DEF forks, NodesTypeOK
<1> QED BY <1>1, <1>2, <1>3, <1>4, <1>5, <1>6, <1>7, <1>9, <1>10, <1>11 DEF K!Next

LEMMA NodesRunAlone == ServicesSpec => K!Init /\ [][K!Next]_forks
<1>1. ServicesInit => K!Init
    BY DEF ServicesInit
<1>2. [ServicesNext]_everything => [K!Next]_forks
    BY DEF ServicesNext, everything, PricesRun, JobsRun, TurnRun, NodesRun, MetricsRun, ExplorerRun, ProxyRun,
           ListsRun, MonitorRuns, RulesRun, Over, forks
<1> QED BY <1>1, <1>2, PTL DEF ServicesSpec

LEMMA NodesBegin == K!Init => NodesInv
<1> SUFFICES ASSUME K!Init PROVE NodesInv
    OBVIOUS
<1>1. NodesTypeOK
    BY DEF K!Init, NodesTypeOK
<1>2. MemoInv /\ RefreshInv
    BY DEF K!Init, MemoInv, RefreshInv, K!Idle
<1> QED BY <1>1, <1>2 DEF NodesInv

\* What is served from a memo is what would be built now: the forks, although schedules and
\* names arrive while they are built (nodeForkSchedule.js:105, forkSource.js:38), and the
\* list of chains (queries.js:80).
THEOREM NothingStaleIsEverServed == ServicesSpec => []NothingStaleIsServed
<1>1. NodesInv => K!MemoIsCurrent
    BY DEF NodesInv, MemoInv, Current, K!MemoIsCurrent, K!KeyWith
<1>2. K!MemoIsCurrent /\ Q!ListsAreCurrent => NothingStaleIsServed
    BY DEF NothingStaleIsServed
<1> QED BY <1>1, <1>2, NodesBegin, NodesStep, NodesRunAlone, ListsStayCurrent, PTL

\* No failure of a node, of the feed of names or of growthepie takes back what was known
\* (nodeForkSchedule.js:97, forkSource.js:103, growthepie.js:345).
THEOREM WhatIsKnownAlwaysStays == ServicesSpec => WhatIsKnownStays
<1>1. NodesInv /\ [K!Next]_forks => [Remembers]_forks
    BY NodesStep
<1>2. [Remembers]_forks =>
          [/\ K!Forks(schedule) # NoEntry => K!Forks(schedule') # NoEntry
           /\ \A t \in K!Time : K!Found(t) => K!Found(t)']_(K!vars)
    BY DEF Remembers, forks, K!vars, K!Forks
<1> QED BY <1>1, <1>2, NodesBegin, NodesStep, NodesRunAlone, CopiesStay, PTL DEF WhatIsKnownStays, K!KnowledgeStays

-----------------------------------------------------------------------------
(* What a search finds, and in which order                                 *)

ChainRecord ==
    [id : Nat, deprecated : BOOLEAN, testnet : BOOLEAN,
     is : SUBSET STRING, alias : SUBSET STRING, carries : SUBSET STRING]

LEMMA ListIs ==
    /\ Len(ChainList) \in Nat /\ DOMAIN ChainList = 1 .. Len(ChainList)
    /\ \A n \in DOMAIN ChainList : ChainList[n].deprecated \in BOOLEAN
<1>1. ChainList \in Seq(ChainRecord)
    BY ServicesAssumption DEF Q!SearchAssumption, ChainRecord
<1>2. Len(ChainList) \in Nat /\ DOMAIN ChainList = 1 .. Len(ChainList)
      /\ \A n \in DOMAIN ChainList : ChainList[n] \in ChainRecord
    BY <1>1
<1> QED BY <1>2 DEF ChainRecord

LEMMA FirstPassIs ==
    ASSUME NEW q, NEW n \in Q!Hits(q)
    PROVE  /\ Q!FirstPass(q, n) \in 1 .. 7
           /\ Q!Finds(q, Q!FirstPass(q, n), ChainList[n])
           /\ \A pass \in 1 .. 7 : Q!Finds(q, pass, ChainList[n]) => Q!FirstPass(q, n) <= pass
<1> DEFINE S == {pass \in 1 .. 7 : Q!Finds(q, pass, ChainList[n])}
<1>1. S \in SUBSET Int /\ S # {}
    BY DEF Q!Hits
<1>2. IsFiniteSet(S)
    <2>1. IsFiniteSet(1 .. 7)
        BY FS_Interval, 1 \in Int, 7 \in Int
    <2>2. S \in SUBSET (1 .. 7)
        OBVIOUS
    <2> HIDE DEF S
    <2> QED BY <2>1, <2>2, FS_Subset
<1>3. \E m \in S : \A x \in S : m <= x
    <2> HIDE DEF S
    <2> QED BY <1>1, <1>2, FiniteHasLeast
<1>4. Q!Min(S) \in S /\ \A x \in S : Q!Min(S) <= x
    BY <1>3 DEF Q!Min
<1>5. Q!FirstPass(q, n) = Q!Min(S)
    BY DEF Q!FirstPass
<1> HIDE DEF S
<1>6. \A m : m = Q!Min(S) => m \in S /\ \A x \in S : m <= x
    BY <1>4
<1>7. Q!FirstPass(q, n) \in S /\ \A x \in S : Q!FirstPass(q, n) <= x
    BY <1>5, <1>6
<1> QED BY <1>7 DEF S

\* A place in what is found is that of a chain that so many others of it are above.
LEMMA RankedByPass ==
    ASSUME NEW q, NEW i \in DOMAIN Q!Ranked(q), NEW j \in DOMAIN Q!Ranked(q)
    PROVE  \E m, n \in Q!Hits(q) :
              /\ Q!Ranked(q)[i] = ChainList[m] /\ Q!Ranked(q)[j] = ChainList[n]
              /\ Q!Above(q, m, n) => i < j
<1> DEFINE S == Q!Hits(q)
           R == {p \in S \X S : Q!Above(q, p[1], p[2])}
           Pick(k) == CHOOSE n \in S : Cardinality({m \in S : Q!Above(q, m, n)}) = k - 1
<1>2. IsFiniteSet(S) /\ S \subseteq Nat
    <2>1. Len(ChainList) \in Nat /\ DOMAIN ChainList = 1 .. Len(ChainList)
        BY ListIs
    <2>2. IsFiniteSet(1 .. Len(ChainList)) /\ S \in SUBSET (1 .. Len(ChainList))
        BY <2>1, FS_Interval DEF Q!Hits
    <2> HIDE DEF S
    <2>3. IsFiniteSet(S)
        BY <2>2, FS_Subset
    <2> QED BY <2>1, <2>2, <2>3
<1>3. \A n \in S : ChainList[n].deprecated \in BOOLEAN /\ Q!FirstPass(q, n) \in Nat
    <2>1. ASSUME NEW n \in S PROVE ChainList[n].deprecated \in BOOLEAN /\ Q!FirstPass(q, n) \in Nat
        <3>1. ChainList[n].deprecated \in BOOLEAN
            BY ListIs DEF Q!Hits
        <3>2. Q!FirstPass(q, n) \in Nat
            BY FirstPassIs
        <3> QED BY <3>1, <3>2
    <2> QED BY <2>1
<1>4. /\ \A x \in S : <<x, x>> \notin R
      /\ \A x, y \in S : x = y \/ <<x, y>> \in R \/ <<y, x>> \in R
      /\ \A x, y, z \in S : <<x, y>> \in R /\ <<y, z>> \in R => <<x, z>> \in R
    <2> HIDE DEF S
    <2> QED BY <1>2, <1>3 DEF Q!Above
<1>5. \A n \in S : Below(S, R, n) = {m \in S : Q!Above(q, m, n)}
    BY DEF Below
<1>6. /\ Cardinality(S) \in Nat
      /\ \A m, n \in S : Q!Above(q, m, n) =>
            Cardinality({x \in S : Q!Above(q, x, m)}) < Cardinality({x \in S : Q!Above(q, x, n)})
      /\ \A k \in 1 .. Cardinality(S) : \E n \in S : Cardinality({m \in S : Q!Above(q, m, n)}) = k - 1
    <2>1. /\ Cardinality(S) \in Nat
          /\ \A m, n \in S : <<m, n>> \in R => Cardinality(Below(S, R, m)) < Cardinality(Below(S, R, n))
          /\ \A k \in 1 .. Cardinality(S) : \E n \in S : Cardinality(Below(S, R, n)) = k - 1
        <3> HIDE DEF R, S
        <3> QED BY <1>2, <1>4, EveryRankIsTaken
    <2>2. \A m, n \in S : <<m, n>> \in R <=> Q!Above(q, m, n)
        OBVIOUS
    <2> HIDE DEF R, S
    <2> QED BY <1>5, <2>1, <2>2
<1>7. \A k \in 1 .. Cardinality(S) : Pick(k) \in S /\ Cardinality({x \in S : Q!Above(q, x, Pick(k))}) = k - 1
    BY <1>6
<1>8. i \in 1 .. Cardinality(S) /\ j \in 1 .. Cardinality(S)
      /\ Q!Ranked(q)[i] = ChainList[Pick(i)] /\ Q!Ranked(q)[j] = ChainList[Pick(j)]
    <2>1. Q!Ranked(q) = [k \in 1 .. Cardinality(S) |-> ChainList[Pick(k)]]
        BY DEF Q!Ranked, Q!Cardinality, Cardinality
    <2> HIDE DEF Pick, S
    <2> QED BY <2>1
<1> HIDE DEF Pick, S
<1>9. Q!Above(q, Pick(i), Pick(j)) => i < j
    <2> SUFFICES ASSUME Q!Above(q, Pick(i), Pick(j)) PROVE i < j
        OBVIOUS
    <2>1. Cardinality({x \in S : Q!Above(q, x, Pick(i))}) < Cardinality({x \in S : Q!Above(q, x, Pick(j))})
        BY <1>6, <1>7, <1>8
    <2>2. i - 1 < j - 1
        BY <1>7, <1>8, <2>1
    <2> QED BY <1>6, <1>8, <2>2
<1> QED BY <1>7, <1>8, <1>9 DEF S

LEMMA NamedComesFirst ==
    ASSUME NEW q \in Query, NEW c, NEW d, NEW m \in Q!Hits(q), NEW n \in Q!Hits(q),
           c = ChainList[m], d = ChainList[n],
           q.needle \in c.is \cup c.alias /\ (q.kind # NoEntry => Q!Eligible(c, q)),
           ~(q.needle \in d.is \cup d.alias /\ (q.kind # NoEntry => Q!Eligible(d, q))),
           d.id # q.number, q.text \notin d.is \cup d.alias, ~c.deprecated
    PROVE  Q!Above(q, m, n)
<1>1. q.kind = NoEntry => q.needle = q.text
    BY ServicesAssumption DEF Q!SearchAssumption
<1>2. Q!FirstPass(q, m) \in 1 .. 7 /\ Q!FirstPass(q, n) \in 1 .. 7
    BY FirstPassIs
<1>3. Q!Finds(q, Q!FirstPass(q, n), d) /\ \A pass \in 1 .. 7 : Q!Finds(q, pass, c) => Q!FirstPass(q, m) <= pass
    BY FirstPassIs
<1>4. Q!FirstPass(q, m) < Q!FirstPass(q, n)
    <2>1. CASE q.kind = NoEntry
        <3>1. Q!FirstPass(q, n) = 7
            BY <1>1, <1>2, <1>3, <2>1 DEF Q!Finds
        <3>2. Q!Finds(q, 2, c) \/ Q!Finds(q, 3, c)
            BY <1>1, <2>1 DEF Q!Finds
        <3> QED BY <1>2, <1>3, <3>1, <3>2
    <2>2. CASE q.kind # NoEntry
        <3>1. Q!FirstPass(q, n) \in {6, 7}
            BY <1>2, <1>3, <2>2 DEF Q!Finds
        <3>2. Q!Finds(q, 4, c) \/ Q!Finds(q, 5, c)
            BY <2>2 DEF Q!Finds
        <3> QED BY <1>2, <1>3, <3>1, <3>2
    <2> QED BY <2>1, <2>2
<1>5. d.deprecated \in BOOLEAN
    BY ListIs DEF Q!Hits
<1> QED BY <1>4, <1>5 DEF Q!Above

\* hits is what was found of the query it says.
SearchInv == hits # NoEntry => hits.query \in Query /\ hits.chains = Q!Ranked(hits.query)

LEMMA SearchInvStep == SearchInv /\ [Q!Next]_lists => SearchInv'
<1> SUFFICES ASSUME SearchInv, [Q!Next]_lists PROVE SearchInv'
    OBVIOUS
<1>1. ASSUME UNCHANGED hits PROVE SearchInv'
    <2>1. \A q : Q!Ranked(q)' = Q!Ranked(q)
        BY DEF Q!Ranked, Q!Hits, Q!Above, Q!FirstPass, Q!Finds, Q!Eligible
    <2> QED BY <1>1, <2>1 DEF SearchInv
<1>2. ASSUME NEW q \in Query, Q!SearchChains(q) PROVE SearchInv'
    <2>1. hits'.query = q /\ hits'.chains = Q!Ranked(q)
        BY <1>2 DEF Q!SearchChains
    <2> QED BY <2>1 DEF SearchInv
<1>3. CASE Q!LoadEnds \/ Q!L2BeatBatchEnds \/ Q!Tick \/ Q!GetAllChains \/ UNCHANGED lists
    BY <1>1, <1>3 DEF Q!LoadEnds, Q!L2BeatBatchEnds, Q!Tick, Q!GetAllChains, lists
<1> QED BY <1>2, <1>3 DEF Q!Next

LEMMA NamedAreFoundFirst == SearchInv => Q!NamedIsAboveLookalikes
<1> SUFFICES ASSUME SearchInv, hits # NoEntry PROVE Q!NamedIsAboveLookalikes
    BY DEF Q!NamedIsAboveLookalikes
<1> DEFINE q == hits.query
           Named_(c) == q.needle \in c.is \cup c.alias /\ (q.kind # NoEntry => Q!Eligible(c, q))
           Lookalike(c) == ~Named_(c) /\ c.id # q.number /\ q.text \notin c.is \cup c.alias
<1>1. q \in Query /\ hits.chains = Q!Ranked(q)
    BY DEF SearchInv
<1>2. ASSUME NEW i \in DOMAIN hits.chains, NEW j \in DOMAIN hits.chains,
             Named_(hits.chains[i]), Lookalike(hits.chains[j]), ~hits.chains[i].deprecated
      PROVE  i < j
    <2>1. PICK m \in Q!Hits(q), n \in Q!Hits(q) :
              /\ hits.chains[i] = ChainList[m] /\ hits.chains[j] = ChainList[n]
              /\ Q!Above(q, m, n) => i < j
        BY <1>1, RankedByPass
    <2>2. Q!Above(q, m, n)
        BY <1>1, <1>2, <2>1, NamedComesFirst
    <2> QED BY <2>1, <2>2
<1> QED BY <1>2 DEF Q!NamedIsAboveLookalikes

-----------------------------------------------------------------------------
(* The responses that the proxy keeps                                      *)

CacheEntry == [url : Feed, fetchedAt : Nat, bytes : Nat]

LEMMA SumStep ==
    ASSUME NEW s, Len(s) \in Nat
    PROVE  /\ F!BytesUpTo(s, 0) = 0
           /\ \A i \in 1 .. Len(s) : F!BytesUpTo(s, i) = F!BytesUpTo(s, i - 1) + s[i].bytes
<1> DEFINE Is(f, k) == f = [i \in 0 .. k |-> IF i = 0 THEN 0 ELSE f[i - 1] + s[i].bytes]
           S == {k \in 0 .. Len(s) : \E f : Is(f, k)}
<1>1. 0 \in S
    <2>1. Is([i \in 0 .. 0 |-> 0], 0)
        OBVIOUS
    <2>2. \E f : Is(f, 0)
        BY <2>1
    <2> QED BY <2>2
<1>2. ASSUME NEW k \in 0 .. Len(s) - 1, k \in S PROVE k + 1 \in S
    <2>1. PICK f : Is(f, k)
        BY <1>2
    <2> DEFINE g == [i \in 0 .. (k + 1) |-> IF i = k + 1 THEN f[k] + s[k + 1].bytes ELSE f[i]]
    <2>2. ASSUME NEW i \in 0 .. (k + 1) PROVE g[i] = IF i = 0 THEN 0 ELSE g[i - 1] + s[i].bytes
        <3>1. CASE i = k + 1
            BY <3>1
        <3>2. CASE i # k + 1
            <4>1. i \in 0 .. k /\ (i # 0 => i - 1 \in 0 .. k)
                BY <3>2
            <4>2. f[i] = IF i = 0 THEN 0 ELSE f[i - 1] + s[i].bytes
                BY <2>1, <4>1
            <4> QED BY <3>2, <4>1, <4>2
        <3> QED BY <3>1, <3>2
    <2>3. Is(g, k + 1)
        BY <2>2
    <2> HIDE DEF g
    <2> QED BY <2>3
<1>3. Len(s) \in S
    <2>1. \A k \in 0 .. Len(s) : k \in S
        <3> HIDE DEF S
        <3> QED BY <1>1, <1>2, EachUpTo
    <2> HIDE DEF S
    <2> QED BY <2>1
<1> DEFINE upTo == CHOOSE f : Is(f, Len(s))
<1>4. Is(upTo, Len(s))
    BY <1>3
<1>5. \A i : F!BytesUpTo(s, i) = upTo[i]
    BY DEF F!BytesUpTo
<1> HIDE DEF upTo
<1>6. upTo[0] = 0 /\ \A i \in 1 .. Len(s) : upTo[i] = upTo[i - 1] + s[i].bytes
    BY <1>4
<1> QED BY <1>5, <1>6

LEMMA SumsAreNumbers ==
    ASSUME NEW s \in Seq(CacheEntry)
    PROVE  \A i \in 0 .. Len(s) : F!BytesUpTo(s, i) \in Nat
<1> DEFINE S == {i \in 0 .. Len(s) : F!BytesUpTo(s, i) \in Nat}
<1>1. 0 \in S
    BY SumStep
<1>2. ASSUME NEW i \in 0 .. Len(s) - 1, i \in S PROVE i + 1 \in S
    <2>0. i + 1 \in 1 .. Len(s) /\ Len(s) \in Nat /\ i + 1 - 1 = i /\ i + 1 \in 0 .. Len(s)
        OBVIOUS
    <2>1. s[i + 1].bytes \in Nat
        <3>1. s[i + 1] \in CacheEntry
            BY <2>0
        <3> QED BY <3>1 DEF CacheEntry
    <2>2. F!BytesUpTo(s, i + 1) = F!BytesUpTo(s, i + 1 - 1) + s[i + 1].bytes
        BY <2>0, SumStep
    <2> QED BY <1>2, <2>0, <2>1, <2>2
<1>3. \A i \in 0 .. Len(s) : i \in S
    <2> HIDE DEF S
    <2> QED BY <1>1, <1>2, EachUpTo
<1> QED BY <1>3

\* The place after the first i of a stretch that begins behind a.
LEMMA NextPlace ==
    ASSUME NEW a \in Nat, NEW i \in Nat, NEW m \in Nat, NEW n \in Nat, i + 1 <= m, a + m <= n
    PROVE  a + i + 1 \in 1 .. n /\ a + i + 1 - 1 = a + i /\ a + i + 1 = a + (i + 1)
OBVIOUS

\* Stretches of the same bytes have the same sum, wherever they lie.
LEMMA SameStretchSameSum ==
    ASSUME NEW s \in Seq(CacheEntry), NEW t \in Seq(CacheEntry), NEW a \in Nat, NEW b \in Nat, NEW m \in Nat,
           a + m <= Len(s), b + m <= Len(t), \A j \in 1 .. m : s[a + j] = t[b + j]
    PROVE  F!BytesUpTo(s, a + m) - F!BytesUpTo(s, a) = F!BytesUpTo(t, b + m) - F!BytesUpTo(t, b)
<1> DEFINE S == {j \in 0 .. m : F!BytesUpTo(s, a + j) - F!BytesUpTo(s, a) = F!BytesUpTo(t, b + j) - F!BytesUpTo(t, b)}
<1>1. \A i \in 0 .. m : F!BytesUpTo(s, a + i) \in Nat /\ F!BytesUpTo(t, b + i) \in Nat
    <2>1. \A i \in 0 .. m : a + i \in 0 .. Len(s) /\ b + i \in 0 .. Len(t)
        OBVIOUS
    <2> QED BY <2>1, SumsAreNumbers
<1>0. F!BytesUpTo(s, a) \in Nat /\ F!BytesUpTo(t, b) \in Nat
    <2>1. a \in 0 .. Len(s) /\ b \in 0 .. Len(t)
        OBVIOUS
    <2> QED BY <2>1, SumsAreNumbers
<1>2. 0 \in S
    <2>1. a + 0 = a /\ b + 0 = b
        OBVIOUS
    <2> QED BY <1>0, <2>1
<1>3. ASSUME NEW i \in 0 .. m - 1, i \in S PROVE i + 1 \in S
    <2>0. Len(s) \in Nat /\ Len(t) \in Nat /\ i \in Nat /\ i + 1 <= m
        OBVIOUS
    <2>1. /\ a + i + 1 \in 1 .. Len(s) /\ b + i + 1 \in 1 .. Len(t) /\ i + 1 \in 1 .. m /\ i + 1 \in 0 .. m
          /\ a + i + 1 - 1 = a + i /\ b + i + 1 - 1 = b + i /\ a + i + 1 = a + (i + 1) /\ b + i + 1 = b + (i + 1)
        <3> HIDE DEF S
        <3>1. i + 1 \in 1 .. m /\ i + 1 \in 0 .. m
            BY <2>0
        <3>2. a + i + 1 \in 1 .. Len(s) /\ a + i + 1 - 1 = a + i /\ a + i + 1 = a + (i + 1)
            BY <2>0, NextPlace
        <3>3. b + i + 1 \in 1 .. Len(t) /\ b + i + 1 - 1 = b + i /\ b + i + 1 = b + (i + 1)
            BY <2>0, NextPlace
        <3> QED BY <3>1, <3>2, <3>3
    <2>2. s[a + i + 1].bytes \in Nat /\ t[b + i + 1].bytes = s[a + i + 1].bytes
        <3>1. s[a + i + 1] \in CacheEntry
            BY <2>1
        <3>2. s[a + (i + 1)] = t[b + (i + 1)]
            BY <2>1
        <3> QED BY <2>1, <3>1, <3>2 DEF CacheEntry
    <2>3. F!BytesUpTo(s, a + i + 1) = F!BytesUpTo(s, a + i) + s[a + i + 1].bytes
        BY <2>1, SumStep
    <2>4. F!BytesUpTo(t, b + i + 1) = F!BytesUpTo(t, b + i) + t[b + i + 1].bytes
        BY <2>1, SumStep
    <2>5. F!BytesUpTo(s, a + i) \in Nat /\ F!BytesUpTo(t, b + i) \in Nat
        BY <1>1
    <2>6. F!BytesUpTo(s, a + i) - F!BytesUpTo(s, a) = F!BytesUpTo(t, b + i) - F!BytesUpTo(t, b)
        BY <1>3
    <2>7. F!BytesUpTo(s, a + (i + 1)) - F!BytesUpTo(s, a) = F!BytesUpTo(t, b + (i + 1)) - F!BytesUpTo(t, b)
        <3>1. F!BytesUpTo(s, a + (i + 1)) = F!BytesUpTo(s, a + i) + s[a + i + 1].bytes
            BY <2>1, <2>3
        <3>2. F!BytesUpTo(t, b + (i + 1)) = F!BytesUpTo(t, b + i) + s[a + i + 1].bytes
            BY <2>1, <2>2, <2>4
        <3>4. /\ F!BytesUpTo(s, a + i) \in Nat /\ F!BytesUpTo(s, a) \in Nat /\ F!BytesUpTo(t, b + i) \in Nat
              /\ F!BytesUpTo(t, b) \in Nat /\ s[a + i + 1].bytes \in Nat
            BY <1>0, <2>2, <2>5
        <3>5. (F!BytesUpTo(s, a + i) + s[a + i + 1].bytes) - F!BytesUpTo(s, a)
                = (F!BytesUpTo(t, b + i) + s[a + i + 1].bytes) - F!BytesUpTo(t, b)
            <4> DEFINE v == F!BytesUpTo(s, a + i)
                       w == F!BytesUpTo(s, a)
                       x == F!BytesUpTo(t, b + i)
                       y == F!BytesUpTo(t, b)
                       d == s[a + i + 1].bytes
            <4>1. v \in Nat /\ w \in Nat /\ x \in Nat /\ y \in Nat /\ d \in Nat /\ v - w = x - y
                BY <2>6, <3>4
            <4> HIDE DEF v, w, x, y, d
            <4>2. (v + d) - w = (x + d) - y
                BY <4>1
            <4> QED BY <4>2 DEF v, w, x, y, d
        <3> QED BY <3>1, <3>2, <3>5
    <2> QED BY <2>1, <2>7
<1>4. \A i \in 0 .. m : i \in S
    <2> HIDE DEF S
    <2> QED BY <1>2, <1>3, EachUpTo
<1>5. m \in S
    <2> HIDE DEF S
    <2> QED BY <1>4
<1> QED BY <1>5

\* Entries a + 1 .. e of s are entries b + 1 .. f of t.
Stretch(s, a, e, t, b, f) ==
    /\ s \in Seq(CacheEntry) /\ t \in Seq(CacheEntry) /\ {a, b, e, f} \subseteq Nat
    /\ a <= e /\ e <= Len(s) /\ f <= Len(t) /\ e - a = f - b
    /\ \A i \in a + 1 .. e, j \in b + 1 .. f : i - a = j - b => s[i] = t[j]

LEMMA StretchSum ==
    ASSUME NEW s, NEW t, NEW a, NEW b, NEW e, NEW f, Stretch(s, a, e, t, b, f)
    PROVE  F!BytesUpTo(s, e) - F!BytesUpTo(s, a) = F!BytesUpTo(t, f) - F!BytesUpTo(t, b)
<1>0. /\ s \in Seq(CacheEntry) /\ t \in Seq(CacheEntry) /\ a \in Nat /\ b \in Nat /\ e \in Nat /\ f \in Nat
      /\ a <= e /\ e <= Len(s) /\ f <= Len(t) /\ e - a = f - b
      /\ \A i \in a + 1 .. e, j \in b + 1 .. f : i - a = j - b => s[i] = t[j]
    BY DEF Stretch
<1> DEFINE m == e - a
<1>1. m \in Nat /\ a + m = e /\ b + m = f
    BY <1>0
<1>2. \A j \in 1 .. m : s[a + j] = t[b + j]
    <2> SUFFICES ASSUME NEW j \in 1 .. m PROVE s[a + j] = t[b + j]
        OBVIOUS
    <2>1. a + j \in a + 1 .. e /\ b + j \in b + 1 .. f /\ (a + j) - a = (b + j) - b
        BY <1>0, <1>1
    <2> QED BY <1>0, <2>1
<1> HIDE DEF m
<1>3. a + m <= Len(s) /\ b + m <= Len(t)
    BY <1>0, <1>1
<1>4. F!BytesUpTo(s, a + m) - F!BytesUpTo(s, a) = F!BytesUpTo(t, b + m) - F!BytesUpTo(t, b)
    BY <1>0, <1>1, <1>2, <1>3, SameStretchSameSum
<1> QED BY <1>1, <1>4

CacheInv ==
    /\ minute \in Nat /\ kept \in Seq(CacheEntry)
    /\ cacheBytes = F!BytesOf(kept)
    /\ Len(kept) > 1 => Len(kept) <= MaxKeys /\ cacheBytes <= MaxBytes
    /\ \A i, j \in DOMAIN kept : i < j => kept[i].url # kept[j].url /\ kept[i].fetchedAt <= kept[j].fetchedAt
    /\ \A i \in DOMAIN kept : kept[i].fetchedAt <= minute
    /\ \A r \in reads : r.url \in Feed

\* What is left of the cache without the body of a URL, and its bytes.
Others(u) == IF F!IsKept(u) THEN F!RemoveAt(kept, F!Place(u)) ELSE kept

LEMMA OthersAre ==
    ASSUME CacheInv, NEW u \in Feed
    PROVE  /\ Others(u) \in Seq(CacheEntry)
           /\ F!BytesOf(Others(u)) = cacheBytes - F!PriorBytes(u)
           /\ \A i, j \in DOMAIN Others(u) :
                 i < j => Others(u)[i].url # Others(u)[j].url /\ Others(u)[i].fetchedAt <= Others(u)[j].fetchedAt
           /\ \A i \in DOMAIN Others(u) : Others(u)[i].fetchedAt <= minute /\ Others(u)[i].url # u
<1>1. kept \in Seq(CacheEntry) /\ cacheBytes = F!BytesOf(kept)
    BY DEF CacheInv
<1>2. NoEntry \notin CacheEntry
    BY ServicesAssumption DEF F!CacheAssumption, CacheEntry
<1>3. \A i \in 0 .. Len(kept) : F!BytesUpTo(kept, i) \in Nat
    BY <1>1, SumsAreNumbers
<1>4. Len(kept) \in Nat /\ DOMAIN kept = 1 .. Len(kept) /\ \A i \in DOMAIN kept : kept[i] \in CacheEntry
    BY <1>1
<1>5. CASE ~F!IsKept(u)
    <2>1. Others(u) = kept /\ F!PriorBytes(u) = 0
        BY <1>5 DEF Others, F!PriorBytes, F!Hit
    <2>2. F!BytesOf(kept) \in Nat
        BY <1>3, <1>4 DEF F!BytesOf
    <2>3. \A i \in DOMAIN kept : kept[i].url # u
        BY <1>5 DEF F!IsKept
    <2> QED BY <1>1, <2>1, <2>2, <2>3 DEF CacheInv
<1>6. CASE F!IsKept(u)
    <2> DEFINE p == F!Place(u)
               s == F!RemoveAt(kept, p)
               L == Len(kept)
    <2>1. p \in 1 .. L /\ kept[p].url = u
        BY <1>4, <1>6 DEF F!IsKept, F!Place
    <2>2. F!Hit(u) = kept[p]
        BY <1>6 DEF F!Hit
    <2> HIDE DEF p
    <2>3. kept[p] \in CacheEntry /\ F!PriorBytes(u) = kept[p].bytes
        BY <1>2, <1>4, <2>1, <2>2 DEF F!PriorBytes
    <2>4. /\ s \in Seq(CacheEntry) /\ Len(s) = L - 1
          /\ \A j \in 1 .. p - 1 : s[j] = kept[j]
          /\ \A j \in p .. L - 1 : s[j] = kept[j + 1]
        <3>1. s = SubSeq(kept, 1, p - 1) \o SubSeq(kept, p + 1, L)
            BY DEF F!RemoveAt
        <3>2. SubSeq(kept, 1, p - 1) \in Seq(CacheEntry) /\ Len(SubSeq(kept, 1, p - 1)) = p - 1
              /\ \A j \in 1 .. p - 1 : SubSeq(kept, 1, p - 1)[j] = kept[j]
            BY <1>1, <1>4, <2>1
        <3>3. SubSeq(kept, p + 1, L) \in Seq(CacheEntry) /\ Len(SubSeq(kept, p + 1, L)) = L - p
              /\ \A j \in 1 .. L - p : SubSeq(kept, p + 1, L)[j] = kept[p + j]
            <4>1. SubSeq(kept, p + 1, L) = [j \in 1 .. L - p |-> kept[p + j]]
                <5>1. \A j \in 1 .. L - p : j + (p + 1) - 1 = p + j
                    BY <1>4, <2>1
                <5>2. 1 + L - (p + 1) = L - p
                    BY <1>4, <2>1
                <5>3. SubSeq(kept, p + 1, L) = [j \in 1 .. 1 + L - (p + 1) |-> kept[j + (p + 1) - 1]]
                    BY <1>1, <1>4, <2>1
                <5> QED BY <5>1, <5>2, <5>3
            <4>2. \A j \in 1 .. L - p : kept[p + j] \in CacheEntry
                <5>1. \A j \in 1 .. L - p : p + j \in 1 .. L
                    BY <1>4, <2>1
                <5> QED BY <1>4, <5>1
            <4>3. L - p \in Nat
                BY <1>4, <2>1
            <4> DEFINE m == L - p
                       g == [j \in 1 .. m |-> kept[p + j]]
            <4>4. m \in Nat /\ \A j \in 1 .. m : kept[p + j] \in CacheEntry
                BY <4>2, <4>3
            <4> HIDE DEF m
            <4>5. g \in Seq(CacheEntry) /\ Len(g) = m /\ \A j \in 1 .. m : g[j] = kept[p + j]
                BY <4>4
            <4>6. SubSeq(kept, p + 1, L) = g
                BY <4>1 DEF m
            <4> HIDE DEF g
            <4> QED BY <4>5, <4>6 DEF m
        <3> DEFINE front == SubSeq(kept, 1, p - 1)
                   back == SubSeq(kept, p + 1, L)
        <3> HIDE DEF front, back, s
        <3>4. s = front \o back /\ front \in Seq(CacheEntry) /\ back \in Seq(CacheEntry) /\ Len(front) = p - 1 /\ Len(back) = L - p
              /\ (\A j \in 1 .. p - 1 : front[j] = kept[j]) /\ (\A j \in 1 .. L - p : back[j] = kept[p + j])
            BY <3>1, <3>2, <3>3 DEF front, back
        <3>5. s \in Seq(CacheEntry) /\ Len(s) = L - 1
            <4>0. s = front \o back /\ front \in Seq(CacheEntry) /\ back \in Seq(CacheEntry)
                BY <3>4
            <4>1. s \in Seq(CacheEntry) /\ Len(s) = Len(front) + Len(back)
                BY <4>0
            <4> QED BY <1>4, <2>1, <3>4, <4>1
        <3>6. \A j \in 1 .. p - 1 : s[j] = kept[j]
            BY <1>4, <2>1, <3>4
        <3>7. \A j \in p .. L - 1 : s[j] = kept[j + 1]
            <4> SUFFICES ASSUME NEW j \in p .. L - 1 PROVE s[j] = kept[j + 1]
                OBVIOUS
            <4>1. j - (p - 1) \in 1 .. L - p /\ p + (j - (p - 1)) = j + 1 /\ j > p - 1 /\ j \in 1 .. (p - 1) + (L - p)
                BY <1>4, <2>1
            <4>2. s[j] = back[j - (p - 1)]
                BY <1>4, <2>1, <3>4, <4>1
            <4> QED BY <3>4, <4>1, <4>2
        <3> QED BY <3>5, <3>6, <3>7
    <2> HIDE DEF s
    <2>5. \A j \in 1 .. L - 1 : \E k \in 1 .. L : s[j] = kept[k] /\ k # p /\ k = IF j < p THEN j ELSE j + 1
        BY <1>4, <2>1, <2>4
    <2>6. F!BytesUpTo(s, p - 1) = F!BytesUpTo(kept, p - 1)
        <3>1. 0 + (p - 1) = p - 1 /\ p - 1 \in Nat /\ p - 1 <= Len(s) /\ p - 1 <= Len(kept) /\ p - 1 \in 0 .. Len(s) /\ p - 1 \in 0 .. L
            BY <1>4, <2>1, <2>4
        <3>2. \A j \in 1 .. p - 1 : s[0 + j] = kept[0 + j]
            BY <1>4, <2>1, <2>4
        <3>3. F!BytesUpTo(s, 0 + (p - 1)) - F!BytesUpTo(s, 0) = F!BytesUpTo(kept, 0 + (p - 1)) - F!BytesUpTo(kept, 0)
            <4> DEFINE m == p - 1
            <4>1. m \in Nat /\ 0 \in Nat /\ 0 + m <= Len(s) /\ 0 + m <= Len(kept) /\ \A j \in 1 .. m : s[0 + j] = kept[0 + j]
                BY <3>1, <3>2
            <4> HIDE DEF m
            <4>2. F!BytesUpTo(s, 0 + m) - F!BytesUpTo(s, 0) = F!BytesUpTo(kept, 0 + m) - F!BytesUpTo(kept, 0)
                BY <1>1, <2>4, <4>1, SameStretchSameSum
            <4> QED BY <4>2 DEF m
        <3>4. F!BytesUpTo(s, 0) = 0 /\ F!BytesUpTo(kept, 0) = 0
            BY <1>4, <2>4, SumStep
        <3>5. F!BytesUpTo(s, p - 1) \in Nat /\ F!BytesUpTo(kept, p - 1) \in Nat
            BY <1>3, <2>4, <3>1, SumsAreNumbers
        <3> QED BY <3>1, <3>3, <3>4, <3>5
    <2>7. F!BytesUpTo(s, L - 1) - F!BytesUpTo(s, p - 1) = F!BytesUpTo(kept, L) - F!BytesUpTo(kept, p)
        <3> DEFINE a == p - 1
                   e == L - 1
        <3>1. a \in Nat /\ e \in Nat /\ p \in Nat /\ L \in Nat /\ a <= e /\ e <= Len(s) /\ e - a = L - p /\ L <= Len(kept)
            BY <1>4, <2>1, <2>4
        <3>2. \A i \in a + 1 .. e, j \in p + 1 .. L : i - a = j - p => s[i] = kept[j]
            <4> SUFFICES ASSUME NEW i \in a + 1 .. e, NEW j \in p + 1 .. L, i - a = j - p PROVE s[i] = kept[j]
                OBVIOUS
            <4>1. i \in p .. L - 1 /\ j = i + 1
                BY <1>4, <2>1
            <4> QED BY <2>4, <4>1
        <3>3. kept \in Seq(CacheEntry) /\ s \in Seq(CacheEntry)
            BY <1>1, <2>4
        <3> HIDE DEF a, e, L
        <3>5. Stretch(s, a, e, kept, p, L)
            BY <3>1, <3>2, <3>3 DEF Stretch
        <3>4. F!BytesUpTo(s, e) - F!BytesUpTo(s, a) = F!BytesUpTo(kept, L) - F!BytesUpTo(kept, p)
            BY <3>5, StretchSum
        <3> QED BY <3>4 DEF a, e, L
    <2>8. F!BytesUpTo(kept, p) = F!BytesUpTo(kept, p - 1) + kept[p].bytes
        BY <1>4, <2>1, SumStep
    <2>9. F!BytesOf(s) = cacheBytes - F!PriorBytes(u)
        <3>1. p \in 0 .. L /\ p - 1 \in 0 .. L /\ L \in 0 .. L /\ L - 1 \in 0 .. Len(s) /\ p - 1 \in 0 .. Len(s)
            BY <1>4, <2>1, <2>4
        <3>2. /\ F!BytesUpTo(kept, p) \in Nat /\ F!BytesUpTo(kept, p - 1) \in Nat /\ F!BytesUpTo(kept, L) \in Nat
              /\ F!BytesUpTo(s, L - 1) \in Nat /\ F!BytesUpTo(s, p - 1) \in Nat
            BY <1>3, <2>4, <3>1, SumsAreNumbers
        <3>3. F!BytesOf(s) = F!BytesUpTo(s, L - 1) /\ cacheBytes = F!BytesUpTo(kept, L)
            BY <1>1, <2>4 DEF F!BytesOf
        <3>4. kept[p].bytes \in Nat
            BY <2>3 DEF CacheEntry
        <3>5. ASSUME NEW v \in Nat, NEW w \in Nat, NEW x \in Nat, NEW y \in Nat, NEW d \in Nat, v - w = x - y, y = w + d
              PROVE  v = x - d
            BY <3>5
        <3>6. F!BytesUpTo(s, L - 1) = F!BytesUpTo(kept, L) - kept[p].bytes
            <4>1. F!BytesUpTo(kept, p) = F!BytesUpTo(s, p - 1) + kept[p].bytes
                BY <2>6, <2>8
            <4> QED BY <2>7, <3>2, <3>4, <3>5, <4>1
        <3> QED BY <2>3, <3>3, <3>6
    <2>10. \A i, j \in 1 .. L - 1 : i < j => s[i].url # s[j].url /\ s[i].fetchedAt <= s[j].fetchedAt
        <3> SUFFICES ASSUME NEW i \in 1 .. L - 1, NEW j \in 1 .. L - 1, i < j
                     PROVE  s[i].url # s[j].url /\ s[i].fetchedAt <= s[j].fetchedAt
            OBVIOUS
        <3>1. PICK k \in 1 .. L : s[i] = kept[k] /\ k = IF i < p THEN i ELSE i + 1
            BY <2>5
        <3>2. PICK m \in 1 .. L : s[j] = kept[m] /\ m = IF j < p THEN j ELSE j + 1
            BY <2>5
        <3>3. k < m
            BY <1>4, <2>1, <3>1, <3>2
        <3> QED BY <1>4, <3>1, <3>2, <3>3 DEF CacheInv
    <2>11. \A i \in 1 .. L - 1 : s[i].fetchedAt <= minute /\ s[i].url # u
        <3> SUFFICES ASSUME NEW i \in 1 .. L - 1 PROVE s[i].fetchedAt <= minute /\ s[i].url # u
            OBVIOUS
        <3>1. PICK k \in 1 .. L : s[i] = kept[k] /\ k # p
            BY <2>5
        <3>2. k < p \/ p < k
            BY <2>1, <3>1
        <3> QED BY <1>4, <2>1, <3>1, <3>2 DEF CacheInv
    <2>12. Others(u) = s
        BY <1>6 DEF Others, s, p
    <2>13. DOMAIN s = 1 .. L - 1
        BY <2>4
    <2> QED BY <2>4, <2>9, <2>10, <2>11, <2>12, <2>13
<1> QED BY <1>5, <1>6

\* A body that arrives keeps the invariant: what stays is a last stretch of the list.
LEMMA RememberKeeps ==
    ASSUME CacheInv, NEW u \in Feed, NEW b \in Nat, F!Remember(u, b)
    PROVE  /\ kept' \in Seq(CacheEntry)
           /\ cacheBytes' = F!BytesOf(kept')
           /\ Len(kept') > 1 => Len(kept') <= MaxKeys /\ cacheBytes' <= MaxBytes
           /\ \A i, j \in DOMAIN kept' : i < j => kept'[i].url # kept'[j].url /\ kept'[i].fetchedAt <= kept'[j].fetchedAt
           /\ \A i \in DOMAIN kept' : kept'[i].fetchedAt <= minute
<1> DEFINE o == Others(u)
           x == [url |-> u, fetchedAt |-> minute, bytes |-> b]
           entries == Append(o, x)
           N == Len(entries)
           held == cacheBytes - F!PriorBytes(u) + b
           ok == {n \in 1 .. N : n = 1 \/ (n <= MaxKeys /\ held - F!BytesUpTo(entries, N - n) <= MaxBytes)}
           k == F!Allowed(entries, held)
<1>1. kept' = SubSeq(entries, N - k + 1, N) /\ cacheBytes' = held - F!BytesUpTo(entries, N - k)
    BY DEF F!Remember, Others
<1>2. /\ o \in Seq(CacheEntry) /\ F!BytesOf(o) = cacheBytes - F!PriorBytes(u)
      /\ \A i, j \in DOMAIN o : i < j => o[i].url # o[j].url /\ o[i].fetchedAt <= o[j].fetchedAt
      /\ \A i \in DOMAIN o : o[i].fetchedAt <= minute /\ o[i].url # u
    BY OthersAre
<1>3. x \in CacheEntry /\ x.url = u /\ x.fetchedAt = minute /\ x.bytes = b /\ minute \in Nat
    BY DEF CacheInv, CacheEntry
<1>4. k = F!Max(ok)
    BY DEF F!Allowed
<1> HIDE DEF o, x
<1>5. /\ entries \in Seq(CacheEntry) /\ N = Len(o) + 1 /\ Len(o) \in Nat /\ N \in Nat /\ entries[N] = x
      /\ \A i \in 1 .. Len(o) : entries[i] = o[i]
    BY <1>2, <1>3
<1> HIDE DEF entries, N
<1>6. k \in ok
    <2>1. 1 \in ok
        BY <1>5
    <2>2. ok \in SUBSET (1 .. N) /\ ok \in SUBSET Int
        OBVIOUS
    <2>3. IsFiniteSet(1 .. N)
        <3>1. N \in Int
            BY <1>5
        <3> QED BY <3>1, FS_Interval, 1 \in Int
    <2> HIDE DEF ok
    <2>4. IsFiniteSet(ok)
        BY <2>2, <2>3, FS_Subset
    <2>5. PICK m \in ok : \A y \in ok : y <= m
        BY <2>1, <2>2, <2>4, FiniteHasGreatest
    <2>6. \A y \in ok : m >= y
        BY <2>2, <2>5
    <2>7. F!Max(ok) \in ok
        BY <2>5, <2>6 DEF F!Max
    <2> QED BY <1>4, <2>7
<1> HIDE DEF k
<1>7. /\ k \in 1 .. N /\ N - k \in Nat
      /\ k > 1 => k <= MaxKeys /\ held - F!BytesUpTo(entries, N - k) <= MaxBytes
    BY <1>5, <1>6
<1> HIDE DEF ok
<1>8. kept' \in Seq(CacheEntry) /\ Len(kept') = k /\ DOMAIN kept' = 1 .. k /\ \A j \in 1 .. k : kept'[j] = entries[(N - k) + j]
    <2> DEFINE a == N - k
               g == [j \in 1 .. k |-> entries[a + j]]
    <2>1. SubSeq(entries, N - k + 1, N) = g
        <3>1. \A j \in 1 .. k : j + (N - k + 1) - 1 = a + j
            BY <1>5, <1>7
        <3>2. 1 + N - (N - k + 1) = k
            BY <1>5, <1>7
        <3>3. SubSeq(entries, N - k + 1, N) = [j \in 1 .. 1 + N - (N - k + 1) |-> entries[j + (N - k + 1) - 1]]
            BY <1>5, <1>7 DEF N
        <3> QED BY <3>1, <3>2, <3>3
    <2>2. \A j \in 1 .. k : entries[a + j] \in CacheEntry
        <3>1. \A j \in 1 .. k : a + j \in 1 .. N
            BY <1>5, <1>7
        <3> QED BY <1>5, <3>1 DEF N
    <2>3. k \in Nat
        BY <1>7
    <2> HIDE DEF a
    <2>4. g \in Seq(CacheEntry) /\ Len(g) = k /\ DOMAIN g = 1 .. k /\ \A j \in 1 .. k : g[j] = entries[a + j]
        BY <2>2, <2>3
    <2>5. kept' = g
        BY <1>1, <2>1
    <2> HIDE DEF g
    <2> QED BY <2>4, <2>5 DEF a
<1>9. F!BytesUpTo(entries, N) = held
    <2> DEFINE m == Len(o)
    <2>1. Stretch(entries, 0, m, o, 0, m)
        BY <1>2, <1>5 DEF Stretch, N
    <2>2. F!BytesUpTo(entries, m) - F!BytesUpTo(entries, 0) = F!BytesUpTo(o, m) - F!BytesUpTo(o, 0)
        BY <2>1, StretchSum
    <2>3. F!BytesUpTo(entries, 0) = 0 /\ F!BytesUpTo(o, 0) = 0
        BY <1>2, <1>5, SumStep DEF N
    <2>4. F!BytesUpTo(entries, N) = F!BytesUpTo(entries, m) + b
        <3>1. F!BytesUpTo(entries, N) = F!BytesUpTo(entries, N - 1) + entries[N].bytes
            <4>1. N \in 1 .. Len(entries) /\ Len(entries) \in Nat
                BY <1>5 DEF N
            <4> QED BY <4>1, SumStep
        <3>2. N - 1 = m /\ entries[N].bytes = b
            BY <1>3, <1>5
        <3> QED BY <3>1, <3>2
    <2>5. F!BytesUpTo(entries, m) \in Nat /\ F!BytesUpTo(o, m) \in Nat
        <3>1. m \in 0 .. Len(entries) /\ m \in 0 .. Len(o)
            BY <1>5 DEF N
        <3> QED BY <1>2, <1>5, <3>1, SumsAreNumbers
    <2>6. F!BytesOf(o) = F!BytesUpTo(o, m)
        BY DEF F!BytesOf
    <2> HIDE DEF m
    <2>7. F!BytesUpTo(entries, m) = F!BytesUpTo(o, m)
        BY <2>2, <2>3, <2>5
    <2> QED BY <1>2, <2>4, <2>6, <2>7
<1>10. cacheBytes' = F!BytesOf(kept')
    <2> DEFINE a == N - k
    <2>1. a \in Nat /\ a <= N /\ N \in Nat /\ k \in Nat /\ k - 0 = N - a /\ 0 <= k
        BY <1>5, <1>7
    <2>2. \A i \in 0 + 1 .. k, j \in a + 1 .. N : i - 0 = j - a => kept'[i] = entries[j]
        <3> SUFFICES ASSUME NEW i \in 0 + 1 .. k, NEW j \in a + 1 .. N, i - 0 = j - a PROVE kept'[i] = entries[j]
            OBVIOUS
        <3>1. i \in 1 .. k /\ (N - k) + i = j
            BY <2>1
        <3> QED BY <1>8, <3>1
    <2> HIDE DEF a
    <2>3. Stretch(kept', 0, k, entries, a, N)
        BY <1>5, <1>8, <2>1, <2>2 DEF Stretch, N
    <2>4. F!BytesUpTo(kept', k) - F!BytesUpTo(kept', 0) = F!BytesUpTo(entries, N) - F!BytesUpTo(entries, a)
        BY <2>3, StretchSum
    <2>5. F!BytesUpTo(kept', 0) = 0
        <3>1. Len(kept') \in Nat
            BY <1>7, <1>8
        <3> QED BY <3>1, SumStep
    <2>6. F!BytesUpTo(kept', k) \in Nat
        <3>1. k \in 0 .. Len(kept')
            BY <1>7, <1>8
        <3> QED BY <1>8, <3>1, SumsAreNumbers
    <2>7. cacheBytes' = F!BytesUpTo(entries, N) - F!BytesUpTo(entries, a)
        BY <1>1, <1>9 DEF a
    <2>8. F!BytesOf(kept') = F!BytesUpTo(kept', k)
        BY <1>8 DEF F!BytesOf
    <2> QED BY <2>4, <2>5, <2>6, <2>7, <2>8
<1>11. \A i, j \in DOMAIN kept' : i < j => kept'[i].url # kept'[j].url /\ kept'[i].fetchedAt <= kept'[j].fetchedAt
    <2> SUFFICES ASSUME NEW i \in 1 .. k, NEW j \in 1 .. k, i < j
                 PROVE  kept'[i].url # kept'[j].url /\ kept'[i].fetchedAt <= kept'[j].fetchedAt
        BY <1>8
    <2> HIDE DEF held
    <2>1. /\ (N - k) + i \in 1 .. Len(o) /\ (N - k) + i < (N - k) + j
          /\ (N - k) + j = N \/ (N - k) + j \in 1 .. Len(o)
        <3> DEFINE l == Len(o)
        <3>1. l \in Nat /\ N = l + 1 /\ k \in 1 .. N
            BY <1>5, <1>7
        <3> HIDE DEF l
        <3>2. /\ (N - k) + i \in 1 .. l /\ (N - k) + i < (N - k) + j
              /\ (N - k) + j = N \/ (N - k) + j \in 1 .. l
            BY <3>1
        <3> QED BY <3>2 DEF l
    <2>2. kept'[i] = o[(N - k) + i] /\ DOMAIN o = 1 .. Len(o)
        <3>1. kept'[i] = entries[(N - k) + i]
            BY <1>8
        <3>2. entries[(N - k) + i] = o[(N - k) + i]
            BY <1>5, <2>1
        <3> QED BY <1>2, <3>1, <3>2
    <2>3. CASE (N - k) + j = N
        <3>1. kept'[j] = x
            BY <1>5, <1>8, <2>3
        <3> QED BY <1>2, <1>3, <2>1, <2>2, <3>1
    <2>4. CASE (N - k) + j \in 1 .. Len(o)
        <3>1. kept'[j] = o[(N - k) + j]
            BY <1>5, <1>8, <2>4
        <3> QED BY <1>2, <2>1, <2>2, <2>4, <3>1
    <2> QED BY <2>1, <2>3, <2>4
<1>12. \A i \in DOMAIN kept' : kept'[i].fetchedAt <= minute
    <2> SUFFICES ASSUME NEW i \in 1 .. k PROVE kept'[i].fetchedAt <= minute
        BY <1>8
    <2>1. (N - k) + i = N \/ (N - k) + i \in 1 .. Len(o)
        BY <1>5, <1>7
    <2>2. CASE (N - k) + i = N
        <3>1. kept'[i] = x
            BY <1>5, <1>8, <2>2
        <3> QED BY <1>3, <3>1
    <2>3. CASE (N - k) + i \in 1 .. Len(o)
        <3>1. kept'[i] = o[(N - k) + i] /\ DOMAIN o = 1 .. Len(o)
            BY <1>2, <1>5, <1>8, <2>3
        <3> QED BY <1>2, <2>3, <3>1
    <2> QED BY <2>1, <2>2, <2>3
<1> QED BY <1>1, <1>7, <1>8, <1>10, <1>11, <1>12

LEMMA CacheBegins == ServicesAssumption /\ F!Init => CacheInv
<1> SUFFICES ASSUME F!Init PROVE CacheInv
    OBVIOUS
<1>1. minute = 0 /\ kept = <<>> /\ cacheBytes = 0 /\ reads = {}
    BY DEF F!Init
<1>2. kept \in Seq(CacheEntry) /\ Len(kept) = 0 /\ DOMAIN kept = {}
    BY <1>1
<1>3. F!BytesOf(kept) = 0
    BY <1>2, SumStep DEF F!BytesOf
<1> QED BY <1>1, <1>2, <1>3 DEF CacheInv

LEMMA CacheInvStep == CacheInv /\ [F!Next]_proxy => CacheInv'
<1> SUFFICES ASSUME CacheInv, [F!Next]_proxy PROVE CacheInv'
    OBVIOUS
<1>1. CASE UNCHANGED <<kept, cacheBytes>> /\ minute' \in Nat /\ minute' >= minute /\ \A r \in reads' : r.url \in Feed
    <2>1. F!BytesOf(kept)' = F!BytesOf(kept')
        BY DEF F!BytesOf, F!BytesUpTo
    <2>2. kept' = kept /\ cacheBytes' = cacheBytes
        BY <1>1
    <2>3. \A i \in DOMAIN kept : kept[i].fetchedAt <= minute'
        <3>1. \A i \in DOMAIN kept : kept[i].fetchedAt \in Nat
            <4>1. \A i \in DOMAIN kept : kept[i] \in CacheEntry
                BY DEF CacheInv
            <4> QED BY <4>1 DEF CacheEntry
        <3> QED BY <1>1, <3>1 DEF CacheInv
    <2> QED BY <1>1, <2>1, <2>2, <2>3 DEF CacheInv
<1>2. ASSUME NEW r \in reads, NEW b \in Size[r.url], F!FeedAnswers(r, b) PROVE CacheInv'
    <2>1. r.url \in Feed /\ b \in Nat
        BY ServicesAssumption DEF CacheInv, F!CacheAssumption
    <2>2. F!Remember(r.url, b) /\ minute' = minute /\ reads' \subseteq reads
        BY <1>2 DEF F!FeedAnswers
    <2>3. F!BytesOf(kept)' = F!BytesOf(kept')
        BY DEF F!BytesOf, F!BytesUpTo
    <2> DEFINE u == r.url
    <2>4. u \in Feed /\ F!Remember(u, b)
        BY <2>1, <2>2
    <2> HIDE DEF u
    <2>5. /\ kept' \in Seq(CacheEntry)
          /\ cacheBytes' = F!BytesOf(kept')
          /\ Len(kept') > 1 => Len(kept') <= MaxKeys /\ cacheBytes' <= MaxBytes
          /\ \A i, j \in DOMAIN kept' : i < j => kept'[i].url # kept'[j].url /\ kept'[i].fetchedAt <= kept'[j].fetchedAt
          /\ \A i \in DOMAIN kept' : kept'[i].fetchedAt <= minute
        BY <2>1, <2>4, RememberKeeps
    <2>6. minute \in Nat /\ \A q \in reads : q.url \in Feed
        BY DEF CacheInv
    <2> QED BY <2>2, <2>3, <2>5, <2>6 DEF CacheInv
<1>3. CASE UNCHANGED proxy
    BY <1>1, <1>3 DEF proxy, CacheInv
<1>4. CASE F!Tick
    BY <1>1, <1>4 DEF F!Tick, CacheInv
<1>5. ASSUME NEW u \in Feed, F!CachedGet(u) PROVE CacheInv'
    <2>1. \A r \in reads' : r.url \in Feed
        BY <1>5 DEF F!CachedGet, CacheInv
    <2> QED BY <1>1, <1>5, <2>1 DEF F!CachedGet, CacheInv
<1>6. ASSUME NEW r \in reads, F!FeedRejects(r) \/ F!FeedFails(r) PROVE CacheInv'
    <2>1. \A q \in reads' : q.url \in Feed
        BY <1>6 DEF F!FeedRejects, F!FeedFails, CacheInv
    <2> QED BY <1>1, <1>6, <2>1 DEF F!FeedRejects, F!FeedFails, CacheInv
<1> QED BY <1>2, <1>3, <1>4, <1>5, <1>6 DEF F!Next

LEMMA CacheInvMeans == CacheInv => F!CacheIsBounded
    BY DEF CacheInv, F!CacheIsBounded

LEMMA ProxyRunsAlone == ServicesSpec => F!Init /\ [][F!Next]_proxy
<1>1. ServicesInit => F!Init
    BY DEF ServicesInit
<1>2. [ServicesNext]_everything => [F!Next]_proxy
    BY DEF everything, ServicesNext, PricesRun, JobsRun, TurnRun, NodesRun, MetricsRun, ExplorerRun, ProxyRun, ListsRun,
           MonitorRuns, RulesRun
<1> QED BY <1>1, <1>2, PTL DEF ServicesSpec

\* The cache of the proxied feeds (clientFeed.js:48): its count of bytes is that of the bodies it holds,
\* for any number of feeds, sizes and bounds, and however many reads of one URL overlap.
LEMMA CacheStaysBounded == ServicesSpec => []F!CacheIsBounded
<1>1. ServicesAssumption
    BY ServicesAssumption
<1> QED BY <1>1, CacheBegins, CacheInvStep, CacheInvMeans, ProxyRunsAlone, PTL

-----------------------------------------------------------------------------
(* What the monitor finds                                                  *)

CycleFields == {"chains", "from", "at", "busy", "total", "tested", "working", "failed"}

\* The endpoints of a chain that the list has.
Listed(list, n) == {list[r].endpoint : r \in {q \in DOMAIN list : list[q].chain = n}}

CountOf(list, works) == Cardinality({r \in DOMAIN list : list[r].works = works})

\* The list and the counts as they were last written.
Told(f) ==
    /\ f.list \in Seq([chain : Nat, endpoint : Nat, works : BOOLEAN])
    /\ \A r, q \in DOMAIN f.list :
          f.list[r].chain = f.list[q].chain /\ f.list[r].endpoint = f.list[q].endpoint => r = q
    /\ f.working = CountOf(f.list, TRUE) /\ f.failed = CountOf(f.list, FALSE)
    /\ Len(f.list) <= f.tested /\ f.tested <= f.total

\* A cycle, whatever it has done, and its counts against those that were written.
Shape(c, f) ==
    /\ DOMAIN c = CycleFields
    /\ c.chains \in Seq(Seq(BOOLEAN)) /\ c.from \in Nat \ {0}
    /\ c.at = [n \in DOMAIN c.chains |-> c.at[n]]
    /\ c.busy \in SUBSET DOMAIN c.chains
    /\ c.total \in Nat /\ c.tested \in Nat /\ c.tested <= c.total
    /\ c.working = f.working /\ c.failed = f.failed

\* Where a chain is: of those below lim, at an endpoint that has a test or behind its last one.
ChainAt(c, n, lim, list) ==
    /\ c.at[n] \in Nat
    /\ Listed(list, n) = {e \in O!Testable(c.chains[n]) : e < c.at[n]}
    /\ n \in c.busy => n < lim /\ c.at[n] \in O!Testable(c.chains[n])
    /\ n \notin c.busy => c.at[n] = IF n < lim THEN Len(c.chains[n]) + 1 ELSE 0

Progress(c, lim, f) ==
    /\ Shape(c, f)
    /\ c.tested = Len(f.list) + Cardinality(c.busy)
    /\ \A n \in DOMAIN c.chains : ChainAt(c, n, lim, f.list)

\* The chain n is about to go on from at[n], which the list has if there is a test for it.
Ready(c, n, lim, f) ==
    /\ Shape(c, f)
    /\ c.tested = Len(f.list) + Cardinality(c.busy \ {n})
    /\ n \in DOMAIN c.chains /\ n < lim /\ c.at[n] \in Nat /\ c.at[n] <= Len(c.chains[n])
    /\ Listed(f.list, n) = {e \in O!Testable(c.chains[n]) : e <= c.at[n]}
    /\ \A m \in DOMAIN c.chains : m # n => ChainAt(c, m, lim, f.list)

LEMMA TestableAre ==
    ASSUME NEW endpoints \in Seq(BOOLEAN)
    PROVE  O!Testable(endpoints) \in SUBSET (1 .. Len(endpoints)) /\ Len(endpoints) \in Nat
    BY DEF O!Testable, O!Valid

\* A chain goes on to the next endpoint that has a test, or behind the last one.
LEMMA StopsAtTheNext ==
    ASSUME NEW endpoints \in Seq(BOOLEAN), NEW from \in Nat, from <= Len(endpoints)
    PROVE  /\ O!StopsAt(endpoints, from) \in from + 1 .. Len(endpoints) + 1
           /\ O!StopsAt(endpoints, from) <= Len(endpoints) => O!StopsAt(endpoints, from) \in O!Testable(endpoints)
           /\ \A e \in O!Testable(endpoints) : e < O!StopsAt(endpoints, from) <=> e <= from
<1> DEFINE later == {e \in O!Testable(endpoints) : e > from}
           L == Len(endpoints)
<1>1. O!Testable(endpoints) \in SUBSET (1 .. L) /\ L \in Nat
    BY TestableAre
<1>2. O!StopsAt(endpoints, from) = IF later = {} THEN L + 1 ELSE O!Min(later)
    BY DEF O!StopsAt
<1>3. CASE later = {}
    <2>1. \A e \in O!Testable(endpoints) : ~(e > from)
        BY <1>3
    <2>2. O!StopsAt(endpoints, from) = L + 1
        BY <1>2, <1>3
    <2> QED BY <1>1, <2>1, <2>2
<1>4. CASE later # {}
    <2>1. later \in SUBSET (1 .. L) /\ later \in SUBSET Int
        BY <1>1
    <2>2. IsFiniteSet(1 .. L)
        <3>1. 1 \in Int /\ L \in Int
            BY <1>1
        <3> QED BY <3>1, FS_Interval
    <2> HIDE DEF later
    <2>3. IsFiniteSet(later)
        BY <2>1, <2>2, FS_Subset
    <2>4. \E m \in later : \A x \in later : m <= x
        BY <1>4, <2>1, <2>3, FiniteHasLeast
    <2>5. O!Min(later) \in later /\ \A x \in later : O!Min(later) <= x
        BY <2>4 DEF O!Min
    <2> DEFINE to == O!Min(later)
    <2>6. to \in O!Testable(endpoints) /\ to > from /\ to \in 1 .. L
        BY <2>1, <2>5 DEF later
    <2>7. \A e \in O!Testable(endpoints) : e > from => to <= e
        BY <2>5 DEF later
    <2>8. O!StopsAt(endpoints, from) = to
        BY <1>2, <1>4
    <2> HIDE DEF to
    <2> QED BY <1>1, <2>6, <2>7, <2>8
<1> QED BY <1>3, <1>4

LEMMA AdvancedIs ==
    ASSUME NEW c, NEW n, DOMAIN c = CycleFields, n \in DOMAIN c.at
    PROVE  LET to == O!StopsAt(c.chains[n], c.at[n])
               L == Len(c.chains[n])
               a == O!Advanced(c, n)
           IN  /\ DOMAIN a = CycleFields
               /\ a.chains = c.chains /\ a.from = c.from /\ a.working = c.working /\ a.failed = c.failed
               /\ a.at = [c.at EXCEPT ![n] = to]
               /\ a.busy = IF to <= L THEN c.busy \cup {n} ELSE c.busy \ {n}
               /\ a.total = c.total + (IF to <= L THEN to ELSE L) - c.at[n]
               /\ a.tested = c.tested + IF to <= L THEN 1 ELSE 0
    BY DEF O!Advanced, CycleFields

LEMMA ReadyGoesOn ==
    ASSUME NEW c, NEW n, NEW lim, NEW f, Ready(c, n, lim, f), Len(f.list) \in Nat
    PROVE  /\ Progress(O!Advanced(c, n), lim, f)
           /\ O!Advanced(c, n).chains = c.chains /\ O!Advanced(c, n).from = c.from
<1> DEFINE eps == c.chains[n]
           p == c.at[n]
           to == O!StopsAt(eps, p)
           L == Len(eps)
           a == O!Advanced(c, n)
<1>1. /\ DOMAIN c = CycleFields /\ n \in DOMAIN c.chains /\ n \in DOMAIN c.at /\ eps \in Seq(BOOLEAN) /\ p \in Nat /\ p <= L /\ L \in Nat
      /\ c.busy \in SUBSET DOMAIN c.chains /\ Len(c.chains) \in Nat /\ DOMAIN c.chains = 1 .. Len(c.chains)
      /\ c.total \in Nat /\ c.tested \in Nat /\ c.tested <= c.total
    <2>1. c.chains \in Seq(Seq(BOOLEAN)) /\ n \in DOMAIN c.chains /\ c.at = [m \in DOMAIN c.chains |-> c.at[m]]
        BY DEF Ready, Shape
    <2>2. eps \in Seq(BOOLEAN) /\ Len(c.chains) \in Nat /\ DOMAIN c.chains = 1 .. Len(c.chains)
        BY <2>1
    <2>3. L \in Nat
        BY <2>2
    <2> QED BY <2>1, <2>2, <2>3 DEF Ready, Shape
<1>2. /\ to \in p + 1 .. L + 1
      /\ to <= L => to \in O!Testable(eps)
      /\ \A e \in O!Testable(eps) : e < to <=> e <= p
    BY <1>1, StopsAtTheNext
<1>3. /\ DOMAIN a = CycleFields
      /\ a.chains = c.chains /\ a.from = c.from /\ a.working = c.working /\ a.failed = c.failed
      /\ a.at = [c.at EXCEPT ![n] = to]
      /\ a.busy = IF to <= L THEN c.busy \cup {n} ELSE c.busy \ {n}
      /\ a.total = c.total + (IF to <= L THEN to ELSE L) - p
      /\ a.tested = c.tested + IF to <= L THEN 1 ELSE 0
    BY <1>1, AdvancedIs
<1> HIDE DEF to, L, p, a
<1>4. to \in Nat /\ a.total \in Nat /\ a.tested \in Nat /\ a.tested <= a.total
    <2>1. CASE to <= L
        <3>1. a.total = c.total + to - p /\ a.tested = c.tested + 1
            BY <1>3, <2>1
        <3>2. ASSUME NEW x \in Nat, NEW y \in Nat, NEW z \in Nat, NEW q \in Nat, z \in q + 1 .. L + 1, y <= x
              PROVE  x + z - q \in Nat /\ y + 1 \in Nat /\ y + 1 <= x + z - q
            BY <1>1, <3>2
        <3>3. to \in Nat
            BY <1>1, <1>2
        <3> QED BY <1>1, <1>2, <3>1, <3>2, <3>3
    <2>2. CASE ~(to <= L)
        <3>1. a.total = c.total + L - p /\ a.tested = c.tested + 0
            BY <1>3, <2>2
        <3> QED BY <1>1, <1>2, <3>1
    <2> QED BY <2>1, <2>2
<1>5. Shape(a, f)
    <2>1. a.at = [m \in DOMAIN a.chains |-> a.at[m]]
        BY <1>1, <1>3 DEF Ready, Shape
    <2> QED BY <1>1, <1>3, <1>4, <2>1 DEF Ready, Shape
<1>6. a.tested = Len(f.list) + Cardinality(a.busy)
    <2>1. IsFiniteSet(c.busy) /\ IsFiniteSet(c.busy \ {n})
        <3>1. 1 \in Int /\ Len(c.chains) \in Int
            BY <1>1
        <3>2. IsFiniteSet(1 .. Len(c.chains))
            BY <3>1, FS_Interval
        <3>3. c.busy \in SUBSET (1 .. Len(c.chains)) /\ c.busy \ {n} \in SUBSET (1 .. Len(c.chains))
            BY <1>1
        <3> QED BY <3>2, <3>3, FS_Subset
    <2> DEFINE Rest == c.busy \ {n}
    <2>2. n \notin Rest /\ IsFiniteSet(Rest) /\ c.busy \cup {n} = Rest \cup {n} /\ c.tested = Len(f.list) + Cardinality(Rest)
        BY <2>1 DEF Ready
    <2>3. CASE to <= L
        <3>1. a.busy = Rest \cup {n} /\ a.tested = c.tested + 1
            BY <1>3, <2>2, <2>3
        <3> HIDE DEF Rest
        <3>2. Cardinality(Rest \cup {n}) = Cardinality(Rest) + 1 /\ Cardinality(Rest) \in Nat
            BY <2>2, FS_AddElement, FS_CardinalityType
        <3> QED BY <2>2, <3>1, <3>2
    <2>4. CASE ~(to <= L)
        <3>1. a.busy = Rest /\ a.tested = c.tested + 0
            BY <1>3, <2>4
        <3> HIDE DEF Rest
        <3> QED BY <1>1, <2>2, <3>1
    <2> QED BY <2>3, <2>4
<1>7. ASSUME NEW m \in DOMAIN a.chains PROVE ChainAt(a, m, lim, f.list)
    <2>1. CASE m # n
        <3>1. ChainAt(c, m, lim, f.list) /\ a.at[m] = c.at[m] /\ a.chains[m] = c.chains[m] /\ (m \in a.busy <=> m \in c.busy)
            <4>1. m \in DOMAIN c.chains /\ m \in DOMAIN c.at
                <5>1. c.at = [x \in DOMAIN c.chains |-> c.at[x]]
                    BY DEF Ready, Shape
                <5> QED BY <1>3, <1>7, <5>1
            <4>2. ChainAt(c, m, lim, f.list)
                BY <2>1, <4>1 DEF Ready
            <4>3. a.at[m] = c.at[m]
                BY <1>3, <2>1, <4>1
            <4>4. m \in a.busy <=> m \in c.busy
                BY <1>3, <2>1
            <4> QED BY <1>3, <4>2, <4>3, <4>4
        <3> QED BY <3>1 DEF ChainAt
    <2>2. CASE m = n
        <3>1. a.at[n] = to /\ a.chains[n] = eps /\ n < lim
            BY <1>1, <1>3 DEF Ready
        <3>2. Listed(f.list, n) = {e \in O!Testable(eps) : e <= p}
            BY DEF Ready, p
        <3>3. Listed(f.list, n) = {e \in O!Testable(eps) : e < to}
            BY <1>2, <3>2
        <3>4. n \in a.busy => to \in O!Testable(eps)
            BY <1>2, <1>3
        <3>5. n \notin a.busy => to = L + 1
            BY <1>1, <1>2, <1>3
        <3> QED BY <1>4, <2>2, <3>1, <3>3, <3>4, <3>5 DEF ChainAt, L
    <2> QED BY <2>1, <2>2
<1>8. Progress(a, lim, f) /\ a.chains = c.chains /\ a.from = c.from
    BY <1>3, <1>5, <1>6, <1>7 DEF Progress
<1> QED BY <1>8 DEF a

\* A chain that was not begun is.
LEMMA NextBegins ==
    ASSUME NEW c, NEW n \in Int, NEW f, Progress(c, n, f), n \in DOMAIN c.chains, Len(f.list) \in Nat
    PROVE  Ready(c, n, n + 1, f)
<1>1. ChainAt(c, n, n, f.list) /\ Shape(c, f)
    BY DEF Progress
<1>2. n \notin c.busy /\ c.at[n] = 0
    BY <1>1 DEF ChainAt
<1>3. c.chains[n] \in Seq(BOOLEAN) /\ DOMAIN c.chains \in SUBSET Int
    BY <1>1 DEF Shape
<1>4. O!Testable(c.chains[n]) \in SUBSET (1 .. Len(c.chains[n])) /\ Len(c.chains[n]) \in Nat
    BY <1>3, TestableAre
<1>5. Listed(f.list, n) = {e \in O!Testable(c.chains[n]) : e <= c.at[n]}
    <2>1. Listed(f.list, n) = {e \in O!Testable(c.chains[n]) : e < 0}
        BY <1>1, <1>2 DEF ChainAt
    <2>2. \A e \in O!Testable(c.chains[n]) : ~(e < 0) /\ ~(e <= 0)
        BY <1>4
    <2> QED BY <1>2, <2>1, <2>2
<1>6. ASSUME NEW m \in DOMAIN c.chains, m # n PROVE ChainAt(c, m, n + 1, f.list)
    <2>1. ChainAt(c, m, n, f.list) /\ (m < n <=> m < n + 1)
        BY <1>3, <1>6 DEF Progress
    <2> QED BY <2>1 DEF ChainAt
<1>7. c.busy \ {n} = c.busy
    BY <1>2
<1>8. c.tested = Len(f.list) + Cardinality(c.busy \ {n})
    BY <1>7 DEF Progress
<1>9. n < n + 1 /\ c.at[n] \in Nat /\ c.at[n] <= Len(c.chains[n])
    BY <1>2, <1>4
<1> QED BY <1>1, <1>5, <1>6, <1>8, <1>9 DEF Ready

\* The chains that a batch begins, one after the other.
LEMMA BatchSteps ==
    ASSUME NEW c, NEW size \in Nat
    PROVE  LET begun[i \in 0 .. size] == IF i = 0 THEN c ELSE O!Advanced(begun[i - 1], c.from + i - 1)
           IN  begun[0] = c /\ \A i \in 1 .. size : begun[i] = O!Advanced(begun[i - 1], c.from + i - 1)
<1> DEFINE Is(f, k) == f = [i \in 0 .. k |-> IF i = 0 THEN c ELSE O!Advanced(f[i - 1], c.from + i - 1)]
           S == {k \in 0 .. size : \E f : Is(f, k)}
<1>1. 0 \in S
    <2>1. Is([i \in 0 .. 0 |-> c], 0)
        OBVIOUS
    <2>2. \E f : Is(f, 0)
        BY <2>1
    <2> QED BY <2>2
<1>2. ASSUME NEW k \in 0 .. size - 1, k \in S PROVE k + 1 \in S
    <2>1. PICK f : Is(f, k)
        BY <1>2
    <2> DEFINE g == [i \in 0 .. (k + 1) |-> IF i = k + 1 THEN O!Advanced(f[k], c.from + (k + 1) - 1) ELSE f[i]]
    <2>2. ASSUME NEW i \in 0 .. (k + 1) PROVE g[i] = IF i = 0 THEN c ELSE O!Advanced(g[i - 1], c.from + i - 1)
        <3>1. CASE i = k + 1
            <4>1. i # 0 /\ i - 1 = k /\ k \in 0 .. (k + 1) /\ k # k + 1
                BY <3>1
            <4>2. g[k] = f[k]
                BY <4>1
            <4>3. g[i] = O!Advanced(f[k], c.from + i - 1)
                BY <3>1
            <4> HIDE DEF g
            <4> QED BY <4>1, <4>2, <4>3
        <3>2. CASE i # k + 1
            <4>1. i \in 0 .. k /\ (i # 0 => i - 1 \in 0 .. k /\ i - 1 \in 0 .. (k + 1) /\ i - 1 # k + 1)
                BY <3>2
            <4>2. f[i] = IF i = 0 THEN c ELSE O!Advanced(f[i - 1], c.from + i - 1)
                BY <2>1, <4>1
            <4>3. g[i] = f[i] /\ (i # 0 => g[i - 1] = f[i - 1])
                BY <3>2, <4>1
            <4> HIDE DEF g
            <4> QED BY <4>2, <4>3
        <3> QED BY <3>1, <3>2
    <2>3. Is(g, k + 1)
        BY <2>2
    <2> HIDE DEF g
    <2> QED BY <2>3
<1>3. size \in S
    <2>1. \A k \in 0 .. size : k \in S
        <3> HIDE DEF S
        <3> QED BY <1>1, <1>2, EachUpTo
    <2> HIDE DEF S
    <2> QED BY <2>1
<1> DEFINE begun == CHOOSE f : Is(f, size)
<1>4. Is(begun, size)
    BY <1>3
<1> HIDE DEF begun
<1>5. begun[0] = c /\ \A i \in 1 .. size : begun[i] = O!Advanced(begun[i - 1], c.from + i - 1)
    BY <1>4
<1> QED BY <1>5 DEF begun

\* A batch begins; the chains of the earlier ones are done, and none waits.
LEMMA BatchIsBegun ==
    ASSUME NEW c, NEW f, Progress(c, c.from, f), c.busy = {}, Len(f.list) \in Nat
    PROVE  LET b == O!BatchBegun(c)
           IN  Progress(b, b.from + Concurrency, f) /\ (O!Over(b) => b.busy = {})
<1> DEFINE N == Len(c.chains)
           First == c.from
           Sizes == {Concurrency, N - First + 1}
           size == O!Min(Sizes)
           begun[i \in 0 .. size] == IF i = 0 THEN c ELSE O!Advanced(begun[i - 1], c.from + i - 1)
<1>1. N \in Nat /\ DOMAIN c.chains = 1 .. N /\ First \in Nat \ {0} /\ Concurrency \in Nat \ {0}
    BY ServicesAssumption DEF Progress, Shape, O!MonitorAssumption
<1>2. CASE O!Over(c)
    <2>1. O!BatchBegun(c) = c
        BY <1>2 DEF O!BatchBegun
    <2>2. \A n \in DOMAIN c.chains : n < First /\ n < First + Concurrency
        BY <1>1, <1>2 DEF O!Over
    <2>3. \A n \in DOMAIN c.chains : ChainAt(c, n, First + Concurrency, f.list)
        BY <2>2 DEF Progress, ChainAt
    <2> QED BY <2>1, <2>3 DEF Progress
<1>3. CASE ~O!Over(c)
    <2>1. O!BatchBegun(c) = begun[size]
        BY <1>3 DEF O!BatchBegun
    <2>2. N - First + 1 \in Nat /\ N - First + 1 >= 1
        BY <1>1, <1>3 DEF O!Over
    <2>3. size \in Sizes /\ size <= Concurrency /\ size <= N - First + 1
        <3>1. \E m \in Sizes : \A x \in Sizes : m <= x
            <4>1. CASE Concurrency <= N - First + 1
                <5>1. \A x \in Sizes : Concurrency <= x
                    BY <1>1, <4>1
                <5> QED BY <5>1
            <4>2. CASE ~(Concurrency <= N - First + 1)
                <5>1. \A x \in Sizes : N - First + 1 <= x
                    BY <1>1, <2>2, <4>2
                <5> QED BY <5>1
            <4> QED BY <4>1, <4>2
        <3> DEFINE d == N - First + 1
        <3>2. Concurrency \in Sizes /\ d \in Sizes
            OBVIOUS
        <3> HIDE DEF Sizes
        <3>3. size \in Sizes /\ \A x \in Sizes : size <= x
            BY <3>1 DEF O!Min
        <3> QED BY <3>2, <3>3
    <2>4. size \in Nat
        BY <1>1, <2>2, <2>3
    <2>5. begun[0] = c /\ \A i \in 1 .. size : begun[i] = O!Advanced(begun[i - 1], c.from + i - 1)
        <3> HIDE DEF size
        <3> QED BY <2>4, BatchSteps
    <2> HIDE DEF begun, size, Sizes
    <2> DEFINE S == {i \in 0 .. size : Progress(begun[i], First + i, f) /\ begun[i].chains = c.chains /\ begun[i].from = First}
    <2>6. 0 \in S
        <3>1. First + 0 = First
            BY <1>1
        <3> QED BY <2>4, <2>5, <3>1
    <2>7. ASSUME NEW i \in 0 .. size - 1, i \in S PROVE i + 1 \in S
        <3> DEFINE n == First + i
        <3>1. Progress(begun[i], n, f) /\ begun[i].chains = c.chains /\ begun[i].from = First
            BY <2>7
        <3>2. n \in DOMAIN c.chains /\ n \in Int
            <4>1. N \in Nat /\ First \in Nat \ {0} /\ size <= N - First + 1 /\ size \in Nat /\ i \in 0 .. size - 1
                BY <1>1, <2>3, <2>4
            <4> HIDE DEF N, First
            <4>2. n \in 1 .. N
                BY <4>1
            <4> QED BY <1>1, <4>2
        <3>3. i + 1 \in 1 .. size /\ i + 1 - 1 = i /\ First + (i + 1) - 1 = n /\ First + (i + 1) = n + 1 /\ i + 1 \in 0 .. size
            BY <1>1, <2>4
        <3>4. begun[i + 1] = O!Advanced(begun[i], n)
            BY <2>5, <3>3
        <3> HIDE DEF n
        <3>5. Ready(begun[i], n, n + 1, f)
            BY <3>1, <3>2, NextBegins
        <3>6. Progress(begun[i + 1], n + 1, f) /\ begun[i + 1].chains = begun[i].chains /\ begun[i + 1].from = begun[i].from
            BY <3>4, <3>5, ReadyGoesOn
        <3> QED BY <3>1, <3>3, <3>6
    <2>8. \A i \in 0 .. size : i \in S
        <3> HIDE DEF S
        <3> QED BY <2>4, <2>6, <2>7, EachUpTo
    <2> DEFINE b == begun[size]
    <2>9. Progress(b, First + size, f) /\ b.chains = c.chains /\ b.from = First
        <3>1. size \in S
            <4> HIDE DEF S
            <4> QED BY <2>4, <2>8
        <3> QED BY <3>1
    <2> HIDE DEF b
    <2>10. \A n \in 1 .. N : n < First + size <=> n < First + Concurrency
        BY <1>1, <2>2, <2>3, <2>4 DEF Sizes
    <2>11. \A n \in DOMAIN b.chains : ChainAt(b, n, First + Concurrency, f.list)
        <3> SUFFICES ASSUME NEW n \in DOMAIN b.chains PROVE ChainAt(b, n, First + Concurrency, f.list)
            OBVIOUS
        <3>1. n \in 1 .. N /\ ChainAt(b, n, First + size, f.list)
            BY <1>1, <2>9 DEF Progress
        <3>2. n < First + size <=> n < First + Concurrency
            BY <2>10, <3>1
        <3> QED BY <3>1, <3>2 DEF ChainAt
    <2>12. ~O!Over(b)
        BY <1>3, <2>9 DEF O!Over
    <2>13. Progress(b, b.from + Concurrency, f)
        BY <2>9, <2>11 DEF Progress
    <2> QED BY <2>1, <2>12, <2>13 DEF b
<1> QED BY <1>2, <1>3

LEMMA NothingFound ==
    Told(O!NoFindings) /\ O!NoFindings.list = <<>> /\ O!NoFindings.working = 0 /\ O!NoFindings.failed = 0 /\ Len(O!NoFindings.list) = 0
<1> DEFINE f == O!NoFindings
<1>1. f.list = <<>> /\ f.working = 0 /\ f.failed = 0 /\ f.tested = 0 /\ f.total = 0
    BY DEF O!NoFindings
<1> HIDE DEF f
<1>2. f.list \in Seq([chain : Nat, endpoint : Nat, works : BOOLEAN]) /\ Len(f.list) = 0 /\ DOMAIN f.list = {}
    BY <1>1
<1>3. CountOf(f.list, TRUE) = 0 /\ CountOf(f.list, FALSE) = 0
    BY <1>2, FS_EmptySet DEF CountOf
<1>4. Len(f.list) <= f.tested /\ f.tested <= f.total
    <2>1. 0 <= 0
        OBVIOUS
    <2> QED BY <1>1, <1>2, <2>1
<1>5. \A r, q \in DOMAIN f.list : r = q
    BY <1>2
<1>6. Told(f)
    BY <1>1, <1>2, <1>3, <1>4, <1>5 DEF Told
<1> QED BY <1>1, <1>2, <1>6 DEF f

LEMMA CycleIsNew ==
    ASSUME NEW chains \in Listings
    PROVE  LET b == O!NewCycle(chains)
           IN  Progress(b, b.from + Concurrency, O!NoFindings) /\ (O!Over(b) => b.busy = {})
<1> DEFINE c == [chains |-> chains, from |-> 1, at |-> [n \in DOMAIN chains |-> 0], busy |-> {},
                 total |-> 0, tested |-> 0, working |-> 0, failed |-> 0]
           f == O!NoFindings
<1>1. chains \in Seq(Seq(BOOLEAN))
    BY ServicesAssumption DEF O!MonitorAssumption
<1>2. /\ DOMAIN c = CycleFields /\ c.chains = chains /\ c.from = 1 /\ c.at = [n \in DOMAIN chains |-> 0] /\ c.busy = {}
      /\ c.total = 0 /\ c.tested = 0 /\ c.working = 0 /\ c.failed = 0
    BY DEF CycleFields
<1>3. O!NewCycle(chains) = O!BatchBegun(c)
    BY DEF O!NewCycle
<1> HIDE DEF c
<1>4. f.list = <<>> /\ f.working = 0 /\ f.failed = 0 /\ Len(f.list) = 0
    BY NothingFound
<1> HIDE DEF f
<1>5. \A n \in DOMAIN c.chains : ChainAt(c, n, c.from, f.list)
    <2> SUFFICES ASSUME NEW n \in DOMAIN chains PROVE ChainAt(c, n, 1, f.list)
        BY <1>2
    <2>1. c.at[n] = 0 /\ n \notin c.busy
        BY <1>2
    <2>2. chains[n] \in Seq(BOOLEAN) /\ DOMAIN chains = 1 .. Len(chains) /\ Len(chains) \in Nat
        BY <1>1
    <2>3. O!Testable(chains[n]) \in SUBSET (1 .. Len(chains[n])) /\ Len(chains[n]) \in Nat
        BY <2>2, TestableAre
    <2>4. {e \in O!Testable(chains[n]) : e < 0} = {}
        BY <2>3
    <2>5. Listed(f.list, n) = {}
        BY <1>4 DEF Listed
    <2>6. ~(n < 1)
        BY <2>2
    <2> QED BY <1>2, <2>1, <2>4, <2>5, <2>6 DEF ChainAt
<1>6. Shape(c, f)
    BY <1>1, <1>2, <1>4 DEF Shape
<1>7. Cardinality(c.busy) = 0
    BY <1>2, FS_EmptySet
<1>8. Progress(c, c.from, f)
    BY <1>2, <1>4, <1>5, <1>6, <1>7 DEF Progress
<1>9. Progress(O!BatchBegun(c), O!BatchBegun(c).from + Concurrency, f) /\ (O!Over(O!BatchBegun(c)) => O!BatchBegun(c).busy = {})
    BY <1>2, <1>4, <1>8, BatchIsBegun
<1> QED BY <1>3, <1>9 DEF f

\* One more in the list.
Adds(f, g, n, e, works) ==
    /\ n \in Nat /\ e \in Nat /\ works \in BOOLEAN /\ Told(f) /\ e \notin Listed(f.list, n)
    /\ g.list = Append(f.list, [chain |-> n, endpoint |-> e, works |-> works])

\* What is so then.
Added(f, g, n, e, works) ==
    /\ g.list \in Seq([chain : Nat, endpoint : Nat, works : BOOLEAN]) /\ Len(g.list) = Len(f.list) + 1
    /\ \A r, q \in DOMAIN g.list :
          g.list[r].chain = g.list[q].chain /\ g.list[r].endpoint = g.list[q].endpoint => r = q
    /\ CountOf(g.list, works) = CountOf(f.list, works) + 1
    /\ \A w : w # works => CountOf(g.list, w) = CountOf(f.list, w)
    /\ Listed(g.list, n) = Listed(f.list, n) \cup {e}
    /\ \A m : m # n => Listed(g.list, m) = Listed(f.list, m)

LEMMA OneMoreIsTold ==
    ASSUME NEW f, NEW g, NEW n, NEW e, NEW works, Adds(f, g, n, e, works)
    PROVE  Added(f, g, n, e, works)
<1> DEFINE s == f.list
           t == g.list
           L == Len(s)
           Row == [chain : Nat, endpoint : Nat, works : BOOLEAN]
           x == [chain |-> n, endpoint |-> e, works |-> works]
<1>1. s \in Seq(Row) /\ x \in Row /\ x.chain = n /\ x.endpoint = e /\ x.works = works
    BY DEF Told, Adds
<1>2. \A r, q \in DOMAIN s : s[r].chain = s[q].chain /\ s[r].endpoint = s[q].endpoint => r = q
    BY DEF Told, Adds
<1>3. t = Append(s, x)
    BY DEF Adds
<1> HIDE DEF s, t, x, Row
<1>4. /\ t \in Seq(Row) /\ L \in Nat /\ Len(t) = L + 1 /\ DOMAIN s = 1 .. L /\ DOMAIN t = 1 .. L + 1
      /\ t[L + 1] = x /\ \A i \in 1 .. L : t[i] = s[i]
    BY <1>1, <1>3
<1> HIDE DEF L
<1>5. \A r \in DOMAIN s : ~(s[r].chain = n /\ s[r].endpoint = e)
    BY DEF Listed, Adds, s
<1>6. \A r \in 1 .. L + 1 : r = L + 1 \/ r \in 1 .. L
    BY <1>4
<1>7. \A r, q \in DOMAIN t : t[r].chain = t[q].chain /\ t[r].endpoint = t[q].endpoint => r = q
    BY <1>1, <1>2, <1>4, <1>5, <1>6
<1>8. Listed(t, n) = Listed(s, n) \cup {e}
    <2>1. ASSUME NEW y \in Listed(t, n) PROVE y \in Listed(s, n) \cup {e}
        <3>1. PICK r \in DOMAIN t : t[r].chain = n /\ y = t[r].endpoint
            BY <2>1 DEF Listed
        <3> QED BY <1>1, <1>4, <1>6, <3>1 DEF Listed
    <2>2. ASSUME NEW y \in Listed(s, n) PROVE y \in Listed(t, n)
        <3>1. PICK r \in DOMAIN s : s[r].chain = n /\ y = s[r].endpoint
            BY <2>2 DEF Listed
        <3>2. r \in DOMAIN t /\ t[r] = s[r]
            BY <1>4, <3>1
        <3> QED BY <3>1, <3>2 DEF Listed
    <2>3. e \in Listed(t, n)
        <3>1. L + 1 \in DOMAIN t /\ t[L + 1].chain = n /\ t[L + 1].endpoint = e
            BY <1>1, <1>4
        <3> QED BY <3>1 DEF Listed
    <2> QED BY <2>1, <2>2, <2>3
<1>9. ASSUME NEW m, m # n PROVE Listed(t, m) = Listed(s, m)
    <2>1. ASSUME NEW y \in Listed(t, m) PROVE y \in Listed(s, m)
        <3>1. PICK r \in DOMAIN t : t[r].chain = m /\ y = t[r].endpoint
            BY <2>1 DEF Listed
        <3>2. r \in 1 .. L
            BY <1>1, <1>4, <1>6, <1>9, <3>1
        <3> QED BY <1>4, <3>1, <3>2 DEF Listed
    <2>2. ASSUME NEW y \in Listed(s, m) PROVE y \in Listed(t, m)
        <3>1. PICK r \in DOMAIN s : s[r].chain = m /\ y = s[r].endpoint
            BY <2>2 DEF Listed
        <3>2. r \in DOMAIN t /\ t[r] = s[r]
            BY <1>4, <3>1
        <3> QED BY <3>1, <3>2 DEF Listed
    <2> QED BY <2>1, <2>2
<1>10. ASSUME NEW w, w # works PROVE CountOf(t, w) = CountOf(s, w)
    <2>1. {r \in DOMAIN t : t[r].works = w} = {r \in DOMAIN s : s[r].works = w}
        BY <1>1, <1>4, <1>6, <1>10
    <2> QED BY <2>1 DEF CountOf
<1>11. CountOf(t, works) = CountOf(s, works) + 1
    <2> DEFINE was == {r \in DOMAIN s : s[r].works = works}
               is == {r \in DOMAIN t : t[r].works = works}
    <2>1. was \in SUBSET DOMAIN s /\ L + 1 \notin was
        BY <1>4
    <2>2. is = was \cup {L + 1}
        BY <1>1, <1>4, <1>6
    <2>3. CountOf(t, works) = Cardinality(is) /\ CountOf(s, works) = Cardinality(was)
        BY DEF CountOf
    <2> HIDE DEF was, is
    <2>4. IsFiniteSet(was)
        BY <1>4, <2>1, PlacesAreFinite DEF L
    <2>5. Cardinality(was \cup {L + 1}) = Cardinality(was) + 1
        BY <2>1, <2>4, FS_AddElement
    <2> QED BY <2>2, <2>3, <2>5
<1> QED BY <1>4, <1>7, <1>8, <1>9, <1>10, <1>11 DEF Added, s, t, L, Row

LEMMA CountedIs ==
    ASSUME NEW c, NEW n, NEW works \in BOOLEAN, DOMAIN c = CycleFields
    PROVE  LET d == O!Counted(c, n, works)
           IN  /\ DOMAIN d = CycleFields
               /\ d.chains = c.chains /\ d.from = c.from /\ d.at = c.at /\ d.busy = c.busy
               /\ d.total = c.total /\ d.tested = c.tested
               /\ d.working = IF works THEN c.working + 1 ELSE c.working
               /\ d.failed = IF works THEN c.failed ELSE c.failed + 1
    BY DEF O!Counted, CycleFields

\* A test ends: what it found is in the list, and its chain goes on.
LEMMA TestIsTold ==
    ASSUME NEW c, NEW n \in c.busy, NEW works \in BOOLEAN, NEW lim, Progress(c, lim, findings), Told(findings)
    PROVE  LET d == O!Counted(c, n, works)
               g == O!Recorded(d, n, works)
           IN  Told(g) /\ Ready(d, n, lim, g) /\ d.from = c.from /\ d.chains = c.chains
<1> DEFINE d == O!Counted(c, n, works)
           g == O!Recorded(d, n, works)
           e == c.at[n]
           eps == c.chains[n]
<1>1. /\ DOMAIN c = CycleFields /\ c.chains \in Seq(Seq(BOOLEAN)) /\ c.busy \in SUBSET DOMAIN c.chains
      /\ c.tested = Len(findings.list) + Cardinality(c.busy) /\ c.tested <= c.total /\ c.total \in Nat /\ c.tested \in Nat
      /\ c.working = findings.working /\ c.failed = findings.failed
    BY DEF Progress, Shape
<1>2. DOMAIN c.chains = 1 .. Len(c.chains) /\ Len(c.chains) \in Nat /\ n \in DOMAIN c.chains /\ n \in Nat /\ eps \in Seq(BOOLEAN)
    BY <1>1
<1>3. /\ ChainAt(c, n, lim, findings.list) /\ e \in Nat /\ n < lim /\ e \in O!Testable(eps)
      /\ Listed(findings.list, n) = {x \in O!Testable(eps) : x < e}
    BY <1>2 DEF Progress, ChainAt
<1>4. O!Testable(eps) \in SUBSET (1 .. Len(eps)) /\ Len(eps) \in Nat
    BY <1>2, TestableAre
<1>5. /\ DOMAIN d = CycleFields
      /\ d.chains = c.chains /\ d.from = c.from /\ d.at = c.at /\ d.busy = c.busy
      /\ d.total = c.total /\ d.tested = c.tested
      /\ d.working = IF works THEN c.working + 1 ELSE c.working
      /\ d.failed = IF works THEN c.failed ELSE c.failed + 1
    BY <1>1, CountedIs
<1> HIDE DEF d
<1>6. /\ g.total = d.total /\ g.tested = d.tested /\ g.working = d.working /\ g.failed = d.failed
      /\ g.list = Append(findings.list, [chain |-> n, endpoint |-> e, works |-> works])
    BY <1>5 DEF O!Recorded
<1> HIDE DEF g
<1>7. e \notin Listed(findings.list, n)
    <2>1. ~(e < e)
        BY <1>3
    <2> QED BY <1>3, <2>1
<1> DEFINE l == findings.list
<1>8. /\ g.list \in Seq([chain : Nat, endpoint : Nat, works : BOOLEAN]) /\ Len(g.list) = Len(l) + 1
      /\ \A r, q \in DOMAIN g.list :
            g.list[r].chain = g.list[q].chain /\ g.list[r].endpoint = g.list[q].endpoint => r = q
      /\ CountOf(g.list, works) = CountOf(l, works) + 1
      /\ \A w : w # works => CountOf(g.list, w) = CountOf(l, w)
      /\ Listed(g.list, n) = Listed(l, n) \cup {e}
      /\ \A m : m # n => Listed(g.list, m) = Listed(l, m)
    <2> HIDE DEF e
    <2>1. Adds(findings, g, n, e, works)
        BY <1>2, <1>3, <1>6, <1>7 DEF Adds
    <2> DEFINE w == works
    <2>2. Adds(findings, g, n, e, w)
        BY <2>1
    <2> HIDE DEF w
    <2>3. Added(findings, g, n, e, w)
        BY <2>2, OneMoreIsTold
    <2>4. Added(findings, g, n, e, works)
        BY <2>3 DEF w
    <2> QED BY <2>4 DEF Added
<1>9. findings.working = CountOf(l, TRUE) /\ findings.failed = CountOf(l, FALSE) /\ Len(l) \in Nat
    BY DEF Told
<1> HIDE DEF l
<1>11. g.working = CountOf(g.list, TRUE) /\ g.failed = CountOf(g.list, FALSE)
    <2>1. CASE works = TRUE
        <3>1. CountOf(g.list, TRUE) = CountOf(l, TRUE) + 1 /\ CountOf(g.list, FALSE) = CountOf(l, FALSE)
            BY <1>8, <2>1, Zenon
        <3>2. g.working = c.working + 1 /\ g.failed = c.failed
            BY <1>5, <1>6, <2>1
        <3> QED BY <1>1, <1>9, <3>1, <3>2
    <2>2. CASE works = FALSE
        <3>1. CountOf(g.list, TRUE) = CountOf(l, TRUE) /\ CountOf(g.list, FALSE) = CountOf(l, FALSE) + 1
            BY <1>8, <2>2, Zenon
        <3>2. g.working = c.working /\ g.failed = c.failed + 1
            BY <1>5, <1>6, <2>2
        <3> QED BY <1>1, <1>9, <3>1, <3>2
    <2> QED BY <2>1, <2>2
<1> DEFINE Rest == c.busy \ {n}
<1>12. IsFiniteSet(c.busy) /\ Cardinality(Rest) = Cardinality(c.busy) - 1 /\ Cardinality(c.busy) \in Nat /\ Cardinality(Rest) \in Nat
    <2>1. 1 \in Int /\ Len(c.chains) \in Int
        BY <1>2
    <2>2. IsFiniteSet(1 .. Len(c.chains))
        BY <2>1, FS_Interval
    <2>3. IsFiniteSet(c.busy) /\ IsFiniteSet(Rest)
        <3>1. c.busy \in SUBSET (1 .. Len(c.chains)) /\ Rest \in SUBSET (1 .. Len(c.chains))
            BY <1>1, <1>2
        <3> HIDE DEF Rest
        <3> QED BY <2>2, <3>1, FS_Subset
    <2>4. Cardinality(Rest) = Cardinality(c.busy) - 1
        BY <2>3, FS_RemoveElement
    <2> QED BY <2>3, <2>4, FS_CardinalityType
<1> HIDE DEF Rest
<1>13. d.tested = Len(g.list) + Cardinality(Rest)
    BY <1>1, <1>5, <1>8, <1>9, <1>12 DEF l
<1>14. Len(g.list) <= g.tested /\ g.tested <= g.total
    <2>1. Len(g.list) \in Nat
        BY <1>8, <1>9
    <2> QED BY <1>1, <1>5, <1>6, <1>12, <1>13, <2>1
<1>15. Told(g)
    BY <1>8, <1>11, <1>14 DEF Told
<1>16. Listed(g.list, n) = {x \in O!Testable(eps) : x <= e}
    <2>1. \A x \in O!Testable(eps) : x <= e <=> (x < e \/ x = e)
        BY <1>3, <1>4
    <2> QED BY <1>3, <1>8, <2>1 DEF l
<1>17. ASSUME NEW m \in DOMAIN d.chains, m # n PROVE ChainAt(d, m, lim, g.list)
    <2>1. ChainAt(c, m, lim, findings.list)
        BY <1>5, <1>17 DEF Progress
    <2> QED BY <1>5, <1>8, <1>17, <2>1 DEF ChainAt, l
<1>18. Shape(d, g)
    BY <1>1, <1>5, <1>6 DEF Progress, Shape
<1>19. n \in DOMAIN d.chains /\ n < lim /\ d.at[n] \in Nat /\ d.at[n] <= Len(d.chains[n])
    BY <1>2, <1>3, <1>4, <1>5
<1>20. Ready(d, n, lim, g)
    BY <1>5, <1>13, <1>16, <1>17, <1>18, <1>19 DEF Ready, Rest
<1> QED BY <1>5, <1>15, <1>20 DEF d, g

\* All cycles but the last are over, and what is shown is of the last one.
OneCycleAtATime(runs, f) ==
    /\ \E S : runs \in Seq(S)
    /\ \A k \in DOMAIN runs : k < Len(runs) => O!Over(runs[k]) /\ runs[k].busy = {}
    /\ Told(f)
    /\ runs # <<>> =>
        /\ Progress(runs[Len(runs)], runs[Len(runs)].from + Concurrency, f)
        /\ O!Over(runs[Len(runs)]) => runs[Len(runs)].busy = {}

MonitorInv == OneCycleAtATime(cycles, findings)

LEMMA MonitorInvNext == OneCycleAtATime(cycles', findings') => MonitorInv'
    BY DEF MonitorInv

LEMMA MonitorBegins == O!Init => MonitorInv
<1> SUFFICES ASSUME O!Init PROVE MonitorInv
    OBVIOUS
<1>1. cycles = <<>> /\ findings = O!NoFindings
    BY DEF O!Init
<1>2. cycles \in Seq({}) /\ DOMAIN cycles = {}
    BY <1>1
<1>3. Told(findings)
    BY <1>1, NothingFound
<1> QED BY <1>1, <1>2, <1>3 DEF MonitorInv, OneCycleAtATime

\* A cycle begins after the last of s is over.
LEMMA CycleFollows ==
    ASSUME NEW s, \E S : s \in Seq(S), \A k \in DOMAIN s : O!Over(s[k]) /\ s[k].busy = {}, NEW chains \in Listings,
           cycles' = Append(s, O!NewCycle(chains)), findings' = O!NoFindings
    PROVE  MonitorInv'
<1> DEFINE b == O!NewCycle(chains)
<1>1. Progress(b, b.from + Concurrency, O!NoFindings) /\ (O!Over(b) => b.busy = {})
    BY CycleIsNew
<1> HIDE DEF b
<1>2. PICK S : s \in Seq(S)
    OBVIOUS
<1>3. s \in Seq(S \cup {b}) /\ Len(s) \in Nat /\ DOMAIN s = 1 .. Len(s)
    BY <1>2
<1>4. cycles' = Append(s, b)
    BY DEF b
<1>5. cycles' \in Seq(S \cup {b}) /\ Len(cycles') = Len(s) + 1 /\ DOMAIN cycles' = 1 .. Len(s) + 1
    BY <1>3, <1>4
<1>6. cycles'[Len(cycles')] = b /\ \A k \in 1 .. Len(s) : cycles'[k] = s[k]
    BY <1>3, <1>4, <1>5
<1>7. \A k \in DOMAIN cycles' : k < Len(cycles') => O!Over(cycles'[k]) /\ cycles'[k].busy = {}
    <2>1. \A k \in DOMAIN cycles' : k < Len(cycles') => k \in 1 .. Len(s)
        BY <1>3, <1>5
    <2> QED BY <1>3, <1>6, <2>1
<1>8. Told(findings') /\ findings' = O!NoFindings
    BY NothingFound
<1>9. Progress(b, b.from + Concurrency, findings')
    BY <1>1
<1>10. cycles' # <<>>
    BY <1>3, <1>5
<1> QED BY <1>1, <1>5, <1>6, <1>7, <1>8, <1>9, MonitorInvNext DEF OneCycleAtATime

\* The last cycle goes on.
LEMMA CycleGoesOn ==
    ASSUME MonitorInv, NEW k \in DOMAIN cycles, k = Len(cycles), NEW b, cycles' = [cycles EXCEPT ![k] = b],
           Told(findings'), Progress(b, b.from + Concurrency, findings'), O!Over(b) => b.busy = {}
    PROVE  MonitorInv'
<1>1. PICK S : cycles \in Seq(S)
    BY DEF MonitorInv, OneCycleAtATime
<1>2. cycles' \in Seq(S \cup {b}) /\ Len(cycles') = Len(cycles) /\ DOMAIN cycles' = DOMAIN cycles
    <2>1. cycles \in Seq(S \cup {b})
        BY <1>1
    <2> QED BY <2>1
<1>3. cycles'[k] = b /\ \A j \in DOMAIN cycles : j # k => cycles'[j] = cycles[j]
    BY <1>1
<1>4. \A j \in DOMAIN cycles' : j < Len(cycles') => O!Over(cycles'[j]) /\ cycles'[j].busy = {}
    <2>1. \A j \in DOMAIN cycles' : j < Len(cycles') => j \in DOMAIN cycles /\ j # k /\ j < Len(cycles)
        BY <1>1, <1>2
    <2> QED BY <1>3, <2>1 DEF MonitorInv, OneCycleAtATime
<1>5. cycles'[Len(cycles')] = b
    BY <1>2, <1>3
<1> QED BY <1>2, <1>4, <1>5, MonitorInvNext DEF OneCycleAtATime

\* It is the last one that waits or is not over.
LEMMA TheLastRuns ==
    ASSUME MonitorInv, NEW k \in DOMAIN cycles, cycles[k].busy # {} \/ ~O!Over(cycles[k])
    PROVE  /\ k = Len(cycles) /\ cycles # <<>>
           /\ Progress(cycles[k], cycles[k].from + Concurrency, findings) /\ Told(findings)
           /\ \A j \in DOMAIN cycles : j # k => O!Over(cycles[j]) /\ cycles[j].busy = {}
<1>1. Len(cycles) \in Nat /\ DOMAIN cycles = 1 .. Len(cycles)
    BY DEF MonitorInv, OneCycleAtATime
<1>2. ~(k < Len(cycles))
    BY DEF MonitorInv, OneCycleAtATime
<1>3. k = Len(cycles) /\ cycles # <<>>
    BY <1>1, <1>2
<1>4. \A j \in DOMAIN cycles : j # k => j < Len(cycles)
    BY <1>1, <1>3
<1> QED BY <1>3, <1>4 DEF MonitorInv, OneCycleAtATime

LEMMA MonitorStep == MonitorInv /\ [O!Next]_monitor => MonitorInv'
<1> SUFFICES ASSUME MonitorInv, [O!Next]_monitor PROVE MonitorInv'
    OBVIOUS
<1>1. CASE O!StartMonitoring
    <2>1. PICK chains \in Listings : cycles' = Append(cycles, O!NewCycle(chains))
        BY <1>1 DEF O!StartMonitoring
    <2>2. \A k \in DOMAIN cycles : O!Over(cycles[k])
        BY <1>1 DEF O!StartMonitoring, O!MayStart, O!InProgress
    <2>3. Len(cycles) \in Nat /\ DOMAIN cycles = 1 .. Len(cycles)
        BY DEF MonitorInv, OneCycleAtATime
    <2>4. ASSUME NEW k \in DOMAIN cycles PROVE cycles[k].busy = {}
        <3>1. CASE k < Len(cycles)
            BY <3>1 DEF MonitorInv, OneCycleAtATime
        <3>2. CASE ~(k < Len(cycles))
            <4>1. k = Len(cycles) /\ cycles # <<>>
                BY <2>3, <3>2
            <4> QED BY <2>2, <4>1 DEF MonitorInv, OneCycleAtATime
        <3> QED BY <3>1, <3>2
    <2>5. findings' = O!NoFindings
        BY <1>1 DEF O!StartMonitoring
    <2>6. \E S : cycles \in Seq(S)
        BY DEF MonitorInv, OneCycleAtATime
    <2> QED BY <2>1, <2>2, <2>4, <2>5, <2>6, CycleFollows
<1>2. ASSUME NEW k \in DOMAIN cycles, NEW n \in cycles[k].busy, NEW works \in BOOLEAN, O!EndsTest(k, n, works)
      PROVE  MonitorInv'
    <2> DEFINE c == cycles[k]
               lim == c.from + Concurrency
               d == O!Counted(c, n, works)
               g == O!Recorded(d, n, works)
               b == O!Advanced(d, n)
    <2>1. k = Len(cycles) /\ Progress(c, lim, findings) /\ Told(findings)
        BY TheLastRuns
    <2>2. Told(g) /\ Ready(d, n, lim, g) /\ d.from = c.from /\ d.chains = c.chains
        <3> HIDE DEF c, lim
        <3>1. n \in c.busy
            BY DEF c
        <3> QED BY <2>1, <3>1, TestIsTold
    <2>3. findings' = g /\ cycles' = [cycles EXCEPT ![k] = b]
        BY <1>2 DEF O!EndsTest
    <2> HIDE DEF d, g
    <2>4. Progress(b, lim, g) /\ b.chains = d.chains /\ b.from = d.from
        <3>1. Len(g.list) \in Nat
            BY <2>2 DEF Told
        <3> QED BY <2>2, <3>1, ReadyGoesOn
    <2>5. ~O!Over(b)
        <3>1. ~O!Over(c)
            <4>1. cycles # <<>>
                BY TheLastRuns
            <4> QED BY <2>1, <4>1 DEF MonitorInv, OneCycleAtATime
        <3> QED BY <2>2, <2>4, <3>1 DEF O!Over
    <2> QED BY <2>1, <2>2, <2>3, <2>4, <2>5, CycleGoesOn
<1>3. ASSUME NEW k \in DOMAIN cycles, O!BatchEnds(k) PROVE MonitorInv'
    <2> DEFINE c == cycles[k]
               after == [c EXCEPT !.from = @ + Concurrency]
    <2>1. /\ k = Len(cycles) /\ Progress(c, c.from + Concurrency, findings) /\ Told(findings) /\ c.busy = {}
          /\ \A j \in DOMAIN cycles : j # k => O!Over(cycles[j]) /\ cycles[j].busy = {}
        BY <1>3, TheLastRuns DEF O!BatchEnds
    <2> HIDE DEF c
    <2>2. /\ DOMAIN after = CycleFields /\ after.chains = c.chains /\ after.from = c.from + Concurrency /\ after.at = c.at
          /\ after.busy = c.busy /\ after.total = c.total /\ after.tested = c.tested /\ after.working = c.working
          /\ after.failed = c.failed
        BY <2>1 DEF Progress, Shape, CycleFields
    <2>3. /\ \/ loop /\ O!Over(after)
                /\ \E chains \in Listings : cycles' = Append([cycles EXCEPT ![k] = after], O!NewCycle(chains))
                /\ findings' = O!NoFindings
             \/ cycles' = [cycles EXCEPT ![k] = O!BatchBegun(after)] /\ UNCHANGED findings
        BY <1>3 DEF O!BatchEnds, c
    <2> HIDE DEF after
    <2>4. c.from \in Nat \ {0} /\ after.from \in Nat \ {0}
        <3>1. c.from \in Nat \ {0}
            BY <2>1 DEF Progress, Shape
        <3> QED BY <2>2, <3>1, ServicesAssumption DEF O!MonitorAssumption
    <2>5. Progress(after, after.from, findings)
        <3>1. Shape(after, findings)
            BY <2>1, <2>2, <2>4 DEF Progress, Shape
        <3>2. ASSUME NEW n \in DOMAIN after.chains PROVE ChainAt(after, n, after.from, findings.list)
            <4>1. ChainAt(c, n, after.from, findings.list)
                BY <2>1, <2>2 DEF Progress
            <4> QED BY <2>2, <4>1 DEF ChainAt
        <3>3. after.tested = Len(findings.list) + Cardinality(after.busy)
            BY <2>1, <2>2 DEF Progress
        <3> QED BY <3>1, <3>2, <3>3 DEF Progress
    <2>6. CASE /\ loop /\ O!Over(after)
               /\ \E chains \in Listings : cycles' = Append([cycles EXCEPT ![k] = after], O!NewCycle(chains))
               /\ findings' = O!NoFindings
        <3> DEFINE s == [cycles EXCEPT ![k] = after]
        <3>1. \A j \in DOMAIN s : O!Over(s[j]) /\ s[j].busy = {}
            BY <2>1, <2>2, <2>6
        <3>2. \E S : s \in Seq(S)
            <4>1. PICK S : cycles \in Seq(S)
                BY DEF MonitorInv, OneCycleAtATime
            <4>2. cycles \in Seq(S \cup {after})
                BY <4>1
            <4>3. s \in Seq(S \cup {after})
                BY <4>2
            <4> QED BY <4>3
        <3>3. PICK chains \in Listings : cycles' = Append(s, O!NewCycle(chains))
            BY <2>6
        <3> HIDE DEF s
        <3> QED BY <2>6, <3>1, <3>2, <3>3, CycleFollows
    <2>7. CASE cycles' = [cycles EXCEPT ![k] = O!BatchBegun(after)] /\ UNCHANGED findings
        <3> DEFINE b == O!BatchBegun(after)
        <3>1. Len(findings.list) \in Nat
            BY <2>1 DEF Told
        <3>2. Progress(b, b.from + Concurrency, findings) /\ (O!Over(b) => b.busy = {})
            BY <2>1, <2>2, <2>5, <3>1, BatchIsBegun
        <3>3. cycles' = [cycles EXCEPT ![k] = b]
            BY <2>7
        <3> HIDE DEF b
        <3> QED BY <2>1, <2>7, <3>2, <3>3, CycleGoesOn
    <2> QED BY <2>3, <2>6, <2>7
<1>4. CASE UNCHANGED monitor
    <2>1. cycles' = cycles /\ findings' = findings
        BY <1>4 DEF monitor
    <2>2. OneCycleAtATime(cycles', findings')
        BY <2>1 DEF MonitorInv
    <2> QED BY <2>2, MonitorInvNext
<1> QED BY <1>1, <1>2, <1>3, <1>4 DEF O!Next

LEMMA MonitorInvMeans == MonitorInv => O!FindingsAreOfOneCycle
<1> SUFFICES ASSUME MonitorInv PROVE O!FindingsAreOfOneCycle
    OBVIOUS
<1>1. /\ \A r, q \in DOMAIN findings.list :
          findings.list[r].chain = findings.list[q].chain /\ findings.list[r].endpoint = findings.list[q].endpoint => r = q
      /\ Len(findings.list) <= findings.tested /\ findings.tested <= findings.total
    BY DEF MonitorInv, OneCycleAtATime, Told
<1>2. findings.working = O!With(TRUE) /\ findings.failed = O!With(FALSE)
    BY DEF MonitorInv, OneCycleAtATime, Told, CountOf, O!With, O!Cardinality, Cardinality
<1>3. ASSUME cycles # <<>>, ~O!InProgress, NEW n \in DOMAIN cycles[Len(cycles)].chains
      PROVE  Listed(findings.list, n) = O!Testable(cycles[Len(cycles)].chains[n])
    <2> DEFINE c == cycles[Len(cycles)]
    <2>1. Len(cycles) \in DOMAIN cycles
        BY <1>3 DEF MonitorInv, OneCycleAtATime
    <2>2. O!Over(c) /\ c.busy = {}
        BY <1>3, <2>1 DEF MonitorInv, OneCycleAtATime, O!InProgress
    <2>3. Progress(c, c.from + Concurrency, findings)
        BY <1>3 DEF MonitorInv, OneCycleAtATime
    <2> HIDE DEF c
    <2>4. c.chains \in Seq(Seq(BOOLEAN)) /\ c.from \in Nat /\ Concurrency \in Nat /\ n \in DOMAIN c.chains
        BY <1>3, <2>3, ServicesAssumption DEF Progress, Shape, c, O!MonitorAssumption
    <2>5. n < c.from + Concurrency
        BY <2>2, <2>4 DEF O!Over
    <2>6. c.at[n] = Len(c.chains[n]) + 1 /\ Listed(findings.list, n) = {e \in O!Testable(c.chains[n]) : e < c.at[n]}
        BY <2>2, <2>3, <2>4, <2>5 DEF Progress, ChainAt
    <2>7. c.chains[n] \in Seq(BOOLEAN)
        BY <2>4
    <2>8. O!Testable(c.chains[n]) \in SUBSET (1 .. Len(c.chains[n])) /\ Len(c.chains[n]) \in Nat
        BY <2>7, TestableAre
    <2>9. \A e \in O!Testable(c.chains[n]) : e < Len(c.chains[n]) + 1
        BY <2>8
    <2> QED BY <2>6, <2>9 DEF c
<1> QED BY <1>1, <1>2, <1>3 DEF O!FindingsAreOfOneCycle, Listed

LEMMA MonitorRunsAlone == ServicesSpec => O!Init /\ [][O!Next]_monitor
<1>1. ServicesInit => O!Init
    BY DEF ServicesInit
<1>2. [ServicesNext]_everything => [O!Next]_monitor
    BY DEF ServicesNext, everything, PricesRun, JobsRun, TurnRun, NodesRun, MetricsRun, ExplorerRun, ProxyRun,
           ListsRun, MonitorRuns, RulesRun, Over, monitor
<1> QED BY <1>1, <1>2, PTL DEF ServicesSpec

\* What the monitor shows is of one cycle (rpcMonitor.js:190), for any listing of any number of
\* chains and endpoints, any batch size and any order in which tests of a batch end.
LEMMA MonitorShowsOneCycle == ServicesSpec => []O!FindingsAreOfOneCycle
    BY MonitorBegins, MonitorStep, MonitorInvMeans, MonitorRunsAlone, PTL

-----------------------------------------------------------------------------
(* What is kept and reported                                               *)

LEMMA MeansStayWhole == ServicesSpec => []G!MeansAreOfWholeWindows
<1>1. FilesInv => G!MeansAreOfWholeWindows
    BY GoodCopiesGiveWholeMeans DEF FilesInv
<1> QED BY <1>1, FilesBegin, FilesStep, FilesRunAlone, PTL

LEMMA SearchStaysInOrder == ServicesSpec => []Q!NamedIsAboveLookalikes
<1>1. Q!Init => SearchInv
    BY DEF Q!Init, SearchInv
<1> QED BY <1>1, SearchInvStep, NamedAreFoundFirst, ListsRunAlone, PTL

\* The count of the bytes that the proxy keeps is that of the bodies there are, and within both
\* bounds (clientFeed.js:48); a mean is of a whole window (growthepie.js:466); what has the name
\* that is asked for is above what only carries it (queries.js:110); and what the monitor shows is
\* of one cycle (rpcMonitor.js:190): whatever the sizes, rows, chains, batches and bounds.
THEOREM ReportsAreAlwaysSound == ServicesSpec => []ReportsAreSound
<1>1. F!CacheIsBounded /\ G!MeansAreOfWholeWindows /\ Q!NamedIsAboveLookalikes /\ O!FindingsAreOfOneCycle
          => ReportsAreSound
    BY DEF ReportsAreSound
<1> QED BY <1>1, CacheStaysBounded, MeansStayWhole, SearchStaysInOrder, MonitorShowsOneCycle, PTL

=============================================================================
