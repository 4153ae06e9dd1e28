----------------------------- MODULE IndexProofs -----------------------------
(***************************************************************************)
(* What is proved of the index (ChainIndex), for any finite registries.    *)
(*                                                                         *)
(* IndexInv says what the index is of: the raw data are a registry's, and  *)
(* every record is what indexData would build of them, up to the fields    *)
(* that L2BEAT's answers set.  What is said of the records then follows    *)
(* from the data alone: a growing set settles in as many steps as it has   *)
(* elements to gain, and chains of parents without a cycle end.  The walk  *)
(* over relations has an invariant of its own, WalkOK, which each of its   *)
(* steps keeps.                                                            *)
(***************************************************************************)
EXTENDS MCCatalogue, FiniteSetTheorems, SequenceTheorems, WellFoundedInduction, TLAPS

-----------------------------------------------------------------------------
(* Finite sets: one of some elements is the first, in whatever order, for  *)
(* a set without would have a smallest subset without.                     *)

LEMMA FiniteHasFirst ==
    ASSUME NEW Set, IsFiniteSet(Set), Set # {}, NEW R,
           \A x, y \in Set : <<x, y>> \in R \/ <<y, x>> \in R,
           \A x, y, z \in Set : <<x, y>> \in R /\ <<y, z>> \in R => <<x, z>> \in R
    PROVE  \E m \in Set : \A x \in Set : <<m, x>> \in R
<1> DEFINE Has(U) == \E m \in U : \A x \in U : <<m, x>> \in R
           Bad == {U \in SUBSET Set : U # {} /\ ~Has(U)}
           Less == StrictSubsetOrdering(Set)
<1> SUFFICES ASSUME ~Has(Set) PROVE FALSE
    OBVIOUS
<1>1. IsWellFoundedOn(Less, SUBSET Set)
    BY FS_StrictSubsetOrderingWellFounded, FS_FiniteSubsetsOfFinite
<1>2. Set \in Bad
    OBVIOUS
<1>3. PICK U \in Bad : \A W \in Bad : ~(<<W, U>> \in Less)
    <2>1. Bad \subseteq SUBSET Set /\ Bad # {}
        BY <1>2
    <2> HIDE DEF Bad, Less
    <2> QED BY <1>1, <2>1, WFMin
<1>4. PICK x \in U : TRUE
    BY <1>3
<1> DEFINE W == U \ {x}
<1>5. CASE W = {}
    <2>1. U = {x} /\ x \in Set
        BY <1>3, <1>4, <1>5
    <2> QED BY <1>3, <2>1
<1>6. CASE W # {}
    <2>1. <<W, U>> \in Less
        BY <1>3, <1>4 DEF StrictSubsetOrdering
    <2>2. W \in SUBSET Set /\ W \notin Bad
        BY <1>3, <2>1
    <2>3. PICK m \in W : \A y \in W : <<m, y>> \in R
        BY <1>6, <2>2
    <2>4. m \in Set /\ x \in Set /\ U \subseteq Set /\ <<x, x>> \in R
        BY <1>3, <1>4
    <2>5. CASE <<m, x>> \in R
        BY <1>3, <2>3, <2>4, <2>5
    <2>6. CASE <<x, m>> \in R
        <3>1. \A y \in U : <<x, y>> \in R
            BY <2>3, <2>4, <2>6
        <3> QED BY <1>3, <1>4, <3>1
    <2> QED BY <2>4, <2>5, <2>6
<1> QED BY <1>5, <1>6

LEMMA FiniteHasLeast ==
    ASSUME NEW Set \in SUBSET Int, IsFiniteSet(Set), Set # {}
    PROVE  \E m \in Set : \A x \in Set : m <= x
<1> DEFINE R == {p \in Set \X Set : p[1] <= p[2]}
<1>1. /\ \A x, y \in Set : <<x, y>> \in R \/ <<y, x>> \in R
      /\ \A x, y, z \in Set : <<x, y>> \in R /\ <<y, z>> \in R => <<x, z>> \in R
    OBVIOUS
<1>2. \E m \in Set : \A x \in Set : <<m, x>> \in R
    <2> HIDE DEF R
    <2> QED BY <1>1, FiniteHasFirst
<1> QED BY <1>2

-----------------------------------------------------------------------------
(* What n steps make of a value.                                           *)

LEMMA ImagesAreFinite == ASSUME NEW Set, IsFiniteSet(Set), NEW f PROVE IsFiniteSet({f[x] : x \in Set})
<1> DEFINE g == [x \in Set |-> f[x]]
<1>1. g \in Surjection(Set, {f[x] : x \in Set})
    BY DEF Surjection
<1> QED BY <1>1, FS_Surjection

\* A set with 0 that has the successor of each of its numbers has them all.
LEMMA EachFollows ==
    ASSUME NEW Set, 0 \in Set, \A n \in Nat : n \in Set => n + 1 \in Set
    PROVE  Nat \subseteq Set
<1> SUFFICES ASSUME NEW k \in Nat, k \notin Set PROVE FALSE
    OBVIOUS
<1> DEFINE Bad == {n \in 0..k : n \notin Set}
<1>1. Bad \in SUBSET Int /\ IsFiniteSet(Bad) /\ Bad # {}
    <2>1. IsFiniteSet(0..k) /\ Bad \subseteq 0..k
        BY FS_Interval
    <2>2. k \in Bad
        OBVIOUS
    <2>3. IsFiniteSet(Bad)
        <3> HIDE DEF Bad
        <3> QED BY <2>1, FS_Subset
    <2> QED BY <2>1, <2>2, <2>3
<1>2. PICK m \in Bad : \A x \in Bad : m <= x
    <2> HIDE DEF Bad
    <2> QED BY <1>1, FiniteHasLeast
<1>3. m # 0 /\ m \in 0..k /\ m \notin Set
    BY <1>2
<1>4. m - 1 \in Set
    BY <1>2, <1>3
<1>5. m - 1 \in Nat /\ (m - 1) + 1 = m
    BY <1>3
<1> QED BY <1>3, <1>4, <1>5

\* f lists what 0..n steps make of a value.
IsRun(f, step, n, value) == f = [i \in 0..n |-> IF i = 0 THEN value ELSE step[f[i - 1]]]

LEMMA RunsAre ==
    ASSUME NEW step, NEW value
    PROVE  \A n \in Nat : \E f : IsRun(f, step, n, value)
<1> DEFINE Has == {n \in Nat : \E f : IsRun(f, step, n, value)}
<1>1. 0 \in Has
    <2> DEFINE f == [i \in 0..0 |-> value]
    <2>1. IsRun(f, step, 0, value)
        BY DEF IsRun
    <2> QED BY <2>1
<1>2. ASSUME NEW n \in Nat, n \in Has PROVE n + 1 \in Has
    <2>1. PICK f : IsRun(f, step, n, value)
        BY <1>2
    <2> DEFINE g == [i \in 0..n + 1 |-> IF i = n + 1 THEN step[f[n]] ELSE f[i]]
    <2>2. ASSUME NEW i \in 0..n + 1 PROVE g[i] = IF i = 0 THEN value ELSE step[g[i - 1]]
        <3>1. CASE i = n + 1
            <4>1. g[i] = step[f[n]] /\ i # 0 /\ i - 1 = n /\ n \in 0..n + 1 /\ n # n + 1
                BY <3>1
            <4> QED BY <4>1
        <3>2. CASE i # n + 1
            <4>1. i \in 0..n /\ g[i] = f[i]
                BY <3>2
            <4>2. f[i] = IF i = 0 THEN value ELSE step[f[i - 1]]
                BY <2>1, <4>1 DEF IsRun
            <4>3. i # 0 => i - 1 \in 0..n + 1 /\ i - 1 # n + 1 /\ g[i - 1] = f[i - 1]
                BY <3>2
            <4> QED BY <4>1, <4>2, <4>3
        <3> QED BY <3>1, <3>2
    <2>3. IsRun(g, step, n + 1, value)
        BY <2>2 DEF IsRun
    <2> QED BY <2>3
<1>3. Nat \subseteq Has
    <2> HIDE DEF Has
    <2> QED BY <1>1, <1>2, EachFollows
<1> QED BY <1>3

LEMMA RunsAgree ==
    ASSUME NEW step, NEW value, NEW n \in Nat, NEW m \in Nat, NEW f, NEW g,
           IsRun(f, step, n, value), IsRun(g, step, m, value), n <= m
    PROVE  \A i \in 0..n : f[i] = g[i]
<1> DEFINE Same == {i \in Nat : i <= n => f[i] = g[i]}
<1>1. 0 \in Same
    BY DEF IsRun
<1>2. ASSUME NEW i \in Nat, i \in Same PROVE i + 1 \in Same
    <2> SUFFICES ASSUME i + 1 <= n PROVE f[i + 1] = g[i + 1]
        OBVIOUS
    <2>1. i + 1 \in 0..n /\ i + 1 \in 0..m /\ i + 1 # 0 /\ (i + 1) - 1 = i /\ f[i] = g[i]
        BY <1>2
    <2>2. f[i + 1] = step[f[i]]
        BY <2>1 DEF IsRun
    <2>3. g[i + 1] = step[g[i]]
        BY <2>1 DEF IsRun
    <2> QED BY <2>1, <2>2, <2>3
<1>3. Nat \subseteq Same
    <2> HIDE DEF Same
    <2> QED BY <1>1, <1>2, EachFollows
<1> QED BY <1>3

\* After(step, n, value), one step at a time.
LEMMA AfterIs ==
    ASSUME NEW step, NEW value
    PROVE  /\ After(step, 0, value) = value
           /\ \A n \in Nat : After(step, n + 1, value) = step[After(step, n, value)]
<1> DEFINE RunOf(n) == CHOOSE f : IsRun(f, step, n, value)
<1>1. ASSUME NEW n \in Nat PROVE IsRun(RunOf(n), step, n, value) /\ After(step, n, value) = RunOf(n)[n]
    <2>1. IsRun(RunOf(n), step, n, value)
        BY RunsAre
    <2>2. After(step, n, value) = RunOf(n)[n]
        BY DEF After, IsRun
    <2> QED BY <2>1, <2>2
<1> HIDE DEF RunOf
<1>2. After(step, 0, value) = value
    BY <1>1 DEF IsRun
<1>3. ASSUME NEW n \in Nat PROVE After(step, n + 1, value) = step[After(step, n, value)]
    <2>1. IsRun(RunOf(n), step, n, value) /\ IsRun(RunOf(n + 1), step, n + 1, value)
        BY <1>1
    <2>2. RunOf(n)[n] = RunOf(n + 1)[n]
        BY <2>1, RunsAgree
    <2>3. RunOf(n + 1)[n + 1] = step[RunOf(n + 1)[n]]
        <3>1. n + 1 \in 0..n + 1 /\ n + 1 # 0 /\ (n + 1) - 1 = n
            OBVIOUS
        <3> QED BY <2>1, <3>1 DEF IsRun
    <2> QED BY <1>1, <2>2, <2>3
<1> QED BY <1>2, <1>3

LEMMA AfterStaysIn ==
    ASSUME NEW step, NEW Good, NEW value \in Good, \A x \in Good : step[x] \in Good
    PROVE  \A n \in Nat : After(step, n, value) \in Good
<1> DEFINE Has == {n \in Nat : After(step, n, value) \in Good}
<1>1. 0 \in Has /\ \A n \in Nat : n \in Has => n + 1 \in Has
    BY AfterIs
<1>2. Nat \subseteq Has
    <2> HIDE DEF Has
    <2> QED BY <1>1, EachFollows
<1> QED BY <1>2

\* A growing subset of a finite set settles in as many steps as that has elements.
LEMMA GrowingSettles ==
    ASSUME NEW Set, IsFiniteSet(Set), NEW step, \A D1 \in SUBSET Set : step[D1] \in SUBSET Set /\ D1 \subseteq step[D1],
           NEW value \in SUBSET Set
    PROVE  LET end == After(step, Cardinality(Set), value)
           IN  end \in SUBSET Set /\ value \subseteq end /\ step[end] = end
<1> DEFINE Within1(n) == After(step, n, value)
           Has == {n \in Nat : step[Within1(n)] = Within1(n) \/ Cardinality(Within1(n)) >= n}
           Good == {D1 \in SUBSET Set : value \subseteq D1}
<1>1. ASSUME NEW n \in Nat PROVE Within1(n) \in Good
    <2>1. \A D1 \in Good : step[D1] \in Good
        OBVIOUS
    <2>2. value \in Good
        OBVIOUS
    <2> HIDE DEF Good
    <2> QED BY <2>1, <2>2, AfterStaysIn
<1>2. ASSUME NEW D1 \in SUBSET Set PROVE IsFiniteSet(D1) /\ Cardinality(D1) \in Nat /\ Cardinality(D1) <= Cardinality(Set)
                                         /\ (Cardinality(D1) = Cardinality(Set) => D1 = Set)
    BY FS_Subset, FS_CardinalityType
<1>3. 0 \in Has
    <2>1. Cardinality(Within1(0)) \in Nat
        BY <1>1, <1>2
    <2> HIDE DEF Within1
    <2> QED BY <2>1
<1>4. ASSUME NEW n \in Nat, n \in Has PROVE n + 1 \in Has
    <2>1. Within1(n + 1) = step[Within1(n)] /\ Within1(n) \in SUBSET Set /\ Within1(n + 1) \in SUBSET Set /\ Within1(n) \subseteq Within1(n + 1)
        BY <1>1, AfterIs
    <2> HIDE DEF Within1
    <2>2. CASE step[Within1(n)] = Within1(n)
        BY <2>1, <2>2
    <2>3. CASE step[Within1(n)] # Within1(n)
        <3>1. Cardinality(Within1(n)) >= n
            BY <1>4, <2>3
        <3>2. IsFiniteSet(Within1(n + 1)) /\ Cardinality(Within1(n)) \in Nat /\ Cardinality(Within1(n + 1)) \in Nat
            BY <1>2, <2>1
        <3>3. Cardinality(Within1(n)) < Cardinality(Within1(n + 1))
            <4>1. Cardinality(Within1(n)) <= Cardinality(Within1(n + 1)) /\ Cardinality(Within1(n)) # Cardinality(Within1(n + 1))
                BY <2>1, <2>3, <3>2, FS_Subset
            <4> QED BY <3>2, <4>1
        <3>4. Cardinality(Within1(n + 1)) >= n + 1
            BY <3>1, <3>2, <3>3
        <3> QED BY <3>4
    <2> QED BY <2>2, <2>3
<1>5. Nat \subseteq Has
    <2> HIDE DEF Has
    <2> QED BY <1>3, <1>4, EachFollows
<1> DEFINE n == Cardinality(Set)
<1>6. n \in Nat /\ n \in Has /\ Within1(n) \in Good
    <2>1. n \in Nat
        BY FS_CardinalityType
    <2> HIDE DEF Has, Good, Within1, n
    <2> QED BY <2>1, <1>1, <1>5
<1>7. step[Within1(n)] = Within1(n)
    <2>1. CASE Cardinality(Within1(n)) >= n
        <3>1. Within1(n) \in SUBSET Set /\ Cardinality(Within1(n)) \in Nat /\ Cardinality(Within1(n)) <= n
            BY <1>2, <1>6
        <3>2. Cardinality(Within1(n)) = n
            <4> HIDE DEF Within1, n
            <4> QED BY <2>1, <3>1, <1>6
        <3>3. Within1(n) = Set
            BY <1>2, <3>1, <3>2
        <3>4. step[Set] = Set
            OBVIOUS
        <3> QED BY <3>3, <3>4
    <2> QED BY <1>6, <2>1
<1> QED BY <1>6, <1>7

-----------------------------------------------------------------------------
(* Identity: the sources a record is built of, and what is left of them.   *)

LEMMA KeptIs ==
    ASSUME NEW r, NEW id, NEW src \in Source, id \in DOMAIN r[src]
    PROVE  /\ Kept(r, id) # {} /\ Kept(r, id) \subseteq {s \in Source : id \in DOMAIN r[s]}
           /\ \A a, b \in Kept(r, id) : SameNetwork(r[a][id], r[b][id])
<1> DEFINE With == {s \in Source : id \in DOMAIN r[s]}
           Groups == {g \in SUBSET With : \A a, b \in g : SameNetwork(r[a][id], r[b][id])}
           Largest == {g \in Groups : \A h \in Groups : Cardinality(h) <= Cardinality(g)}
           Mask(g) == (IF "chains" \in g THEN Bit["chains"] ELSE 0) + (IF "theGraph" \in g THEN Bit["theGraph"] ELSE 0)
                      + (IF "chainlist" \in g THEN Bit["chainlist"] ELSE 0)
<1>1. IsFiniteSet(With)
    <2>1. IsFiniteSet(Source)
        <3>1. IsFiniteSet({}) /\ Source = (({} \cup {"chains"}) \cup {"theGraph"}) \cup {"chainlist"}
            BY FS_EmptySet DEF Source
        <3> QED BY <3>1, FS_AddElement
    <2> QED BY <2>1, FS_Subset
<1>2. {src} \in Groups /\ Cardinality({src}) = 1
    BY FS_Singleton DEF SameNetwork
<1>3. IsFiniteSet(Groups)
    <2>1. IsFiniteSet(SUBSET With)
        BY <1>1, FS_SUBSET
    <2>2. Groups \subseteq SUBSET With
        OBVIOUS
    <2> HIDE DEF Groups, With
    <2> QED BY <2>1, <2>2, FS_Subset
<1>4. ASSUME NEW g \in Groups PROVE IsFiniteSet(g) /\ Cardinality(g) \in Nat
    BY <1>1, FS_Subset, FS_CardinalityType
<1>5. Largest # {}
    <2> DEFINE R == {p \in Groups \X Groups : Cardinality(p[2]) <= Cardinality(p[1])}
    <2>1. \A x, y \in Groups : <<x, y>> \in R <=> Cardinality(y) <= Cardinality(x)
        BY Zenon
    <2>2. \A x \in Groups : Cardinality(x) \in Nat
        BY <1>4
    <2>3. Groups # {}
        BY <1>2
    <2> HIDE DEF R, Groups
    <2>4. /\ \A x, y \in Groups : <<x, y>> \in R \/ <<y, x>> \in R
          /\ \A x, y, z \in Groups : <<x, y>> \in R /\ <<y, z>> \in R => <<x, z>> \in R
        BY <2>1, <2>2
    <2>5. \E m \in Groups : \A x \in Groups : <<m, x>> \in R
        BY <1>3, <2>3, <2>4, FiniteHasFirst
    <2> QED BY <2>1, <2>5
<1>6. \E g \in Largest : \A h \in Largest : Mask(g) <= Mask(h)
    <2> DEFINE Masks == {Mask(g) : g \in Largest}
    <2>1. Masks \in SUBSET Int
        BY DEF Bit, Source
    <2>2. Masks # {}
        BY <1>5
    <2>3. IsFiniteSet(Masks)
        <3>1. IsFiniteSet(Largest)
            BY <1>3, FS_Subset
        <3> DEFINE f == [g \in Largest |-> Mask(g)]
        <3>2. Masks = {f[g] : g \in Largest}
            OBVIOUS
        <3> HIDE DEF Largest, Mask, f, Masks
        <3> QED BY <3>1, <3>2, ImagesAreFinite
    <2>4. \E m \in Masks : \A x \in Masks : m <= x
        <3> HIDE DEF Masks
        <3> QED BY <2>1, <2>2, <2>3, FiniteHasLeast
    <2> HIDE DEF Mask, Largest
    <2> QED BY <2>4
<1>7. Kept(r, id) = CHOOSE g \in Largest : \A h \in Largest : Mask(g) <= Mask(h)
    BY DEF Kept
<1>8. Kept(r, id) \in Largest
    <2> HIDE DEF Largest, Mask
    <2> QED BY <1>6, <1>7
<1>9. Kept(r, id) # {}
    <2>1. Cardinality({src}) <= Cardinality(Kept(r, id))
        BY <1>2, <1>8
    <2>2. Cardinality({}) = 0
        BY FS_EmptySet
    <2> QED BY <1>2, <2>1, <2>2
<1> QED BY <1>8, <1>9

LEMMA CleanIs ==
    ASSUME NEW r, NEW s \in Source
    PROVE  LET c == Clean(r, Excluded(r))
           IN  /\ DOMAIN c[s] = {id \in DOMAIN r[s] : s \in Kept(r, id)}
               /\ \A id \in DOMAIN c[s] : c[s][id] = r[s][id]
BY DEF Clean, Excluded, Restrict

LEMMA CleanHasAll == ASSUME NEW r PROVE Ids(Clean(r, Excluded(r))) = UNION {DOMAIN r[s] : s \in Source}
<1> DEFINE c == Clean(r, Excluded(r))
<1>1. ASSUME NEW s \in Source, NEW id \in DOMAIN c[s] PROVE id \in DOMAIN r[s]
    BY CleanIs
<1>2. ASSUME NEW s \in Source, NEW id \in DOMAIN r[s] PROVE \E x \in Source : id \in DOMAIN c[x]
    <2>1. PICK x \in Kept(r, id) : x \in Source /\ id \in DOMAIN r[x]
        BY KeptIs
    <2> QED BY <2>1, CleanIs
<1> HIDE DEF c
<1> QED BY <1>1, <1>2 DEF Ids, c

-----------------------------------------------------------------------------
(* What L2BEAT's answers leave of a record.                                *)

RecordFields == {"sources", "relations", "tags", "status", "reason", "l2Beat"}

\* Two records differ at most in what L2BEAT's answers set.
SameRecord(x, y) ==
    /\ DOMAIN x = RecordFields
    /\ x.sources = y.sources /\ x.relations = y.relations /\ x.status = y.status /\ x.reason = y.reason
    /\ "Testnet" \in x.tags <=> "Testnet" \in y.tags

SameRecords(ix, records) == DOMAIN ix = DOMAIN records /\ \A id \in DOMAIN records : SameRecord(ix[id], records[id])

\* An answer of L2BEAT changes no other field.
LEMMA RecordsStay ==
    ASSUME NEW ix, NEW records, SameRecords(ix, records), NEW projects
    PROVE  SameRecords(WithL2Beat(ix, projects), records)
<1> DEFINE new == WithL2Beat(ix, projects)
<1>1. DOMAIN new = DOMAIN records
    BY DEF WithL2Beat, SameRecords
<1>2. ASSUME NEW id \in DOMAIN records PROVE SameRecord(new[id], records[id])
    <2>1. SameRecord(ix[id], records[id]) /\ id \in DOMAIN ix
        BY DEF SameRecords
    <2>2. CASE id \in DOMAIN projects
        <3>1. new[id] = [ix[id] EXCEPT !.l2Beat = projects[id],
                                       !.tags = @ \cup {"L2"} \cup ({projects[id]} \cap DerivedTags)]
            BY <2>1, <2>2 DEF WithL2Beat
        <3> QED BY <2>1, <3>1 DEF SameRecord, RecordFields, DerivedTags
    <2>3. CASE id \notin DOMAIN projects /\ ix[id].l2Beat # None
        <3>1. new[id] = [ix[id] EXCEPT !.l2Beat = None, !.tags = @ \ DerivedTags]
            BY <2>1, <2>3 DEF WithL2Beat
        <3> QED BY <2>1, <3>1 DEF SameRecord, RecordFields, DerivedTags
    <2>4. CASE id \notin DOMAIN projects /\ ix[id].l2Beat = None
        BY <2>1, <2>4 DEF WithL2Beat
    <2> QED BY <2>2, <2>3, <2>4
<1> QED BY <1>1, <1>2 DEF SameRecords

LEMMA RecordsAreSame == ASSUME NEW c PROVE DOMAIN Records(c) = Ids(c) /\ SameRecords(Records(c), Records(c))
BY DEF Records, SameRecords, SameRecord, RecordFields

\* Before the first load.
NoRegistry == [chains |-> Nothing, chainlist |-> Nothing, theGraph |-> Nothing]

\* The data are a registry's and the records are built of them.
IndexInv ==
    /\ raw \in Registries \cup {NoRegistry}
    /\ excluded = Excluded(raw)
    /\ SameRecords(index, Records(Said))

LEMMA IndexBegins == CatalogueInit => IndexInv
<1> SUFFICES ASSUME CatalogueInit PROVE IndexInv
    OBVIOUS
<1>1. PICK r \in Registries \cup {NoRegistry} : \E batches : IndexData(r, batches)
    BY DEF CatalogueInit, Init, NoIndex, NoRegistry
<1>2. PICK b : raw = r /\ excluded = Excluded(r) /\ index = WithL2Beat(Records(Clean(r, excluded)), b)
    BY <1>1 DEF IndexData
<1>3. Said = Clean(r, excluded)
    BY <1>2 DEF Said
<1>4. SameRecords(index, Records(Said))
    BY <1>2, <1>3, RecordsAreSame, RecordsStay
<1> QED BY <1>2, <1>4 DEF IndexInv

LEMMA IndexGoesOn == IndexInv /\ [CatalogueNext]_everything => IndexInv'
<1> SUFFICES ASSUME IndexInv, [CatalogueNext]_everything PROVE IndexInv'
    OBVIOUS
<1>1. CASE UNCHANGED vars
    BY <1>1 DEF IndexInv, vars, Said
<1>2. CASE ProcessL2BeatBatch
    <2>1. PICK b \in Batches : index' = WithL2Beat(index, b)
        BY <1>2 DEF ProcessL2BeatBatch
    <2>2. UNCHANGED <<raw, excluded>> /\ Said' = Said
        BY <1>2 DEF ProcessL2BeatBatch, Said
    <2>3. SameRecords(index', Records(Said))
        BY <2>1, RecordsStay DEF IndexInv
    <2> QED BY <2>2, <2>3 DEF IndexInv
<1>3. UNCHANGED vars \/ ProcessL2BeatBatch
    BY DEF CatalogueNext, everything, Next
<1> QED BY <1>1, <1>2, <1>3

LEMMA IndexIs ==
    ASSUME IndexInv
    PROVE  /\ DOMAIN index = Ids(Said)
           /\ \A id \in DOMAIN index :
                 /\ index[id].sources = Records(Said)[id].sources /\ index[id].relations = Records(Said)[id].relations
                 /\ index[id].status = Records(Said)[id].status /\ index[id].reason = Records(Said)[id].reason
                 /\ "Testnet" \in index[id].tags <=> "Testnet" \in Records(Said)[id].tags
BY RecordsAreSame DEF IndexInv, SameRecords, SameRecord

\* A record is of the sources that have its chain, less those of others that share the ID.
LEMMA RecordsAreOfOne == IndexInv => RecordsDescribeOneNetwork
<1> SUFFICES ASSUME IndexInv, NEW src \in Source, NEW id \in DOMAIN raw[src]
             PROVE  /\ id \in Indexes /\ index[id].sources # {}
                    /\ \A a, b \in index[id].sources : SameNetwork(raw[a][id], raw[b][id])
                    /\ id \notin Rule20ChainIdCollisions =>
                          \A s \in Source : id \in DOMAIN raw[s] => s \in index[id].sources
    BY Zenon DEF RecordsDescribeOneNetwork
<1>1. id \in Indexes
    BY IndexIs, CleanHasAll DEF Indexes, Said, IndexInv
<1>2. index[id].sources = {s \in Source : id \in DOMAIN Said[s]}
    <2>1. id \in Ids(Said) /\ index[id].sources = Records(Said)[id].sources
        BY <1>1, IndexIs DEF Indexes
    <2> QED BY <2>1 DEF Records, Stated
<1>3. index[id].sources = Kept(raw, id)
    <2>1. \A s \in Source : id \in DOMAIN Said[s] <=> id \in DOMAIN raw[s] /\ s \in Kept(raw, id)
        BY CleanIs DEF IndexInv, Said
    <2> QED BY <1>2, <2>1, KeptIs
<1>4. ASSUME id \notin Rule20ChainIdCollisions, NEW s \in Source, id \in DOMAIN raw[s] PROVE s \in Kept(raw, id)
    <2>1. excluded = [x \in Source |-> {y \in DOMAIN raw[x] : x \notin Kept(raw, y)}]
        BY DEF IndexInv, Excluded
    <2>2. excluded[s] \in Range(excluded)
        BY <2>1 DEF Range
    <2> QED BY <1>4, <2>1, <2>2 DEF Rule20ChainIdCollisions
<1> QED BY <1>1, <1>3, <1>4, KeptIs

\* Whatever the registries file under an ID, its record describes one network, and what is
\* left out of it is reported (sourceIdentity.js:75-101, validation.js:609-627).
THEOREM RecordsAlwaysDescribeOneNetwork == CatalogueSpec => []RecordsDescribeOneNetwork
<1>1. CatalogueInit => IndexInv
    BY IndexBegins
<1>2. IndexInv /\ [CatalogueNext]_everything => IndexInv'
    BY IndexGoesOn
<1>3. IndexInv => RecordsDescribeOneNetwork
    BY RecordsAreOfOne
<1> QED BY <1>1, <1>2, <1>3, PTL DEF CatalogueSpec

-----------------------------------------------------------------------------
(* The dead chains: the smallest set with the seeds that passes it on.     *)

\* The relations as first built, and the chains a death spreads from.
Upward(c) == [id \in Ids(c) |-> Relations(c, id)]
Seeds(c) == Curated(c) \cup {id \in Ids(c) : StatusSaid(c, id) = "deprecated"}
Dead(c) == Deprecated(Upward(c), Seeds(c))
PassesOn(c, set) == \A id \in Ids(c) : BuiltOn(Upward(c), id) \cap set # {} => id \in set

LEMMA RegistriesAreFinite == ASSUME IndexInv, NEW s \in Source PROVE IsFiniteSet(DOMAIN raw[s]) /\ None \notin DOMAIN raw[s]
<1>1. CASE raw \in Registries
    BY <1>1, IndexAssumption
<1>2. CASE raw = NoRegistry
    BY <1>2, FS_EmptySet DEF NoRegistry, Nothing, Source
<1> QED BY <1>1, <1>2 DEF IndexInv

LEMMA IdsAreFinite == ASSUME IndexInv PROVE IsFiniteSet(Ids(Said)) /\ None \notin Ids(Said)
<1>1. Ids(Said) = UNION {DOMAIN raw[s] : s \in Source}
    BY CleanHasAll DEF Said, IndexInv
<1>2. Ids(Said) = (DOMAIN raw["chains"] \cup DOMAIN raw["theGraph"]) \cup DOMAIN raw["chainlist"]
    BY <1>1 DEF Source
<1>3. IsFiniteSet(DOMAIN raw["chains"]) /\ IsFiniteSet(DOMAIN raw["theGraph"]) /\ IsFiniteSet(DOMAIN raw["chainlist"])
    BY RegistriesAreFinite DEF Source
<1>4. IsFiniteSet(Ids(Said))
    BY <1>2, <1>3, FS_Union
<1> QED BY <1>1, <1>4, RegistriesAreFinite

\* The dead chains are the smallest set with the seeds that passes death on.
LEMMA DeadAre ==
    ASSUME NEW c, IsFiniteSet(Ids(c))
    PROVE  /\ Dead(c) \subseteq Ids(c) /\ Seeds(c) \subseteq Dead(c) /\ PassesOn(c, Dead(c))
           /\ \A set \in SUBSET Ids(c) : Seeds(c) \subseteq set /\ PassesOn(c, set) => Dead(c) \subseteq set
<1> DEFINE step == [dead \in SUBSET DOMAIN Upward(c) |-> dead \cup Heirs(Upward(c), dead)]
<1>1. Dead(c) = After(step, Cardinality(Ids(c)), Seeds(c)) /\ Seeds(c) \in SUBSET Ids(c) /\ DOMAIN Upward(c) = Ids(c)
    BY DEF Dead, Deprecated, Upward, Seeds, Curated
<1>2. \A set \in SUBSET Ids(c) : step[set] = set \cup {id \in Ids(c) : BuiltOn(Upward(c), id) \cap set # {}}
    BY <1>1 DEF Heirs
<1> HIDE DEF step
<1>3. Dead(c) \in SUBSET Ids(c) /\ Seeds(c) \subseteq Dead(c) /\ step[Dead(c)] = Dead(c)
    BY <1>1, <1>2, GrowingSettles
<1>4. PassesOn(c, Dead(c))
    BY <1>2, <1>3 DEF PassesOn
<1>5. ASSUME NEW set \in SUBSET Ids(c), Seeds(c) \subseteq set, PassesOn(c, set) PROVE Dead(c) \subseteq set
    <2>1. \A x \in SUBSET set : step[x] \in SUBSET set
        BY <1>2, <1>5 DEF PassesOn
    <2>2. Cardinality(Ids(c)) \in Nat /\ Seeds(c) \in SUBSET set
        BY <1>5, FS_CardinalityType
    <2> DEFINE Good == SUBSET set
    <2>3. \A x \in Good : step[x] \in Good
        BY <2>1
    <2>4. Seeds(c) \in Good
        BY <2>2
    <2>5. Dead(c) \in Good
        <3> DEFINE n == Cardinality(Ids(c))
        <3>1. n \in Nat /\ Dead(c) = After(step, n, Seeds(c))
            BY <1>1, <2>2
        <3> HIDE DEF Good, n
        <3> QED BY <2>3, <2>4, <3>1, AfterStaysIn
    <2> QED BY <2>5
<1> QED BY <1>3, <1>4, <1>5

LEMMA RecordIs ==
    ASSUME NEW c, IsFiniteSet(Ids(c)), NEW id \in Ids(c)
    PROVE  /\ Records(c)[id].relations = Upward(c)[id] \cup Downward(Upward(c), id)
           /\ Records(c)[id].status = IF id \in Dead(c) THEN "deprecated"
                                      ELSE IF StatusSaid(c, id) = None THEN "active" ELSE StatusSaid(c, id)
           /\ Records(c)[id].reason = IF id \in Curated(c) THEN "curated"
                                      ELSE IF id \in Dead(c) \ Seeds(c) THEN "inherited" ELSE None
           /\ Records(c)[id].status = "deprecated" <=> id \in Dead(c)
<1> DEFINE up == [x \in Ids(c) |-> Relations(c, x)]
           said == [x \in Ids(c) |-> StatusSaid(c, x)]
           seeds == Curated(c) \cup {x \in Ids(c) : said[x] = "deprecated"}
           dead == Deprecated(up, seeds)
           types == ClassifyNetworkTypes(c).types
<1>1. up = Upward(c) /\ seeds = Seeds(c) /\ dead = Dead(c) /\ said[id] = StatusSaid(c, id)
    BY DEF Upward, Seeds, Dead
<1>2. Records(c)[id] =
            [sources |-> {s \in Source : Stated(c, id, s)},
             relations |-> up[id] \cup Downward(up, id),
             tags |-> (IF \E x \in up[id] : x.kind = "l2Of" THEN {"L2"} ELSE {})
                      \cup (IF types[id] = "testnet" THEN {"Testnet"} ELSE {}),
             status |-> IF id \in dead THEN "deprecated" ELSE IF said[id] = None THEN "active" ELSE said[id],
             reason |-> IF id \in Curated(c) THEN "curated" ELSE IF id \in dead \ seeds THEN "inherited" ELSE None,
             l2Beat |-> None]
    BY DEF Records
<1>3. StatusSaid(c, id) = "deprecated" => id \in Dead(c)
    BY DeadAre DEF Seeds
<1> HIDE DEF up, said, seeds, dead, types
<1> QED BY <1>1, <1>2, <1>3

LEMMA StatusesAreInherited == IndexInv => StatusIsInherited
<1> SUFFICES ASSUME IndexInv PROVE StatusIsInherited
    OBVIOUS
<1> DEFINE c == Said
           Closed(set) == \A id \in DOMAIN index : \A x \in index[id].relations :
                            x.kind \in {"l2Of", "testnetOf"} /\ x.chainId \in set => id \in set
           seeds == {id \in DOMAIN index : StatusSaid(Said, id) = "deprecated" \/ (StatusSaid(Said, id) = None /\ KnownEol(Said, id))}
<1>1. DOMAIN index = Ids(c) /\ IsFiniteSet(Ids(c))
    BY IndexIs, IdsAreFinite
<1>2. seeds = Seeds(c)
    BY <1>1, Zenon DEF Seeds, Curated, KnownEol
<1>3. ASSUME NEW set PROVE Closed(set) <=> PassesOn(c, set)
    <2>1. ASSUME NEW id \in Ids(c)
          PROVE  \A x : x \in index[id].relations /\ x.kind \in {"l2Of", "testnetOf"}
                            <=> x \in Upward(c)[id] /\ x.kind \in {"l2Of", "testnetOf"}
        <3>1. index[id].relations = Upward(c)[id] \cup Downward(Upward(c), id)
            BY <1>1, IndexIs, RecordIs
        <3>2. \A x \in Downward(Upward(c), id) : x.kind \in {"parentOf", "mainnetOf"}
            BY DEF Downward, Relation
        <3> QED BY <3>1, <3>2
    <2>2. \A id \in Ids(c) : BuiltOn(Upward(c), id) = {x.chainId : x \in {y \in Upward(c)[id] : y.kind \in {"l2Of", "testnetOf"}}}
        BY DEF BuiltOn
    <2>3. ASSUME NEW id \in Ids(c)
          PROVE  (BuiltOn(Upward(c), id) \cap set # {}) <=> \E x \in index[id].relations : x.kind \in {"l2Of", "testnetOf"} /\ x.chainId \in set
        BY <2>1, <2>2
    <2> QED BY <1>1, <2>3 DEF PassesOn
<1>4. {id \in DOMAIN index : index[id].status = "deprecated"} = Dead(c)
    BY <1>1, IndexIs, RecordIs, DeadAre
<1>5. Dead(c) = {id \in Ids(c) : \A set \in {x \in SUBSET Ids(c) : Seeds(c) \subseteq x /\ PassesOn(c, x)} : id \in set}
    BY <1>1, DeadAre
<1> HIDE DEF c, Closed, seeds
<1>6. {x \in SUBSET DOMAIN index : seeds \subseteq x /\ Closed(x)} = {x \in SUBSET Ids(c) : Seeds(c) \subseteq x /\ PassesOn(c, x)}
    BY <1>1, <1>2, <1>3
<1>7. {id \in DOMAIN index : index[id].status = "deprecated"}
          = {id \in DOMAIN index : \A set \in {x \in SUBSET DOMAIN index : seeds \subseteq x /\ Closed(x)} : id \in set}
    BY <1>1, <1>4, <1>5, <1>6
<1> QED BY <1>7, Zenon DEF StatusIsInherited, Closed, seeds

LEMMA DeathsAreTold == IndexInv => DeathsAreAccountedFor
<1> SUFFICES ASSUME IndexInv PROVE DeathsAreAccountedFor
    OBVIOUS
<1> DEFINE c == Said
<1>1. DOMAIN index = Ids(c) /\ IsFiniteSet(Ids(c))
    BY IndexIs, IdsAreFinite
<1>2. ASSUME NEW id \in Ids(c)
      PROVE  /\ index[id].status = Records(c)[id].status /\ index[id].reason = Records(c)[id].reason
             /\ index[id].status = "deprecated" <=> id \in Dead(c)
             /\ index[id].relations = Upward(c)[id] \cup Downward(Upward(c), id)
    BY <1>1, IndexIs, RecordIs
<1>3. Rule17ActiveChildOfDeprecatedParent = {}
    <2> SUFFICES ASSUME NEW id \in Ids(c), index[id].status # "deprecated",
                        NEW x \in index[id].relations, x.kind \in {"l2Of", "testnetOf"},
                        x.chainId \in Ids(c), index[x.chainId].status = "deprecated"
                 PROVE  FALSE
        BY <1>1 DEF Rule17ActiveChildOfDeprecatedParent, Indexes
    <2>1. \A y \in Downward(Upward(c), id) : y.kind \in {"parentOf", "mainnetOf"}
        BY DEF Downward, Relation
    <2>2. x \in Upward(c)[id]
        BY <1>2, <2>1
    <2>3. x.chainId \in BuiltOn(Upward(c), id) \cap Dead(c)
        BY <1>2, <2>2 DEF BuiltOn
    <2> QED BY <1>1, <1>2, <2>3, DeadAre DEF PassesOn
<1>4. ASSUME NEW id \in Ids(c) PROVE StatusSaid(c, id) # None => StatusSaid(c, id) \in StatusesInSources(id)
    BY DEF StatusSaid, StatusesInSources, Stated
<1>5. ASSUME NEW id \in Rule6DeprecatedNotUpstream PROVE index[id].reason # None
    <2>1. id \in Ids(c) /\ index[id].status = "deprecated" /\ "deprecated" \notin StatusesInSources(id)
        BY <1>1 DEF Rule6DeprecatedNotUpstream, Indexes
    <2>2. id \in Dead(c) /\ StatusSaid(c, id) # "deprecated"
        BY <1>2, <1>4, <2>1, IndexAssumption
    <2>3. id \in Curated(c) \/ id \in Dead(c) \ Seeds(c)
        BY <2>2 DEF Seeds
    <2>4. index[id].reason \in {"curated", "inherited"}
        BY <1>1, <1>2, <2>1, <2>3, RecordIs
    <2> QED BY <2>4, IndexAssumption
<1>6. ASSUME NEW id \in Rule5StatusConflicts
      PROVE  index[id].status = Said.chains[id].status \/ index[id].reason = "inherited"
    <2>1. id \in Ids(c) /\ "deprecated" \in StatusesInSources(id) /\ "active" \in StatusesInSources(id)
        BY <1>1 DEF Rule5StatusConflicts, Indexes
    <2>2. Stated(c, id, "chains") /\ c["chains"][id].status # None /\ c["chains"][id].status \in {"active", "deprecated"}
        BY <2>1 DEF StatusesInSources
    <2>3. StatusSaid(c, id) = c["chains"][id].status
        BY <2>2 DEF StatusSaid
    <2>4. CASE c["chains"][id].status = "deprecated"
        <3>1. id \in Dead(c)
            BY <1>1, <2>1, <2>3, <2>4, DeadAre DEF Seeds
        <3> QED BY <1>2, <2>1, <2>4, <3>1
    <2>5. CASE c["chains"][id].status = "active" /\ id \notin Dead(c)
        BY <1>1, <1>2, <2>1, <2>2, <2>3, <2>5, RecordIs
    <2>6. CASE c["chains"][id].status = "active" /\ id \in Dead(c)
        <3>1. id \notin Curated(c) /\ id \notin Seeds(c)
            BY <2>2, <2>3, <2>6 DEF Curated, Seeds
        <3> QED BY <1>1, <1>2, <2>1, <2>6, <3>1, RecordIs
    <2> QED BY <2>2, <2>4, <2>5, <2>6
<1> QED BY <1>3, <1>5, <1>6 DEF DeathsAreAccountedFor

-----------------------------------------------------------------------------
(* The types: a chain's follows from its parent's, and parents end.        *)

\* Of some subsets of a finite set, one has none of the others in it.
LEMMA SomeIsSmallest ==
    ASSUME NEW Set, IsFiniteSet(Set), NEW Sets \in SUBSET SUBSET Set, Sets # {}
    PROVE  \E U \in Sets : \A W \in Sets : W \subseteq U => W = U
<1> DEFINE Less == StrictSubsetOrdering(Set)
<1>1. IsWellFoundedOn(Less, SUBSET Set)
    BY FS_StrictSubsetOrderingWellFounded, FS_FiniteSubsetsOfFinite
<1>2. PICK U \in Sets : \A W \in Sets : ~(<<W, U>> \in Less)
    <2> HIDE DEF Less
    <2> QED BY <1>1, WFMin
<1>3. ASSUME NEW W \in Sets, W \subseteq U, W # U PROVE FALSE
    BY <1>2, <1>3 DEF StrictSubsetOrdering
<1> QED BY <1>3

\* No set of chains outside the cycles has the parent of each of its members.
LEMMA ParentsEnd ==
    ASSUME NEW c, IsFiniteSet(Ids(c)), NEW set \in SUBSET Ids(c),
           \A id \in set : ParentOf(c, id) \in set \ ParentCycles(c)
    PROVE  set = {}
<1> SUFFICES ASSUME set # {} PROVE FALSE
    OBVIOUS
<1> DEFINE Above(D1) == {ParentOf(c, id) : id \in D1} \cap Ids(c)
           step == [D1 \in SUBSET Ids(c) |-> D1 \cup Above(D1)]
           Ancestors(id) == After(step, Cardinality(Ids(c)), Above({id}))
           free == set \ ParentCycles(c)
           Sets == {U \in SUBSET free : U # {} /\ \A id \in U : ParentOf(c, id) \in U}
<1>1. free \in Sets
    OBVIOUS
<1>2. PICK U \in Sets : \A W \in Sets : W \subseteq U => W = U
    <2>1. Sets \in SUBSET SUBSET free /\ Sets # {} /\ IsFiniteSet(free)
        BY <1>1, FS_Subset
    <2> HIDE DEF Sets, free
    <2> QED BY <2>1, SomeIsSmallest
<1>3. PICK y \in U : TRUE
    BY <1>2
<1>4. U \subseteq Ids(c) /\ y \in Ids(c) /\ y \notin ParentCycles(c) /\ \A id \in U : ParentOf(c, id) \in U
    BY <1>2, <1>3
<1>5. Above({y}) = {ParentOf(c, y)}
    BY <1>3, <1>4
<1>6. Ancestors(y) \in SUBSET Ids(c) /\ ParentOf(c, y) \in Ancestors(y) /\ step[Ancestors(y)] = Ancestors(y)
    <2>1. \A D1 \in SUBSET Ids(c) : step[D1] \in SUBSET Ids(c) /\ D1 \subseteq step[D1]
        OBVIOUS
    <2>2. Above({y}) \in SUBSET Ids(c)
        OBVIOUS
    <2> DEFINE first == Above({y})
    <2>3. After(step, Cardinality(Ids(c)), first) \in SUBSET Ids(c) /\ first \subseteq After(step, Cardinality(Ids(c)), first)
          /\ step[After(step, Cardinality(Ids(c)), first)] = After(step, Cardinality(Ids(c)), first)
        <3> HIDE DEF first, step
        <3> QED BY <2>1, <2>2, GrowingSettles DEF first
    <2> QED BY <1>5, <2>3
<1>7. \A z \in Ancestors(y) : z \in Ids(c) /\ (ParentOf(c, z) \in Ids(c) => ParentOf(c, z) \in Ancestors(y))
    <2> HIDE DEF Ancestors
    <2> QED BY <1>6
<1>8. Ancestors(y) \in SUBSET U
    <2> DEFINE Good == SUBSET U
               first == Above({y})
               n == Cardinality(Ids(c))
    <2>1. \A D1 \in Good : step[D1] \in Good
        BY <1>4
    <2>2. first \in Good /\ n \in Nat
        BY <1>3, <1>4, <1>5, FS_CardinalityType
    <2>3. After(step, n, first) \in Good
        <3> HIDE DEF Good, first, n, step
        <3> QED BY <2>1, <2>2, AfterStaysIn
    <2> QED BY <2>3
<1>9. Ancestors(y) \in Sets
    <2> HIDE DEF Ancestors
    <2>1. \A z \in Ancestors(y) : ParentOf(c, z) \in Ancestors(y)
        BY <1>4, <1>7, <1>8
    <2> QED BY <1>2, <1>6, <1>8, <2>1
<1>10. y \in Ancestors(y)
    <2> HIDE DEF Ancestors, Sets
    <2> QED BY <1>2, <1>3, <1>8, <1>9
<1>11. y \in ParentCycles(c)
    BY <1>4, <1>10 DEF ParentCycles
<1> QED BY <1>4, <1>11

\* In as many rounds as there are chains, each has the type its parent's gives it.
LEMMA TypesAreResolved ==
    ASSUME NEW c, IsFiniteSet(Ids(c)), NEW learned
    PROVE  LET cyclic == ParentCycles(c)
               types == FinalTypes(c, cyclic, learned)
           IN  /\ DOMAIN types = Ids(c)
               /\ \A id \in Ids(c) :
                     types[id] = ResolveNetworkType(
                                     NetworkTypeClaims(c, id, TRUE, TypeIn(types, cyclic, ParentOf(c, id))), learned)
<1> DEFINE cyclic == ParentCycles(c)
           Free == Ids(c) \ cyclic
           Parent(id) == ParentOf(c, id)
           Type(id, parentType) == ResolveNetworkType(NetworkTypeClaims(c, id, TRUE, parentType), learned)
           Solves(f, set) == f = [id \in set |-> Type(id, IF Parent(id) \in Free THEN f[Parent(id)] ELSE None)]
           Whole(set) == \A id \in set : Parent(id) \in Free => Parent(id) \in set
           Solved == {set \in SUBSET Ids(c) : Whole(set) /\ \E f : Solves(f, set)}
<1>1. \E f : Solves(f, Ids(c))
    <2>1. {} \in Solved
        <3>1. Solves([id \in {} |-> None], {})
            OBVIOUS
        <3> QED BY <3>1
    <2>2. PICK most \in Solved : \A set \in Solved : most \subseteq set => set = most
        <3> DEFINE Left == {Ids(c) \ set : set \in Solved}
        <3>1. Left \in SUBSET SUBSET Ids(c) /\ Left # {}
            BY <2>1
        <3>2. PICK least \in Left : \A other \in Left : other \subseteq least => other = least
            <4> HIDE DEF Left
            <4> QED BY <3>1, SomeIsSmallest
        <3>3. PICK most \in Solved : least = Ids(c) \ most
            BY <3>2
        <3>4. \A set \in Solved : set \subseteq Ids(c)
            OBVIOUS
        <3>5. ASSUME NEW set \in Solved, most \subseteq set PROVE set = most
            <4>1. Ids(c) \ set \in Left /\ Ids(c) \ set \subseteq least
                BY <3>3, <3>5
            <4>2. Ids(c) \ set = Ids(c) \ most
                <5> HIDE DEF Left, Solved
                <5> QED BY <3>2, <3>3, <4>1
            <4> QED BY <3>4, <3>5, <4>2
        <3> QED BY <3>5
    <2>3. ASSUME NEW y \in Ids(c) \ most, Parent(y) \in Free => Parent(y) \in most PROVE FALSE
        <3> DEFINE more == most \cup {y}
        <3>1. PICK f : Solves(f, most)
            BY <2>2
        <3> DEFINE g == [id \in more |-> Type(id, IF Parent(id) \in Free THEN f[Parent(id)] ELSE None)]
        <3>2. Whole(most) /\ Whole(more) /\ more \in SUBSET Ids(c)
            BY <2>2, <2>3
        <3>3. ASSUME NEW id \in most PROVE g[id] = f[id]
            <4> HIDE DEF Type, Free, Parent
            <4> QED BY <3>1
        <3>4. \A id \in more : Parent(id) \in Free => Parent(id) \in most
            BY <2>3, <3>2
        <3>5. Solves(g, more)
            <4> HIDE DEF Type, Free, Parent
            <4>1. \A id \in more : Parent(id) \in Free => g[Parent(id)] = f[Parent(id)]
                BY <3>3, <3>4
            <4>2. \A id \in more : g[id] = Type(id, IF Parent(id) \in Free THEN g[Parent(id)] ELSE None)
                BY <4>1
            <4> QED BY <4>2
        <3>6. more \in Solved
            <4> HIDE DEF Solves, Whole, g
            <4> QED BY <3>2, <3>5
        <3> HIDE DEF Solved
        <3> QED BY <2>2, <2>3, <3>6
    <2>4. most = Ids(c)
        <3> DEFINE left == Ids(c) \ most
        <3>1. \A id \in left : Parent(id) \in left \ cyclic
            <4> HIDE DEF Solved, Parent
            <4> QED BY <2>3
        <3>2. left = {}
            <4> HIDE DEF left
            <4>1. left \in SUBSET Ids(c)
                BY DEF left
            <4> QED BY <3>1, <4>1, ParentsEnd
        <3>3. most \subseteq Ids(c)
            BY <2>2
        <3> QED BY <3>2, <3>3
    <2> QED BY <2>2, <2>4
<1> DEFINE types == FinalTypes(c, cyclic, learned)
<1>2. types = CHOOSE f : Solves(f, Ids(c))
    BY DEF FinalTypes
<1>3. Solves(types, Ids(c))
    <2> HIDE DEF Solves, types
    <2> QED BY <1>1, <1>2
<1>4. DOMAIN types = Ids(c)
    <2> HIDE DEF types, Type
    <2> QED BY <1>3
<1>5. ASSUME NEW id \in Ids(c) PROVE types[id] = Type(id, TypeIn(types, cyclic, Parent(id)))
    <2>1. TypeIn(types, cyclic, Parent(id)) = IF Parent(id) \in Free THEN types[Parent(id)] ELSE None
        <3> HIDE DEF types
        <3> QED BY <1>4 DEF TypeIn
    <2>2. types[id] = Type(id, IF Parent(id) \in Free THEN types[Parent(id)] ELSE None)
        <3> HIDE DEF types, Type, Free, Parent
        <3> QED BY <1>3
    <2> QED BY <2>1, <2>2
<1> QED BY <1>4, <1>5

LEMMA TagsMatch == IndexInv => TagMatchesClaims
<1> SUFFICES ASSUME IndexInv PROVE TagMatchesClaims
    OBVIOUS
<1> DEFINE c == Said
           cyclic == ParentCycles(c)
           own == [id \in Ids(c) |-> NetworkTypeClaims(c, id, FALSE, None)]
           ownLearned == LearnHintReliability(own)
           first == [id \in Ids(c) |-> ResolveNetworkType(own[id], ownLearned)]
           learned == LearnHintReliability(AllClaims(c, first, cyclic))
           types == FinalTypes(c, cyclic, learned)
           read == ClassifyNetworkTypes(c)
<1>1. read = [types |-> types, claims |-> AllClaims(c, types, cyclic), learned |-> learned]
    BY DEF ClassifyNetworkTypes
<1>2. DOMAIN index = Ids(c) /\ IsFiniteSet(Ids(c))
    BY IndexIs, IdsAreFinite
<1> HIDE DEF learned
<1>3. ASSUME NEW id \in Ids(c) PROVE ResolveNetworkType(read.claims[id], read.learned) = read.types[id]
    <2>1. types[id] = ResolveNetworkType(NetworkTypeClaims(c, id, TRUE, TypeIn(types, cyclic, ParentOf(c, id))), learned)
        BY <1>2, TypesAreResolved
    <2>2. AllClaims(c, types, cyclic)[id] = NetworkTypeClaims(c, id, TRUE, TypeIn(types, cyclic, ParentOf(c, id)))
        BY DEF AllClaims
    <2> HIDE DEF types, cyclic, read
    <2> QED BY <1>1, <2>1, <2>2
<1> HIDE DEF read, types, cyclic, c
<1>4. ASSUME NEW id \in Ids(c) PROVE "Testnet" \in index[id].tags <=> read.types[id] = "testnet"
    <2>1. "Testnet" \in index[id].tags <=> "Testnet" \in Records(c)[id].tags
        BY <1>2, IndexIs DEF c
    <2> DEFINE up == [x \in Ids(c) |-> Relations(c, x)]
    <2>2. Records(c)[id].tags = (IF \E x \in up[id] : x.kind = "l2Of" THEN {"L2"} ELSE {})
                                \cup (IF read.types[id] = "testnet" THEN {"Testnet"} ELSE {})
        BY DEF Records, read
    <2> QED BY <2>1, <2>2
<1>5. Rule2NetworkTypeClaims \subseteq {[chainId |-> id, resolved |-> ResolveNetworkType(read.claims[id], read.learned)] : id \in Ids(c)}
    BY <1>2 DEF Rule2NetworkTypeClaims, Indexes, read, c
<1>6. ASSUME NEW e \in Rule2NetworkTypeClaims PROVE (e.resolved = "testnet") <=> ("Testnet" \in index[e.chainId].tags)
    <2>1. PICK id \in Ids(c) : e = [chainId |-> id, resolved |-> ResolveNetworkType(read.claims[id], read.learned)]
        BY <1>5
    <2> QED BY <1>3, <1>4, <2>1
<1> QED BY <1>6 DEF TagMatchesClaims

\* Deaths are inherited as the rules say, every one of them is told, and a tag says what
\* the claims come to (indexer.js:404-420, 654; validation.js:81-92, 167-210, 522-543).
THEOREM StatusesAreAlwaysAccountedFor == CatalogueSpec => []StatusesAreAccountedFor
<1>1. CatalogueInit => IndexInv
    BY IndexBegins
<1>2. IndexInv /\ [CatalogueNext]_everything => IndexInv'
    BY IndexGoesOn
<1>3. IndexInv => StatusesAreAccountedFor
    BY StatusesAreInherited, DeathsAreTold, TagsMatch DEF StatusesAreAccountedFor
<1> QED BY <1>1, <1>2, <1>3, PTL DEF CatalogueSpec

-----------------------------------------------------------------------------
(* The walk: its queue is in order of distance, whom it has left out is    *)
(* not within the distance of the queue's front, and every step takes from *)
(* what is still to be looked at.                                          *)

LEMMA SetToSeqIs ==
    ASSUME NEW set, IsFiniteSet(set)
    PROVE  LET s == SetToSeq(set)
           IN  /\ s \in Seq(set) /\ Len(s) = Cardinality(set)
               /\ \A x \in set : \E i \in 1..Len(s) : s[i] = x
<1> DEFINE n == Cardinality(set)
<1>1. n \in Nat /\ ExistsBijection(1..n, set)
    BY FS_CardinalityType
<1>2. PICK f : f \in Bijection(1..n, set)
    BY <1>1, Zenon DEF ExistsBijection
<1>3. f \in [1..n -> set] /\ IsInjective(f)
    BY <1>2 DEF Bijection, Injection, IsInjective
<1> DEFINE s == SetToSeq(set)
<1>4. s \in [1..n -> set] /\ IsInjective(s)
    BY <1>3 DEF SetToSeq
<1>5. s \in Injection(1..n, set)
    BY <1>4 DEF Injection, IsInjective
<1>6. s \in Surjection(1..n, set)
    <2>1. Cardinality(1..n) = n
        <3> HIDE DEF n
        <3> QED BY <1>1, FS_Interval
    <2> HIDE DEF n, s
    <2> QED BY <1>5, <2>1, FS_Injection DEF n
<1> HIDE DEF n, s
<1>7. s \in Seq(set) /\ Len(s) = n
    BY <1>1, <1>4
<1> QED BY <1>6, <1>7 DEF Surjection, s, n

\* The chains a record names.
Out(id) == {x.chainId : x \in index[id].relations}

Finite ==
    /\ IsFiniteSet(DOMAIN index) /\ None \notin DOMAIN index
    /\ \A id \in DOMAIN index : IsFiniteSet(Out(id))

\* Chains that are in the index or named there are finitely many.
LEMMA NodesAreFinite == ASSUME Finite PROVE IsFiniteSet(Nodes)
<1> DEFINE step == [set \in SUBSET DOMAIN index |-> set]
           Has == {set \in SUBSET DOMAIN index : IsFiniteSet(UNION {Out(id) : id \in set})}
<1>1. {} \in Has
    <2>1. UNION {Out(id) : id \in {}} = {}
        OBVIOUS
    <2> QED BY <2>1, FS_EmptySet
<1>2. ASSUME NEW set \in Has, NEW x \in DOMAIN index PROVE set \cup {x} \in Has
    <2>1. UNION {Out(id) : id \in set \cup {x}} = (UNION {Out(id) : id \in set}) \cup Out(x)
        OBVIOUS
    <2>2. IsFiniteSet(UNION {Out(id) : id \in set}) /\ IsFiniteSet(Out(x))
        BY <1>2 DEF Finite
    <2>3. IsFiniteSet((UNION {Out(id) : id \in set}) \cup Out(x))
        <3> HIDE DEF Has
        <3> QED BY <2>2, FS_Union
    <2> QED BY <1>2, <2>1, <2>3
<1>3. DOMAIN index \in Has
    <2> DEFINE Left == {DOMAIN index \ set : set \in Has}
    <2>1. Left \in SUBSET SUBSET DOMAIN index /\ Left # {} /\ IsFiniteSet(DOMAIN index)
        BY <1>1 DEF Finite
    <2>2. PICK least \in Left : \A other \in Left : other \subseteq least => other = least
        <3> HIDE DEF Left
        <3> QED BY <2>1, SomeIsSmallest
    <2>3. PICK set \in Has : least = DOMAIN index \ set
        BY <2>2
    <2>4. ASSUME NEW x \in least PROVE FALSE
        <3>1. set \cup {x} \in Has
            BY <1>2, <2>3, <2>4
        <3>2. DOMAIN index \ (set \cup {x}) \in Left /\ DOMAIN index \ (set \cup {x}) \subseteq least
            BY <2>3, <3>1
        <3>3. DOMAIN index \ (set \cup {x}) = least
            <4> HIDE DEF Left
            <4> QED BY <2>2, <3>2
        <3> QED BY <2>4, <3>3
    <2>5. set \subseteq DOMAIN index
        BY <2>3
    <2>6. set = DOMAIN index
        <3> HIDE DEF Has
        <3> QED BY <2>3, <2>4, <2>5
    <2> QED BY <2>3, <2>6
<1>4. IsFiniteSet(UNION {Out(id) : id \in DOMAIN index})
    BY <1>3
<1>5. Nodes = DOMAIN index \cup UNION {Out(id) : id \in DOMAIN index}
    BY DEF Nodes, Out
<1> QED BY <1>4, <1>5, FS_Union DEF Finite

LEMMA WithinIs ==
    ASSUME NEW start \in DOMAIN index
    PROVE  /\ Within(start, 0) = {start}
           /\ \A n \in Nat : /\ Within(start, n) \in SUBSET DOMAIN index
                             /\ Within(start, n + 1) = Within(start, n) \cup Neighbours(Within(start, n))
<1> DEFINE step == [set \in SUBSET DOMAIN index |-> set \cup Neighbours(set)]
           Good == SUBSET DOMAIN index
           value == {start}
<1>1. \A n : Within(start, n) = After(step, n, value)
    BY DEF Within
<1>2. \A set \in Good : step[set] \in Good /\ step[set] = set \cup Neighbours(set)
    BY DEF Neighbours
<1>3. value \in Good
    OBVIOUS
<1>4. \A n \in Nat : After(step, n, value) \in Good
    <2> HIDE DEF step, Good, value
    <2> QED BY <1>2, <1>3, AfterStaysIn
<1>5. After(step, 0, value) = value /\ \A n \in Nat : After(step, n + 1, value) = step[After(step, n, value)]
    <2> HIDE DEF step, value
    <2> QED BY AfterIs
<1>6. Within(start, 0) = {start}
    BY <1>1, <1>5
<1>7. ASSUME NEW n \in Nat
      PROVE  /\ Within(start, n) \in SUBSET DOMAIN index
             /\ Within(start, n + 1) = Within(start, n) \cup Neighbours(Within(start, n))
    <2>1. Within(start, n) = After(step, n, value) /\ Within(start, n + 1) = After(step, n + 1, value)
        BY <1>1
    <2> HIDE DEF step, value
    <2> QED BY <1>2, <1>4, <1>5, <2>1
<1> QED BY <1>6, <1>7

LEMMA NeighboursAre == \A set : Neighbours(set) = (UNION {Out(id) : id \in set}) \cap DOMAIN index
BY DEF Neighbours, Out

\* What is within a distance is within the next.
LEMMA WithinGrows ==
    ASSUME NEW start \in DOMAIN index, NEW m \in Nat, NEW n \in Nat, m <= n
    PROVE  Within(start, m) \subseteq Within(start, n)
<1> DEFINE Has == {k \in Nat : Within(start, m) \subseteq Within(start, m + k)}
<1>1. 0 \in Has
    OBVIOUS
<1>2. ASSUME NEW k \in Nat, k \in Has PROVE k + 1 \in Has
    <2>1. m + k \in Nat /\ m + (k + 1) = (m + k) + 1
        OBVIOUS
    <2>2. Within(start, m + (k + 1)) = Within(start, m + k) \cup Neighbours(Within(start, m + k))
        BY <2>1, WithinIs
    <2> QED BY <1>2, <2>2
<1>3. Nat \subseteq Has
    <2> HIDE DEF Has
    <2> QED BY <1>1, <1>2, EachFollows
<1>4. n - m \in Nat /\ m + (n - m) = n
    OBVIOUS
<1>5. n - m \in Has
    <2> HIDE DEF Has
    <2> QED BY <1>3, <1>4
<1> QED BY <1>4, <1>5

\* x waits at a distance of d at most.
Queued(w, x, d) == \E i \in 1..Len(w.queue) : w.queue[i].id = x /\ w.queue[i].depth <= d

QueueItem(maxDepth) == [id : Nodes, depth : 0..maxDepth]

WalkType(w, maxDepth) ==
    /\ DOMAIN w = {"queue", "visited", "depth", "edges"}
    /\ w.queue \in Seq(QueueItem(maxDepth)) /\ w.visited \in SUBSET Nodes
    /\ w.depth \in [w.visited \cap DOMAIN index -> 0..maxDepth]

InOrder(w) ==
    \A i, j \in 1..Len(w.queue) :
        /\ w.queue[j].depth <= w.queue[i].depth + 1
        /\ i <= j => w.queue[i].depth <= w.queue[j].depth

\* Whoever waits is as far as its distance at most.
AtMost(w, start) ==
    \A i \in 1..Len(w.queue) : w.queue[i].id \in DOMAIN index => w.queue[i].id \in Within(start, w.queue[i].depth)

\* A distance that was noted is the chain's.
Exact(w, start, maxDepth) ==
    \A x \in DOMAIN w.depth, n \in 0..maxDepth : w.depth[x] <= n <=> x \in Within(start, n)

\* Whoever a visited chain names, short of the last distance, is visited or waits.
Complete(w, maxDepth) ==
    \A x \in DOMAIN w.depth : w.depth[x] < maxDepth =>
        \A y \in Out(x) \cap DOMAIN index : y \in w.visited \/ Queued(w, y, w.depth[x] + 1)

\* The walk began at start.
Begun(w, start) == start \in w.visited \/ Queued(w, start, 0)

EdgeOf(x, y) == [from |-> x, to |-> y.chainId, kind |-> y.kind]

EdgesOK(w, maxDepth) ==
    /\ \A e \in w.edges : e.from # None /\ e.to # None
    /\ \A e, f \in w.edges : SameEdge(e, f) => e = f
    /\ \A x \in DOMAIN w.depth : w.depth[x] < maxDepth =>
          \A y \in index[x].relations : y.chainId # None => \E e \in w.edges : SameEdge(e, EdgeOf(x, y))

\* What every step of the walk keeps.
WalkOK(w, start, maxDepth) ==
    /\ WalkType(w, maxDepth) /\ InOrder(w) /\ AtMost(w, start) /\ Exact(w, start, maxDepth)
    /\ Complete(w, maxDepth) /\ Begun(w, start) /\ EdgesOK(w, maxDepth)

LEMMA NodesAre == DOMAIN index \subseteq Nodes /\ \A id \in DOMAIN index : Out(id) \subseteq Nodes
BY DEF Nodes, Out

\* Whoever is nearer than all that is queued has been visited.
LEMMA NearerIsVisited ==
    ASSUME NEW start \in DOMAIN index, NEW maxDepth \in Nat, NEW w, WalkOK(w, start, maxDepth),
           NEW d \in 0..maxDepth + 1, \A i \in 1..Len(w.queue) : w.queue[i].depth >= d
    PROVE  \A k \in Nat : k < d => Within(start, k) \subseteq w.visited
<1> DEFINE Has == {k \in Nat : k < d => Within(start, k) \subseteq w.visited}
<1>1. \A i \in 1..Len(w.queue) : w.queue[i].depth \in Nat
    <2>1. w.queue \in Seq(QueueItem(maxDepth))
        BY DEF WalkOK, WalkType
    <2>2. \A x \in QueueItem(maxDepth) : x.depth \in Nat
        BY DEF QueueItem
    <2> QED BY <2>1, <2>2
<1>2. \A x, k : k \in Nat /\ k < d => ~Queued(w, x, k)
    BY <1>1 DEF Queued
<1>3. 0 \in Has
    <2>1. 0 < d => start \in w.visited
        BY <1>2 DEF WalkOK, Begun
    <2> QED BY <2>1, WithinIs
<1>4. ASSUME NEW k \in Nat, k \in Has PROVE k + 1 \in Has
    <2> SUFFICES ASSUME k + 1 < d, NEW y \in Within(start, k + 1) PROVE y \in w.visited
        OBVIOUS
    <2>1. Within(start, k) \subseteq w.visited
        BY <1>4
    <2>2. CASE y \in Within(start, k)
        BY <2>1, <2>2
    <2>3. CASE y \notin Within(start, k)
        <3>1. y \in Neighbours(Within(start, k))
            BY <2>3, WithinIs
        <3>2. PICK x \in Within(start, k) : y \in Out(x) /\ y \in DOMAIN index
            BY <3>1, NeighboursAre
        <3>3. x \in DOMAIN index /\ x \in w.visited
            BY <2>1, <3>2, WithinIs
        <3>4. x \in DOMAIN w.depth /\ w.depth[x] \in Nat
            BY <3>3 DEF WalkOK, WalkType
        <3>5. k \in 0..maxDepth /\ k < maxDepth
            OBVIOUS
        <3>6. w.depth[x] <= k
            BY <3>2, <3>4, <3>5 DEF WalkOK, Exact
        <3>7. w.depth[x] < maxDepth /\ w.depth[x] + 1 < d
            BY <3>4, <3>5, <3>6
        <3>8. y \in w.visited \/ Queued(w, y, w.depth[x] + 1)
            BY <3>2, <3>4, <3>7 DEF WalkOK, Complete
        <3> QED BY <1>2, <3>4, <3>7, <3>8
    <2> QED BY <2>2, <2>3
<1>5. Nat \subseteq Has
    <2> HIDE DEF Has
    <2> QED BY <1>3, <1>4, EachFollows
<1> QED BY <1>5

Stays(w, v) == v.depth = w.depth /\ v.edges = w.edges

LEMMA QueueTurns ==
    ASSUME NEW maxDepth \in Nat, NEW w, WalkType(w, maxDepth), w.queue # <<>>
    PROVE  /\ Len(w.queue) \in Nat /\ Len(w.queue) >= 1 /\ Head(w.queue) = w.queue[1]
           /\ Tail(w.queue) \in Seq(QueueItem(maxDepth)) /\ Len(Tail(w.queue)) = Len(w.queue) - 1
           /\ \A i \in 1..Len(w.queue) - 1 : Tail(w.queue)[i] = w.queue[i + 1]
           /\ \A i \in 1..Len(w.queue) : w.queue[i] \in QueueItem(maxDepth) /\ w.queue[i].depth \in 0..maxDepth /\ w.queue[i].id \in Nodes
<1>1. w.queue \in Seq(QueueItem(maxDepth))
    BY DEF WalkType
<1>2. \A x \in QueueItem(maxDepth) : x.depth \in 0..maxDepth /\ x.id \in Nodes
    BY DEF QueueItem
<1> HIDE DEF QueueItem
<1> QED BY <1>1, <1>2

\* A chain that is visited already, or is not in the index, only leaves the queue.
LEMMA DiscardOK ==
    ASSUME NEW start \in DOMAIN index, NEW maxDepth \in Nat, NEW w, WalkOK(w, start, maxDepth), w.queue # <<>>,
           Head(w.queue).id \in w.visited \/ Head(w.queue).id \notin DOMAIN index,
           NEW v, v = [w EXCEPT !.queue = Tail(w.queue), !.visited = @ \cup {Head(w.queue).id}]
    PROVE  WalkOK(v, start, maxDepth)
<1> DEFINE here == Head(w.queue).id
           q == w.queue
<1>1. WalkType(w, maxDepth)
    BY DEF WalkOK
<1>2. /\ DOMAIN v = {"queue", "visited", "depth", "edges"}
      /\ v.queue = Tail(w.queue) /\ v.visited = w.visited \cup {here} /\ Stays(w, v)
    BY <1>1 DEF WalkType, Stays
<1>3. /\ Len(q) \in Nat /\ Len(q) >= 1 /\ here = q[1].id
      /\ Len(v.queue) = Len(q) - 1 /\ \A i \in 1..Len(q) - 1 : v.queue[i] = q[i + 1]
    BY <1>1, <1>2, QueueTurns
<1>4. here \in Nodes
    BY <1>1, <1>3, QueueTurns
<1>5. v.visited \cap DOMAIN index = w.visited \cap DOMAIN index
    BY <1>2
<1>6. \A i \in 1..Len(v.queue) : i + 1 \in 1..Len(q) /\ v.queue[i] = q[i + 1]
    BY <1>3
<1>7. WalkType(v, maxDepth)
    BY <1>1, <1>2, <1>4, <1>5, QueueTurns DEF WalkType, Stays
<1>8. InOrder(v)
    <2> SUFFICES ASSUME NEW i \in 1..Len(v.queue), NEW j \in 1..Len(v.queue)
                 PROVE  /\ v.queue[j].depth <= v.queue[i].depth + 1
                        /\ i <= j => v.queue[i].depth <= v.queue[j].depth
        BY DEF InOrder
    <2>1. i + 1 \in 1..Len(q) /\ j + 1 \in 1..Len(q) /\ v.queue[i] = q[i + 1] /\ v.queue[j] = q[j + 1]
          /\ (i <= j => i + 1 <= j + 1)
        BY <1>3, <1>6
    <2> QED BY <2>1 DEF WalkOK, InOrder
<1>9. AtMost(v, start)
    BY <1>6 DEF WalkOK, AtMost
<1>10. ASSUME NEW x \in DOMAIN index, NEW d, x \in w.visited \/ Queued(w, x, d) PROVE x \in v.visited \/ Queued(v, x, d)
    <2>1. CASE Queued(w, x, d)
        <3>1. PICK i \in 1..Len(q) : q[i].id = x /\ q[i].depth <= d
            BY <2>1 DEF Queued
        <3>2. CASE i = 1
            BY <1>2, <1>3, <3>1, <3>2
        <3>3. CASE i # 1
            <4>1. i - 1 \in 1..Len(v.queue) /\ v.queue[i - 1] = q[i]
                BY <1>3, <3>3
            <4> QED BY <3>1, <4>1 DEF Queued
        <3> QED BY <3>2, <3>3
    <2> QED BY <1>2, <1>10, <2>1
<1>11. Exact(v, start, maxDepth) /\ EdgesOK(v, maxDepth)
    BY <1>2 DEF WalkOK, Exact, EdgesOK, Stays
<1>12. Complete(v, maxDepth)
    BY <1>2, <1>10 DEF WalkOK, Complete, Stays
<1>13. Begun(v, start)
    BY <1>10 DEF WalkOK, Begun
<1> QED BY <1>7, <1>8, <1>9, <1>11, <1>12, <1>13 DEF WalkOK

LEMMA EdgesTurn ==
    ASSUME Finite, NEW maxDepth, NEW w, EdgesOK(w, maxDepth), NEW id \in DOMAIN index
    PROVE  LET new == w.edges \cup Edges(w, id)
           IN  /\ \A e \in new : e.from # None /\ e.to # None
               /\ \A e, f \in new : SameEdge(e, f) => e = f
               /\ \A y \in index[id].relations : y.chainId # None => \E e \in new : SameEdge(e, EdgeOf(id, y))
<1> DEFINE all == {EdgeOf(id, x) : x \in {y \in index[id].relations : y.chainId # None}}
           new == w.edges \cup Edges(w, id)
<1>1. Edges(w, id) = {e \in all : \A f \in w.edges : ~SameEdge(e, f)}
    BY DEF Edges, EdgeOf
<1>2. \A e \in all : e.from = id /\ e.to # None
    BY DEF EdgeOf
<1>3. \A e, f \in all : SameEdge(e, f) => e = f
    <2> SUFFICES ASSUME NEW x \in index[id].relations, NEW y \in index[id].relations,
                        SameEdge(EdgeOf(id, x), EdgeOf(id, y))
                 PROVE  EdgeOf(id, x) = EdgeOf(id, y)
        OBVIOUS
    <2>1. {id, x.chainId} = {id, y.chainId} /\ x.kind = y.kind
        BY DEF SameEdge, EdgeOf
    <2>2. x.chainId = y.chainId
        BY <2>1
    <2> QED BY <2>1, <2>2 DEF EdgeOf
<1>4. \A e, f : SameEdge(e, f) => SameEdge(f, e)
    BY DEF SameEdge
<1>5. \A e \in new : e.from # None /\ e.to # None
    BY <1>1, <1>2 DEF EdgesOK, Finite
<1>6. \A e, f \in new : SameEdge(e, f) => e = f
    <2> HIDE DEF all
    <2> QED BY <1>1, <1>3, <1>4 DEF EdgesOK
<1>7. ASSUME NEW y \in index[id].relations, y.chainId # None PROVE \E e \in new : SameEdge(e, EdgeOf(id, y))
    <2>1. EdgeOf(id, y) \in all /\ SameEdge(EdgeOf(id, y), EdgeOf(id, y))
        BY <1>7 DEF SameEdge
    <2> HIDE DEF all
    <2> QED BY <1>1, <1>4, <2>1
<1> QED BY <1>5, <1>6, <1>7

\* What a visit appends, and what it does in all.
Ahead(w, id, maxDepth) == {[id |-> x, depth |-> maxDepth] : x \in Unvisited(w, id)}

LEMMA AheadIs ==
    ASSUME Finite, NEW w, NEW id \in DOMAIN index, NEW maxDepth \in Nat, NEW d \in 0..maxDepth
    PROVE  LET s == SetToSeq(Ahead(w, id, d))
           IN  /\ s \in Seq(QueueItem(maxDepth)) /\ Len(s) \in Nat /\ Len(s) <= Cardinality(Nodes)
               /\ \A i \in 1..Len(s) : s[i].depth = d /\ s[i].id \in Out(id)
               /\ \A x \in Out(id) \ (w.visited \cup {id, None}) : \E i \in 1..Len(s) : s[i].id = x
<1> DEFINE set == Ahead(w, id, d)
           s == SetToSeq(set)
           f == [x \in Unvisited(w, id) |-> [id |-> x, depth |-> d]]
<1>1. Unvisited(w, id) = Out(id) \ (w.visited \cup {id, None})
    BY DEF Unvisited, Out
<1>2. Unvisited(w, id) \in SUBSET Nodes /\ IsFiniteSet(Nodes)
    BY <1>1, NodesAre, NodesAreFinite
<1>3. IsFiniteSet(Unvisited(w, id)) /\ Cardinality(Unvisited(w, id)) <= Cardinality(Nodes)
      /\ Cardinality(Unvisited(w, id)) \in Nat /\ Cardinality(Nodes) \in Nat
    BY <1>2, FS_Subset, FS_CardinalityType
<1>4. f \in Surjection(Unvisited(w, id), set)
    BY DEF Surjection, Ahead
<1>5. IsFiniteSet(set) /\ Cardinality(set) <= Cardinality(Unvisited(w, id))
    <2> HIDE DEF set, f
    <2> QED BY <1>3, <1>4, FS_Surjection
<1>6. Cardinality(set) \in Nat
    BY <1>5, FS_CardinalityType
<1>7. \A x \in set : x \in QueueItem(maxDepth) /\ x.depth = d /\ x.id \in Out(id)
    BY <1>1, <1>2 DEF Ahead, QueueItem
<1>8. s \in Seq(set) /\ Len(s) = Cardinality(set) /\ \A x \in set : \E i \in 1..Len(s) : s[i] = x
    <2> HIDE DEF set
    <2> QED BY <1>5, SetToSeqIs
<1>9. \A i \in 1..Len(s) : s[i] \in set
    <2> HIDE DEF set, s
    <2> QED BY <1>8
<1>10. s \in Seq(QueueItem(maxDepth))
    <2>1. s \in [1..Len(s) -> QueueItem(maxDepth)] /\ Len(s) \in Nat
        <3> HIDE DEF set, s
        <3> QED BY <1>6, <1>7, <1>8, <1>9
    <2> HIDE DEF s
    <2> QED BY <2>1
<1>11. ASSUME NEW x \in Out(id) \ (w.visited \cup {id, None}) PROVE \E i \in 1..Len(s) : s[i].id = x
    <2>1. [id |-> x, depth |-> d] \in set
        BY <1>1 DEF Ahead
    <2> HIDE DEF set, s
    <2> QED BY <1>8, <2>1
<1> HIDE DEF set, s
<1>12. Len(s) \in Nat /\ Len(s) <= Cardinality(Nodes)
    BY <1>3, <1>5, <1>6, <1>8
<1> QED BY <1>7, <1>9, <1>10, <1>11, <1>12 DEF s, set

\* What is looked at after an entry: the rest, and what the entry leads to.
Follows(w, v, maxDepth) ==
    LET here == Head(w.queue)
        on == here.depth < maxDepth
    IN  v = [queue |-> IF on THEN Tail(w.queue) \o SetToSeq(Ahead(w, here.id, here.depth + 1)) ELSE Tail(w.queue),
             visited |-> w.visited \cup {here.id},
             depth |-> [x \in DOMAIN w.depth \cup {here.id} |-> IF x = here.id THEN here.depth ELSE w.depth[x]],
             edges |-> w.edges \cup IF on THEN Edges(w, here.id) ELSE {}]

QueueTurned(w, v, maxDepth) ==
    LET here == Head(w.queue)
        n == Len(w.queue) - 1
    IN  /\ v.queue \in Seq(QueueItem(maxDepth)) /\ Len(v.queue) \in Nat /\ n \in Nat
        /\ n <= Len(v.queue) /\ Len(v.queue) <= n + Cardinality(Nodes)
        /\ \A i \in 1..n : v.queue[i] = w.queue[i + 1]
        /\ \A i \in 1..Len(v.queue) : i <= n \/ (v.queue[i].depth = here.depth + 1 /\ v.queue[i].id \in Out(here.id))
        /\ here.depth < maxDepth =>
              \A x \in Out(here.id) \ (w.visited \cup {here.id, None}) :
                 \E i \in 1..Len(v.queue) : v.queue[i].id = x /\ v.queue[i].depth = here.depth + 1

LEMMA QueueFollows ==
    ASSUME Finite, NEW maxDepth \in Nat, NEW w, WalkType(w, maxDepth), w.queue # <<>>,
           Head(w.queue).id \in DOMAIN index, NEW v, Follows(w, v, maxDepth)
    PROVE  QueueTurned(w, v, maxDepth)
<1> DEFINE here == Head(w.queue)
           n == Len(w.queue) - 1
           tail == Tail(w.queue)
<1>1. /\ Len(w.queue) \in Nat /\ Len(w.queue) >= 1 /\ here = w.queue[1]
      /\ tail \in Seq(QueueItem(maxDepth)) /\ Len(tail) = n
      /\ \A i \in 1..n : tail[i] = w.queue[i + 1]
      /\ \A i \in 1..Len(w.queue) : w.queue[i].depth \in 0..maxDepth
    BY QueueTurns
<1>2. here.depth \in 0..maxDepth /\ n \in Nat
    BY <1>1
<1>3. Cardinality(Nodes) \in Nat
    BY NodesAreFinite, FS_CardinalityType
<1>4. CASE here.depth < maxDepth
    <2> DEFINE s == SetToSeq(Ahead(w, here.id, here.depth + 1))
    <2>1. here.depth + 1 \in 0..maxDepth
        BY <1>2, <1>4
    <2>2. /\ s \in Seq(QueueItem(maxDepth)) /\ Len(s) \in Nat /\ Len(s) <= Cardinality(Nodes)
          /\ \A i \in 1..Len(s) : s[i].depth = here.depth + 1 /\ s[i].id \in Out(here.id)
          /\ \A x \in Out(here.id) \ (w.visited \cup {here.id, None}) : \E i \in 1..Len(s) : s[i].id = x
        <3> DEFINE d == here.depth + 1
                   id == here.id
        <3>1. d \in 0..maxDepth /\ id \in DOMAIN index
            BY <2>1
        <3> HIDE DEF d, id
        <3>2. LET x == SetToSeq(Ahead(w, id, d))
              IN  /\ x \in Seq(QueueItem(maxDepth)) /\ Len(x) \in Nat /\ Len(x) <= Cardinality(Nodes)
                  /\ \A i \in 1..Len(x) : x[i].depth = d /\ x[i].id \in Out(id)
                  /\ \A y \in Out(id) \ (w.visited \cup {id, None}) : \E i \in 1..Len(x) : x[i].id = y
            BY <3>1, AheadIs
        <3> QED BY <3>2 DEF d, id
    <2>3. v.queue = tail \o s
        BY <1>4 DEF Follows
    <2> HIDE DEF s, tail, here, n
    <2>4. /\ v.queue \in Seq(QueueItem(maxDepth)) /\ Len(v.queue) = n + Len(s)
          /\ \A i \in 1..n : v.queue[i] = w.queue[i + 1]
          /\ \A i \in 1..Len(s) : v.queue[n + i] = s[i]
        <3>1. tail \in Seq(QueueItem(maxDepth)) /\ s \in Seq(QueueItem(maxDepth)) /\ Len(tail) = n
            BY <1>1, <2>2
        <3>2. v.queue \in Seq(QueueItem(maxDepth)) /\ Len(v.queue) = n + Len(s)
            BY <2>3, <3>1, ConcatProperties
        <3>3. \A i \in 1..n + Len(s) : v.queue[i] = IF i <= n THEN tail[i] ELSE s[i - n]
            BY <2>3, <3>1, ConcatProperties
        <3>4. ASSUME NEW i \in 1..n PROVE v.queue[i] = w.queue[i + 1]
            <4>1. i \in 1..n + Len(s) /\ i <= n /\ tail[i] = w.queue[i + 1]
                BY <1>1, <1>2, <2>2
            <4> QED BY <3>3, <4>1
        <3>5. ASSUME NEW i \in 1..Len(s) PROVE v.queue[n + i] = s[i]
            <4>1. n + i \in 1..n + Len(s) /\ ~(n + i <= n) /\ (n + i) - n = i
                BY <1>2, <2>2
            <4> QED BY <3>3, <4>1
        <3> QED BY <3>2, <3>4, <3>5
    <2>9. Len(v.queue) \in Nat
        BY <1>2, <2>2, <2>4
    <2>5. ASSUME NEW i \in 1..Len(v.queue), ~(i <= n) PROVE v.queue[i].depth = here.depth + 1 /\ v.queue[i].id \in Out(here.id)
        <3>1. i - n \in 1..Len(s) /\ n + (i - n) = i
            BY <1>2, <2>2, <2>4, <2>5, <2>9
        <3>2. v.queue[i] = s[i - n]
            BY <2>4, <3>1
        <3> QED BY <2>2, <3>1, <3>2
    <2>6. ASSUME NEW x \in Out(here.id) \ (w.visited \cup {here.id, None})
          PROVE  \E i \in 1..Len(v.queue) : v.queue[i].id = x /\ v.queue[i].depth = here.depth + 1
        <3>1. PICK i \in 1..Len(s) : s[i].id = x
            BY <2>2
        <3>2. n + i \in 1..Len(v.queue) /\ v.queue[n + i] = s[i] /\ s[i].depth = here.depth + 1
            BY <1>2, <2>2, <2>4
        <3> QED BY <3>1, <3>2
    <2>7. Len(v.queue) \in Nat /\ n <= Len(v.queue) /\ Len(v.queue) <= n + Cardinality(Nodes)
        BY <1>2, <1>3, <2>2, <2>4
    <2> QED BY <1>2, <2>4, <2>5, <2>6, <2>7 DEF here, n, QueueTurned
<1>5. CASE ~(here.depth < maxDepth)
    <2>1. v.queue = tail
        BY <1>5 DEF Follows
    <2> QED BY <1>1, <1>2, <1>3, <1>5, <2>1 DEF QueueTurned
<1> QED BY <1>4, <1>5

\* A visit keeps the invariant.
LEMMA VisitOK ==
    ASSUME Finite, NEW start \in DOMAIN index, NEW maxDepth \in Nat, NEW w, WalkOK(w, start, maxDepth), w.queue # <<>>,
           Head(w.queue).id \notin w.visited, Head(w.queue).id \in DOMAIN index,
           NEW v, Follows(w, v, maxDepth)
    PROVE  WalkOK(v, start, maxDepth)
<1> DEFINE here == Head(w.queue).id
           d == Head(w.queue).depth
           q == w.queue
           n == Len(w.queue) - 1
           p == v.queue
<1>1. WalkType(w, maxDepth)
    BY DEF WalkOK
<1>2. /\ Len(q) \in Nat /\ Len(q) = n + 1 /\ here = q[1].id /\ d = q[1].depth /\ d \in 0..maxDepth /\ here \in Nodes
      /\ \A i \in 1..Len(q) : q[i].depth \in 0..maxDepth
    BY <1>1, QueueTurns
<1>3. /\ p \in Seq(QueueItem(maxDepth)) /\ Len(p) \in Nat /\ n \in Nat /\ n <= Len(p)
      /\ \A i \in 1..n : p[i] = q[i + 1]
      /\ \A i \in 1..Len(p) : i <= n \/ (p[i].depth = d + 1 /\ p[i].id \in Out(here))
      /\ d < maxDepth => \A x \in Out(here) \ (w.visited \cup {here, None}) : \E i \in 1..Len(p) : p[i].id = x /\ p[i].depth = d + 1
    <2>1. QueueTurned(w, v, maxDepth)
        BY <1>1, QueueFollows
    <2> QED BY <2>1 DEF QueueTurned
<1>4. /\ DOMAIN v = {"queue", "visited", "depth", "edges"}
      /\ v.visited = w.visited \cup {here}
      /\ v.depth = [x \in DOMAIN w.depth \cup {here} |-> IF x = here THEN d ELSE w.depth[x]]
      /\ v.edges = w.edges \cup IF d < maxDepth THEN Edges(w, here) ELSE {}
    BY DEF Follows
<1>5. DOMAIN w.depth = w.visited \cap DOMAIN index /\ here \notin DOMAIN w.depth /\ \A x \in DOMAIN w.depth : w.depth[x] \in 0..maxDepth
    BY <1>1 DEF WalkType
<1>6. DOMAIN v.depth = DOMAIN w.depth \cup {here} /\ v.depth[here] = d /\ \A x \in DOMAIN w.depth : v.depth[x] = w.depth[x]
    BY <1>4, <1>5
<1>7. v.visited \cap DOMAIN index = DOMAIN w.depth \cup {here}
    BY <1>4, <1>5
<1>8. WalkType(v, maxDepth)
    <2>1. v.depth \in [v.visited \cap DOMAIN index -> 0..maxDepth]
        BY <1>2, <1>4, <1>5, <1>7
    <2>2. w.visited \in SUBSET Nodes
        BY <1>1 DEF WalkType
    <2> HIDE DEF here, d
    <2> QED BY <1>2, <1>3, <1>4, <2>1, <2>2 DEF WalkType
<1> HIDE DEF here, d, q, n, p
<1>9. \A i \in 1..Len(q) : d <= q[i].depth /\ q[i].depth <= d + 1
    <2>1. 1 \in 1..Len(q) /\ \A i \in 1..Len(q) : 1 <= i
        BY <1>2, <1>3
    <2> QED BY <1>2, <2>1 DEF WalkOK, InOrder, q
<1>10. \A i \in 1..n : i + 1 \in 1..Len(q) /\ p[i] = q[i + 1]
    BY <1>2, <1>3
<1>11. InOrder(v)
    <2> SUFFICES ASSUME NEW i \in 1..Len(p), NEW j \in 1..Len(p)
                 PROVE  /\ p[j].depth <= p[i].depth + 1
                        /\ i <= j => p[i].depth <= p[j].depth
        BY DEF InOrder, p
    <2>1. ASSUME NEW k \in 1..Len(p) PROVE p[k].depth \in Nat /\ d <= p[k].depth /\ p[k].depth <= d + 1 /\ (k <= n \/ p[k].depth = d + 1)
        <3>1. CASE k <= n
            <4>1. k \in 1..n
                BY <1>3, <3>1
            <4> QED BY <1>2, <1>9, <1>10, <4>1
        <3>2. CASE ~(k <= n)
            BY <1>2, <1>3, <3>2
        <3> QED BY <3>1, <3>2
    <2>2. p[j].depth <= p[i].depth + 1
        BY <1>2, <2>1
    <2>3. ASSUME i <= j PROVE p[i].depth <= p[j].depth
        <3>1. CASE j <= n
            <4>1. i \in 1..n /\ j \in 1..n /\ i + 1 <= j + 1
                BY <1>3, <2>3, <3>1
            <4>2. q[i + 1].depth <= q[j + 1].depth
                BY <1>10, <4>1 DEF WalkOK, InOrder, q
            <4> QED BY <1>10, <4>1, <4>2
        <3>2. CASE ~(j <= n)
            BY <1>2, <2>1, <3>2
        <3> QED BY <3>1, <3>2
    <2> QED BY <2>2, <2>3
<1>12. here \in Within(start, d)
    <2>1. 1 \in 1..Len(q) /\ q[1].id \in DOMAIN index
        BY <1>2, <1>3 DEF here
    <2> QED BY <1>2, <2>1 DEF WalkOK, AtMost, q
<1>13. AtMost(v, start)
    <2> SUFFICES ASSUME NEW i \in 1..Len(p), p[i].id \in DOMAIN index PROVE p[i].id \in Within(start, p[i].depth)
        BY DEF AtMost, p
    <2>1. CASE i <= n
        <3>1. i \in 1..n
            BY <1>3, <2>1
        <3> QED BY <1>10, <3>1 DEF WalkOK, AtMost, q
    <2>2. CASE ~(i <= n)
        <3>1. p[i].depth = d + 1 /\ p[i].id \in Out(here)
            BY <1>3, <2>2
        <3>2. p[i].id \in Neighbours(Within(start, d))
            BY <1>12, <3>1, NeighboursAre
        <3>3. d \in Nat
            BY <1>2
        <3> QED BY <3>1, <3>2, <3>3, WithinIs
    <2> QED BY <2>1, <2>2
<1>14. Exact(v, start, maxDepth)
    <2> SUFFICES ASSUME NEW x \in DOMAIN v.depth, NEW k \in 0..maxDepth PROVE v.depth[x] <= k <=> x \in Within(start, k)
        BY DEF Exact
    <2>1. CASE x # here
        BY <1>6, <2>1 DEF WalkOK, Exact
    <2>2. CASE x = here
        <3>1. d <= k => here \in Within(start, k)
            BY <1>2, <1>12, WithinGrows
        <3>2. k < d => here \notin Within(start, k)
            <4>1. d \in 0..maxDepth + 1 /\ k \in Nat
                BY <1>2
            <4>2. \A i \in 1..Len(w.queue) : w.queue[i].depth >= d
                BY <1>2, <1>9 DEF q
            <4>3. k < d => Within(start, k) \subseteq w.visited
                BY <4>1, <4>2, NearerIsVisited
            <4> QED BY <4>3 DEF here
        <3> QED BY <1>2, <1>6, <2>2, <3>1, <3>2
    <2> QED BY <2>1, <2>2
<1>15. ASSUME NEW x \in DOMAIN index, NEW k, x \in w.visited \/ Queued(w, x, k) PROVE x \in v.visited \/ Queued(v, x, k)
    <2>1. CASE Queued(w, x, k)
        <3>1. PICK i \in 1..Len(q) : q[i].id = x /\ q[i].depth <= k
            BY <2>1 DEF Queued, q
        <3>2. CASE i = 1
            BY <1>2, <1>4, <3>1, <3>2
        <3>3. CASE i # 1
            <4>1. i - 1 \in 1..n /\ i - 1 \in 1..Len(p) /\ (i - 1) + 1 = i
                BY <1>2, <1>3, <3>3
            <4>2. p[i - 1] = q[i]
                BY <1>10, <4>1
            <4> QED BY <3>1, <4>1, <4>2 DEF Queued, p
        <3> QED BY <3>2, <3>3
    <2> QED BY <1>4, <1>15, <2>1
<1>16. Complete(v, maxDepth)
    <2> SUFFICES ASSUME NEW x \in DOMAIN v.depth, v.depth[x] < maxDepth, NEW y \in Out(x) \cap DOMAIN index
                 PROVE  y \in v.visited \/ Queued(v, y, v.depth[x] + 1)
        BY DEF Complete
    <2>1. CASE x # here
        <3>1. x \in DOMAIN w.depth /\ v.depth[x] = w.depth[x]
            BY <1>6, <2>1
        <3>2. y \in w.visited \/ Queued(w, y, w.depth[x] + 1)
            BY <3>1 DEF WalkOK, Complete
        <3> QED BY <1>15, <3>1, <3>2
    <2>2. CASE x = here
        <3>1. d < maxDepth /\ v.depth[x] = d /\ y \in Out(here) /\ y # None
            BY <1>6, <2>2 DEF Finite
        <3>2. CASE y \in w.visited \cup {here}
            BY <1>4, <3>2
        <3>3. CASE y \notin w.visited \cup {here}
            <4>1. PICK i \in 1..Len(p) : p[i].id = y /\ p[i].depth = d + 1
                BY <1>3, <3>1, <3>3
            <4>2. d + 1 <= d + 1
                BY <1>2
            <4> QED BY <3>1, <4>1, <4>2 DEF Queued, p
        <3> QED BY <3>2, <3>3
    <2> QED BY <2>1, <2>2
<1>17. Begun(v, start)
    BY <1>15 DEF WalkOK, Begun
<1>18. EdgesOK(v, maxDepth)
    <2>1. EdgesOK(w, maxDepth)
        BY DEF WalkOK
    <2>2. CASE d < maxDepth
        <3>1. v.edges = w.edges \cup Edges(w, here)
            BY <1>4, <2>2
        <3>2. /\ \A e \in v.edges : e.from # None /\ e.to # None
              /\ \A e, f \in v.edges : SameEdge(e, f) => e = f
              /\ \A y \in index[here].relations : y.chainId # None => \E e \in v.edges : SameEdge(e, EdgeOf(here, y))
            BY <2>1, <3>1, EdgesTurn DEF here
        <3>3. \A x \in DOMAIN v.depth : v.depth[x] < maxDepth =>
                 \A y \in index[x].relations : y.chainId # None => \E e \in v.edges : SameEdge(e, EdgeOf(x, y))
            <4> SUFFICES ASSUME NEW x \in DOMAIN v.depth, v.depth[x] < maxDepth, NEW y \in index[x].relations, y.chainId # None
                         PROVE  \E e \in v.edges : SameEdge(e, EdgeOf(x, y))
                OBVIOUS
            <4>1. CASE x = here
                BY <3>2, <4>1
            <4>2. CASE x # here
                <5>1. x \in DOMAIN w.depth /\ w.depth[x] < maxDepth
                    BY <1>6, <4>2
                <5>2. \E e \in w.edges : SameEdge(e, EdgeOf(x, y))
                    BY <2>1, <5>1 DEF EdgesOK
                <5> QED BY <3>1, <5>2
            <4> QED BY <4>1, <4>2
        <3> QED BY <3>2, <3>3 DEF EdgesOK
    <2>3. CASE ~(d < maxDepth)
        <3>1. v.edges = w.edges
            BY <1>4, <2>3
        <3>2. \A x \in DOMAIN v.depth : v.depth[x] < maxDepth => x \in DOMAIN w.depth /\ w.depth[x] < maxDepth
            BY <1>6, <2>3
        <3> QED BY <2>1, <3>1, <3>2 DEF EdgesOK
    <2> QED BY <2>2, <2>3
<1> QED BY <1>8, <1>11, <1>13, <1>14, <1>16, <1>17, <1>18 DEF WalkOK

LEMMA VisitIs ==
    ASSUME NEW w, NEW maxDepth
    PROVE  LET here == Head(w.queue)
               v == VisitNext(w, maxDepth)
           IN  /\ here.id \in w.visited \/ here.id \notin DOMAIN index
                     => v = [w EXCEPT !.queue = Tail(w.queue), !.visited = @ \cup {here.id}]
               /\ here.id \notin w.visited /\ here.id \in DOMAIN index => Follows(w, v, maxDepth)
<1>1. TakeOldest(w.queue)[1] = Head(w.queue) /\ TakeOldest(w.queue)[2] = Tail(w.queue)
    BY DEF TakeOldest
<1> QED BY <1>1 DEF VisitNext, Follows, Ahead

\* Each step takes from this.
ToLookAt(w) == Len(w.queue) + Cardinality(Nodes) * Cardinality(Nodes \ w.visited)

\* A step keeps the invariant and takes from what is to look at.
LEMMA VisitGoesOn ==
    ASSUME Finite, NEW start \in DOMAIN index, NEW maxDepth \in Nat, NEW w, WalkOK(w, start, maxDepth), w.queue # <<>>
    PROVE  LET v == VisitNext(w, maxDepth)
           IN  /\ WalkOK(v, start, maxDepth)
               /\ ToLookAt(w) \in Nat /\ ToLookAt(v) \in Nat /\ ToLookAt(v) < ToLookAt(w)
<1> DEFINE here == Head(w.queue)
           v == VisitNext(w, maxDepth)
           m == Cardinality(Nodes)
           left == Cardinality(Nodes \ w.visited)
           after == Cardinality(Nodes \ v.visited)
<1>1. WalkType(w, maxDepth) /\ w.visited \in SUBSET Nodes
    BY DEF WalkOK, WalkType
<1>2. Len(w.queue) \in Nat /\ Len(w.queue) >= 1 /\ Len(Tail(w.queue)) = Len(w.queue) - 1 /\ here.id \in Nodes
    BY <1>1, QueueTurns
<1>3. IsFiniteSet(Nodes) /\ m \in Nat /\ \A set \in SUBSET Nodes : IsFiniteSet(set) /\ Cardinality(set) \in Nat
    BY NodesAreFinite, FS_Subset, FS_CardinalityType
<1>4. left \in Nat
    BY <1>3
<1>5. CASE here.id \in w.visited \/ here.id \notin DOMAIN index
    <2>1. v = [w EXCEPT !.queue = Tail(w.queue), !.visited = @ \cup {here.id}]
        BY <1>5, VisitIs
    <2>2. WalkOK(v, start, maxDepth)
        <3> HIDE DEF v
        <3> QED BY <1>5, <2>1, DiscardOK
    <2>3. v.queue = Tail(w.queue) /\ v.visited = w.visited \cup {here.id}
        BY <1>1, <2>1 DEF WalkType
    <2> HIDE DEF v, here
    <2>4. after \in Nat /\ after <= left
        <3>1. Nodes \ v.visited \in SUBSET (Nodes \ w.visited) /\ IsFiniteSet(Nodes \ w.visited)
            BY <1>3, <2>3
        <3>2. Cardinality(Nodes \ v.visited) <= Cardinality(Nodes \ w.visited)
            BY <3>1, FS_Subset
        <3> QED BY <1>3, <3>2
    <2>5. m * after \in Nat /\ m * left \in Nat /\ m * after <= m * left
        <3> HIDE DEF m, after, left
        <3>1. m * left = m * after + m * (left - after) /\ left - after \in Nat
            BY <1>3, <1>4, <2>4
        <3>2. m * (left - after) \in Nat /\ m * after \in Nat
            BY <1>3, <1>4, <2>4, <3>1
        <3> QED BY <3>1, <3>2
    <2>6. ToLookAt(w) = Len(w.queue) + m * left /\ ToLookAt(v) = Len(v.queue) + m * after
        BY DEF ToLookAt
    <2> HIDE DEF m, after, left
    <2> QED BY <1>2, <2>2, <2>3, <2>5, <2>6 DEF v
<1>6. CASE here.id \notin w.visited /\ here.id \in DOMAIN index
    <2>1. Follows(w, v, maxDepth)
        BY <1>6, VisitIs
    <2>2. WalkOK(v, start, maxDepth)
        <3> HIDE DEF v
        <3> QED BY <1>6, <2>1, VisitOK
    <2>3. Len(v.queue) \in Nat /\ Len(v.queue) <= (Len(w.queue) - 1) + m
        <3> HIDE DEF v
        <3>1. QueueTurned(w, v, maxDepth)
            BY <1>1, <1>6, <2>1, QueueFollows
        <3> QED BY <3>1 DEF QueueTurned
    <2>4. v.visited = w.visited \cup {here.id}
        <3> HIDE DEF v
        <3> QED BY <2>1 DEF Follows
    <2> HIDE DEF v
    <2>5. after \in Nat /\ left = after + 1
        <3>1. Nodes \ v.visited = (Nodes \ w.visited) \ {here.id} /\ here.id \in Nodes \ w.visited
            BY <1>2, <1>6, <2>4
        <3>2. IsFiniteSet(Nodes \ w.visited)
            BY <1>3
        <3>3. after = left - 1
            <4> DEFINE unseen == Nodes \ w.visited
                       x == here.id
            <4>1. x \in unseen /\ IsFiniteSet(unseen)
                BY <3>1, <3>2
            <4>2. Cardinality(unseen \ {x}) = Cardinality(unseen) - 1
                <5> HIDE DEF unseen, x
                <5> QED BY <4>1, FS_RemoveElement
            <4> QED BY <3>1, <4>2
        <3>4. after \in Nat
            <4>1. Nodes \ v.visited \in SUBSET Nodes
                OBVIOUS
            <4> QED BY <1>3, <4>1
        <3> HIDE DEF after, left
        <3> QED BY <1>4, <3>3, <3>4
    <2>6. m * after \in Nat /\ m * left = m * after + m
        <3> HIDE DEF m, after, left
        <3> QED BY <1>3, <2>5
    <2>7. ToLookAt(w) = Len(w.queue) + m * left /\ ToLookAt(v) = Len(v.queue) + m * after
        BY DEF ToLookAt
    <2> HIDE DEF m, after, left
    <2> QED BY <1>2, <1>3, <2>2, <2>3, <2>6, <2>7 DEF v
<1> QED BY <1>5, <1>6

LEMMA StartOK ==
    ASSUME NEW start \in DOMAIN index, NEW maxDepth \in Nat
    PROVE  WalkOK(Start(start), start, maxDepth)
<1> DEFINE w == Start(start)
           item == [id |-> start, depth |-> 0]
<1>1. DOMAIN w = {"queue", "visited", "depth", "edges"} /\ w.queue = <<item>> /\ w.visited = {} /\ w.edges = {} /\ w.depth = [x \in {} |-> 0]
    BY DEF Start
<1>2. item \in QueueItem(maxDepth) /\ item.id = start /\ item.depth = 0
    BY NodesAre DEF QueueItem
<1> HIDE DEF item
<1>3. w.queue \in Seq(QueueItem(maxDepth)) /\ Len(w.queue) = 1 /\ w.queue[1] = item
    BY <1>1, <1>2
<1>4. \A i \in 1..Len(w.queue) : w.queue[i] = item /\ i = 1
    BY <1>3
<1> HIDE DEF w
<1>5. WalkType(w, maxDepth)
    BY <1>1, <1>3 DEF WalkType
<1>6. InOrder(w) /\ Queued(w, start, 0)
    BY <1>2, <1>3, <1>4 DEF InOrder, Queued
<1>7. AtMost(w, start)
    BY <1>2, <1>4, WithinIs DEF AtMost
<1>8. DOMAIN w.depth = {}
    BY <1>1
<1>9. Exact(w, start, maxDepth) /\ Complete(w, maxDepth) /\ EdgesOK(w, maxDepth)
    BY <1>1, <1>8 DEF Exact, Complete, EdgesOK
<1> QED BY <1>5, <1>6, <1>7, <1>9 DEF WalkOK, Begun, w

WalkStep(w, maxDepth) == IF w.queue = <<>> THEN w ELSE VisitNext(w, maxDepth)

\* f lists the states of n steps of a walk.
IsWalk(f, n, start, maxDepth) ==
    f = [i \in 0..n |-> IF i = 0 THEN Start(start)
                        ELSE LET before == f[i - 1] IN IF before.queue = <<>> THEN before ELSE VisitNext(before, maxDepth)]

LEMMA IsWalkIs ==
    ASSUME NEW f, NEW n, NEW start, NEW maxDepth
    PROVE  IsWalk(f, n, start, maxDepth)
               <=> f = [i \in 0..n |-> IF i = 0 THEN Start(start) ELSE WalkStep(f[i - 1], maxDepth)]
BY DEF IsWalk, WalkStep

LEMMA WalksAre ==
    ASSUME NEW start, NEW maxDepth
    PROVE  \A n \in Nat : \E f : IsWalk(f, n, start, maxDepth)
<1> DEFINE Step(w) == WalkStep(w, maxDepth)
           first == Start(start)
           Runs1(f, n) == f = [i \in 0..n |-> IF i = 0 THEN first ELSE Step(f[i - 1])]
           Has == {n \in Nat : \E f : Runs1(f, n)}
<1>1. 0 \in Has
    <2> DEFINE f == [i \in 0..0 |-> first]
    <2>1. Runs1(f, 0)
        OBVIOUS
    <2> QED BY <2>1
<1>2. ASSUME NEW n \in Nat, n \in Has PROVE n + 1 \in Has
    <2>1. PICK f : Runs1(f, n)
        BY <1>2
    <2> DEFINE g == [i \in 0..n + 1 |-> IF i = n + 1 THEN Step(f[n]) ELSE f[i]]
    <2>2. ASSUME NEW i \in 0..n + 1 PROVE g[i] = IF i = 0 THEN first ELSE Step(g[i - 1])
        <3> HIDE DEF Step, first
        <3>1. CASE i = n + 1
            <4>1. g[i] = Step(f[n]) /\ i # 0 /\ i - 1 = n /\ n \in 0..n + 1 /\ n # n + 1
                BY <3>1
            <4>2. g[n] = f[n]
                BY <4>1
            <4> HIDE DEF g
            <4> QED BY <4>1, <4>2
        <3>2. CASE i # n + 1
            <4>1. i \in 0..n /\ g[i] = f[i]
                BY <3>2
            <4>2. f[i] = IF i = 0 THEN first ELSE Step(f[i - 1])
                BY <2>1, <4>1
            <4>3. i # 0 => i - 1 \in 0..n + 1 /\ i - 1 # n + 1 /\ g[i - 1] = f[i - 1]
                BY <3>2
            <4> HIDE DEF g
            <4> QED BY <4>1, <4>2, <4>3
        <3> QED BY <3>1, <3>2
    <2>3. Runs1(g, n + 1)
        <3> HIDE DEF Step, first
        <3> QED BY <2>2
    <2> HIDE DEF Runs1
    <2> QED BY <2>3
<1>3. Nat \subseteq Has
    <2> HIDE DEF Has
    <2> QED BY <1>1, <1>2, EachFollows
<1>4. \A n \in Nat : \E f : Runs1(f, n)
    BY <1>3
<1> QED BY <1>4, IsWalkIs

\* The walk is over within its bound, and keeps its invariant.
LEMMA TraversalIs ==
    ASSUME Finite, NEW start \in DOMAIN index, NEW maxDepth \in Nat
    PROVE  LET w == TraverseRelations(start, maxDepth)
           IN  WalkOK(w, start, maxDepth) /\ w.queue = <<>>
<1> DEFINE m == Cardinality(Nodes)
           last == m * m + 1
           f == CHOOSE g : IsWalk(g, last, start, maxDepth)
           Has == {i \in Nat : i <= last => /\ WalkOK(f[i], start, maxDepth)
                                            /\ f[i].queue = <<>> \/ (ToLookAt(f[i]) \in Nat /\ ToLookAt(f[i]) + i <= last)}
<1>1. m \in Nat /\ last \in Nat
    <2>1. m \in Nat
        BY NodesAreFinite, FS_CardinalityType
    <2> HIDE DEF m
    <2> QED BY <2>1
<1>2. IsWalk(f, last, start, maxDepth)
    <2> HIDE DEF last
    <2> QED BY <1>1, WalksAre
<1>3. TraverseRelations(start, maxDepth) = f[last]
    BY DEF TraverseRelations, IsWalk
<1>4. f = [i \in 0..last |-> IF i = 0 THEN Start(start) ELSE WalkStep(f[i - 1], maxDepth)]
    <2> HIDE DEF f
    <2> QED BY <1>2, IsWalkIs
<1>5. ToLookAt(Start(start)) = last
    <2>1. Len(<<[id |-> start, depth |-> 0]>>) = 1 /\ Nodes \ {} = Nodes
        OBVIOUS
    <2>2. ToLookAt(Start(start)) = 1 + m * m
        BY <2>1 DEF ToLookAt, Start
    <2> HIDE DEF m
    <2> QED BY <1>1, <2>2
<1> HIDE DEF f, last
<1>6. 0 \in Has
    <2>1. f[0] = Start(start)
        BY <1>1, <1>4
    <2> QED BY <1>1, <1>5, <2>1, StartOK
<1>7. ASSUME NEW i \in Nat, i \in Has PROVE i + 1 \in Has
    <2> SUFFICES ASSUME i + 1 <= last
                 PROVE  /\ WalkOK(f[i + 1], start, maxDepth)
                        /\ f[i + 1].queue = <<>> \/ (ToLookAt(f[i + 1]) \in Nat /\ ToLookAt(f[i + 1]) + (i + 1) <= last)
        OBVIOUS
    <2>1. f[i + 1] = WalkStep(f[i], maxDepth)
        <3>1. i + 1 \in 0..last /\ i + 1 # 0 /\ (i + 1) - 1 = i
            BY <1>1
        <3> QED BY <1>4, <3>1
    <2>2. /\ WalkOK(f[i], start, maxDepth)
          /\ f[i].queue = <<>> \/ (ToLookAt(f[i]) \in Nat /\ ToLookAt(f[i]) + i <= last)
        BY <1>1, <1>7
    <2>3. CASE f[i].queue = <<>>
        BY <2>1, <2>2, <2>3 DEF WalkStep
    <2>4. CASE f[i].queue # <<>>
        <3>1. f[i + 1] = VisitNext(f[i], maxDepth)
            BY <2>1, <2>4 DEF WalkStep
        <3>2. WalkOK(f[i + 1], start, maxDepth) /\ ToLookAt(f[i]) \in Nat /\ ToLookAt(f[i + 1]) \in Nat /\ ToLookAt(f[i + 1]) < ToLookAt(f[i])
            BY <2>2, <2>4, <3>1, VisitGoesOn
        <3> QED BY <1>1, <2>2, <2>4, <3>2
    <2> QED BY <2>3, <2>4
<1>8. Nat \subseteq Has
    <2> HIDE DEF Has
    <2> QED BY <1>6, <1>7, EachFollows
<1>9. WalkOK(f[last], start, maxDepth) /\ (f[last].queue = <<>> \/ (ToLookAt(f[last]) \in Nat /\ ToLookAt(f[last]) + last <= last))
    BY <1>1, <1>8
<1>10. ASSUME f[last].queue # <<>> PROVE FALSE
    <2>1. ToLookAt(f[last]) = 0
        BY <1>1, <1>9, <1>10
    <2>2. ToLookAt(VisitNext(f[last], maxDepth)) \in Nat /\ ToLookAt(VisitNext(f[last], maxDepth)) < ToLookAt(f[last])
        BY <1>9, <1>10, VisitGoesOn
    <2> QED BY <2>1, <2>2
<1> QED BY <1>3, <1>9, <1>10

LEMMA RecordRelations ==
    ASSUME IndexInv, NEW id \in DOMAIN index
    PROVE  index[id].relations = Upward(Said)[id] \cup Downward(Upward(Said), id)
BY IndexIs, IdsAreFinite, RecordIs

LEMMA RelationsAreFinite == IndexInv => Finite
<1> SUFFICES ASSUME IndexInv PROVE Finite
    OBVIOUS
<1> DEFINE c == Said
<1>1. DOMAIN index = Ids(c) /\ IsFiniteSet(Ids(c)) /\ None \notin Ids(c)
    BY IndexIs, IdsAreFinite
<1>2. ASSUME NEW id \in Ids(c) PROVE IsFiniteSet(Relations(c, id))
    <2> DEFINE Up(s) ==
                    IF Stated(c, id, s) /\ c[s][id].parent # None
                    THEN LET p == c[s][id].parent
                         IN  {Relation(IF p.type = "L2" THEN "l2Of" ELSE "testnetOf", p.id, s)}
                    ELSE {}
               new == {x \in Up("chainlist") : \A y \in Up("chains") : y.kind # x.kind \/ y.chainId # x.chainId}
    <2>1. \A s : IsFiniteSet(Up(s))
        BY FS_EmptySet, FS_Singleton
    <2>2. IsFiniteSet(new)
        <3> HIDE DEF Up
        <3> QED BY <2>1, FS_Subset
    <2>3. IsFiniteSet(GraphRelations(c, id))
        <3>1. CASE Stated(c, id, "theGraph")
            <4> DEFINE said == c["theGraph"][id].relations
                       f == [x \in said |-> Relation(x.kind, x.id, "theGraph")]
            <4>1. id \in DOMAIN raw["theGraph"] /\ c["theGraph"][id] = raw["theGraph"][id]
                BY <3>1, CleanIs DEF Stated, Said, IndexInv, Source
            <4>2. raw \in Registries
                BY <4>1 DEF IndexInv, NoRegistry, Nothing
            <4>3. IsFiniteSet(said)
                BY <4>1, <4>2, IndexAssumption
            <4>4. GraphRelations(c, id) = {f[x] : x \in said}
                BY <3>1 DEF GraphRelations
            <4> HIDE DEF said, f
            <4> QED BY <4>3, <4>4, ImagesAreFinite
        <3>2. CASE ~Stated(c, id, "theGraph")
            BY <3>2, FS_EmptySet DEF GraphRelations
        <3> QED BY <3>1, <3>2
    <2>4. Relations(c, id) = (Up("chains") \cup new) \cup GraphRelations(c, id)
        BY DEF Relations
    <2> HIDE DEF Up, new
    <2> QED BY <2>1, <2>2, <2>3, <2>4, FS_Union
<1>3. ASSUME NEW id \in Ids(c) PROVE IsFiniteSet(Out(id))
    <2> DEFINE up == Upward(c)[id]
               f == [x \in up |-> x.chainId]
               to == {f[x] : x \in up}
    <2>1. IsFiniteSet(up)
        BY <1>2 DEF Upward
    <2>2. IsFiniteSet(to)
        <3> HIDE DEF up, f
        <3> QED BY <2>1, ImagesAreFinite
    <2>3. \A x \in Downward(Upward(c), id) : x.chainId \in Ids(c)
        BY DEF Downward, Relation, Upward
    <2>4. index[id].relations = up \cup Downward(Upward(c), id)
        BY <1>1, RecordRelations
    <2>5. Out(id) \subseteq to \cup Ids(c)
        BY <2>3, <2>4 DEF Out
    <2>6. IsFiniteSet(to \cup Ids(c))
        <3> HIDE DEF to, c
        <3> QED BY <1>1, <2>2, FS_Union
    <2> HIDE DEF to, c
    <2> QED BY <2>5, <2>6, FS_Subset
<1> QED BY <1>1, <1>3 DEF Finite

\* What WalkOK says of an empty queue is what was to show.
LEMMA TraversalsAreBreadthFirst == IndexInv => TraversalIsBreadthFirst
<1> SUFFICES ASSUME IndexInv, NEW start \in DOMAIN index, NEW maxDepth \in 1..3
             PROVE  LET walk == TraverseRelations(start, maxDepth)
                    IN  /\ walk.queue = <<>>
                        /\ DOMAIN walk.depth = Within(start, maxDepth)
                        /\ \A x \in DOMAIN walk.depth, n \in 0..maxDepth : walk.depth[x] <= n <=> x \in Within(start, n)
                        /\ \A x \in Within(start, maxDepth - 1) : \A y \in index[x].relations :
                              Cardinality({e \in walk.edges : SameEdge(e, [from |-> x, to |-> y.chainId, kind |-> y.kind])})
                                  = IF y.chainId = None THEN 0 ELSE 1
    BY Zenon DEF TraversalIsBreadthFirst
<1> DEFINE w == TraverseRelations(start, maxDepth)
<1>1. Finite /\ maxDepth \in Nat /\ maxDepth >= 1
    BY RelationsAreFinite
<1>2. WalkOK(w, start, maxDepth) /\ w.queue = <<>>
    BY <1>1, TraversalIs
<1> HIDE DEF w
<1>3. /\ w.visited \in SUBSET Nodes /\ DOMAIN w.depth = w.visited \cap DOMAIN index
      /\ \A x \in DOMAIN w.depth : w.depth[x] \in 0..maxDepth
    BY <1>2 DEF WalkOK, WalkType
<1>4. Within(start, maxDepth) \subseteq w.visited
    <2>1. maxDepth + 1 \in 0..maxDepth + 1 /\ maxDepth < maxDepth + 1
        BY <1>1
    <2>2. Len(w.queue) = 0
        BY <1>2
    <2>3. \A i \in 1..Len(w.queue) : w.queue[i].depth >= maxDepth + 1
        BY <2>2
    <2> QED BY <1>1, <1>2, <2>1, <2>3, NearerIsVisited
<1>5. DOMAIN w.depth = Within(start, maxDepth)
    <2>1. Within(start, maxDepth) \subseteq DOMAIN index
        BY <1>1, WithinIs
    <2>2. ASSUME NEW x \in DOMAIN w.depth PROVE x \in Within(start, maxDepth)
        <3>1. w.depth[x] <= maxDepth /\ maxDepth \in 0..maxDepth
            BY <1>1, <1>3
        <3> QED BY <1>2, <3>1 DEF WalkOK, Exact
    <2> QED BY <1>3, <1>4, <2>1, <2>2
<1>6. ASSUME NEW x \in Within(start, maxDepth - 1), NEW y \in index[x].relations
      PROVE  Cardinality({e \in w.edges : SameEdge(e, EdgeOf(x, y))}) = IF y.chainId = None THEN 0 ELSE 1
    <2> DEFINE same == {e \in w.edges : SameEdge(e, EdgeOf(x, y))}
    <2>1. maxDepth - 1 \in Nat /\ maxDepth - 1 <= maxDepth /\ maxDepth - 1 \in 0..maxDepth
        BY <1>1
    <2>2. x \in DOMAIN w.depth /\ x \in DOMAIN index
        BY <1>1, <1>5, <2>1, WithinGrows, WithinIs
    <2>3. w.depth[x] <= maxDepth - 1
        BY <1>2, <2>1, <2>2 DEF WalkOK, Exact
    <2>4. w.depth[x] < maxDepth
        BY <1>1, <1>3, <2>2, <2>3
    <2>5. EdgesOK(w, maxDepth)
        BY <1>2 DEF WalkOK
    <2>6. CASE y.chainId = None
        <3>1. ASSUME NEW e \in w.edges, SameEdge(e, EdgeOf(x, y)) PROVE FALSE
            <4>1. {e.from, e.to} = {x, None}
                BY <2>6, <3>1 DEF SameEdge, EdgeOf
            <4>2. e.from # None /\ e.to # None
                BY <2>5 DEF EdgesOK
            <4> QED BY <4>1, <4>2
        <3>2. same = {}
            BY <3>1
        <3> QED BY <2>6, <3>2, FS_EmptySet
    <2>7. CASE y.chainId # None
        <3>1. PICK e \in w.edges : SameEdge(e, EdgeOf(x, y))
            BY <2>2, <2>4, <2>5, <2>7 DEF EdgesOK
        <3>2. ASSUME NEW f \in w.edges, SameEdge(f, EdgeOf(x, y)) PROVE f = e
            <4>1. SameEdge(f, e)
                BY <3>1, <3>2 DEF SameEdge
            <4> QED BY <2>5, <4>1 DEF EdgesOK
        <3>3. same = {e}
            BY <3>1, <3>2
        <3> QED BY <2>7, <3>3, FS_Singleton
    <2> QED BY <2>6, <2>7
<1>7. \A x \in DOMAIN w.depth, n \in 0..maxDepth : w.depth[x] <= n <=> x \in Within(start, n)
    BY <1>2 DEF WalkOK, Exact
<1> QED BY <1>2, <1>5, <1>6, <1>7 DEF w, EdgeOf

\* Whatever the registries say of whom, a walk ends, finds each chain at its distance, and
\* has every relation of those it went on from once (relations.js:86-130).
THEOREM TraversalIsAlwaysBreadthFirst == CatalogueSpec => []TraversalIsBreadthFirst
<1>1. CatalogueInit => IndexInv
    BY IndexBegins
<1>2. IndexInv /\ [CatalogueNext]_everything => IndexInv'
    BY IndexGoesOn
<1>3. IndexInv => TraversalIsBreadthFirst
    BY TraversalsAreBreadthFirst
<1> QED BY <1>1, <1>2, <1>3, PTL DEF CatalogueSpec
=============================================================================
