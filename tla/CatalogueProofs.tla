-------------------------- MODULE CatalogueProofs --------------------------
(***************************************************************************)
(* What is proved of the catalogue's parts: the archive of a feed and the  *)
(* store of posts, the verdict on a halt, the live incidents, and the page *)
(* that shows incidents.  Each part has an inductive invariant of its own, *)
(* which says what its data are of: the newest posts of those heard, the   *)
(* state of the newest update, the dated events of an incident.            *)
(***************************************************************************)
EXTENDS MCCatalogue, FiniteSetTheorems, WellFoundedInduction, TLAPS

-----------------------------------------------------------------------------
(* Finite sets: one of some elements is the first, in whatever order, for  *)
(* a set without would have a smallest subset without.                     *)

LEMMA FiniteHasFirst ==
    ASSUME NEW Set, IsFiniteSet(Set), Set # {}, NEW R,
           \A x, y \in Set : <<x, y>> \in R \/ <<y, x>> \in R,
           \A x, y, z \in Set : <<x, y>> \in R /\ <<y, z>> \in R => <<x, z>> \in R
    PROVE  \E m \in Set : \A x \in Set : <<m, x>> \in R
<1> DEFINE Has(U) == \E m \in U : \A x \in U : <<m, x>> \in R
           Bad == {U \in SUBSET Set : U # {} /\ ~Has(U)}
           Less == StrictSubsetOrdering(Set)
<1> SUFFICES ASSUME ~Has(Set) PROVE FALSE
    OBVIOUS
<1>1. IsWellFoundedOn(Less, SUBSET Set)
    BY FS_StrictSubsetOrderingWellFounded, FS_FiniteSubsetsOfFinite
<1>2. Set \in Bad
    OBVIOUS
<1>3. PICK U \in Bad : \A W \in Bad : ~(<<W, U>> \in Less)
    <2>1. Bad \subseteq SUBSET Set /\ Bad # {}
        BY <1>2
    <2> HIDE DEF Bad, Less
    <2> QED BY <1>1, <2>1, WFMin
<1>4. PICK x \in U : TRUE
    BY <1>3
<1> DEFINE W == U \ {x}
<1>5. CASE W = {}
    <2>1. U = {x} /\ x \in Set
        BY <1>3, <1>4, <1>5
    <2> QED BY <1>3, <2>1
<1>6. CASE W # {}
    <2>1. <<W, U>> \in Less
        BY <1>3, <1>4 DEF StrictSubsetOrdering
    <2>2. W \in SUBSET Set /\ W \notin Bad
        BY <1>3, <2>1
    <2>3. PICK m \in W : \A y \in W : <<m, y>> \in R
        BY <1>6, <2>2
    <2>4. m \in Set /\ x \in Set /\ U \subseteq Set /\ <<x, x>> \in R
        BY <1>3, <1>4
    <2>5. CASE <<m, x>> \in R
        BY <1>3, <2>3, <2>4, <2>5
    <2>6. CASE <<x, m>> \in R
        <3>1. \A y \in U : <<x, y>> \in R
            BY <2>3, <2>4, <2>6
        <3> QED BY <1>3, <1>4, <3>1
    <2> QED BY <2>4, <2>5, <2>6
<1> QED BY <1>5, <1>6

LEMMA FiniteHasLeast ==
    ASSUME NEW Set \in SUBSET Int, IsFiniteSet(Set), Set # {}
    PROVE  \E m \in Set : \A x \in Set : m <= x
<1> DEFINE R == {p \in Set \X Set : p[1] <= p[2]}
<1>1. /\ \A x, y \in Set : <<x, y>> \in R \/ <<y, x>> \in R
      /\ \A x, y, z \in Set : <<x, y>> \in R /\ <<y, z>> \in R => <<x, z>> \in R
    OBVIOUS
<1>2. \E m \in Set : \A x \in Set : <<m, x>> \in R
    <2> HIDE DEF R
    <2> QED BY <1>1, FiniteHasFirst
<1> QED BY <1>2

LEMMA FiniteHasGreatest ==
    ASSUME NEW Set \in SUBSET Int, IsFiniteSet(Set), Set # {}
    PROVE  \E m \in Set : \A x \in Set : x <= m
<1> DEFINE R == {p \in Set \X Set : p[2] <= p[1]}
<1>1. /\ \A x, y \in Set : <<x, y>> \in R \/ <<y, x>> \in R
      /\ \A x, y, z \in Set : <<x, y>> \in R /\ <<y, z>> \in R => <<x, z>> \in R
    OBVIOUS
<1>2. \E m \in Set : \A x \in Set : <<m, x>> \in R
    <2> HIDE DEF R
    <2> QED BY <1>1, FiniteHasFirst
<1> QED BY <1>2

LEMMA TimesAreFinite ==
    ASSUME NEW Set, IsFiniteSet(Set)
    PROVE  IsFiniteSet({x.at : x \in Set})
<1> DEFINE f == [x \in Set |-> x.at]
<1>1. f \in Surjection(Set, {x.at : x \in Set})
    BY DEF Surjection
<1> HIDE DEF f
<1> QED BY <1>1, FS_Surjection

-----------------------------------------------------------------------------
(* The archive of a feed.  Pages hold what they claim: everything that     *)
(* mentions a fork, was there when they were started and is newer than     *)
(* where they end.                                                         *)

\* What was read from a start down to where it ends.
PagesOK(pages) ==
    /\ DOMAIN pages = DOMAIN A!NoPages
    /\ \A x \in pages.asOf : x.fork /\ x.at <= pages.start /\ x.at > pages.oldest => x \in pages.items

\* What is served, with the pages below its newest one.
ServedOK(s) ==
    /\ PagesOK(s.with)
    /\ \A x \in s.asOf :
          /\ x.fork /\ x.at > s.oldest
          /\ x.at > s.page \/ (x \in s.with.asOf /\ x.at <= s.with.start)
          => x \in s.items

CacheFields == {"items", "ok", "filtered", "oldest", "page", "asOf", "with"}
OlderFields == {"step", "newest", "page", "asOf", "items", "until", "left"}

\* The newest page is of the start; the feed goes on, and nothing that was there is left
\* out above where the next page is to start.
OlderOK(r) ==
    /\ DOMAIN r = OlderFields /\ r.step = "older" /\ r.page \in Int /\ r.until \in Int
    /\ r.asOf \subseteq archive /\ r.newest \subseteq archive
    /\ \A x \in r.asOf : x.fork /\ x.at > r.page => x \in r.newest
    /\ \A x \in r.asOf : x.fork /\ x.at <= r.page /\ x.at > r.until => x \in r.items

RoundOK(r) ==
    \/ r.step \in {"none", "failed"}
    \/ r.step = "newest" /\ DOMAIN r = {"step", "filtered"}
    \/ OlderOK(r)
    \/ r.step = "answered" /\ DOMAIN r = CacheFields \cup {"step"} /\ ServedOK(r)

ArchiveInv ==
    /\ archive \subseteq ArchiveItem /\ IsFiniteSet(archive)
    /\ PagesOK(older)
    /\ RoundOK(round)
    /\ DOMAIN cache = CacheFields /\ ServedOK(cache)

\* Whatever is newer than the oldest of a page is on it.
LEMMA PageIsWhole ==
    ASSUME NEW items, items \subseteq ArchiveItem, IsFiniteSet(items), NEW list \in A!Pages(items)
    PROVE  /\ list \subseteq items
           /\ A!OldestTime(list) \in Int
           /\ \A x \in items : x.at > A!OldestTime(list) => x \in list
<1>1. list \subseteq items /\ \A x \in items : x.at \in Nat
    BY CatalogueAssumption DEF A!Pages, A!FeedsAssumption
<1>2. IsFiniteSet(list)
    BY <1>1, FS_Subset
<1>3. CASE list = {}
    <2>1. Cardinality(list) = 0
        BY <1>3, FS_EmptySet
    <2>2. Cardinality(items) \in Nat /\ PageLength \in Nat \ {0}
        BY FS_CardinalityType, CatalogueAssumption DEF A!FeedsAssumption
    <2>3. A!Min({PageLength, Cardinality(items)}) \in {PageLength, Cardinality(items)}
        <3>1. \E m \in {PageLength, Cardinality(items)} : \A x \in {PageLength, Cardinality(items)} : m <= x
            BY <2>2
        <3> QED BY <3>1 DEF A!Min
    <2>a. Cardinality(list) = A!Min({PageLength, Cardinality(items)})
        BY DEF A!Pages, A!Cardinality, Cardinality
    <2>4. Cardinality(items) = 0
        BY <2>1, <2>2, <2>3, <2>a
    <2>5. items = {}
        BY <2>4, FS_EmptySet
    <2> QED BY <1>3, <2>5 DEF A!OldestTime, A!Never
<1>4. CASE list # {}
    <2> DEFINE times == {x.at : x \in list}
    <2>1. times \subseteq Int /\ times # {} /\ IsFiniteSet(times)
        BY <1>1, <1>2, <1>4, TimesAreFinite
    <2>2. \E m \in times : \A t \in times : m <= t
        <3> HIDE DEF times
        <3> QED BY <2>1, FiniteHasLeast
    <2>3. A!Min(times) \in times /\ \A t \in times : A!Min(times) <= t
        BY <2>2 DEF A!Min
    <2>4. A!OldestTime(list) = A!Min(times)
        BY <1>4 DEF A!OldestTime
    <2>5. PICK y \in list : A!OldestTime(list) = y.at
        BY <2>3, <2>4
    <2>6. ASSUME NEW x \in items, x \notin list PROVE ~(x.at > A!OldestTime(list))
        <3>1. y.at >= x.at /\ y.at \in Nat /\ x.at \in Nat
            BY <1>1, <2>5, <2>6 DEF A!Pages
        <3> QED BY <2>5, <3>1
    <2> QED BY <1>1, <2>5, <2>6
<1> QED BY <1>3, <1>4

\* An answer of a newest page that is whole and of pages that hold what they claim.
LEMMA AnsweredIsServed ==
    ASSUME NEW list, NEW low \in Int, NEW pages, NEW filtered, NEW asOf,
           PagesOK(pages), \A x \in asOf : x.fork /\ x.at > low => x \in list
    PROVE  RoundOK(A!Answered(list, low, pages, filtered, asOf))
<1> DEFINE r == A!Answered(list, low, pages, filtered, asOf)
<1>1. /\ r.step = "answered" /\ DOMAIN r = CacheFields \cup {"step"}
      /\ r.items = A!Forks(list) \cup pages.items /\ r.oldest = (IF pages = A!NoPages THEN low ELSE pages.oldest)
      /\ r.page = low /\ r.asOf = asOf /\ r.with = pages
    BY DEF A!Answered, CacheFields
<1> HIDE DEF r
<1>2. ASSUME NEW x \in asOf, x.fork, x.at > r.oldest, x.at > low \/ (x \in pages.asOf /\ x.at <= pages.start)
      PROVE  x \in r.items
    <2>1. CASE x.at > low
        BY <1>1, <1>2, <2>1 DEF A!Forks
    <2>2. CASE ~(x.at > low)
        <3>1. pages # A!NoPages
            BY <1>2, <2>2 DEF A!NoPages
        <3> QED BY <1>1, <1>2, <2>2, <3>1 DEF PagesOK
    <2> QED BY <2>1, <2>2
<1>3. ServedOK(r)
    BY <1>1, <1>2 DEF ServedOK
<1> QED BY <1>1, <1>3 DEF RoundOK, r

LEMMA ArchiveGoesOn ==
    ASSUME ArchiveInv, [A!Next]_archiveVars PROVE ArchiveInv'
<1> USE DEF A!NoRound
<1>1. ASSUME NEW x \in ArchiveItem, A!Publish(x) PROVE ArchiveInv'
    <2>1. archive' = archive \cup {x} /\ UNCHANGED <<round, older, cache>>
        BY <1>1 DEF A!Publish
    <2>2. IsFiniteSet(archive')
        BY <2>1, FS_AddElement DEF ArchiveInv
    <2> QED BY <2>1, <2>2 DEF ArchiveInv, RoundOK, OlderOK
<1>2. CASE A!GetForkMentions
    BY <1>2 DEF A!GetForkMentions, ArchiveInv, RoundOK
<1>3. CASE A!Rejected
    BY <1>3 DEF A!Rejected, ArchiveInv, RoundOK, OlderOK
<1>4. CASE A!NewestPage
    <2> DEFINE items == IF round.filtered THEN A!Forks(archive) ELSE archive
    <2>1. UNCHANGED <<archive, older, cache>> /\ round.step = "newest"
        BY <1>4 DEF A!NewestPage
    <2>2. items \subseteq archive /\ items \subseteq ArchiveItem /\ \A x \in archive : x.fork => x \in items
        BY DEF ArchiveInv, A!Forks
    <2>3. IsFiniteSet(items)
        BY <2>2, FS_Subset DEF ArchiveInv
    <2>4. PICK list \in A!Pages(items) :
             LET low == A!OldestTime(list) IN
             \/ \E pages \in {A!NoPages, older}, filtered \in {round.filtered, TRUE} :
                    round' = A!Answered(list, low, pages, filtered, archive)
             \/ round' = [step |-> "older", newest |-> list, page |-> low, asOf |-> archive,
                           items |-> {}, until |-> low, left |-> PagesRead]
        BY <1>4 DEF A!NewestPage
    <2> DEFINE low == A!OldestTime(list)
    <2> HIDE DEF items
    <2>5. list \subseteq items /\ low \in Int /\ \A x \in items : x.at > low => x \in list
        BY <2>2, <2>3, PageIsWhole
    <2>6. \A x \in archive : x.fork /\ x.at > low => x \in list
        BY <2>2, <2>5
    <2> HIDE DEF low
    <2>7. ASSUME NEW pages \in {A!NoPages, older}, NEW filtered, round' = A!Answered(list, low, pages, filtered, archive)
          PROVE  ArchiveInv'
        <3>1. PagesOK(pages)
            BY DEF ArchiveInv, PagesOK, A!NoPages
        <3>2. RoundOK(round')
            BY <2>5, <2>6, <2>7, <3>1, AnsweredIsServed
        <3>3. RoundOK(round)'
            BY <2>7, <3>2 DEF RoundOK, OlderOK, A!Answered
        <3> QED BY <2>1, <3>3 DEF ArchiveInv
    <2>8. CASE round' = [step |-> "older", newest |-> list, page |-> low, asOf |-> archive,
                         items |-> {}, until |-> low, left |-> PagesRead]
        <3>1. \A x \in archive : x.at \in Nat
            BY CatalogueAssumption DEF ArchiveInv, A!FeedsAssumption
        <3>2. OlderOK(round)'
            BY <2>1, <2>2, <2>5, <2>6, <2>8, <3>1 DEF OlderOK, OlderFields
        <3> QED BY <2>1, <3>2 DEF ArchiveInv, RoundOK
    <2> QED BY <2>4, <2>7, <2>8 DEF low
<1>5. CASE A!OlderPage
    <2> DEFINE items == A!Until(round.until)
    <2>1. UNCHANGED <<archive, cache>> /\ round.step = "older" /\ OlderOK(round)
        BY <1>5 DEF A!OlderPage, ArchiveInv, RoundOK
    <2>2. items \subseteq archive /\ items \subseteq ArchiveItem /\ (\A x \in archive : x.fork /\ x.at <= round.until => x \in items)
          /\ \A x \in archive : x.at \in Nat
        BY CatalogueAssumption DEF ArchiveInv, A!Forks, A!Until, A!FeedsAssumption
    <2>3. IsFiniteSet(items)
        BY <2>2, FS_Subset DEF ArchiveInv
    <2>4. PICK list \in A!Pages(items) :
             LET next == A!OldestTime(list)
                 taken == round.items \cup list
                 ends == A!Cardinality(list) < PageLength \/ next = round.until \/ round.left = 1
                 read == [items |-> taken, start |-> round.page, oldest |-> IF list = {} THEN round.until ELSE next, asOf |-> round.asOf]
             IN  IF ends
                 THEN older' = read /\ round' = A!Answered(round.newest, round.page, read, TRUE, round.asOf)
                 ELSE round' = [round EXCEPT !.items = taken, !.until = next, !.left = round.left - 1] /\ older' = older
        BY <1>5 DEF A!OlderPage
    <2> DEFINE next == A!OldestTime(list)
               taken == round.items \cup list
               read == [items |-> taken, start |-> round.page, oldest |-> IF list = {} THEN round.until ELSE next, asOf |-> round.asOf]
    <2>a. A!Cardinality({}) = 0 /\ 0 < PageLength
        BY FS_EmptySet, CatalogueAssumption DEF Cardinality, A!Cardinality, A!FeedsAssumption
    <2>5. \/ older' = read /\ round' = A!Answered(round.newest, round.page, read, TRUE, round.asOf)
          \/ round' = [round EXCEPT !.items = taken, !.until = next, !.left = round.left - 1] /\ older' = older /\ list # {}
        BY <2>4, <2>a
    <2> HIDE DEF items
    <2>6. list \subseteq items /\ next \in Int /\ \A x \in items : x.at > next => x \in list
        BY <2>2, <2>3, PageIsWhole
    <2> HIDE DEF next
    <2>7. /\ round.asOf \subseteq archive /\ round.until \in Int /\ round.page \in Int
          /\ \A x \in round.asOf : x.fork /\ x.at <= round.page /\ x.at > round.until => x \in round.items
          /\ \A x \in round.asOf : x.fork /\ x.at > round.page => x \in round.newest
        BY <2>1 DEF OlderOK
    <2>8. ASSUME NEW x \in round.asOf, x.fork, x.at <= round.page, x.at > next, list # {} PROVE x \in taken
        <3>1. x.at \in Nat /\ (x.at <= round.until => x \in items)
            BY <2>2, <2>7, <2>8
        <3>2. CASE x.at > round.until
            BY <2>7, <2>8, <3>2
        <3>3. CASE x.at <= round.until
            BY <2>6, <2>8, <3>1, <3>3
        <3> QED BY <2>7, <3>1, <3>2, <3>3
    <2>9. PagesOK(read)
        <3>1. DOMAIN read = DOMAIN A!NoPages
            BY DEF A!NoPages
        <3>2. CASE list = {}
            BY <2>7, <3>1, <3>2 DEF PagesOK
        <3>3. CASE list # {}
            BY <2>8, <3>1, <3>3 DEF PagesOK
        <3> QED BY <3>2, <3>3
    <2> HIDE DEF read, taken
    <2>10. CASE older' = read /\ round' = A!Answered(round.newest, round.page, read, TRUE, round.asOf)
        <3>1. RoundOK(round')
            BY <2>7, <2>9, <2>10, AnsweredIsServed
        <3>2. RoundOK(round)'
            BY <2>10, <3>1 DEF RoundOK, OlderOK, A!Answered
        <3> QED BY <2>1, <2>9, <2>10, <3>2 DEF ArchiveInv
    <2>11. CASE round' = [round EXCEPT !.items = taken, !.until = next, !.left = round.left - 1] /\ older' = older /\ list # {}
        <3>1. /\ DOMAIN round' = OlderFields /\ round'.step = "older" /\ round'.page = round.page /\ round'.asOf = round.asOf
              /\ round'.newest = round.newest /\ round'.until = next /\ round'.items = taken
            BY <2>1, <2>11 DEF OlderOK, OlderFields
        <3>2. OlderOK(round)'
            BY <2>1, <2>6, <2>7, <2>8, <2>11, <3>1 DEF OlderOK
        <3> QED BY <2>1, <2>11, <3>2 DEF ArchiveInv, RoundOK
    <2> QED BY <2>5, <2>10, <2>11
<1>6. CASE A!OlderPageFails
    <2>1. UNCHANGED <<archive, cache, older>> /\ OlderOK(round) /\ PagesOK(older)
          /\ round' = A!Answered(round.newest, round.page, older, TRUE, round.asOf)
        BY <1>6 DEF A!OlderPageFails, ArchiveInv, RoundOK
    <2>2. RoundOK(round')
        BY <2>1, AnsweredIsServed DEF OlderOK
    <2>3. RoundOK(round)'
        BY <2>1, <2>2 DEF RoundOK, OlderOK, A!Answered
    <2> QED BY <2>1, <2>3 DEF ArchiveInv
<1>7. CASE A!NewestPageFails
    BY <1>7 DEF A!NewestPageFails, ArchiveInv, RoundOK
<1>8. ASSUME NEW another, A!EndRound(another) PROVE ArchiveInv'
    <2>1. UNCHANGED <<archive, older>> /\ RoundOK(round)'
        BY <1>8 DEF A!EndRound, RoundOK
    <2>2. CASE round.step = "answered"
        <3>1. DOMAIN round = CacheFields \cup {"step"} /\ ServedOK(round) /\ cache' = [f \in CacheFields |-> round[f]]
            BY <1>8, <2>2 DEF A!EndRound, ArchiveInv, RoundOK, OlderOK
        <3>2. \A f \in CacheFields : cache'[f] = round[f]
            BY <3>1
        <3>3. /\ cache'.with = round.with /\ cache'.asOf = round.asOf /\ cache'.items = round.items
              /\ cache'.page = round.page /\ cache'.oldest = round.oldest
            BY <3>2 DEF CacheFields
        <3>4. DOMAIN cache' = CacheFields /\ ServedOK(cache')
            BY <3>1, <3>3 DEF ServedOK
        <3> QED BY <2>1, <3>4 DEF ArchiveInv
    <2>3. CASE round.step # "answered"
        <3>1. cache' = [cache EXCEPT !.ok = FALSE]
            BY <1>8, <2>3 DEF A!EndRound
        <3>2. DOMAIN cache' = CacheFields /\ ServedOK(cache')
            BY <3>1 DEF ArchiveInv, ServedOK, CacheFields
        <3> QED BY <2>1, <3>2 DEF ArchiveInv
    <2> QED BY <2>2, <2>3
<1>9. CASE UNCHANGED <<archive, round, older, cache>>
    BY <1>9 DEF ArchiveInv, RoundOK, OlderOK
<1> QED BY <1>1, <1>2, <1>3, <1>4, <1>5, <1>6, <1>7, <1>8, <1>9
        DEF A!Next, A!CacheAges, A!OlderAges, A!RejectionAges, archiveVars

LEMMA ArchiveRunsAlone == CatalogueSpec => A!Init /\ [][A!Next]_archiveVars
<1>1. CatalogueInit => A!Init
    BY DEF CatalogueInit
<1>2. [CatalogueNext]_everything => [A!Next]_archiveVars
    BY DEF CatalogueNext, everything, Over
<1> QED BY <1>1, <1>2, PTL DEF CatalogueSpec

\* "What is served ..., is complete down to the time it claims" (forkFeeds.js:186-220).
LEMMA ArchiveIsComplete == CatalogueSpec => []A!NoHolesInHistory
<1>1. A!Init => ArchiveInv
    <2> SUFFICES ASSUME A!Init PROVE ArchiveInv
        OBVIOUS
    <2>1. archive = {} /\ round.step = "none" /\ older = A!NoPages /\ cache = A!Nothing
        BY DEF A!Init, A!NoRound
    <2>2. IsFiniteSet(archive)
        BY <2>1, FS_EmptySet
    <2> QED BY <2>1, <2>2 DEF ArchiveInv, PagesOK, ServedOK, RoundOK, CacheFields, A!Nothing, A!NoPages
<1>2. ArchiveInv => A!NoHolesInHistory
    BY DEF ArchiveInv, ServedOK, A!NoHolesInHistory
<1> QED BY <1>1, <1>2, ArchiveGoesOn, ArchiveRunsAlone, PTL

-----------------------------------------------------------------------------
(* The newest of some, up to a limit.                                      *)

\* Nothing that is left out is newer than what is kept.
AreNewest(kept, all, dateOf, limit) ==
    /\ kept \subseteq all /\ IsFiniteSet(kept)
    /\ \A x \in kept, y \in all : dateOf[y] >= dateOf[x] => y \in kept
    /\ Cardinality(kept) = limit \/ (kept = all /\ Cardinality(kept) <= limit)

Differ(all, dateOf) == \A x, y \in all : dateOf[x] \in Nat /\ (dateOf[x] = dateOf[y] => x = y)

\* The oldest is given up if there is one too many.
WithoutOldest(kept, all, dateOf, limit) ==
    IF Cardinality(all) <= limit THEN kept = all
    ELSE \E m \in all : kept = all \ {m} /\ \A y \in all : dateOf[m] <= dateOf[y]

LEMMA NewestAreCounted ==
    ASSUME NEW kept, NEW all, NEW dateOf, NEW limit \in Nat, AreNewest(kept, all, dateOf, limit), IsFiniteSet(all), Differ(all, dateOf)
    PROVE  kept = {x \in all : Cardinality({y \in all : dateOf[y] > dateOf[x]}) < limit}
<1>1. ASSUME NEW x \in kept PROVE Cardinality({y \in all : dateOf[y] > dateOf[x]}) < limit
    <2> DEFINE newer == {y \in all : dateOf[y] > dateOf[x]}
    <2>1. newer \subseteq kept \ {x}
        BY DEF AreNewest, Differ
    <2>2. IsFiniteSet(kept \ {x}) /\ Cardinality(kept \ {x}) = Cardinality(kept) - 1 /\ Cardinality(kept) \in Nat
        BY FS_RemoveElement, FS_CardinalityType DEF AreNewest
    <2>3. Cardinality(newer) <= Cardinality(kept) - 1 /\ Cardinality(newer) \in Nat
        BY <2>1, <2>2, FS_Subset, FS_CardinalityType
    <2>4. Cardinality(kept) <= limit
        BY DEF AreNewest
    <2> QED BY <2>2, <2>3, <2>4
<1>2. ASSUME NEW x \in all, x \notin kept PROVE ~(Cardinality({y \in all : dateOf[y] > dateOf[x]}) < limit)
    <2> DEFINE newer == {y \in all : dateOf[y] > dateOf[x]}
    <2>1. Cardinality(kept) = limit
        BY <1>2 DEF AreNewest
    <2>2. ASSUME NEW y \in kept PROVE y \in newer
        BY <1>2 DEF AreNewest, Differ
    <2>3. IsFiniteSet(newer) /\ kept \subseteq newer
        BY <2>2, FS_Subset
    <2>4. Cardinality(kept) <= Cardinality(newer) /\ Cardinality(newer) \in Nat
        BY <2>3, FS_Subset, FS_CardinalityType
    <2> QED BY <2>1, <2>4
<1> QED BY <1>1, <1>2 DEF AreNewest

LEMMA SomeIsOldest ==
    ASSUME NEW all, IsFiniteSet(all), all # {}, NEW dateOf, Differ(all, dateOf)
    PROVE  \E m \in all : \A y \in all : dateOf[m] <= dateOf[y]
<1> DEFINE R == {p \in all \X all : dateOf[p[1]] <= dateOf[p[2]]}
<1>1. /\ \A y, z \in all : <<y, z>> \in R \/ <<z, y>> \in R
      /\ \A u, y, z \in all : <<u, y>> \in R /\ <<y, z>> \in R => <<u, z>> \in R
    BY DEF Differ
<1>2. \E m \in all : \A y \in all : <<m, y>> \in R
    <2> HIDE DEF R
    <2> QED BY <1>1, FiniteHasFirst
<1> QED BY <1>2

\* To keep by counting is to give up the oldest.
LEMMA OldestIsCountedOut ==
    ASSUME NEW all, IsFiniteSet(all), NEW limit \in Nat, Cardinality(all) <= limit + 1, NEW dateOf, Differ(all, dateOf)
    PROVE  WithoutOldest({x \in all : Cardinality({y \in all : dateOf[y] > dateOf[x]}) < limit}, all, dateOf, limit)
<1> DEFINE kept == {x \in all : Cardinality({y \in all : dateOf[y] > dateOf[x]}) < limit}
<1>1. Cardinality(all) \in Nat
    BY FS_CardinalityType
<1>2. CASE Cardinality(all) <= limit
    <2>1. AreNewest(all, all, dateOf, limit)
        BY <1>2 DEF AreNewest
    <2> QED BY <1>2, <2>1, NewestAreCounted DEF WithoutOldest
<1>3. CASE ~(Cardinality(all) <= limit)
    <2>1. Cardinality(all) = limit + 1 /\ all # {}
        BY <1>1, <1>3, FS_EmptySet
    <2>2. PICK m \in all : \A y \in all : dateOf[m] <= dateOf[y]
        BY <2>1, SomeIsOldest
    <2>3. IsFiniteSet(all \ {m}) /\ Cardinality(all \ {m}) = limit
        BY <2>1, FS_RemoveElement
    <2>4. \A x \in all \ {m}, y \in all : dateOf[y] >= dateOf[x] => y \in all \ {m}
        BY <2>2 DEF Differ
    <2>5. AreNewest(all \ {m}, all, dateOf, limit)
        BY <2>3, <2>4 DEF AreNewest
    <2>6. kept = all \ {m}
        BY <2>5, NewestAreCounted
    <2> HIDE DEF kept
    <2> QED BY <1>3, <2>2, <2>6 DEF WithoutOldest, kept
<1> QED BY <1>2, <1>3

\* What is new is put in its place.
LEMMA NewIsPlaced ==
    ASSUME NEW kept, NEW all, NEW dateOf, NEW limit \in Nat \ {0}, AreNewest(kept, all, dateOf, limit),
           NEW x, x \notin all, Differ(all \cup {x}, dateOf), NEW after, WithoutOldest(after, kept \cup {x}, dateOf, limit)
    PROVE  AreNewest(after, all \cup {x}, dateOf, limit)
<1> DEFINE more == kept \cup {x}
           then == all \cup {x}
<1>1. IsFiniteSet(more) /\ Cardinality(more) = Cardinality(kept) + 1 /\ Cardinality(kept) \in Nat
    BY FS_AddElement, FS_CardinalityType DEF AreNewest
<1>2. CASE Cardinality(more) <= limit
    <2>1. after = more /\ Cardinality(kept) # limit /\ kept = all
        BY <1>1, <1>2 DEF WithoutOldest, AreNewest
    <2> QED BY <1>1, <1>2, <2>1 DEF AreNewest
<1>3. CASE ~(Cardinality(more) <= limit)
    <2>1. Cardinality(kept) = limit /\ Cardinality(more) = limit + 1
        BY <1>1, <1>3 DEF AreNewest
    <2>2. PICK m \in more : after = more \ {m} /\ \A y \in more : dateOf[m] <= dateOf[y]
        BY <1>3 DEF WithoutOldest
    <2>3. IsFiniteSet(after) /\ Cardinality(after) = limit
        BY <1>1, <2>1, <2>2, FS_RemoveElement
    <2>4. after \subseteq then
        BY <2>2 DEF AreNewest
    <2>5. ASSUME NEW z \in after, NEW y \in then, dateOf[y] >= dateOf[z] PROVE y \in after
        <3>1. y # m
            <4>1. z \in all \cup {x} /\ m \in all \cup {x} /\ z # m /\ z \in more
                BY <2>2 DEF AreNewest
            <4>2. dateOf[m] <= dateOf[z] /\ dateOf[m] # dateOf[z] /\ dateOf[m] \in Nat /\ dateOf[z] \in Nat
                BY <2>2, <4>1 DEF Differ
            <4> QED BY <2>5, <4>2
        <3>2. CASE y = x
            BY <2>2, <3>1, <3>2
        <3>3. CASE y # x /\ z # x
            <4>1. y \in all /\ z \in kept
                BY <2>2, <3>3
            <4> QED BY <2>2, <2>5, <3>1, <4>1 DEF AreNewest
        <3>4. CASE y # x /\ z = x
            <4>1. m \in kept /\ y \in all
                BY <2>2, <3>4
            <4>2. dateOf[y] >= dateOf[m]
                <5>1. dateOf[y] \in Nat /\ dateOf[x] \in Nat /\ dateOf[m] \in Nat /\ dateOf[m] <= dateOf[x]
                    BY <2>2, <4>1 DEF Differ, AreNewest
                <5> QED BY <2>5, <3>4, <5>1
            <4>3. y \in kept
                BY <4>1, <4>2 DEF AreNewest
            <4> QED BY <2>2, <3>1, <4>3
        <3> QED BY <3>2, <3>3, <3>4
    <2> HIDE DEF then
    <2>6. AreNewest(after, then, dateOf, limit)
        BY <2>3, <2>4, <2>5 DEF AreNewest
    <2> QED BY <2>6 DEF then
<1> QED BY <1>2, <1>3

-----------------------------------------------------------------------------
(* The store of posts                                                      *)

\* The newest posts of some, if there are too many.
IsTop(st, posted) ==
    /\ st \subseteq posted /\ IsFiniteSet(st)
    /\ \A x \in st, y \in posted : y.published >= x.published => y \in st
    /\ Cardinality(st) = MaxPosts \/ (st = posted /\ Cardinality(st) <= MaxPosts)

\* Each post as it was edited last.
LatestOf(all) == {x \in all : \A y \in all : y.id = x.id => y.fresh <= x.fresh}

\* Posts differ in their time.
Apart(some) == \A x, y \in some : x.published \in Nat /\ (x.published = y.published => x = y)

LEMMA LatestAreApart ==
    ASSUME NEW all, all \subseteq Revision
    PROVE  Apart(LatestOf(all)) /\ LatestOf(all) \subseteq Revision
<1>1. LatestOf(all) \subseteq Revision
    BY DEF LatestOf
<1>2. ASSUME NEW x \in LatestOf(all), NEW y \in LatestOf(all), x.published = y.published PROVE x = y
    <2>1. x.id = y.id
        BY <1>1, <1>2, CatalogueAssumption DEF N!NewsAssumption
    <2>2. x.fresh <= y.fresh /\ y.fresh <= x.fresh
        BY <2>1 DEF LatestOf
    <2>3. x.fresh = y.fresh
        BY <1>1, <2>2, CatalogueAssumption DEF N!NewsAssumption
    <2> QED BY <1>1, <2>1, <2>3, CatalogueAssumption DEF N!NewsAssumption
<1> QED BY <1>1, <1>2, CatalogueAssumption DEF Apart, N!NewsAssumption

Published == [x \in Revision |-> x.published]

LEMMA TopIsNewest ==
    ASSUME NEW st, NEW posted, posted \subseteq Revision
    PROVE  /\ IsTop(st, posted) <=> AreNewest(st, posted, Published, MaxPosts)
           /\ Apart(posted) <=> Differ(posted, Published)
<1>1. \A x \in posted : Published[x] = x.published
    BY DEF Published
<1>2. IsTop(st, posted) <=> AreNewest(st, posted, Published, MaxPosts)
    BY <1>1 DEF IsTop, AreNewest
<1>3. Apart(posted) <=> Differ(posted, Published)
    BY <1>1 DEF Apart, Differ
<1> QED BY <1>2, <1>3

LEMMA TopIsCounted ==
    ASSUME NEW st, NEW posted, posted \subseteq Revision, IsTop(st, posted), IsFiniteSet(posted), Apart(posted)
    PROVE  st = {x \in posted : Cardinality({y \in posted : y.published > x.published}) < MaxPosts}
<1>1. MaxPosts \in Nat
    BY CatalogueAssumption DEF N!NewsAssumption
<1>2. st = {x \in posted : Cardinality({y \in posted : Published[y] > Published[x]}) < MaxPosts}
    BY <1>1, TopIsNewest, NewestAreCounted
<1>3. \A x \in posted : {y \in posted : Published[y] > Published[x]} = {y \in posted : y.published > x.published}
    BY DEF Published
<1> QED BY <1>2, <1>3

\* One that is older than all that are kept is not.
LEMMA OldPostIsDropped ==
    ASSUME NEW st, IsFiniteSet(st), Cardinality(st) = MaxPosts, NEW x, x \notin st, x.published \in Nat,
           \A y \in st : y.published \in Nat /\ y.published > x.published
    PROVE  N!Capped(st \cup {x}) = st
<1> DEFINE more == st \cup {x}
<1>1. IsFiniteSet(more) /\ Cardinality(more) = MaxPosts + 1 /\ MaxPosts \in Nat
    BY FS_AddElement, FS_CardinalityType
<1>2. N!Capped(more) = more \ {CHOOSE y \in more : \A z \in more : y.published <= z.published}
    <2>1. N!Cardinality(more) = Cardinality(more) /\ ~(Cardinality(more) <= MaxPosts)
        BY <1>1 DEF N!Cardinality, Cardinality
    <2> HIDE DEF more
    <2> QED BY <2>1 DEF N!Capped
<1>3. x \in more /\ \A y \in more : x.published <= y.published
    OBVIOUS
<1>4. \A y \in more : (\A z \in more : y.published <= z.published) => y = x
    OBVIOUS
<1>5. (CHOOSE y \in more : \A z \in more : y.published <= z.published) = x
    BY <1>3, <1>4
<1> QED BY <1>2, <1>5

\* A post that is new is put in its place.
LEMMA NewPostIsPlaced ==
    ASSUME NEW st, NEW posted, IsTop(st, posted), NEW x, x \notin posted, Apart(posted \cup {x}),
           posted \cup {x} \subseteq Revision
    PROVE  IsTop(N!Capped(st \cup {x}), posted \cup {x})
<1> DEFINE more == st \cup {x}
<1>1. MaxPosts \in Nat \ {0}
    BY CatalogueAssumption DEF N!NewsAssumption
<1>2. IsFiniteSet(more) /\ more # {} /\ more \subseteq Revision /\ Apart(more)
    <2>1. IsFiniteSet(more)
        BY FS_AddElement DEF IsTop
    <2>2. more \subseteq posted \cup {x}
        BY DEF IsTop
    <2> QED BY <2>1, <2>2 DEF Apart
<1>3. WithoutOldest(N!Capped(more), more, Published, MaxPosts)
    <2>1. N!Cardinality(more) = Cardinality(more)
        BY DEF Cardinality, N!Cardinality
    <2> HIDE DEF more
    <2>2. \E m \in more : \A y \in more : Published[m] <= Published[y]
        BY <1>2, TopIsNewest, SomeIsOldest
    <2>3. \A y \in more : Published[y] = y.published
        BY <1>2 DEF Published
    <2>4. \E m \in more : \A y \in more : m.published <= y.published
        BY <2>2, <2>3
    <2> DEFINE least == CHOOSE m \in more : \A y \in more : m.published <= y.published
    <2>5. least \in more /\ \A y \in more : least.published <= y.published
        BY <2>4
    <2>6. N!Capped(more) = IF Cardinality(more) <= MaxPosts THEN more ELSE more \ {least}
        BY <2>1 DEF N!Capped
    <2> HIDE DEF least
    <2> QED BY <2>3, <2>5, <2>6 DEF WithoutOldest
<1>4. AreNewest(st, posted, Published, MaxPosts) /\ Differ(posted \cup {x}, Published)
    BY TopIsNewest
<1>5. AreNewest(N!Capped(more), posted \cup {x}, Published, MaxPosts)
    <2> HIDE DEF more
    <2>1. WithoutOldest(N!Capped(st \cup {x}), st \cup {x}, Published, MaxPosts)
        BY <1>3 DEF more
    <2> QED BY <1>1, <1>4, <2>1, NewIsPlaced DEF more
<1> QED BY <1>5, TopIsNewest

LEMMA SomeRevisionIsLatest ==
    ASSUME NEW all, all \subseteq Revision, IsFiniteSet(all), NEW y \in all
    PROVE  \E w \in LatestOf(all) : w.id = y.id /\ w.fresh >= y.fresh
<1> DEFINE same == {z \in all : z.id = y.id}
           R == {p \in same \X same : p[1].fresh >= p[2].fresh}
<1>1. \A z \in all : z.fresh \in Nat
    BY CatalogueAssumption DEF N!NewsAssumption
<1>2. IsFiniteSet(same) /\ same # {}
    BY FS_Subset
<1>3. /\ \A u, z \in same : <<u, z>> \in R \/ <<z, u>> \in R
      /\ \A u, v, z \in same : <<u, v>> \in R /\ <<v, z>> \in R => <<u, z>> \in R
    BY <1>1
<1>4. PICK w \in same : \A z \in same : <<w, z>> \in R
    <2> HIDE DEF same, R
    <2> QED BY <1>2, <1>3, FiniteHasFirst
<1>5. w \in LatestOf(all) /\ w.fresh >= y.fresh
    BY <1>1, <1>4 DEF LatestOf
<1> QED BY <1>5

StoreInv(st, all) == all \subseteq Revision /\ IsFiniteSet(all) /\ IsTop(st, LatestOf(all))

LEMMA RevisionIsTaken ==
    ASSUME NEW st, NEW all, StoreInv(st, all), NEW x \in Revision
    PROVE  StoreInv(N!UpsertItem(st, x), all \cup {x})
<1> DEFINE after == N!UpsertItem(st, x)
           posted == LatestOf(all)
           then == LatestOf(all \cup {x})
<1>1. all \cup {x} \subseteq Revision /\ IsFiniteSet(all \cup {x})
    BY FS_AddElement DEF StoreInv
<1>2. Apart(posted) /\ Apart(then) /\ posted \subseteq Revision /\ st \subseteq posted /\ IsTop(st, posted)
    BY <1>1, LatestAreApart DEF StoreInv, IsTop
<1>3. \A y, z \in Revision : /\ y.published \in Nat /\ y.fresh \in Nat
                             /\ y.published = z.published <=> y.id = z.id
                             /\ y.id = z.id /\ y.fresh = z.fresh => y = z
    BY CatalogueAssumption DEF N!NewsAssumption
\* No revision of the post is as new as this one, or it was heard already.
<1>4. CASE \E w \in posted : w.id = x.id /\ w.fresh >= x.fresh
    <2>1. PICK w \in posted : w.id = x.id /\ w.fresh >= x.fresh
        BY <1>4
    <2>2. then = posted
        BY <1>1, <1>2, <1>3, <2>1 DEF LatestOf
    <2>3. CASE w \in st
        <3>1. after = st
            BY <2>1, <2>3 DEF N!UpsertItem, N!Stale
        <3> QED BY <1>1, <1>2, <2>2, <3>1 DEF StoreInv
    <2>4. CASE w \notin st
        <3>1. \A y \in posted : y.id = x.id => y = w
            BY <1>2, <1>3, <2>1 DEF Apart
        <3>2. after = N!Capped(st \cup {x}) /\ x \notin st
            <4>1. \A y \in st : y.id # x.id
                BY <1>2, <2>4, <3>1
            <4>2. {y \in st : y.id # x.id} = st /\ ~\E old \in st : old.id = x.id /\ N!Stale(old, x)
                BY <4>1
            <4> QED BY <4>1, <4>2 DEF N!UpsertItem
        <3>3. Cardinality(st) = MaxPosts /\ IsFiniteSet(st)
            BY <1>2, <2>4 DEF IsTop
        <3>4. \A y \in st : y.published \in Nat /\ y.published > x.published
            BY <1>2, <1>3, <2>1, <2>4 DEF IsTop
        <3>5. N!Capped(st \cup {x}) = st
            BY <1>3, <3>2, <3>3, <3>4, OldPostIsDropped
        <3> QED BY <1>1, <1>2, <2>2, <3>2, <3>5 DEF StoreInv
    <2> QED BY <2>3, <2>4
<1>5. CASE ~\E w \in posted : w.id = x.id /\ w.fresh >= x.fresh
    <2> DEFINE others == {y \in st : y.id # x.id}
    <2>0. ~\E old \in st : old.id = x.id /\ N!Stale(old, x)
        BY <1>2, <1>5 DEF N!Stale
    <2>1. after = N!Capped(others \cup {x})
        BY <2>0 DEF N!UpsertItem
    <2>2. \A y \in all : y.id = x.id => y.fresh < x.fresh
        <3> SUFFICES ASSUME NEW y \in all, y.id = x.id PROVE y.fresh < x.fresh
            OBVIOUS
        <3>1. PICK w \in posted : w.id = y.id /\ w.fresh >= y.fresh
            BY SomeRevisionIsLatest DEF StoreInv
        <3>2. w \in Revision /\ y \in Revision
            BY <1>2 DEF StoreInv
        <3>3. ~(w.fresh >= x.fresh)
            BY <1>5, <3>1
        <3> QED BY <1>3, <3>1, <3>2, <3>3
    <2>a. x \in then /\ \A y \in then : y = x \/ (y.id # x.id /\ y \in posted)
        BY <1>1, <1>3, <2>2 DEF LatestOf
    <2>b. \A y \in posted : y.id # x.id => y \in then
        BY DEF LatestOf
    <2>3. CASE \E w \in posted : w.id = x.id
        <3>1. PICK w \in posted : w.id = x.id /\ ~(w.fresh >= x.fresh)
            BY <1>5, <2>3
        <3>2. \A y \in posted : y.id = x.id => y = w
            BY <1>2, <1>3, <3>1 DEF Apart
        <3>3. then = (posted \ {w}) \cup {x}
            <4> HIDE DEF then, posted
            <4> QED BY <2>a, <2>b, <3>1, <3>2
        <3>4. w.published = x.published /\ x \notin posted /\ x # w
            BY <1>2, <1>3, <1>5, <3>1
        <3>5. CASE w \in st
            <4>1. others = st \ {w} /\ x \notin others
                BY <1>2, <3>1, <3>2, <3>4
            <4>2. IsFiniteSet(others \cup {x}) /\ Cardinality(others \cup {x}) = Cardinality(st) /\ Cardinality(st) \in Nat
                <5>1. IsFiniteSet(st) /\ Cardinality(st) \in Nat
                    BY <1>2, FS_CardinalityType DEF IsTop
                <5>2. IsFiniteSet(st \ {w}) /\ Cardinality(st \ {w}) = Cardinality(st) - 1
                    BY <3>5, <5>1, FS_RemoveElement
                <5>3. IsFiniteSet(others) /\ Cardinality(others) = Cardinality(st) - 1
                    BY <4>1, <5>2
                <5> HIDE DEF others
                <5>4. IsFiniteSet(others \cup {x}) /\ Cardinality(others \cup {x}) = Cardinality(others) + 1
                    BY <4>1, <5>3, FS_AddElement
                <5> QED BY <5>1, <5>3, <5>4
            <4>3. Cardinality(st) <= MaxPosts /\ MaxPosts \in Nat
                BY <1>2, CatalogueAssumption DEF IsTop, N!NewsAssumption
            <4>4. after = others \cup {x}
                BY <2>1, <4>2, <4>3 DEF N!Capped, N!Cardinality, Cardinality
            <4>5. IsTop(after, then)
                <5>1. after \subseteq then
                    BY <1>2, <3>3, <4>1, <4>4
                <5>2. \A z \in after, y \in then : y.published >= z.published => y \in after
                    BY <1>2, <3>1, <3>3, <3>4, <3>5, <4>1, <4>4 DEF IsTop
                <5>3. st = posted => after = then
                    BY <3>3, <4>1, <4>4
                <5> HIDE DEF after, then, others
                <5> QED BY <1>2, <4>2, <4>3, <4>4, <5>1, <5>2, <5>3 DEF IsTop
            <4> QED BY <1>1, <4>5 DEF StoreInv
        <3>6. CASE w \notin st
            <4>1. others = st /\ x \notin st
                BY <1>2, <3>2, <3>4, <3>6
            <4>2. Cardinality(st) = MaxPosts /\ IsFiniteSet(st)
                BY <1>2, <3>6 DEF IsTop
            <4>3. \A y \in st : y.published \in Nat /\ y.published > x.published
                BY <1>2, <1>3, <3>1, <3>4, <3>6 DEF IsTop
            <4>4. after = st
                BY <1>3, <2>1, <4>1, <4>2, <4>3, OldPostIsDropped
            <4>5. IsTop(st, then)
                <5>1. st \subseteq then
                    BY <1>2, <3>3, <3>6
                <5>2. ASSUME NEW z \in st, NEW y \in then, y.published >= z.published PROVE y \in st
                    <6>1. y # x
                        BY <1>3, <4>3, <5>2
                    <6>2. y \in posted
                        BY <3>3, <6>1
                    <6> QED BY <1>2, <5>2, <6>2 DEF IsTop
                <5> HIDE DEF then
                <5> QED BY <4>2, <5>1, <5>2 DEF IsTop
            <4> QED BY <1>1, <4>4, <4>5 DEF StoreInv
        <3> QED BY <3>5, <3>6
    <2>4. CASE ~\E w \in posted : w.id = x.id
        <3>1. others = st /\ x \notin posted
            BY <1>2, <2>4
        <3>2. then = posted \cup {x}
            <4> HIDE DEF then, posted
            <4> QED BY <2>4, <2>a, <2>b
        <3>3. IsTop(N!Capped(st \cup {x}), posted \cup {x})
            BY <1>1, <1>2, <1>3, <3>1, <3>2, NewPostIsPlaced
        <3> QED BY <1>1, <2>1, <3>1, <3>2, <3>3 DEF StoreInv
    <2> QED BY <2>3, <2>4
<1> QED BY <1>4, <1>5

\* What a batch is taken as, one revision after the other.
LeadsTo(f, st, revisions, n) ==
    /\ DOMAIN f = 0..n /\ f[0] = st /\ N!Taken(st, revisions) = f[n]
    /\ \A i \in 1..n : f[i] = N!UpsertItem(f[i - 1], revisions[i])

LEMMA TakenIs ==
    ASSUME NEW st, NEW n \in Nat, NEW revisions, Len(revisions) = n
    PROVE  \E f : LeadsTo(f, st, revisions, n)
<1> DEFINE Is(f, k) == f = [i \in 0..k |-> IF i = 0 THEN st ELSE N!UpsertItem(f[i - 1], revisions[i])]
           bad == {k \in 0..n : ~\E f : Is(f, k)}
<1>1. bad = {}
    <2> SUFFICES ASSUME bad # {} PROVE FALSE
        OBVIOUS
    <2>1. bad \subseteq Int /\ IsFiniteSet(bad)
        <3>1. IsFiniteSet(0..n) /\ bad \subseteq 0..n /\ bad \subseteq Int
            BY FS_Interval
        <3> HIDE DEF bad
        <3> QED BY <3>1, FS_Subset
    <2>2. PICK k \in bad : \A j \in bad : k <= j
        <3> HIDE DEF bad
        <3> QED BY <2>1, FiniteHasLeast
    <2>3. k # 0
        <3>1. Is([i \in 0..0 |-> st], 0)
            OBVIOUS
        <3> QED BY <2>2, <3>1
    <2>4. k - 1 \in 0..n /\ k - 1 \notin bad
        BY <2>2, <2>3
    <2>5. PICK f : Is(f, k - 1)
        BY <2>4
    <2> DEFINE g == [i \in 0..k |-> IF i = k THEN N!UpsertItem(f[k - 1], revisions[k]) ELSE f[i]]
    <2>6. ASSUME NEW i \in 0..k PROVE g[i] = IF i = 0 THEN st ELSE N!UpsertItem(g[i - 1], revisions[i])
        <3>1. CASE i = k
            BY <2>2, <2>3, <3>1
        <3>2. CASE i # k
            <4>1. i \in 0..(k - 1) /\ (i # 0 => i - 1 \in 0..k /\ i - 1 # k)
                BY <2>2, <2>3, <3>2
            <4>2. f[i] = IF i = 0 THEN st ELSE N!UpsertItem(f[i - 1], revisions[i])
                BY <2>5, <4>1
            <4> QED BY <3>2, <4>1, <4>2
        <3> QED BY <3>1, <3>2
    <2>7. Is(g, k)
        BY <2>6
    <2> QED BY <2>2, <2>7
<1>2. \E f : Is(f, n)
    BY <1>1
<1> DEFINE after == CHOOSE f : Is(f, n)
<1>3. Is(after, n)
    BY <1>2
<1>4. N!Taken(st, revisions) = after[n]
    BY DEF N!Taken
<1> HIDE DEF after
<1>5. DOMAIN after = 0..n /\ after[0] = st /\ \A i \in 1..n : after[i] = N!UpsertItem(after[i - 1], revisions[i])
    BY <1>3
<1> QED BY <1>4, <1>5 DEF LeadsTo

LEMMA BatchIsTaken ==
    ASSUME NEW st, NEW all, StoreInv(st, all), NEW revisions \in Seq(Revision)
    PROVE  StoreInv(N!Taken(st, revisions), all \cup N!ToSet(revisions))
<1> DEFINE n == Len(revisions)
           heardBy(i) == all \cup {revisions[j] : j \in 1..i}
<1>1. n \in Nat /\ \A i \in 1..n : revisions[i] \in Revision
    OBVIOUS
<1>2. PICK f : LeadsTo(f, st, revisions, n)
    <2>1. n \in Nat /\ Len(revisions) = n
        OBVIOUS
    <2> HIDE DEF n
    <2> QED BY <2>1, TakenIs
<1> HIDE DEF n, heardBy
<1> DEFINE bad == {i \in 0..n : ~StoreInv(f[i], heardBy(i))}
<1>3. bad = {}
    <2> SUFFICES ASSUME bad # {} PROVE FALSE
        OBVIOUS
    <2>1. bad \subseteq Int /\ IsFiniteSet(bad)
        <3>1. IsFiniteSet(0..n) /\ bad \subseteq 0..n /\ bad \subseteq Int
            BY <1>1, FS_Interval
        <3> HIDE DEF bad
        <3> QED BY <3>1, FS_Subset
    <2>2. PICK i \in bad : \A j \in bad : i <= j
        <3> HIDE DEF bad
        <3> QED BY <2>1, FiniteHasLeast
    <2>3. i # 0
        <3>1. heardBy(0) = all
            BY DEF heardBy
        <3> QED BY <1>2, <2>2, <3>1 DEF LeadsTo
    <2>4. i - 1 \in 0..n /\ i \in 1..n /\ StoreInv(f[i - 1], heardBy(i - 1))
        <3>1. i \in Nat /\ i <= n /\ i - 1 \in 0..n /\ i \in 1..n /\ ~(i <= i - 1)
            BY <1>1, <2>2, <2>3
        <3>2. i - 1 \notin bad
            <4> HIDE DEF bad
            <4> QED BY <2>2, <3>1
        <3> QED BY <3>1, <3>2
    <2>5. StoreInv(N!UpsertItem(f[i - 1], revisions[i]), heardBy(i - 1) \cup {revisions[i]})
        BY <1>1, <2>4, RevisionIsTaken
    <2>6. heardBy(i) = heardBy(i - 1) \cup {revisions[i]}
        <3>1. 1..i = (1..(i - 1)) \cup {i}
            BY <1>1, <2>4
        <3> QED BY <3>1 DEF heardBy
    <2> QED BY <1>2, <2>2, <2>4, <2>5, <2>6 DEF LeadsTo
<1>4. heardBy(n) = all \cup N!ToSet(revisions)
    BY <1>1 DEF N!ToSet, heardBy, n
<1>5. StoreInv(f[n], heardBy(n))
    <2>1. n \in 0..n
        BY <1>1
    <2> QED BY <1>3, <2>1
<1> QED BY <1>2, <1>4, <1>5 DEF LeadsTo

NewsInv ==
    /\ posts \in Seq(Revision) /\ pushed \in Seq(Revision) /\ seed \subseteq Seq(Revision)
    /\ StoreInv(store, heard)

LEMMA NewestAreRevisions ==
    ASSUME NEW n \in Nat, posts \in Seq(Revision) PROVE N!Newest(n) \in Seq(Revision)
<1> DEFINE from == N!Max({1, Len(posts) - n + 1})
<1>1. \A a, b \in Int : N!Max({a, b}) \in {a, b} /\ N!Max({a, b}) >= a
    <2> SUFFICES ASSUME NEW a \in Int, NEW b \in Int PROVE N!Max({a, b}) \in {a, b} /\ N!Max({a, b}) >= a
        OBVIOUS
    <2>1. \E m \in {a, b} : \A x \in {a, b} : m >= x
        OBVIOUS
    <2> QED BY <2>1 DEF N!Max
<1>2. from \in Nat \ {0}
    <2>1. Len(posts) - n + 1 \in Int /\ 1 \in Int
        OBVIOUS
    <2>2. from \in {1, Len(posts) - n + 1} /\ from >= 1
        BY <1>1, <2>1
    <2> QED BY <2>1, <2>2
<1> HIDE DEF from
<1>3. SubSeq(posts, from, Len(posts)) \in Seq(Revision)
    BY <1>2
<1> QED BY <1>3 DEF N!Newest, from

LEMMA NewsGoesOn ==
    ASSUME NewsInv, [N!Next]_newsVars PROVE NewsInv'
<1>0. PostsReplayed \in Nat
    BY CatalogueAssumption DEF N!NewsAssumption
<1>1. ASSUME NEW x \in Revision, N!Publish(x) PROVE NewsInv'
    BY <1>1 DEF N!Publish, NewsInv
<1>2. CASE N!GetForumNews
    BY <1>0, <1>2, NewestAreRevisions DEF N!GetForumNews, NewsInv
<1>3. CASE N!SeedArrives
    <2>1. PICK answer \in seed : store' = N!Taken(store, answer) /\ heard' = heard \cup N!ToSet(answer)
        BY <1>3 DEF N!SeedArrives, N!Take
    <2>2. StoreInv(N!Taken(store, answer), heard \cup N!ToSet(answer))
        BY BatchIsTaken DEF NewsInv
    <2> QED BY <1>3, <2>1, <2>2 DEF N!SeedArrives, NewsInv
<1>4. CASE N!WsOpens
    BY <1>0, <1>4, NewestAreRevisions DEF N!WsOpens, NewsInv
<1>5. CASE N!WsMessage
    <2> DEFINE one == <<Head(pushed)>>
    <2>1. one \in Seq(Revision) /\ Tail(pushed) \in Seq(Revision)
        BY <1>5 DEF N!WsMessage, NewsInv
    <2>2. store' = N!Taken(store, one) /\ heard' = heard \cup N!ToSet(one)
        BY <1>5 DEF N!WsMessage, N!Take
    <2> HIDE DEF one
    <2>3. StoreInv(N!Taken(store, one), heard \cup N!ToSet(one))
        BY <2>1, BatchIsTaken DEF NewsInv
    <2> QED BY <1>5, <2>1, <2>2, <2>3 DEF N!WsMessage, NewsInv
<1>6. CASE N!SeedFails
    BY <1>6 DEF N!SeedFails, NewsInv
<1>7. CASE N!WsCloses
    BY <1>7 DEF N!WsCloses, NewsInv
<1>8. CASE N!TtlEnds \/ N!WsReconnects \/ UNCHANGED newsVars
    BY <1>8 DEF N!TtlEnds, N!WsReconnects, newsVars, NewsInv
<1> QED BY <1>1, <1>2, <1>3, <1>4, <1>5, <1>6, <1>7, <1>8 DEF N!Next

LEMMA NewsRunsAlone == CatalogueSpec => N!Init /\ [][N!Next]_newsVars
<1>1. CatalogueInit => N!Init
    BY DEF CatalogueInit
<1>2. [CatalogueNext]_everything => [N!Next]_newsVars
    BY DEF CatalogueNext, everything, Over
<1> QED BY <1>1, <1>2, PTL DEF CatalogueSpec

\* "a lagging REST snapshot or a reconnect replay must never overwrite a fresher revision
\* already stored" (forumNews.js:203-204).
LEMMA StoreIsNewest == CatalogueSpec => []N!StoreHoldsNewest
<1>1. N!Init => NewsInv
    <2> SUFFICES ASSUME N!Init PROVE NewsInv
        OBVIOUS
    <2>1. posts = <<>> /\ pushed = <<>> /\ seed = {} /\ store = {} /\ heard = {}
        BY DEF N!Init
    <2>2. LatestOf({}) = {} /\ IsFiniteSet({}) /\ Cardinality({}) = 0 /\ MaxPosts \in Nat
        BY FS_EmptySet, CatalogueAssumption DEF LatestOf, N!NewsAssumption
    <2>3. StoreInv(store, heard)
        BY <2>1, <2>2 DEF StoreInv, IsTop
    <2> QED BY <2>1, <2>3 DEF NewsInv
<1>2. NewsInv => N!StoreHoldsNewest
    <2> SUFFICES ASSUME NewsInv PROVE N!StoreHoldsNewest
        OBVIOUS
    <2> DEFINE latest == {x \in heard : \A y \in heard : y.id = x.id => y.fresh <= x.fresh}
    <2>1. latest = LatestOf(heard)
        BY DEF LatestOf
    <2>2. IsFiniteSet(LatestOf(heard)) /\ Apart(LatestOf(heard)) /\ IsTop(store, LatestOf(heard))
        <3>1. LatestOf(heard) \subseteq heard
            BY DEF LatestOf
        <3> QED BY <3>1, FS_Subset, LatestAreApart DEF NewsInv, StoreInv
    <2>3. store = {x \in latest : Cardinality({y \in latest : y.published > x.published}) < MaxPosts}
        BY <2>1, <2>2, LatestAreApart, TopIsCounted DEF NewsInv, StoreInv
    <2>4. \A x : N!Cardinality({y \in latest : y.published > x.published}) = Cardinality({y \in latest : y.published > x.published})
        BY DEF Cardinality, N!Cardinality
    <2> HIDE DEF latest
    <2>5. {x \in latest : Cardinality({y \in latest : y.published > x.published}) < MaxPosts}
          = {x \in latest : N!Cardinality({y \in latest : y.published > x.published}) < MaxPosts}
        BY <2>4
    <2> QED BY <2>3, <2>5 DEF N!StoreHoldsNewest, latest
<1> QED BY <1>1, <1>2, NewsGoesOn, NewsRunsAlone, PTL

\* What is served of the archive is complete down to the time it claims, and the store
\* has the newest posts as they were last edited (forkFeeds.js:186-220, forumNews.js:209-235).
THEOREM ArchivesAreAlwaysComplete == CatalogueSpec => []ArchivesAreComplete
<1> QED BY ArchiveIsComplete, StoreIsNewest, PTL DEF ArchivesAreComplete

-----------------------------------------------------------------------------
(* A chain's halt: every answer is younger than the deadline.              *)

HaltInv ==
    /\ now \in Nat /\ blocks \in Seq(Nat) /\ Len(blocks) > 0
    /\ \A i, j \in 1..Len(blocks) : i <= j => blocks[i] <= blocks[j]
    /\ \A i \in 1..Len(blocks) : blocks[i] <= now
    /\ asked \in Nat \cup {None} /\ probed \in Nat \cup {None}
    /\ \A s \in DOMAIN answers : /\ s \in HaltSource /\ asked # None
                                 /\ answers[s].height \in (1..Len(blocks)) \cup {None}
                                 /\ answers[s].at \in Nat /\ asked <= answers[s].at
    /\ probed # None => /\ asked # None /\ probed <= asked + AnswerWithin
                        /\ DOMAIN answers = HaltSource /\ H!Cardinality(H!Responded) >= 2
    /\ asked # None => asked <= now
    /\ asked # None /\ probed = None => now <= asked + AnswerWithin
    /\ verdict # None /\ verdict.is \in {"halted", "delayed"} =>
           /\ probed # None /\ verdict.threshold \in Int
           /\ ~(probed - blocks[H!MaxHeight] <= verdict.threshold)

LEMMA HeightsHaveGreatest ==
    ASSUME HaltInv, H!Responded # {}
    PROVE  H!MaxHeight \in H!Heights /\ \A s \in H!Responded : answers[s].height <= H!MaxHeight
<1>1. H!Responded \subseteq HaltSource /\ \A s \in H!Responded : answers[s].height \in 1..Len(blocks)
    BY DEF HaltInv, H!Responded
<1>2. IsFiniteSet(H!Responded)
    BY <1>1, FS_Subset, CatalogueAssumption DEF H!HaltAssumption, H!IsFiniteSet, IsFiniteSet
<1> DEFINE heights == {answers[s].height : s \in H!Responded}
<1>3. IsFiniteSet(heights) /\ heights # {} /\ heights \in SUBSET Int
    <2>1. IsFiniteSet(heights)
        <3>1. [s \in H!Responded |-> answers[s].height] \in Surjection(H!Responded, heights)
            BY DEF Surjection
        <3> QED BY <1>2, <3>1, FS_Surjection
    <2> QED BY <1>1, <2>1
<1>4. \E m \in heights : \A x \in heights : m >= x
    <2> HIDE DEF heights
    <2> QED BY <1>3, FiniteHasGreatest
<1>5. heights = H!Heights
    BY DEF H!Heights
<1>6. H!MaxHeight \in heights /\ \A x \in heights : H!MaxHeight >= x
    BY <1>4, <1>5 DEF H!MaxHeight, H!Max
<1> QED BY <1>1, <1>5, <1>6

LEMMA TwoAreSome ==
    ASSUME DOMAIN answers \subseteq HaltSource
    PROVE  H!Cardinality(H!Responded) \in Nat /\ (H!Cardinality(H!Responded) >= 2 => H!Responded # {})
<1>0. H!Responded \subseteq HaltSource
    BY DEF H!Responded
<1>1. IsFiniteSet(H!Responded)
    BY <1>0, FS_Subset, CatalogueAssumption DEF H!HaltAssumption, H!IsFiniteSet, IsFiniteSet
<1>2. H!Cardinality(H!Responded) = Cardinality(H!Responded)
    BY DEF H!Cardinality, Cardinality
<1>3. Cardinality(H!Responded) \in Nat
    BY <1>1, FS_CardinalityType
<1>4. H!Responded = {} => Cardinality(H!Responded) = 0
    BY FS_EmptySet
<1> QED BY <1>2, <1>3, <1>4

LEMMA OneOfTwo ==
    ASSUME NEW a \in Int, NEW b \in Int
    PROVE  /\ H!Max({a, b}) \in {a, b}
           /\ H!Min({a, b}) \in {a, b} /\ H!Min({a, b}) <= a /\ H!Min({a, b}) <= b
<1>1. (\E m \in {a, b} : \A x \in {a, b} : m >= x) /\ (\E m \in {a, b} : \A x \in {a, b} : m <= x)
    OBVIOUS
<1>2. H!Max({a, b}) \in {a, b}
    BY <1>1 DEF H!Max
<1>3. H!Min({a, b}) \in {a, b} /\ \A x \in {a, b} : H!Min({a, b}) <= x
    BY <1>1 DEF H!Min
<1> QED BY <1>2, <1>3

LEMMA ThresholdIsNumber ==
    ASSUME HaltInv, H!Responded # {}, NEW interval \in H!Intervals
    PROVE  H!Threshold(interval) \in Int
<1>0. /\ None \notin Int /\ Averages \subseteq Nat /\ Multiplier \in Nat /\ Least \in Nat /\ Lookback \in Nat
    BY CatalogueAssumption DEF H!HaltAssumption
<1> DEFINE back == H!Min({Lookback, H!MaxHeight - 1})
           derived == (H!Tip - blocks[H!MaxHeight - back]) \div back
<1>1. H!MaxHeight \in 1..Len(blocks)
    BY HeightsHaveGreatest DEF HaltInv, H!Heights, H!Responded
<1>2. back \in Int /\ back <= H!MaxHeight - 1
    <2>1. H!MaxHeight - 1 \in Int /\ Lookback \in Int
        BY <1>0, <1>1
    <2> QED BY <2>1, OneOfTwo
<1>3. ~(back < 2) => derived \in Int
    <2> SUFFICES ASSUME ~(back < 2) PROVE derived \in Int
        OBVIOUS
    <2> HIDE DEF back
    <2>1. H!MaxHeight - back \in 1..Len(blocks) /\ back \in Nat \ {0}
        BY <1>1, <1>2 DEF HaltInv
    <2>2. H!Tip \in Nat /\ blocks[H!MaxHeight - back] \in Nat
        BY <1>1, <2>1 DEF HaltInv, H!Tip
    <2> QED BY <2>1, <2>2
<1>4. interval = None \/ interval \in Int
    <2>1. interval \in Averages \/ interval = None \/ (~(back < 2) /\ interval = derived)
        BY DEF H!Intervals
    <2>2. CASE interval \in Averages
        BY <1>0, <2>2
    <2>3. CASE ~(back < 2) /\ interval = derived
        BY <1>3, <2>3
    <2> QED BY <2>1, <2>2, <2>3
<1>5. CASE interval = None
    BY <1>0, <1>5 DEF H!Threshold
<1>6. CASE interval # None
    <2>1. interval * Multiplier \in Int /\ Least \in Int
        BY <1>0, <1>4, <1>6
    <2> QED BY <1>6, <2>1, OneOfTwo DEF H!Threshold
<1> QED BY <1>5, <1>6

LEMMA HaltGoesOn ==
    ASSUME HaltInv, [H!Next]_haltVars PROVE HaltInv'
<1>0. AnswerWithin \in Nat /\ None \notin Int
    BY CatalogueAssumption DEF H!HaltAssumption
<1>1. CASE H!Produce
    <2>1. blocks' \in Seq(Nat) /\ Len(blocks') = Len(blocks) + 1 /\ blocks'[Len(blocks')] = now
          /\ \A i \in 1..Len(blocks) : blocks'[i] = blocks[i]
        BY <1>1 DEF H!Produce, HaltInv
    <2>2. ASSUME NEW i \in 1..Len(blocks'), NEW j \in 1..Len(blocks'), i <= j
          PROVE  blocks'[i] <= blocks'[j]
        <3>1. CASE j = Len(blocks')
            <4>1. i = j \/ i \in 1..Len(blocks)
                BY <2>1, <2>2, <3>1 DEF HaltInv
            <4>2. blocks'[j] = now /\ now \in Nat
                BY <2>1, <3>1 DEF HaltInv
            <4>3. CASE i = j
                BY <4>2, <4>3
            <4>4. CASE i \in 1..Len(blocks)
                BY <2>1, <4>2, <4>4 DEF HaltInv
            <4> QED BY <4>1, <4>3, <4>4
        <3>2. CASE j # Len(blocks')
            <4>1. i \in 1..Len(blocks) /\ j \in 1..Len(blocks)
                BY <2>1, <2>2, <3>2 DEF HaltInv
            <4> QED BY <2>1, <2>2, <4>1 DEF HaltInv
        <3> QED BY <3>1, <3>2
    <2>3. \A i \in 1..Len(blocks') : blocks'[i] <= now'
        BY <1>1, <2>1 DEF HaltInv, H!Produce
    <2>4. verdict = None /\ verdict' = None /\ UNCHANGED <<now, asked, answers, probed>>
        BY <1>1 DEF H!Produce
    <2>5. H!Responded' = H!Responded
        BY <2>4 DEF H!Responded
    <2>6. \A s \in DOMAIN answers : answers[s].height \in (1..Len(blocks')) \cup {None}
        BY <2>1 DEF HaltInv
    <2> QED BY <2>1, <2>2, <2>3, <2>4, <2>5, <2>6 DEF HaltInv
<1>2. CASE H!Second
    <2>1. verdict = None /\ now' = now + 1 /\ UNCHANGED <<blocks, asked, answers, probed, verdict>>
        BY <1>2 DEF H!Second
    <2>2. H!Responded' = H!Responded
        BY <2>1 DEF H!Responded
    <2>3. asked # None /\ probed = None => now < asked + AnswerWithin
        BY <1>2 DEF H!Second, H!Deadline
    <2> QED BY <1>0, <2>1, <2>2, <2>3 DEF HaltInv
<1>3. CASE H!CheckChainHalt
    <2>1. asked = None /\ asked' = now /\ UNCHANGED <<now, blocks, answers, probed, verdict>>
        BY <1>3 DEF H!CheckChainHalt
    <2>2. probed = None /\ DOMAIN answers = {}
        BY <2>1 DEF HaltInv
    <2> QED BY <1>0, <2>1, <2>2 DEF HaltInv
<1>4. ASSUME NEW s \in HaltSource, H!Answers(s) PROVE HaltInv'
    <2>1. asked # None /\ s \notin DOMAIN answers /\ UNCHANGED <<now, blocks, asked, probed, verdict>>
        BY <1>4 DEF H!Answers
    <2>2. PICK h \in (1..Len(blocks)) \cup {None} :
             answers' = [t \in DOMAIN answers \cup {s} |->
                            IF t = s THEN [height |-> h, tip |-> Len(blocks), at |-> now] ELSE answers[t]]
        BY <1>4 DEF H!Answers
    <2>3. probed = None
        BY <2>1 DEF HaltInv
    <2>4. \A t \in DOMAIN answers' : t \in HaltSource /\ answers'[t].height \in (1..Len(blocks)) \cup {None}
                                     /\ answers'[t].at \in Nat /\ asked <= answers'[t].at
        BY <2>1, <2>2 DEF HaltInv
    <2>5. verdict' # None /\ verdict'.is \in {"halted", "delayed"} => FALSE
        BY <2>1, <2>3 DEF HaltInv
    <2>6. probed' = None
        BY <2>1, <2>3
    <2>7. asked' # None => asked' <= now' /\ (probed' = None => now' <= asked' + AnswerWithin)
        BY <2>1 DEF HaltInv
    <2>8. /\ now' \in Nat /\ blocks' \in Seq(Nat) /\ Len(blocks') > 0
          /\ \A i, j \in 1..Len(blocks') : i <= j => blocks'[i] <= blocks'[j]
          /\ \A i \in 1..Len(blocks') : blocks'[i] <= now'
          /\ asked' \in Nat \cup {None} /\ probed' \in Nat \cup {None}
        BY <2>1 DEF HaltInv
    <2>9. \A t \in DOMAIN answers' : /\ t \in HaltSource /\ asked' # None
                                     /\ answers'[t].height \in (1..Len(blocks')) \cup {None}
                                     /\ answers'[t].at \in Nat /\ asked' <= answers'[t].at
        BY <2>1, <2>4
    <2> HIDE DEF HaltInv
    <2> QED BY <2>5, <2>6, <2>7, <2>8, <2>9 DEF HaltInv
<1>5. CASE H!Probed
    <2>1. DOMAIN answers = HaltSource /\ probed = None /\ verdict = None /\ UNCHANGED <<now, blocks, asked, answers>>
        BY <1>5 DEF H!Probed
    <2>2. H!Responded' = H!Responded
        BY <2>1 DEF H!Responded
    <2>3. CASE H!Cardinality(H!Responded) < 2
        <3>1. verdict'.is = "unknown" /\ probed' = None
            BY <1>5, <2>1, <2>3 DEF H!Probed
        <3> QED BY <2>1, <2>2, <3>1 DEF HaltInv
    <2>4. CASE ~(H!Cardinality(H!Responded) < 2)
        <3>1. verdict' = None /\ probed' = now
            BY <1>5, <2>1, <2>4 DEF H!Probed
        <3>2. H!Cardinality(H!Responded) \in Nat /\ H!Cardinality(H!Responded) >= 2
            BY <2>1, <2>4, TwoAreSome
        <3>3. H!Responded # {}
            BY <2>1, <3>2, TwoAreSome
        <3>4. asked # None
            BY <3>3 DEF HaltInv, H!Responded
        <3> QED BY <2>1, <2>2, <2>4, <3>1, <3>2, <3>4 DEF HaltInv
    <2> QED BY <2>3, <2>4
<1>6. CASE H!Judge
    <2>1. probed # None /\ verdict = None /\ UNCHANGED <<now, blocks, asked, answers, probed>>
        BY <1>6 DEF H!Judge
    <2>2. PICK interval \in H!Intervals :
             verdict' = [is |-> IF probed - H!Tip <= H!Threshold(interval)
                                THEN (IF {s \in H!Responded : now - blocks[answers[s].height] > H!Threshold(interval)} = {}
                                      THEN "healthy" ELSE "endpoint_lagging")
                                ELSE IF H!Cardinality(H!Heights) > 1 THEN "delayed" ELSE "halted",
                         threshold |-> H!Threshold(interval),
                         stale |-> {s \in H!Responded : now - blocks[answers[s].height] > H!Threshold(interval)}]
        BY <1>6 DEF H!Judge
    <2>3. H!Responded # {}
        BY <2>1, TwoAreSome DEF HaltInv
    <2>4. verdict'.threshold = H!Threshold(interval) /\ H!Threshold(interval) \in Int
        BY <2>2, <2>3, ThresholdIsNumber
    <2>5. verdict'.is \in {"halted", "delayed"} => ~(probed - H!Tip <= H!Threshold(interval))
        BY <2>2
    <2>6. H!Tip = blocks[H!MaxHeight]
        BY DEF H!Tip
    <2>7. H!MaxHeight' = H!MaxHeight /\ H!Responded' = H!Responded
        BY <2>1 DEF H!MaxHeight, H!Heights, H!Responded
    <2> QED BY <2>1, <2>4, <2>5, <2>6, <2>7 DEF HaltInv
<1>7. CASE UNCHANGED haltVars
    <2>1. H!MaxHeight' = H!MaxHeight /\ H!Responded' = H!Responded
        BY <1>7 DEF haltVars, H!MaxHeight, H!Heights, H!Responded
    <2> QED BY <1>7, <2>1 DEF haltVars, HaltInv
<1> QED BY <1>1, <1>2, <1>3, <1>4, <1>5, <1>6, <1>7 DEF H!Next

LEMMA HaltRunsAlone == CatalogueSpec => H!Init /\ [][H!Next]_haltVars
<1>1. CatalogueInit => H!Init
    BY DEF CatalogueInit
<1>2. [CatalogueNext]_everything => [H!Next]_haltVars
    BY DEF CatalogueNext, everything, Over
<1> QED BY <1>1, <1>2, PTL DEF CatalogueSpec

LEMMA HaltIsSaid ==
    ASSUME HaltInv PROVE H!HaltIsNoLag
<1> SUFFICES ASSUME verdict # None /\ verdict.is \in {"halted", "delayed"}
             PROVE  /\ H!Cardinality(H!Responded) >= 2
                    /\ \A s \in H!Responded : answers[s].at - blocks[answers[s].height] > verdict.threshold - AnswerWithin
    BY DEF H!HaltIsNoLag
<1>1. probed # None /\ probed \in Nat /\ asked \in Nat /\ probed <= asked + AnswerWithin /\ H!Cardinality(H!Responded) >= 2
      /\ verdict.threshold \in Int /\ ~(probed - blocks[H!MaxHeight] <= verdict.threshold)
    BY DEF HaltInv
<1>2. ASSUME NEW s \in H!Responded PROVE answers[s].at - blocks[answers[s].height] > verdict.threshold - AnswerWithin
    <2>1. H!MaxHeight \in 1..Len(blocks) /\ answers[s].height \in 1..Len(blocks) /\ answers[s].height <= H!MaxHeight
        BY HeightsHaveGreatest DEF HaltInv, H!Heights, H!Responded
    <2>2. blocks[answers[s].height] <= blocks[H!MaxHeight] /\ blocks[answers[s].height] \in Nat /\ blocks[H!MaxHeight] \in Nat
        BY <2>1 DEF HaltInv
    <2>3. answers[s].at \in Nat /\ asked <= answers[s].at
        BY DEF HaltInv, H!Responded
    <2>4. AnswerWithin \in Nat
        BY CatalogueAssumption DEF H!HaltAssumption
    <2> QED BY <1>1, <2>2, <2>3, <2>4
<1> QED BY <1>1, <1>2

\* A lagging endpoint is no halt (chainHalt.js:21-24).
LEMMA LagIsNoHalt == CatalogueSpec => []H!HaltIsNoLag
<1>1. H!Init => HaltInv
    <2> SUFFICES ASSUME H!Init PROVE HaltInv
        OBVIOUS
    <2>1. now = 0 /\ blocks = <<0>> /\ asked = None /\ answers = <<>> /\ probed = None /\ verdict = None
        BY DEF H!Init
    <2>2. DOMAIN answers = {} /\ Len(blocks) = 1 /\ blocks[1] = 0 /\ blocks \in Seq(Nat)
        BY <2>1
    <2> QED BY <2>1, <2>2 DEF HaltInv
<1> QED BY <1>1, HaltGoesOn, HaltIsSaid, HaltRunsAlone, PTL

-----------------------------------------------------------------------------
(* Live incidents.  What is kept of an incident is its newest update, with *)
(* the newest class somebody was sure of.                                  *)

UpdateFields == {"id", "key", "at", "status", "ongoing", "page", "isProvider", "chains",
              "queries", "class", "low", "named", "banner"}

LiveInv ==
    /\ updates \subseteq LiveUpdate /\ IsFiniteSet(updates)
    /\ copy # None =>
           \E fetched \in SUBSET LiveUpdate :
               /\ IsFiniteSet(fetched)
               /\ copy.events = {V!AttachChain(u, copy.registry) : u \in fetched}
               /\ copy.incidents = V!DedupeEvents(copy.events)

LEMMA LiveGoesOn ==
    ASSUME LiveInv, [V!Next]_liveVars PROVE LiveInv'
<1>1. ASSUME NEW u \in LiveUpdate, V!Publish(u) PROVE LiveInv'
    <2>1. updates' = updates \cup {u} /\ copy' = copy
        BY <1>1 DEF V!Publish
    <2>2. IsFiniteSet(updates')
        BY <2>1, FS_AddElement DEF LiveInv
    <2> QED BY <2>1, <2>2 DEF LiveInv
<1>2. CASE V!FetchEnds
    <2>1. updates' = updates
        BY <1>2 DEF V!FetchEnds
    <2>2. /\ copy'.registry = registry
          /\ copy'.events = {V!AttachChain(u, registry) : u \in updates}
          /\ copy'.incidents = V!DedupeEvents(copy'.events)
        BY <1>2 DEF V!FetchEnds
    <2> QED BY <2>1, <2>2 DEF LiveInv
<1>3. CASE V!RegistryLoads \/ V!LoadIncidents \/ V!FetchFails \/ V!InspectCachedIncidents \/ V!Tick \/ UNCHANGED liveVars
    <2>1. updates' = updates /\ copy' = copy
        BY <1>3 DEF V!RegistryLoads, V!LoadIncidents, V!FetchFails, V!InspectCachedIncidents, V!Tick, liveVars
    <2> QED BY <2>1 DEF LiveInv
<1> QED BY <1>1, <1>2, <1>3 DEF V!Next

LEMMA AttachedIs ==
    ASSUME NEW u \in LiveUpdate, NEW loaded, NEW v, v = V!AttachChain(u, loaded)
    PROVE  /\ v.key = u.key /\ v.at = u.at /\ v.status = u.status /\ v.chains = u.chains
           /\ v.queries = u.queries /\ v.derivedChain = V!DerivedChain(u, loaded)
           /\ DOMAIN v = UpdateFields \cup {"derivedChain"}
<1>1. DOMAIN u = UpdateFields
    BY CatalogueAssumption DEF V!LiveAssumption, UpdateFields
<1> QED BY <1>1 DEF V!AttachChain, UpdateFields

\* Updates of one incident, as they are kept.
AreOfOne(of) ==
    /\ IsFiniteSet(of)
    /\ \A u \in of : u.at \in Nat /\ DOMAIN u = UpdateFields \cup {"derivedChain"}
    /\ \A u, v \in of : u.key = v.key /\ (u.at = v.at => u = v)

LEMMA NewestOfSome ==
    ASSUME NEW of, AreOfOne(of), of # {}
    PROVE  V!Newest(of) \in of /\ \A v \in of : v.at <= V!Newest(of).at
<1> DEFINE R == {p \in of \X of : p[2].at <= p[1].at}
<1>1. /\ \A x, y \in of : <<x, y>> \in R \/ <<y, x>> \in R
      /\ \A x, y, z \in of : <<x, y>> \in R /\ <<y, z>> \in R => <<x, z>> \in R
    BY DEF AreOfOne
<1>2. IsFiniteSet(of)
    BY DEF AreOfOne
<1>3. \E m \in of : \A x \in of : <<m, x>> \in R
    <2> HIDE DEF R
    <2> QED BY <1>1, <1>2, FiniteHasFirst
<1>4. \E u \in of : \A v \in of : v.at <= u.at
    BY <1>3
<1> QED BY <1>4 DEF V!Newest

LEMMA PartIsOfOne ==
    ASSUME NEW of, AreOfOne(of), NEW part_ \in SUBSET of PROVE AreOfOne(part_)
BY FS_Subset DEF AreOfOne

LEMMA SameForEveryReader ==
    ASSUME NEW of, AreOfOne(of), of # {}, NEW it, it = V!WithInherited(V!Newest(of), of)
    PROVE  /\ V!KindOf(it) = "maintenance" <=> V!IsPlannedGroup(of)
           /\ \E u \in of : it.key = u.key /\ it.chains = u.chains /\ it.queries = u.queries /\ it.derivedChain = u.derivedChain
<1> DEFINE u == V!Newest(of)
           classified == {v \in of : V!ConfidentClass(v)}
<1>1. u \in of /\ \A v \in of : v.at <= u.at
    BY NewestOfSome
<1>2. DOMAIN u = UpdateFields \cup {"derivedChain"}
    BY <1>1 DEF AreOfOne
<1>3. it = IF V!ConfidentClass(u) \/ classified = {} THEN u
           ELSE [u EXCEPT !.class = V!Newest(classified).class, !.low = V!Newest(classified).low, !.named = V!Newest(classified).named]
    BY DEF V!WithInherited
<1>4. AreOfOne(classified)
    BY PartIsOfOne
<1> HIDE DEF u
<1>5. it.status = u.status /\ it.key = u.key /\ it.chains = u.chains /\ it.queries = u.queries /\ it.derivedChain = u.derivedChain
    <2> HIDE DEF classified
    <2> QED BY <1>2, <1>3 DEF UpdateFields
<1>6. V!IsPlannedClass(it) <=> classified # {} /\ V!Newest(classified).class \in V!PlannedClasses
    <2>1. CASE classified = {}
        <3>1. it = u /\ ~V!ConfidentClass(u)
            BY <1>1, <1>3, <2>1
        <3> QED BY <2>1, <3>1 DEF V!IsPlannedClass
    <2>2. CASE V!ConfidentClass(u)
        <3>1. it = u /\ u \in classified
            BY <1>1, <1>3, <2>2
        <3>2. V!Newest(classified) \in classified /\ \A v \in classified : v.at <= V!Newest(classified).at
            BY <1>4, <3>1, NewestOfSome
        <3>3. V!Newest(classified) = u
            <4>1. V!Newest(classified) \in of /\ u.at <= V!Newest(classified).at
                BY <3>1, <3>2
            <4> HIDE DEF classified
            <4> QED BY <1>1, <4>1 DEF AreOfOne
        <3> QED BY <2>2, <3>1, <3>3 DEF V!IsPlannedClass
    <2>3. CASE classified # {} /\ ~V!ConfidentClass(u)
        <3> DEFINE w == V!Newest(classified)
        <3>1. w \in classified
            BY <1>4, <2>3, NewestOfSome
        <3>2. V!ConfidentClass(w)
            BY <3>1
        <3>3. it = [u EXCEPT !.class = w.class, !.low = w.low, !.named = w.named]
            BY <1>3, <2>3
        <3> HIDE DEF w, classified
        <3>4. it.class = w.class /\ it.low = w.low
            BY <1>2, <3>3 DEF UpdateFields
        <3> QED BY <2>3, <3>2, <3>4 DEF V!IsPlannedClass, V!ConfidentClass, w
    <2> QED BY <2>1, <2>2, <2>3
<1>7. V!IsPlannedGroup(of) <=> u.status \in V!Maintenance \/ (classified # {} /\ V!Newest(classified).class \in V!PlannedClasses)
    BY DEF V!IsPlannedGroup, u
<1>8. V!KindOf(it) = "maintenance" <=> it.status \in V!Maintenance \/ V!IsPlannedClass(it)
    BY DEF V!KindOf
<1> QED BY <1>1, <1>5, <1>6, <1>7, <1>8

\* An incident that is kept is made of the updates of its key.
LEMMA IncidentIs ==
    ASSUME LiveInv, copy # None, NEW it \in copy.incidents
    PROVE  LET of == {u \in copy.events : u.key = it.key}
           IN  /\ of # {} /\ AreOfOne(of) /\ it = V!WithInherited(V!Newest(of), of)
               /\ \A v \in of : \E u \in LiveUpdate : /\ v.chains = u.chains /\ v.queries = u.queries
                                                  /\ v.derivedChain = V!DerivedChain(u, copy.registry)
<1>1. PICK fetched \in SUBSET LiveUpdate :
         /\ IsFiniteSet(fetched)
         /\ copy.events = {V!AttachChain(u, copy.registry) : u \in fetched}
         /\ copy.incidents = V!DedupeEvents(copy.events)
    BY DEF LiveInv
<1> DEFINE events == copy.events
           Of(k) == {u \in events : u.key = k}
<1>2. \A v \in events : \E u \in fetched : v = V!AttachChain(u, copy.registry)
    BY <1>1
<1>3. IsFiniteSet(events)
    <2>1. [u \in fetched |-> V!AttachChain(u, copy.registry)] \in Surjection(fetched, events)
        BY <1>1 DEF Surjection
    <2> QED BY <1>1, <2>1, FS_Surjection
<1>4. \A u, v \in LiveUpdate : u.at \in Nat /\ (u.key = v.key /\ u.at = v.at => u = v)
    BY CatalogueAssumption DEF V!LiveAssumption
<1>5. ASSUME NEW k PROVE AreOfOne(Of(k))
    <2>1. IsFiniteSet(Of(k))
        <3>1. Of(k) \subseteq events
            OBVIOUS
        <3> QED BY <1>3, <3>1, FS_Subset
    <2>2. ASSUME NEW v \in Of(k) PROVE v.at \in Nat /\ DOMAIN v = UpdateFields \cup {"derivedChain"}
        <3>1. PICK u \in fetched : v = V!AttachChain(u, copy.registry)
            BY <1>2
        <3> QED BY <1>4, <3>1, AttachedIs
    <2>3. ASSUME NEW v \in Of(k), NEW w \in Of(k), v.at = w.at PROVE v = w
        <3>1. PICK u \in fetched : v = V!AttachChain(u, copy.registry)
            BY <1>2
        <3>2. PICK x \in fetched : w = V!AttachChain(x, copy.registry)
            BY <1>2
        <3>3. u.key = v.key /\ u.at = v.at /\ x.key = w.key /\ x.at = w.at
            BY <3>1, <3>2, AttachedIs
        <3>4. u.key = x.key /\ u.at = x.at /\ u \in LiveUpdate /\ x \in LiveUpdate
            BY <2>3, <3>3
        <3>5. u = x
            BY <1>4, <3>4
        <3> QED BY <3>1, <3>2, <3>5
    <2>4. \A v, w \in Of(k) : v.key = w.key
        OBVIOUS
    <2> HIDE DEF Of
    <2> QED BY <2>1, <2>2, <2>3, <2>4 DEF AreOfOne
<1>6. PICK k \in {u.key : u \in events} : it = V!WithInherited(V!Newest(Of(k)), Of(k))
    BY <1>1 DEF V!DedupeEvents
<1>7. Of(k) # {}
    BY <1>6
<1>8. it.key = k
    <2>1. \E u \in Of(k) : it.key = u.key
        <3> HIDE DEF Of
        <3> QED BY <1>5, <1>6, <1>7, SameForEveryReader
    <2> QED BY <2>1
<1>9. \A v \in Of(k) : \E u \in LiveUpdate : /\ v.chains = u.chains /\ v.queries = u.queries
                                         /\ v.derivedChain = V!DerivedChain(u, copy.registry)
    <2> SUFFICES ASSUME NEW v \in Of(k)
                 PROVE  \E u \in LiveUpdate : /\ v.chains = u.chains /\ v.queries = u.queries
                                          /\ v.derivedChain = V!DerivedChain(u, copy.registry)
        OBVIOUS
    <2>1. PICK u \in fetched : v = V!AttachChain(u, copy.registry)
        BY <1>2
    <2> QED BY <2>1, AttachedIs
<1> QED BY <1>5, <1>6, <1>7, <1>8, <1>9

LEMMA PlannedIsSaid ==
    ASSUME LiveInv PROVE V!PlannedIsNoOutage
<1> SUFFICES ASSUME copy # None, NEW it \in copy.incidents
             PROVE  V!KindOf(it) = "maintenance" <=> V!IsPlannedGroup({u \in copy.events : u.key = it.key})
    BY DEF V!PlannedIsNoOutage
<1> DEFINE of == {u \in copy.events : u.key = it.key}
<1>1. of # {} /\ AreOfOne(of) /\ it = V!WithInherited(V!Newest(of), of)
    BY IncidentIs
<1> HIDE DEF of
<1>2. V!KindOf(it) = "maintenance" <=> V!IsPlannedGroup(of)
    BY <1>1, SameForEveryReader
<1> QED BY <1>2 DEF of

LEMMA TroubleIsSeen ==
    ASSUME LiveInv PROVE V!TroubleIsFound
<1> SUFFICES ASSUME copy # None, copy.registry = registry,
                    NEW g \in V!CorrelateChainIncidents(copy.incidents), NEW it \in g.reports
             PROVE  it \in V!OngoingOf(copy.incidents, g.chain)
    BY DEF V!TroubleIsFound
<1>1. /\ it \in copy.incidents /\ it.ongoing /\ V!ResolveIncidentChain(it, registry) # None
      /\ g.chain = V!ResolveIncidentChain(it, registry).chain
    <2> DEFINE Counts(x) == x.isProvider /\ x.ongoing /\ V!ResolveIncidentChain(x, registry) # None
               About(x) == [chain |-> V!ResolveIncidentChain(x, registry).chain, kind |-> V!KindOf(x)]
               reports == {x \in copy.incidents : Counts(x)}
    <2>1. PICK other \in reports :
             g = [chain |-> About(other).chain, kind |-> About(other).kind, reports |-> {x \in reports : About(x) = About(other)}]
        BY DEF V!CorrelateChainIncidents
    <2>2. it \in reports /\ About(it) = About(other) /\ g.chain = About(other).chain
        <3> HIDE DEF About, reports
        <3> QED BY <2>1
    <2>3. About(it).chain = V!ResolveIncidentChain(it, registry).chain
        OBVIOUS
    <2>4. it \in copy.incidents /\ Counts(it)
        BY <2>2
    <2> HIDE DEF About, reports
    <2> QED BY <2>2, <2>3, <2>4
<1> DEFINE of == {u \in copy.events : u.key = it.key}
<1>2. /\ of # {} /\ AreOfOne(of) /\ it = V!WithInherited(V!Newest(of), of)
      /\ \A v \in of : \E u \in LiveUpdate : /\ v.chains = u.chains /\ v.queries = u.queries
                                         /\ v.derivedChain = V!DerivedChain(u, copy.registry)
    BY <1>1, IncidentIs
<1>3. PICK u \in LiveUpdate : /\ it.chains = u.chains /\ it.queries = u.queries
                          /\ it.derivedChain = V!DerivedChain(u, registry)
    <2> HIDE DEF of
    <2>1. PICK v \in of : it.chains = v.chains /\ it.queries = v.queries /\ it.derivedChain = v.derivedChain
        BY <1>2, SameForEveryReader
    <2> QED BY <1>2, <2>1
<1>4. V!ResolveIncidentChain(u, registry) = V!ResolveIncidentChain(it, registry)
    BY <1>3 DEF V!ResolveIncidentChain
<1>5. V!Affects(it, g.chain)
    <2>1. CASE it.chains # <<>>
        <3>1. g.chain = it.chains[1]
            BY <1>1, <2>1 DEF V!ResolveIncidentChain
        <3>2. 1 \in DOMAIN it.chains
            BY <1>3, <2>1, CatalogueAssumption DEF V!LiveAssumption
        <3> QED BY <3>1, <3>2 DEF V!Affects, V!ToSet
    <2>2. CASE it.chains = <<>>
        <3>1. V!ResolveIncidentChain(it, registry).evidence = "title"
            BY <1>1, <2>2 DEF V!ResolveIncidentChain
        <3>2. it.derivedChain = V!ResolveIncidentChain(it, registry).chain
            BY <1>1, <1>3, <1>4, <3>1 DEF V!DerivedChain
        <3> QED BY <1>1, <3>2 DEF V!Affects
    <2> QED BY <2>1, <2>2
<1> QED BY <1>1, <1>5 DEF V!OngoingOf

LEMMA LiveRunsAlone == CatalogueSpec => V!Init /\ [][V!Next]_liveVars
<1>1. CatalogueInit => V!Init
    BY DEF CatalogueInit
<1>2. [CatalogueNext]_everything => [V!Next]_liveVars
    BY DEF CatalogueNext, everything, Over
<1> QED BY <1>1, <1>2, PTL DEF CatalogueSpec

\* Planned work is maintenance for every reader, and asking for a chain finds what
\* providers say of it (liveIncidents.js:85, 178).
LEMMA TroubleIsTold == CatalogueSpec => [](V!PlannedIsNoOutage /\ V!TroubleIsFound)
<1>1. V!Init => LiveInv
    BY FS_EmptySet DEF V!Init, LiveInv
<1> QED BY <1>1, LiveGoesOn, PlannedIsSaid, TroubleIsSeen, LiveRunsAlone, PTL

\* A lagging endpoint is no halt (chainHalt.js:21-24), planned work is maintenance for
\* every reader (liveIncidents.js:178), and asking for a chain finds what providers say
\* of it (liveIncidents.js:85).
THEOREM IncidentsAreAlwaysReal == CatalogueSpec => []IncidentsAreReal
<1> QED BY LagIsNoHalt, TroubleIsTold, PTL DEF IncidentsAreReal

-----------------------------------------------------------------------------
(* The dashboard's incidents.  The page is of what reached it, whatever    *)
(* the order: each incident of its dated events, each class of the words   *)
(* said of it, and what waits is of events that are yet to come.           *)

ItemFields == {"at", "first", "status", "ongoing", "chains", "opened", "transitions"}

AtOf == [e \in Event |-> e.at]
DatedOf(k, events) == {e \in events : e.key = k /\ e.at # None}

\* An incident is of some dated events.
ItemIs(it, dated) ==
    /\ DOMAIN it = ItemFields
    /\ dated = {} => it.at = None /\ it.first = None
    /\ dated # {} =>
           /\ \E n \in dated : (\A e \in dated : e.at <= n.at) /\ it.at = n.at /\ it.status = n.status /\ it.ongoing = n.ongoing
           /\ \E o \in dated : (\A e \in dated : o.at <= e.at) /\ it.first = o.at /\ it.opened = o.id
    /\ AreNewest(it.transitions, dated, AtOf, Transitions)

\* The newest confident word decides.
WordIs(enriched, k, words) ==
    IF words = {} THEN k \in DOMAIN enriched => enriched[k].confident = None /\ enriched[k].confidentAt = -1
    ELSE /\ k \in DOMAIN enriched
         /\ \E w \in words : (\A v \in words : v[2] <= w[2]) /\ enriched[k].confident = w[1] /\ enriched[k].confidentAt = w[2]

PageFields == {"byKey", "known", "pending", "enriched"}

PageIs(p, events, frames) ==
    /\ DOMAIN p = PageFields
    /\ events \subseteq Event /\ frames \subseteq Frame /\ IsFiniteSet(events)
    /\ p.known = events
    /\ DOMAIN p.byKey = {e.key : e \in events}
    /\ \A k \in DOMAIN p.byKey : ItemIs(p.byKey[k], DatedOf(k, events))
    /\ p.pending = {x \in frames : ~\E e \in events : e.id = x.of}
    /\ DOMAIN p.enriched \subseteq DOMAIN p.byKey
    /\ \A k \in DOMAIN p.byKey : WordIs(p.enriched, k, I!Said(k, events, frames))

LEMMA FeedFacts ==
    /\ None \notin Int /\ Transitions \in Nat \ {0} /\ Replay \in Nat /\ Backfill \in Nat /\ Event \cap Frame = {}
    /\ \A e \in Event : e.at \in Nat \cup {None} /\ (e.enrichment # None => e.enrichment.stamp \in Nat \cup {None})
    /\ \A e, f \in Event : e.id = f.id \/ (e.key = f.key /\ e.at = f.at /\ e.at # None) => e = f
    /\ \A x, y \in Frame : x.stamp \in Nat /\ (x.of = y.of => x = y)
    /\ \A e \in Event : \A x, y \in I!Said(e.key, Event, Frame) : x[2] = y[2] => x = y
BY CatalogueAssumption DEF I!FeedAssumption

\* One that is there already changes nothing.
LEMMA OneIsPlaced ==
    ASSUME NEW kept, NEW all, NEW dateOf, NEW limit \in Nat \ {0}, AreNewest(kept, all, dateOf, limit),
           NEW x, Differ(all \cup {x}, dateOf), NEW after, WithoutOldest(after, kept \cup {x}, dateOf, limit)
    PROVE  AreNewest(after, all \cup {x}, dateOf, limit)
<1>1. CASE x \notin all
    BY <1>1, NewIsPlaced
<1>2. CASE x \in kept
    <2>1. kept \cup {x} = kept /\ all \cup {x} = all /\ Cardinality(kept) <= limit
        BY <1>2 DEF AreNewest
    <2>2. after = kept
        BY <2>1 DEF WithoutOldest
    <2> QED BY <2>1, <2>2
<1>3. CASE x \in all /\ x \notin kept
    <2>1. Cardinality(kept) = limit /\ IsFiniteSet(kept) /\ all \cup {x} = all
        BY <1>3 DEF AreNewest
    <2>2. Cardinality(kept \cup {x}) = limit + 1
        BY <1>3, <2>1, FS_AddElement
    <2>3. PICK m \in kept \cup {x} : after = (kept \cup {x}) \ {m} /\ \A y \in kept \cup {x} : dateOf[m] <= dateOf[y]
        BY <2>2 DEF WithoutOldest
    <2>4. m = x
        <3>1. dateOf[m] <= dateOf[x] /\ m \in all /\ dateOf[m] \in Nat /\ dateOf[x] \in Nat
            BY <1>3, <2>3 DEF AreNewest, Differ
        <3> QED BY <1>3, <2>3, <3>1 DEF AreNewest
    <2>5. after = kept
        BY <1>3, <2>3, <2>4
    <2> QED BY <2>1, <2>5
<1> QED BY <1>1, <1>2, <1>3

LEMMA DatedDiffer ==
    ASSUME NEW k, NEW events \in SUBSET Event
    PROVE  Differ(DatedOf(k, events), AtOf) /\ DatedOf(k, events) \subseteq Event
BY FeedFacts DEF Differ, DatedOf, AtOf

LEMMA TransitionIsAdded ==
    ASSUME NEW k, NEW events \in SUBSET Event, NEW list, AreNewest(list, DatedOf(k, events), AtOf, Transitions),
           NEW e \in Event, e.key = k, e.at # None
    PROVE  AreNewest(I!AddTransition(list, e), DatedOf(k, events) \cup {e}, AtOf, Transitions)
<1> DEFINE all == list \cup {e}
           then == DatedOf(k, events) \cup {e}
<1>1. then = DatedOf(k, events \cup {e}) /\ events \cup {e} \in SUBSET Event
    BY DEF DatedOf
<1>2. Differ(then, AtOf) /\ then \subseteq Event
    BY <1>1, DatedDiffer
<1>3. all \subseteq then /\ IsFiniteSet(all)
    BY FS_AddElement DEF AreNewest
<1>4. Differ(all, AtOf)
    BY <1>2, <1>3 DEF Differ
<1>5. Cardinality(all) <= Transitions + 1
    <2>1. Cardinality(list) <= Transitions /\ Cardinality(list) \in Nat /\ IsFiniteSet(list) /\ Transitions \in Nat
        BY FeedFacts, FS_CardinalityType DEF AreNewest
    <2>2. Cardinality(all) = Cardinality(list) \/ Cardinality(all) = Cardinality(list) + 1
        BY <2>1, FS_AddElement
    <2> QED BY <2>1, <2>2
<1>6. WithoutOldest({x \in all : Cardinality({y \in all : AtOf[y] > AtOf[x]}) < Transitions}, all, AtOf, Transitions)
    <2> HIDE DEF all
    <2> QED BY <1>3, <1>4, <1>5, FeedFacts, OldestIsCountedOut
<1>7. I!AddTransition(list, e) = {x \in all : Cardinality({y \in all : AtOf[y] > AtOf[x]}) < Transitions}
    <2>1. \A x \in all : {y \in all : AtOf[y] > AtOf[x]} = {y \in all : y.at > x.at}
        BY <1>2, <1>3 DEF AtOf
    <2>2. \A x \in all : I!Cardinality({y \in all : y.at > x.at}) = Cardinality({y \in all : y.at > x.at})
        BY DEF I!Cardinality, Cardinality
    <2>3. I!AddTransition(list, e) = {x \in all : I!Cardinality({y \in all : y.at > x.at}) < Transitions}
        BY DEF I!AddTransition
    <2> HIDE DEF all
    <2> QED BY <2>1, <2>2, <2>3
<1> HIDE DEF then
<1>8. WithoutOldest(I!AddTransition(list, e), list \cup {e}, AtOf, Transitions)
    BY <1>6, <1>7
<1> QED BY <1>2, <1>8, FeedFacts, OneIsPlaced DEF then

LEMMA FirstIsTaken ==
    ASSUME NEW e \in Event, NEW events \in SUBSET Event, NEW k, k = e.key, DatedOf(k, events) = {}
    PROVE  ItemIs(I!Incident(e), DatedOf(k, events \cup {e}))
<1> DEFINE it == I!Incident(e)
<1>1. it = [at |-> e.at, first |-> e.at, status |-> e.status, ongoing |-> e.ongoing, chains |-> e.chains,
            opened |-> e.id, transitions |-> IF e.at = None THEN {} ELSE {e}]
    BY DEF I!Incident
<1>2. DOMAIN it = ItemFields
    BY <1>1 DEF ItemFields
<1> HIDE DEF it
<1>3. Transitions \in Nat \ {0} /\ IsFiniteSet({}) /\ Cardinality({}) = 0 /\ IsFiniteSet({e}) /\ Cardinality({e}) = 1
    BY FeedFacts, FS_EmptySet, FS_Singleton
<1>4. CASE e.at = None
    <2>1. DatedOf(k, events \cup {e}) = {}
        BY <1>4 DEF DatedOf
    <2>2. it.at = None /\ it.first = None /\ it.transitions = {}
        <3>1. it.at = e.at /\ it.first = e.at /\ it.transitions = IF e.at = None THEN {} ELSE {e}
            BY <1>1
        <3> QED BY <1>4, <3>1
    <2>3. AreNewest({}, {}, AtOf, Transitions)
        BY <1>3 DEF AreNewest
    <2>4. ItemIs(it, {})
        BY <1>2, <2>2, <2>3 DEF ItemIs
    <2> QED BY <2>1, <2>4 DEF it
<1>5. CASE e.at # None
    <2>1. DatedOf(k, events \cup {e}) = {e}
        BY <1>5 DEF DatedOf
    <2>2. it.at = e.at /\ it.first = e.at /\ it.status = e.status /\ it.ongoing = e.ongoing /\ it.opened = e.id /\ it.transitions = {e}
        <3>1. it.transitions = IF e.at = None THEN {} ELSE {e}
            BY <1>1
        <3> QED BY <1>1, <1>5, <3>1
    <2>3. AreNewest({e}, {e}, AtOf, Transitions)
        BY <1>3 DEF AreNewest
    <2>4. e.at \in Nat
        BY <1>5, FeedFacts
    <2>5. ItemIs(it, {e})
        BY <1>2, <2>2, <2>3, <2>4 DEF ItemIs
    <2> QED BY <2>1, <2>5 DEF it
<1> QED BY <1>4, <1>5

LEMMA NextIsTaken ==
    ASSUME NEW e \in Event, NEW events \in SUBSET Event, NEW k, k = e.key, NEW it, ItemIs(it, DatedOf(k, events))
    PROVE  ItemIs(I!Updated(it, e), DatedOf(k, events \cup {e}))
<1> DEFINE dated == DatedOf(k, events)
           then == DatedOf(k, events \cup {e})
           new == I!Updated(it, e)
<1>1. CASE e.at = None
    <2>1. new = it
        BY <1>1 DEF I!Updated
    <2>2. then = dated
        BY <1>1 DEF DatedOf
    <2> QED BY <2>1, <2>2
<1>2. CASE e.at # None
    <2>1. then = dated \cup {e} /\ e.at \in Nat
        BY <1>2, FeedFacts DEF DatedOf
    <2>2. \A x \in dated : x \in Event /\ x.at \in Nat
        BY FeedFacts DEF DatedOf
    <2>3. DOMAIN it = ItemFields
        BY DEF ItemIs
    <2> DEFINE opening == it.first = None \/ e.at < it.first
               mid == [it EXCEPT !.first = IF opening THEN e.at ELSE @,
                                 !.opened = IF opening THEN e.id ELSE @,
                                 !.transitions = I!AddTransition(@, e)]
    <2>4. DOMAIN mid = ItemFields /\ mid.first = (IF opening THEN e.at ELSE it.first)
          /\ mid.opened = (IF opening THEN e.id ELSE it.opened)
          /\ mid.transitions = I!AddTransition(it.transitions, e)
          /\ mid.at = it.at /\ mid.status = it.status /\ mid.ongoing = it.ongoing
        BY <2>3 DEF ItemFields
    <2>5. new = IF ~I!Newer(it, e) THEN mid
                ELSE [mid EXCEPT !.at = e.at, !.status = e.status, !.ongoing = e.ongoing,
                                 !.chains = IF e.chains = {} THEN @ ELSE e.chains]
        BY <1>2 DEF I!Updated
    <2> HIDE DEF mid, new
    <2>6. DOMAIN new = ItemFields /\ new.first = mid.first /\ new.opened = mid.opened /\ new.transitions = mid.transitions
          /\ new.at = (IF I!Newer(it, e) THEN e.at ELSE it.at)
          /\ new.status = (IF I!Newer(it, e) THEN e.status ELSE it.status)
          /\ new.ongoing = (IF I!Newer(it, e) THEN e.ongoing ELSE it.ongoing)
        <3>1. CASE I!Newer(it, e)
            BY <2>4, <2>5, <3>1 DEF ItemFields
        <3>2. CASE ~I!Newer(it, e)
            BY <2>4, <2>5, <3>2
        <3> QED BY <3>1, <3>2
    <2>7. AreNewest(new.transitions, then, AtOf, Transitions)
        <3>1. AreNewest(I!AddTransition(it.transitions, e), dated \cup {e}, AtOf, Transitions)
            BY <1>2, TransitionIsAdded DEF ItemIs
        <3> QED BY <2>1, <2>4, <2>6, <3>1
    <2>8. \E n \in then : (\A x \in then : x.at <= n.at) /\ new.at = n.at /\ new.status = n.status /\ new.ongoing = n.ongoing
        <3>1. CASE I!Newer(it, e)
            <4>1. \A x \in dated : x.at <= e.at
                <5>1. CASE dated = {}
                    BY <5>1
                <5>2. CASE dated # {}
                    <6>1. PICK n \in dated : (\A x \in dated : x.at <= n.at) /\ it.at = n.at
                        BY <5>2 DEF ItemIs
                    <6>2. n.at <= e.at
                        BY <2>2, <3>1, <6>1, FeedFacts DEF I!Newer
                    <6> QED BY <2>1, <2>2, <6>1, <6>2
                <5> QED BY <5>1, <5>2
            <4>2. e \in then /\ \A x \in then : x.at <= e.at
                BY <2>1, <4>1
            <4>3. new.at = e.at /\ new.status = e.status /\ new.ongoing = e.ongoing
                BY <2>6, <3>1
            <4> HIDE DEF then
            <4> QED BY <4>2, <4>3
        <3>2. CASE ~I!Newer(it, e)
            <4>1. dated # {}
                BY <3>2 DEF ItemIs, I!Newer
            <4>2. PICK n \in dated : (\A x \in dated : x.at <= n.at) /\ it.at = n.at /\ it.status = n.status /\ it.ongoing = n.ongoing
                BY <4>1 DEF ItemIs
            <4>3. e.at <= n.at
                BY <2>1, <2>2, <3>2, <4>2 DEF I!Newer
            <4> QED BY <2>1, <2>6, <3>2, <4>2, <4>3
        <3> QED BY <3>1, <3>2
    <2>9. \E o \in then : (\A x \in then : o.at <= x.at) /\ new.first = o.at /\ new.opened = o.id
        <3>1. CASE opening
            <4>1. \A x \in dated : e.at <= x.at
                <5>1. CASE dated = {}
                    BY <5>1
                <5>2. CASE dated # {}
                    <6>1. PICK o \in dated : (\A x \in dated : o.at <= x.at) /\ it.first = o.at
                        BY <5>2 DEF ItemIs
                    <6>2. e.at <= o.at
                        BY <2>1, <2>2, <3>1, <6>1, FeedFacts
                    <6> QED BY <2>1, <2>2, <6>1, <6>2
                <5> QED BY <5>1, <5>2
            <4>2. e \in then /\ \A x \in then : e.at <= x.at
                <5>1. e.at <= e.at
                    BY <2>1
                <5> HIDE DEF then, dated
                <5> QED BY <2>1, <4>1, <5>1
            <4>3. new.first = e.at /\ new.opened = e.id
                <5>1. mid.first = e.at /\ mid.opened = e.id
                    BY <2>4, <3>1
                <5> QED BY <2>6, <5>1
            <4> HIDE DEF then
            <4> QED BY <4>2, <4>3
        <3>2. CASE ~opening
            <4>1. dated # {}
                BY <3>2 DEF ItemIs
            <4>2. PICK o \in dated : (\A x \in dated : o.at <= x.at) /\ it.first = o.at /\ it.opened = o.id
                BY <4>1 DEF ItemIs
            <4>3. o.at <= e.at
                BY <2>1, <2>2, <3>2, <4>2
            <4> QED BY <2>1, <2>4, <2>6, <3>2, <4>2, <4>3
        <3> QED BY <3>1, <3>2
    <2>10. then # {}
        BY <2>1
    <2>11. ItemIs(new, then)
        <3> HIDE DEF then
        <3> QED BY <2>6, <2>7, <2>8, <2>9, <2>10 DEF ItemIs
    <2> QED BY <2>11 DEF new
<1> QED BY <1>1, <1>2

\* What one word adds to those said of an incident.
WordOf(enr, at) == IF ~enr.lowConfidence THEN {<<enr.class, I!Stamp(enr, at)>>} ELSE {}
Timed(words) == \A w \in words : w[2] \in Nat

TakesWord(new, enriched, k, words, enr, at) ==
    /\ DOMAIN new = DOMAIN enriched \cup {k}
    /\ \A x \in DOMAIN enriched : x # k => new[x] = enriched[x]
    /\ WordIs(new, k, words \cup WordOf(enr, at))

LEMMA WordIsTaken ==
    ASSUME NEW enriched, NEW k, NEW words, WordIs(enriched, k, words), Timed(words),
           NEW enr, NEW at, I!Stamp(enr, at) \in Nat, NEW new, new = I!Enriched(enriched, k, enr, at)
    PROVE  TakesWord(new, enriched, k, words, enr, at)
<1> DEFINE stamp == I!Stamp(enr, at)
           old == IF k \in DOMAIN enriched THEN enriched[k] ELSE [data |-> None, at |-> -1, confident |-> None, confidentAt |-> -1]
           sure == ~enr.lowConfidence /\ old.confidentAt <= stamp
           value == [data |-> IF old.at > stamp THEN old.data ELSE enr.class,
                     at |-> IF old.at > stamp THEN old.at ELSE stamp,
                     confident |-> IF sure THEN enr.class ELSE old.confident,
                     confidentAt |-> IF sure THEN stamp ELSE old.confidentAt]
<1>1. new = [x \in DOMAIN enriched \cup {k} |-> IF x = k THEN value ELSE enriched[x]]
    BY DEF I!Enriched, I!With
<1>2. DOMAIN new = DOMAIN enriched \cup {k} /\ (\A x \in DOMAIN enriched : x # k => new[x] = enriched[x]) /\ new[k] = value
    <2> HIDE DEF value
    <2> QED BY <1>1
<1>3. new[k].confident = (IF sure THEN enr.class ELSE old.confident) /\ new[k].confidentAt = (IF sure THEN stamp ELSE old.confidentAt)
    <2> HIDE DEF sure, old, stamp
    <2> QED BY <1>2
<1>4. words = {} => old.confident = None /\ old.confidentAt = -1
    BY DEF WordIs
<1>5. words # {} => \E w \in words : (\A v \in words : v[2] <= w[2]) /\ old.confident = w[1] /\ old.confidentAt = w[2]
    BY DEF WordIs
<1> HIDE DEF old, stamp
<1>6. WordIs(new, k, words \cup WordOf(enr, at))
    <2>1. CASE sure
        <3>1. WordOf(enr, at) = {<<enr.class, stamp>>}
            BY <2>1 DEF WordOf, stamp
        <3>2. \A v \in words : v[2] <= stamp
            <4>1. CASE words # {}
                BY <1>5, <2>1, <4>1 DEF stamp, Timed
            <4> QED BY <4>1
        <3> DEFINE w == <<enr.class, stamp>>
        <3>3. w[1] = enr.class /\ w[2] = stamp /\ stamp <= stamp
            BY DEF stamp
        <3>4. new[k].confident = w[1] /\ new[k].confidentAt = w[2]
            BY <1>3, <2>1, <3>3
        <3> HIDE DEF w
        <3>5. WordOf(enr, at) = {w}
            BY <3>1 DEF w
        <3>6. \A v \in words \cup {w} : v[2] <= w[2]
            BY <3>2, <3>3
        <3> QED BY <1>2, <3>4, <3>5, <3>6 DEF WordIs
    <2>2. CASE ~sure
        <3>1. words = {} => WordOf(enr, at) = {}
            BY <1>4, <2>2 DEF WordOf, stamp
        <3>2. CASE words = {}
            BY <1>2, <1>3, <1>4, <2>2, <3>1, <3>2 DEF WordIs
        <3>3. CASE words # {}
            <4>1. PICK w \in words : (\A v \in words : v[2] <= w[2]) /\ old.confident = w[1] /\ old.confidentAt = w[2]
                BY <1>5, <3>3
            <4>2. \A v \in WordOf(enr, at) : v[2] <= w[2]
                BY <2>2, <4>1 DEF WordOf, stamp, Timed
            <4> QED BY <1>2, <1>3, <2>2, <4>1, <4>2 DEF WordIs
        <3> QED BY <3>2, <3>3
    <2> QED BY <2>1, <2>2
<1> QED BY <1>2, <1>6 DEF TakesWord

LEMMA StampIsNumber ==
    /\ \A x \in Frame, at \in Nat \cup {None} : I!Stamp(x, at) = x.stamp /\ x.stamp \in Nat
    /\ \A x : x.stamp \in Nat => \A at : I!Stamp(x, at) = x.stamp
    /\ \A e \in Event : e.enrichment # None => I!Stamp(e.enrichment, e.at) \in Nat
BY FeedFacts DEF I!Stamp

LEMMA SaidAreNumbers ==
    ASSUME NEW k, NEW events \in SUBSET Event, NEW frames \in SUBSET Frame
    PROVE  Timed(I!Said(k, events, frames))
BY StampIsNumber DEF I!Said, Timed

\* Those in a frame that waited for the event.
SureOf(some) == {<<enr.class, enr.stamp>> : enr \in {x \in some : ~x.lowConfidence}}
OwnOf(e) == IF e.enrichment # None THEN WordOf(e.enrichment, e.at) ELSE {}

EarlyFor(e, events, frames) == {x \in frames : (~\E f \in events : f.id = x.of) /\ x.of = e.id}

LEMMA SaidGrows ==
    ASSUME NEW events \in SUBSET Event, NEW frames \in SUBSET Frame, NEW e \in Event, NEW early,
           early = EarlyFor(e, events, frames)
    PROVE  /\ I!Said(e.key, events \cup {e}, frames) = I!Said(e.key, events, frames) \cup SureOf(early) \cup OwnOf(e)
           /\ \A k : k # e.key => I!Said(k, events \cup {e}, frames) = I!Said(k, events, frames)
<1> DEFINE Told(k, some) == {x \in frames : ~x.lowConfidence /\ \E f \in some : f.id = x.of /\ f.key = k}
           ByFrame(k, some) == {<<enr.class, enr.stamp>> : enr \in Told(k, some)}
           Telling(k, some) == {x \in some : x.key = k /\ x.enrichment # None /\ ~x.enrichment.lowConfidence}
           ByEvent(k, some) == {<<f.enrichment.class, I!Stamp(f.enrichment, f.at)>> : f \in Telling(k, some)}
           more == events \cup {e}
<1>1. \A k, some : I!Said(k, some, frames) = ByFrame(k, some) \cup ByEvent(k, some)
    BY DEF I!Said
<1>2. \A k : k # e.key => Told(k, more) = Told(k, events) /\ Telling(k, more) = Telling(k, events)
    OBVIOUS
<1>3. Told(e.key, more) = Told(e.key, events) \cup {x \in early : ~x.lowConfidence}
    BY FeedFacts DEF EarlyFor
<1>4. ByFrame(e.key, more) = ByFrame(e.key, events) \cup SureOf(early)
    <2> HIDE DEF Told, more
    <2> QED BY <1>3 DEF SureOf
<1>5. Telling(e.key, more) = Telling(e.key, events) \cup {x \in {e} : x.enrichment # None /\ ~x.enrichment.lowConfidence}
    OBVIOUS
<1>6. ByEvent(e.key, more) = ByEvent(e.key, events) \cup OwnOf(e)
    <2> HIDE DEF Telling, more
    <2>1. CASE e.enrichment # None /\ ~e.enrichment.lowConfidence
        <3>1. Telling(e.key, more) = Telling(e.key, events) \cup {e}
            BY <1>5, <2>1
        <3>2. OwnOf(e) = {<<e.enrichment.class, I!Stamp(e.enrichment, e.at)>>}
            BY <2>1 DEF OwnOf, WordOf
        <3> QED BY <3>1, <3>2
    <2>2. CASE ~(e.enrichment # None /\ ~e.enrichment.lowConfidence)
        <3>1. Telling(e.key, more) = Telling(e.key, events)
            BY <1>5, <2>2
        <3>2. OwnOf(e) = {}
            BY <2>2 DEF OwnOf, WordOf
        <3>3. ByEvent(e.key, more) = ByEvent(e.key, events)
            BY <3>1
        <3> HIDE DEF ByEvent
        <3> QED BY <3>2, <3>3
    <2> QED BY <2>1, <2>2
<1>7. \A k : k # e.key => ByFrame(k, more) = ByFrame(k, events) /\ ByEvent(k, more) = ByEvent(k, events)
    <2> HIDE DEF Told, Telling, more
    <2> QED BY <1>2
<1> HIDE DEF ByFrame, ByEvent, more
<1>8. \A k : /\ I!Said(k, more, frames) = ByFrame(k, more) \cup ByEvent(k, more)
             /\ I!Said(k, events, frames) = ByFrame(k, events) \cup ByEvent(k, events)
    BY <1>1
<1>9. I!Said(e.key, more, frames) = I!Said(e.key, events, frames) \cup SureOf(early) \cup OwnOf(e)
    BY <1>4, <1>6, <1>8
<1>10. \A k : k # e.key => I!Said(k, more, frames) = I!Said(k, events, frames)
    BY <1>7, <1>8
<1> QED BY <1>9, <1>10 DEF more

LEMMA EventIsTaken ==
    ASSUME NEW p, NEW events, NEW frames, PageIs(p, events, frames), NEW e \in Event
    PROVE  PageIs(I!AddIncident(p, e), events \cup {e}, frames)
<1> DEFINE k == e.key
           early == {enr \in p.pending : enr.of = e.id}
           first == IF early = {} THEN p.enriched ELSE I!Enriched(p.enriched, k, CHOOSE enr \in early : TRUE, e.at)
           enriched == IF e.enrichment = None THEN first ELSE I!Enriched(first, k, e.enrichment, e.at)
           new == IF k \in DOMAIN p.byKey THEN I!Updated(p.byKey[k], e) ELSE I!Incident(e)
           byKey == I!With(p.byKey, k, new)
           q == I!AddIncident(p, e)
           more == events \cup {e}
<1>1. DOMAIN q = PageFields /\ q.known = more /\ q.pending = p.pending \ early /\ q.enriched = enriched /\ q.byKey = byKey
    <2>1. q = [known |-> p.known \cup {e}, pending |-> p.pending \ early, enriched |-> enriched, byKey |-> byKey]
        BY DEF I!AddIncident
    <2> HIDE DEF q, enriched, byKey, early
    <2> QED BY <2>1 DEF PageIs, PageFields
<1>2. events \in SUBSET Event /\ more \in SUBSET Event /\ frames \in SUBSET Frame /\ IsFiniteSet(more)
    <2>1. IsFiniteSet(events) /\ events \subseteq Event /\ frames \subseteq Frame
        BY DEF PageIs
    <2>2. IsFiniteSet(more)
        BY <2>1, FS_AddElement
    <2> QED BY <2>1, <2>2
<1>3. DOMAIN byKey = DOMAIN p.byKey \cup {k} /\ byKey[k] = new /\ \A j \in DOMAIN p.byKey : j # k => byKey[j] = p.byKey[j]
    <2> HIDE DEF new, k
    <2> QED BY DEF I!With
<1>4. DOMAIN byKey = {f.key : f \in more}
    <2>1. DOMAIN p.byKey = {f.key : f \in events}
        BY DEF PageIs
    <2> HIDE DEF byKey
    <2> QED BY <1>3, <2>1
<1>5. ASSUME NEW j \in DOMAIN byKey PROVE ItemIs(byKey[j], DatedOf(j, more))
    <2>1. CASE j # k
        <3>1. DatedOf(j, more) = DatedOf(j, events)
            BY <2>1 DEF DatedOf
        <3>2. j \in DOMAIN p.byKey /\ byKey[j] = p.byKey[j]
            BY <1>3, <2>1
        <3> QED BY <3>1, <3>2 DEF PageIs
    <2>2. CASE j = k /\ k \in DOMAIN p.byKey
        <3>1. ItemIs(p.byKey[k], DatedOf(k, events))
            BY <2>2 DEF PageIs
        <3>2. ItemIs(I!Updated(p.byKey[k], e), DatedOf(k, more))
            BY <1>2, <3>1, NextIsTaken
        <3> QED BY <1>3, <2>2, <3>2
    <2>3. CASE j = k /\ k \notin DOMAIN p.byKey
        <3>1. DatedOf(k, events) = {}
            BY <2>3 DEF PageIs, DatedOf
        <3>2. ItemIs(I!Incident(e), DatedOf(k, more))
            BY <1>2, <3>1, FirstIsTaken
        <3> QED BY <1>3, <2>3, <3>2
    <2> QED BY <2>1, <2>2, <2>3
<1>6. q.pending = {x \in frames : ~\E f \in more : f.id = x.of}
    <2>1. q.pending = p.pending \ early /\ p.pending = {x \in frames : ~\E f \in events : f.id = x.of}
        BY <1>1 DEF PageIs
    <2>2. \A x : x \in p.pending \ early <=> x \in p.pending /\ x.of # e.id
        OBVIOUS
    <2> HIDE DEF q, early
    <2> QED BY <2>1, <2>2
<1>7. early = EarlyFor(e, events, frames)
    BY DEF PageIs, EarlyFor
<1> HIDE DEF early
<1>a. early \subseteq Frame /\ \A x \in early : x.of = e.id
    BY <1>2, <1>7 DEF EarlyFor
<1>8. /\ I!Said(k, more, frames) = I!Said(k, events, frames) \cup SureOf(early) \cup OwnOf(e)
      /\ \A j : j # k => I!Said(j, more, frames) = I!Said(j, events, frames)
    BY <1>2, <1>7, SaidGrows
<1>9. WordIs(p.enriched, k, I!Said(k, events, frames))
    <2>1. CASE k \in DOMAIN p.byKey
        BY <2>1 DEF PageIs
    <2>2. CASE k \notin DOMAIN p.byKey
        <3>1. k \notin DOMAIN p.enriched /\ \A f \in events : f.key # k
            BY <2>2 DEF PageIs
        <3>2. I!Said(k, events, frames) = {}
            BY <3>1 DEF I!Said
        <3> QED BY <3>1, <3>2 DEF WordIs
    <2> QED BY <2>1, <2>2
<1> DEFINE said == I!Said(k, events, frames)
<1>10. Timed(said)
    BY <1>2, SaidAreNumbers
<1>11. /\ WordIs(first, k, said \cup SureOf(early)) /\ DOMAIN first \subseteq DOMAIN p.enriched \cup {k}
       /\ DOMAIN p.enriched \subseteq DOMAIN first
       /\ \A j \in DOMAIN p.enriched : j # k => first[j] = p.enriched[j]
    <2>1. CASE early = {}
        <3>1. SureOf(early) = {} /\ first = p.enriched
            BY <2>1 DEF SureOf
        <3>2. said \cup SureOf(early) = said /\ WordIs(p.enriched, k, said)
            BY <1>9, <3>1
        <3> HIDE DEF said, first
        <3> QED BY <3>1, <3>2
    <2>2. CASE early # {}
        <3> DEFINE enr == CHOOSE x \in early : TRUE
        <3>1. enr \in early
            BY <2>2
        <3>2. enr \in Frame /\ early = {enr}
            BY <1>a, <3>1, FeedFacts
        <3>3. I!Stamp(enr, e.at) = enr.stamp /\ enr.stamp \in Nat
            BY <3>2, FeedFacts, StampIsNumber
        <3>4. first = I!Enriched(p.enriched, k, enr, e.at)
            BY <2>2
        <3> HIDE DEF enr, first, said, k
        <3>5. SureOf(early) = WordOf(enr, e.at)
            <4>1. CASE enr.lowConfidence
                <5>1. {x \in early : ~x.lowConfidence} = {}
                    BY <3>2, <4>1
                <5>2. SureOf(early) = {} /\ WordOf(enr, e.at) = {}
                    BY <4>1, <5>1 DEF SureOf, WordOf
                <5> QED BY <5>2
            <4>2. CASE ~enr.lowConfidence
                <5>1. {x \in early : ~x.lowConfidence} = {enr}
                    BY <3>2, <4>2
                <5>2. SureOf(early) = {<<x.class, x.stamp>> : x \in {enr}}
                    BY <5>1 DEF SureOf
                <5>3. WordOf(enr, e.at) = {<<enr.class, enr.stamp>>}
                    BY <3>3, <4>2 DEF WordOf
                <5> QED BY <5>2, <5>3
            <4> QED BY <4>1, <4>2
        <3>6. /\ DOMAIN first = DOMAIN p.enriched \cup {k}
              /\ \A x \in DOMAIN p.enriched : x # k => first[x] = p.enriched[x]
              /\ WordIs(first, k, said \cup WordOf(enr, e.at))
            <4>1. WordIs(p.enriched, k, said)
                BY <1>9 DEF said
            <4>2. Timed(said) /\ I!Stamp(enr, e.at) \in Nat
                BY <1>10, <3>3
            <4>3. TakesWord(first, p.enriched, k, said, enr, e.at)
                BY <3>4, <4>1, <4>2, WordIsTaken
            <4> QED BY <4>3 DEF TakesWord
        <3> QED BY <3>5, <3>6
    <2> QED BY <2>1, <2>2
<1>12. Timed(said \cup SureOf(early))
    BY <1>a, <1>10, FeedFacts DEF SureOf, Timed
<1>13. /\ WordIs(enriched, k, said \cup SureOf(early) \cup OwnOf(e)) /\ DOMAIN enriched \subseteq DOMAIN p.enriched \cup {k}
       /\ DOMAIN p.enriched \subseteq DOMAIN enriched
       /\ \A j \in DOMAIN p.enriched : j # k => enriched[j] = p.enriched[j]
    <2> HIDE DEF first, said, k
    <2>1. CASE e.enrichment = None
        <3>1. OwnOf(e) = {} /\ enriched = first
            BY <2>1 DEF OwnOf
        <3>2. said \cup SureOf(early) \cup OwnOf(e) = said \cup SureOf(early)
            BY <3>1
        <3> HIDE DEF enriched
        <3>3. WordIs(enriched, k, said \cup SureOf(early) \cup OwnOf(e))
            BY <1>11, <3>1, <3>2
        <3> QED BY <1>11, <3>1, <3>3
    <2>2. CASE e.enrichment # None
        <3>1. I!Stamp(e.enrichment, e.at) \in Nat
            BY <2>2, StampIsNumber
        <3>2. enriched = I!Enriched(first, k, e.enrichment, e.at) /\ OwnOf(e) = WordOf(e.enrichment, e.at)
            BY <2>2 DEF OwnOf
        <3> HIDE DEF enriched
        <3>3. /\ DOMAIN enriched = DOMAIN first \cup {k}
              /\ \A x \in DOMAIN first : x # k => enriched[x] = first[x]
              /\ WordIs(enriched, k, (said \cup SureOf(early)) \cup WordOf(e.enrichment, e.at))
            <4> DEFINE words == said \cup SureOf(early)
            <4>1. WordIs(first, k, words) /\ Timed(words)
                BY <1>11, <1>12
            <4> HIDE DEF words
            <4>2. TakesWord(enriched, first, k, words, e.enrichment, e.at)
                BY <3>1, <3>2, <4>1, WordIsTaken
            <4> QED BY <4>2 DEF TakesWord, words
        <3> QED BY <1>11, <3>2, <3>3
    <2> QED BY <2>1, <2>2
<1> HIDE DEF enriched, byKey, first
<1>14. DOMAIN enriched \subseteq DOMAIN byKey
    BY <1>3, <1>13 DEF PageIs
<1>15. ASSUME NEW j \in DOMAIN byKey PROVE WordIs(enriched, j, I!Said(j, more, frames))
    <2>1. CASE j = k
        BY <1>8, <1>13, <2>1
    <2>2. CASE j # k
        <3>1. WordIs(p.enriched, j, I!Said(j, events, frames))
            BY <1>3, <2>2 DEF PageIs
        <3>2. (j \in DOMAIN enriched <=> j \in DOMAIN p.enriched) /\ (j \in DOMAIN p.enriched => enriched[j] = p.enriched[j])
            BY <1>13, <2>2
        <3>3. I!Said(j, more, frames) = I!Said(j, events, frames)
            BY <1>8, <2>2
        <3> QED BY <3>1, <3>2, <3>3 DEF WordIs
    <2> QED BY <2>1, <2>2
<1> HIDE DEF q, more
<1>16. PageIs(q, more, frames)
    BY <1>1, <1>2, <1>4, <1>5, <1>6, <1>14, <1>15 DEF PageIs
<1> QED BY <1>16 DEF q, more

\* What a batch is taken as, one item after the other.
GoesThrough(f, p, items, n) ==
    /\ DOMAIN f = 0..n /\ f[0] = p /\ I!Added(p, items) = f[n]
    /\ \A i \in 1..n : f[i] = IF I!IsEvent(items[i]) THEN I!AddIncident(f[i - 1], items[i]) ELSE f[i - 1]

LEMMA AddedIs ==
    ASSUME NEW p, NEW n \in Nat, NEW items, Len(items) = n
    PROVE  \E f : GoesThrough(f, p, items, n)
<1> DEFINE Step(q, i) == IF I!IsEvent(items[i]) THEN I!AddIncident(q, items[i]) ELSE q
           Is(f, k) == f = [i \in 0..k |-> IF i = 0 THEN p ELSE Step(f[i - 1], i)]
           bad == {k \in 0..n : ~\E f : Is(f, k)}
<1> HIDE DEF Step
<1>1. bad = {}
    <2> SUFFICES ASSUME bad # {} PROVE FALSE
        OBVIOUS
    <2>1. bad \subseteq Int /\ IsFiniteSet(bad)
        <3>1. IsFiniteSet(0..n) /\ bad \subseteq 0..n /\ bad \subseteq Int
            BY FS_Interval
        <3> HIDE DEF bad
        <3> QED BY <3>1, FS_Subset
    <2>2. PICK k \in bad : \A j \in bad : k <= j
        <3> HIDE DEF bad
        <3> QED BY <2>1, FiniteHasLeast
    <2>3. k # 0
        <3>1. Is([i \in 0..0 |-> p], 0)
            OBVIOUS
        <3> QED BY <2>2, <3>1
    <2>4. k - 1 \in 0..n /\ k - 1 \notin bad
        BY <2>2, <2>3
    <2>5. PICK f : Is(f, k - 1)
        BY <2>4
    <2> DEFINE g == [i \in 0..k |-> IF i = k THEN Step(f[k - 1], k) ELSE f[i]]
    <2>6. ASSUME NEW i \in 0..k PROVE g[i] = IF i = 0 THEN p ELSE Step(g[i - 1], i)
        <3>1. CASE i = k
            BY <2>2, <2>3, <3>1
        <3>2. CASE i # k
            <4>1. i \in 0..(k - 1) /\ (i # 0 => i - 1 \in 0..k /\ i - 1 # k)
                BY <2>2, <2>3, <3>2
            <4>2. f[i] = IF i = 0 THEN p ELSE Step(f[i - 1], i)
                BY <2>5, <4>1
            <4> QED BY <3>2, <4>1, <4>2
        <3> QED BY <3>1, <3>2
    <2>7. Is(g, k)
        BY <2>6
    <2> QED BY <2>2, <2>7
<1>2. \E f : Is(f, n)
    BY <1>1
<1> DEFINE after == CHOOSE f : Is(f, n)
<1>3. Is(after, n)
    BY <1>2
<1>4. I!Added(p, items) = after[n]
    BY DEF I!Added, Step
<1> HIDE DEF after
<1>5. DOMAIN after = 0..n /\ after[0] = p /\ \A i \in 1..n : after[i] = Step(after[i - 1], i)
    BY <1>3
<1> QED BY <1>4, <1>5 DEF GoesThrough, Step

LEMMA BatchIsAdded ==
    ASSUME NEW p, NEW events, NEW frames, PageIs(p, events, frames), NEW items \in Seq(Event \cup Frame)
    PROVE  /\ PageIs(I!Added(p, items), events \cup (I!ToSet(items) \cap Event), frames)
           /\ (\A x \in I!ToSet(items) : ~I!IsEvent(x)) => I!Added(p, items) = p
<1> DEFINE n == Len(items)
           told(i) == {items[j] : j \in 1..i} \cap Event
<1>1. n \in Nat /\ \A i \in 1..n : items[i] \in Event \cup Frame
    OBVIOUS
<1>2. PICK f : GoesThrough(f, p, items, n)
    <2>1. n \in Nat /\ Len(items) = n
        OBVIOUS
    <2> HIDE DEF n
    <2> QED BY <2>1, AddedIs
<1> HIDE DEF n, told
<1> DEFINE Good(i) == PageIs(f[i], events \cup told(i), frames) /\ (told(i) = {} => f[i] = p)
           bad == {i \in 0..n : ~Good(i)}
<1>3. bad = {}
    <2> SUFFICES ASSUME bad # {} PROVE FALSE
        OBVIOUS
    <2>1. bad \subseteq Int /\ IsFiniteSet(bad)
        <3>1. IsFiniteSet(0..n) /\ bad \subseteq 0..n /\ bad \subseteq Int
            BY <1>1, FS_Interval
        <3> HIDE DEF bad
        <3> QED BY <3>1, FS_Subset
    <2>2. PICK i \in bad : \A j \in bad : i <= j
        <3> HIDE DEF bad
        <3> QED BY <2>1, FiniteHasLeast
    <2>3. i # 0
        <3>1. told(0) = {}
            BY DEF told
        <3>2. events \cup told(0) = events
            BY <3>1
        <3>3. f[0] = p
            BY <1>2 DEF GoesThrough
        <3>4. Good(0)
            BY <3>2, <3>3
        <3> QED BY <2>2, <3>4
    <2>4. i - 1 \in 0..n /\ i \in 1..n /\ Good(i - 1)
        <3>1. i \in Nat /\ i <= n /\ i - 1 \in 0..n /\ i \in 1..n /\ ~(i <= i - 1)
            BY <1>1, <2>2, <2>3
        <3>2. i - 1 \notin bad
            <4> HIDE DEF bad
            <4> QED BY <2>2, <3>1
        <3> QED BY <3>1, <3>2
    <2>5. told(i) = told(i - 1) \cup ({items[i]} \cap Event)
        <3>1. 1..i = (1..(i - 1)) \cup {i}
            BY <1>1, <2>4
        <3> QED BY <3>1 DEF told
    <2>6. f[i] = IF I!IsEvent(items[i]) THEN I!AddIncident(f[i - 1], items[i]) ELSE f[i - 1]
        BY <1>2, <2>4 DEF GoesThrough
    <2>7. CASE items[i] \in Event
        <3>1. PageIs(I!AddIncident(f[i - 1], items[i]), (events \cup told(i - 1)) \cup {items[i]}, frames)
            BY <2>4, <2>7, EventIsTaken
        <3>2. (events \cup told(i - 1)) \cup {items[i]} = events \cup told(i) /\ told(i) # {}
            BY <2>5, <2>7
        <3>3. f[i] = I!AddIncident(f[i - 1], items[i])
            BY <2>6, <2>7 DEF I!IsEvent
        <3>4. Good(i)
            BY <3>1, <3>2, <3>3
        <3> QED BY <2>2, <3>4
    <2>8. CASE items[i] \notin Event
        <3>1. told(i) = told(i - 1) /\ f[i] = f[i - 1]
            BY <2>5, <2>6, <2>8 DEF I!IsEvent
        <3>2. Good(i)
            BY <2>4, <3>1
        <3> QED BY <2>2, <3>2
    <2> QED BY <2>7, <2>8
<1>4. told(n) = I!ToSet(items) \cap Event
    BY <1>1 DEF I!ToSet, told, n
<1>5. Good(n)
    <2>1. n \in 0..n
        BY <1>1
    <2> QED BY <1>3, <2>1
<1>6. I!Added(p, items) = f[n]
    BY <1>2 DEF GoesThrough
<1>7. (\A x \in I!ToSet(items) : ~I!IsEvent(x)) => told(n) = {}
    BY <1>4 DEF I!IsEvent
<1> QED BY <1>4, <1>5, <1>6, <1>7

\* A frame of an event that is yet to come waits.
LEMMA EarlyFrameWaits ==
    ASSUME NEW p, NEW events, NEW frames, PageIs(p, events, frames), NEW enr \in Frame, \A e \in events : e.id # enr.of
    PROVE  PageIs([p EXCEPT !.pending = {x \in @ : x.of # enr.of} \cup {enr}], events, frames \cup {enr})
<1> DEFINE waiting == {x \in p.pending : x.of # enr.of} \cup {enr}
           q == [p EXCEPT !.pending = waiting]
<1>1. DOMAIN q = PageFields /\ q.known = p.known /\ q.byKey = p.byKey /\ q.enriched = p.enriched /\ q.pending = waiting
    <2> HIDE DEF waiting
    <2> QED BY DEF PageIs, PageFields
<1>2. waiting = {x \in frames \cup {enr} : ~\E e \in events : e.id = x.of}
    <2>1. frames \subseteq Frame /\ p.pending = {x \in frames : ~\E e \in events : e.id = x.of}
        BY DEF PageIs
    <2> QED BY <2>1, FeedFacts
<1>3. \A k : I!Said(k, events, frames \cup {enr}) = I!Said(k, events, frames)
    <2>1. \A k : {x \in frames \cup {enr} : ~x.lowConfidence /\ \E e \in events : e.id = x.of /\ e.key = k}
                 = {x \in frames : ~x.lowConfidence /\ \E e \in events : e.id = x.of /\ e.key = k}
        OBVIOUS
    <2> QED BY <2>1 DEF I!Said
<1> HIDE DEF q, waiting
<1>4. PageIs(q, events, frames \cup {enr})
    BY <1>1, <1>2, <1>3 DEF PageIs
<1> QED BY <1>4 DEF q, waiting

LEMMA FrameIsTaken ==
    ASSUME NEW p, NEW events, NEW frames, PageIs(p, events, frames), NEW enr \in Frame,
           NEW e \in events, e.id = enr.of, NEW key, key = e.key
    PROVE  PageIs([p EXCEPT !.enriched = I!Enriched(p.enriched, key, enr, Time)], events, frames \cup {enr})
<1> DEFINE enriched == I!Enriched(p.enriched, key, enr, Time)
           q == [p EXCEPT !.enriched = enriched]
           more == frames \cup {enr}
<1>1. DOMAIN q = PageFields /\ q.known = p.known /\ q.byKey = p.byKey /\ q.enriched = enriched /\ q.pending = p.pending
    <2> HIDE DEF enriched
    <2> QED BY DEF PageIs, PageFields
<1>2. events \in SUBSET Event /\ frames \in SUBSET Frame /\ more \in SUBSET Frame /\ e \in Event
    BY DEF PageIs
<1>3. p.pending = {x \in more : ~\E f \in events : f.id = x.of}
    BY DEF PageIs
<1>4. \A f \in events : f.id = enr.of => f.key = key
    BY <1>2, FeedFacts
<1>5. I!Stamp(enr, Time) = enr.stamp /\ enr.stamp \in Nat
    BY FeedFacts, StampIsNumber
<1> DEFINE Told(k, some) == {x \in some : ~x.lowConfidence /\ \E f \in events : f.id = x.of /\ f.key = k}
           ByFrame(k, some) == {<<x.class, x.stamp>> : x \in Told(k, some)}
           Rest(k) == {<<f.enrichment.class, I!Stamp(f.enrichment, f.at)>> :
                           f \in {x \in events : x.key = k /\ x.enrichment # None /\ ~x.enrichment.lowConfidence}}
<1>6. \A k, some : I!Said(k, events, some) = ByFrame(k, some) \cup Rest(k)
    BY DEF I!Said
<1>7. \A k : k # key => Told(k, more) = Told(k, frames)
    BY <1>4
<1>8. Told(key, more) = Told(key, frames) \cup {x \in {enr} : ~x.lowConfidence}
    OBVIOUS
<1> HIDE DEF Told, Rest, more
<1>9. ByFrame(key, more) = ByFrame(key, frames) \cup WordOf(enr, Time)
    <2>1. CASE enr.lowConfidence
        <3>1. {x \in {enr} : ~x.lowConfidence} = {} /\ WordOf(enr, Time) = {}
            BY <2>1 DEF WordOf
        <3>2. Told(key, more) = Told(key, frames)
            BY <1>8, <3>1
        <3> QED BY <3>1, <3>2
    <2>2. CASE ~enr.lowConfidence
        <3>1. Told(key, more) = Told(key, frames) \cup {enr}
            BY <1>8, <2>2
        <3>2. WordOf(enr, Time) = {<<enr.class, enr.stamp>>}
            BY <1>5, <2>2 DEF WordOf
        <3> QED BY <3>1, <3>2
    <2> QED BY <2>1, <2>2
<1>10. \A k : k # key => ByFrame(k, more) = ByFrame(k, frames)
    BY <1>7
<1> HIDE DEF ByFrame
<1>11. \A k : /\ I!Said(k, events, more) = ByFrame(k, more) \cup Rest(k)
              /\ I!Said(k, events, frames) = ByFrame(k, frames) \cup Rest(k)
    BY <1>6
<1>12. I!Said(key, events, more) = I!Said(key, events, frames) \cup WordOf(enr, Time)
    BY <1>9, <1>11
<1>13. \A k : k # key => I!Said(k, events, more) = I!Said(k, events, frames)
    BY <1>10, <1>11
<1>14. key \in DOMAIN p.byKey /\ DOMAIN p.enriched \subseteq DOMAIN p.byKey
    BY DEF PageIs
<1>15. TakesWord(enriched, p.enriched, key, I!Said(key, events, frames), enr, Time)
    <2>1. WordIs(p.enriched, key, I!Said(key, events, frames))
        BY <1>14 DEF PageIs
    <2>2. Timed(I!Said(key, events, frames))
        BY <1>2, SaidAreNumbers
    <2>3. I!Stamp(enr, Time) \in Nat
        BY <1>5
    <2> QED BY <2>1, <2>2, <2>3, WordIsTaken
<1> HIDE DEF enriched
<1>16. DOMAIN enriched \subseteq DOMAIN p.byKey
    BY <1>14, <1>15 DEF TakesWord
<1>17. ASSUME NEW k \in DOMAIN p.byKey PROVE WordIs(enriched, k, I!Said(k, events, more))
    <2>1. CASE k = key
        BY <1>12, <1>15, <2>1 DEF TakesWord
    <2>2. CASE k # key
        <3>1. WordIs(p.enriched, k, I!Said(k, events, frames))
            BY DEF PageIs
        <3>2. (k \in DOMAIN enriched <=> k \in DOMAIN p.enriched) /\ (k \in DOMAIN p.enriched => enriched[k] = p.enriched[k])
            BY <1>15, <2>2 DEF TakesWord
        <3> QED BY <1>13, <2>2, <3>1, <3>2 DEF WordIs
    <2> QED BY <2>1, <2>2
<1> HIDE DEF q
<1>18. PageIs(q, events, more)
    BY <1>1, <1>2, <1>3, <1>16, <1>17 DEF PageIs
<1> QED BY <1>18 DEF q, more, enriched

FeedItems == Event \cup Frame

\* What the page shows once no redraw is due.
ShownIs ==
    /\ \A k \in DOMAIN page.byKey : shown.kind[k] = I!Kind(page.byKey[k].status, I!Confident(k))
    /\ shown.open = {k \in DOMAIN page.byKey : I!IsOpen(shown.kind[k], page.byKey[k].ongoing, page.byKey[k].status)}

FeedInv ==
    /\ published \in Seq(FeedItems) /\ wire \in Seq(FeedItems) /\ backfill.answer \in Seq(FeedItems)
    /\ DOMAIN arrived = {"events", "frames"}
    /\ PageIs(page, arrived.events, arrived.frames)
    /\ ~repaintDue /\ ~rerenderDue => ShownIs

LEMMA NewestAreItems ==
    ASSUME NEW n \in Nat, published \in Seq(FeedItems) PROVE I!Newest(n) \in Seq(FeedItems)
<1> DEFINE from == I!Max({1, Len(published) - n + 1})
<1>1. \A a, b \in Int : I!Max({a, b}) \in {a, b} /\ I!Max({a, b}) >= a
    <2> SUFFICES ASSUME NEW a \in Int, NEW b \in Int PROVE I!Max({a, b}) \in {a, b} /\ I!Max({a, b}) >= a
        OBVIOUS
    <2>1. \E m \in {a, b} : \A x \in {a, b} : m >= x
        OBVIOUS
    <2> QED BY <2>1 DEF I!Max
<1>2. from \in Nat \ {0}
    <2>1. Len(published) - n + 1 \in Int /\ 1 \in Int
        OBVIOUS
    <2>2. from \in {1, Len(published) - n + 1} /\ from >= 1
        BY <1>1, <2>1
    <2> QED BY <2>1, <2>2
<1> HIDE DEF from
<1>3. SubSeq(published, from, Len(published)) \in Seq(FeedItems)
    BY <1>2
<1> QED BY <1>3 DEF I!Newest, from

LEMMA ItemsAreAdded ==
    ASSUME FeedInv, NEW items \in Seq(FeedItems), I!AddIncidents(items), UNCHANGED shown
    PROVE  /\ DOMAIN arrived' = {"events", "frames"}
           /\ PageIs(page, arrived.events, arrived.frames)'
           /\ (~repaintDue /\ ~rerenderDue => ShownIs)'
<1> DEFINE new == I!ToSet(items) \cap Event
<1>1. /\ page' = I!Added(page, items) /\ repaintDue' = (repaintDue \/ \E x \in I!ToSet(items) : I!IsEvent(x))
      /\ arrived' = [arrived EXCEPT !.events = @ \cup new] /\ rerenderDue' = rerenderDue
    BY DEF I!AddIncidents
<1>2. DOMAIN arrived' = {"events", "frames"} /\ arrived'.events = arrived.events \cup new /\ arrived'.frames = arrived.frames
    <2> HIDE DEF new
    <2> QED BY <1>1 DEF FeedInv
<1>3. items \in Seq(Event \cup Frame)
    BY DEF FeedItems
<1>4. /\ PageIs(I!Added(page, items), arrived.events \cup new, arrived.frames)
      /\ (\A x \in I!ToSet(items) : ~I!IsEvent(x)) => I!Added(page, items) = page
    BY <1>3, BatchIsAdded DEF FeedInv
<1> HIDE DEF new
<1>5. PageIs(page', arrived'.events, arrived'.frames)
    BY <1>1, <1>2, <1>4
<1>6. ASSUME ~repaintDue', ~rerenderDue' PROVE ShownIs'
    <2>1. page' = page /\ ~repaintDue /\ ~rerenderDue
        BY <1>1, <1>4, <1>6
    <2>2. ShownIs
        BY <2>1 DEF FeedInv
    <2> QED BY <2>1, <2>2 DEF ShownIs, I!Confident
<1> QED BY <1>2, <1>5, <1>6 DEF PageIs

LEMMA FrameIsAdded ==
    ASSUME FeedInv, NEW enr \in Frame, I!AddEnrichment(enr), UNCHANGED shown
    PROVE  /\ DOMAIN arrived' = {"events", "frames"}
           /\ PageIs(page, arrived.events, arrived.frames)'
           /\ (~repaintDue /\ ~rerenderDue => ShownIs)'
<1> DEFINE of == {e \in page.known : e.id = enr.of}
           key == (CHOOSE e \in of : TRUE).key
           events == arrived.events
           frames == arrived.frames
<1>1. arrived' = [arrived EXCEPT !.frames = @ \cup {enr}] /\ repaintDue' = repaintDue
    BY DEF I!AddEnrichment
<1>2. DOMAIN arrived' = {"events", "frames"} /\ arrived'.events = events /\ arrived'.frames = frames \cup {enr}
    BY <1>1 DEF FeedInv
<1>3. PageIs(page, events, frames) /\ page.known = events /\ DOMAIN page = PageFields
    BY DEF FeedInv, PageIs
<1>4. CASE of = {}
    <2>1. page' = [page EXCEPT !.pending = {x \in @ : x.of # enr.of} \cup {enr}] /\ rerenderDue' = rerenderDue
        BY <1>4 DEF I!AddEnrichment
    <2>2. \A e \in events : e.id # enr.of
        BY <1>3, <1>4
    <2> HIDE DEF events, frames, of, key
    <2>3. PageIs(page', events, frames \cup {enr})
        BY <1>3, <2>1, <2>2, EarlyFrameWaits
    <2>4. page'.byKey = page.byKey /\ page'.enriched = page.enriched
        BY <1>3, <2>1 DEF PageFields
    <2>5. ASSUME ~repaintDue', ~rerenderDue' PROVE ShownIs'
        <3>1. ShownIs
            BY <1>1, <2>1, <2>5 DEF FeedInv
        <3> QED BY <2>4, <3>1 DEF ShownIs, I!Confident
    <2>6. PageIs(page', arrived'.events, arrived'.frames)
        BY <1>2, <2>3
    <2> QED BY <1>2, <2>5, <2>6 DEF PageIs
<1>5. CASE of # {}
    <2>1. page' = [page EXCEPT !.enriched = I!Enriched(page.enriched, key, enr, Time)]
          /\ rerenderDue' = (rerenderDue \/ page'.enriched # page.enriched)
        BY <1>5 DEF I!AddEnrichment
    <2>2. PICK e \in of : key = e.key
        BY <1>5
    <2>3. e \in events /\ e.id = enr.of
        BY <1>3, <2>2
    <2> HIDE DEF events, frames, of, key
    <2>4. PageIs(page', events, frames \cup {enr})
        BY <1>3, <2>1, <2>2, <2>3, FrameIsTaken
    <2>5. page'.byKey = page.byKey
        BY <1>3, <2>1 DEF PageFields
    <2>6. ASSUME ~repaintDue', ~rerenderDue' PROVE ShownIs'
        <3>1. ShownIs /\ page'.enriched = page.enriched
            BY <1>1, <2>1, <2>6 DEF FeedInv
        <3> QED BY <2>5, <3>1 DEF ShownIs, I!Confident
    <2>7. PageIs(page', arrived'.events, arrived'.frames)
        BY <1>2, <2>4
    <2> QED BY <1>2, <2>6, <2>7 DEF PageIs
<1> QED BY <1>4, <1>5

LEMMA FeedGoesOn ==
    ASSUME FeedInv, [I!Next]_pageVars PROVE FeedInv'
<1>0. Replay \in Nat /\ Backfill \in Nat /\ Event \cap Frame = {} /\ <<>> \in Seq(FeedItems)
    BY FeedFacts
<1>1. ASSUME UNCHANGED <<page, shown, arrived, repaintDue, rerenderDue>>,
             published' \in Seq(FeedItems), wire' \in Seq(FeedItems), backfill'.answer \in Seq(FeedItems)
      PROVE  FeedInv'
    BY <1>1 DEF FeedInv, PageIs, ShownIs, I!Confident
<1>2. ASSUME NEW x \in FeedItems, I!Publish(x) PROVE FeedInv'
    <2>1. published' \in Seq(FeedItems) /\ wire' \in Seq(FeedItems)
        BY <1>2 DEF I!Publish, FeedInv
    <2> QED BY <1>1, <1>2, <2>1 DEF I!Publish, FeedInv
<1>3. I!Ask.answer \in Seq(FeedItems)
    BY <1>0, NewestAreItems DEF I!Ask, FeedInv
<1>4. CASE I!Connect
    BY <1>1, <1>3, <1>4 DEF I!Connect, FeedInv
<1>5. CASE I!Opens
    <2>1. I!Newest(Replay) \in Seq(FeedItems)
        BY <1>0, NewestAreItems DEF FeedInv
    <2> QED BY <1>1, <1>3, <1>5, <2>1 DEF I!Opens, FeedInv
<1>6. CASE I!Closes
    BY <1>0, <1>1, <1>6 DEF I!Closes, FeedInv
<1>7. CASE I!FrameArrives
    <2>1. UNCHANGED <<published, backfill, shown>> /\ wire' = Tail(wire) /\ wire # <<>>
        BY <1>7 DEF I!FrameArrives
    <2>2. Head(wire) \in FeedItems /\ wire' \in Seq(FeedItems)
        BY <2>1 DEF FeedInv
    <2>3. CASE I!IsEvent(Head(wire))
        <3> DEFINE one == <<Head(wire)>>
        <3>1. I!AddIncidents(one) /\ one \in Seq(FeedItems)
            BY <1>7, <2>2, <2>3 DEF I!FrameArrives
        <3> HIDE DEF one
        <3> QED BY <2>1, <2>2, <3>1, ItemsAreAdded DEF FeedInv
    <2>4. CASE ~I!IsEvent(Head(wire))
        <3>1. I!AddEnrichment(Head(wire)) /\ Head(wire) \in Frame
            BY <1>7, <2>2, <2>4 DEF I!FrameArrives, I!IsEvent, FeedItems
        <3> QED BY <2>1, <2>2, <3>1, FrameIsAdded DEF FeedInv
    <2> QED BY <2>3, <2>4
<1>8. CASE I!BackfillArrives
    <2>1. I!AddIncidents(backfill.answer) /\ UNCHANGED <<published, wire, shown>> /\ backfill'.answer = <<>>
        BY <1>8 DEF I!BackfillArrives
    <2>2. backfill.answer \in Seq(FeedItems)
        BY DEF FeedInv
    <2> QED BY <1>0, <2>1, <2>2, ItemsAreAdded DEF FeedInv
<1>9. CASE I!BackfillFails
    BY <1>0, <1>1, <1>9 DEF I!BackfillFails, I!Unasked, FeedInv
<1>10. CASE I!Repaint
    <2>1. UNCHANGED <<published, wire, backfill, page, arrived>>
        BY <1>10 DEF I!Repaint
    <2> DEFINE it == page.byKey
               kind == [k \in DOMAIN it |-> I!Kind(it[k].status, I!Confident(k))]
               open == {k \in DOMAIN it : I!IsOpen(kind[k], it[k].ongoing, it[k].status)}
    <2>2. shown'.kind = kind /\ shown'.open = open
        BY <1>10 DEF I!Repaint
    <2>3. \A k \in DOMAIN it : kind[k] = I!Kind(it[k].status, I!Confident(k))
        OBVIOUS
    <2> HIDE DEF kind
    <2>4. ShownIs'
        BY <2>1, <2>2, <2>3 DEF ShownIs, I!Confident
    <2> QED BY <2>1, <2>4 DEF FeedInv, PageIs
<1>11. CASE I!Rerender
    BY <1>11 DEF I!Rerender, FeedInv, PageIs
<1>12. CASE UNCHANGED pageVars
    BY <1>1, <1>12 DEF pageVars, FeedInv
<1> QED BY <1>2, <1>4, <1>5, <1>6, <1>7, <1>8, <1>9, <1>10, <1>11, <1>12 DEF I!Next, FeedItems

LEMMA WordsAreApart ==
    ASSUME NEW events \in SUBSET Event, NEW frames \in SUBSET Frame, NEW e \in Event
    PROVE  \A x, y \in I!Said(e.key, events, frames) : x[2] = y[2] => x = y
<1>1. I!Said(e.key, events, frames) \subseteq I!Said(e.key, Event, Frame)
    BY DEF I!Said
<1> QED BY <1>1, FeedFacts

LEMMA PageIsSaid == ASSUME FeedInv PROVE I!PageFollowsNewestWord
<1> DEFINE events == arrived.events
           frames == arrived.frames
<1>1. PageIs(page, events, frames) /\ events \in SUBSET Event /\ frames \in SUBSET Frame /\ IsFiniteSet(events)
    BY DEF FeedInv, PageIs
<1> SUFFICES ASSUME NEW k \in DOMAIN page.byKey, DatedOf(k, events) # {}
             PROVE  LET it == page.byKey[k]
                        dated == DatedOf(k, events)
                        newest == CHOOSE e \in dated : \A f \in dated : f.at <= e.at
                        first == CHOOSE e \in dated : \A f \in dated : f.at >= e.at
                        said == I!Said(k, events, frames)
                        class == IF said = {} THEN None ELSE (CHOOSE x \in said : \A y \in said : y[2] <= x[2])[1]
                    IN  /\ it.status = newest.status /\ it.ongoing = newest.ongoing
                        /\ it.opened = first.id
                        /\ it.transitions = {e \in dated : I!Cardinality({f \in dated : f.at > e.at}) < Transitions}
                        /\ ~repaintDue /\ ~rerenderDue =>
                               /\ shown.kind[k] = I!Kind(newest.status, class)
                               /\ k \in shown.open <=> I!IsOpen(shown.kind[k], newest.ongoing, newest.status)
    BY DEF I!PageFollowsNewestWord, DatedOf
<1> DEFINE it == page.byKey[k]
           dated == DatedOf(k, events)
           newest == CHOOSE e \in dated : \A f \in dated : f.at <= e.at
           first == CHOOSE e \in dated : \A f \in dated : f.at >= e.at
           said == I!Said(k, events, frames)
           class == IF said = {} THEN None ELSE (CHOOSE x \in said : \A y \in said : y[2] <= x[2])[1]
<1>2. ItemIs(it, dated) /\ WordIs(page.enriched, k, said)
    BY <1>1 DEF PageIs
<1>3. /\ dated \subseteq events /\ IsFiniteSet(dated) /\ Differ(dated, AtOf)
      /\ \A e, f \in dated : e \in Event /\ e.key = k /\ e.at \in Nat /\ (e.at = f.at => e = f)
    <2>1. dated \subseteq events /\ Differ(dated, AtOf)
        BY <1>1, DatedDiffer DEF DatedOf
    <2>2. IsFiniteSet(dated)
        BY <1>1, <2>1, FS_Subset
    <2> QED BY <1>1, <2>1, <2>2, FeedFacts DEF DatedOf
<1>4. Timed(said) /\ \A x, y \in said : x[2] = y[2] => x = y
    <2>1. PICK e \in dated : TRUE
        OBVIOUS
    <2>2. e \in Event /\ e.key = k
        BY <1>3
    <2> QED BY <1>1, <2>2, SaidAreNumbers, WordsAreApart
<1> HIDE DEF events, frames, it, dated, said
<1>5. it.status = newest.status /\ it.ongoing = newest.ongoing
    <2>1. PICK n \in dated : (\A e \in dated : e.at <= n.at) /\ it.status = n.status /\ it.ongoing = n.ongoing
        BY <1>2 DEF ItemIs, dated
    <2>2. \A m \in dated : (\A f \in dated : f.at <= m.at) => m = n
        BY <1>3, <2>1
    <2>3. newest = n
        BY <2>1, <2>2
    <2> QED BY <2>1, <2>3
<1>6. it.opened = first.id
    <2>1. PICK o \in dated : (\A e \in dated : o.at <= e.at) /\ it.opened = o.id
        BY <1>2 DEF ItemIs, dated
    <2>2. \A m \in dated : (\A f \in dated : f.at >= m.at) => m = o
        BY <1>3, <2>1
    <2>3. \A f \in dated : f.at >= o.at
        BY <1>3, <2>1
    <2>4. first = o
        BY <2>1, <2>2, <2>3
    <2> QED BY <2>1, <2>4
<1>7. it.transitions = {e \in dated : I!Cardinality({f \in dated : f.at > e.at}) < Transitions}
    <2>1. it.transitions = {e \in dated : Cardinality({f \in dated : AtOf[f] > AtOf[e]}) < Transitions}
        BY <1>2, <1>3, FeedFacts, NewestAreCounted DEF ItemIs
    <2>2. \A e \in dated : {f \in dated : AtOf[f] > AtOf[e]} = {f \in dated : f.at > e.at}
        BY <1>3 DEF AtOf
    <2>3. \A e \in dated : I!Cardinality({f \in dated : f.at > e.at}) = Cardinality({f \in dated : f.at > e.at})
        BY DEF I!Cardinality, Cardinality
    <2> QED BY <2>1, <2>2, <2>3
<1>8. I!Confident(k) = class
    <2>1. CASE said = {}
        BY <1>2, <2>1 DEF WordIs, I!Confident
    <2>2. CASE said # {}
        <3>1. PICK w \in said : /\ \A v \in said : v[2] <= w[2]
                                /\ k \in DOMAIN page.enriched /\ page.enriched[k].confident = w[1]
            BY <1>2, <2>2 DEF WordIs
        <3>2. \A x \in said : (\A y \in said : y[2] <= x[2]) => x = w
            BY <1>4, <3>1 DEF Timed
        <3>3. (CHOOSE x \in said : \A y \in said : y[2] <= x[2]) = w
            BY <3>1, <3>2
        <3> QED BY <2>2, <3>1, <3>3 DEF I!Confident
    <2> QED BY <2>1, <2>2
<1>9. ASSUME ~repaintDue, ~rerenderDue
      PROVE  shown.kind[k] = I!Kind(newest.status, class) /\ (k \in shown.open <=> I!IsOpen(shown.kind[k], newest.ongoing, newest.status))
    <2>1. /\ shown.kind[k] = I!Kind(it.status, I!Confident(k))
          /\ k \in shown.open <=> I!IsOpen(shown.kind[k], it.ongoing, it.status)
        BY <1>9 DEF FeedInv, ShownIs, it
    <2> HIDE DEF newest, class
    <2> QED BY <1>5, <1>8, <2>1
<1> HIDE DEF newest, first, class
<1>10. /\ it.status = newest.status /\ it.ongoing = newest.ongoing
       /\ it.opened = first.id
       /\ it.transitions = {e \in dated : I!Cardinality({f \in dated : f.at > e.at}) < Transitions}
       /\ ~repaintDue /\ ~rerenderDue =>
              /\ shown.kind[k] = I!Kind(newest.status, class)
              /\ k \in shown.open <=> I!IsOpen(shown.kind[k], newest.ongoing, newest.status)
    BY <1>5, <1>6, <1>7, <1>9
<1> QED BY <1>10 DEF it, dated, newest, first, said, class

LEMMA PageRunsAlone == CatalogueSpec => I!Init /\ [][I!Next]_pageVars
<1>1. CatalogueInit => I!Init
    BY DEF CatalogueInit
<1>2. [CatalogueNext]_everything => [I!Next]_pageVars
    BY DEF CatalogueNext, everything, Over
<1> QED BY <1>1, <1>2, PTL DEF CatalogueSpec

LEMMA PageFollows == CatalogueSpec => []I!PageFollowsNewestWord
<1>1. I!Init => FeedInv
    <2> SUFFICES ASSUME I!Init PROVE FeedInv
        OBVIOUS
    <2>1. /\ published = <<>> /\ wire = <<>> /\ backfill.answer = <<>> /\ arrived = [events |-> {}, frames |-> {}]
          /\ page = [byKey |-> <<>>, known |-> {}, pending |-> {}, enriched |-> <<>>]
          /\ shown = [kind |-> <<>>, open |-> {}, byChain |-> {}]
        BY DEF I!Init, I!Unasked
    <2>2. IsFiniteSet({}) /\ DOMAIN <<>> = {}
        BY FS_EmptySet
    <2>3. PageIs(page, {}, {})
        BY <2>1, <2>2 DEF PageIs, PageFields
    <2>4. ShownIs
        BY <2>1, <2>2 DEF ShownIs
    <2> QED BY <2>1, <2>3, <2>4 DEF FeedInv
<1> QED BY <1>1, FeedGoesOn, PageIsSaid, PageRunsAlone, PTL

\* Whatever reached the page in whatever order and however often, it shows what the newest
\* word says of an incident (app.js:1131-1162, 1221-1249).
THEOREM PageAlwaysFollowsNewestWord == CatalogueSpec => []PageFollowsNewestWord
<1> QED BY PageFollows, PTL DEF PageFollowsNewestWord
=============================================================================
