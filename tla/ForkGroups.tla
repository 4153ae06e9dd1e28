----------------------------- MODULE ForkGroups -----------------------------
(***************************************************************************)
(* Forks, assembled from the feed items that mention them: buildForks      *)
(* (src/src/domain/forks.js).  The mentions of one fork on one network are *)
(* a group; seven passes merge groups that are the same activation; what   *)
(* is left of a group beside providers' windows makes a fork.              *)
(*                                                                         *)
(* The code's Map of groups is a sequence in the order of insertion, the   *)
(* place of a group standing for its key; one that was merged into another *)
(* is no longer `there`.                                                   *)
(*                                                                         *)
(* A mention is an item's fork object with what the rules read of the      *)
(* item: feed, name (its identity, without generic words), network (the    *)
(* one that forks, when the item says), named (the networks it is about),  *)
(* chains (those it declares), chosen (those the feed's model chose for    *)
(* the fork), at (hours; day: only the day is given), block, state, class, *)
(* said (published), seen (observed).  Abstracted: what the registry makes *)
(* of a network's name, and what the forks' names are known to be other    *)
(* spellings of, are constants.  Display names and URLs are left out.      *)
(***************************************************************************)
EXTENDS Integers, SequencesExt

CONSTANTS
    ChainIdsFor,  \* network name to the chains the registry finds for it
    Carries,      \* network name to the chains whose own name has its words
    RepoChainIds, \* network name (or None) to the release repository's chains, or to those
                  \* of the network it tests when that is the repository's
    VersionName,  \* names that are version numbers (VERSION_NAME)
    CanonicalForkId, \* name to the one it is known to be a spelling of
    SameFamily,   \* pairs of one network and its test network, both ways
    Now,
    None,
    Feed,         \* the items that may be published
    MaxMentions,  \* bound: items in one answer
    Tip,          \* chain to what its explorer says, NoTip when it cannot be asked
    MaxTipLookups

VARIABLES
    mentions, \* the items, in the order the feeds gave them
    groups,   \* the groups buildForks makes of them
    forks     \* the forks, by the place of their group

vars == <<mentions, groups, forks>>

UnnamedMatch == 6
Reschedule == 24
BeforeAnnouncement == 30 * 24

-----------------------------------------------------------------------------
(* Mentions and the scope they have                                        *)

\* plausibleFork: a time long before its own announcement is a wrong year.
PlausibleFork(m) ==
    IF m.at # None /\ m.state # "completed" /\ m.at < m.said - BeforeAnnouncement
    THEN [m EXCEPT !.at = None, !.day = FALSE] ELSE m

OnNetwork(n) == [network |-> n, chain |-> None]
OnChain(c) == [network |-> None, chain |-> c]
Unscoped == [network |-> None, chain |-> None]

Kin(a, b) == a = b \/ <<a, b>> \in SameFamily

\* Each network is an activation of its own.
ScopesOf(m) ==
    LET family == {n \in m.named : Kin(n, m.network)}
    IN  IF m.network # None
        THEN {OnNetwork(n) : n \in IF m.network \in family THEN family ELSE {m.network}}
        ELSE IF m.named # {} THEN {OnNetwork(n) : n \in m.named}
        ELSE IF m.chosen # {} THEN {OnChain(c) : c \in m.chosen}
        ELSE IF m.chains # {} THEN {OnChain(c) : c \in m.chains}
        ELSE {Unscoped}

\* namedChainIds: a post's own chains are about the poster once it names a network.
NamedChainIds(m, scope) ==
    LET resolved == IF scope.network = None THEN {} ELSE ChainIdsFor[scope.network]
    IN  IF m.network = None THEN m.chains \cup resolved
        ELSE IF resolved # {} THEN resolved
        ELSE IF m.named = {scope.network} THEN m.chains \cap Carries[scope.network]
        ELSE {}

\* memberChainIds: a release is on the chains chosen for it; one that nothing
\* else places is its repository's.
Member(m, scope) ==
    LET ids == IF m.feed = "release" /\ m.chosen # {} THEN m.chosen ELSE NamedChainIds(m, scope)
        guess == ids = {} /\ m.feed = "release" /\ scope.chain = None
    IN  m @@ [scope |-> scope, on |-> IF guess THEN RepoChainIds[scope.network] ELSE ids, guess |-> guess]

\* forkGroup: by name, else by height, else by instant.
Identity(m) ==
    [name |-> m.name,
     block |-> IF m.name = None THEN m.block ELSE None,
     at |-> IF m.name = None /\ m.block = None THEN m.at ELSE None]

Anonymous == [name |-> None, block |-> None, at |-> None]

ProviderWindow(m) == m.feed = "provider"

\* sourceRank: 0 the network's own, 1 a provider, 2 somebody's report of it.
SourceRank(m) ==
    IF m.network # None /\ m.named # {} /\ \A n \in m.named : ~Kin(n, m.network) THEN 2
    ELSE CASE m.feed = "news" -> 2 [] m.feed = "provider" -> 1 [] OTHER -> 0

-----------------------------------------------------------------------------
(* The best current answer                                                 *)

NoTip == [height |-> None, time |-> None, rate |-> None]

\* resolveForkActivation: a height without a time is converted with the chain's tip.
ResolveForkActivation(m, tip) ==
    LET Known(at, evidence) == [at |-> at, evidence |-> evidence, day |-> m.day, rank |-> SourceRank(m), seen |-> m.seen]
    IN  IF m.at # None THEN Known(m.at, 0)
        ELSE IF m.block = None \/ tip = NoTip THEN Known(None, None)
        ELSE Known(tip.time + (m.block - tip.height) * tip.rate, IF m.block <= tip.height THEN 1 ELSE 2)

Before(a, b) == a.rank < b.rank \/ (a.rank = b.rank /\ a.seen >= b.seen)

Pick(pool) == CHOOSE c \in pool : \A d \in pool : Before(c, d)

\* The newer claims of the network or a provider that put it on another day.
Moved(pool, best) ==
    {c \in pool : c.rank < 2 /\ c.seen > best.seen /\ (c.at - best.at > Reschedule \/ best.at - c.at > Reschedule)}

\* bestActivation: from a reschedule on, older claims no longer count; each
\* round leaves at least one behind.
StandingClaims(claims) ==
    LET usable == {c \in claims : c.at # None}
        strongest == {c \in usable : \A d \in usable : c.evidence <= d.evidence}
        Round(pool, i) ==
            IF pool = {} \/ Moved(pool, Pick(pool)) = {} THEN pool
            ELSE LET since == Min({c.seen : c \in Moved(pool, Pick(pool))}) IN {c \in pool : c.seen >= since}
    IN  FoldLeft(Round, strongest, [i \in 1..Cardinality(claims) |-> i])

\* sharpen: of a day and an instant on that day, the instant.
Sharpen(pool, best) ==
    LET precise == {c \in pool : best.day /\ ~c.day /\ c.at \div 24 = best.at \div 24 /\ c.rank < 2}
    IN  IF precise # {} THEN Pick(precise) ELSE best

BestOf(pool) == IF pool = {} THEN None ELSE Sharpen(pool, Pick(pool))

BestActivation(claims) == BestOf(StandingClaims(claims))

\* bestState: called off by anyone, else the newest word.
BestState(ms) ==
    LET say == {m \in ms : m.state # None}
    IN  IF \E m \in say : m.state = "cancelled" THEN "cancelled"
        ELSE IF say = {} THEN None
        ELSE (CHOOSE m \in say : \A n \in say : m.seen >= n.seen).state

ForkPhase(activation, state) ==
    IF state = "cancelled" THEN "cancelled"
    ELSE IF state = "completed" THEN "past"
    ELSE IF activation = None THEN "unscheduled"
    ELSE IF activation.at + (IF activation.day THEN 24 ELSE 0) > Now THEN "upcoming" ELSE "past"

\* forkKind: a fork, or a software update that was marked as one.
ForkKind(ms, activation) ==
    LET classes == {m.class : m \in ms} \ {None}
    IN  IF \/ "hard_fork" \in classes \/ classes = {}
           \/ \E m \in ms : m.block # None
           \/ (\E m \in ms : m.name \notin VersionName \cup {None}) /\ activation # None /\ activation.evidence = 0
        THEN "fork" ELSE "upgrade"

-----------------------------------------------------------------------------
(* Groups                                                                  *)

\* One group per identity and scope, in the order they are met.
Grouped(ms) ==
    LET Members(m) == {Member(m, s) : s \in ScopesOf(m)}
        Add(gs, x) ==
            LET home == SelectInSeq(gs, LAMBDA g : g.ident = Identity(x) /\ g.scope = x.scope)
            IN  IF Identity(x) = Anonymous THEN gs
                ELSE IF home # 0 THEN [gs EXCEPT ![home].members = @ \cup {x}]
                ELSE Append(gs, [ident |-> Identity(x), scope |-> x.scope, scopes |-> {x.scope}, members |-> {x}, there |-> TRUE])
    IN  FoldLeft(LAMBDA gs, m : FoldLeft(Add, gs, SetToSeq(Members(PlausibleFork(m)))), <<>>, ms)

There(gs) == {i \in DOMAIN gs : gs[i].there}
InOrder(S) == SetToSortSeq(S, <)

ChainsOf(ms) == UNION {m.on : m \in ms}

\* placementStrength
PlacementStrength(m) == IF ~m.guess THEN 2 ELSE IF m.scope = Unscoped THEN 0 ELSE 1

\* mergeInto: a guess at the chains yields to a firmer placement.
MergeInto(gs, target, source) ==
    LET all == gs[target].members \cup gs[source].members
        firmest == Max({PlacementStrength(m) : m \in {x \in all : x.on # {}}} \cup {0})
    IN  [gs EXCEPT ![source].there = FALSE,
                   ![target].members =
                       {IF m.guess /\ PlacementStrength(m) < firmest THEN [m EXCEPT !.on = {}] ELSE m : m \in all}]

\* Of a merge that also unites what the two groups list as their networks.
MergeScopes(gs, target, source) ==
    [MergeInto(gs, target, source) EXCEPT ![target].scopes = @ \cup gs[source].scopes]

\* Into the only candidate; none or several leave the group alone.
MergeIntoOnly(gs, targets, source) ==
    IF Cardinality(targets) = 1 THEN MergeInto(gs, CHOOSE t \in targets : TRUE, source) ELSE gs

Blocks(ms) == {m.block : m \in ms} \ {None}
Times(ms) == {m.at : m \in ms} \ {None}
Instants(ms) == Times({m \in ms : ~m.day})
Anchors(ms) == [blocks |-> Blocks(ms), times |-> Times(ms)]

\* anchorDistance: 0 for one height or second, 1 for hours, 2 for unrelated.
AnchorDistance(a, b) ==
    IF a.blocks \cap b.blocks # {} \/ a.times \cap b.times # {} THEN 0
    ELSE IF \E x \in a.times, y \in b.times : x - y \in -UnnamedMatch..UnnamedMatch THEN 1 ELSE 2

IsNamed(g) == g.ident.name # None
IsNodeGroup(g) == \E m \in g.members : m.feed = "node"

-----------------------------------------------------------------------------
(* The passes                                                              *)

\* A mention that knows only its chain joins the group of a network on it.
MergeChainScopes(gs) ==
    LET Merge(hs, i) ==
            LET g == hs[i]
                targets == {j \in There(hs) \ {i} :
                               /\ hs[j].ident = g.ident /\ hs[j].scope.network # None
                               /\ g.scope.chain \in ChainsOf(hs[j].members) \cup ChainIdsFor[hs[j].scope.network]}
            IN  IF g.scope.chain = None THEN hs ELSE MergeIntoOnly(hs, targets, i)
    IN  FoldLeft(Merge, gs, InOrder(There(gs)))

\* A name without a network joins the one group of that name.
MergeUnscoped(gs) ==
    LET Merge(hs, i) ==
            IF hs[i].scope # Unscoped \/ ~IsNamed(hs[i]) THEN hs
            ELSE MergeIntoOnly(hs, {j \in There(hs) : hs[j].ident = hs[i].ident /\ hs[j].scope # Unscoped}, i)
    IN  FoldLeft(Merge, gs, InOrder(There(gs)))

\* A group without any time comes after those that have one.
Never == 1000000
Earliest(a) == Min(a.times \cup {Never})

\* clusterUnnamed, first half: nameless groups near the earliest of a cluster.
Clusters(gs) ==
    LET unnamed == {i \in There(gs) : ~IsNamed(gs[i]) /\ ~IsNodeGroup(gs[i])}
        a == [i \in unnamed |-> Anchors(gs[i].members)]
        Earlier(i, j) == Earliest(a[i]) < Earliest(a[j]) \/ (Earliest(a[i]) = Earliest(a[j]) /\ i < j)
        First(times) == IF times = {} THEN {} ELSE {Min(times)}
        Join(st, i) ==
            LET home == SelectInSeq(st.clusters, LAMBDA c : gs[c.at].scope = gs[i].scope /\ AnchorDistance(c.anchor, a[i]) < 2)
                kept == st.clusters[home].anchor
            IN  IF home = 0
                THEN [st EXCEPT !.clusters = Append(@, [at |-> i, anchor |-> [a[i] EXCEPT !.times = First(@)]])]
                ELSE [groups |-> MergeInto(st.groups, st.clusters[home].at, i),
                      clusters |-> [st.clusters EXCEPT ![home].anchor =
                          [blocks |-> kept.blocks \cup a[i].blocks,
                           times |-> IF kept.times = {} THEN First(a[i].times) ELSE kept.times]]]
    IN  FoldLeft(Join, [groups |-> gs, clusters |-> <<>>], SetToSortSeq(unnamed, Earlier))

\* Then each cluster joins the named group of its network it is nearest to.
\* `anchors` are those of the named groups before the first cluster joins.
JoinNearest(hs, c, anchors) ==
    LET At(d) == {i \in DOMAIN anchors :
                     hs[i].scope = hs[c].scope /\ AnchorDistance(Anchors(hs[c].members), anchors[i]) = d}
    IN  MergeIntoOnly(hs, IF At(0) # {} THEN At(0) ELSE At(1), c)

JoinClusters(clustered, anchors) ==
    FoldLeft(LAMBDA hs, c : JoinNearest(hs, c.at, anchors), clustered.groups, clustered.clusters)

NamedAnchors(gs) == [i \in {i \in There(gs) : IsNamed(gs[i])} |-> Anchors(gs[i].members)]

ClusterUnnamed(gs) == LET clustered == Clusters(gs) IN JoinClusters(clustered, NamedAnchors(clustered.groups))

\* Groups of one identity that the same items claim the same of are one fork
\* of several networks.
CollapseIdentical(gs) ==
    LET Claims(g) == {<<m.item, m.at, m.day, m.block, m.state>> : m \in g.members}
        Collapse(hs, i) ==
            LET prior == {j \in There(hs) : j < i /\ hs[j].ident = hs[i].ident /\ Claims(hs[j]) = Claims(hs[i])}
            IN  IF prior = {} THEN hs ELSE MergeScopes(hs, Min(prior), i)
    IN  FoldLeft(Collapse, gs, InOrder(There(gs)))

\* Mutant: a group that is gone takes others in.
MergesWithGone(hs, i, j) == hs[j].there

\* Both groups of a pair are still there.
Mergeable(hs, i, j) == hs[i].there /\ hs[j].there

\* Names of one activation on the same chains become one group, the largest
\* first; what a group takes in does not widen what it matches.
MergeSameActivation(gs) ==
    LET found == {i \in There(gs) : IsNamed(gs[i]) /\ ChainsOf(gs[i].members) # {}}
        chains == [i \in found |-> ChainsOf(gs[i].members)]
        Same(i, j) ==
            /\ chains[i] = chains[j]
            /\ \/ Blocks(gs[i].members) \cap Blocks(gs[j].members) # {}
               \/ Instants(gs[i].members) \cap Instants(gs[j].members) # {}
        Size(i) == Cardinality(gs[i].members)
        order == SetToSortSeq(found, LAMBDA i, j : Size(i) > Size(j) \/ (Size(i) = Size(j) /\ i < j))
        Take(hs, i, j) == IF i # j /\ Mergeable(hs, i, j) /\ Same(i, j) THEN MergeScopes(hs, i, j) ELSE hs
    IN  FoldLeft(LAMBDA hs, i : FoldLeft(LAMBDA ks, j : Take(ks, i, j), hs, order), gs, order)

\* A provider's window is its own schedule, and a day is no instant.
ExactAnchors(ms) ==
    [blocks |-> Blocks({m \in ms : ~ProviderWindow(m)}), times |-> Instants({m \in ms : ~ProviderWindow(m)})]

Claims(ms, tip) == {ResolveForkActivation(m, tip) : m \in ms}

\* The chain a nameless group is known by: its scope's, or its nodes'.
ChainOf(g) ==
    LET ids == ChainsOf({m \in g.members : m.feed = "node"})
    IN  IF g.scope.chain # None THEN g.scope.chain
        ELSE IF Cardinality(ids) = 1 THEN CHOOSE c \in ids : TRUE ELSE None

\* What is known of the groups before the first of a chain joins one: their
\* anchors, the instant each named one goes by, the chain of each other.
Standing(gs) ==
    LET named == {i \in There(gs) : IsNamed(gs[i])}
        Winning(best) == IF best = None \/ best.day THEN None ELSE best.at
    IN  [anchors |-> [i \in There(gs) |-> ExactAnchors(gs[i].members)],
         winning |-> [i \in named |-> Winning(BestActivation(Claims(gs[i].members, NoTip)))],
         chain |-> [i \in {i \in There(gs) \ named : ChainOf(gs[i]) # None} |-> ChainOf(gs[i])]]

OnlyHere(g, c) == \A m \in g.members : m.on \subseteq {c}

Candidates(known, st, p, exact) ==
    LET c == known.chain[p]
    IN  {i \in DOMAIN known.winning :
            /\ <<i, c>> \notin st.taken
            /\ c \in ChainsOf(st.groups[i].members)
            /\ IF OnlyHere(st.groups[i], c)
               THEN AnchorDistance(known.anchors[p], known.anchors[i]) = IF exact THEN 0 ELSE 1
               ELSE exact /\ known.winning[i] \in known.anchors[p].times}

\* Each group that is still there claims its only candidate, unless it is taken
\* or, by nearness alone, others would have it too.
ClaimAll(chain, st, targets, exact) ==
    LET Contested(p, i) == \E q \in DOMAIN targets \ {p} : chain[q] = chain[p] /\ i \in targets[q]
        Join(now, p, i) ==
            IF <<i, chain[p]>> \in now.taken \/ (~exact /\ Contested(p, i)) THEN now
            ELSE [taken |-> now.taken \cup {<<i, chain[p]>>}, groups |-> MergeInto(now.groups, i, p)]
        Claim(now, p) == IF Cardinality(targets[p]) # 1 THEN now ELSE Join(now, p, CHOOSE t \in targets[p] : TRUE)
    IN  FoldLeft(Claim, st, InOrder(DOMAIN targets))

Pass(known, st, exact) ==
    LET live == {p \in DOMAIN known.chain : st.groups[p].there}
    IN  ClaimAll(known.chain, st, [p \in live |-> Candidates(known, st, p, exact)], exact)

\* A nameless group of a chain joins the named fork placed there: exact matches
\* first, then near ones, each chain's fork once.
BothPasses(known, gs) == Pass(known, Pass(known, [taken |-> {}, groups |-> gs], TRUE), FALSE).groups

FoldChainScopedIntoNamed(gs) == BothPasses(Standing(gs), gs)

\* A name no name places joins the one fork of that name placed at its moment.
MergeUnplacedIntoPlaced(gs) ==
    LET named == {i \in There(gs) : IsNamed(gs[i])}
        placed == {i \in named : \E m \in gs[i].members : m.on # {} /\ ~m.guess}
        Names(g) == {CanonicalForkId[n] : n \in {m.name : m \in g.members} \ {None}}
        Matches(hs, i) ==
            {j \in placed :
                /\ Names(hs[i]) \cap Names(hs[j]) # {}
                /\ \/ Blocks(hs[i].members) \cap Blocks(hs[j].members) # {}
                   \/ Instants(hs[i].members) \cap Instants(hs[j].members) # {}}
        Merge(hs, i) ==
            IF Cardinality(Matches(hs, i)) = 1 THEN MergeScopes(hs, CHOOSE j \in Matches(hs, i) : TRUE, i) ELSE hs
    IN  FoldLeft(Merge, gs, InOrder(named \ placed))

Merged(gs) ==
    MergeUnplacedIntoPlaced(FoldChainScopedIntoNamed(MergeSameActivation(
        CollapseIdentical(ClusterUnnamed(MergeUnscoped(MergeChainScopes(gs)))))))

-----------------------------------------------------------------------------
(* Forks                                                                   *)

\* The chains that are asked for a tip: none when no height needs one.
Asked(ms, chains, budget) ==
    IF budget > 0 /\ \E m \in ms : m.block # None /\ m.at = None
    THEN SubSeq(SetToSeq(chains), 1, Min({2, Cardinality(chains)})) ELSE <<>>

\* The first tip anyone gives, and the look-ups it took.
TipOf(asked) ==
    LET hit == SelectInSeq(asked, LAMBDA c : Tip[c] # NoTip)
    IN  IF hit = 0 THEN [lookups |-> Len(asked), tip |-> NoTip] ELSE [lookups |-> hit, tip |-> Tip[asked[hit]]]

\* buildFork
ForkAt(g, ms, chains, best) ==
    [networks |-> g.scopes, chains |-> chains, activation |-> best, blocks |-> Blocks(ms),
     state |-> BestState(ms), phase |-> ForkPhase(best, BestState(ms)), kind |-> ForkKind(ms, best), after |-> None,
     said |-> {m.said : m \in g.members}]

\* One group's fork and the look-ups it took; providers' windows only place it.
ForkOf(g, budget) ==
    LET ms == {m \in g.members : ~ProviderWindow(m)}
        chains == IF ChainsOf(ms) # {} THEN ChainsOf(ms) ELSE ChainsOf(g.members)
        found == TipOf(Asked(ms, chains, budget))
    IN  [lookups |-> found.lookups, fork |-> ForkAt(g, ms, chains, BestActivation(Claims(ms, found.tip)))]

\* A group of providers' windows alone is their maintenance, no fork.
Forks(gs) ==
    LET Add(st, i) ==
            LET made == ForkOf(gs[i], st.budget)
            IN  [budget |-> st.budget - made.lookups, forks |-> (i :> made.fork) @@ st.forks]
        forked == {i \in There(gs) : \E m \in gs[i].members : ~ProviderWindow(m)}
    IN  FoldLeft(Add, [budget |-> MaxTipLookups, forks |-> <<>>], InOrder(forked)).forks

\* inferPastForks: an undated fork gave way to one that was announced after it
\* and went live after its last mention, on a network both name.
InferPastForks(fs) ==
    LET live == {i \in DOMAIN fs : /\ fs[i].phase = "past" /\ fs[i].kind = "fork"
                                   /\ fs[i].activation # None /\ fs[i].activation.evidence < 2
                                   /\ fs[i].activation.at <= Now}
        After(i) == {j \in live \ {i} :
                        /\ fs[j].activation.at > Max(fs[i].said) /\ Min(fs[j].said) > Min(fs[i].said)
                        /\ fs[i].chains \cap fs[j].chains # {}
                        /\ \E n \in fs[i].networks \cap fs[j].networks : n.network # None}
        Undated(f) == f.phase = "unscheduled" /\ f.kind = "fork" /\ f.blocks = {}
    IN  [i \in DOMAIN fs |->
            IF Undated(fs[i]) /\ After(i) # {}
            THEN [fs[i] EXCEPT !.phase = "past",
                               !.after = CHOOSE j \in After(i) : \A k \in After(i) : fs[j].activation.at <= fs[k].activation.at]
            ELSE fs[i]]

-----------------------------------------------------------------------------

Init ==
    /\ mentions = <<>>
    /\ groups = <<>>
    /\ forks = <<>>

\* The feeds give one more item; buildForks runs over what they give.
Publish(m) ==
    /\ Len(mentions) < MaxMentions
    /\ m \notin Range(mentions)
    /\ mentions' = Append(mentions, m)
    /\ groups' = Merged(Grouped(mentions'))
    /\ forks' = InferPastForks(Forks(groups'))

Next == \E m \in Feed : Publish(m)

Spec == Init /\ [][Next]_vars

-----------------------------------------------------------------------------
(* Properties                                                              *)

\* However groups are merged, nothing said of a fork is lost or told twice: a
\* mention with an identity is in one group for each network it is about, and
\* in a fork unless only providers speak of it (forks.js:566, 690, 1008).
MentionsAreKept ==
    \A k \in DOMAIN mentions :
        LET m == PlausibleFork(mentions[k])
            In(s) == {i \in There(groups) : \E x \in groups[i].members : x.item = m.item /\ x.scope = s}
        IN  Identity(m) # Anonymous =>
                \A s \in ScopesOf(m) :
                    /\ Cardinality(In(s)) = 1
                    /\ ~ProviderWindow(m) => In(s) \subseteq DOMAIN forks

\* The day a fork is shown for is the one the newest word of its own sources
\* gives: no report by others, however new, and no older word moves it, and an
\* instant stands for a day only if it falls on it (forks.js:443-485).
NewestOwnWordDates ==
    \A i \in DOMAIN forks :
        LET own == {m \in groups[i].members : ~ProviderWindow(m) /\ SourceRank(m) = 0 /\ m.at # None}
            newest == CHOOSE m \in own : \A n \in own : m.seen >= n.seen
        IN  own # {} => forks[i].activation.at \div 24 = newest.at \div 24

\* "Named groups on the same chains that activate at the same height or the same
\* second are one activation under several names" (forks.js:682-683): no two
\* groups that are left are such.
OneActivationOneFork ==
    \A i, j \in There(groups) :
        LET g == groups[i]
            h == groups[j]
        IN  /\ i # j /\ IsNamed(g) /\ IsNamed(h)
            /\ ChainsOf(g.members) = ChainsOf(h.members) /\ ChainsOf(g.members) # {}
            => Instants(g.members) \cap Instants(h.members) = {} /\ Blocks(g.members) \cap Blocks(h.members) = {}
=============================================================================
