----------------------------- MODULE ChainIndex -----------------------------
(***************************************************************************)
(* The index of chains (src/src/store/indexer.js) and what decides its     *)
(* records: which sources describe the same network (sourceIdentity.js),   *)
(* whether that is a test network (networkType.js), whether it is dead,    *)
(* and the relations both ways.  IndexData builds it; L2BEAT's refresh     *)
(* changes it in place (chainRefresher.js).  What reads it: the walk along *)
(* the relations (src/src/domain/relations.js) and the validation rules    *)
(* about what the registries say (src/src/services/validation.js).         *)
(*                                                                         *)
(* Abstracted: an entry is what the decisions read of it; two entries      *)
(* describe the same network when their `net` is equal or one is "bare"    *)
(* (too little to tell).  Endpoint lists, bridges, names and Beacon tags   *)
(* are left out.                                                           *)
(***************************************************************************)
EXTENDS Integers, SequencesExt

CONSTANTS
    Registries,    \* what the three registries may hold
    Batches,       \* what L2BEAT may answer: projects, chain ID to category
    MinHintSample, \* MIN_HINT_SAMPLE
    None

VARIABLES
    raw,      \* cachedData.chains, .chainlist, .theGraph: chain ID to entry, per source
    excluded, \* indexed.identityConflicts: per source, the chains it is left out of
    index     \* indexed.byChainId

vars == <<raw, excluded, index>>

Source == {"chains", "theGraph", "chainlist"}

\* A registry is a list; what is missing is no chain and no status.
ASSUME IndexAssumption ==
    /\ \A r \in Registries, s \in Source : IsFiniteSet(DOMAIN r[s]) /\ None \notin DOMAIN r[s]
    /\ \A r \in Registries : \A id \in DOMAIN r["theGraph"] : IsFiniteSet(r["theGraph"][id].relations)
    /\ None \notin {"active", "deprecated", "curated", "inherited"}

-----------------------------------------------------------------------------
(* Identity                                                                *)

SameNetwork(a, b) == a.net = b.net \/ "bare" \in {a.net, b.net}

\* SOURCE_PRECEDENCE, as the bit a source has in resolveIdentity's mask.
Bit == [s \in Source |-> CASE s = "chains" -> 1 [] s = "theGraph" -> 2 [] s = "chainlist" -> 4]

\* Mutant: whoever agrees with the first source.
KeptByFirst(r, id) ==
    LET With == {s \in Source : id \in DOMAIN r[s]}
        First == CHOOSE s \in With : \A t \in With : Bit[s] <= Bit[t]
    IN  {s \in With : SameNetwork(r[s][id], r[First][id])}

\* The largest group of sources that agree, and the earliest of those.
Kept(r, id) ==
    LET Groups == {g \in SUBSET {s \in Source : id \in DOMAIN r[s]} :
                      \A a, b \in g : SameNetwork(r[a][id], r[b][id])}
        Largest == {g \in Groups : \A h \in Groups : Cardinality(h) <= Cardinality(g)}
        Mask(g) == (IF "chains" \in g THEN Bit["chains"] ELSE 0) + (IF "theGraph" \in g THEN Bit["theGraph"] ELSE 0)
                   + (IF "chainlist" \in g THEN Bit["chainlist"] ELSE 0)
    IN  CHOOSE g \in Largest : \A h \in Largest : Mask(g) <= Mask(h)

\* findIdentityConflicts
Excluded(r) == [s \in Source |-> {id \in DOMAIN r[s] : s \notin Kept(r, id)}]

\* The entries the index and validation read.
Clean(r, x) == [s \in Source |-> Restrict(r[s], DOMAIN r[s] \ x[s])]

\* Every chain some source has.
Ids(c) == UNION {DOMAIN c[s] : s \in Source}

Stated(c, id, s) == id \in DOMAIN c[s]

-----------------------------------------------------------------------------
(* Mainnet or test network                                                 *)

\* chains.json's parent, chainlist's only where chains.json has none.
ParentEntry(c, id) ==
    LET With == {s \in {"chains", "chainlist"} : Stated(c, id, s) /\ c[s][id].parent # None}
    IN  IF "chains" \in With THEN "chains" ELSE IF With # {} THEN "chainlist" ELSE None

ParentOf(c, id) == IF ParentEntry(c, id) = None THEN None ELSE c[ParentEntry(c, id)][id].parent.id

Claim(s, field, value, strength) == [source |-> s, field |-> field, value |-> value, strength |-> strength]

\* parentType: what its parent is decided to be; words: hostnames are read too.
NetworkTypeClaims(c, id, words, parentType) ==
    LET Parent == ParentEntry(c, id)
        Entry(s) == c[s][id]
        All(f(_)) == UNION {IF Stated(c, id, s) THEN f(s) ELSE {} : s \in Source}
        GraphSays(s) ==
            IF s # "theGraph" THEN {}
            ELSE {Claim(s, "networkType", v, 3) : v \in {Entry(s).type} \ {None}}
                 \cup (IF \E x \in Entry(s).relations : x.kind = "testnetOf"
                       THEN {Claim(s, "relations", "testnet", 3)} ELSE {})
        ParentSays(s) ==
            IF s = "theGraph" \/ Entry(s).parent = None THEN {}
            ELSE IF Entry(s).parent.type = "testnet" THEN {Claim(s, "parent.type", "testnet", 3)}
            ELSE IF s = Parent /\ parentType # None THEN {Claim(s, "parent", parentType, 1)} ELSE {}
        NameSays(s) == {Claim(s, "name", v, 2) : v \in {Entry(s).name} \cap {"testnet", "mainnet"}}
        \* chainlist copies chains.json's slip44: one claim.
        Slip44Says(s) ==
            IF s # "theGraph" /\ Entry(s).slip44 /\ (s = "chains" \/ ~(Stated(c, id, "chains") /\ c.chains[id].slip44))
            THEN {Claim(s, "slip44", "testnet", 1)} ELSE {}
        FlagSays(s) == IF s # "chainlist" THEN {} ELSE {Claim(s, "isTestnet", v, 1) : v \in {Entry(s).flag} \ {None}}
        Hosts == UNION {{c[s][id].host} : s \in {x \in Source : Stated(c, id, x)}}
        HostSays ==
            IF ~words THEN {}
            ELSE {Claim("endpoints", "hosts", v, 1) :
                     v \in IF "testnet" \in Hosts THEN {"testnet"} ELSE Hosts \cap {"mainnet"}}
    IN  All(GraphSays) \cup All(ParentSays) \cup All(NameSays) \cup All(Slip44Says) \cup All(FlagSays) \cup HostSays

Values(claims) == {x.value : x \in claims}
OfStrength(claims, n) == {x \in claims : x.strength = n}

\* Per hint, how often it agreed where the type is stated; and the base rate.
LearnHintReliability(claimsOf) ==
    LET Truth(id) == Values(OfStrength(claimsOf[id], 3))
        Known == {id \in DOMAIN claimsOf : Cardinality(Truth(id)) = 1}
        Made(k) == {id \in Known : k \in claimsOf[id]}
    IN  [hint |-> [k \in UNION {OfStrength(claimsOf[id], 1) : id \in Known} |->
                      [agree |-> Cardinality({id \in Made(k) : Truth(id) = {k.value}}), total |-> Cardinality(Made(k))]],
         testnets |-> Cardinality({id \in Known : Truth(id) = {"testnet"}}),
         total |-> Cardinality(Known)]

\* 100 times the log-odds, clamped, of the accuracies and base rates that five chains can show.
LogOdds(n, of) ==
    LET p == (100 * n) \div of
    IN  CASE p >= 99 -> 460 [] p \in 80..98 -> 138 [] p \in 75..79 -> 110
          [] p \in 66..74 -> 69 [] p \in 60..65 -> 41 [] p < 60 -> 4

ResolveNetworkType(claims, learned) ==
    LET Top == Max({x.strength : x \in claims})
        Strongest == OfStrength(claims, Top)
        Known(x) == x \in DOMAIN learned.hint /\ learned.hint[x].total >= MinHintSample
        Weight(x) == LogOdds(learned.hint[x].agree, learned.hint[x].total)
        Base(v) == IF learned.total < MinHintSample \/ learned.testnets \in {0, learned.total} THEN 0
                   ELSE LET n == IF v = "testnet" THEN learned.testnets ELSE learned.total - learned.testnets
                        IN  IF 2 * n > learned.total THEN LogOdds(n, learned.total) ELSE 0
        Score(v) == Base(v) + MapThenSumSet(Weight, {x \in Strongest : x.value = v})
    IN  IF claims = {} THEN None
        ELSE IF Cardinality(Values(Strongest)) = 1 THEN (CHOOSE x \in Strongest : TRUE).value
        ELSE IF Top = 1 /\ (\A x \in Strongest : Known(x)) /\ Score("mainnet") > Score("testnet") THEN "mainnet"
        ELSE "testnet"

\* What n steps make of a value.
After(step, n, value) ==
    LET at[i \in 0..n] == IF i = 0 THEN value ELSE step[at[i - 1]]
    IN  at[n]

\* Chains whose parents lead back to themselves.
ParentCycles(c) ==
    LET Above(D) == {ParentOf(c, id) : id \in D} \cap Ids(c)
        Ancestors(id) == After([D \in SUBSET Ids(c) |-> D \cup Above(D)], Cardinality(Ids(c)), Above({id}))
    IN  {id \in Ids(c) : id \in Ancestors(id)}

\* A parent's type: none where parents run in a circle.
TypeIn(types, cyclic, p) == IF p \in DOMAIN types \ cyclic THEN types[p] ELSE None

\* What every source says of every chain, once its parent's type is known.
AllClaims(c, types, cyclic) ==
    [id \in Ids(c) |-> NetworkTypeClaims(c, id, TRUE, TypeIn(types, cyclic, ParentOf(c, id)))]

\* The types by what was learned: a chain's after its parent's.
FinalTypes(c, cyclic, learned) ==
    LET final[id \in Ids(c)] ==
            LET p == ParentOf(c, id)
            IN  ResolveNetworkType(
                    NetworkTypeClaims(c, id, TRUE, IF p \in Ids(c) \ cyclic THEN final[p] ELSE None), learned)
    IN  final

\* classifyNetworkTypes: the types, and the claims and what was learned of them
\* that validation reads.
ClassifyNetworkTypes(c) ==
    LET cyclic == ParentCycles(c)
        own == [id \in Ids(c) |-> NetworkTypeClaims(c, id, FALSE, None)]
        ownLearned == LearnHintReliability(own)
        first == [id \in Ids(c) |-> ResolveNetworkType(own[id], ownLearned)]
        learned == LearnHintReliability(AllClaims(c, first, cyclic))
        types == FinalTypes(c, cyclic, learned)
    IN  [types |-> types, claims |-> AllClaims(c, types, cyclic), learned |-> learned]

-----------------------------------------------------------------------------
(* Records                                                                 *)

Relation(kind, id, s) == [kind |-> kind, chainId |-> id, source |-> s]

\* The Graph's relations are added as they are.
GraphRelations(c, id) ==
    IF Stated(c, id, "theGraph") THEN {Relation(x.kind, x.id, "theGraph") : x \in c.theGraph[id].relations} ELSE {}

\* A parent both registries name counts once.
Relations(c, id) ==
    LET Upward(s) ==
            IF Stated(c, id, s) /\ c[s][id].parent # None
            THEN LET p == c[s][id].parent
                 IN  {Relation(IF p.type = "L2" THEN "l2Of" ELSE "testnetOf", p.id, s)}
            ELSE {}
        New == {x \in Upward("chainlist") : \A y \in Upward("chains") : y.kind # x.kind \/ y.chainId # x.chainId}
    IN  Upward("chains") \cup New \cup GraphRelations(c, id)

\* The status a source states, chains.json before chainlist.
StatusSaid(c, id) ==
    LET Say == {s \in {"chains", "chainlist"} : Stated(c, id, s) /\ c[s][id].status # None}
    IN  IF Say = {} THEN None ELSE c[IF "chains" \in Say THEN "chains" ELSE "chainlist"][id].status

\* isKnownEolChain, by the record's name: the one of the source that created it.
KnownEol(c, id) ==
    c[IF Stated(c, id, "chains") THEN "chains" ELSE IF Stated(c, id, "chainlist") THEN "chainlist" ELSE "theGraph"][id].name = "eol"

Curated(c) == {id \in Ids(c) : StatusSaid(c, id) = None /\ KnownEol(c, id)}

BuiltOn(up, id) == {x.chainId : x \in {y \in up[id] : y.kind \in {"l2Of", "testnetOf"}}}

Heirs(up, D) == {id \in DOMAIN up : BuiltOn(up, id) \cap D # {}}

\* Mutant: propagateDeprecatedStatus without its loop.
DeprecatedInOneRound(up, D) == D \cup Heirs(up, D)

\* From the relations `up` and the chains D that are deprecated by themselves.
Deprecated(up, D) == After([dead \in SUBSET DOMAIN up |-> dead \cup Heirs(up, dead)], Cardinality(DOMAIN up), D)

\* addReverseRelations: one per child and kind; nothing reads its source.
Downward(up, id) ==
    LET Ask(kind) == {child \in DOMAIN up : \E x \in up[child] : x.kind = kind /\ x.chainId = id}
    IN  {Relation("parentOf", child, None) : child \in Ask("l2Of")}
        \cup {Relation("mainnetOf", child, None) : child \in Ask("testnetOf")}

\* L2BEAT_DERIVED_TAGS
DerivedTags == {"L2", "ZK", "Validium", "Optimium"}

\* Projects L2BEAT dropped lose its block and tags, those it lists get them.
WithL2Beat(ix, projects) ==
    [id \in DOMAIN ix |->
        IF id \in DOMAIN projects
        THEN [ix[id] EXCEPT !.l2Beat = projects[id],
                            !.tags = @ \cup {"L2"} \cup ({projects[id]} \cap DerivedTags)]
        ELSE IF ix[id].l2Beat # None
             THEN [ix[id] EXCEPT !.l2Beat = None, !.tags = @ \ DerivedTags]
             ELSE ix[id]]

\* The records, before L2BEAT: chains.json, chainlist, The Graph, the types,
\* the dead chains, the reverse relations.
Records(c) ==
    LET types == ClassifyNetworkTypes(c).types
        up == [id \in Ids(c) |-> Relations(c, id)]
        said == [id \in Ids(c) |-> StatusSaid(c, id)]
        seeds == Curated(c) \cup {id \in Ids(c) : said[id] = "deprecated"}
        dead == Deprecated(up, seeds)
    IN  [id \in Ids(c) |->
            [sources |-> {s \in Source : Stated(c, id, s)},
             relations |-> up[id] \cup Downward(up, id),
             tags |-> (IF \E x \in up[id] : x.kind = "l2Of" THEN {"L2"} ELSE {})
                      \cup (IF types[id] = "testnet" THEN {"Testnet"} ELSE {}),
             status |-> IF id \in dead THEN "deprecated" ELSE IF said[id] = None THEN "active" ELSE said[id],
             reason |-> IF id \in Curated(c) THEN "curated" ELSE IF id \in dead \ seeds THEN "inherited" ELSE None,
             l2Beat |-> None]]

-----------------------------------------------------------------------------

\* loadData's indexing: all sources at once, L2BEAT's among them.  Every reload
\* starts from here again.
IndexData(r, batches) ==
    /\ raw = r
    /\ excluded = Excluded(r)
    /\ \E records \in {Records(Clean(r, excluded))}, b \in batches : index = WithL2Beat(records, b)

Init == \E r \in Registries : IndexData(r, Batches)

\* processL2BeatBatch, once its fetch has answered and the data is still the same.
ProcessL2BeatBatch ==
    /\ \E b \in Batches : index' = WithL2Beat(index, b)
    /\ UNCHANGED <<raw, excluded>>

Next == ProcessL2BeatBatch

Spec == Init /\ [][Next]_vars

-----------------------------------------------------------------------------
(* Walking the relations: traverseRelations, as the loop it is             *)

Start(id) == [queue |-> <<[id |-> id, depth |-> 0]>>, visited |-> {}, depth |-> [x \in {} |-> 0], edges |-> {}]

\* The relation and its mirror image, of one kind, are one edge.
SameEdge(e, f) == {e.from, e.to} = {f.from, f.to} /\ e.kind = f.kind

\* collectRelationEdges: the edges it adds, and whom the walk will visit.
Edges(walk, id) ==
    LET all == {[from |-> id, to |-> x.chainId, kind |-> x.kind] : x \in {y \in index[id].relations : y.chainId # None}}
    IN  {e \in all : \A f \in walk.edges : ~SameEdge(e, f)}

Unvisited(walk, id) == {x.chainId : x \in index[id].relations} \ (walk.visited \cup {id, None})

\* Mutant: the newest first.
TakeNewest(queue) == <<Last(queue), Front(queue)>>

TakeOldest(queue) == <<Head(queue), Tail(queue)>>

VisitNext(walk, maxDepth) ==
    LET here == TakeOldest(walk.queue)[1]
        rest == TakeOldest(walk.queue)[2]
        on == here.depth < maxDepth
    IN  IF here.id \in walk.visited \/ here.id \notin DOMAIN index
        THEN [walk EXCEPT !.queue = rest, !.visited = @ \cup {here.id}]
        ELSE [queue |-> IF ~on THEN rest
                        ELSE rest \o SetToSeq({[id |-> x, depth |-> here.depth + 1] : x \in Unvisited(walk, here.id)}),
              visited |-> walk.visited \cup {here.id},
              depth |-> [x \in DOMAIN walk.depth \cup {here.id} |-> IF x = here.id THEN here.depth ELSE walk.depth[x]],
              edges |-> walk.edges \cup IF on THEN Edges(walk, here.id) ELSE {}]

\* The chains a walk can come across.
Nodes == DOMAIN index \cup UNION {{x.chainId : x \in index[id].relations} : id \in DOMAIN index}

\* A chain is queued at most once by each chain, so the queue drains.
TraverseRelations(id, maxDepth) ==
    LET n == Cardinality(Nodes)
        walk[i \in 0..n * n + 1] ==
            IF i = 0 THEN Start(id)
            ELSE LET before == walk[i - 1] IN IF before.queue = <<>> THEN before ELSE VisitNext(before, maxDepth)
    IN  walk[n * n + 1]

-----------------------------------------------------------------------------
(* The validation rules that check the index against the registries it was *)
(* built from.  A rule is the set of chains it reports.                    *)

\* getChainFromSource: what the record was not built from is no evidence.
Said == Clean(raw, excluded)

Indexes == DOMAIN index

Says(id, kind, sources) ==
    \E x \in index[id].relations : x.kind = kind /\ x.source \in sources /\ x.chainId # None

Rule1RelationConflicts ==
    {id \in Indexes : \/ Says(id, "testnetOf", {"theGraph"}) /\ "Testnet" \notin index[id].tags
                      \/ Says(id, "l2Of", {"theGraph"}) /\ "L2" \notin index[id].tags}

\* Whose sources disagree, and what the rule reports them as, by the claims as
\* the indexer's last pass left them (setNetworkTypeContext).
Rule2NetworkTypeClaims ==
    LET read == ClassifyNetworkTypes(Said)
    IN  {[chainId |-> id, resolved |-> ResolveNetworkType(read.claims[id], read.learned)] :
            id \in {i \in Indexes : Cardinality(Values(read.claims[i])) > 1}}

StatusesInSources(id) ==
    {Said[s][id].status : s \in {x \in {"chains", "chainlist"} : Stated(Said, id, x)}} \ {None}

Rule5StatusConflicts == {id \in Indexes : {"deprecated", "active"} \subseteq StatusesInSources(id)}

Rule6DeprecatedNotUpstream ==
    {id \in Indexes : index[id].status = "deprecated" /\ "deprecated" \notin StatusesInSources(id)}

Rule17ActiveChildOfDeprecatedParent ==
    {id \in Indexes :
        /\ index[id].status # "deprecated"
        /\ \E x \in index[id].relations :
              /\ x.kind \in {"l2Of", "testnetOf"}
              /\ x.chainId \in Indexes /\ index[x.chainId].status = "deprecated"}

Rule20ChainIdCollisions == UNION Range(excluded)

-----------------------------------------------------------------------------
(* Properties                                                              *)

\* A chain is deprecated exactly when a source says so, or it is a known dead
\* network no source has a status for, or it is built on or tests such a chain,
\* at any remove; never because of what is built on it (indexer.js:404-420).
StatusIsInherited ==
    LET Seeds == {id \in DOMAIN index :
                     \/ StatusSaid(Said, id) = "deprecated"
                     \/ StatusSaid(Said, id) = None /\ KnownEol(Said, id)}
        Closed(D) == \A id \in DOMAIN index : \A x \in index[id].relations :
                        x.kind \in {"l2Of", "testnetOf"} /\ x.chainId \in D => id \in D
        Dead == {D \in SUBSET DOMAIN index : Seeds \subseteq D /\ Closed(D)}
    IN  {id \in DOMAIN index : index[id].status = "deprecated"} = {id \in DOMAIN index : \A D \in Dead : id \in D}

Neighbours(D) == (UNION {{x.chainId : x \in index[id].relations} : id \in D}) \cap DOMAIN index

\* The chains within n relations of a chain.
Within(id, n) == After([D \in SUBSET DOMAIN index |-> D \cup Neighbours(D)], n, {id})

\* A traversal finds each chain within its depth once, at its distance, and
\* every relation of the chains it went on from (relations.js:86-130).
TraversalIsBreadthFirst ==
    \A id \in DOMAIN index, maxDepth \in 1..3 :
        LET walk == TraverseRelations(id, maxDepth)
        IN  /\ walk.queue = <<>>
            /\ DOMAIN walk.depth = Within(id, maxDepth)
            /\ \A x \in DOMAIN walk.depth, n \in 0..maxDepth : walk.depth[x] <= n <=> x \in Within(id, n)
            /\ \A x \in Within(id, maxDepth - 1) : \A y \in index[x].relations :
                  Cardinality({e \in walk.edges : SameEdge(e, [from |-> x, to |-> y.chainId, kind |-> y.kind])})
                      = IF y.chainId = None THEN 0 ELSE 1

\* Rule 2 explains the tag: resolving the claims again, as validation reads
\* them, gives the type the chain is tagged with (validation.js:81-92).
TagMatchesClaims ==
    \A e \in Rule2NetworkTypeClaims : (e.resolved = "testnet") <=> ("Testnet" \in index[e.chainId].tags)

\* A death is accounted for: a source states it, or rule 6 reports it with its
\* reason, and rule 17 never finds a survivor ("any hit means the propagation
\* pass regressed").  Where the sources conflict, rule 5, chains.json's word
\* counts, unless a parent is dead (validation.js:167-210, 522-543).
DeathsAreAccountedFor ==
    /\ Rule17ActiveChildOfDeprecatedParent = {}
    /\ \A id \in Rule6DeprecatedNotUpstream : index[id].reason # None
    /\ \A id \in Rule5StatusConflicts :
          index[id].status = Said.chains[id].status \/ index[id].reason = "inherited"

\* Whatever the registries file under an ID, its record describes one network:
\* it is built of sources that agree with each other, and rule 20 reports the
\* rest (validation.js:609-627, sourceIdentity.js:75-101).
RecordsDescribeOneNetwork ==
    \A id \in UNION {DOMAIN raw[s] : s \in Source} :
        /\ id \in Indexes /\ index[id].sources # {}
        /\ \A a, b \in index[id].sources : SameNetwork(raw[a][id], raw[b][id])
        /\ id \notin Rule20ChainIdCollisions =>
              \A s \in Source : id \in DOMAIN raw[s] => s \in index[id].sources

\* "Tag cleanup is conservative - only tags that this function is the sole
\* emitter of are removed" (indexer.js:503-504): rule 1 never finds a chain The
\* Graph calls an L2 without the tag, whatever L2BEAT lists.
L2TagStands == \A id \in Rule1RelationConflicts : ~Says(id, "l2Of", {"theGraph"})
=============================================================================
