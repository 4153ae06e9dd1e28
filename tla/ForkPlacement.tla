--------------------------- MODULE ForkPlacement ---------------------------
(***************************************************************************)
(* Which chains a fork is about, and the lists that are served of forks    *)
(* (src/src/services/forks.js).  A network that is only a qualifier        *)
(* ("Mainnet") is read from the item's own chains; a named network is      *)
(* looked up in the registry; what no name places is placed among the      *)
(* chains the reporting client runs (sources/networkResearch.js), by       *)
(* name, then by kind.                                                     *)
(*                                                                         *)
(* A network's name is the set of its words.  A mention is [id, network,   *)
(* bare, chains, chosen, affected, repo, phase, kind, dated]: bare is      *)
(* "main", "test", "any" or None, chosen the chains the feed's model chose *)
(* for the fork, affected the networks the item is about.  One that names  *)
(* a network that forks is scoped to that one here: the test networks of   *)
(* its family beside it make scopes of their own (ForkGroups).             *)
(***************************************************************************)
EXTENDS Integers, Sequences, FiniteSets, SequencesExt, FiniteSetsExt

CONSTANTS
    Mention,
    Registry,   \* [id -> [words, test, deprecated]], listed in the order of the ids
    Lookups,    \* [network -> Seq(SUBSET id)]: what scopeLookups finds, most specific first
    RepoWords,  \* [repository -> its name's words]
    Links,      \* [repository -> SUBSET id]: the research's repository links
    Overrides,  \* [repository -> [exclude, keep, drop, add]], of those reviewed
    KindWords,  \* isKindWord: words that say a kind of network
    TestWords,  \* isTestNetworkWord, some of them kind words
    OwnNames,   \* chainOfBareName: kind words that are a network's own name
    Near,       \* pairs of words one of which contains the other
    None,
    PerScope,   \* MAX_CHAINS_PER_SCOPE
    PerProject, \* PROJECT_CLIENT_CHAINS
    Phases, Kinds

VARIABLE forks \* what is built: {[id, mention, chains, unplaced]}

vars == forks

Init == forks = {}

IsTestChain(id) == Registry[id].test

\* The chains each repository runs, as the review corrected them.
RepositoryChains(repo) ==
    IF repo \notin DOMAIN Overrides THEN Links[repo]
    ELSE LET o == Overrides[repo]
             limited == IF o.keep = None THEN Links[repo] ELSE Links[repo] \cap o.keep
         IN  IF o.exclude THEN {} ELSE (limited \ o.drop) \cup o.add

-----------------------------------------------------------------------------
(* A network that is only a qualifier                                      *)

OfKind(bare, test) == bare = "any" \/ (bare = "test") = test

\* Chains of that name, but for a "testnet" in it.
Namesakes(name) == {c \in DOMAIN Registry : Registry[c].words \ {"testnet"} = name \ {"testnet"}}

\* By the tag of the last one listed of that name, else by its words.
IsTestName(name) ==
    IF Namesakes(name) # {} THEN IsTestChain(Max(Namesakes(name))) ELSE name \cap TestWords # {}

\* Mutant: the networks that are named besides are kept, of whatever kind.
QualifyTheChains(m) ==
    LET matching == {c \in m.chains \cap DOMAIN Registry : OfKind(m.bare, IsTestChain(c))}
    IN  [m EXCEPT !.chains = matching, !.network = IF Cardinality(matching) = 1 THEN Registry[CHOOSE c \in matching : TRUE].words ELSE None]

\* Its own chains of that kind: one names the network; none, and the chains go.
QualifyBareNetwork(m) ==
    IF m.bare = None THEN m
    ELSE LET matching == {c \in m.chains \cap DOMAIN Registry : OfKind(m.bare, IsTestChain(c))}
         IN  [m EXCEPT
                !.chains = matching,
                !.affected = {w \in m.affected : OfKind(m.bare, IsTestName(w))},
                !.network = IF Cardinality(matching) = 1 THEN Registry[CHOOSE c \in matching : TRUE].words ELSE None]

-----------------------------------------------------------------------------
(* By the registry's names                                                 *)

\* chainResolver: the most specific name anything has; a name of a main network
\* and of a test one means the main one, unless it says test network.
ChainResolver(network) ==
    LET Meant(ids) == LET main == {c \in ids : ~IsTestChain(c)}
                      IN  IF network \cap TestWords = {} /\ main # {} THEN main ELSE ids
        some == {i \in DOMAIN Lookups[network] : Lookups[network][i] # {}}
    IN  IF network \notin DOMAIN Lookups \/ some = {} THEN {}
        ELSE LET ids == Meant(Lookups[network][Min(some)]) IN IF Cardinality(ids) <= PerScope THEN ids ELSE {}

-----------------------------------------------------------------------------
(* Among the chains a client runs                                          *)

KindOnly == KindWords \ TestWords

\* 2 for the word itself, 1 for one that contains it or that it contains.
Carried(own, w) == IF w \in own THEN 2 ELSE IF \E o \in own : <<o, w>> \in Near THEN 1 ELSE 0

Score(id, repo, w) == Max({Carried(Registry[id].words \ KindOnly, w), Carried(RepoWords[repo], w)})

\* A word many ecosystems use counts half.
Named(id, repo, words) == MapThenSumSet(LAMBDA w : Score(id, repo, w) * (IF w \in KindWords THEN 1 ELSE 2), words)

Identified(id, repo, words) == \E w \in words : (w \in KindWords => w \in OwnNames) /\ Score(id, repo, w) > 0

KindAgrees(id, network) ==
    (IF IsTestChain(id) = (network \cap TestWords # {}) THEN 2 ELSE 0) + (IF Registry[id].deprecated THEN 0 ELSE 1)

\* Words of its name the network did not say.
Unsaid(id, words) == Cardinality({o \in Registry[id].words \ KindOnly : \A w \in words : Carried({o}, w) = 0})

UnsaidKind(id, network) == Cardinality((Registry[id].words \cap KindOnly) \ network)

Best(ids, Worth(_)) == {c \in ids : \A d \in ids : Worth(d) <= Worth(c)}

\* network is {} when none is named.
RepositoryResolver(repo, network) ==
    LET words      == network \ KindOnly
        candidates == RepositoryChains(repo) \cap DOMAIN Registry
        byName     == Best(candidates, LAMBDA c : Named(c, repo, words))
        guessing   == network = {} \/ ~\E c \in byName : Identified(c, repo, words)
        nearest    == Best(Best(byName, LAMBDA c : KindAgrees(c, network)), LAMBDA c : -Unsaid(c, words))
        best       == IF guessing THEN nearest ELSE Best(nearest, LAMBDA c : -UnsaidKind(c, network))
    IN  IF guessing /\ Cardinality(candidates) > PerProject THEN {}
        ELSE IF Cardinality(best) <= (IF guessing THEN 1 ELSE PerScope) THEN best ELSE {}

\* The qualifier a network was dropped for still picks among the client's chains.
Qualifier(m) == CASE m.bare = "test" -> {"testnet"} [] m.bare = "main" -> {"mainnet"} [] OTHER -> {}

\* namedChainIds: by the network that forks, or by the chains the item declares that
\* have its name, when it is about no other; with none named, those it declares and
\* those the scope finds.
NamedChainIds(m, scope) ==
    IF m.network = None THEN m.chains \cup (IF scope = None THEN {} ELSE ChainResolver(scope))
    ELSE IF ChainResolver(scope) # {} THEN ChainResolver(scope)
    ELSE IF m.affected = {scope} THEN {c \in m.chains \cap DOMAIN Registry : scope \subseteq Registry[c].words}
    ELSE {}

\* A test network the registry does not list is under the one it tests, when the
\* repository is that one's.
Tested(repo, scope) ==
    LET words == scope \ TestWords
    IN  IF words = scope \/ words \cap RepoWords[repo] = {} THEN {} ELSE ChainResolver(words)

\* memberChainIds: a release is on the chains chosen for it; else by name; else among
\* the chains its repository runs.
MemberChainIds(m, scope) ==
    LET byName == NamedChainIds(m, scope)
        byRepo == RepositoryResolver(m.repo, IF scope = None THEN Qualifier(m) ELSE scope)
    IN  CASE m.repo # None /\ m.chosen # {} -> m.chosen
          [] m.repo = None \/ byName # {} -> byName
          [] byRepo # {} \/ m.network = None -> byRepo
          [] OTHER -> Tested(m.repo, scope)

\* The names it is under; none, and its own chains are its scopes, or it has no scope.
ScopeNames(m) == IF m.network # None THEN {m.network} ELSE m.affected

ChainsOf(m) ==
    IF ScopeNames(m) = {} THEN MemberChainIds(m, None) ELSE UNION {MemberChainIds(m, n) : n \in ScopeNames(m)}

UnplacedReason(m, chains) ==
    IF chains # {} THEN None
    ELSE IF m.repo # None /\ RepositoryChains(m.repo) \cap DOMAIN Registry # {} THEN "ambiguous"
    ELSE IF ScopeNames(m) = {} THEN "no_network_named" ELSE "no_matching_chain"

Build(mention) ==
    /\ \A f \in forks : f.id # mention.id
    /\ LET m == QualifyBareNetwork(mention)
       IN  forks' = forks \cup {[id |-> m.id, mention |-> mention, chains |-> ChainsOf(m), unplaced |-> UnplacedReason(m, ChainsOf(m))]}

Next == \E m \in Mention : Build(m)

Spec == Init /\ [][Next]_vars

-----------------------------------------------------------------------------
(* What is served                                                          *)

CountOfPhase(listed, phase, p) == Cardinality({f \in listed : f.mention.phase = p})

GetForks(chain, phase, scheduledOnly, upgrades, unplaced) ==
    LET filtered == {f \in forks : (chain # None => chain \in f.chains) /\ (unplaced => f.unplaced # None)}
        listed   == {f \in filtered : upgrades \/ f.mention.kind # "upgrade"}
        matched  == {f \in listed : (phase # None => f.mention.phase = phase) /\ (scheduledOnly => f.mention.dated)}
    IN  [matched |-> matched,
         unplacedCount |-> Cardinality({f \in matched : f.unplaced # None}),
         byKind |-> [k \in Kinds |-> Cardinality({f \in filtered : f.mention.kind = k})],
         byPhase |-> [p \in Phases |-> CountOfPhase(listed, phase, p)]]

-----------------------------------------------------------------------------
(* Properties                                                              *)

\* A name that networks of both kinds have, or none.
Unclear(name) == {IsTestChain(c) : c \in Namesakes(name)} \notin {{TRUE}, {FALSE}}

\* "keeping it would put Polygon mainnet's fork under the testnet" (services/forks.js:221):
\* what an item says of "Mainnet", or of "Testnet", is on no chain of the other kind by
\* its own chains or by a name beside it whose kind the registry knows; only the feed's
\* model, a name of both kinds or of none, and a client none of whose chains is of that
\* kind bring it there.
KindIsKept ==
    \A f \in forks : f.mention.bare \in {"main", "test"} =>
        LET m == f.mention
            client == IF m.repo = None THEN {} ELSE RepositoryChains(m.repo)
        IN  \A c \in f.chains :
                \/ IsTestChain(c) = (m.bare = "test")
                \/ m.repo # None /\ c \in m.chosen
                \/ \E n \in m.affected : Unclear(n) /\ c \in ChainResolver(n) \cup client
                \/ client # {} /\ \A d \in client : IsTestChain(d) = IsTestChain(c)

\* "the closest is taken rather than none" (services/forks.js:90): a release for a network
\* that no name places is on the one of its client's living chains that is called just
\* as the network and of its kind.
NamesakeIsFound ==
    \A f \in forks : f.mention.repo # None /\ f.mention.chosen = {} /\ f.mention.network # None =>
        LET n == f.mention.network
            called == {c \in RepositoryChains(f.mention.repo) \cap DOMAIN Registry : Registry[c].words = n}
        IN  NamedChainIds(f.mention, n) = {} /\ n \ KindWords # {} =>
                \A c \in called :
                    called = {c} /\ ~Registry[c].deprecated /\ IsTestChain(c) = (n \cap TestWords # {}) => f.chains = {c}

\* "Counting after it makes byPhase describe the filter rather than the world"
\* (services/forks.js:288): the number of a phase, asked in whatever way, is how many
\* that phase's own list has.
CountsDescribeTheWorld ==
    \A chain \in DOMAIN Registry \cup {None}, p \in Phases, asked \in Phases \cup {None}, s, u, n \in BOOLEAN :
        GetForks(chain, asked, s, u, n).byPhase[p] = Cardinality(GetForks(chain, p, FALSE, u, n).matched)
=============================================================================
