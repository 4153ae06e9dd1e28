------------------------------ MODULE Timeline ------------------------------
(***************************************************************************)
(* The event timeline (src/src/services/timeline.js, buildTimeline): the   *)
(* forks, what a later fork shows to be past (inferPastForks, domain/      *)
(* forks.js), and, grouped under them or beside them, providers' windows,  *)
(* client releases and articles.                                           *)
(*                                                                         *)
(* A network is told by its chains; what a text names is a set of names,   *)
(* each resolved as forkNames.js has learned it.  A release's component is *)
(* part of its client, and no two of a client are of one time.  The        *)
(* entries are a sequence, in the order in which the code makes them: the  *)
(* joins take the first of equals.                                         *)
(***************************************************************************)
EXTENDS Integers, Sequences, FiniteSets, SequencesExt, FiniteSetsExt

CONSTANTS
    Fork, Window, Release, Article,  \* what the feeds may give
    None,
    Testnet,                         \* chains the registry tags as test networks
    NetworkNames,                    \* namesNetwork: names that are a network's
    NormalizeVersion,                \* a release's tag to the version in it, or None
    Now, DayLength,
    MaxGrouped,                      \* MAX_GROUPED
    NewsBefore, NewsAfter,           \* NEWS_BEFORE_MS, NEWS_AFTER_MS
    MaxItems                         \* bound: items given

VARIABLES
    given,    \* [forks, windows, releases, articles -> sequences]
    entries   \* the timeline of them

vars == <<given, entries>>

Ahead(t) == t # None /\ t > Now

-----------------------------------------------------------------------------
(* Forks that are past without a date                                      *)

Mentioned(f) == {m.out : m \in f.releases \cup f.posts \cup f.news}

ForkPhase(f) ==
    CASE f.state = "cancelled" -> "cancelled"
      [] f.state = "completed" -> "past"
      [] f.at = None -> "unscheduled"
      [] OTHER -> IF Ahead(f.at + (IF f.day THEN DayLength ELSE 0)) THEN "upcoming" ELSE "past"

\* A fork of the same network that is known to be live.
Live(f) == /\ ForkPhase(f) = "past" /\ f.kind = "fork" /\ f.evidence \in {"stated", "observed"}
           /\ f.at # None /\ f.at <= Now

\* Announced after this one, and live after anything last mentioned it.
Overtakes(y, f) ==
    /\ Live(y) /\ y # f
    /\ y.at > Max(Mentioned(f)) /\ Min(Mentioned(y)) > Min(Mentioned(f))
    /\ y.chains \cap f.chains # {} /\ y.network = f.network /\ f.network # None

\* When the fork is past because another is live, since when.  Whether the chain
\* has come to a height that is given is for its tip to say.
InferredPast(f, fs) ==
    LET after == {y.at : y \in {y \in ToSet(fs) : Overtakes(y, f)}}
        undated == ForkPhase(f) = "unscheduled" /\ f.kind = "fork" /\ f.block = None /\ f.chains # {}
    IN  IF undated /\ after # {} THEN Min(after) ELSE None

-----------------------------------------------------------------------------
(* What an entry collects                                                  *)

ReleaseKey(r) == <<r.client, r.version>>

AddRelease(e, r) ==
    IF \E x \in e.releases : ReleaseKey(x) = ReleaseKey(r) THEN e
    ELSE [e EXCEPT !.releases = @ \cup {r}, !.mandatory = @ \/ r.mandatory]

\* The window replaces the bare post it came from, and keeps what only that said.
AddProviderUpdate(e, w) ==
    LET old == {x \in e.windows : x.key = w.key}
        at == IF w.at # None \/ old = {} THEN w.at ELSE (CHOOSE x \in old : TRUE).at
        evidence == IF w.evidence # None \/ old = {} THEN w.evidence ELSE (CHOOSE x \in old : TRUE).evidence
    IN  [e EXCEPT !.windows = (@ \ old) \cup {[w EXCEPT !.at = at, !.evidence = evidence]},
                  !.software = @ \cup w.software]

AddNews(e, n) == [e EXCEPT !.news = @ \cup {n}]

AddAll(e, releases, posts, news) ==
    LET withReleases == FoldSet(LAMBDA r, x : AddRelease(x, r), e, releases)
        withPosts == FoldSet(LAMBDA w, x : AddProviderUpdate(x, w), withReleases, posts)
    IN  FoldSet(LAMBDA n, x : AddNews(x, n), withPosts, news)

Software(e) == e.software \cup {[client |-> r.client, version |-> r.version] : r \in e.releases}

Entry(type) ==
    [type |-> type, own |-> <<>>, names |-> {}, keys |-> {}, network |-> None, chains |-> {}, at |-> None, evidence |-> None,
     phase |-> None, inferred |-> None, completed |-> FALSE, mandatory |-> FALSE,
     releases |-> {}, windows |-> {}, software |-> {}, news |-> {}]

\* A release that adds a network is not a fork of that name.
ForkType(f) ==
    IF f.kind = "upgrade" \/ (f.names # <<>> /\ Head(f.names) \in NetworkNames) THEN "software_update" ELSE "hardfork"

ForkEntry(f, fs) ==
    LET inferred == InferredPast(f, fs)
        bare == [Entry(ForkType(f)) EXCEPT
                    !.own = f.names, !.network = f.network, !.chains = f.chains, !.at = f.at, !.evidence = f.evidence,
                    !.names = IF f.names = <<>> THEN {} ELSE {Head(f.names)},
                    !.inferred = inferred, !.phase = IF inferred = None THEN ForkPhase(f) ELSE "past",
                    !.completed = f.state = "completed"]
    IN  AddAll(bare, f.releases, f.posts, f.news)

-----------------------------------------------------------------------------
(* Forks under two spellings                                               *)

EvidenceRank(e) ==
    CASE e.at = None -> 9 [] e.evidence = "stated" -> 0 [] e.evidence = "observed" -> 1 [] e.evidence = "estimated" -> 2
      [] OTHER -> 3

LatestMention(e) == Max({x.out : x \in e.releases \cup e.news} \cup {-1})

\* An inference holds only while nothing mentions the fork after the later one.
Reinferred(e, inferred) ==
    IF e.at # None \/ inferred = None THEN e
    ELSE IF LatestMention(e) > inferred
         THEN [e EXCEPT !.inferred = None, !.phase = IF ~e.completed /\ @ = "past" THEN "unscheduled" ELSE @]
         ELSE [e EXCEPT !.inferred = inferred, !.phase = "past"]

MergeEntry(into, from) ==
    LET dated == IF EvidenceRank(from) < EvidenceRank(into)
                 THEN [into EXCEPT !.at = from.at, !.evidence = from.evidence, !.phase = from.phase]
                 ELSE into
        all == AddAll([dated EXCEPT !.completed = @ \/ from.completed], from.releases, from.windows, from.news)
    IN  Reinferred(all, IF into.inferred # None THEN into.inferred ELSE from.inferred)

SameActivation(a, b) == a.type = b.type /\ a.chains = b.chains

MergeDuplicateForks(es) ==
    LET Taken(out, e, name) == {i \in DOMAIN out : SameActivation(out[i], e) /\ name \in out[i].keys}
        Into(out, e) ==
            LET first == SelectInSeq(e.own, LAMBDA name : Taken(out, e, name) # {})
            IN  IF first = 0 THEN 0 ELSE Min(Taken(out, e, e.own[first]))
        Free(out, e) == {name \in ToSet(e.own) : Taken(out, e, name) = {}}
        Named(e, names, keys) == [e EXCEPT !.names = @ \cup names, !.keys = @ \cup keys]
        Add(out, e) ==
            IF e.own = <<>> \/ e.chains = {} THEN Append(out, e)
            ELSE IF Into(out, e) = 0 THEN Append(out, Named(e, ToSet(e.own), Free(out, e)))
            ELSE [out EXCEPT ![Into(out, e)] = Named(MergeEntry(@, e), ToSet(e.own), Free(out, e))]
    IN  FoldLeft(Add, <<>>, es)

Only(S) == IF Cardinality(S) = 1 THEN S ELSE {}

\* A release that adds support for a fork joins the fork it names.
FoldSupportReleases(es) ==
    LET Candidates(e) == {i \in DOMAIN es : es[i].type = "hardfork" /\ ToSet(es[i].own) \cap ToSet(e.own) # {}}
        Mainnet(c) == {i \in c : es[i].chains # {} /\ es[i].chains \cap Testnet = {}}
        Target(e) ==
            LET c == Candidates(e)
            IN  CASE e.type = "hardfork" -> {}
                  [] e.chains # {} -> Only({i \in c : es[i].chains \cap e.chains # {}})
                  [] Cardinality(c) = 1 -> c
                  [] OTHER -> Only(Mainnet(c))
        Fold(out, k) ==
            LET e == es[k] IN
            IF Target(e) = {} THEN out
            ELSE [out EXCEPT ![CHOOSE i \in Target(e) : TRUE] = AddAll(@, e.releases, e.windows, e.news)]
        folded == FoldLeft(Fold, es, [k \in DOMAIN es |-> k])
        kept == SetToSortSeq({k \in DOMAIN es : Target(es[k]) = {}}, <)
    IN  [k \in DOMAIN kept |-> folded[kept[k]]]

-----------------------------------------------------------------------------
(* Joins                                                                   *)

SharesNetwork(a, b) == a.chains \cap b.chains # {}

\* Of the clients known to ship the version one is this one, or none is known.
ShipsVersion(e, tag, client) ==
    LET shipped == {s \in Software(e) : NormalizeVersion[s.version] = NormalizeVersion[tag]}
        known == {s.client : s \in shipped} \ {None}
    IN  NormalizeVersion[tag] # None /\ shipped # {} /\ (known # {} => client \in known \cup {None})

ShipsWindowSoftware(e, w) == \E s \in w.software : ShipsVersion(e, s.version, s.client)

\* 3 the same post, 2 the version, 1 the name, 0 none.
WindowMatch(e, w) ==
    IF ~SharesNetwork(e, w) THEN 0
    ELSE IF \E x \in e.windows : x.key = w.key THEN 3
    ELSE IF ShipsWindowSoftware(e, w) THEN 2
    ELSE IF w.names \cap e.names # {} THEN 1 ELSE 0

\* An item that names no chain joins only when it may, and only one entry.
NameMatch(e, x, unchained) ==
    IF x.names \cap e.names = {} THEN 0
    ELSE IF x.chains = {} THEN (IF unchained THEN 1 ELSE 0)
    ELSE IF SharesNetwork(e, x) THEN 1 ELSE 0

Distance(e, at) == IF e.at = None THEN 100000 ELSE IF e.at > at THEN e.at - at ELSE at - e.at

\* The strongest join and, of equal ones, the nearest in time: its place, or none.
\* `score` gives the candidates and the strength of each.
BestFork(es, score, at, guess) ==
    LET top == Max(Range(score) \cup {0})
        tied == {i \in DOMAIN score : score[i] = top /\ top > 0}
        several == {<<es[i].own, es[i].network>> : i \in tied}
        nearest == {i \in tied : \A j \in tied : Distance(es[i], at) <= Distance(es[j], at)}
    IN  CASE tied = {} -> {}
          [] Cardinality(tied) = 1 -> tied
          [] guess /\ Cardinality(several) > 1 -> {}
          [] OTHER -> {Min(IF at = None THEN tied ELSE nearest)}

\* The strongest join on each network the window covers.
BestForkPerNetwork(es, w) ==
    LET matching == {i \in DOMAIN es : WindowMatch(es[i], w) > 0}
        On(chains) == [i \in {i \in matching : es[i].chains = chains} |-> WindowMatch(es[i], w)]
    IN  UNION {BestFork(es, On(chains), w.at, FALSE) : chains \in {es[i].chains : i \in matching}}

\* A rollout's networks join a software update, never a fork.
AttachWindow(e, w) ==
    LET added == AddProviderUpdate(e, w)
        ran == w.status = "maintenance_completed" \/ (w.status = "resolved" /\ e.type # "hardfork")
    IN  [added EXCEPT !.chains = IF e.type = "hardfork" THEN @ ELSE @ \cup w.chains,
                      !.completed = @ \/ ran, !.mandatory = @ \/ w.urgent]

AttachWindows(es, ws) ==
    LET First(out, w) == SelectInSeq(out.updates, LAMBDA u : ShipsWindowSoftware(u, w) /\ SharesNetwork(u, w))
        Attach(out, w) ==
            LET targets == BestForkPerNetwork(out.forks, w)
                home == First(out, w)
            IN  IF targets # {}
                THEN [out EXCEPT !.forks = [i \in DOMAIN @ |-> IF i \in targets THEN AttachWindow(@[i], w) ELSE @[i]]]
                ELSE IF \A s \in w.software : NormalizeVersion[s.version] = None
                THEN [out EXCEPT !.maintenance = Append(@, AttachWindow(Entry("maintenance"), w))]
                ELSE IF home # 0
                THEN [out EXCEPT !.updates[home] = AttachWindow(@, w)]
                ELSE [out EXCEPT !.updates = Append(@, AttachWindow(Entry("software_update"), w))]
    IN  FoldLeft(Attach, [forks |-> es, updates |-> <<>>, maintenance |-> <<>>], ws)

\* The chains of a release, unless they are only all its repository serves.
OfItsNotes(r) == IF r.byRepository /\ Cardinality(r.chains) >= 3 THEN [r EXCEPT !.chains = {}] ELSE r

ReleaseEntry(r) ==
    AddRelease([Entry("software_update") EXCEPT !.chains = r.chains, !.at = r.out, !.evidence = "released", !.completed = TRUE], r)

AsksToAct(r) == r.mandatory \/ r.class = "urgent"

AttachReleases(all, rs) ==
    LET Ships(e, r) == ShipsVersion(e, r.version, r.client) /\ SharesNetwork(e, r)
        Attach(out, r) ==
            LET update == SelectInSeq(out.updates, LAMBDA u : Ships(u, r))
                rollout == SelectInSeq(out.forks, LAMBDA f : f.type = "software_update" /\ Ships(f, r))
                hard == {i \in DOMAIN out.forks : out.forks[i].type = "hardfork"}
                fork == BestFork(out.forks, [i \in hard |-> NameMatch(out.forks[i], r, FALSE)], r.out, FALSE)
            IN  IF ~(r.mandatory \/ r.class \in {"planned", "urgent", "fork"}) THEN out
                ELSE IF update # 0 THEN [out EXCEPT !.updates[update] = AddRelease(@, r)]
                ELSE IF rollout # 0 THEN [out EXCEPT !.forks[rollout] = AddRelease(@, r)]
                ELSE IF fork # {} THEN [out EXCEPT !.forks[CHOOSE i \in fork : TRUE] = AddRelease(@, r)]
                ELSE IF AsksToAct(r) THEN [out EXCEPT !.updates = Append(@, ReleaseEntry(r))]
                ELSE out
    IN  FoldLeft(LAMBDA out, r : Attach(out, OfItsNotes(r)), all, rs)

AttachArticles(es, ns) ==
    LET hard(out) == {i \in DOMAIN out : out[i].type = "hardfork"}
        Near(e, n) == e.at # None => n.out >= e.at - NewsBefore /\ n.out <= e.at + NewsAfter
        Attach(out, n) ==
            LET fork == BestFork(out, [i \in hard(out) |-> NameMatch(out[i], n, TRUE)], n.out, n.chains = {})
                near == {i \in fork : Near(out[i], n)}
            IN  [i \in DOMAIN out |-> IF i \in near THEN AddNews(out[i], n) ELSE out[i]]
    IN  FoldLeft(Attach, es, ns)

-----------------------------------------------------------------------------
(* What is served                                                          *)

\* Its newest release calls the fork off, without a date ahead.
Disables(r) == r.state = "cancelled" \/ (r.state = "rescheduled" /\ ~Ahead(r.at))

\* Mutant: the release that was met last counts.
AnyOf(rs) == {CHOOSE r \in rs : Disables(r) \/ \A x \in rs : ~Disables(x)}

NewestOf(rs) == {r \in rs : \A x \in rs : x.out <= r.out}

\* Tags without a version in them are all the same one.
Same(r) == <<r.client, NormalizeVersion[r.version]>>

\* unique: of the releases of one version the last.
Unique(rs) == UNION {NewestOf({x \in rs : Same(x) = Same(r)}) : r \in rs}

\* What to run, what not to run, and by when.
CallOff(e) ==
    LET Of(client) == {r \in e.releases : r.client = client}
        run == {r \in UNION {NewestOf(Of(r.client)) : r \in e.releases} : Disables(r)}
        others == {r \in Unique(e.releases \ run) : \A x \in run : Same(r) # Same(x)}
        ahead == {t \in {e.at} \cup {r.at : r \in {r \in e.releases : ~Disables(r)}} : Ahead(t)}
    IN  [run |-> {ReleaseKey(r) : r \in run},
         superseded |-> {ReleaseKey(r) : r \in others},
         upgradeBy |-> IF ahead = {} THEN None ELSE Min(ahead)]

Nothing == [run |-> {}, superseded |-> {}, upgradeBy |-> None]

\* The strongest claim of a window, the earliest of equals.
WindowActivation(e) ==
    LET order == <<"window", "scheduled", "started", "completed", "announced">>
        Rank(w) == SelectInSeq(order, LAMBDA evidence : evidence = w.evidence)
        dated == {w \in e.windows : w.at # None /\ Rank(w) > 0}
        best == {w \in dated : \A x \in dated : Rank(w) < Rank(x) \/ (Rank(w) = Rank(x) /\ w.at <= x.at)}
    IN  IF best = {} THEN None ELSE (CHOOSE w \in best : TRUE).at

PhaseOf(e) ==
    IF e.at = None THEN IF e.completed \/ e.inferred # None THEN "past" ELSE "unscheduled"
    ELSE IF Ahead(e.at) THEN "upcoming" ELSE "past"

\* The first few by what Key says; of equals that came first, which is left open.
FirstOf(S, Key(_)) ==
    ToSet(SubSeq(SetToSortSeq(S, LAMBDA x, y : Key(x) < Key(y)), 1, Min({MaxGrouped, Cardinality(S)})))

\* The newest releases and articles, and the earliest windows.
Grouped(e) ==
    [e EXCEPT !.releases = FirstOf(@, LAMBDA r : -r.out), !.news = FirstOf(@, LAMBDA n : -n.out),
              !.windows = FirstOf(@, LAMBDA w : IF w.at = None THEN 0 ELSE w.at)]

Finish(e) ==
    LET rolled == IF e.type = "hardfork" \/ e.at # None THEN e ELSE [e EXCEPT !.at = WindowActivation(e)]
        phased == IF e.type = "hardfork" THEN rolled ELSE [rolled EXCEPT !.phase = PhaseOf(rolled)]
    IN  [e |-> Grouped(phased),
         counts |-> [releases |-> Cardinality(e.releases), windows |-> Cardinality(e.windows), news |-> Cardinality(e.news)],
         off |-> IF phased.phase = "cancelled" /\ e.type = "hardfork" THEN CallOff(phased) ELSE Nothing]

\* All entries: the forks with the articles that are about them, then the rest.
Listed(all, articles) == AttachArticles(all.forks, articles) \o all.updates \o all.maintenance

FinishAll(made) == [i \in DOMAIN made |-> Finish(made[i])]

BuildTimeline(g) ==
    LET forkEntries == [i \in DOMAIN g.forks |-> ForkEntry(g.forks[i], g.forks)]
        forks == FoldSupportReleases(MergeDuplicateForks(forkEntries))
    IN  FinishAll(Listed(AttachReleases(AttachWindows(forks, g.windows), g.releases), g.articles))

-----------------------------------------------------------------------------

Init ==
    /\ given = [forks |-> <<>>, windows |-> <<>>, releases |-> <<>>, articles |-> <<>>]
    /\ entries = <<>>

Given == Len(given.forks) + Len(given.windows) + Len(given.releases) + Len(given.articles)

\* The feeds give one more item, in any order.
Give(feed, item) ==
    /\ Given < MaxItems /\ item \notin ToSet(given[feed])
    /\ \E g \in {[given EXCEPT ![feed] = Append(@, item)]} : given' = g /\ entries' = BuildTimeline(g)

Items == [forks |-> Fork, windows |-> Window, releases |-> Release, articles |-> Article]

Next == \E feed \in DOMAIN Items : \E item \in Items[feed] : Give(feed, item)

Spec == Init /\ [][Next]_vars

-----------------------------------------------------------------------------
(* Properties                                                              *)

Entries == {entries[i] : i \in DOMAIN entries}

\* The forks that an entry is made of: its names on exactly its chains.
MadeOf(x) == {f \in ToSet(given.forks) : ForkType(f) = "hardfork" /\ f.chains = x.e.chains /\ ToSet(f.names) \cap x.e.names # {}}

\* "The releases that scheduled it are then the danger" (timeline.js:678): when a
\* fork is called off, every release anyone gave that still activates it is, by its
\* version, one not to run, unless one of that same version calls the fork off; the
\* deadline is not after any of them; and a client is only told to run its last word.
CalledOffIsTold ==
    \A x \in Entries : x.e.type = "hardfork" /\ x.e.phase = "cancelled" =>
        LET said == x.e.releases \cup UNION {f.releases : f \in MadeOf(x)}
            Versions(keys) == {Same(r) : r \in {r \in said : ReleaseKey(r) \in keys}}
        IN  /\ Versions(x.off.superseded) \cap Versions(x.off.run) = {}
            /\ \A r \in said :
                   /\ ~Disables(r) =>
                          \/ Same(r) \in Versions(x.off.superseded)
                          \/ Same(r) \in Versions(x.off.run) /\ \E q \in said : Same(q) = Same(r) /\ Disables(q)
                   /\ ~Disables(r) /\ Ahead(r.at) => x.off.upgradeBy # None /\ x.off.upgradeBy <= r.at
                   /\ ReleaseKey(r) \in x.off.run => Disables(r) /\ \A q \in said : q.client = r.client => q.out <= r.out

\* "Nothing is joined on time alone", and "two forks competing on one network still
\* get one" (timeline.js:32, 558): every window is somewhere, no window is under two
\* entries of one network, and no release that asks operators to act is missing -
\* but where an entry counts more than it lists, of its earliest and of its newest.
ListedOnce ==
    LET Lists(i, w) == \E x \in entries[i].e.windows : x.key = w.key
        Cuts(i, w) ==
            /\ entries[i].counts.windows > MaxGrouped /\ SharesNetwork(entries[i].e, w)
            /\ w.at # None => \A x \in entries[i].e.windows : x.at # None => x.at <= w.at
        CutsRelease(x, r) ==
            x.counts.releases > MaxGrouped /\ SharesNetwork(x.e, r) /\ \A q \in x.e.releases : q.out >= r.out
    IN  /\ \A w \in ToSet(given.windows) :
               /\ \E i \in DOMAIN entries : Lists(i, w) \/ Cuts(i, w)
               /\ \A i, j \in DOMAIN entries : i # j /\ Lists(i, w) /\ Lists(j, w) => entries[i].e.chains # entries[j].e.chains
        /\ \A r \in ToSet(given.releases) :
               AsksToAct(r) =>
                   \E x \in Entries : CutsRelease(x, r) \/ \E q \in x.e.releases : ReleaseKey(q) = ReleaseKey(r)

=============================================================================
