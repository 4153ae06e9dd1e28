---------------------------- MODULE MCCatalogue ----------------------------
(***************************************************************************)
(* What is made of what other services say, in a behaviour one part of it. *)
(* "index": registries, three families of them, each of which varies what  *)
(* one group of rules turns on and keeps the rest plain.  "forks": feed    *)
(* items, of a pool in which every pass of ForkGroups finds something to   *)
(* merge and something to leave alone.  "archive": a feed in pages of two  *)
(* (ForkFeeds), two of its items of one time.  "news": a store of two posts*)
(* (ForumNews), one of four revisions edited.  "page": three events and a  *)
(* classification of one incident (IncidentFeed).  "halt": three sources   *)
(* of a chain (ChainHalt).  "stats": two incidents on two chains, or one   *)
(* rollout announced twice, and days of two hours (ProviderStats).         *)
(* "timeline": four of the forks, windows, releases and articles of a pool *)
(* (Timeline).  "live": six updates of three incidents on three pages      *)
(* (LiveIncidents).  "placed": 12 items about nine chains, and all sets    *)
(* of them (ForkPlacement).                                                *)
(***************************************************************************)
EXTENDS ChainIndex

VARIABLES
    part,
    mentions, groups, forks,
    archive, round, older, olderFresh, cache, rest, rejecting,
    posts, socket, pushed, store, seed, attempted, heard,
    published, link, retries, wire, backfill, page, repaintDue, rerenderDue, shown, arrived,
    log, time,
    now, blocks, asked, answers, probed, verdict,
    given, entries,
    moment, updates, registry, copy, pendingLoad, lastSummary,
    placed

CONSTANT Parts

Chain(net, parent, status, name) ==
    [net |-> net, parent |-> parent, status |-> status, name |-> name, slip44 |-> FALSE, host |-> "plain"]
Listed(net, parent, status, name, flag) == Chain(net, parent, status, name) @@ [flag |-> flag]
Network(net, type, relations) ==
    [net |-> net, type |-> type, relations |-> relations, name |-> "plain", host |-> "plain", slip44 |-> FALSE]

L2Of(id) == [type |-> "L2", id |-> id]
TestnetOf(id) == [type |-> "testnet", id |-> id]

Nothing == [id \in {} |-> None]

\* Statuses and parents, cycles among them, of three chains.
Statuses ==
    {[chains |-> 1 :> Chain("a", p1, s1, n) @@ 2 :> Chain("a", p2, s2, "plain") @@ 3 :> Chain("a", p3, s3, "plain"),
      chainlist |-> Nothing, theGraph |-> Nothing] :
        p1 \in {None, L2Of(2)}, p2 \in {None, L2Of(3), TestnetOf(3), L2Of(1)}, p3 \in {None, L2Of(1), TestnetOf(1)},
        s1 \in {None, "active", "deprecated"}, s2 \in {None, "active"}, s3 \in {None, "deprecated"}, n \in {"plain", "eol"}}

\* One chain ID in all three registries, for one network or for two.
Identities ==
    {[chains |-> 1 :> Chain(a, None, None, "plain") @@ 2 :> Chain("a", None, s, "plain"),
      chainlist |-> 1 :> Listed(b, p, s, "plain", None),
      theGraph |-> 1 :> Network(c, None, r)] :
        a, b, c \in {"a", "b", "bare"}, s \in {None, "active", "deprecated"}, p \in {None, L2Of(2)},
        r \in {{}, {[kind |-> "l2Of", id |-> 2]}, {[kind |-> "testnetOf", id |-> 2]}, {[kind |-> "l2Of", id |-> None]}}}

\* What says mainnet or test network, of three chains: the first states it.
Types ==
    {[chains |-> 1 :> [Chain("a", None, None, "plain") EXCEPT !.slip44 = s1]
                 @@ 2 :> [Chain("a", p2, None, n) EXCEPT !.slip44 = s2, !.host = h]
                 @@ 3 :> Chain("a", p3, None, "plain"),
      chainlist |-> 1 :> Listed("a", None, None, "plain", f1) @@ 2 :> Listed("a", None, None, "plain", f2)
                    @@ 3 :> Listed("a", None, None, "plain", f3),
      theGraph |-> 1 :> Network("a", t, {})] :
        s1, s2 \in BOOLEAN, t \in {"testnet", "mainnet"}, f1, f2 \in {None, "testnet", "mainnet"}, f3 \in {None, "mainnet"},
        n \in {"plain", "mainnet"}, h \in {"plain", "testnet"}, p2 \in {L2Of(1), L2Of(3)}, p3 \in {None, L2Of(2)}}

AllRegistries == Statuses \cup Identities \cup Types

AllBatches == {Nothing, 1 :> "ZK", 1 :> "Optimistic" @@ 2 :> "Validium"}
-----------------------------------------------------------------------------
(* Feed items                                                              *)

\* A network, its test network, and one the registry does not find by name.
NetworkIds == "eth" :> {1} @@ "hoodi" :> {7} @@ "gap testnet" :> {}
WithItsWords == "eth" :> {} @@ "hoodi" :> {} @@ "gap testnet" :> {8}
Repositories == None :> {1} @@ "eth" :> {1} @@ "hoodi" :> {7} @@ "gap testnet" :> {7}
Family == {<<"eth", "hoodi">>, <<"hoodi", "eth">>}

NoAnswer == [height |-> None, time |-> None, rate |-> None]
Tips == 1 :> NoAnswer @@ 7 :> [height |-> 3, time |-> 960, rate |-> 5] @@ 8 :> NoAnswer

Word(item, feed, name, network, named, chains) ==
    [item |-> item, feed |-> feed, name |-> name, network |-> network, named |-> named, chains |-> chains, chosen |-> {},
     at |-> None, day |-> FALSE, block |-> None, state |-> None, class |-> None, said |-> 900 + item, seen |-> 900 + item]
At(m, hour) == [m EXCEPT !.at = hour]
OnDay(m, hour) == [m EXCEPT !.at = hour, !.day = TRUE]
AtBlock(m, block) == [m EXCEPT !.block = block]
T == 970

Items == {
    AtBlock(Word(1, "page", "A", "hoodi", {"hoodi"}, {}), 5),
    At(AtBlock(Word(2, "release", "B", "hoodi", {}, {}), 5), T),
    At(Word(3, "forum", "C", "hoodi", {"hoodi"}, {}), T),
    At(Word(4, "node", None, None, {}, {7}), T),
    At(Word(5, "provider", None, None, {"hoodi"}, {}), T + 4),
    At(Word(6, "news", "A", None, {}, {}), T + 30),
    [OnDay(Word(7, "page", "A", "eth", {"eth", "hoodi"}, {}), 960) EXCEPT !.state = "cancelled"],
    AtBlock(Word(8, "page", None, None, {"hoodi"}, {}), 5),
    AtBlock(Word(9, "release", "A", None, {}, {}), 5),
    At(Word(10, "release", "C hf", "gap testnet", {}, {}), T),
    At(Word(11, "forum", "B", None, {}, {1}), 950),
    Word(12, "forum", "C", "eth", {"eth"}, {}),
    At(Word(13, "page", "A", "hoodi", {"gap testnet"}, {8}), T - 200),
    [At(Word(14, "page", "A", None, {}, {7}), T) EXCEPT !.class = "update"],
    [At(Word(15, "release", "1.2", None, {}, {7}), T) EXCEPT !.class = "update", !.chosen = {7, 8}]}

\* A name under two spellings, and one that is a version.
Spellings == "A" :> "A" @@ "B" :> "B" @@ "C" :> "C" @@ "C hf" :> "C" @@ "1.2" :> "1.2"

F == INSTANCE ForkGroups WITH
         ChainIdsFor <- NetworkIds, Carries <- WithItsWords, RepoChainIds <- Repositories, SameFamily <- Family,
         VersionName <- {"1.2"}, CanonicalForkId <- Spellings, Now <- 980, Feed <- Items, MaxMentions <- 4, Tip <- Tips, MaxTipLookups <- 2

-----------------------------------------------------------------------------
(* Pages, posts, events, and a chain's sources                             *)

CONSTANTS ArchiveItem, PageLength, PagesRead

A == INSTANCE ForkFeeds WITH feed <- archive, Item <- ArchiveItem, Limit <- PageLength, MaxPages <- PagesRead

Archived(id, at, fork) == [id |-> id, at |-> at, fork |-> fork]
FiveItems == {Archived(1, 1, TRUE), Archived(2, 2, TRUE), Archived(3, 2, TRUE), Archived(4, 3, TRUE), Archived(5, 4, FALSE)}

CONSTANTS Revision, PostsReplayed, MaxPosts

N == INSTANCE ForumNews WITH feed <- posts, wire <- pushed, Replay <- PostsReplayed, MaxItems <- MaxPosts

Post(id, at, fresh) == [id |-> id, published |-> at, fresh |-> fresh]
ThreePosts == {Post("a", 1, 1), Post("a", 1, 9), Post("b", 3, 3), Post("c", 4, 4)}

CONSTANTS Event, Frame, Replay, Backfill, Transitions, Retries, Time

I == INSTANCE IncidentFeed

Classified(of, class, lowConfidence, stamp) == [of |-> of, class |-> class, lowConfidence |-> lowConfidence, stamp |-> stamp]
Incident(id, at, status, ongoing, chains, enrichment) ==
    [id |-> id, key |-> "k", at |-> at, status |-> status, ongoing |-> ongoing, chains |-> chains, enrichment |-> enrichment]

OneFrame == {Classified(1, "outage", FALSE, 25)}
FourEvents ==
    {Incident(1, 10, "identified", TRUE, {1}, None),
     Incident(2, 20, "monitoring", None, {}, Classified(2, "hard_fork", FALSE, None)),
     Incident(3, 30, "resolved", FALSE, {2}, Classified(3, "outage", TRUE, None)),
     Incident(4, None, "scheduled", TRUE, {1}, None)}

CONSTANTS HaltSource, Explorer, Averages, AnswerWithin, Multiplier, Least, Lookback, HaltTime

H == INSTANCE ChainHalt WITH Source <- HaltSource, MaxTime <- HaltTime

S == INSTANCE ProviderStats WITH
         events <- log, now <- time,
         Entry <- {"i1", "i2"}, TitleOf <- [i1 |-> "t", i2 |-> "t"],
         ChainsOf <- [i1 |-> {1}, i2 |-> {1, 2}], ChainsListed <- 3, DayLength <- 2, SparkDays <- 3,
         Spans <- {2, 6}, StaleAfter <- 1, FollowWindow <- 2, MaxTime <- 3, MaxUpdates <- 3

-----------------------------------------------------------------------------
(* The timeline                                                            *)

AFork(names, network, chains, at, evidence, state) ==
    [kind |-> "fork", names |-> names, network |-> network, chains |-> chains, at |-> at, day |-> FALSE, block |-> None,
     evidence |-> evidence, state |-> state,
     releases |-> {}, posts |-> {}, news |-> {}]
ARelease(client, version, out, state, at) ==
    [client |-> client, version |-> version, out |-> out, state |-> state, at |-> at,
     mandatory |-> FALSE, class |-> "fork", names |-> {}, chains |-> {}, byRepository |-> FALSE]
Ships(client, version, out, class, names, chains) ==
    [ARelease(client, version, out, None, None) EXCEPT !.class = class, !.names = names, !.chains = chains]
AWindow(key, chains, software, names, at, status) ==
    [key |-> key, chains |-> chains, software |-> software, names |-> names, at |-> at,
     evidence |-> "window", status |-> status, urgent |-> FALSE, out |-> 50]
BarePost(key, out) == [AWindow(key, {}, {}, {}, None, None) EXCEPT !.evidence = None, !.out = out]
AnArticle(id, names, chains, out) == [id |-> id, names |-> names, chains |-> chains, out |-> out]
Runs(client, version) == {[client |-> client, version |-> version]}

\* Releases are tagged with their version, "v9" with 9, and "build" and "nightly" with none.
VersionOf == [tag \in {"1", "2", "3", "4", "5", "6", "8", "9"} |-> tag] @@ "v9" :> "9" @@ "build" :> None @@ "nightly" :> None

L == INSTANCE Timeline WITH
         Testnet <- {7}, NetworkNames <- {"hoodi"}, NormalizeVersion <- VersionOf, Now <- 100, DayLength <- 4, MaxGrouped <- 2, NewsBefore <- 100, NewsAfter <- 3, MaxItems <- 4,
         Fork <- {
             [AFork(<<"A">>, "eth", {1}, 110, "stated", "cancelled") EXCEPT
                !.releases = {ARelease("geth", "build", 80, "scheduled", 110), ARelease("geth", "nightly", 90, "rescheduled", None)}],
             [AFork(<<"B", "A">>, "eth", {1}, 105, "estimated", "scheduled") EXCEPT
                !.releases = {ARelease("reth", "1", 85, "scheduled", 105), ARelease("geth", "3", 95, "rescheduled", 120)},
                !.posts = {BarePost("p", 86), BarePost("p2", 87)}],
             [AFork(<<"A">>, "hoodi", {7}, 98, "stated", "scheduled") EXCEPT !.day = TRUE, !.posts = {BarePost("q", 70)}],
             [AFork(<<"C">>, "eth", {1}, None, None, None) EXCEPT !.news = {AnArticle("n0", {"C"}, {1}, 60)}],
             [AFork(<<"D">>, "eth", {1}, 90, "stated", "completed") EXCEPT !.releases = {ARelease("geth", "4", 75, "scheduled", 90)}],
             [AFork(<<"C">>, None, {}, None, None, None) EXCEPT !.kind = "upgrade", !.releases = {ARelease("reth", "5", 97, None, None)}],
             [AFork(<<"A">>, "eth", {1}, None, None, None) EXCEPT !.kind = "upgrade", !.releases = {ARelease("reth", "6", 98, None, None)}],
             [AFork(<<"hoodi">>, "eth", {1}, None, None, None) EXCEPT !.block = 50, !.releases = {ARelease("geth", "9", 60, None, None)}]},
         Window <- {
             AWindow("p", {1}, Runs("reth", "1"), {}, 104, "scheduled"), AWindow("w", {1, 7}, {}, {"A", "D"}, 96, "resolved"),
             AWindow("v", {1}, Runs(None, "9"), {}, 101, "resolved"), AWindow("u", {1, 7}, Runs("geth", "9"), {}, None, "scheduled"),
             AWindow("m", {7}, {}, {}, 99, "scheduled")},
         Release <- {
             Ships("geth", "v9", 99, "urgent", {}, {1}), Ships("reth", "9", 99, "planned", {}, {7}), Ships("geth", "8", 84, "urgent", {"A"}, {1}),
             [Ships("lotus", "1", 94, "other", {}, {1, 7, 9}) EXCEPT !.mandatory = TRUE, !.byRepository = TRUE]},
         Article <- {AnArticle("n1", {"C"}, {1}, 99), AnArticle("n2", {"A"}, {}, 99), AnArticle("n3", {"A"}, {7}, 99)}

-----------------------------------------------------------------------------
(* Live incidents, and where forks are placed                              *)

Reported(id, key, status, class, low, by, queries) ==
    [id |-> id, key |-> key, at |-> id, status |-> status, ongoing |-> status # "resolved", page |-> by, isProvider |-> TRUE,
     chains |-> <<>>, queries |-> queries, class |-> class, low |-> low, named |-> {}, banner |-> FALSE]

CONSTANTS LiveUpdate, Search, MaxAmbiguity, MinProviders, CacheTtl, LiveTime

V == INSTANCE LiveIncidents WITH Update <- LiveUpdate, MaxTime <- LiveTime, now <- moment, feed <- updates, cache <- copy

Found == [node |-> <<1, 2, 3>>, robin |-> <<1, 2>>]
SixUpdates == {
    Reported(1, "i", "maintenance_scheduled", "scheduled_maintenance", FALSE, "p", <<"robin">>),
    Reported(2, "i", "monitoring", None, FALSE, "p", <<"robin">>),
    Reported(3, "j", "identified", "planned_hard_fork", TRUE, "q", <<"node", "robin">>),
    [Reported(4, "j", "identified", "chain_halt", FALSE, "q", <<>>) EXCEPT !.chains = <<1, 2>>, !.named = {1, 3}, !.banner = TRUE],
    [Reported(5, "k", "unknown", "other", TRUE, "r", <<"robin">>) EXCEPT !.isProvider = FALSE],
    [Reported(6, "k", "resolved", "odd", FALSE, "r", <<"node">>) EXCEPT !.ongoing = TRUE]}

Registered(words, test, deprecated) == [words |-> words, test |-> test, deprecated |-> deprecated]
ReadItem(id, network, bare, chains, affected, repo) ==
    [id |-> id, network |-> network, bare |-> bare, chains |-> chains, chosen |-> {}, affected |-> affected, repo |-> repo,
     phase |-> "upcoming", kind |-> "fork", dated |-> TRUE]

D == INSTANCE ForkPlacement WITH
         forks <- placed, PerScope <- 2, PerProject <- 3, Phases <- {"upcoming", "past"}, Kinds <- {"fork", "upgrade"},
         KindWords <- {"network", "testnet", "mainnet", "sepolia"}, TestWords <- {"testnet", "sepolia", "amoy"}, OwnNames <- {"sepolia"},
         Near <- {<<"vechain", "thor">>, <<"thor", "vechain">>},
         Registry <- <<Registered({"boba", "network"}, FALSE, FALSE), Registered({"boba", "bnb"}, FALSE, FALSE),
                       Registered({"boba", "bnb", "testnet"}, TRUE, FALSE), Registered({"boba", "sepolia"}, TRUE, FALSE),
                       Registered({"vechain"}, FALSE, FALSE), Registered({"polygon", "amoy"}, TRUE, FALSE),
                       Registered({"vechain", "testnet"}, TRUE, TRUE), Registered({"vechain", "testnet", "solo"}, TRUE, FALSE),
                       Registered({"aleph", "zero"}, FALSE, FALSE)>>,
         Lookups <- {"boba", "bnb"} :> <<{2, 3}>> @@ {"boba", "sepolia"} :> <<{4}, {1, 4}>> @@ {"gap", "testnet"} :> <<{}, {}>> @@ {"boba"} :> <<{1, 2, 3}>>
                    @@ {"boba", "network"} :> <<{1, 2, 5}>>
                    @@ {"aleph", "testnet"} :> <<{}>> @@ {"aleph"} :> <<{9}>>,
         RepoWords <- [boba |-> {"boba", "geth"}, thor |-> {"vechain", "thor"}, bor |-> {"bor"}, aleph |-> {"aleph", "node"}],
         Links <- [boba |-> {1, 2, 3, 4}, thor |-> {5, 7, 8, 1}, bor |-> {6}, aleph |-> {}],
         Overrides <- [thor |-> [exclude |-> FALSE, keep |-> {5, 7}, drop |-> {}, add |-> {8}]],
         Mention <- {
             ReadItem(1, None, "main", {6}, {{"polygon", "amoy"}}, "bor"), ReadItem(2, None, "main", {1, 3}, {}, None),
             ReadItem(3, None, "test", {}, {{"boba", "bnb"}, {"boba", "sepolia"}}, None),
             [ReadItem(4, {"thor", "testnet"}, None, {}, {}, "thor") EXCEPT !.phase = "past"],
             [ReadItem(5, {"gap", "testnet"}, None, {3}, {{"gap", "testnet"}}, "boba") EXCEPT !.kind = "upgrade"],
             [ReadItem(6, None, "main", {}, {}, "boba") EXCEPT !.dated = FALSE],
             ReadItem(7, None, "test", {}, {}, "thor"), [ReadItem(8, {"amoy"}, None, {1, 6}, {{"amoy"}}, None) EXCEPT !.phase = "past"],
             ReadItem(9, None, "main", {6}, {{"polygon", "amoy"}, {"boba", "sepolia"}}, None),
             ReadItem(10, {"boba", "network"}, None, {}, {}, "boba"), ReadItem(11, {"aleph", "testnet"}, None, {}, {}, "aleph"),
             [ReadItem(12, None, "main", {5}, {}, "thor") EXCEPT !.chosen = {7}]}

ASSUME CatalogueAssumption == A!FeedsAssumption /\ N!NewsAssumption /\ H!HaltAssumption /\ V!LiveAssumption /\ I!FeedAssumption

-----------------------------------------------------------------------------
(* One part at a time                                                      *)

forksVars == <<mentions, groups, forks>>
archiveVars == <<archive, round, older, olderFresh, cache, rest, rejecting>>
newsVars == <<posts, socket, pushed, store, seed, attempted, heard>>
pageVars == <<published, link, retries, wire, backfill, page, repaintDue, rerenderDue, shown, arrived>>
haltVars == <<now, blocks, asked, answers, probed, verdict>>
statsVars == <<log, time>>
timelineVars == <<given, entries>>
liveVars == <<moment, updates, registry, copy, pendingLoad, lastSummary>>
everything == <<part, vars, forksVars, archiveVars, newsVars, pageVars, haltVars, statsVars,
                timelineVars, liveVars, placed>>

\* An index of nothing, while other parts run.
NoIndex == IndexData([chains |-> Nothing, chainlist |-> Nothing, theGraph |-> Nothing], {Nothing})

CatalogueInit ==
    /\ part \in Parts
    /\ IF part = "index" THEN Init ELSE NoIndex
    /\ F!Init /\ A!Init /\ N!Init /\ I!Init /\ H!Init /\ S!Init
    /\ L!Init /\ V!Init /\ D!Init

\* All items are there; the page has given up; the verdict is given.
Over ==
    \/ part = "forks" /\ Len(mentions) = 4
    \/ part = "page" /\ link = "given up"
    \/ part = "stats" /\ Cardinality(log) = 3
    \/ part = "halt" /\ verdict # None
    \/ part = "timeline" /\ L!Given = 4
    \/ part = "placed" /\ Cardinality(placed) = 12

CatalogueNext ==
    \/ part = "index" /\ Next /\ UNCHANGED <<part, forksVars, archiveVars, newsVars, pageVars, haltVars, statsVars, timelineVars, liveVars, placed>>
    \/ part = "forks" /\ F!Next /\ UNCHANGED <<part, vars, archiveVars, newsVars, pageVars, haltVars, statsVars, timelineVars, liveVars, placed>>
    \/ part = "archive" /\ A!Next /\ UNCHANGED <<part, vars, forksVars, newsVars, pageVars, haltVars, statsVars, timelineVars, liveVars, placed>>
    \/ part = "news" /\ N!Next /\ UNCHANGED <<part, vars, forksVars, archiveVars, pageVars, haltVars, statsVars, timelineVars, liveVars, placed>>
    \/ part = "page" /\ I!Next /\ UNCHANGED <<part, vars, forksVars, archiveVars, newsVars, haltVars, statsVars, timelineVars, liveVars, placed>>
    \/ part = "halt" /\ H!Next /\ UNCHANGED <<part, vars, forksVars, archiveVars, newsVars, pageVars, statsVars, timelineVars, liveVars, placed>>
    \/ part = "stats" /\ S!Next /\ UNCHANGED <<part, vars, forksVars, archiveVars, newsVars, pageVars, haltVars, timelineVars, liveVars, placed>>
    \/ part = "timeline" /\ L!Next /\ UNCHANGED <<part, vars, forksVars, archiveVars, newsVars, pageVars, haltVars, statsVars, liveVars, placed>>
    \/ part = "live" /\ V!Next /\ UNCHANGED <<part, vars, forksVars, archiveVars, newsVars, pageVars, haltVars, statsVars, timelineVars, placed>>
    \/ part = "placed" /\ D!Next /\ UNCHANGED <<part, vars, forksVars, archiveVars, newsVars, pageVars, haltVars, statsVars, timelineVars, liveVars>>
    \/ Over /\ UNCHANGED everything

CatalogueSpec == CatalogueInit /\ [][CatalogueNext]_everything

-----------------------------------------------------------------------------
(* The properties of the index and of the instances; a part that rests is  *)
(* as it began, which its own behaviours start from.                       *)

\* A status is passed on from parent to child (indexer.js:404), the tag of a test network is
\* there when what was said of it says so (indexer.js:654), and every death that is reported
\* is accounted for (validation.js:167, 522).
StatusesAreAccountedFor == part = "index" => StatusIsInherited /\ DeathsAreAccountedFor /\ TagMatchesClaims

\* However groups are merged, nothing said of a fork is lost or told twice
\* (forks.js:566, 690, 1008), and its day is the one the newest word of its own sources
\* gives (forks.js:443-485).
ForksAreAsSaid == part = "forks" => F!MentionsAreKept /\ F!NewestOwnWordDates

\* "Named groups on the same chains that activate at the same height or the same
\* second are one activation under several names" (forks.js:682-683).
OneActivationOneFork == F!OneActivationOneFork

\* What is served of the archive is complete down to the time it claims
\* (forkFeeds.js:186-220), and the store has the newest posts as they were last edited
\* (forumNews.js:209-235).
ArchivesAreComplete ==
    /\ part = "archive" => A!NoHolesInHistory
    /\ part = "news" => N!StoreHoldsNewest

\* The page shows what the newest word says, in whatever order it came
\* (app.js:1131-1162, 1221-1249).
PageFollowsNewestWord == part = "page" => I!PageFollowsNewestWord

\* A lagging endpoint is no halt (chainHalt.js:21-24), planned work is maintenance for
\* every reader (liveIncidents.js:178), and asking for a chain finds what providers say
\* of it (liveIncidents.js:85).
IncidentsAreReal ==
    /\ part = "halt" => H!HaltIsNoLag
    /\ part = "live" => V!PlannedIsNoOutage /\ V!TroubleIsFound

\* No hour of a chain is counted twice, and none is lost (providerStats.js:283); only what
\* is one rollout is one outage (upgrades.js:165); the figures agree; and what is known of
\* an activation only gets better (upgrades.js:231).
WindowsAreCounted == [](part = "stats" => S!NoHourCountedTwice /\ S!OutagesStayApart /\ S!FiguresAgree) /\ S!KnownBetter

\* The danger of a fork that is called off is told in full (timeline.js:678), and nothing
\* is listed twice or left out (timeline.js:32).
TimelineTellsAll == part = "timeline" => L!CalledOffIsTold /\ L!ListedOnce

\* A fork of "Mainnet" is under no test network (services/forks.js:221), one whose network
\* a client runs is under that one (services/forks.js:90), and the counts beside a list
\* are those of the lists (services/forks.js:288).
ForksAreWellPlaced == part = "placed" => D!KindIsKept /\ D!NamesakeIsFound /\ D!CountsDescribeTheWorld
=============================================================================
