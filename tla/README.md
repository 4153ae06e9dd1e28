# A TLA+ model of chains-api

chains-api is one Node.js process that collects chain registries (The Graph, chainlist, chains.json,
SLIP-0044, L2BEAT, DefiLlama), merges them into an index in memory, probes the RPC endpoints of the
chains without end, follows the feeds of providers, clients and forums, and serves all of it over REST,
over MCP and to a dashboard in the browser. This directory holds models of the parts of it that are hard
to test: what interleaves, fails, restarts or must eventually happen, and the rules by which many
unordered reports become one verdict. TLC checks them on small instances, and TLAPS proves the
properties of the stateful core for every instance.

## Running it

    tlc -config Stores.cfg MCStores.tla      # one of the runs of PROJECT.json
    tlapm ServicesProofs.tla                 # one of the modules with proofs

| Run | Configuration and module |
|---|---|
| `Registry` | `Registry.cfg`, `Registry.tla` |
| `ChainProbes`, `ChainProbes_reported`, `ChainProbes_backoff` | the `.cfg` of the same name, `ChainProbes.tla` |
| `Stores` | `Stores.cfg`, `MCStores.tla` |
| `Services` | `Services.cfg`, `MCServices.tla` |
| `Clients`, `Clients_drawer` | the `.cfg` of the same name, `MCClients.tla` |
| `Catalogue`, `Catalogue_l2_tag`, `Catalogue_activation` | the `.cfg` of the same name, `MCCatalogue.tla` |
| `RpcHealthStore_stale_row` | `RpcHealthStore_stale_row.cfg`, `RpcHealthStore.tla` |

`PROJECT.json` lists the runs, the mutants (changes to the model that a plausible bug would make, each
of which must break the property it is listed with), the lines of code behind every definition
(`map`), the hazards, the findings and the theorems.

## The system

| Component | State | Operations | Interacts with |
|---|---|---|---|
| Loader (`src/services/loader.js`), cache (`src/store/cache.js`), snapshot (`src/store/snapshot.js`) | `cachedData`, `dataRefreshPromise`, the snapshot file | start-up, guarded refresh, replacement of the cache, snapshot write and read | everything reads `cachedData`; the refresher writes results into it |
| Self-healer (`src/services/sourceRefresher.js`), `POST /reload` | timer | reload what failed or is old | joins or starts refreshes |
| RPC refresher (`src/services/chainRefresher.js`) | sweep cursor, provider back-offs, on-demand jobs and cool-downs | tick, probe of one chain, L2BEAT batch, probe on demand | cache, private list, health store; races with reloads |
| Private RPC list (`src/store/privateRpcStore.js`) | set of URLs, its file, the writer's two flags | mark, persist, load, strip | refresher, every replacement of the cache |
| RPC health store (`src/store/rpcHealthStore.js`, `rpcHealthDb.js`) | one row and one file per chain | save a check, load at start-up | refresher, database pool |
| Price cache (`priceService.js`) | cached quotes, requests in flight | get, prefetch, timer | REST, MCP |
| Licence keys and OAuth (`src/auth`) | keys, clients, codes, tokens | register, authorize, token, revoke, bearer check | MCP server |
| MCP HTTP server (`mcp-server-http.js`) | sessions, budgets | initialise, request, close, idle sweep | OAuth |
| Index and its reads (`src/store/indexer.js`, `queries.js`, `src/domain/relations.js`, `src/services/validation.js`) | the index, the memo of the list of chains | build, update by an L2BEAT batch, list, search, traverse, validate | cache |
| Forks, timeline, provider statistics (`src/domain/forks.js`, `src/services/forks.js`, `timeline.js`, `upgrades.js`, `providerStats.js`) | schedules nodes report, names clients give them, the forks that were built last | group, place, date, list | feed sources, index |
| Incidents and halts (`src/services/chainHalt.js`, `chainIncidents.js`, `incidentSentinel.js`, `src/sources/liveIncidents.js`) | the live feed's cache | read, judge, watch | feed sources, index |
| Feed sources (`src/sources`) | a cache each, a socket or two | fetch with a time to live, page, push | timeline, incidents, forks |
| Assistant (`src/http/routes/assistant.js`, `src/services/assistant.js`) | chat jobs; the provider and deadline of a turn | start, poll, remove; guard, call, tools, fail over | tools over all of the above |
| RPC monitor (`rpcMonitor.js`) | one list of findings | a cycle of batches | none; superseded by the refresher |
| Dashboard (`public`) | what is on screen, what is asked for | every handler of a click, a timer, an answer or a frame | REST, sockets of the feeds |
| Database pool (`src/store/database.js`), transport (`src/transport`, `rpcUtil.js`) | pool; DNS cache | connect, close; fetch with retries and timeouts | all of the above |

### What is hard

* **Interleaving at awaits.** JavaScript runs one callback at a time, so the only places where others run
  are awaits on I/O. Every module has this rule: *a step is the code between two awaits of real I/O*;
  promise callbacks that are ready run in the same step. A probe reads the cache, waits, and writes the
  cache; a refresh waits for its fetches and again for its snapshot; saves are not awaited at all.
* **Reloads under everything.** `applyDataToCache` replaces the data while probes, sweeps and snapshot
  writes are half done; `lastUpdated` is the version that guards them. Memos (the list of chains, the
  forks) compare such marks to know whether they are still of the data.
* **Partial failure.** Sources, batches, statements, the database and the disk fail one by one.
* **Restarts.** Four things survive: the snapshot, the health rows or files, the private list, and the
  OAuth tables.
* **Two channels for one fact.** Feeds are polled and pushed at the same time, sockets replay, and a
  classification may overtake the event it is about. In the browser every answer may be late.
* **Order of reports.** Forks, incidents, timelines and the index are made of lists whose order is no
  one's choice; what is said of them must not hang on it.
* **Things that must happen.** Every chain is probed in turn, failed sources recover, aged data is
  reloaded, a marked URL reaches the file, idle sessions end.

## Modules

One module per component. Modules that share nothing are checked side by side: a composing module runs
one of them in a behaviour, picked by `part`, while the others rest as they began.

| Module | What it is | Code |
|---|---|---|
| `Registry` (with its proofs) | refreshes, start-up, snapshot, self-healing | loader, cache, snapshot, sourceRefresher, admin |
| `ChainProbes` (with its instance and proofs) | probes racing with reloads and with each other | chainRefresher, `stripPrivateRpcs` |
| **`MCStores`** composes, `StoresProofs` proves | | |
| `PrivateRpcStore` | the private list and its writer | privateRpcStore |
| `DurableMarks` | what the private list promises: a set, and a copy of it that only grows | the comment at the head of privateRpcStore |
| `RpcHealthStore` | one chain's health in memory, row and file | rpcHealthStore, rpcHealthDb, end of `processChainRpc` |
| `SweepScheduler` | which chain is next | `buildSweepQueue`, `tickOnce` |
| `McpSessions` | budgets and sessions of the MCP endpoint | mcp-server-http |
| **`MCServices`** composes, `ServicesProofs` proves | | |
| `PriceService` | shared batches of quotes | priceService |
| `Assistant` | a chat job and its polling; one turn and its deadline | routes/assistant, services/assistant |
| `NodeForks` | schedules from nodes, names from clients, the memo of forks | nodeForkSchedule, forkSource, services/forks |
| `L2Metrics` | growthepie's files, their fallback and their means | growthepie |
| `Blockscout` | paced and parked requests to explorers | blockscout |
| `ClientFeed` | the bounded cache of release feeds | clientFeed |
| `Queries` | the memo of the list of chains, and the ranks of a search | queries |
| `RpcMonitor` | cycles of the stand-alone monitor | rpcMonitor |
| `HealthRules` | validation rules on what endpoints said | validation |
| **`MCClients`** composes, `ClientsProofs` and `PageProofs` prove | | |
| `Grants` | licence keys and OAuth, statement by statement | src/auth |
| `GrantLife` | what the OAuth endpoints promise of a grant: offered, live, over | the comment at the head of oauth.js |
| `ChainPage` | tab, drawer, profile and address of the dashboard | app.js, profile.js |
| `BrowserProbes` | endpoints tested from the browser | profile.js |
| `ChatPanel` | the chat with the assistant | app.js |
| `TimelineView`, `ReleaseList`, `NetworkTable`, `NetworkGraph`, `FeedPages` | the dashboard's views | app.js |
| **`MCCatalogue`** composes, `CatalogueProofs` and `IndexProofs` prove | | |
| `ChainIndex` | the index, its relations, its statuses and tags, their rules and traversal | indexer, sourceIdentity, networkType, chainRefresher, relations, validation |
| `ForkGroups` | feed items merged into forks, and what dates them | domain/forks |
| `ForkPlacement` | the chains a fork is about, and the lists of forks | services/forks, networkResearch |
| `Timeline` | forks, windows, releases and articles as one list | timeline, domain/forks |
| `ProviderStats` | outages, planned windows, uptime | plannedWork, providerStats, upgrades |
| `ChainHalt` | whether a chain has stopped | chainHalt |
| `LiveIncidents` | the live feed as the server reads it | liveIncidents, incidentChains, chainIncidents, incidentSentinel |
| `ForkFeeds`, `ForumNews` | a paged archive; a pushed and polled store of posts | forkFeeds, forumNews |
| `IncidentFeed` | the dashboard's incidents, from REST and a socket | app.js |

The modules meet at these points. `ChainProbes` takes its jobs from any order of chains, so also from
the one `SweepScheduler` gives; it has the set of private URLs in memory, whose durability is
`PrivateRpcStore`. `SweepScheduler` resumes from the check times that were stored, with a database those
of the last saves, with files those of the last changes; `RpcHealthStore` has what a store holds of one
chain. `Registry` has the results as a set of chains and lets the refresher add to it at any
moment. `McpSessions` waits at the bearer check, which `Grants` models and which may go either way.
A job of `Assistant` runs what its turn details, and `ChatPanel` polls it. `Timeline` is given forks as
`ForkGroups` makes them. `PrivateRpcStore` is shown to implement `DurableMarks` under
`known <- marked, kept <- file`, and `Grants` to implement `GrantLife` under a `stage` read off the
stored codes and tokens.

Some constants say *where the code is deployed* or *what its environment does*: with or without a database
(`Databases`), reloads or restarts of either deployment (`Lives`), with or without probes on demand
(`Demands`), with or without a list kept by the browser (`Kept`). Each is a set, and a variable or field
that never changes picks a member, so that one run covers all of them.

What a composing module gives its parts is a constant too, declared beside the part: the `.cfg` gives
it a value, and the assumptions of the parts (`StoresAssumption`, `ServicesAssumption`,
`DashboardAssumption`, `CatalogueAssumption`) are what the proofs know of it. TLC evaluates them on the
instance it runs. The parts of `MCCatalogue` that nothing is proved of get their data where they are
instantiated.

### State and code

**Registry.** `loaded` is the set of sources that are not null in `cachedData`; `health` the chains in
`rpcHealth`; `refresh` is `dataRefreshPromise` with what it waits for; `disk` and `payload` the snapshot
file and the one being written. `StartRefresh` is `refreshDataWithGuard` when nothing is in flight;
a caller that finds a refresh in flight joins it and changes nothing. `FetchFails` and `Apply` are its
two ends after the fetches, `Serialise` and `Rename`/`SnapshotFails` the two awaits of
`writeSnapshotToDiskAtomic`. `ReadSnapshot` and `Overlay` are the two halves of
`initializeDataOnStartup`.

**ChainProbes.** A job is what `processChainRpc` holds across its await: the chain, the data version,
the URLs probed and those deferred. `SendProbes` is the piece before the await, `AnswersArrive` the
piece after it, `DeferAll` and `NothingToProbe` the calls that never wait. A *sender* is the tick, which
waits for its job, or the one on-demand job a chain may have. `owed` is history: the providers that
limited us since their back-off last ran out.

**SweepScheduler.** `queue` is the sweep, `running` the job of the tick in flight, `checked` the chains
ordered by `rpcCheckedAt`, `reloaded` whether `lastUpdated` differs from the sweep's version. `stored` is
the order a new process would restore: `saving` is the chain whose `persistChainRpcHealth` is under way,
which with files alone there is only for a first result or a change (`SaveOf`), and which `Saved` lands or
`Restart` loses. `passed` is history: the turns others had while `Watched` waited.

**PrivateRpcStore.** `writer` is where `persistPrivateRpcs` waits: for `mkdir` ("opening"; the set is
not yet serialised) or for the write and rename. `behind` is history: the last write failed.

**RpcHealthStore.** `memory`, `row` and `file` hold the state of one chain; `save` and `stage` are the
`persistChainRpcHealth` call under way. `lost` and `proved` are history.

**PriceService.** `own`, `waits`, `found` and `failed` are the locals of each `fetchCoinIds` call under
way, `inflight` the map of promises. `Settle` is one batch's promise resolving and every callback that
becomes ready through it.

**Grants.** The tables are sets and functions; a request is a record with the stage it waits at and
what it has learnt, and each action is one statement of one handler, which may find a row, find none, or
fail (`End`). A rotation reads the refresh token, deletes the grant's tokens, checks the approver, and
puts new ones, with other requests between any two of these. `owner` is history.

**McpSessions.** `transports` and `lastSeen` are the two maps, `at` where each request and the timer's
sweep wait. A refused request is counted for its address, an authorised one for its licensee, and the
count of the address is taken back.

**ChainIndex.** `IndexData` makes the index of the registries: entries of other networks are excluded,
the rest merged into records, statuses and types settled, relations mirrored, and L2BEAT applied. The
only action is the L2BEAT batch, which changes a live index; a reload is a new start. Relations are sets of
`[kind, id]`; the traversal is breadth-first, a recursive function of the steps taken. Rules of
`validation.js` are operators on it.

**ForkGroups.** `Publish` hands over one more item and rebuilds everything, as the code does; the seven
passes are folds over a sequence of groups. **ForkPlacement** places each mention when it is built: on the
chains the feed's model chose for a release, else by the names, else among the chains of its client, else
under the network a test network tests (`MemberChainIds`). **Timeline** rebuilds `entries` from four
sequences; an entry carries what `finish` lists, what it counts, and what a fork that is called off tells
to run and not to run. A tag is a value that `NormalizeVersion` takes to the version in it or to none.
**NodeForks** keeps the two asynchronous sources of schedules and names apart, with the `memo` and the
versions it compares.

**ProviderStats, ChainHalt, LiveIncidents.** The updates of a provider's page are a set that grows, and
the figures, the groups and the windows are functions of it and of the time. `ChainHalt` lets the chain
produce blocks while its sources answer, so that heights are of different moments; `AnswerWithin` is the
longest an answer takes, whatever it waits for: the look-up of the host, `HALT_CHECK_TIMEOUT_MS`, or the
explorer's turn and its own time-out. `LiveIncidents` has
the feed, its cached copy with the inherited classifications, and the registry that may load later.

**ForkFeeds, ForumNews, IncidentFeed, FeedPages.** What the service has published and what is on its
way (`wire`, an answer under way) are variables, so that an answer is of the moment it was made and a
frame may come twice or after a newer one.

**L2Metrics, Blockscout, ClientFeed, Queries, RpcMonitor, HealthRules.** A clock of a few ticks stands
for the times to live; what was fetched carries the tick it is of. Overlapping reads are separate
records or flights. The ticks of `Queries` are the milliseconds its marks are of; an answer of L2BEAT may be
live, the checked-in snapshot, or nothing, each with the mark `fetchL2Beat` gives it. `L2Metrics` makes one
row per day of a file, except of the landing page's aggregates (`Landing`), which are only sorted.

**Assistant.** A POST races its wait against the run; a job is polled until its removal fires. A turn is a
loop of calls whose time, in milliseconds, is taken off one deadline; `index` and `retried` are the
provider in use and the one that had its second try.

**The dashboard.** A handler runs to its end, so each view is a record (`page`, `view`, `table`,
`graph`, `screen`, `releases`) and each handler an operator on it. What is drawn is kept in the record
as it was last drawn, beside what it was drawn from: staleness shows. Of `BrowserProbes`, `list` is the
rows in the order of the page, the first `OnScreen` of them before "Show more". `Refilled` fills first
whichever of the two lists the server's first row stands in, as `sortProbedRows` does; `sorts` says whether
rows were sorted once or more, since only a first sort is sure to find that row on the screen.

## What the runs check

All passing runs end with every reachable state visited, and none excuses deadlock: where a part
really comes to an end, the composing module's `Over` says when.

**`Registry`**: two registries and SLIP-0044, one chain with results, two crashes (`MaxCrashes`). One
registry may fail while the other loads, or both while SLIP-0044 loads; the second crash can cut short
a start-up from the first one's snapshot.

| Property | Says |
|---|---|
| `AlwaysARegistry` | what serves has the chains of a registry |
| `BackgroundDropsNothing`, `HealthKept` | a background refresh loses no source; results survive every refresh |
| `RegistryRecovers` | a snapshot brings a process up with all upstreams down; failed sources recover; aged data is reloaded |

**`ChainProbes`**: two chains that share a URL, two providers, one of them with two URLs; requests for
one chain, or none; two registries. The shared URL and provider make jobs of different chains meet.
Versions (`Stamps`) are only compared, so there are as many as jobs, plus the live one and a new one,
and they are interchangeable (symmetry; no liveness is checked).

| Property | Says |
|---|---|
| `PrivateStaysOut` | a private URL is not listed whoever probes, and not reported when the tick is alone |
| `ResultsAreOfListed` | results land in the data they were measured for |
| `BackoffRespectedByTick` | a provider that limits us is left alone |

**`Stores`**: three URLs, so that one is marked before, one during and one after a pass of the writer;
three deployments of the health store and five checks (`MaxChecks`), in which a change, its loss, a restart
and two more checks fit; four chains, one without endpoints, of which a reload finds all or all but one, so
that the watched chain can be overtaken by two others beside the mute one; processes that end four jobs or
more (`LifeJobs`): the L2BEAT job, the chain without endpoints, and two more, since the save of the last
may die with the process; three session ids, room for one, and two requests. Disk and database may fail.

| Property | Says |
|---|---|
| `LastWriteHoldsAll`, `DurableSpec` | the last write has every mark; the list implements `DurableMarks` |
| `HealthRemembered` | a restart resumes, one store has what the cache has, silence is unbroken |
| `OvertakenTwiceAtMost` | no other chain is probed a third time before a waiting one |
| `SessionsAreFair` | an authorised request costs its address nothing; a sweep spares what is in use |
| `WhatIsDueHappens` | marks reach the file; listed chains get their turn, over restarts with a database and after those without; idle sessions end |

**`Services`**: ten parts; the instance of each is described at the head of `MCServices`. A turn of the
assistant has the 60 seconds and the caps of the code, in milliseconds. Two milliseconds
(`MaxMilliseconds`) and four loads or batches (`MaxChanges`) are enough for marks that come again: a load,
a live answer, one in the same millisecond or the snapshot in between, and another.

| Property | Says |
|---|---|
| `OneRequestPerCoin`, `FailureKeepsQuotes` | one request per asset; a failed batch costs no quote |
| `AnswersAreGiven` | who was told to poll a job finds it; a turn is refused only when the last provider was tried |
| `NothingStaleIsServed` | the kept forks and the kept list of chains are what would be built now, but for two live answers of L2BEAT in one millisecond |
| `WhatIsKnownStays` | a schedule, a name or a good copy that was learnt is not lost to a failure |
| `PaceHolds` | requests to explorers leave apart |
| `ReportsAreSound` | the feed cache stays within both bounds; means of a series of one row per day are of whole windows; a network named so ranks above lookalikes; the monitor's findings are of one cycle |
| `VerdictsAreOfNow` | a network called dead was silent all the while; findings are of the present registry |

**`Clients`**: two keys, two connectors, one grant, two overlapping requests (interchangeable:
symmetry; no liveness is checked), and eight parts of the dashboard; the instances are described at the
head of `MCClients`. Of five endpoints two are on the screen (`RowsShown`), so that a sort moves rows
between the lists.

| Property | Says |
|---|---|
| `RevokedKeyGetsNothing` | nothing is issued to, or accepted from, a key after its revocation but what was past the check |
| `TokensKeepTheirOwner` | every code and token goes by the approval of its grant, and so does every one to come |
| `GrantsAreLived` | `Grants` implements `GrantLife`: a code is good once, and what is over stays over |
| `PageIsWhatWasAskedFor` | the address is the screen; late answers stay off; nothing waits for a dropped answer |
| `WorkingOnesAreOnScreen` | when a round is over enough endpoints work or all were tested; the fastest are on the screen after a list's first round, and at the head of one of the two lists after a later one |
| `AnswersFollowQuestions` | every question ends in the conversation it was asked in |
| `TimelineIsComplete` | ranges bound only history; each day once; windows move to the past |
| `ListsAreOfWhatWasTold` | releases are of the last answer to the shown query; what news and forum were told twice counts once; lists are current |
| `NetworksAreCurrent` | table and graph are of the newest list and the pressed chips; no link without an end; no frame drawn behind another view |

**`Catalogue`**: ten parts. Registries come in three families (`AllRegistries`), each of which varies
what one group of rules turns on: statuses and parents with cycles, identities over all three
registries, and what says mainnet or test network. Feed items come from a pool in which every merge
pass finds something to merge and something to leave alone, four at a time in every order. The timeline
lists two items of a kind per entry (`MaxGrouped`, 20 in the code), of pools with three, with tags of one
version and of none, and with a fork whose name is a network's. Twelve items about nine chains, and every
set of them, are placed: with chains the model chose, names of one kind, of both and of none, and clients
of one kind and of both. The other instances are described at the head of `MCCatalogue`.

| Property | Says |
|---|---|
| `StatusesAreAccountedFor` | statuses are inherited along parents, the testnet tag follows its claims, and each death reported has a reason |
| `RecordsDescribeOneNetwork` | what is merged under one chain ID describes one network |
| `TraversalIsBreadthFirst` | the walk finds what can be reached, each at its distance |
| `ForksAreAsSaid` | merging loses or doubles no mention; the newest word of its own sources dates a fork |
| `ArchivesAreComplete` | the served archive has no hole; the store has the newest posts as last edited |
| `PageFollowsNewestWord` | an incident's card follows the newest word in whatever order it came |
| `IncidentsAreReal` | a lagging endpoint is no halt; planned work is no outage; trouble is found by its chain |
| `WindowsAreCounted` | no hour counted twice or lost; outages are put together only where one of them was called planned; figures agree; what is known only gets better |
| `TimelineTellsAll` | a fork that is called off is told in full, by version; each item once, or among those an entry counts beyond what it lists |
| `ForksAreWellPlaced` | no mainnet fork gets under a test network by its own chains or by clear names; the network called just so is found among a client's; counts are those of the lists |

Six runs are expected to find a violation; each is a place where the code does not do what its
comments or the README say.

* `RpcHealthStore_stale_row`: the database refuses a changed state, which goes to the file; it comes
  back, and the next, unchanged check stamps its time on the old row. A new process reads the row.
* `ChainProbes_reported`: two overlapping probes of one URL; the one that did not see the 401 ends last
  and puts a result for the private URL back.
* `ChainProbes_backoff`: an older batch that ends after a newer one was limited deletes the back-off
  with its own successes.
* `Catalogue_l2_tag`: a chain that The Graph calls an L2 is listed, then dropped, by L2BEAT. The batch
  takes the tag L2 off the live index although another source stated it, until the next reload.
* `Catalogue_activation`: A at a height, B at that height and a second, C at that second. Merging
  compares the heights and seconds groups had before any merge, so A takes B and stands beside C; in
  another order of the items all three are one fork.
* `Clients_drawer`: a profile with a drawer over it, and the network's answer that arrives after the
  browser's kept list: applying the address again closes the drawer.

Two of them, on `ChainProbes`, need a probe on demand beside the tick's; the passing run shows, and the
proofs prove, that a tick that is alone does what the comments say.

### Fairness

* `Registry`: fetches, file operations and the self-healer's timer come to their end, and a supervisor
  starts the process again. The file operations and the timer are plain. A registry fetch has no
  timeout of its own (`src/transport/fetch.js:32`): that it ends rests on the connection. Should it hang,
  every later refresh joins it; this is in the list of hazards.
* `Stores`: an operation on the private list's file that was started succeeds or fails (`Writing`).
  The interval timer ticks while no tick is in flight (`TickStarts`), and a job's calls all have a
  timeout (`TickEnds`). The interval of the sessions fires and the transports it closes do close
  (`StartSweep`, `CloseIdle`, `EndSweep`). The save of a check, which nobody waits for, ends (`Saved`),
  and no later than the next job does. For restarts there is one assumption the code does not make:
  a process ends at least `LifeJobs` jobs (the L2BEAT job, the chains without endpoints, two more), for
  otherwise the chains without endpoints lead every new sweep and nothing else is ever reached. Without
  a database the restarts must stop for every chain to get its turn, which the property says.

The other runs check no liveness: what a caller, a reader or an upstream does next is its own affair.

## What is proved

All of these hold for every value of the constants that satisfies the modules' assumptions, with any
number of crashes, chains, URLs, providers, keys, connectors, grants, requests, assets, calls, sessions, jobs,
endpoints, tests, feeds, files, schedules, names, messages, stories, networks, openings, posts, updates and
events. A theorem on a composed specification first shows that it runs
the part as the part's own module says (`...RunAlone`), and then follows from the part's invariant.

| Module | Theorem | States |
|---|---|---|
| `Registry` | `TypeCorrect`, `RegistryServed`, `BackgroundKeeps`, `HealthSurvivesRefresh` | `TypeOK`, `AlwaysARegistry`, `BackgroundDropsNothing`, `HealthKept` |
| `ChainProbes` | `PrivateIsKeptOut`, `ResultsStayWithTheirData`, `BackoffIsRespected` | `PrivateStaysOut`, `ResultsAreOfListed`, `BackoffRespectedByTick` |
| `StoresProofs` | `TypeCorrect`, `LastWriteCorrect`, `FileGrows`, `ImplementsDurableMarks` | `TypeOK`, `LastWriteHoldsAll`, `FileNeverForgets`, `DurableSpec` of the private list |
| | `HealthIsRemembered` | `HealthRemembered` |
| | `NoneOvertakenThrice` | `OvertakenTwiceAtMost` |
| | `SessionsAreFairToAll` | `SessionsAreFair` |
| `ServicesProofs` | `SharedRequests`, `QuotesAreKept` | `OneRequestPerCoin`, `FailureKeepsQuotes` |
| | `ExplorersAreSpared` | `PaceHolds` |
| | `AnswersAreAlwaysGiven` | `AnswersAreGiven` |
| | `VerdictsAreAlwaysOfNow` | `VerdictsAreOfNow` |
| | `NothingStaleIsEverServed` | `NothingStaleIsServed` |
| | `WhatIsKnownAlwaysStays` | `WhatIsKnownStays` |
| | `ReportsAreAlwaysSound` | `ReportsAreSound` |
| `ClientsProofs` | `TypeCorrect`, `RevocationHolds`, `OwnersAreKept`, `GrantsImplementTheirLife` | `TypeOK`, `RevokedKeyGetsNothing`, `TokensKeepTheirOwner`, `GrantsAreLived` |
| | `AnswersAlwaysFollow` | `AnswersFollowQuestions` |
| | `ListsAreAlwaysOfWhatWasTold` | `ListsAreOfWhatWasTold` |
| | `NetworksAreAlwaysCurrent` | `NetworksAreCurrent` |
| `PageProofs` | `PageIsAlwaysWhatWasAskedFor` | `PageIsWhatWasAskedFor` |
| | `TimelineIsAlwaysComplete` | `TimelineIsComplete` |
| | `WorkingOnesAreAlwaysOnScreen` | `WorkingOnesAreOnScreen` |
| `CatalogueProofs` | `ArchivesAreAlwaysComplete` | `ArchivesAreComplete` |
| | `IncidentsAreAlwaysReal` | `IncidentsAreReal` |
| | `PageAlwaysFollowsNewestWord` | `PageFollowsNewestWord` |
| `IndexProofs` | `RecordsAlwaysDescribeOneNetwork` | `RecordsDescribeOneNetwork` |
| | `StatusesAreAlwaysAccountedFor` | `StatusesAreAccountedFor` |
| | `TraversalIsAlwaysBreadthFirst` | `TraversalIsBreadthFirst` |

* **Registry.** `AlwaysARegistry` is not inductive: it says nothing of a process restored from a
  snapshot that does not serve yet, nor of a refresh that has applied its sources and is writing them.
  `RegistryInv` adds both: the payload has a registry, and so does the cache from the moment it is
  filled. The two action properties then follow action by action; what matters is that `StartRefresh`
  needs an idle guard, so the options of a refresh are those of its starter until it ends.
* **ChainProbes.** `ResultsAreOfListed` needs `GuardInv`: while the stamp of a job is the live one,
  the URLs it probed and deferred are listed by its chain or have since been found private. Reloads
  keep it because they never reuse a stamp some job remembers. What `PrivateStaysOut` says of a lone tick
  needs `ReportInv` (no job of a lone tick holds a private URL), and `BackoffRespectedByTick` needs
  `BackoffInv` (what is owed is throttled, and no URL of an owed provider is being probed): both fail
  with a second sender, which is what the violations show.
* **PrivateRpcStore.** `LastWriteHoldsAll` needs `WriterInv`: a running pass that is not followed by
  another has captured, or will capture, everything marked. `FileNeverForgets` needs `FileInv`: the file
  is part of what is marked while the process is up, and of what the pass captured while it writes. Both
  `FileGrows` and `ImplementsDurableMarks` assume `~ReadMayFail`: after an unreadable file the next
  write does forget.
* **RpcHealthStore.** That a restart resumes and one of two stores holds the last state needs what
  holds while a save is half done: `SaveInv` (a save under way is of what the cache holds, and a
  database that never fails leaves nothing to the file), `StoresInv` (a store agrees with the cache
  whenever the save has nothing left to change), and `SilenceInv` (no record counts its silence from
  before an answer that was proved, in memory or in what would be read back). The clock and the checks
  are unbounded in the proof.
* **SweepScheduler.** A chain may pass the watched one while it is ahead in what is left of a sweep, and
  again in the next. `Ahead` counts the turns it may still have before the watched chain's, and the
  invariant is that those and the ones it had make two at most. It holds because a new sweep is sorted
  by the time of the last check (`QueueIsBuilt`), and a reload keeps the order of what it keeps
  (`OnlyIs`). `Only` is the code's `filter`, defined by positions, since what `SelectSeq` computes is a
  recursion the prover knows nothing of.
* **McpSessions.** `BudgetInv`: what an address has spent is at most its refused requests and those still
  under check. `SweepInv`: ids are given out once, so what a sweep is about to close and is in use
  again is never still marked idle.
* **Blockscout.** `PaceInv` keeps the turns that were taken apart, those of requests that left as well as
  those of flights that wait, and `lastRequest` at the last of them; of what left alone it says too
  little to be inductive.
* **Assistant.** `JobsInv`: a job that runs is in the map and no removal is set for it.
  `TurnInv` follows the deadline, in milliseconds: each attempt that leaves something for a later one takes
  three fifths of what is left, rounded down, or a second, so of more than 6250 there are more than 2500
  left after the guard, more than 1000 after one attempt, and something after two, which is what the
  fallback's try needs. With 6250 the fallback may get nothing, and so more is the assumption
  (`RunAssumption`); `ASSISTANT_TIMEOUT_MS` is 60 seconds unless set.
* **HealthRules.** `RulesInv`: only a silent endpoint has a time since when, which no answer came after.
  The span rule 18 reports is of the latest of those times (`GreatestIs`: a bounded set of days has a
  greatest), so nothing answered within it.
* **Queries.** `ListsInv`: of the load that is live, a kept list has the mark of the answer it was built
  of, or one that is behind it in `past`; the snapshot and nothing have marks that no live answer has. So
  a list whose key is the present one is of the present answer, unless that has the millisecond of an
  earlier live one of the load. For two loads within a millisecond the index tells. The
  result of a search has each chain at the place that the number of chains above it gives
  (`RankedByPass`), and the pass that finds a name comes before the one that finds it inside another
  (`NamedComesFirst`).
* **L2Metrics.** Each read returns a part as good as the one it began with, or better (`AsGood`). A good
  copy has each day once, but for the landing page's (`NormalizedOncePerDay`), so a window that has as many
  rows as days has a row for every day of it (`WindowsAreWhole`): a set that maps one to one into another
  of its size covers it.
* **ClientFeed.** `CacheInv`: the count is the sum of the bytes of what is in the list. Where a body goes
  in or out, the sum is taken apart into stretches of the list, and equal stretches have equal sums
  wherever they lie (`SameStretchSameSum`). Evicting from the front leaves a last stretch, the longest
  that is within the bounds (`RememberKeeps`).
* **RpcMonitor.** `MonitorInv`: all cycles but the last are over, and what is shown is of the last one
  (`OneCycleAtATime`). Within a cycle each chain of a begun batch is at an endpoint that has a test or
  behind its last one (`ChainAt`), the earlier batches are done, and the counts are those of the list.
* **NodeForks.** `VersionsTell`: every change of what schedules and names say moves one of two versions.
  Hence forks that were built under a key are those of now as long as the key is (`MemoInv`), for calls
  that overlap too. A refresh writes back what it began with, so nothing is lost to a failure because
  there is one at a time (`RefreshInv`).
* **Grants.** `Fits` says what a request holds at each stage, and that a key it has found revoked is
  revoked still; `RevokedKeyGetsNothing` follows. `OwnerInv` says that codes, tokens and the requests
  about to issue tokens carry the approval of their grant, and that a grant whose code is there has
  neither tokens nor a request that holds it: this is why a code is good once, whatever statements of
  two exchanges interleave. Every statement but the one that stores a code only passes approvals on
  (`PassedOn`), which gives the refinement: storing a code is `Offer`, every other statement is
  `Advance` or a stutter.
* **ChatPanel.** `ChatInv`: the question under way is the last that was asked, stands at the end and is said
  once; every other one is followed by its reply or had its notice. What is kept of a long
  conversation is its end (`Latest`), which may cut a question from the front but never a reply from
  behind its question.
* **ReleaseList.** What is on screen is at every moment what would be drawn of the query's own answer,
  so an answer that comes late, to another query, or after the reader left changes nothing before him.
* **FeedPages.** `FeedInv`: what is drawn is of the stories the page has, unless a redraw is due.
  `ToldOK`: what it has of a story is of frames that were told, its publishers are counted once, and its
  time is that of the newest. A load brings the service's own
  grouping, which is of at least what the socket told, since it was published before. The newest of a
  story's frames exists because there are finitely many (`FiniteHasGreatest`), by a smallest
  counterexample: the library's well-founded minimum stands in for an induction.
* **NetworkTable.** `TableOK`: what is before a reader has the columns that are shown, and sorts by one of
  them. That needs `latched` to be set wherever the incident column is shown, for when an incident ends
  the column stays. While the reader types, the rows lag until the timer fires; the columns do not.
* **NetworkGraph.** `IsGraph` holds in every view: what was built is of now, or is marked dirty; the
  library is loaded if anything was built; while it loads, somebody waits for it. Every draw starts from
  the whole of the newest list, and every visit looks at the mark first.
* **ChainPage.** `DrawerOK` and `ProfileOK`: each request says which opening it was made for, requests of
  the current opening are of the network on the screen, and each part on the screen is settled or has
  such a request (`Awaits`). So a late answer of an earlier opening is told apart and dropped. The
  history holds addresses whose reading gives them back, and the one at hand is that of the screen
  (`Matches`), before and after Back and Forward. A page that was rendered before the list came is
  rendered again when it comes, and `HeaderOK` says that its header is of the list it was last fed, or a
  newer one is awaited.
* **TimelineView.** The rows are the events in the places their ranks in a strict order give them
  (`RankedIs`, `RowsAreOrdered`), so each is there once, and those of one separator are a single run
  (`RowsAreInRuns`). `ViewOK` says that rows and counts are drawn of what was loaded and searched as of
  the last drawing; what is pending is then on the axis or counted as later (`ToCome`); and since the
  ticker looked, no countdown of what is on the screen has ended, the one of what is next included,
  which is the least of all, so nothing with an hour has crossed into the past (`NothingHasCrossed`).
* **BrowserProbes.** `ProbesAre`: the tests under way are numbered, those of the present list are as many
  as `active` counts (`FlightsOK`), and a row that is pending waits or is under test (`AllUnderway`). The
  pool conserves tests: what it starts leaves the queue (`PumpedIs`). So when the last test ends nothing
  is pending, and if no more rows are sent for, as many work as are wanted or nothing is untested, for of
  any untested rows one is the first in the server's order (`MoreIs`, `RoundIsOver`). A row that
  is skipped or queued again later does not undo this. Until its first sort a list is in the server's
  order, so that sort fills what is on the screen first; of a later one only this is known, that it is
  the sorted rows or the two pieces of them the other way about. Tests of an earlier list carry its token.
* **PriceService.** `BatchInv`: the assets a call fetches itself are those whose shared request is its
  own, the ones it waits for are in others' requests, and a call that waits for nothing has recorded.
  Hence no asset is asked for twice at a time, and no call waits for an answer that came already. That
  a failed batch keeps its quotes follows from what `Settle` may write.
* **ForkFeeds.** `ArchiveInv`: what was read page by page holds everything that mentions a fork, was there
  when the reading began and is newer than where it ends (`PagesOK`), while pages are read (`OlderOK`),
  when they are answered, and in the cache (`ServedOK`). A page may repeat items and more may be
  published between two of them; that nothing falls between two pages needs only that a page is of the
  newest items up to its `until`, which is inclusive.
* **ForumNews.** `NewsInv`: the store is the newest of the posts heard, each as it was edited last
  (`StoreInv`). A post that is taken replaces its older revision, is placed among the others, or is the
  one that is evicted (`RevisionIsTaken`), and a batch is taken post by post (`BatchIsTaken`): the first
  post after which it failed would be a smallest counterexample.
* **ChainHalt.** `HaltInv` keeps the answers within `AnswerWithin` of when the sources were asked, and says
  what a verdict was reached on. The newest block of the answers is older than the threshold, and so is every
  other one, at most `AnswerWithin` earlier; which of the sources lagged does not matter.
* **LiveIncidents.** `LiveInv`: the copy is of a finite set of updates as the registry stood at the load,
  and its incidents are the newest update of each with the newest class somebody was sure of
  (`IncidentIs`). Both readers judge that same record.
* **IncidentFeed.** `PageIs` says of what arrived what the page has: each incident is of its dated events
  (`ItemIs`), each class of the words said of it (`WordIs`), and the classifications that wait are those
  whose event has not come. One event or frame more keeps it (`EventIsTaken`, `FrameIsTaken`,
  `EarlyFrameWaits`), whichever comes first and however often, and so does a batch. `ShownIs` is what is
  on screen when no redraw is due: whatever changes an incident makes one due.

* **ChainIndex.** `IndexInv`: the raw data are a registry's and each record is what `indexData` builds of
  them, up to what L2BEAT's answers set, for a batch changes no other field (`RecordsStay`). What is
  claimed of the records then follows from finite data alone. The pass that spreads a death along the
  relations only adds chains, and a growing set settles in as many steps as it has elements to gain
  (`GrowingSettles`), so the dead chains are the smallest set that passes death on (`DeadAre`): each of
  them has a reason. Chains of parents outside the cycles end (`ParentsEnd`), so the types settle whatever
  was learnt about the hints (`TypesAreResolved`). Of the walk, `WalkOK` says that its queue is in order of
  distance, that whoever is nearer than its front was visited at their own distance
  (`NearerIsVisited`), and which edges it has; each step takes from what is left to look at (`ToLookAt`),
  so the walk is over within the bound of the recursion, and what `WalkOK` says of an empty queue is the
  property. The bound counts the chains that are named, not those in the index: relations may lead out
  of it.

What is assumed of the registries is that they are finite (`IndexAssumption`). Two assumptions on lists
are the services' own: an event of the timeline has an ID of its own and is of after 1970
(`TimelineViewAssumption`), and growthepie's bundled series, but for
the landing page's, have each day once (`FilesAssumption`). What
the proofs of the catalogue assume of the feeds is where "the newest" would otherwise be "the one that
came last", in the code as in the model: no two posts are published in one millisecond and an edit keeps
a post's time (`NewsAssumption`); no two updates of an incident are of one time (`LiveAssumption`,
`FeedAssumption`); no two classes are told of an incident at one time, a frame says when it was sent
(`docs/SERVICE-CONTRACT.md:118`), and an event has one frame. With two, a replay that brings both before
the event leaves the one that arrived last waiting (`public/app.js:1182`), which may be the older.

Only model-checked:

* liveness (`RegistryRecovers`, `WhatIsDueHappens`), which is beyond the prover's reach;
* the algorithms of `MCCatalogue` that fold over their data: the merging of forks (`ForksAreAsSaid`), where
  they are placed (`ForksAreWellPlaced`), the timeline made of them (`TimelineTellsAll`) and the figures of
  providers (`WindowsAreCounted`). What a fold computes for every input needs an induction that the
  prover cannot instantiate. They are run over all inputs of their pools instead.

## What is not modelled

Components:

* **Database pool.** I/O; the stores take it as a database that answers or does not. A connect that
  fails after `closeDatabase` has replaced the pool resets the wrong one (`src/store/database.js:61`), in
  a process that is shutting down.
* **Transport.** I/O with timeouts and retries, which appears as outcomes.
* **REST API and access log.** Routes read the cache and format; what changes state is in the modules.
* The tools of MCP and assistant, which only read; parsing of feeds and pages; matching of words in
  prose; rendering and charts; one-off scripts; metrics and logging.

Within modelled parts: several replicas on one database; `DATA_CACHE_ENABLED=false`;
`MAX_ENDPOINTS_PER_CHAIN`; the length of a back-off and its doubling; what the static fallbacks of L2BEAT
and DefiLlama hold; a deployment of the MCP server without `PUBLIC_ORIGIN`; the assistant without its topic
guard; endpoint lists, bridges, names and Beacon tags in the index; the validation rules that compare
names, symbols or single values; the browser's one-minute cache of a profile's answers
(`public/profile.js:42-49`), narrow screens, and a document that is hidden (except for `ReleaseList`).

### Known to happen, and covered by no property

Places where the code's behaviour is worth knowing and no property says otherwise, because the model
leaves them out or because nothing in the repository promises more:

* An unreadable private list counts as empty at start-up, and the next pass overwrites it
  (`src/store/privateRpcStore.js:103`); the proofs assume it away.
* Two saves of one chain may be under way and land in either order (`src/services/chainRefresher.js:315`);
  replicas share the rows (`src/store/rpcHealthDb.js:41`).
* `isMonitoring` is cleared by the first of two overlapping jobs (`chainRefresher.js:256`); a request
  whose probe a reload drops leaves its chain under the cool-down (353); a deferred endpoint keeps its
  last result (262).
* A call that waited for a slower batch records an older quote again (`priceService.js:206`); the timer
  of a price fetch ends with the headers, not the body (114).
* Feedback that arrives while the file is still being read back may be listed twice, or before older
  reports (`src/services/feedback.js:40-58`).
* A provider's reschedule (`src/domain/forks.js:443-450`) never touches the final activation; a fork
  shown past by a later one stays so when a release names it later (`src/services/timeline.js:82`, 403-417).
  An article joins a story without its chains; a reschedule whose new date has passed counts as safe.
* Without a database a restart restores the time of each chain's last change
  (`src/store/rpcHealthStore.js:46-50`), so after it the chains whose state is steady lead the sweep,
  whenever they were last checked. A process that restarts early and often may probe the same few again
  and again, against the intention of `chainRefresher.js:403-405`.
* Two live answers of L2BEAT within one millisecond share a mark, and the list of chains that was built of
  the first is kept (`src/store/queries.js:75-78` accepts it).
* The MCP server counts a session after the await in which another may be admitted (`mcp-server-http.js:147`),
  so there may be more than the limit by as many as are initialising; `McpSessions` models it, and
  no property bounds it.
* An empty message of the model is a strike but does not switch the provider.
* The sparkline counts overlapping incidents apart from the percentage (`src/services/providerStats.js:234`);
  an incident that is resolved and opened again is listed as ongoing and charged to its first resolution;
  one whose status is unknown is listed as ongoing (145-161, on purpose) and never charged (133).
* Announced dates of the last known fork restart when the next one activates (`nodeForkSchedule.js`).
* growthepie's reads wait while only its fallback is loaded, and a live file that fails is read again
  at every read. The landing page's series keep a day that is given twice (`growthepie.js:200-205`), so a
  mean over seven rows may be of six days; and a landing page whose table is there while the shape of its
  aggregates drifted replaces the good series with none (351).
* After a second round of tests of one list (Test again, or more rows scrolled to) the rows on the screen
  and those behind "Show more" may change places (`public/profile.js:1057-1069`), against the comment
  above it: the fastest endpoints are then the hidden ones. A first round is not exposed to it.
* A chain the feed's model chose for a release is taken as it is (`src/domain/forks.js:898-900`), also a test
  network for a fork of "Mainnet", which `src/services/forks.js:221` means to keep apart. A name both a main
  network and a "... Testnet" have is judged by the one listed last (189-192, 217-221), so "Testnet" beside
  such a name may be placed on the main network.
* Tags of one client without a dotted version count as one version (`src/services/timeline.js:719-722`):
  a release that still activates a fork that is called off may go unnamed when another such tag is the
  one to run.
* Planned entries that are put together as one rollout, whose newest word then is an incident's, are charged
  as one outage.
* `chainLevel` uses the present registry where the derived chain is of load time; keywords lag behind an
  L2BEAT batch; a search text that starts with digits is read as a number.
* Rules 12, 18 and 19 judge endpoints a reload removed until the next sweep.
* The monitor's `totalEndpoints` leaves out the endpoints it did not test.
* In the dashboard: the head poller of an earlier opening of the same chain (`public/app.js:4625`); an
  input that stays disabled after a failed look (4808-4813); a list that ends loading after the reader
  left starts the ticker on another view (725-728); chip counts lag behind the incidents (2086); news
  tiles and class chips are not redrawn on return, and frames missed while a socket is down are not
  fetched; the graph resumes on a new list although the document is hidden; a fork known by its day has
  no countdown after midnight.
