------------------------------ MODULE Registry ------------------------------
(***************************************************************************)
(* Loading and reloading the chain registries: loader.js, cache.js,        *)
(* snapshot.js and sourceRefresher.js (src/src/services, src/src/store),   *)
(* with POST /reload (http/routes/admin.js) and the order of start-up      *)
(* (http/app.js).                                                          *)
(*                                                                         *)
(* One refresh is in flight at a time: whoever asks for another joins it,  *)
(* whatever options they would have used.  A refresh waits for its         *)
(* fetches, replaces the cache in one piece, then waits for the snapshot   *)
(* to be serialised and renamed.  The refresher records RPC results        *)
(* meanwhile, upstreams come and go, and the process may die at any step.  *)
(*                                                                         *)
(* Abstracted: a source is loaded or not (null).  L2BEAT and DefiLlama     *)
(* always load, from their static copy if need be, and are left out, as is *)
(* DATA_CACHE_ENABLED = false, without which there is no snapshot.         *)
(***************************************************************************)
EXTENDS Naturals, TLAPS

CONSTANTS
    Source,      \* what a refresh fetches
    Registries,  \* those of them that hold chains: theGraph, chainlist, chains
    Chain,       \* chains with RPC results
    DiskMayFail, \* whether writing the snapshot may fail
    MaxCrashes,  \* bound: times the process dies
    NoRefresh,   \* dataRefreshPromise is null
    NoSnapshot   \* no snapshot file, or one that is not valid

ASSUME RegistryAssumption ==
    /\ Registries \subseteq Source
    /\ DiskMayFail \in BOOLEAN
    /\ MaxCrashes \in Nat

\* Who started a refresh: a start-up without a snapshot, the background (a
\* start-up with one, or the self-healer), or POST /reload.
Starter == {"startup", "background", "reload"}

\* What it waits for: its fetches, the directory, the rename of the snapshot.
Refresh == [by : Starter, phase : {"fetching", "saving", "writing"}]

Snapshot == [sources : SUBSET Source, health : SUBSET Chain]

ASSUME NothingAssumption == NoRefresh \notin Refresh /\ NoSnapshot \notin Snapshot

VARIABLES
    boot,      \* "down"; "loading" (loadData at start-up) and then "fetched", or
               \* "restored" from the snapshot, until the stored health is laid
               \* over; "serving"
    loaded,    \* sources that are not null in cachedData
    health,    \* chains in cachedData.rpcHealth
    aged,      \* cachedData.lastUpdated is REGISTRY_MAX_AGE_MS old
    refresh,   \* the refresh in flight, or NoRefresh
    payload,   \* the snapshot it is writing
    disk,      \* the snapshot file
    stored,    \* chains in the RPC health store
    upstream,  \* sources whose fetch would succeed, retries included
    crashes    \* times the process has died

vars == <<boot, loaded, health, aged, refresh, payload, disk, stored, upstream, crashes>>

Types ==
    /\ boot \in {"down", "loading", "fetched", "restored", "serving"}
    /\ loaded \in SUBSET Source
    /\ health \in SUBSET Chain
    /\ aged \in BOOLEAN
    /\ refresh \in Refresh \cup {NoRefresh}
    /\ payload \in Snapshot \cup {NoSnapshot}
    /\ disk \in Snapshot \cup {NoSnapshot}
    /\ stored \in SUBSET Chain
    /\ upstream \in SUBSET Source
    /\ crashes \in 0 .. MaxCrashes

\* A refresh at start-up is the one loadData waits for, and the others need a
\* process that serves.  There is a payload exactly while a refresh writes it.
InStep ==
    /\ boot \in {"down", "fetched", "restored"} => refresh = NoRefresh
    /\ refresh # NoRefresh => (refresh.by = "startup" <=> boot = "loading")
    /\ payload # NoSnapshot <=> refresh # NoRefresh /\ refresh.phase = "writing"

TypeOK == Types /\ InStep

Init ==
    /\ boot = "down"
    /\ loaded = {} /\ health = {} /\ stored = {}
    /\ aged = FALSE
    /\ refresh = NoRefresh
    /\ payload = NoSnapshot /\ disk = NoSnapshot
    /\ upstream \in SUBSET Source
    /\ crashes = 0

-----------------------------------------------------------------------------
(* The refresh                                                             *)

\* Mutant: no refresh keeps a last good copy.
KeepsNothing(by) == by \notin Starter

\* keepLastGood.  In the background the cache always has an index to keep from.
KeepsLastGood(by) == by = "background"

\* Mutant: every refresh starts the results afresh.
PreservesNothing(by) == by \notin Starter

\* preserveRpcHealth
PreservesHealth(by) == by = "background"

\* refreshDataWithGuard, when no refresh is in flight to be joined.
StartRefresh(by) ==
    /\ refresh = NoRefresh
    /\ refresh' = [by |-> by, phase |-> "fetching"]

\* Mutant: SLIP-0044 alone counts as a registry.
AnySourceCame(came) == came # {}

\* requireAtLeastOneSource, which every caller sets, asks for a fresh registry.
RegistryCame(came) == came \cap Registries # {}

\* The refresh throws; a start-up that waits for it ends the process.
Throw ==
    /\ refresh' = NoRefresh
    /\ boot' = IF boot = "loading" THEN "down" ELSE boot

\* Every fetch has ended.  Without a fresh registry the refresh throws before it
\* touches anything.
FetchFails ==
    /\ refresh # NoRefresh /\ refresh.phase = "fetching"
    /\ ~ RegistryCame(upstream)
    /\ Throw
    /\ UNCHANGED <<loaded, health, aged, payload, disk, stored, upstream, crashes>>

\* Otherwise applyDataToCache replaces the cache in one piece: a source that
\* failed is null, or keeps the copy the cache holds at this moment.
Apply ==
    /\ refresh # NoRefresh /\ refresh.phase = "fetching"
    /\ RegistryCame(upstream)
    /\ loaded' = IF KeepsLastGood(refresh.by) THEN loaded \cup upstream ELSE upstream
    /\ health' = IF PreservesHealth(refresh.by) THEN health ELSE {}
    /\ aged' = FALSE
    /\ refresh' = [refresh EXCEPT !.phase = "saving"]
    /\ UNCHANGED <<boot, payload, disk, stored, upstream, crashes>>

\* writeSnapshotToDiskAtomic serialises when the directory is there.  The results
\* are read through the live cache: those recorded since Apply are in.
Serialise ==
    /\ refresh # NoRefresh /\ refresh.phase = "saving"
    /\ refresh' = [refresh EXCEPT !.phase = "writing"]
    /\ payload' = [sources |-> loaded, health |-> health]
    /\ UNCHANGED <<boot, loaded, health, aged, disk, stored, upstream, crashes>>

\* The refresh is over, and a start-up that waited for it goes on.
EndRefresh ==
    /\ refresh' = NoRefresh
    /\ payload' = NoSnapshot
    /\ boot' = IF boot = "loading" THEN "fetched" ELSE boot

Rename ==
    /\ refresh # NoRefresh /\ refresh.phase = "writing"
    /\ disk' = payload
    /\ EndRefresh
    /\ UNCHANGED <<loaded, health, aged, stored, upstream, crashes>>

\* mkdir, writeFile or rename fails: logged, and the old snapshot stays.
SnapshotFails ==
    /\ DiskMayFail
    /\ refresh # NoRefresh /\ refresh.phase \in {"saving", "writing"}
    /\ EndRefresh
    /\ UNCHANGED <<loaded, health, aged, disk, stored, upstream, crashes>>

-----------------------------------------------------------------------------
(* Start-up                                                                *)

Usable == disk # NoSnapshot

\* initializeDataOnStartup: a valid snapshot is applied, whatever its age, else
\* the process waits for a first load.
ReadSnapshot ==
    /\ boot = "down"
    /\ IF Usable
       THEN /\ boot' = "restored"
            /\ loaded' = disk.sources
            /\ health' = disk.health
            /\ aged' \in BOOLEAN
            /\ UNCHANGED refresh
       ELSE /\ boot' = "loading"
            /\ StartRefresh("startup")
            /\ UNCHANGED <<loaded, health, aged>>
    /\ UNCHANGED <<payload, disk, stored, upstream, crashes>>

\* overlayDiskRpcHealth: the store is authoritative, unless it is empty.  Then
\* the process serves; one that started from a snapshot refreshes behind it.
Overlay ==
    /\ boot \in {"restored", "fetched"}
    /\ boot' = "serving"
    /\ health' = IF stored # {} THEN stored ELSE health
    /\ IF boot = "restored" THEN StartRefresh("background") ELSE UNCHANGED refresh
    /\ UNCHANGED <<loaded, aged, payload, disk, stored, upstream, crashes>>

-----------------------------------------------------------------------------
(* A process that serves                                                   *)

\* getFailedSources
FailedSources == Source \ loaded

\* Mutant: only a failed source makes the self-healer act.
HealOnFailure == FailedSources # {}

\* A registry failed, or they all are REGISTRY_MAX_AGE_MS old.
HealNeeded == FailedSources # {} \/ aged

\* runSourceHealCheck, every SOURCE_REFRESH_INTERVAL_MS.  A check that finds a
\* refresh in flight joins it.
HealCheck ==
    /\ boot = "serving"
    /\ HealNeeded
    /\ StartRefresh("background")
    /\ UNCHANGED <<boot, loaded, health, aged, payload, disk, stored, upstream, crashes>>

\* POST /reload
ManualReload ==
    /\ boot = "serving"
    /\ StartRefresh("reload")
    /\ UNCHANGED <<boot, loaded, health, aged, payload, disk, stored, upstream, crashes>>

\* The refresher records results; its save may be lost (RpcHealthStore).
RecordHealth(c) ==
    /\ boot = "serving"
    /\ health' = health \cup {c}
    /\ stored' \in {stored, stored \cup {c}}
    /\ UNCHANGED <<boot, loaded, aged, refresh, payload, disk, upstream, crashes>>

-----------------------------------------------------------------------------
(* The environment                                                         *)

AgePasses ==
    /\ boot = "serving"
    /\ ~ aged
    /\ aged' = TRUE
    /\ UNCHANGED <<boot, loaded, health, refresh, payload, disk, stored, upstream, crashes>>

UpstreamChanges ==
    /\ upstream' \in SUBSET Source
    /\ UNCHANGED <<boot, loaded, health, aged, refresh, payload, disk, stored, crashes>>

Crash ==
    /\ boot # "down"
    /\ crashes < MaxCrashes
    /\ crashes' = crashes + 1
    /\ boot' = "down"
    /\ loaded' = {} /\ health' = {}
    /\ aged' = FALSE
    /\ refresh' = NoRefresh
    /\ payload' = NoSnapshot
    /\ UNCHANGED <<disk, stored, upstream>>

Next ==
    \/ FetchFails \/ Apply \/ Serialise \/ Rename \/ SnapshotFails
    \/ ReadSnapshot \/ Overlay
    \/ HealCheck \/ ManualReload
    \/ \E c \in Chain : RecordHealth(c)
    \/ AgePasses \/ UpstreamChanges
    \/ Crash

\* Fetches, file operations and timers come to their end; the supervisor starts
\* the process again.
Fairness ==
    /\ WF_vars(ReadSnapshot) /\ WF_vars(Overlay)
    /\ WF_vars(FetchFails \/ Apply)
    /\ WF_vars(Serialise \/ Rename)
    /\ WF_vars(HealCheck)

Spec == Init /\ [][Next]_vars

FairSpec == Spec /\ Fairness

-----------------------------------------------------------------------------
(* Properties                                                              *)

\* "If every chain registry fails but SLIP-0044 succeeds, the API would otherwise
\* come up with an empty index": a process that serves has the chains of some
\* registry, and so has the snapshot a later process starts from.
AlwaysARegistry ==
    /\ boot = "serving" => loaded \cap Registries # {}
    /\ disk # NoSnapshot => disk.sources \cap Registries # {}

\* "One source down for a moment must not drop its chains": while a background
\* refresh is in flight, whoever joined it, no loaded source is lost.
BackgroundDropsNothing ==
    [][refresh # NoRefresh /\ refresh.by = "background" /\ boot' # "down" =>
          loaded \subseteq loaded']_vars

\* Re-fetching the registries "doesn't wipe an in-progress monitoring sweep": the
\* results served are only lost to POST /reload, also those recorded while a
\* refresh was waiting.
HealthKept ==
    [][boot = "serving" /\ boot' # "down" /\ ~ (refresh # NoRefresh /\ refresh.by = "reload") =>
          health \subseteq health']_vars

\* Stale-first start-up: with a snapshot the process gets to serve, whatever the
\* upstreams do.
SnapshotServes == boot = "down" /\ disk # NoSnapshot ~> boot = "serving"

\* A failed fetch does not leave "a registry empty until someone ran POST /reload
\* or restarted the pod": once the upstreams answer, everything is loaded.
SourcesRecover == <>[](upstream = Source) => <>[](boot = "serving" /\ loaded = Source)

\* The registries are reloaded once they are too old, as long as one of them can
\* be fetched.
AgedDataReloads == <>[](upstream \cap Registries # {}) => (aged ~> ~aged)

\* Together: whatever failed, a process comes to serve, whole and not too old
\* (server start-up, and sourceRefresher.js:1-20).
RegistryRecovers == SnapshotServes /\ SourcesRecover /\ AgedDataReloads

-----------------------------------------------------------------------------
(* Proofs, for all sources, registries and chains                          *)

\* What TypeOK says of the order of start-up and refresh is inductive by itself;
\* that a registry is always there is followed from the fetch that found it
\* through the cache and the payload to the snapshot, and back.
RegistryInv ==
    /\ boot \in {"fetched", "restored", "serving"} => loaded \cap Registries # {}
    /\ refresh # NoRefresh /\ refresh.phase # "fetching" => loaded \cap Registries # {}
    /\ payload # NoSnapshot => payload.sources \cap Registries # {}
    /\ disk # NoSnapshot => disk.sources \cap Registries # {}

\* A process that has never run is in one of the loader's states.
LEMMA TypeInit == Init => TypeOK
<1> SUFFICES ASSUME Init PROVE TypeOK
    OBVIOUS
<1>1. Types
    <2>1. crashes \in 0 .. MaxCrashes
        BY RegistryAssumption DEF RegistryAssumption, Init
    <2> QED BY <2>1, Zenon DEF Init, Types
<1>2. InStep
    BY DEF Init, InStep
<1> QED BY <1>1, <1>2 DEF TypeOK

\* A step leaves start-up, refresh and payload in step with each other.
LEMMA TypeStep == TypeOK /\ [Next]_vars => TypeOK'
<1> SUFFICES ASSUME Types, InStep, [Next]_vars PROVE Types' /\ InStep'
    BY DEF TypeOK
<1> USE RegistryAssumption, NothingAssumption
        DEF RegistryAssumption, Types, InStep, Refresh, Snapshot, Starter
<1>1. CASE FetchFails
    BY <1>1 DEF FetchFails, Throw
<1>2. CASE Apply
    BY <1>2 DEF Apply
<1>3. CASE Serialise
    BY <1>3 DEF Serialise
<1>4. CASE Rename
    BY <1>4 DEF Rename, EndRefresh
<1>5. CASE SnapshotFails
    BY <1>5 DEF SnapshotFails, EndRefresh
<1>6. CASE ReadSnapshot
    BY <1>6 DEF ReadSnapshot, Usable, StartRefresh
<1>7. CASE Overlay
    BY <1>7 DEF Overlay, StartRefresh
<1>8. CASE HealCheck
    BY <1>8 DEF HealCheck, StartRefresh
<1>9. CASE ManualReload
    BY <1>9 DEF ManualReload, StartRefresh
<1>10. ASSUME NEW c \in Chain, RecordHealth(c) PROVE Types' /\ InStep'
    BY <1>10 DEF RecordHealth
<1>11. CASE AgePasses \/ UpstreamChanges
    BY <1>11 DEF AgePasses, UpstreamChanges
<1>12. CASE Crash
    <2>1. Types'
        <3>1. crashes' \in 0 .. MaxCrashes
            BY <1>12 DEF Crash
        <3> QED BY <1>12, <3>1, Zenon DEF Crash
    <2>2. InStep'
        BY <1>12 DEF Crash
    <2> QED BY <2>1, <2>2
<1>13. CASE UNCHANGED vars
    BY <1>13 DEF vars
<1> QED BY <1>1, <1>2, <1>3, <1>4, <1>5, <1>6, <1>7, <1>8, <1>9, <1>10, <1>11,
           <1>12, <1>13 DEF Next

\* The loader is always in one of its states; in particular only the refresh a
\* start-up waits for runs before the process serves.
THEOREM TypeCorrect == Spec => []TypeOK
<1> QED BY TypeInit, TypeStep, PTL DEF Spec

\* A registry that was fetched is handed on by every step.
LEMMA RegistryStep == TypeOK /\ RegistryInv /\ [Next]_vars => RegistryInv'
<1> SUFFICES ASSUME TypeOK, RegistryInv, [Next]_vars PROVE RegistryInv'
    OBVIOUS
<1> USE NothingAssumption DEF RegistryInv
<1>1. CASE FetchFails
    BY <1>1 DEF FetchFails, Throw
<1>2. CASE Apply
    <2>1. loaded' \cap Registries # {}
        BY <1>2 DEF Apply, RegistryCame
    <2>2. UNCHANGED <<payload, disk>>
        BY <1>2 DEF Apply
    <2> QED BY <2>1, <2>2
<1>3. CASE Serialise
    BY <1>3 DEF Serialise, TypeOK, Types, InStep, Refresh
<1>4. CASE Rename
    BY <1>4 DEF Rename, EndRefresh, TypeOK, Types, InStep
<1>5. CASE SnapshotFails
    BY <1>5 DEF SnapshotFails, EndRefresh
<1>6. CASE ReadSnapshot
    BY <1>6 DEF ReadSnapshot, Usable, StartRefresh
<1>7. CASE Overlay
    BY <1>7 DEF Overlay, StartRefresh
<1>8. CASE HealCheck \/ ManualReload
    BY <1>8 DEF HealCheck, ManualReload, StartRefresh
<1>9. ASSUME NEW c \in Chain, RecordHealth(c) PROVE RegistryInv'
    BY <1>9 DEF RecordHealth
<1>10. CASE AgePasses \/ UpstreamChanges
    BY <1>10 DEF AgePasses, UpstreamChanges
<1>11. CASE Crash
    BY <1>11 DEF Crash
<1>12. CASE UNCHANGED vars
    BY <1>12 DEF vars
<1> QED BY <1>1, <1>2, <1>3, <1>4, <1>5, <1>6, <1>7, <1>8, <1>9, <1>10, <1>11,
           <1>12 DEF Next

\* A process that serves has the chains of a registry, and so has the snapshot
\* the next one starts from (loader.js:35-48, 122-124).
THEOREM RegistryServed == Spec => []AlwaysARegistry
<1>1. Init => TypeOK /\ RegistryInv
    BY TypeInit DEF Init, RegistryInv
<1>2. TypeOK /\ RegistryInv /\ [Next]_vars => (TypeOK /\ RegistryInv)'
    BY TypeStep, RegistryStep
<1>3. TypeOK /\ RegistryInv => AlwaysARegistry
    BY DEF RegistryInv, AlwaysARegistry
<1> QED BY <1>1, <1>2, <1>3, PTL DEF Spec

\* "One source down for a moment must not drop its chains" (loader.js:78-79).
THEOREM BackgroundKeeps == Spec => BackgroundDropsNothing
<1>1. TypeOK /\ [Next]_vars =>
        [refresh # NoRefresh /\ refresh.by = "background" /\ boot' # "down" =>
            loaded \subseteq loaded']_vars
    <2> SUFFICES ASSUME TypeOK, Next, refresh # NoRefresh, refresh.by = "background",
                        boot' # "down"
                 PROVE  loaded \subseteq loaded'
        OBVIOUS
    <2>1. CASE Apply
        BY <2>1 DEF Apply, KeepsLastGood
    <2>2. CASE ReadSnapshot
        BY <2>2 DEF ReadSnapshot, TypeOK, InStep
    <2>3. CASE Crash
        BY <2>3 DEF Crash
    <2>4. CASE UNCHANGED loaded
        BY <2>4
    <2> QED BY <2>1, <2>2, <2>3, <2>4 DEF Next, FetchFails, Serialise, Rename, SnapshotFails,
               Overlay, HealCheck, ManualReload, RecordHealth, AgePasses, UpstreamChanges
<1> QED BY <1>1, TypeCorrect, PTL DEF Spec, BackgroundDropsNothing

\* Only POST /reload takes RPC results away from a process that serves
\* (loader.js:126-132): also those recorded while the refresh was fetching.
THEOREM HealthSurvivesRefresh == Spec => HealthKept
<1>1. TypeOK /\ [Next]_vars =>
        [boot = "serving" /\ boot' # "down" /\ ~ (refresh # NoRefresh /\ refresh.by = "reload")
            => health \subseteq health']_vars
    <2> SUFFICES ASSUME TypeOK, Next, boot = "serving", boot' # "down",
                        ~ (refresh # NoRefresh /\ refresh.by = "reload")
                 PROVE  health \subseteq health'
        OBVIOUS
    <2>1. CASE Apply
        <3>1. refresh.by = "background"
            BY <2>1 DEF Apply, TypeOK, Types, InStep, Refresh, Starter
        <3> QED BY <2>1, <3>1 DEF Apply, PreservesHealth
    <2>2. CASE ReadSnapshot \/ Overlay \/ Crash
        BY <2>2 DEF ReadSnapshot, Overlay, Crash
    <2>3. ASSUME NEW c \in Chain, RecordHealth(c) PROVE health \subseteq health'
        BY <2>3 DEF RecordHealth
    <2>4. CASE UNCHANGED health
        BY <2>4
    <2> QED BY <2>1, <2>2, <2>3, <2>4 DEF Next, FetchFails, Serialise, Rename, SnapshotFails,
               HealCheck, ManualReload, AgePasses, UpstreamChanges
<1> QED BY <1>1, TypeCorrect, PTL DEF Spec, HealthKept
=============================================================================
