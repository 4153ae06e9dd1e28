------------------------------ MODULE MCStores ------------------------------
(***************************************************************************)
(* The stores of the service and the sweeps over them, one at a time:      *)
(* in a behaviour `part` runs and the others rest.  PrivateRpcStore has    *)
(* three URLs, so that one is marked before, one during and one after a    *)
(* pass.  RpcHealthStore has one chain, since chains never meet there.     *)
(* SweepScheduler has four chains, one without an endpoint, of which a     *)
(* reload finds all or all but one; its process ends the L2BEAT job, that  *)
(* of the chain that never gets a check time, and two more, before it dies,*)
(* since the save of the last may die with it.                             *)
(* McpSessions has three sessions for two requests that may overlap, and   *)
(* room for one.                                                           *)
(***************************************************************************)
EXTENDS PrivateRpcStore

CONSTANTS u1, u2, u3

ThreeUrls == {u1, u2, u3}

CONSTANTS Databases, MaxChecks, NoCopy

VARIABLES part, database, alive, clock, memory, row, copy, dbUp, save, stage, changed, lost, proved

health == <<database, alive, clock, memory, row, copy, dbUp, save, stage, changed, lost, proved>>

H == INSTANCE RpcHealthStore WITH up <- alive, file <- copy

CONSTANTS Chain, ChainOrder, Mute, Listings, Lives, LifeJobs, Watched, L2Beat, NoJob

VARIABLES life, listed, checked, stored, saving, queue, running, reloaded, ended, passed

sweep == <<life, listed, checked, stored, saving, queue, running, reloaded, ended, passed>>

W == INSTANCE SweepScheduler

CONSTANTS c1, c2, c3, c4

FourChains == {c1, c2, c3, c4}
InOrder == <<c1, c2, c3, c4>>
OnlySecond == {c2}
AllOrAllButOne == {FourChains} \cup {FourChains \ {c} : c \in FourChains}

CONSTANTS Session, Request, Timer, MaxSessions, MaxSpent, MaxRequests

VARIABLES transports, lastSeen, idle, used, at, due, address, licensee, refused

sessions == <<transports, lastSeen, idle, used, at, due, address, licensee, refused>>

M == INSTANCE McpSessions

ASSUME StoresAssumption == H!StoreAssumption /\ H!NoCopyAssumption /\ W!SchedulerAssumption /\ M!SessionsAssumption

everything == <<part, vars, health, sweep, sessions>>

StoresInit ==
    /\ part \in {"marks", "health", "sweep", "sessions"}
    /\ Init /\ H!Init /\ W!Init /\ M!Init
    /\ part # "health" => database = "none"
    /\ part # "sweep" => life = "reloads"
    /\ part # "sweep" \/ life # "reloads" => listed = Chain

MarksRun == part = "marks" /\ UNCHANGED <<part, health, sweep, sessions>>
HealthRun == part = "health" /\ UNCHANGED <<part, vars, sweep, sessions>>
SweepRun == part = "sweep" /\ UNCHANGED <<part, vars, health, sessions>>
SessionsRun == part = "sessions" /\ UNCHANGED <<part, vars, health, sweep>>

\* The bound on checks is reached, and nothing is under way.
Over == part = "health" /\ clock = MaxChecks /\ stage = "idle"

StoresNext ==
    \/ MarksRun /\ Next
    \/ HealthRun /\ H!Next
    \/ SweepRun /\ W!Next
    \/ SessionsRun /\ M!Next
    \/ Over /\ UNCHANGED everything

\* A file operation that was started ends.  setInterval ticks every
\* SWEEP_TICK_MS when no tick is in flight; a job waits for calls that all
\* have a timeout, and its save ends too.  The interval of the sessions fires, and
\* the transports it closes do close.
StoresFairness ==
    /\ WF_everything(MarksRun /\ Writing)
    /\ WF_everything(SweepRun /\ W!TickStarts)
    /\ WF_everything(SweepRun /\ W!TickEnds)
    /\ WF_everything(SweepRun /\ W!Saved)
    /\ WF_everything(SessionsRun /\ M!StartSweep)
    /\ WF_everything(SessionsRun /\ M!CloseIdle(Timer))
    /\ WF_everything(SessionsRun /\ M!EndSweep(Timer))

StoresSpec == StoresInit /\ [][StoresNext]_everything /\ StoresFairness

-----------------------------------------------------------------------------
(* The properties of the instances                                         *)

\* "Resume from the last known status" (rpcHealthStore.js:1): a restart brings back what
\* was recorded, one of the two stores holds what the cache holds whichever write failed
\* (rpcHealthStore.js:86), and no chain is silent since before an answer that was stored
\* (rpcHealthStore.js:53).
HealthRemembered == H!TypeOK /\ H!RestartResumes /\ H!SomeStoreHolds /\ H!SilenceIsUnbroken

\* No other chain has a third turn before it (chainRefresher.js:299).
OvertakenTwiceAtMost == W!TypeOK /\ W!OvertakenTwiceAtMost

\* An authorised request costs its address nothing (mcp-server-http.js:98), and a sweep
\* spares what is in use (mcp-server-http.js:115).
SessionsAreFair == [](M!TypeOK /\ M!LicenseeCostsAddressNothing) /\ M!SweepSparesUsed

\* What must happen in the end: every mark reaches the file (privateRpcStore.js:71), a
\* chain that stays listed is probed again and again (chainRefresher.js:299) as long as
\* the restarts find the check times of a database, and idle
\* sessions end (mcp-server-http.js:81).
WhatIsDueHappens ==
    /\ MarkReachesFile
    /\ part = "sweep" => W!EveryChainGetsItsTurn
    /\ M!IdleSessionsEnd
=============================================================================
