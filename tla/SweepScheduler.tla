--------------------------- MODULE SweepScheduler ---------------------------
(***************************************************************************)
(* Which chain the refresher's tick probes next: buildSweepQueue and       *)
(* tickOnce (src/src/services/chainRefresher.js).  A sweep is a queue of   *)
(* one L2BEAT job and one job per chain, longest-waiting chain first; a    *)
(* tick takes one job off it and waits for it.  Reloads replace the chains *)
(* at any moment, also while a job runs, and a new process resumes from    *)
(* the check times that were stored.                                       *)
(*                                                                         *)
(* persistChainRpcHealth is not waited for.  With a database it stores the *)
(* time of every check; without one the file of a chain is rewritten only  *)
(* when the state of its RPC changes (rpcHealthStore.js), so that what a   *)
(* new process restores is the time of the last change.                    *)
(*                                                                         *)
(* What a job probes and records is in ChainProbes; here it is recorded    *)
(* when the data has not changed, or dropped.  Data versions appear only   *)
(* as whether the data was reloaded since the sweep last looked:           *)
(* cachedData.lastUpdated # cursor.sweepDataVersion.                       *)
(***************************************************************************)
EXTENDS Naturals, FiniteSets, Sequences, SequencesExt

CONSTANTS
    Chain,      \* chain IDs
    ChainOrder, \* the order of indexed.all: all chain IDs, ascending
    Mute,       \* chains without an endpoint to probe: they never get a check time
    Listings,   \* the sets of chains a reload may find
    Lives,      \* what a behaviour may be full of: "reloads", or restarts of a
                \* deployment with a "database", or with "files" alone
    LifeJobs,   \* assumption: the jobs a process ends at least before it dies
    Watched,    \* the chain whose waiting is counted
    L2Beat,     \* the l2beat_batch job
    NoJob       \* no tick in flight

\* What the constants are; asserted by the module that gives them values.
SchedulerAssumption ==
    /\ ChainOrder \in Seq(Chain) /\ ToSet(ChainOrder) = Chain /\ IsInjective(ChainOrder)
    /\ Mute \subseteq Chain
    /\ Listings \subseteq SUBSET Chain /\ Listings # {}
    /\ Lives \subseteq {"reloads", "database", "files"}
    /\ LifeJobs \in Nat \ {0}
    /\ Watched \in Chain
    /\ L2Beat \notin Chain /\ NoJob \notin Chain \cup {L2Beat}

VARIABLES
    life,     \* reloads, or restarts and where they find the times: what happens
    listed,   \* the chains of cachedData.indexed
    checked,  \* chains that have a check time (rpcCheckedAt), oldest first
    stored,   \* those whose time is stored, oldest first
    saving,   \* the chain whose save is under way, or NoJob
    queue,    \* the jobs left in the sweep
    running,  \* the job the tick in flight waits for, or NoJob
    reloaded, \* the data changed since the sweep last looked
    ended,    \* jobs this process has ended, up to LifeJobs
    passed    \* history: turns of each chain, up to 3, since Watched had its last

vars == <<life, listed, checked, stored, saving, queue, running, reloaded, ended, passed>>

\* No chain is twice in a sweep, and none has two check times.
TypeOK ==
    /\ life \in Lives
    /\ listed \in SUBSET Chain
    /\ checked \in Seq(Chain) /\ IsInjective(checked)
    /\ stored \in Seq(Chain) /\ IsInjective(stored)
    /\ saving \in Chain \cup {NoJob}
    /\ queue \in Seq(Chain \cup {L2Beat}) /\ IsInjective(queue)
    /\ running \in Chain \cup {L2Beat, NoJob}
    /\ running \notin ToSet(queue)
    /\ reloaded \in BOOLEAN
    /\ ended \in 0 .. LifeJobs
    /\ passed \in [Chain -> 0 .. 3]

Init ==
    /\ life \in Lives
    /\ listed \in Listings
    /\ checked = <<>>
    /\ stored = <<>>
    /\ saving = NoJob
    /\ queue = <<>>
    /\ running = NoJob
    /\ reloaded = FALSE
    /\ ended = 0
    /\ passed = [c \in Chain |-> 0]

-----------------------------------------------------------------------------

\* The element of I with k - 1 others below it.
Nth(I, k) == CHOOSE i \in I : Cardinality({j \in I : j < i}) = k - 1

\* q.filter: what q holds of S, in the same order.  It is SelectSeq, in a form that
\* can be reasoned about without induction.
Only(q, S) ==
    LET I == {i \in DOMAIN q : q[i] \in S}
    IN  [k \in 1 .. Cardinality(I) |-> q[Nth(I, k)]]

\* Chains never checked first, in the order of the registry, then the oldest
\* checks.
LongestWaitingFirst(chains) ==
    Only(ChainOrder, chains \ ToSet(checked)) \o Only(checked, chains)

\* buildSweepQueue
BuildSweepQueue == <<L2Beat>> \o LongestWaitingFirst(listed)

\* Mutant: a reload starts the sweep again.
SweepStartingAgain(q) == IF reloaded THEN BuildSweepQueue ELSE q

\* A sweep that meets reloaded data carries on with the chains it still has.
SweepCarryingOn(q) ==
    IF reloaded THEN Only(q, listed \cup {L2Beat}) ELSE q

\* How often others have had a turn while Watched waits for its own.
CountTurn(j) ==
    passed' = IF j = Watched \/ Watched \notin listed THEN [c \in Chain |-> 0]
              ELSE [c \in Chain |-> IF c = j /\ passed[c] < 3 THEN passed[c] + 1 ELSE passed[c]]

\* tickOnce up to its job: an empty queue is filled from the current chains; a
\* sweep of which a reload has left nothing ends there, and the tick with it.
TickStarts ==
    LET jobs == IF queue = <<>> THEN BuildSweepQueue ELSE SweepCarryingOn(queue)
    IN  /\ running = NoJob
        /\ IF jobs = <<>>
           THEN queue' = <<>> /\ UNCHANGED <<running, passed>>
           ELSE queue' = Tail(jobs) /\ running' = Head(jobs) /\ CountTurn(Head(jobs))
        /\ reloaded' = FALSE
        /\ UNCHANGED <<life, listed, checked, stored, saving, ended>>

\* The times with c's the newest.
Renewed(times, c) == Append(Only(times, Chain \ {c}), c)

\* The save that recording c begins.  rpcStateChanged: a first result is a change,
\* a later one may be the same.  Saves are followed where a restart can read them.
SaveOf(c) ==
    CASE life = "reloads"  -> {NoJob}
      [] life = "database" -> {c}
      [] life = "files"    -> {c} \cup (IF c \in ToSet(checked) THEN {NoJob} ELSE {})

\* The check of c counts when c is still of this data and has what to probe.
Record(c) ==
    IF c \in listed \ Mute /\ ~reloaded
    THEN checked' = Renewed(checked, c) /\ saving' \in SaveOf(c)
    ELSE UNCHANGED <<checked, saving>>

\* The job is over, with its results recorded or not.  Assumption: a save takes no
\* longer than the next job.
TickEnds ==
    /\ running # NoJob
    /\ saving = NoJob
    /\ IF running = L2Beat THEN UNCHANGED <<checked, saving>> ELSE Record(running)
    /\ running' = NoJob
    /\ ended' = IF ended < LifeJobs THEN ended + 1 ELSE ended
    /\ UNCHANGED <<life, listed, stored, queue, reloaded, passed>>

\* The save persistChainRpcHealth began lands.
Saved ==
    /\ saving # NoJob
    /\ stored' = Renewed(stored, saving)
    /\ saving' = NoJob
    /\ UNCHANGED <<life, listed, checked, queue, running, reloaded, ended, passed>>

\* applyDataToCache: other chains, the same check times.
Reload ==
    /\ life = "reloads"
    /\ listed' \in Listings
    /\ reloaded' = TRUE
    /\ passed' = IF Watched \in listed' THEN passed ELSE [c \in Chain |-> 0]
    /\ UNCHANGED <<life, checked, stored, saving, queue, running, ended>>

\* The process dies, its save under way lost, and a new one has the stored check
\* times and no sweep.
Restart ==
    /\ life # "reloads"
    /\ ended = LifeJobs
    /\ checked' = stored
    /\ saving' = NoJob
    /\ queue' = <<>>
    /\ running' = NoJob
    /\ reloaded' = FALSE
    /\ ended' = 0
    /\ UNCHANGED <<life, listed, stored, passed>>

Next == TickStarts \/ TickEnds \/ Saved \/ Reload \/ Restart

\* setInterval ticks every SWEEP_TICK_MS when no tick is in flight; a job waits
\* for calls that all have a timeout; a write to the store ends.
Fairness == WF_vars(TickStarts) /\ WF_vars(TickEnds) /\ WF_vars(Saved)

Spec == Init /\ [][Next]_vars

FairSpec == Spec /\ Fairness

-----------------------------------------------------------------------------
(* Properties                                                              *)

\* "Restarting the sweep each time would leave its tail untested": however many
\* reloads there are, or restarts of a deployment with a database, a chain that
\* stays listed is probed again and again.  With files alone the restarts must
\* stop for that: what they restore may put the same few chains first each time.
EveryChainGetsItsTurn ==
    (life = "files" => <>[](ended = LifeJobs)) =>
        \A c \in Chain : <>[](c \in listed) => []<>(running = c)

\* Nor does it wait long: while a chain stays listed, no other has a third turn
\* before it has one, wherever in a sweep the reloads fall.  Holds for a
\* process that goes on; a restart begins a new sweep.
OvertakenTwiceAtMost == life = "reloads" => \A c \in Chain : passed[c] <= 2
=============================================================================
