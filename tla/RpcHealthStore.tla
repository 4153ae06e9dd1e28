--------------------------- MODULE RpcHealthStore ---------------------------
(***************************************************************************)
(* How one chain's RPC health outlives the process: rpcHealthStore.js,     *)
(* rpcHealthDb.js, and the end of processChainRpc (chainRefresher.js),     *)
(* which records a check and persists it without waiting.                  *)
(*                                                                         *)
(* A check is written to MariaDB when it is configured and answers: the    *)
(* whole row when the chain's state changed, otherwise the time of the     *)
(* check alone.  When the database does not take it, a changed state goes  *)
(* to the chain's file instead.  A new process reads the database when it  *)
(* answers, else the file.  Rows and files of different chains never meet, *)
(* so one chain is enough; its endpoints' statuses are one `kind`, with    *)
(* the time since which nothing has answered.                              *)
(*                                                                         *)
(* One save is in flight at a time: checks of one chain are a sweep apart. *)
(* DATA_CACHE_ENABLED is on; with it off there is no file to fall back to. *)
(***************************************************************************)
EXTENDS Integers

CONSTANTS
    Databases,     \* deployments: "none" (no database is configured), "reliable",
                   \* "failing" (it may stop answering, or answer an error)
    DiskMayFail,   \* whether a write of the file may fail
    MaxChecks,     \* bound: checks of the chain in a behaviour
    NoCopy         \* what a store holds before anything was saved in it

\* What the constants are; asserted by the module that gives them values.
StoreAssumption ==
    /\ Databases \subseteq {"none", "reliable", "failing"}
    /\ DiskMayFail \in BOOLEAN
    /\ MaxChecks \in Nat

\* What a check found: an endpoint that answers blocks, one that answers but is
\* no use (an error, a refusal), one from which nothing comes back.
Kind == {"ok", "refused", "silent"}

\* A recorded check: `since` is unansweredSince (0: not set), `at` its time.
Record == [kind : Kind, since : 0 .. MaxChecks, at : 1 .. MaxChecks]

NoCopyAssumption == NoCopy \notin Record

VARIABLES
    database, \* the deployment, which stays what it is
    up,      \* the process runs
    clock,   \* checks made so far, the times of the records
    memory,  \* cachedData.rpcHealth[chainId] with cachedData.rpcCheckedAt[chainId]
    row,     \* the chain's row of rpc_health
    file,    \* <cache-dir>/rpc-health/<chainId>.json
    dbUp,    \* the database answers
    save,    \* the persistChainRpcHealth call under way: a record, or NoCopy
    stage,   \* where it is: "idle", "db", "file"
    changed, \* its `changed` argument
    lost,    \* history: neither store took the last changed state
    proved   \* history: time of the last answered check that a store vouches for

vars == <<database, up, clock, memory, row, file, dbUp, save, stage, changed, lost, proved>>

Copy == Record \cup {NoCopy}

DbConfigured == database # "none"
DbMayFail == database = "failing"

\* The state of the two stores and of the one save between them.
TypeOK ==
    /\ database \in Databases
    /\ up \in BOOLEAN /\ dbUp \in BOOLEAN /\ changed \in BOOLEAN /\ lost \in BOOLEAN
    /\ clock \in 0 .. MaxChecks
    /\ proved \in 0 .. MaxChecks
    /\ memory \in Copy /\ row \in Copy /\ file \in Copy /\ save \in Copy
    /\ stage \in {"idle", "db", "file"}
    /\ stage = "idle" <=> save = NoCopy
    /\ stage = "file" => changed

Init ==
    /\ database \in Databases
    /\ up = TRUE /\ dbUp = TRUE
    /\ clock = 0 /\ proved = 0
    /\ memory = NoCopy /\ row = NoCopy /\ file = NoCopy /\ save = NoCopy
    /\ stage = "idle" /\ changed = FALSE /\ lost = FALSE

-----------------------------------------------------------------------------
(* Recording a check                                                       *)

\* rpcStateChanged: the status, how it fails and since when nothing answers.
RpcStateChanged(prev, next) ==
    \/ prev = NoCopy
    \/ prev.kind # next.kind
    \/ prev.since # next.since

\* Since when nothing answers: carried over from the previous check when that
\* one was silent too, otherwise the time of this check.
UnansweredSince(kind, at) ==
    IF kind # "silent" THEN 0
    ELSE IF memory # NoCopy /\ memory.since # 0 THEN memory.since ELSE at

\* processChainRpc writes its results to the cache and starts the save.
CheckChain(kind) ==
    LET r == [kind |-> kind, since |-> UnansweredSince(kind, clock + 1), at |-> clock + 1]
    IN  /\ up
        /\ stage = "idle"
        /\ clock < MaxChecks
        /\ clock' = clock + 1
        /\ memory' = r
        /\ save' = r
        /\ stage' = "db"
        /\ changed' = RpcStateChanged(memory, r)
        /\ UNCHANGED <<database, up, row, file, dbUp, lost, proved>>

-----------------------------------------------------------------------------
(* Saving it                                                               *)

\* The save is over; `taken` says whether the stores now hold its state.
EndSave(taken) ==
    /\ save' = NoCopy
    /\ stage' = "idle"
    /\ lost' = ~taken
    /\ proved' = IF taken /\ save.kind # "silent" THEN save.at ELSE proved

\* Mutant: the check of an unchanged chain leaves no trace in its row.
DbCopyUntimed == IF ~changed THEN row ELSE save

\* The row the two statements of saveChainRpcHealthDb leave: the time of the
\* check alone when nothing changed and the chain has a row, else all of it.
DbCopy ==
    IF ~changed /\ row # NoCopy THEN [row EXCEPT !.at = save.at] ELSE save

DbTakes ==
    /\ up
    /\ stage = "db"
    /\ DbConfigured /\ dbUp
    /\ row' = DbCopy
    /\ EndSave(changed \/ ~lost)
    /\ UNCHANGED <<database, up, clock, memory, file, dbUp, changed>>

\* The file is for changed states; an unchanged chain is left alone.
AfterRefusal ==
    IF changed THEN stage' = "file" /\ UNCHANGED <<save, lost, proved>>
               ELSE EndSave(~lost)

\* It is unconfigured or unreachable, or its answer is an error, which may come
\* after the statement took effect.
DbRefuses ==
    /\ up
    /\ stage = "db"
    /\ ~DbConfigured \/ DbMayFail
    /\ \/ UNCHANGED row
       \/ DbConfigured /\ dbUp /\ row' = DbCopy
    /\ AfterRefusal
    /\ UNCHANGED <<database, up, clock, memory, file, dbUp, changed>>

\* The rename of writeChainRpcHealthFile.
FileTakes ==
    /\ up
    /\ stage = "file"
    /\ file' = save
    /\ EndSave(TRUE)
    /\ UNCHANGED <<database, up, clock, memory, row, dbUp, changed>>

\* A failed write is logged; the old file stays, and nothing tries again.
FileFails ==
    /\ up
    /\ DiskMayFail
    /\ stage = "file"
    /\ EndSave(FALSE)
    /\ UNCHANGED <<database, up, clock, memory, row, file, dbUp, changed>>

-----------------------------------------------------------------------------
(* The database and the process come and go                                *)

DbGoesOrComes ==
    /\ DbConfigured /\ DbMayFail
    /\ dbUp' = ~dbUp
    /\ UNCHANGED <<database, up, clock, memory, row, file, save, stage, changed, lost, proved>>

\* The process dies; a save under way is not finished.
Crash ==
    /\ up
    /\ up' = FALSE
    /\ memory' = NoCopy
    /\ save' = NoCopy
    /\ stage' = "idle"
    /\ changed' = FALSE
    /\ lost' = FALSE
    /\ UNCHANGED <<database, clock, row, file, dbUp, proved>>

\* What loadAllRpcHealth reads: an answering database decides, even without a row.
Stored == IF DbConfigured /\ dbUp THEN row ELSE file

\* overlayDiskRpcHealth, before the new process serves or checks anything.
Restart ==
    /\ ~up
    /\ up' = TRUE
    /\ memory' = Stored
    /\ UNCHANGED <<database, clock, row, file, dbUp, save, stage, changed, lost, proved>>

Next ==
    \/ \E kind \in Kind : CheckChain(kind)
    \/ DbTakes
    \/ DbRefuses
    \/ FileTakes
    \/ FileFails
    \/ DbGoesOrComes
    \/ Crash
    \/ Restart

Spec == Init /\ [][Next]_vars

-----------------------------------------------------------------------------
(* Properties                                                              *)

SameState(a, b) ==
    \/ a = b
    \/ a # NoCopy /\ b # NoCopy /\ a.kind = b.kind /\ a.since = b.since

Quiet == up /\ stage = "idle" /\ ~lost

\* "A restart resumes from the last known per-endpoint status": once a save is
\* over, a process that started now would read the state the cache holds, and
\* from the database also the time of the last check, which orders its sweep.
\* Holds without a database, and with one that never fails.
RestartResumes ==
    Quiet /\ ~DbMayFail =>
             /\ SameState(Stored, memory)
             /\ DbConfigured /\ memory # NoCopy => Stored.at = memory.at

\* Whatever fails, one of the two stores holds the state the cache holds,
\* unless the write of the file failed as well.
SomeStoreHolds == Quiet => SameState(row, memory) \/ SameState(file, memory)

\* The clock of validation rule 18, "any answer in between restarts the clock":
\* a chain is never said to be silent since before an answer that was stored,
\* not even by a process that started later.  Holds in the same deployments.
SilenceIsUnbroken ==
    memory # NoCopy /\ memory.since # 0 /\ ~DbMayFail => memory.since > proved

\* The row of a chain serves "the last known statuses": the statuses stored
\* beside the time of the last check are the ones that check found.
RowIsAsFreshAsItSays ==
    Quiet /\ memory # NoCopy /\ row # NoCopy /\ row.at = memory.at => SameState(row, memory)
=============================================================================
