--------------------------- MODULE PrivateRpcStore ---------------------------
(***************************************************************************)
(* The list of RPC endpoints that answered 401/403, and its one writer     *)
(* (src/src/store/privateRpcStore.js).  The set lives in memory; a mark    *)
(* starts a pass of the writer or, when a pass is running, asks for one    *)
(* more.  A pass makes the directory, then serialises the set, writes a    *)
(* temporary file and renames it over rpc-private.json: the marks of other *)
(* probes land between those steps, and each step may fail or be the last  *)
(* one of a process that dies.  DATA_CACHE_ENABLED is on; with it off      *)
(* nothing is written or read, and there is only the set in memory.        *)
(***************************************************************************)
CONSTANTS
    Url,          \* RPC endpoints
    DiskMayFail,  \* whether a write of the file may fail
    ReadMayFail   \* whether reading the file at startup may fail

ASSUME FailuresAssumption == DiskMayFail \in BOOLEAN /\ ReadMayFail \in BOOLEAN

VARIABLES
    up,        \* the process runs and has finished loading the list
    marked,    \* privateUrls
    file,      \* the URLs in rpc-private.json; {} also when there is no file
    writer,    \* what the writer waits for: "idle", "opening" (mkdir), "writing"
    captured,  \* the URLs serialised by the running pass
    queued,    \* persistQueued
    behind     \* history: the last write, or the load, of this process failed

vars == <<up, marked, file, writer, captured, queued, behind>>

\* The state the store can be in; a pass is only asked for while one runs.
TypeOK ==
    /\ up \in BOOLEAN
    /\ marked \in SUBSET Url
    /\ file \in SUBSET Url
    /\ writer \in {"idle", "opening", "writing"}
    /\ captured \in SUBSET Url
    /\ queued \in BOOLEAN
    /\ behind \in BOOLEAN
    /\ queued => writer # "idle"

Init ==
    /\ up = TRUE
    /\ marked = {}
    /\ file = {}
    /\ writer = "idle"
    /\ captured = {}
    /\ queued = FALSE
    /\ behind = FALSE

-----------------------------------------------------------------------------
(* The writer                                                              *)

StartPass == writer' = "opening" /\ queued' = FALSE

Persist ==
    IF writer = "idle" THEN StartPass ELSE queued' = TRUE /\ UNCHANGED writer

\* Mutant: the writer stops after one pass, whatever was asked for meanwhile.
EndPassForgetting == writer' = "idle" /\ UNCHANGED queued

EndPass ==
    IF queued THEN StartPass ELSE writer' = "idle" /\ UNCHANGED queued

\* The set is serialised when the directory exists, not when the pass starts.
Capture ==
    /\ up
    /\ writer = "opening"
    /\ writer' = "writing"
    /\ captured' = marked
    /\ UNCHANGED <<up, marked, file, queued, behind>>

\* The rename: readers of the file see the old list or the new one.
Commit ==
    /\ up
    /\ writer = "writing"
    /\ file' = captured
    /\ behind' = FALSE
    /\ EndPass
    /\ UNCHANGED <<up, marked, captured>>

\* mkdir, writeFile or rename fails: logged, and the file stays as it was.
WriteFails ==
    /\ up
    /\ DiskMayFail
    /\ writer # "idle"
    /\ behind' = TRUE
    /\ EndPass
    /\ UNCHANGED <<up, marked, file, captured>>

-----------------------------------------------------------------------------
(* Marks, and the life of the process                                      *)

MarkPrivateRpcs(U) ==
    /\ up
    /\ ~ (U \subseteq marked)
    /\ marked' = marked \cup U
    /\ Persist
    /\ UNCHANGED <<up, file, captured, behind>>

\* The process dies with whatever the writer was doing.  A temporary file it
\* leaves is read by nobody.
Crash ==
    /\ up
    /\ up' = FALSE
    /\ marked' = {}
    /\ writer' = "idle"
    /\ captured' = {}
    /\ queued' = FALSE
    /\ behind' = FALSE
    /\ UNCHANGED file

\* Mutant: the new process serves without having read the list.
RestartWithoutLoading ==
    /\ ~ up
    /\ up' = TRUE
    /\ marked' = {}
    /\ behind' = FALSE
    /\ UNCHANGED <<file, writer, captured, queued>>

\* A new process reads the list before the refresher starts, so nothing is
\* marked while it reads.  An unreadable file is logged, and the process goes
\* on with an empty list.
LoadPrivateRpcsFromDisk ==
    /\ ~ up
    /\ up' = TRUE
    /\ \/ marked' = file /\ behind' = FALSE
       \/ ReadMayFail /\ marked' = {} /\ behind' = TRUE
    /\ UNCHANGED <<file, writer, captured, queued>>

Next ==
    \/ \E U \in SUBSET Url : MarkPrivateRpcs(U)
    \/ Capture
    \/ Commit
    \/ WriteFails
    \/ Crash
    \/ LoadPrivateRpcsFromDisk

\* A file operation that was started ends, one way or the other.
Writing == Capture \/ Commit

Spec == Init /\ [][Next]_vars

FairSpec == Spec /\ WF_vars(Writing)

-----------------------------------------------------------------------------
(* Properties                                                              *)

\* "A mark that lands mid-write queues exactly one more pass ... so the last
\* write always holds every URL marked": when the writer rests and its last
\* write succeeded, the file holds exactly the marked URLs.
LastWriteHoldsAll ==
    up /\ writer = "idle" /\ ~behind => file = marked

\* The list survives restarts: no write, however it interleaves with marks and
\* crashes, takes a URL off the file.  Holds when the file can be read at startup.
FileNeverForgets == [][file \subseteq file']_vars

\* Unless the process dies or the disk fails, a marked URL reaches the file.
MarkReachesFile ==
    \A u \in Url : u \in marked ~> (u \in file \/ behind \/ ~up)

\* The store is a durable set of marks: it implements DurableMarks.
Marks == INSTANCE DurableMarks WITH known <- marked, kept <- file

DurableSpec == Marks!Spec
=============================================================================
