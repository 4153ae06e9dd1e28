---------------------------- MODULE StoresProofs ----------------------------
(***************************************************************************)
(* The stores of the service and the sweeps over them, for all their       *)
(* constants.  Of each part, the invariant that its steps keep comes       *)
(* first, with what it is for; then the steps; then what MCStores checks.  *)
(*                                                                         *)
(* PrivateRpcStore: WriterInv says what the running pass has in hand: a    *)
(* pass that nobody interrupted has captured exactly the marked URLs, and  *)
(* a process that is down has no pass.  FileInv adds, when the file can    *)
(* always be read, that the file never runs ahead of the pass nor of the   *)
(* memory; it is what makes the file grow.                                 *)
(*                                                                         *)
(* RpcHealthStore: HealthInv says which store a save leaves right, and     *)
(* that nothing a new process could read is silent since before an answer. *)
(*                                                                         *)
(* SweepScheduler: SchedulerInv bounds the turns a chain has had by those  *)
(* it may still have before the watched one, in what is left of the sweep. *)
(*                                                                         *)
(* McpSessions: SessionsInv counts the requests under check, and says that *)
(* of what a sweep means to close nothing was used since it looked.        *)
(***************************************************************************)
EXTENDS MCStores, Integers, Sequences, FiniteSetTheorems, TLAPS

WriterInv ==
    /\ TypeOK
    /\ ~up => writer = "idle"
    /\ writer = "writing" => captured \subseteq marked
    /\ writer = "writing" /\ ~queued => captured = marked
    /\ LastWriteHoldsAll

FileInv ==
    /\ up => file \subseteq marked
    /\ writer = "writing" => file \subseteq captured

\* Every step of the store keeps WriterInv, whatever fails.
LEMMA WriterInvStep == WriterInv /\ [Next]_vars => WriterInv'
<1> SUFFICES ASSUME WriterInv, [Next]_vars PROVE WriterInv'
    OBVIOUS
<1> USE DEF WriterInv, TypeOK, LastWriteHoldsAll
<1>1. ASSUME NEW U \in SUBSET Url, MarkPrivateRpcs(U) PROVE WriterInv'
    <2>1. CASE writer = "idle"
        BY <1>1, <2>1 DEF MarkPrivateRpcs, Persist, StartPass
    <2>2. CASE writer # "idle"
        BY <1>1, <2>2 DEF MarkPrivateRpcs, Persist
    <2> QED BY <2>1, <2>2
<1>2. CASE Capture
    BY <1>2 DEF Capture
<1>3. CASE Commit
    BY <1>3 DEF Commit, EndPass, StartPass
<1>4. CASE WriteFails
    BY <1>4 DEF WriteFails, EndPass, StartPass
<1>5. CASE Crash
    BY <1>5 DEF Crash
<1>6. CASE LoadPrivateRpcsFromDisk
    BY <1>6 DEF LoadPrivateRpcsFromDisk
<1>7. CASE UNCHANGED vars
    BY <1>7 DEF vars
<1> QED BY <1>1, <1>2, <1>3, <1>4, <1>5, <1>6, <1>7 DEF Next

\* The store is always in one of its states: privateUrls, the file and the
\* captured list hold URLs, and a pass is asked for only while one runs.
THEOREM TypeCorrect == Spec => []TypeOK
<1>1. Init => WriterInv
    BY DEF Init, WriterInv, TypeOK, LastWriteHoldsAll
<1>2. WriterInv => TypeOK
    BY DEF WriterInv
<1> QED BY <1>1, <1>2, WriterInvStep, PTL DEF Spec

\* "The last write always holds every URL marked" (privateRpcStore.js:71-72):
\* whenever the writer rests after a write that succeeded, file and memory agree.
THEOREM LastWriteCorrect == Spec => []LastWriteHoldsAll
<1>1. Init => WriterInv
    BY DEF Init, WriterInv, TypeOK, LastWriteHoldsAll
<1>2. WriterInv => LastWriteHoldsAll
    BY DEF WriterInv
<1> QED BY <1>1, <1>2, WriterInvStep, PTL DEF Spec

\* With a file that can be read, no step of the store makes FileInv false.
LEMMA FileInvStep ==
    ASSUME ~ReadMayFail
    PROVE  WriterInv /\ FileInv /\ [Next]_vars => FileInv'
<1> SUFFICES ASSUME WriterInv, FileInv, [Next]_vars PROVE FileInv'
    OBVIOUS
<1> USE DEF FileInv
<1>1. ASSUME NEW U \in SUBSET Url, MarkPrivateRpcs(U) PROVE FileInv'
    BY <1>1 DEF MarkPrivateRpcs, Persist, StartPass
<1>2. CASE Capture
    BY <1>2 DEF Capture
<1>3. CASE Commit
    BY <1>3 DEF Commit, EndPass, StartPass, WriterInv
<1>4. CASE WriteFails
    BY <1>4 DEF WriteFails, EndPass, StartPass
<1>5. CASE Crash
    BY <1>5 DEF Crash
<1>6. CASE LoadPrivateRpcsFromDisk
    BY <1>6, ~ReadMayFail DEF LoadPrivateRpcsFromDisk, WriterInv
<1>7. CASE UNCHANGED vars
    BY <1>7 DEF vars
<1> QED BY <1>1, <1>2, <1>3, <1>4, <1>5, <1>6, <1>7 DEF Next

\* With a file that can be read, both invariants hold throughout.
LEMMA BothInvariants ==
    ASSUME ~ReadMayFail
    PROVE  Spec => [](WriterInv /\ FileInv)
<1>1. Init => WriterInv /\ FileInv
    BY DEF Init, WriterInv, FileInv, TypeOK, LastWriteHoldsAll
<1>2. WriterInv /\ FileInv /\ [Next]_vars => (WriterInv /\ FileInv)'
    BY WriterInvStep, FileInvStep
<1> QED BY <1>1, <1>2, PTL DEF Spec

\* "The set survives ... restarts" (privateRpcStore.js:12-14): as long as the
\* file can be read when a process starts, no URL ever leaves it.
THEOREM FileGrows ==
    ASSUME ~ReadMayFail
    PROVE  Spec => FileNeverForgets
<1>1. FileInv /\ [Next]_vars => [file \subseteq file']_vars
    <2> SUFFICES ASSUME FileInv, Next PROVE file \subseteq file'
        OBVIOUS
    <2>1. CASE Commit
        BY <2>1 DEF Commit, FileInv
    <2>2. CASE UNCHANGED file
        BY <2>2
    <2> QED BY <2>1, <2>2 DEF Next, MarkPrivateRpcs, Capture, WriteFails, Crash,
                             LoadPrivateRpcsFromDisk
<1> QED BY <1>1, BothInvariants, PTL DEF Spec, FileNeverForgets

\* The store implements the durable set of marks: its steps are the abstract
\* Learn, Keep, Stop and Resume, and every other step changes nothing there.
THEOREM ImplementsDurableMarks ==
    ASSUME ~ReadMayFail
    PROVE  Spec => DurableSpec
<1>1. Init => Marks!Init
    BY DEF Init, Marks!Init
<1>2. WriterInv /\ FileInv /\ [Next]_vars => [Marks!Next]_(Marks!vars)
    <2> SUFFICES ASSUME WriterInv, FileInv, [Next]_vars
                 PROVE  Marks!Next \/ UNCHANGED <<up, marked, file>>
        BY DEF Marks!vars
    <2>1. ASSUME NEW U \in SUBSET Url, MarkPrivateRpcs(U) PROVE Marks!Learn
        <3>1. U \ marked \in SUBSET (Url \ marked) /\ marked' = marked \cup (U \ marked)
            BY <2>1 DEF MarkPrivateRpcs
        <3> QED BY <2>1, <3>1 DEF MarkPrivateRpcs, Marks!Learn
    <2>2. CASE Commit
        <3>1. captured \ file \in SUBSET (marked \ file) /\ file' = file \cup (captured \ file)
            BY <2>2 DEF Commit, WriterInv, FileInv
        <3>2. Marks!Keep
            BY <2>2, <3>1 DEF Commit, Marks!Keep
        <3> QED BY <3>2 DEF Marks!Next
    <2>3. CASE Crash
        BY <2>3 DEF Crash, Marks!Next, Marks!Stop
    <2>4. CASE LoadPrivateRpcsFromDisk
        BY <2>4, ~ReadMayFail DEF LoadPrivateRpcsFromDisk, Marks!Next, Marks!Resume
    <2>5. CASE Capture \/ WriteFails \/ UNCHANGED vars
        BY <2>5 DEF Capture, WriteFails, vars
    <2> QED BY <2>1, <2>2, <2>3, <2>4, <2>5 DEF Next, Marks!Next
<1> QED BY <1>1, <1>2, BothInvariants, PTL DEF Spec, DurableSpec, Marks!Spec

-----------------------------------------------------------------------------
(* The health of a chain's endpoints                                       *)

\* Only what is silent has a time since which nothing answers.
OnlySilentCounts(r) == r # NoCopy /\ r.kind # "silent" => r.since = 0

\* What a store may hold, or the cache.
Recorded(r) == OnlySilentCounts(r) /\ (r # NoCopy => r.at <= clock)

\* A dead process has nothing in hand, a save under way is of what the cache holds, and
\* a database that never fails leaves nothing to the file.
SaveInv ==
    /\ ~H!DbMayFail => dbUp
    /\ H!DbConfigured /\ ~H!DbMayFail => stage # "file" /\ ~lost
    /\ ~alive => stage = "idle" /\ ~lost /\ memory = NoCopy
    /\ stage # "idle" => alive /\ save = memory
    /\ Recorded(memory) /\ Recorded(row) /\ Recorded(copy)
    /\ proved <= clock

\* The stores are as they should be at rest, and when what is saved changes nothing.
Settled == alive /\ ~lost /\ (stage = "idle" \/ (stage = "db" /\ ~changed))

StoresInv ==
    /\ Settled => H!SameState(row, memory) \/ H!SameState(copy, memory)
    /\ Settled /\ ~H!DbMayFail => H!SameState(H!Stored, memory)
    /\ alive /\ stage = "idle" /\ ~H!DbMayFail /\ H!DbConfigured /\ memory # NoCopy => H!Stored.at = memory.at

\* Nobody is silent since before an answer a store vouches for, neither in memory nor
\* in what the next process would read.
LaterThanProved(r) == r # NoCopy /\ r.since # 0 => r.since > proved

SilenceInv == ~H!DbMayFail => LaterThanProved(memory) /\ LaterThanProved(H!Stored)

HealthInv == H!TypeOK /\ SaveInv /\ StoresInv /\ SilenceInv

\* A save under way is of a record, the one the cache holds.
LEMMA SaveIsOfMemory == HealthInv /\ stage # "idle" => save = memory /\ memory \in H!Record /\ save # NoCopy
BY DEF HealthInv, SaveInv, H!TypeOK, H!Copy

\* What the database is left with is a record of this check: all of it, or the state
\* the row had with the time of this check.
LEMMA DbCopyIs ==
    ASSUME HealthInv, stage = "db"
    PROVE  /\ H!DbCopy \in H!Record /\ H!DbCopy # NoCopy
           /\ H!DbCopy.at = memory.at
           /\ changed \/ row = NoCopy => H!DbCopy = memory
           /\ ~changed /\ row # NoCopy => H!DbCopy.kind = row.kind /\ H!DbCopy.since = row.since
<1>1. NoCopy \notin H!Record
    BY StoresAssumption DEF H!NoCopyAssumption
<1>2. save = memory /\ memory \in H!Record
    BY SaveIsOfMemory
<1>3. CASE changed \/ row = NoCopy
    BY <1>1, <1>2, <1>3 DEF H!DbCopy
<1>4. CASE ~changed /\ row # NoCopy
    <2>1. row \in H!Record
        BY <1>4 DEF HealthInv, H!TypeOK, H!Copy
    <2>2. H!DbCopy = [row EXCEPT !.at = memory.at]
        BY <1>2, <1>4 DEF H!DbCopy
    <2> QED BY <1>1, <1>2, <1>4, <2>1, <2>2 DEF H!Record
<1> QED BY <1>3, <1>4

\* Every step of the health store keeps all of it, in every deployment.
LEMMA HealthInvStep == HealthInv /\ [H!Next]_health => HealthInv'
<1> SUFFICES ASSUME HealthInv, [H!Next]_health PROVE HealthInv'
    OBVIOUS
<1>a. MaxChecks \in Nat /\ NoCopy \notin H!Record
    BY StoresAssumption DEF H!StoreAssumption, H!NoCopyAssumption
<1>b. \A r \in H!Record : r.kind \in H!Kind /\ r.since \in Nat /\ r.at \in 1 .. MaxChecks
    BY <1>a DEF H!Record
<1> USE DEF HealthInv, SaveInv, StoresInv, SilenceInv, Settled, Recorded, OnlySilentCounts, LaterThanProved,
        H!TypeOK, H!Copy, H!DbMayFail, H!DbConfigured, H!SameState, H!Stored
<1>1. ASSUME NEW kind \in H!Kind, H!CheckChain(kind) PROVE HealthInv'
    BY <1>a, <1>1 DEF H!CheckChain, H!UnansweredSince, H!RpcStateChanged, H!Record, H!Kind
<1>2. CASE H!DbTakes
    <2>1. H!TypeOK'
        BY <1>a, <1>b, <1>2, SaveIsOfMemory, DbCopyIs DEF H!DbTakes, H!EndSave
    <2>2. SaveInv'
        BY <1>a, <1>b, <1>2, SaveIsOfMemory, DbCopyIs DEF H!DbTakes, H!EndSave
    <2>3. StoresInv'
        BY <1>a, <1>b, <1>2, SaveIsOfMemory, DbCopyIs DEF H!DbTakes, H!EndSave
    <2>4. SilenceInv'
        BY <1>a, <1>b, <1>2, SaveIsOfMemory, DbCopyIs DEF H!DbTakes, H!EndSave
    <2> QED BY <2>1, <2>2, <2>3, <2>4
<1>3. CASE H!DbRefuses
    <2>1. H!TypeOK'
        BY <1>a, <1>b, <1>3, SaveIsOfMemory, DbCopyIs DEF H!DbRefuses, H!AfterRefusal, H!EndSave
    <2>2. SaveInv'
        BY <1>a, <1>b, <1>3, SaveIsOfMemory, DbCopyIs DEF H!DbRefuses, H!AfterRefusal, H!EndSave
    <2>3. StoresInv'
        BY <1>a, <1>b, <1>3, SaveIsOfMemory, DbCopyIs DEF H!DbRefuses, H!AfterRefusal, H!EndSave
    <2>4. SilenceInv'
        BY <1>a, <1>b, <1>3, SaveIsOfMemory, DbCopyIs DEF H!DbRefuses, H!AfterRefusal, H!EndSave
    <2> QED BY <2>1, <2>2, <2>3, <2>4
<1>4. CASE H!FileTakes
    <2>1. H!TypeOK'
        BY <1>a, <1>b, <1>4, SaveIsOfMemory DEF H!FileTakes, H!EndSave
    <2>2. SaveInv'
        BY <1>a, <1>b, <1>4, SaveIsOfMemory DEF H!FileTakes, H!EndSave
    <2>3. StoresInv'
        BY <1>a, <1>b, <1>4, SaveIsOfMemory DEF H!FileTakes, H!EndSave
    <2>4. SilenceInv'
        BY <1>a, <1>b, <1>4, SaveIsOfMemory DEF H!FileTakes, H!EndSave
    <2> QED BY <2>1, <2>2, <2>3, <2>4
<1>5. CASE H!FileFails
    <2>1. H!TypeOK'
        BY <1>a, <1>b, <1>5, SaveIsOfMemory DEF H!FileFails, H!EndSave
    <2>2. SaveInv'
        BY <1>a, <1>b, <1>5, SaveIsOfMemory DEF H!FileFails, H!EndSave
    <2>3. StoresInv'
        BY <1>a, <1>b, <1>5, SaveIsOfMemory DEF H!FileFails, H!EndSave
    <2>4. SilenceInv'
        BY <1>a, <1>b, <1>5, SaveIsOfMemory DEF H!FileFails, H!EndSave
    <2> QED BY <2>1, <2>2, <2>3, <2>4
<1>6. CASE H!DbGoesOrComes
    BY <1>6 DEF H!DbGoesOrComes
<1>7. CASE H!Crash
    BY <1>7 DEF H!Crash
<1>8. CASE H!Restart
    BY <1>8 DEF H!Restart
<1>9. CASE UNCHANGED health
    BY <1>9 DEF health
<1> QED BY <1>1, <1>2, <1>3, <1>4, <1>5, <1>6, <1>7, <1>8, <1>9 DEF H!Next

\* A behaviour of the composition is one of the health store, with its rests.
LEMMA HealthRuns == StoresSpec => H!Init /\ [][H!Next]_health
<1>1. StoresInit => H!Init
    BY DEF StoresInit
<1>2. [StoresNext]_everything => [H!Next]_health
    BY DEF StoresNext, everything, MarksRun, HealthRun, SweepRun, SessionsRun, Over, health
<1> QED BY <1>1, <1>2, PTL DEF StoresSpec

\* "Resume from the last known status" (rpcHealthStore.js:1), for any number of checks:
\* what HealthRemembered says, whatever fails and whenever the process dies.
THEOREM HealthIsRemembered == StoresSpec => []HealthRemembered
<1>1. H!Init => HealthInv
    <2> SUFFICES ASSUME H!Init PROVE HealthInv
        OBVIOUS
    <2>1. MaxChecks \in Nat
        BY StoresAssumption DEF H!StoreAssumption
    <2>2. H!TypeOK
        <3>1. {alive, dbUp, changed, lost} \subseteq BOOLEAN
            BY DEF H!Init
        <3> QED BY <2>1, <3>1 DEF H!Init, H!TypeOK, H!Copy
    <2>3. SaveInv
        BY DEF H!Init, SaveInv, Recorded, OnlySilentCounts
    <2>4. StoresInv
        BY DEF H!Init, StoresInv, H!SameState, H!Stored
    <2>5. SilenceInv
        BY DEF H!Init, SilenceInv, LaterThanProved, H!Stored
    <2> QED BY <2>2, <2>3, <2>4, <2>5 DEF HealthInv
<1>2. HealthInv => HealthRemembered
    BY StoresAssumption DEF HealthInv, SaveInv, StoresInv, SilenceInv, Settled, LaterThanProved, HealthRemembered,
        H!Quiet, H!RestartResumes, H!SomeStoreHolds, H!SilenceIsUnbroken
<1> QED BY <1>1, <1>2, HealthInvStep, HealthRuns, PTL

-----------------------------------------------------------------------------
(* The sessions of the MCP endpoint                                        *)

BudgetInv == address <= refused + Cardinality(M!Checking)

\* Ids are given out once, so what a sweep means to close is what it saw idle; of that,
\* what was used meanwhile is no longer due.
SweepInv ==
    /\ transports \subseteq used /\ lastSeen \subseteq used
    /\ \A p \in Request \cup {Timer} : due[p] \subseteq used /\ due[p] \cap lastSeen \subseteq idle

SessionsInv == M!TypeOK /\ BudgetInv /\ SweepInv

\* The requests under check are finitely many, and one more or one less changes their
\* number by one.
LEMMA CheckingCounts ==
    /\ IsFiniteSet(M!Checking) /\ Cardinality(M!Checking) \in Nat
    /\ \A r \in M!Checking : Cardinality(M!Checking \ {r}) = Cardinality(M!Checking) - 1
    /\ \A r \in Request \ M!Checking : Cardinality(M!Checking \cup {r}) = Cardinality(M!Checking) + 1
<1>1. IsFiniteSet(Request)
    BY StoresAssumption DEF M!SessionsAssumption, IsFiniteSet, M!IsFiniteSet
<1>2. M!Checking \subseteq Request
    BY DEF M!Checking
<1>3. IsFiniteSet(M!Checking)
    BY <1>1, <1>2, FS_Subset
<1> HIDE DEF M!Checking
<1> QED BY <1>3, FS_CardinalityType, FS_AddElement, FS_RemoveElement

\* A step that leaves the budgets alone and checks nothing keeps who is checked.
LEMMA CheckingStays ==
    ASSUME M!TypeOK, NEW r \in Request \cup {Timer}, NEW to, at' = [at EXCEPT ![r] = to],
           at[r] # "check" \/ r = Timer, to # "check"
    PROVE  M!Checking' = M!Checking
BY StoresAssumption DEF M!TypeOK, M!Checking, M!SessionsAssumption

\* Every step keeps the budget of the address.
LEMMA BudgetInvStep == SessionsInv /\ M!Next => BudgetInv'
<1> SUFFICES ASSUME SessionsInv, M!Next PROVE BudgetInv'
    OBVIOUS
<1>a. M!TypeOK /\ BudgetInv /\ {address, licensee, refused} \subseteq Nat /\ Timer \notin Request
    BY StoresAssumption DEF SessionsInv, M!TypeOK, M!SessionsAssumption
<1>b. Cardinality(M!Checking) \in Nat
    BY CheckingCounts
<1>1. ASSUME UNCHANGED <<address, refused>>, M!Checking' = M!Checking PROVE BudgetInv'
    BY <1>a, <1>1 DEF BudgetInv
<1>2. ASSUME NEW r \in Request, M!LimitMcp(r) PROVE BudgetInv'
    <2>1. address' = address + 1 /\ at[r] = "free" /\ r \notin M!Checking
        BY <1>2 DEF M!LimitMcp, M!Checking
    <2>2. CASE at' = [at EXCEPT ![r] = "check"] /\ refused' = refused
        <3>1. M!Checking' = M!Checking \cup {r}
            BY <1>a, <2>2 DEF M!TypeOK, M!Checking
        <3>2. Cardinality(M!Checking') = Cardinality(M!Checking) + 1
            BY <2>1, <3>1, CheckingCounts
        <3> HIDE DEF M!Checking
        <3> QED BY <1>a, <1>b, <2>1, <2>2, <3>2 DEF BudgetInv
    <2>3. CASE at' = at /\ refused' = refused + 1
        <3>1. M!Checking' = M!Checking
            BY <2>3 DEF M!Checking
        <3> QED BY <1>a, <1>b, <2>1, <2>3, <3>1 DEF BudgetInv
    <2> QED BY <1>2, <2>2, <2>3 DEF M!LimitMcp, M!Goes
<1>3. ASSUME NEW r \in Request, NEW to, at[r] = "check", to # "check", at' = [at EXCEPT ![r] = to]
      PROVE  Cardinality(M!Checking') = Cardinality(M!Checking) - 1
    <2>1. M!Checking' = M!Checking \ {r} /\ r \in M!Checking
        BY <1>a, <1>3 DEF M!TypeOK, M!Checking
    <2> QED BY <2>1, CheckingCounts
<1>4. ASSUME NEW r \in Request, M!NotAuthorised(r) PROVE BudgetInv'
    <2>1. Cardinality(M!Checking') = Cardinality(M!Checking) - 1
        BY <1>3, <1>4 DEF M!NotAuthorised, M!Goes
    <2> QED BY <1>a, <1>b, <1>4, <2>1 DEF M!NotAuthorised, BudgetInv
<1>5. ASSUME NEW r \in Request, M!Authorised(r) PROVE BudgetInv'
    <2>0. \E to \in {"served", "free"} : at' = [at EXCEPT ![r] = to]
        BY <1>5 DEF M!Authorised, M!Goes
    <2>1. Cardinality(M!Checking') = Cardinality(M!Checking) - 1
        BY <1>3, <1>5, <2>0 DEF M!Authorised
    <2>2. Cardinality(M!Checking') \in Nat
        <3>1. r \in M!Checking
            BY <1>5 DEF M!Checking, M!Authorised
        <3>2. IsFiniteSet(M!Checking \ {r}) 
            BY CheckingCounts, FS_RemoveElement
        <3>3. M!Checking' = M!Checking \ {r}
            BY <1>a, <1>5 DEF M!TypeOK, M!Checking, M!Authorised, M!Goes
        <3> QED BY <3>2, <3>3, FS_CardinalityType
    <2> QED BY <1>a, <1>b, <1>5, <2>1, <2>2 DEF M!Authorised, M!Refunded, BudgetInv
<1>6. ASSUME NEW r \in Request,
             M!UseSession(r) \/ M!Refuse(r) \/ M!CloseSession(r) \/ M!Initialise(r) \/ M!Initialised(r)
      PROVE  BudgetInv'
    <2>1. \E to \in {"free", "connect", "sweep"} : at[r] # "check" /\ at' = [at EXCEPT ![r] = to]
        BY <1>6 DEF M!UseSession, M!Refuse, M!CloseSession, M!Initialise, M!Initialised, M!Goes
    <2>2. M!Checking' = M!Checking
        BY <1>a, <2>1, CheckingStays
    <2> QED BY <1>1, <1>6, <2>2 DEF M!UseSession, M!Refuse, M!CloseSession, M!Initialise, M!Initialised, M!budgets
<1>7. CASE M!WindowEnds
    <2>1. M!Checking' = M!Checking
        BY <1>7 DEF M!WindowEnds, M!Checking
    <2>2. CASE address' = 0 /\ refused' = 0
        BY <1>b, <2>1, <2>2 DEF BudgetInv
    <2> QED BY <1>1, <1>7, <2>1, <2>2 DEF M!WindowEnds, M!NewWindow
<1>8. CASE M!StartSweep
    <2>1. M!Checking' = M!Checking
        BY <1>a, <1>8, CheckingStays DEF M!StartSweep, M!Goes
    <2> QED BY <1>1, <1>8, <2>1 DEF M!StartSweep, M!budgets
<1>9. ASSUME NEW p \in Request \cup {Timer}, M!CloseIdle(p) \/ M!EndSweep(p) PROVE BudgetInv'
    <2>1. at' = at \/ \E to \in {"free", "connect", "full"} : at[p] # "check" /\ at' = [at EXCEPT ![p] = to]
        BY <1>9 DEF M!CloseIdle, M!EndSweep, M!Goes
    <2>2. M!Checking' = M!Checking
        <3>1. CASE at' = at
            BY <3>1 DEF M!Checking
        <3> QED BY <1>a, <2>1, <3>1, CheckingStays
    <2> QED BY <1>1, <1>9, <2>2 DEF M!CloseIdle, M!EndSweep, M!budgets
<1>10. ASSUME NEW s \in Session, M!FallsIdle(s) PROVE BudgetInv'
    BY <1>1, <1>10 DEF M!FallsIdle, M!budgets, M!Checking
<1> QED BY <1>2, <1>4, <1>5, <1>6, <1>7, <1>8, <1>9, <1>10 DEF M!Next

\* Every step keeps what the sweeps have in hand, and the types.
LEMMA SweepInvStep == SessionsInv /\ M!Next => M!TypeOK' /\ SweepInv'
<1> SUFFICES ASSUME SessionsInv, M!Next PROVE M!TypeOK' /\ SweepInv'
    OBVIOUS
<1> USE DEF SessionsInv, SweepInv, M!TypeOK, M!Goes
<1>1. ASSUME NEW r \in Request, M!LimitMcp(r) \/ M!NotAuthorised(r) \/ M!Authorised(r) PROVE M!TypeOK' /\ SweepInv'
    BY <1>1 DEF M!LimitMcp, M!NotAuthorised, M!Authorised, M!Refunded, M!sessions
<1>2. ASSUME NEW r \in Request, M!UseSession(r) PROVE M!TypeOK' /\ SweepInv'
    BY <1>2 DEF M!UseSession, M!StillDue, M!budgets
<1>3. ASSUME NEW r \in Request, M!Refuse(r) \/ M!CloseSession(r) PROVE M!TypeOK' /\ SweepInv'
    BY <1>3 DEF M!Refuse, M!CloseSession, M!sessions, M!budgets
<1>4. ASSUME NEW r \in Request, M!Initialise(r) PROVE M!TypeOK' /\ SweepInv'
    BY <1>4 DEF M!Initialise, M!sessions, M!budgets
<1>5. ASSUME NEW r \in Request, M!Initialised(r) PROVE M!TypeOK' /\ SweepInv'
    BY <1>5 DEF M!Initialised, M!budgets
<1>6. CASE M!WindowEnds
    BY <1>6 DEF M!WindowEnds, M!NewWindow, M!sessions
<1>7. CASE M!StartSweep
    BY <1>7 DEF M!StartSweep, M!sessions, M!budgets
<1>8. ASSUME NEW p \in Request \cup {Timer}, M!CloseIdle(p) PROVE M!TypeOK' /\ SweepInv'
    BY <1>8 DEF M!CloseIdle, M!budgets
<1>9. ASSUME NEW p \in Request \cup {Timer}, M!EndSweep(p) PROVE M!TypeOK' /\ SweepInv'
    BY <1>9 DEF M!EndSweep, M!sessions, M!budgets
<1>10. ASSUME NEW s \in Session, M!FallsIdle(s) PROVE M!TypeOK' /\ SweepInv'
    BY <1>10 DEF M!FallsIdle, M!budgets
<1> QED BY <1>1, <1>2, <1>3, <1>4, <1>5, <1>6, <1>7, <1>8, <1>9, <1>10 DEF M!Next

\* A step by which an open session goes is its client's, or it was idle.
LEMMA ClosedWhenIdle ==
    SessionsInv /\ M!Next =>
        \A s \in transports : s \notin transports' => s \in idle \/ \E r \in Request : M!CloseSession(r)
<1> SUFFICES ASSUME SessionsInv, M!Next, NEW s \in transports, s \notin transports', ~(\E r \in Request : M!CloseSession(r))
             PROVE  s \in idle
    OBVIOUS
<1>1. ASSUME NEW p \in Request \cup {Timer}, M!CloseIdle(p) PROVE s \in idle
    BY <1>1 DEF M!CloseIdle, M!ToClose, SessionsInv, SweepInv
<1>2. ASSUME UNCHANGED transports PROVE FALSE
    BY <1>2
<1>3. ASSUME NEW r \in Request, M!Initialised(r) PROVE FALSE
    BY <1>3 DEF M!Initialised
<1> QED BY <1>1, <1>2, <1>3 DEF M!Next, M!LimitMcp, M!NotAuthorised, M!Authorised, M!UseSession, M!Refuse, M!Initialise,
            M!WindowEnds, M!StartSweep, M!EndSweep, M!FallsIdle, M!sessions

\* A behaviour of the composition is one of the sessions, with its rests.
LEMMA SessionsRuns == StoresSpec => M!Init /\ [][M!Next]_sessions
<1>1. StoresInit => M!Init
    BY DEF StoresInit
<1>2. [StoresNext]_everything => [M!Next]_sessions
    BY DEF StoresNext, everything, MarksRun, HealthRun, SweepRun, SessionsRun, Over, sessions
<1> QED BY <1>1, <1>2, PTL DEF StoresSpec

\* However many requests and sweeps are under way at once, an authorised request costs its
\* address nothing (mcp-server-http.js:98), and no sweep closes what is in use
\* (mcp-server-http.js:115).
THEOREM SessionsAreFairToAll == StoresSpec => SessionsAreFair
<1>1. M!Init => SessionsInv
    <2> SUFFICES ASSUME M!Init PROVE SessionsInv
        OBVIOUS
    <2>1. M!TypeOK /\ SweepInv
        BY DEF M!Init, M!TypeOK, SweepInv
    <2>2. BudgetInv
        BY CheckingCounts DEF M!Init, BudgetInv
    <2> QED BY <2>1, <2>2 DEF SessionsInv
<1>2. SessionsInv /\ [M!Next]_sessions => SessionsInv'
    <2> SUFFICES ASSUME SessionsInv, [M!Next]_sessions PROVE SessionsInv'
        OBVIOUS
    <2>1. CASE M!Next
        BY <2>1, BudgetInvStep, SweepInvStep DEF SessionsInv
    <2>2. CASE UNCHANGED sessions
        BY <2>2 DEF sessions, SessionsInv, M!TypeOK, BudgetInv, SweepInv, M!Checking
    <2> QED BY <2>1, <2>2
<1>3. SessionsInv => M!TypeOK /\ M!LicenseeCostsAddressNothing
    BY DEF SessionsInv, BudgetInv, M!LicenseeCostsAddressNothing, M!Cardinality, Cardinality
<1>4. SessionsInv /\ [M!Next]_sessions =>
          [\A s \in transports : s \notin transports' => s \in idle \/ \E r \in Request : M!CloseSession(r)]_(M!vars)
    <2>1. UNCHANGED sessions => UNCHANGED M!vars
        BY DEF sessions, M!vars, M!sessions, M!budgets
    <2> QED BY <2>1, ClosedWhenIdle
<1> QED BY <1>1, <1>2, <1>3, <1>4, SessionsRuns, PTL DEF SessionsAreFair, M!SweepSparesUsed

-----------------------------------------------------------------------------
(* The queue of the sweep                                                  *)

\* The k-th element of a finite set of numbers: there is one for every k up to the
\* size of the set, and each element is the k-th for one k.
LEMMA NthIs ==
    ASSUME NEW I \in SUBSET Nat, IsFiniteSet(I)
    PROVE  /\ Cardinality(I) \in Nat
           /\ \A k \in 1 .. Cardinality(I) : W!Nth(I, k) \in I
           /\ \A k, l \in 1 .. Cardinality(I) : k < l => W!Nth(I, k) < W!Nth(I, l)
           /\ \A i \in I : \E k \in 1 .. Cardinality(I) : W!Nth(I, k) = i
<1> DEFINE n == Cardinality(I)
           Below(i) == {j \in I : j < i}
           rank == [i \in I |-> Cardinality(Below(i)) + 1]
<1>1. n \in Nat
    BY FS_CardinalityType
<1>2. ASSUME NEW i \in I PROVE Below(i) \subseteq I /\ IsFiniteSet(Below(i)) /\ Cardinality(Below(i)) \in Nat
    BY FS_Subset, FS_CardinalityType
<1>3. ASSUME NEW i \in I PROVE rank[i] \in 1 .. n
    <2>1. i \in I \ Below(i) /\ Below(i) # I
        OBVIOUS
    <2>2. Cardinality(Below(i)) < n
        <3> HIDE DEF Below
        <3>1. Cardinality(Below(i)) <= n /\ Cardinality(Below(i)) # n
            BY <1>2, <2>1, FS_Subset
        <3> QED BY <1>1, <1>2, <3>1
    <2> QED BY <1>1, <1>2, <2>2
<1>4. ASSUME NEW i \in I, NEW j \in I, i < j PROVE rank[i] < rank[j]
    <2>1. Below(i) \subseteq Below(j)
        <3> SUFFICES ASSUME NEW m \in I, m < i PROVE m < j
            OBVIOUS
        <3>1. m \in Nat /\ i \in Nat /\ j \in Nat
            OBVIOUS
        <3> QED BY <1>4, <3>1
    <2>2. i \in Below(j) /\ i \notin Below(i)
        BY <1>4
    <2>3. Cardinality(Below(i)) < Cardinality(Below(j))
        <3> HIDE DEF Below
        <3>1. Cardinality(Below(i)) <= Cardinality(Below(j)) /\ Cardinality(Below(i)) # Cardinality(Below(j))
            BY <1>2, <2>1, <2>2, FS_Subset
        <3> QED BY <1>2, <3>1
    <2> QED BY <1>2, <2>3
<1>5. rank \in Injection(I, 1 .. n)
    <2>1. rank \in [I -> 1 .. n]
        BY <1>3
    <2>2. ASSUME NEW i \in I, NEW j \in I, rank[i] = rank[j] PROVE i = j
        <3>1. i < j \/ j < i \/ i = j
            OBVIOUS
        <3>2. rank[i] \in Nat /\ rank[j] \in Nat
            BY <1>2
        <3> HIDE DEF rank
        <3> QED BY <1>4, <2>2, <3>1, <3>2
    <2> HIDE DEF rank
    <2> QED BY <2>1, <2>2 DEF Injection, IsInjective
<1>6. rank \in Surjection(I, 1 .. n)
    <2>1. IsFiniteSet(1 .. n) /\ Cardinality(1 .. n) = n
        BY <1>1, FS_Interval
    <2> QED BY <1>5, <2>1, FS_Injection
<1>7. ASSUME NEW k \in 1 .. n PROVE W!Nth(I, k) \in I /\ rank[W!Nth(I, k)] = k
    <2>1. PICK i \in I : rank[i] = k
        BY <1>6 DEF Surjection
    <2>2. Cardinality(Below(i)) = k - 1
        BY <1>2, <2>1
    <2>3. W!Nth(I, k) \in I /\ Cardinality(Below(W!Nth(I, k))) = k - 1
        BY <2>2 DEF W!Nth, W!Cardinality, Cardinality
    <2> QED BY <2>3
<1>8. ASSUME NEW k \in 1 .. n, NEW l \in 1 .. n, k < l PROVE W!Nth(I, k) < W!Nth(I, l)
    <2>1. W!Nth(I, k) \in Nat /\ W!Nth(I, l) \in Nat
        BY <1>7
    <2>2. ~(W!Nth(I, l) < W!Nth(I, k)) /\ W!Nth(I, l) # W!Nth(I, k)
        <3>1. rank[W!Nth(I, k)] = k /\ rank[W!Nth(I, l)] = l /\ W!Nth(I, k) \in I /\ W!Nth(I, l) \in I
            BY <1>7
        <3>2. ~(l < k) /\ l # k
            BY <1>1, <1>8
        <3> HIDE DEF rank
        <3> QED BY <1>4, <3>1, <3>2
    <2> QED BY <2>1, <2>2
<1>9. ASSUME NEW i \in I PROVE \E k \in 1 .. n : W!Nth(I, k) = i
    <2>1. rank[W!Nth(I, rank[i])] = rank[i] /\ W!Nth(I, rank[i]) \in I
        BY <1>3, <1>7
    <2>2. W!Nth(I, rank[i]) = i
        <3> HIDE DEF rank
        <3> QED BY <1>5, <2>1 DEF Injection, IsInjective
    <2> QED BY <1>3, <2>2
<1> QED BY <1>1, <1>7, <1>8, <1>9

\* A filtered queue holds what the queue holds of S, in the order of the queue.
LEMMA OnlyIs ==
    ASSUME NEW T, NEW q \in Seq(T), NEW S
    PROVE  /\ W!Only(q, S) \in Seq(T)
           /\ W!ToSet(W!Only(q, S)) = W!ToSet(q) \cap S
           /\ \A i, j \in DOMAIN W!Only(q, S) :
                i < j => \E k, l \in DOMAIN q : k < l /\ q[k] = W!Only(q, S)[i] /\ q[l] = W!Only(q, S)[j]
           /\ W!IsInjective(q) => W!IsInjective(W!Only(q, S))
<1> DEFINE I == {i \in DOMAIN q : q[i] \in S}
           n == Cardinality(I)
           f == W!Only(q, S)
<1>1. I \in SUBSET Nat /\ IsFiniteSet(I)
    <2>1. IsFiniteSet(1 .. Len(q)) /\ I \in SUBSET (1 .. Len(q))
        BY FS_Interval
    <2> QED BY <2>1, FS_Subset
<1>2. f = [k \in 1 .. n |-> q[W!Nth(I, k)]]
    BY DEF W!Only, W!Cardinality, Cardinality
<1> HIDE DEF f
<1>3. n \in Nat /\ \A k \in 1 .. n : W!Nth(I, k) \in I
    BY <1>1, NthIs
<1>4. \A k, l \in 1 .. n : k < l => W!Nth(I, k) < W!Nth(I, l)
    BY <1>1, NthIs
<1>5. \A i \in I : \E k \in 1 .. n : W!Nth(I, k) = i
    BY <1>1, NthIs
<1>6. I \subseteq 1 .. Len(q) /\ DOMAIN q = 1 .. Len(q) /\ \A i \in I : q[i] \in T \cap S
    OBVIOUS
<1>7. \A i \in DOMAIN q : q[i] \in S => i \in I
    OBVIOUS
<1> HIDE DEF I, n
<1>8. DOMAIN f = 1 .. n /\ \A k \in 1 .. n : f[k] = q[W!Nth(I, k)]
    BY <1>2
<1>9. f \in Seq(T)
    <2>1. \A k \in 1 .. n : q[W!Nth(I, k)] \in T
        BY <1>3, <1>6
    <2> QED BY <1>2, <1>3, <2>1
<1>10. W!ToSet(f) = W!ToSet(q) \cap S
    <2>1. ASSUME NEW k \in 1 .. n PROVE f[k] \in W!ToSet(q) /\ f[k] \in S
        BY <1>3, <1>6, <1>8 DEF W!ToSet
    <2>2. ASSUME NEW i \in DOMAIN q, q[i] \in S PROVE \E k \in 1 .. n : f[k] = q[i]
        BY <1>5, <1>7, <1>8, <2>2
    <2>3. W!ToSet(f) \subseteq W!ToSet(q) \cap S
        BY <1>8, <2>1 DEF W!ToSet
    <2>4. ASSUME NEW x \in W!ToSet(q) \cap S PROVE x \in W!ToSet(f)
        BY <1>8, <2>2 DEF W!ToSet
    <2> QED BY <2>3, <2>4
<1>11. \A i, j \in DOMAIN f : i < j => \E k, l \in DOMAIN q : k < l /\ q[k] = f[i] /\ q[l] = f[j]
    BY <1>3, <1>4, <1>6, <1>8
<1>12. ASSUME W!IsInjective(q) PROVE W!IsInjective(f)
    <2> SUFFICES ASSUME NEW k \in 1 .. n, NEW l \in 1 .. n, f[k] = f[l] PROVE k = l
        BY <1>8 DEF W!IsInjective
    <2>1. W!Nth(I, k) = W!Nth(I, l)
        BY <1>3, <1>6, <1>8, <1>12 DEF W!IsInjective
    <2>2. W!Nth(I, k) \in Nat
        BY <1>1, <1>3
    <2>3. k < l \/ l < k \/ k = l
        BY <1>3
    <2> QED BY <1>4, <2>1, <2>2, <2>3
<1> QED BY <1>9, <1>10, <1>11, <1>12 DEF f

\* Two queues that share nothing, one after the other.
LEMMA JoinedIs ==
    ASSUME NEW T, NEW p \in Seq(T), NEW q \in Seq(T)
    PROVE  /\ p \o q \in Seq(T)
           /\ W!ToSet(p \o q) = W!ToSet(p) \cup W!ToSet(q)
           /\ W!IsInjective(p) /\ W!IsInjective(q) /\ W!ToSet(p) \cap W!ToSet(q) = {} => W!IsInjective(p \o q)
<1>1. p \o q \in Seq(T) /\ DOMAIN (p \o q) = 1 .. Len(p) + Len(q)
    OBVIOUS
<1>2. \A i \in 1 .. Len(p) : i \in DOMAIN (p \o q) /\ (p \o q)[i] = p[i]
    OBVIOUS
<1>3. \A i \in 1 .. Len(q) : Len(p) + i \in DOMAIN (p \o q) /\ (p \o q)[Len(p) + i] = q[i]
    OBVIOUS
<1>4. \A i \in DOMAIN (p \o q) : i \in 1 .. Len(p) \/ (i - Len(p) \in 1 .. Len(q) /\ Len(p) + (i - Len(p)) = i)
    OBVIOUS
<1>5. W!ToSet(p \o q) = W!ToSet(p) \cup W!ToSet(q)
    <2>1. W!ToSet(p \o q) \subseteq W!ToSet(p) \cup W!ToSet(q)
        BY <1>2, <1>3, <1>4 DEF W!ToSet
    <2>2. W!ToSet(p) \cup W!ToSet(q) \subseteq W!ToSet(p \o q)
        <3>1. ASSUME NEW i \in DOMAIN p PROVE p[i] \in W!ToSet(p \o q)
            BY <1>2 DEF W!ToSet
        <3>2. ASSUME NEW i \in DOMAIN q PROVE q[i] \in W!ToSet(p \o q)
            <4>1. i \in 1 .. Len(q)
                OBVIOUS
            <4>2. Len(p) + i \in DOMAIN (p \o q) /\ (p \o q)[Len(p) + i] = q[i]
                BY <1>3, <4>1
            <4>3. (p \o q)[Len(p) + i] \in W!ToSet(p \o q)
                BY <4>2 DEF W!ToSet
            <4> QED BY <4>2, <4>3
        <3> QED BY <3>1, <3>2 DEF W!ToSet
    <2> QED BY <2>1, <2>2
<1>6. ASSUME W!IsInjective(p), W!IsInjective(q), W!ToSet(p) \cap W!ToSet(q) = {} PROVE W!IsInjective(p \o q)
    <2> SUFFICES ASSUME NEW i \in DOMAIN (p \o q), NEW j \in DOMAIN (p \o q), (p \o q)[i] = (p \o q)[j] PROVE i = j
        BY DEF W!IsInjective
    <2>1. CASE i \in 1 .. Len(p) /\ j \in 1 .. Len(p)
        BY <1>2, <1>6, <2>1 DEF W!IsInjective
    <2>2. CASE i - Len(p) \in 1 .. Len(q) /\ j - Len(p) \in 1 .. Len(q)
        <3>1. q[i - Len(p)] = q[j - Len(p)]
            BY <1>3, <1>4, <2>2
        <3>2. i - Len(p) = j - Len(p)
            BY <1>6, <2>2, <3>1 DEF W!IsInjective
        <3> QED BY <3>2
    <2>3. ASSUME NEW k \in 1 .. Len(p), NEW l \in 1 .. Len(q), p[k] = q[l] PROVE FALSE
        <3>1. p[k] \in W!ToSet(p)
            BY DEF W!ToSet
        <3>2. q[l] \in W!ToSet(q)
            BY DEF W!ToSet
        <3> QED BY <1>6, <2>3, <3>1, <3>2
    <2>4. CASE i \in 1 .. Len(p) /\ j - Len(p) \in 1 .. Len(q)
        BY <1>2, <1>3, <1>4, <2>3, <2>4
    <2>5. CASE j \in 1 .. Len(p) /\ i - Len(p) \in 1 .. Len(q)
        BY <1>2, <1>3, <1>4, <2>3, <2>5
    <2> QED BY <1>4, <2>1, <2>2, <2>4, <2>5
<1> QED BY <1>1, <1>5, <1>6

\* A queue without its first job.
LEMMA TailIs ==
    ASSUME NEW T, NEW q \in Seq(T), q # <<>>, W!IsInjective(q)
    PROVE  /\ Tail(q) \in Seq(T) /\ W!IsInjective(Tail(q))
           /\ Head(q) \in T /\ Head(q) \in W!ToSet(q) /\ Head(q) \notin W!ToSet(Tail(q))
           /\ W!ToSet(q) = {Head(q)} \cup W!ToSet(Tail(q))
           /\ \A i \in DOMAIN Tail(q) : i + 1 \in DOMAIN q /\ Tail(q)[i] = q[i + 1]
           /\ \A j \in W!ToSet(Tail(q)) : \E i \in DOMAIN q : 1 < i /\ q[i] = j
<1>1. Tail(q) \in Seq(T) /\ Head(q) = q[1] /\ Head(q) \in T /\ 1 \in DOMAIN q
    OBVIOUS
<1>2. \A i \in DOMAIN Tail(q) : i + 1 \in DOMAIN q /\ 1 < i + 1 /\ Tail(q)[i] = q[i + 1]
    OBVIOUS
<1>3. \A i \in DOMAIN q : i = 1 \/ (i - 1 \in DOMAIN Tail(q) /\ Tail(q)[i - 1] = q[i])
    OBVIOUS
<1>4. W!IsInjective(Tail(q))
    BY <1>2 DEF W!IsInjective
<1>5. Head(q) \notin W!ToSet(Tail(q))
    BY <1>1, <1>2 DEF W!IsInjective, W!ToSet
<1>6. W!ToSet(q) = {Head(q)} \cup W!ToSet(Tail(q))
    <2>1. ASSUME NEW i \in DOMAIN q PROVE q[i] \in {Head(q)} \cup W!ToSet(Tail(q))
        BY <1>1, <1>3 DEF W!ToSet
    <2>2. ASSUME NEW i \in DOMAIN Tail(q) PROVE Tail(q)[i] \in W!ToSet(q)
        BY <1>2 DEF W!ToSet
    <2>3. Head(q) \in W!ToSet(q)
        BY <1>1 DEF W!ToSet
    <2> QED BY <2>1, <2>2, <2>3 DEF W!ToSet
<1>7. \A j \in W!ToSet(Tail(q)) : \E i \in DOMAIN q : 1 < i /\ q[i] = j
    BY <1>2 DEF W!ToSet
<1> QED BY <1>1, <1>2, <1>4, <1>5, <1>6, <1>7

\* c is before Watched in q; and how many turns c may still have before Watched's next
\* one, when q is what is left of the sweep: those of this sweep, and one of the next.
ComesFirst(q, c) == \E i, j \in DOMAIN q : i < j /\ q[i] = c /\ q[j] = Watched

Ahead(q, c) ==
    IF Watched \in W!ToSet(q) THEN IF ComesFirst(q, c) THEN 1 ELSE 0
    ELSE IF c \in W!ToSet(q) THEN 2 ELSE 1

Bounded(q) == \A c \in Chain : passed[c] + Ahead(q, c) <= 2

TurnsInv ==
    life = "reloads" =>
        IF Watched \in listed THEN Bounded(queue) ELSE \A c \in Chain : passed[c] = 0

SchedulerInv == W!TypeOK /\ listed \in SUBSET Chain /\ TurnsInv

\* A new sweep has the L2BEAT job and each listed chain once.
LEMMA QueueIsBuilt ==
    ASSUME W!TypeOK
    PROVE  /\ W!BuildSweepQueue \in Seq(Chain \cup {L2Beat})
           /\ W!IsInjective(W!BuildSweepQueue)
           /\ W!ToSet(W!BuildSweepQueue) = listed \cup {L2Beat}
<1> DEFINE never == W!Only(ChainOrder, listed \ W!ToSet(checked))
           before == W!Only(checked, listed)
           T == Chain \cup {L2Beat}
<1>1. /\ ChainOrder \in Seq(Chain) /\ W!ToSet(ChainOrder) = Chain /\ W!IsInjective(ChainOrder)
      /\ checked \in Seq(Chain) /\ W!IsInjective(checked) /\ listed \subseteq Chain /\ L2Beat \notin Chain
    BY StoresAssumption DEF W!TypeOK, W!SchedulerAssumption
<1>2. never \in Seq(Chain) /\ W!IsInjective(never) /\ W!ToSet(never) = Chain \cap (listed \ W!ToSet(checked))
    BY <1>1, OnlyIs
<1>3. before \in Seq(Chain) /\ W!IsInjective(before) /\ W!ToSet(before) = W!ToSet(checked) \cap listed
    BY <1>1, OnlyIs
<1> HIDE DEF never, before
<1>4. never \o before \in Seq(Chain) /\ W!ToSet(never \o before) = listed /\ W!IsInjective(never \o before)
    <2>1. W!ToSet(never) \cap W!ToSet(before) = {} /\ W!ToSet(never) \cup W!ToSet(before) = listed
        BY <1>1, <1>2, <1>3
    <2> QED BY <1>2, <1>3, <2>1, JoinedIs
<1>5. <<L2Beat>> \in Seq(T) /\ never \o before \in Seq(T)
    BY <1>4
<1>6. W!ToSet(<<L2Beat>>) = {L2Beat} /\ W!IsInjective(<<L2Beat>>)
    BY DEF W!ToSet, W!IsInjective
<1>7. W!BuildSweepQueue = <<L2Beat>> \o (never \o before)
    BY DEF W!BuildSweepQueue, W!LongestWaitingFirst, never, before
<1> HIDE DEF T
<1>8. /\ <<L2Beat>> \o (never \o before) \in Seq(T)
      /\ W!ToSet(<<L2Beat>> \o (never \o before)) = {L2Beat} \cup listed
      /\ W!IsInjective(<<L2Beat>> \o (never \o before))
    <2>1. W!ToSet(<<L2Beat>>) \cap W!ToSet(never \o before) = {}
        BY <1>1, <1>4, <1>6
    <2> DEFINE p == <<L2Beat>>
               r == never \o before
    <2>2. p \in Seq(T) /\ r \in Seq(T) /\ W!IsInjective(p) /\ W!IsInjective(r)
          /\ W!ToSet(p) = {L2Beat} /\ W!ToSet(r) = listed /\ W!ToSet(p) \cap W!ToSet(r) = {}
        BY <1>4, <1>5, <1>6, <2>1
    <2> HIDE DEF p, r
    <2>3. p \o r \in Seq(T) /\ W!ToSet(p \o r) = {L2Beat} \cup listed /\ W!IsInjective(p \o r)
        BY <2>2, JoinedIs
    <2> QED BY <2>3 DEF p, r
<1> QED BY <1>7, <1>8 DEF T

\* The jobs a tick chooses from.
Jobs == IF queue = <<>> THEN W!BuildSweepQueue ELSE W!SweepCarryingOn(queue)

LEMMA JobsAre ==
    ASSUME SchedulerInv
    PROVE  /\ Jobs \in Seq(Chain \cup {L2Beat}) /\ W!IsInjective(Jobs)
           /\ life = "reloads" /\ Watched \in listed => Bounded(Jobs)
<1> USE DEF SchedulerInv
<1>1. queue \in Seq(Chain \cup {L2Beat}) /\ W!IsInjective(queue) /\ Watched \in Chain /\ Watched # L2Beat
      /\ passed \in [Chain -> 0 .. 3]
    BY StoresAssumption DEF W!TypeOK, W!SchedulerAssumption
<1>2. CASE queue = <<>>
    <2>1. Jobs = W!BuildSweepQueue
        BY <1>2 DEF Jobs
    <2>2. ASSUME life = "reloads", Watched \in listed PROVE Bounded(Jobs)
        <3>1. Watched \in W!ToSet(Jobs) /\ W!ToSet(queue) = {}
            BY <1>2, <2>1, <2>2, QueueIsBuilt DEF W!ToSet
        <3>2. \A c \in Chain : passed[c] + 1 <= 2
            BY <2>2, <3>1 DEF TurnsInv, Bounded, Ahead
        <3> QED BY <1>1, <3>1, <3>2 DEF Bounded, Ahead
    <2> QED BY <2>1, <2>2, QueueIsBuilt
<1>3. CASE queue # <<>> /\ ~reloaded
    BY <1>1, <1>3 DEF Jobs, W!SweepCarryingOn, TurnsInv
<1>4. CASE queue # <<>> /\ reloaded
    <2> DEFINE S == listed \cup {L2Beat}
               f == W!Only(queue, S)
    <2>1. Jobs = f
        BY <1>4 DEF Jobs, W!SweepCarryingOn
    <2>2. /\ f \in Seq(Chain \cup {L2Beat}) /\ W!ToSet(f) = W!ToSet(queue) \cap S /\ W!IsInjective(f)
          /\ \A i, j \in DOMAIN f : i < j => \E k, l \in DOMAIN queue : k < l /\ queue[k] = f[i] /\ queue[l] = f[j]
        <3> HIDE DEF S
        <3> QED BY <1>1, OnlyIs
    <2> HIDE DEF f
    <2>3. ASSUME life = "reloads", Watched \in listed PROVE Bounded(f)
        <3>1. Watched \in W!ToSet(f) <=> Watched \in W!ToSet(queue)
            BY <2>2, <2>3
        <3>2. \A c \in Chain : c \in W!ToSet(f) => c \in W!ToSet(queue)
            BY <2>2
        <3>3. \A c \in Chain : ComesFirst(f, c) => ComesFirst(queue, c)
            BY <2>2 DEF ComesFirst
        <3>4. \A c \in Chain : passed[c] + Ahead(queue, c) <= 2 /\ passed[c] \in Nat
            BY <1>1, <2>3 DEF TurnsInv, Bounded
        <3> QED BY <3>1, <3>2, <3>3, <3>4 DEF Bounded, Ahead
    <2> QED BY <2>1, <2>2, <2>3
<1> QED BY <1>2, <1>3, <1>4

\* Taking the first job of a queue and counting its turn keeps the bound.
LEMMA TurnKeepsBound ==
    ASSUME W!TypeOK, NEW q \in Seq(Chain \cup {L2Beat}), q # <<>>, W!IsInjective(q),
           Watched \in listed, Bounded(q), W!CountTurn(Head(q))
    PROVE  \A c \in Chain : passed'[c] + Ahead(Tail(q), c) <= 2
<1> DEFINE h == Head(q)
           t == Tail(q)
<1>1. /\ t \in Seq(Chain \cup {L2Beat}) /\ W!IsInjective(t)
      /\ h \in W!ToSet(q) /\ h \notin W!ToSet(t) /\ W!ToSet(q) = {h} \cup W!ToSet(t)
      /\ \A i \in DOMAIN t : i + 1 \in DOMAIN q /\ t[i] = q[i + 1]
      /\ \A j \in W!ToSet(t) : \E i \in DOMAIN q : 1 < i /\ q[i] = j
      /\ h = q[1] /\ 1 \in DOMAIN q
    BY TailIs
<1>2. passed \in [Chain -> 0 .. 3]
    BY DEF W!TypeOK
<1>3. \A c \in Chain : passed[c] + Ahead(q, c) <= 2 /\ passed[c] \in 0 .. 3 /\ Ahead(q, c) \in 0 .. 2
    BY <1>2 DEF Bounded, Ahead
<1>4. \A c \in Chain : ComesFirst(t, c) => ComesFirst(q, c)
    <2> SUFFICES ASSUME NEW c \in Chain, NEW i \in DOMAIN t, NEW j \in DOMAIN t, i < j, t[i] = c, t[j] = Watched
                 PROVE  ComesFirst(q, c)
        BY DEF ComesFirst
    <2>1. i + 1 \in DOMAIN q /\ j + 1 \in DOMAIN q /\ i + 1 < j + 1 /\ q[i + 1] = c /\ q[j + 1] = Watched
        BY <1>1
    <2> QED BY <2>1 DEF ComesFirst
<1>5. \A c \in Chain : ComesFirst(t, c) => c \in W!ToSet(t)
    BY DEF ComesFirst, W!ToSet
<1>6. Watched \in W!ToSet(t) => ComesFirst(q, h)
    BY <1>1 DEF ComesFirst
<1> HIDE DEF t, h
<1>7. CASE h = Watched
    <2>1. passed' = [c \in Chain |-> 0]
        BY <1>7 DEF W!CountTurn, h
    <2> QED BY <2>1 DEF Ahead, t
<1>8. CASE h # Watched
    <2>1. passed' = [c \in Chain |-> IF c = h /\ passed[c] < 3 THEN passed[c] + 1 ELSE passed[c]]
        BY <1>8 DEF W!CountTurn, h
    <2>2. Watched \in W!ToSet(q) <=> Watched \in W!ToSet(t)
        BY <1>1, <1>8
    <2>3. ASSUME NEW c \in Chain, c # h PROVE passed'[c] + Ahead(t, c) <= 2
        <3>1. Ahead(t, c) <= Ahead(q, c) /\ Ahead(t, c) \in 0 .. 2
            BY <1>1, <1>4, <2>2, <2>3 DEF Ahead
        <3>2. passed'[c] = passed[c]
            BY <2>1, <2>3
        <3> QED BY <1>3, <3>1, <3>2
    <2>4. ASSUME h \in Chain PROVE passed'[h] + Ahead(t, h) <= 2
        <3>1. Ahead(t, h) + 1 = Ahead(q, h)
            BY <1>1, <1>5, <1>6, <2>2, <2>4 DEF Ahead
        <3>2. passed'[h] = passed[h] + 1
            BY <1>3, <2>1, <2>4, <3>1 DEF Ahead
        <3> QED BY <1>3, <2>4, <3>1, <3>2 DEF Ahead
    <2> QED BY <2>3, <2>4 DEF t
<1> QED BY <1>7, <1>8

\* The queue of a process that has not begun a sweep.
LEMMA EmptyIs == \A T : <<>> \in Seq(T) /\ W!ToSet(<<>>) = {} /\ W!IsInjective(<<>>)
BY DEF W!ToSet, W!IsInjective

\* Renewed times are of different chains again.
LEMMA RenewedIs ==
    ASSUME NEW c \in Chain, NEW q \in Seq(Chain), W!IsInjective(q)
    PROVE  W!Renewed(q, c) \in Seq(Chain) /\ W!IsInjective(W!Renewed(q, c))
<1> DEFINE S == Chain \ {c}
           f == W!Only(q, S)
<1>1. f \in Seq(Chain) /\ W!ToSet(f) = W!ToSet(q) \cap S /\ W!IsInjective(f)
    <2> HIDE DEF S
    <2> QED BY OnlyIs
<1>2. c \notin W!ToSet(f)
    BY <1>1
<1> HIDE DEF f
<1> DEFINE r == <<c>>
<1>3. r \in Seq(Chain) /\ W!IsInjective(r) /\ W!ToSet(r) = {c}
    BY DEF W!IsInjective, W!ToSet
<1>4. Append(f, c) = f \o r
    BY <1>1
<1> HIDE DEF r
<1>5. W!ToSet(f) \cap W!ToSet(r) = {}
    BY <1>2, <1>3
<1>6. f \o r \in Seq(Chain) /\ W!IsInjective(f \o r)
    BY <1>1, <1>3, <1>5, JoinedIs
<1> QED BY <1>4, <1>6 DEF f, W!Renewed

\* Recording a check gives the chain the newest of the check times.
LEMMA RecordIs ==
    ASSUME W!TypeOK, NEW c \in Chain, W!Record(c)
    PROVE  checked' \in Seq(Chain) /\ W!IsInjective(checked') /\ saving' \in Chain \cup {NoJob}
<1>1. checked \in Seq(Chain) /\ W!IsInjective(checked) /\ saving \in Chain \cup {NoJob} /\ life \in Lives
    BY DEF W!TypeOK
<1>2. W!SaveOf(c) \subseteq Chain \cup {NoJob}
    BY <1>1, StoresAssumption DEF W!SaveOf, W!SchedulerAssumption
<1>3. W!Renewed(checked, c) \in Seq(Chain) /\ W!IsInjective(W!Renewed(checked, c))
    BY <1>1, RenewedIs
<1> QED BY <1>1, <1>2, <1>3 DEF W!Record

\* Every step of the scheduler keeps the bound.
LEMMA SchedulerInvStep == SchedulerInv /\ [W!Next]_sweep => SchedulerInv'
<1> SUFFICES ASSUME SchedulerInv, [W!Next]_sweep PROVE SchedulerInv'
    OBVIOUS
<1>a. /\ Watched \in Chain /\ Listings \subseteq SUBSET Chain /\ LifeJobs \in Nat \ {0}
      /\ NoJob \notin Chain \cup {L2Beat} /\ L2Beat \notin Chain
    BY StoresAssumption DEF W!SchedulerAssumption
<1>b. W!TypeOK /\ listed \in SUBSET Chain
    BY DEF SchedulerInv
<1>1. CASE W!TickStarts
    <2>1. Jobs \in Seq(Chain \cup {L2Beat}) /\ W!IsInjective(Jobs)
          /\ (life = "reloads" /\ Watched \in listed => Bounded(Jobs))
        BY JobsAre
    <2>2. UNCHANGED <<life, listed, checked, stored, saving, ended>> /\ reloaded' = FALSE /\ running = NoJob
        BY <1>1 DEF W!TickStarts
    <2>3. CASE Jobs = <<>>
        <3>1. queue' = <<>> /\ running' = running /\ passed' = passed
            BY <1>1, <2>3 DEF W!TickStarts, Jobs
        <3>2. W!TypeOK'
            BY <1>b, <2>2, <3>1, EmptyIs DEF W!TypeOK
        <3>3. TurnsInv'
            <4>1. queue' = Jobs /\ (life = "reloads" /\ Watched \in listed => Bounded(Jobs))
                BY <2>1, <2>3, <3>1
            <4>2. ASSUME life = "reloads", Watched \in listed PROVE Bounded(queue)'
                <5>1. \A c \in Chain : passed[c] + Ahead(Jobs, c) <= 2
                    BY <4>1, <4>2 DEF Bounded
                <5> HIDE DEF Ahead, Jobs
                <5>2. \A c \in Chain : passed'[c] + Ahead(queue', c) <= 2
                    BY <3>1, <4>1, <5>1
                <5> QED BY <5>2 DEF Bounded, Ahead, ComesFirst
            <4> HIDE DEF Bounded, Jobs
            <4> QED BY <2>2, <3>1, <4>2 DEF TurnsInv, SchedulerInv
        <3> QED BY <1>b, <2>2, <3>2, <3>3 DEF SchedulerInv
    <2>4. CASE Jobs # <<>>
        <3>1. queue' = Tail(Jobs) /\ running' = Head(Jobs) /\ W!CountTurn(Head(Jobs))
            BY <1>1, <2>4 DEF W!TickStarts, Jobs
        <3>2. /\ Tail(Jobs) \in Seq(Chain \cup {L2Beat}) /\ W!IsInjective(Tail(Jobs))
              /\ Head(Jobs) \in Chain \cup {L2Beat} /\ Head(Jobs) \notin W!ToSet(Tail(Jobs))
            BY <2>1, <2>4, TailIs
        <3>3. passed' \in [Chain -> 0 .. 3]
            <4>1. passed \in [Chain -> 0 .. 3]
                BY <1>b DEF W!TypeOK
            <4> HIDE DEF Jobs
            <4> QED BY <3>1, <4>1 DEF W!CountTurn
        <3>4. W!TypeOK'
            BY <1>b, <2>2, <3>1, <3>2, <3>3 DEF W!TypeOK, W!ToSet, W!IsInjective
        <3>5. ASSUME life = "reloads", Watched \in listed PROVE Bounded(queue)'
            <4>1. \A c \in Chain : passed'[c] + Ahead(Tail(Jobs), c) <= 2
                BY <1>b, <2>1, <2>4, <3>1, <3>5, TurnKeepsBound
            <4> HIDE DEF Ahead, Jobs
            <4>2. \A c \in Chain : passed'[c] + Ahead(queue', c) <= 2
                BY <3>1, <4>1
            <4> QED BY <4>2 DEF Bounded, Ahead, ComesFirst
        <3>6. Watched \notin listed => \A c \in Chain : passed'[c] = 0
            <4> HIDE DEF Jobs
            <4> QED BY <3>1 DEF W!CountTurn
        <3>7. TurnsInv'
            <4> HIDE DEF Bounded
            <4> QED BY <2>2, <3>5, <3>6 DEF TurnsInv
        <3> QED BY <1>b, <2>2, <3>4, <3>7 DEF SchedulerInv
    <2> QED BY <2>3, <2>4
<1>2. CASE W!TickEnds
    <2>1. UNCHANGED <<life, listed, stored, queue, reloaded, passed>> /\ running' = NoJob
        BY <1>2 DEF W!TickEnds
    <2>2. checked' \in Seq(Chain) /\ W!IsInjective(checked') /\ saving' \in Chain \cup {NoJob}
        <3>1. CASE running = L2Beat
            BY <1>2, <1>b, <3>1 DEF W!TickEnds, W!TypeOK
        <3>2. CASE running # L2Beat
            <4>1. running \in Chain /\ W!Record(running)
                BY <1>2, <1>b, <3>2 DEF W!TickEnds, W!TypeOK
            <4> QED BY <1>b, <4>1, RecordIs
        <3> QED BY <3>1, <3>2
    <2>3. NoJob \notin W!ToSet(queue)
        BY <1>a, <1>b DEF W!TypeOK, W!ToSet
    <2>4. ended' \in 0 .. LifeJobs
        BY <1>2, <1>a, <1>b DEF W!TickEnds, W!TypeOK
    <2>5. W!TypeOK'
        BY <1>b, <2>1, <2>2, <2>3, <2>4 DEF W!TypeOK, W!ToSet, W!IsInjective
    <2> QED BY <1>b, <2>1, <2>5 DEF SchedulerInv, TurnsInv, Bounded, Ahead, ComesFirst, W!ToSet
<1>3. CASE W!Reload
    <2>1. listed' \in SUBSET Chain /\ UNCHANGED <<life, checked, stored, saving, queue, running, ended>> /\ reloaded' = TRUE
        BY <1>3, <1>a DEF W!Reload
    <2>2. passed' = IF Watched \in listed' THEN passed ELSE [c \in Chain |-> 0]
        BY <1>3 DEF W!Reload
    <2>3. W!TypeOK'
        BY <1>b, <2>1, <2>2 DEF W!TypeOK, W!ToSet, W!IsInjective
    <2>4. ASSUME life = "reloads", Watched \in listed' PROVE Bounded(queue)'
        <3>1. \A c \in Chain : passed[c] + Ahead(queue, c) <= 2
            <4>1. CASE Watched \in listed
                BY <2>4, <4>1 DEF SchedulerInv, TurnsInv, Bounded
            <4>2. CASE Watched \notin listed
                BY <2>4, <4>2 DEF SchedulerInv, TurnsInv, Ahead
            <4> QED BY <4>1, <4>2
        <3> QED BY <2>1, <2>2, <2>4, <3>1 DEF Bounded, Ahead, ComesFirst, W!ToSet
    <2>5. TurnsInv'
        <3> HIDE DEF Bounded
        <3> QED BY <2>1, <2>2, <2>4 DEF TurnsInv
    <2> QED BY <2>1, <2>3, <2>5 DEF SchedulerInv
<1>4. CASE W!Restart
    <2>1. /\ UNCHANGED <<life, listed, stored, passed>> /\ life # "reloads"
          /\ checked' = stored /\ saving' = NoJob
          /\ queue' = <<>> /\ running' = NoJob /\ reloaded' = FALSE /\ ended' = 0
        BY <1>4 DEF W!Restart
    <2>2. W!TypeOK'
        <3>1. reloaded' \in BOOLEAN
            BY <2>1
        <3>2. running' \notin W!ToSet(queue') /\ W!IsInjective(queue') /\ queue' \in Seq(Chain \cup {L2Beat})
            BY <2>1, EmptyIs
        <3>3. ended' \in 0 .. LifeJobs
            BY <1>a, <2>1
        <3> QED BY <1>b, <2>1, <3>1, <3>2, <3>3 DEF W!TypeOK
    <2> QED BY <1>b, <2>1, <2>2 DEF SchedulerInv, TurnsInv
<1>6. CASE W!Saved
    <2>1. /\ UNCHANGED <<life, listed, checked, queue, running, reloaded, ended, passed>>
          /\ saving \in Chain /\ saving' = NoJob /\ stored' = W!Renewed(stored, saving)
        BY <1>6, <1>b DEF W!Saved, W!TypeOK
    <2>2. stored' \in Seq(Chain) /\ W!IsInjective(stored')
        BY <1>b, <2>1, RenewedIs DEF W!TypeOK
    <2>3. W!TypeOK'
        BY <1>b, <2>1, <2>2 DEF W!TypeOK, W!ToSet, W!IsInjective
    <2> QED BY <1>b, <2>1, <2>3 DEF SchedulerInv, TurnsInv, Bounded, Ahead, ComesFirst, W!ToSet
<1>5. CASE UNCHANGED sweep
    BY <1>5 DEF sweep, SchedulerInv, W!TypeOK, TurnsInv, Bounded, Ahead, ComesFirst, W!ToSet, W!IsInjective
<1> QED BY <1>1, <1>2, <1>3, <1>4, <1>5, <1>6 DEF W!Next

\* A behaviour of the composition is one of the scheduler, with its rests.
LEMMA SweepRuns == StoresSpec => W!Init /\ [][W!Next]_sweep
<1>1. StoresInit => W!Init
    BY DEF StoresInit
<1>2. [StoresNext]_everything => [W!Next]_sweep
    BY DEF StoresNext, everything, MarksRun, HealthRun, SweepRun, SessionsRun, Over, sweep
<1> QED BY <1>1, <1>2, PTL DEF StoresSpec

\* However many chains there are and however often the registry is reloaded, while a chain
\* stays listed no other has a third turn before it has one (chainRefresher.js:299).
THEOREM NoneOvertakenThrice == StoresSpec => []OvertakenTwiceAtMost
<1>1. W!Init => SchedulerInv
    <2> SUFFICES ASSUME W!Init PROVE SchedulerInv
        OBVIOUS
    <2>1. W!TypeOK /\ listed \in SUBSET Chain
        <3>1. LifeJobs \in Nat \ {0} /\ Listings \subseteq SUBSET Chain
            BY StoresAssumption DEF W!SchedulerAssumption
        <3>2. reloaded \in BOOLEAN
            BY DEF W!Init
        <3>3. passed \in [Chain -> 0 .. 3]
            BY DEF W!Init
        <3>4. ended \in 0 .. LifeJobs
            BY <3>1 DEF W!Init
        <3> QED BY <3>1, <3>2, <3>3, <3>4, EmptyIs DEF W!Init, W!TypeOK
    <2>2. TurnsInv
        BY DEF W!Init, TurnsInv, Bounded, Ahead, ComesFirst, W!ToSet
    <2> QED BY <2>1, <2>2 DEF SchedulerInv
<1>2. SchedulerInv => OvertakenTwiceAtMost
    <2> SUFFICES ASSUME SchedulerInv, life = "reloads", NEW c \in Chain PROVE passed[c] <= 2
        BY DEF SchedulerInv, OvertakenTwiceAtMost, W!OvertakenTwiceAtMost
    <2>1. passed[c] \in 0 .. 3 /\ Ahead(queue, c) \in 0 .. 2
        BY DEF SchedulerInv, W!TypeOK, Ahead
    <2> QED BY <2>1 DEF SchedulerInv, TurnsInv, Bounded
<1> QED BY <1>1, <1>2, SchedulerInvStep, SweepRuns, PTL
=============================================================================
