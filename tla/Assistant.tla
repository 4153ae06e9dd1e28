------------------------------ MODULE Assistant ------------------------------
(***************************************************************************)
(* The assistant: chat jobs (src/src/http/routes/assistant.js), and one    *)
(* turn of runAssistant (src/src/services/assistant.js).                   *)
(*                                                                         *)
(* A POST starts a run and waits for it for a while; a run that is not     *)
(* over by then goes on as a job the client polls, and the job stays for a *)
(* time to live once it has ended.                                         *)
(*                                                                         *)
(* In a run, a topic guard comes before a loop in which the model answers  *)
(* or asks for tools; what it sends may be malformed.  Calls fail over     *)
(* from the primary model to the fallback for the rest of the run, and     *)
(* share one deadline.  A provider that is `well` answers every call at    *)
(* once and to the point; of another anything may come: an answer, nothing *)
(* before the timeout, a bad status.  Contents are kinds: "missing",       *)
(* "text", "empty", "leak" (the syntax of a tool call as text) or "tools". *)
(*                                                                         *)
(* Reported steps, logging and the wording of answers are left out.        *)
(***************************************************************************)
EXTENDS Integers, FiniteSets, FiniteSetsExt

CONSTANTS
    Job,              \* job IDs
    MaxConcurrentJobs \* ASSISTANT_MAX_CONCURRENT_JOBS

\* What the constants are; asserted by the module that gives them values.
JobsAssumption == MaxConcurrentJobs \in Nat

VARIABLES
    jobs,   \* the map: the jobs in it
    status, \* of a job object: "none", "running", "done" or "error"
    post,   \* its POST: "none", "waiting", "woken", or its answer 200, 202 or 503
    timer,  \* the job's removal: "none", "set" or "fired"
    polled  \* what the last poll of a job was told

Running == {j \in jobs : status[j] = "running"}

JobsInit ==
    /\ jobs = {}
    /\ status = [j \in Job |-> "none"]
    /\ post = [j \in Job |-> "none"]
    /\ timer = [j \in Job |-> "none"]
    /\ polled = [j \in Job |-> "nothing"]

\* POST up to its await; nothing comes between the count and the start.
StartAssistantJob(j) ==
    /\ status[j] = "none"
    /\ Cardinality(Running) < MaxConcurrentJobs
    /\ jobs' = jobs \cup {j}
    /\ status' = [status EXCEPT ![j] = "running"]
    /\ post' = [post EXCEPT ![j] = "waiting"]
    /\ UNCHANGED <<timer, polled>>

\* The timer is set when the run ends.
RemovalDue(j) == timer[j] = "set"

\* runAssistant settles: the result or the error, and the timer.
RunEnds(j) ==
    /\ status[j] = "running"
    /\ \E s \in {"done", "error"} : status' = [status EXCEPT ![j] = s]
    /\ timer' = [timer EXCEPT ![j] = "set"]
    /\ UNCHANGED <<jobs, post, polled>>

\* waitForJob: the run has ended, or ASSISTANT_SYNC_WAIT_MS have passed.
Wakes(j) ==
    /\ post[j] = "waiting"
    /\ post' = [post EXCEPT ![j] = "woken"]
    /\ UNCHANGED <<jobs, status, timer, polled>>

\* The rest of the handler, by what the job is by then.
Answers(j) ==
    /\ post[j] = "woken"
    /\ post' = [post EXCEPT ![j] = CASE status[j] = "done" -> "200" [] status[j] = "error" -> "503" [] OTHER -> "202"]
    /\ jobs' = IF status[j] = "running" THEN jobs ELSE jobs \ {j}
    /\ UNCHANGED <<status, timer, polled>>

\* GET /assistant/chat/:jobId, by a client that was told the ID.
Poll(j) ==
    /\ post[j] = "202"
    /\ polled' = [polled EXCEPT ![j] = IF j \in jobs THEN status[j] ELSE "not found"]
    /\ UNCHANGED <<jobs, status, post, timer>>

Removed(j) ==
    /\ RemovalDue(j)
    /\ jobs' = jobs \ {j}
    /\ timer' = [timer EXCEPT ![j] = "fired"]
    /\ UNCHANGED <<status, post, polled>>

JobsNext == \E j \in Job : StartAssistantJob(j) \/ RunEnds(j) \/ Wakes(j) \/ Answers(j) \/ Poll(j) \/ Removed(j)

-----------------------------------------------------------------------------
(* One turn                                                                *)

CONSTANTS
    Providers,     \* how many: 1, or 2 with a fallback
    Budget,        \* ASSISTANT_TIMEOUT_MS; all times are in milliseconds
    GuardCap,      \* timeoutCapMs of the guard
    AttemptCap,    \* ATTEMPT_CAP_WITH_FALLBACK_MS
    ToolTime,      \* assumption: what the tools of one turn take at most
    MaxIterations, \* ASSISTANT_MAX_TOOL_ITERATIONS
    MaxStrikes,    \* MAX_MALFORMED_STRIKES
    MaxToolCalls,  \* MAX_TOOL_CALLS_PER_TURN
    None

Second == 1000

\* What the constants are; asserted by the module that gives them values.  With a budget
\* of 6.25 seconds or less, the guard and two attempts may leave the fallback nothing.
RunAssumption ==
    /\ Providers \in {1, 2} /\ Budget \in Nat /\ Budget > 6250 /\ ToolTime \in Nat
    /\ GuardCap \in Nat /\ AttemptCap \in Nat /\ None \notin Int \cup {"unavailable"}

VARIABLES
    well,      \* the providers that are well
    step,      \* "guard", "loop", "call", "message", "done"
    left,      \* time to the deadline
    index,     \* run.index: the provider in use
    retried,   \* retriedProviderIndex of the call under way, or None
    iteration, strikes,
    message,   \* the kind of the last message
    outcome    \* "off_topic", "answer", "degraded", "unavailable", or None

Provider == 1..Providers
Kinds == {"missing", "text", "empty", "leak", "tools"}

RunInit ==
    /\ well \in SUBSET Provider
    /\ step = "guard"
    /\ left = Budget
    /\ index = 1
    /\ retried = None
    /\ iteration = 0
    /\ strikes = 0
    /\ message = None
    /\ outcome = None

-----------------------------------------------------------------------------
(* One request                                                             *)

\* Mutant: an attempt may take whatever the cap allows.
CappedOnly(cap) == IF cap = None THEN Max({Second, left}) ELSE Max({Second, Min({left, cap})})

\* llmRequest: a capped attempt leaves something for the next one; none is
\* shorter than a second.
TimeoutOf(cap) ==
    IF cap = None THEN Max({Second, left}) ELSE Max({Second, Min({(left * 6) \div 10, cap})})

\* What comes of it, after which time: "ok", "status", or "network" for no answer.
Outcomes(cap) ==
    IF left <= 0 THEN {<<"network", 0>>}
    ELSE IF index \in well THEN {<<"ok", 0>>}
    ELSE {<<o, t>> : o \in {"ok", "status"}, t \in {0, TimeoutOf(cap)}} \cup {<<"network", 0>>, <<"network", TimeoutOf(cap)>>}

HasNext == index < Providers

\* isOnTopic: any trouble lets the question through, and a server that did not
\* answer is not asked again.
Guard ==
    /\ step = "guard"
    /\ \E o \in Outcomes(GuardCap) :
          /\ left' = left - o[2]
          /\ index' = IF o[1] = "network" /\ HasNext THEN index + 1 ELSE index
          /\ \/ step' = "loop" /\ UNCHANGED outcome
             \/ o[1] = "ok" /\ index \notin well /\ step' = "done" /\ outcome' = "off_topic"
    /\ UNCHANGED <<well, retried, iteration, strikes, message>>

End(o) == step' = "done" /\ outcome' = o

\* A call cannot be made, or all of its attempts failed.
CallFails == IF iteration = 1 THEN End("unavailable") ELSE End("degraded")

\* The head of the loop; after the last iteration, one more call asks for an answer.
StartCall ==
    /\ step = "loop"
    /\ iteration' = iteration + 1
    /\ retried' = None
    /\ IF left <= 0
       THEN End(IF iteration = 0 THEN "unavailable" ELSE "degraded")
       ELSE step' = "call" /\ UNCHANGED outcome
    /\ UNCHANGED <<well, left, index, strikes, message>>

Final == iteration > MaxIterations
ForceAnswer == strikes >= MaxStrikes

\* callLlm: the same provider once more, then the next one.
CallLlm ==
    /\ step = "call"
    /\ \E o \in Outcomes(IF HasNext THEN AttemptCap ELSE None) :
          /\ left' = left - o[2]
          /\ IF o[1] = "ok"
             THEN /\ step' = "message"
                  /\ message' \in IF index \notin well THEN Kinds ELSE IF Final \/ ForceAnswer THEN {"text"} ELSE {"text", "tools"}
                  /\ UNCHANGED <<index, retried, outcome>>
             ELSE /\ UNCHANGED message
                  /\ IF retried # index THEN retried' = index /\ UNCHANGED <<step, index, outcome>>
                     ELSE IF HasNext THEN index' = index + 1 /\ UNCHANGED <<step, retried, outcome>>
                     ELSE CallFails /\ UNCHANGED <<index, retried>>
    /\ UNCHANGED <<well, iteration, strikes>>

\* Another strike, and another round unless it was one too many.
Strike ==
    /\ strikes' = strikes + 1
    /\ IF strikes + 1 > MaxStrikes THEN End("degraded") ELSE step' = "loop" /\ UNCHANGED outcome

\* The body of the loop: an answer, a leaked call, nothing, or tools, whose
\* failures are strikes too.  Tools have no deadline of their own.
Message ==
    /\ step = "message"
    /\ IF Final
       THEN End(IF message \in {"text", "leak"} THEN "answer" ELSE "degraded") /\ UNCHANGED <<left, index, strikes>>
       ELSE IF message = "text" \/ (ForceAnswer /\ message = "leak")
       THEN End("answer") /\ UNCHANGED <<left, index, strikes>>
       ELSE IF message = "leak" /\ HasNext
       THEN index' = index + 1 /\ step' = "loop" /\ UNCHANGED <<left, strikes, outcome>>
       ELSE IF message \in {"missing", "empty", "leak"} \/ ForceAnswer
       THEN Strike /\ UNCHANGED <<left, index>>
       ELSE /\ \E failed \in 0..MaxToolCalls : strikes' = strikes + failed
            /\ left' \in {left, left - ToolTime}
            /\ step' = "loop"
            /\ UNCHANGED <<index, outcome>>
    /\ UNCHANGED <<well, retried, iteration, message>>

RunNext == Guard \/ StartCall \/ CallLlm \/ Message

-----------------------------------------------------------------------------
(* Properties                                                              *)

\* A client that was told to poll finds the job until its time to live is over,
\* whichever of the run's end and the wait's end came first, and no other end of
\* a job takes it away; runs that are counted are all that go on (routes/
\* assistant.js:90-95, 228-250).
PromisedAnswersWait ==
    /\ \A j \in Job :
          /\ post[j] = "202" /\ (timer[j] # "fired" \/ status[j] = "running") => j \in jobs
          /\ polled[j] = "not found" => timer[j] = "fired" /\ status[j] # "running"
          /\ status[j] = "running" => j \in jobs
    /\ Cardinality(Running) <= MaxConcurrentJobs

\* The fallback gets a real try (assistant.js:209-212): with a fallback that is
\* well no question is refused as "LLM unreachable", however long the guard and
\* the primary took; and a run overdraws its deadline by a second for the last
\* attempt, and by its tools, at most.
FallbackGetsItsTry ==
    /\ outcome = "unavailable" => Providers \notin well
    /\ left >= -Second - ToolTime
=============================================================================
