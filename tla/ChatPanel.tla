------------------------------- MODULE ChatPanel -------------------------------
(***************************************************************************)
(* The dashboard's side of the assistant (src/public/app.js 4764-4921): a  *)
(* question is posted with the conversation so far; a fast answer comes    *)
(* back at once, a slow one as a job that is polled, at one of several     *)
(* replicas of which one knows it.  Opening the panel asks whether there   *)
(* is an assistant at all, also while a question is under way.             *)
(*                                                                         *)
(* A message is the number of the question it asks or answers.  The number *)
(* of polls stands for the time a job may take (MaxPolls).                 *)
(***************************************************************************)
EXTENDS Naturals, SequencesExt

CONSTANTS
    None,
    Kept,         \* messages a conversation keeps, 20
    MaxMisses,    \* unbroken misses after which an answer is gone, 15
    MaxPolls,     \* polls before the deadline
    MaxQuestions, \* bound: questions asked
    MaxOpenings   \* bound: times the panel is opened

\* The question under way, as `question` keeps it.
Question == [n : Nat, polling : BOOLEAN, misses : Nat, polls : Nat]

PanelAssumption == Kept \in Nat \ {0} /\ None \notin Question

VARIABLES
    messages,  \* the conversation: [role, of]
    busy,      \* input, send and "new conversation" are disabled
    enabled,   \* what the last look said, None before the first
    warned,    \* disabledNoticeShown
    looks,     \* looks under way
    opened,    \* how often the panel was opened
    question,  \* the question under way, with how its job stands here, or None
    asked,     \* questions so far
    job,       \* the job at the replica that has it: None, "running", "done", "error" or "gone"
    notices    \* questions that ended with a notice

vars == <<messages, busy, enabled, warned, looks, opened, question, asked, job, notices>>

Init ==
    /\ messages = <<>> /\ busy = FALSE /\ enabled = None /\ warned = FALSE
    /\ looks = 0 /\ opened = 0 /\ question = None /\ asked = 0 /\ job = None /\ notices = {}

UserMessage(n) == [role |-> "user", of |-> n]
Reply(n) == [role |-> "assistant", of |-> n]

-----------------------------------------------------------------------------
(* Whether there is an assistant                                           *)

ToggleAssistant ==
    /\ opened < MaxOpenings
    /\ opened' = opened + 1 /\ looks' = looks + 1
    /\ UNCHANGED <<messages, busy, enabled, warned, question, asked, job, notices>>

\* probeAssistant: no answer counts as no assistant; the first time that is said
\* so, and the input is disabled.
ProbeAssistant(is) ==
    /\ looks > 0
    /\ looks' = looks - 1
    /\ enabled' = is
    /\ warned' = (warned \/ ~is)
    /\ busy' = (busy \/ (~is /\ ~warned))
    /\ UNCHANGED <<messages, opened, question, asked, job, notices>>

-----------------------------------------------------------------------------
(* A question                                                              *)

Latest(s) == IF Len(s) > Kept THEN SubSeq(s, Len(s) - Kept + 1, Len(s)) ELSE s

SendAssistantMessage ==
    /\ ~busy /\ enabled # FALSE /\ asked < MaxQuestions
    /\ asked' = asked + 1
    /\ messages' = Latest(Append(messages, UserMessage(asked + 1)))
    /\ busy' = TRUE
    /\ question' = [n |-> asked + 1, polling |-> FALSE, misses |-> 0, polls |-> 0]
    /\ UNCHANGED <<enabled, warned, looks, opened, job, notices>>

\* What follows an answer, or that there is none: the input is given back.
Ends ==
    /\ question' = None
    /\ busy' = (enabled = FALSE)
    /\ job' = None
    /\ UNCHANGED <<enabled, warned, looks, opened, asked>>

Answered == messages' = Append(messages, Reply(question.n)) /\ UNCHANGED notices /\ Ends
Noticed == UNCHANGED messages /\ notices' = notices \cup {question.n} /\ Ends

\* The post: an answer, a job, or a refusal or failure of any kind.
PostIsAnswered == question # None /\ ~question.polling /\ Answered
PostFails == question # None /\ ~question.polling /\ Noticed
PostIsAccepted ==
    /\ question # None /\ ~question.polling
    /\ question' = [question EXCEPT !.polling = TRUE]
    /\ job' = "running"
    /\ UNCHANGED <<messages, busy, enabled, warned, looks, opened, asked, notices>>

Polling == question # None /\ question.polling
Waiting == Polling /\ question.polls < MaxPolls

\* A poll, after its delay: without effect when it is lost or refused, which
\* ends the run of misses only when a replica has answered.
PollIsLost ==
    /\ Waiting
    /\ \E misses \in {question.misses, 0} :
          question' = [question EXCEPT !.polls = @ + 1, !.misses = misses]
    /\ UNCHANGED <<messages, busy, enabled, warned, looks, opened, asked, job, notices>>

Gone(misses) == misses >= MaxMisses

\* A replica that does not know the job.
PollMisses ==
    /\ Waiting
    /\ IF Gone(question.misses + 1) THEN Noticed
       ELSE /\ question' = [question EXCEPT !.polls = @ + 1, !.misses = @ + 1]
            /\ UNCHANGED <<messages, busy, enabled, warned, looks, opened, asked, job, notices>>

\* The replica that has it.
PollIsAnswered ==
    /\ Waiting
    /\ \/ job = "done" /\ Answered
       \/ job = "error" /\ Noticed
       \/ /\ job = "running"
          /\ question' = [question EXCEPT !.polls = @ + 1, !.misses = 0]
          /\ UNCHANGED <<messages, busy, enabled, warned, looks, opened, asked, job, notices>>

DeadlinePasses == Polling /\ question.polls = MaxPolls /\ Noticed

\* Mutant: a conversation can be cleared at any time.
MayResetAnyTime == TRUE

MayReset == ~busy

ResetAssistantChat ==
    /\ MayReset /\ messages # <<>>
    /\ messages' = <<>>
    /\ UNCHANGED <<busy, enabled, warned, looks, opened, question, asked, job, notices>>

\* The server: a run ends, and its answer is kept for a while (Assistant).
JobAdvances ==
    /\ \/ job = "running" /\ job' \in {"done", "error"}
       \/ job \in {"done", "error"} /\ job' = "gone"
    /\ UNCHANGED <<messages, busy, enabled, warned, looks, opened, question, asked, notices>>

Polls == PollIsLost \/ PollMisses \/ PollIsAnswered
Posts == PostIsAnswered \/ PostFails \/ PostIsAccepted

Next ==
    \/ ToggleAssistant \/ \E is \in BOOLEAN : ProbeAssistant(is)
    \/ SendAssistantMessage \/ Posts \/ Polls \/ DeadlinePasses
    \/ ResetAssistantChat \/ JobAdvances

Spec == Init /\ [][Next]_vars

-----------------------------------------------------------------------------
(* Properties                                                              *)

\* A question ends, with its answer or with a notice, in the conversation it was
\* asked in: between the two nothing else is said or cleared, whatever a look at
\* the assistant finds meanwhile (app.js:4824-4921).
AnswersFollowQuestions ==
    /\ \A i \in DOMAIN messages :
          messages[i].role = "assistant" /\ i > 1 => messages[i - 1] = UserMessage(messages[i].of)
    /\ question # None => messages # <<>> /\ Last(messages) = UserMessage(question.n) /\ busy
    /\ \A n \in 1..asked : n \notin notices /\ (question = None \/ question.n # n) =>
          \A i \in DOMAIN messages : messages[i] = UserMessage(n) => i < Len(messages) /\ messages[i + 1] = Reply(n)

=============================================================================
