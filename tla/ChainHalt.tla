----------------------------- MODULE ChainHalt -----------------------------
(***************************************************************************)
(* Whether a chain has stopped: checkChainHalt (src/src/services/          *)
(* chainHalt.js).  Endpoints and an explorer are asked at once and answer  *)
(* with a block each, some time later, while the chain goes on; a second   *)
(* request may be made for the chain's block interval.  The verdict is     *)
(* drawn from blocks of different moments.                                 *)
(*                                                                         *)
(* `at` is a time in seconds; a block is its height, with blocks[h] the    *)
(* time of the block.  Rounding, the choice of endpoints and the wording of*)
(* the verdict are left out.                                               *)
(***************************************************************************)
EXTENDS Integers, FiniteSetsExt, SequencesExt

CONSTANTS
    Source,     \* endpoints, and the explorer if there is one
    Explorer,   \* one of the sources
    Averages,   \* the block intervals it may give
    AnswerWithin, \* the longest an answer takes: an endpoint's look-up and HALT_CHECK_TIMEOUT_MS,
                  \* the explorer's turn (pacing) and its own time-out
    Multiplier, \* HALT_BLOCK_TIME_MULTIPLIER
    Least,      \* HALT_MIN_SECONDS
    Lookback,   \* blocks the interval is derived from (100)
    MaxTime,    \* bound: how long is looked at
    None

HaltAssumption ==
    /\ IsFiniteSet(Source) /\ None \notin Int
    /\ Averages \subseteq Nat /\ {AnswerWithin, Multiplier, Least, Lookback, MaxTime} \subseteq Nat

VARIABLES
    now,
    blocks,  \* the chain: the times of its blocks
    asked,   \* when the sources were asked; None before
    answers, \* source to what it answered: a height, or that it gave none
    probed,  \* when all had; None before
    verdict  \* what was concluded, None before

vars == <<now, blocks, asked, answers, probed, verdict>>

Init ==
    /\ now = 0
    /\ blocks = <<0>>
    /\ asked = None
    /\ answers = <<>>
    /\ probed = None
    /\ verdict = None

-----------------------------------------------------------------------------
(* The chain, and time, until there is a verdict; a check keeps nothing    *)

Produce ==
    /\ verdict = None /\ now > blocks[Len(blocks)]
    /\ blocks' = Append(blocks, now)
    /\ UNCHANGED <<now, asked, answers, probed, verdict>>

\* Each request is given up in the end, however long its name was looked up or
\* it had to wait for its turn.
Deadline == IF probed = None THEN asked + AnswerWithin ELSE probed + AnswerWithin

Second ==
    /\ verdict = None /\ now < MaxTime
    /\ asked # None => now < Deadline
    /\ now' = now + 1
    /\ UNCHANGED <<blocks, asked, answers, probed, verdict>>

-----------------------------------------------------------------------------
(* The check                                                               *)

CheckChainHalt ==
    /\ asked = None
    /\ asked' = now
    /\ UNCHANGED <<now, blocks, answers, probed, verdict>>

\* probeRpc, probeExplorer: a source tells of the block it is at, however far
\* behind, or nothing.
Answers(s) ==
    /\ asked # None /\ s \notin DOMAIN answers
    /\ \E h \in 1..Len(blocks) \cup {None} :
          answers' = [t \in DOMAIN answers \cup {s} |->
                         IF t = s THEN [height |-> h, tip |-> Len(blocks), at |-> now] ELSE answers[t]]
    /\ UNCHANGED <<now, blocks, asked, probed, verdict>>

Responded == {s \in DOMAIN answers : answers[s].height # None}
Heights == {answers[s].height : s \in Responded}
MaxHeight == Max(Heights)

\* The leaders' block says whether the chain moves.
Tip == blocks[MaxHeight]

\* Every source has answered or timed out; two are needed for a verdict.
Probed ==
    /\ DOMAIN answers = Source /\ probed = None /\ verdict = None
    /\ IF Cardinality(Responded) < 2
       THEN verdict' = [is |-> "unknown", threshold |-> None, stale |-> {}] /\ UNCHANGED probed
       ELSE probed' = now /\ UNCHANGED verdict
    /\ UNCHANGED <<now, blocks, asked, answers>>

\* The explorer's average; without one, what deriveIntervalFromRpc makes of a
\* leading endpoint's older block, if it answers again.
Intervals ==
    LET back == Min({Lookback, MaxHeight - 1})
        leaders == {s \in Responded : answers[s].height = MaxHeight}
        derived == IF back < 2 \/ leaders = {Explorer}
                   THEN {None} ELSE {None, (Tip - blocks[MaxHeight - back]) \div back}
    IN  IF Explorer \in Responded THEN Averages \cup derived ELSE derived

Threshold(interval) == IF interval = None THEN Least ELSE Max({interval * Multiplier, Least})

\* The age of the tip was taken when the sources had answered; which of them are
\* stale, only now.
Judge ==
    /\ probed # None /\ verdict = None
    /\ \E interval \in Intervals :
          LET threshold == Threshold(interval)
              stale == {s \in Responded : now - blocks[answers[s].height] > threshold}
          IN  verdict' =
                [is |-> IF probed - Tip <= threshold THEN (IF stale = {} THEN "healthy" ELSE "endpoint_lagging")
                        ELSE IF Cardinality(Heights) > 1 THEN "delayed" ELSE "halted",
                 threshold |-> threshold, stale |-> stale]
    /\ UNCHANGED <<now, blocks, asked, answers, probed>>

Next ==
    \/ Produce \/ Second
    \/ CheckChainHalt
    \/ \E s \in Source : Answers(s)
    \/ Probed
    \/ Judge

-----------------------------------------------------------------------------
(* Properties                                                              *)

\* A lagging endpoint is no halt (chainHalt.js:21-24): when a source was at the
\* tip as it answered, a chain is called halted or delayed only if it had then
\* been without a block for the threshold, less what the other answers may take;
\* and never on one witness.
HaltIsNoLag ==
    verdict # None /\ verdict.is \in {"halted", "delayed"} =>
        /\ Cardinality(Responded) >= 2
        /\ \A s \in Responded :
              answers[s].height = answers[s].tip =>
                  answers[s].at - blocks[answers[s].height] > verdict.threshold - AnswerWithin
=============================================================================
