------------------------------ MODULE NodeForks ------------------------------
(***************************************************************************)
(* The fork schedules a chain's own nodes are configured with              *)
(* (nodeForkSchedule.js), the names its client code gives those forks      *)
(* (forkSource.js), and the forks built from both and from the feeds       *)
(* (getAllForks and builtForks, services/forks.js), which are kept until   *)
(* one of the things they were built from changes.                         *)
(*                                                                         *)
(* One chain: schedules of different chains never meet.  What the feeds,   *)
(* the registry and the repositories give is one `snapshot`, compared by   *)
(* identity as each of them is.  Of a node's answer the activation times   *)
(* are kept, all of them real schedules; of the client code's, the name.   *)
(***************************************************************************)
EXTENDS Integers, Sequences, FiniteSets, SequencesExt

CONSTANTS
    Schedule,      \* what a node may answer: <<current, next, last>>, None for no fork
    Name,          \* what the code may call a fork
    Caller,        \* calls of getAllForks that may be under way at once
    None,
    MaxUrls,       \* NODE_FORK_SCHEDULE_MAX_URLS
    RefreshAfter,  \* NODE_FORK_SCHEDULE_REFRESH_MS
    RetryAfter,    \* NODE_FORK_SCHEDULE_RETRY_MS, and FORK_SOURCE_FAILED_RETRY_MS
    MaxTime,       \* bound: the clock
    MaxSnapshots   \* bound: refreshes of the feeds and reloads of the registry

\* Entries of `schedules` and of `answers`.
Entry == [forks : Schedule \cup {None}, checkedAt : Nat, nextSince : Nat \cup {None}]
Answer == [is : {"found", "failed"}, askedAt : Nat, name : Name \cup {None}]

\* What the constants are; asserted by the module that gives them values.
NodeForksAssumption ==
    /\ MaxUrls \in Nat \ {0} /\ RetryAfter <= RefreshAfter
    /\ \A s \in Schedule : DOMAIN s = 1..3
    /\ None \notin Schedule \cup Entry \cup Answer

VARIABLES
    now,
    schedule,    \* the chain's entry of `schedules`, or None
    nodeVersion,
    refreshing,  \* refreshNodeForkSchedule calls that wait for a node
    answers,     \* [times -> the entry of `answers`, or None]
    asking,      \* requestForkSources' request, or None
    nameVersion,
    snapshot,    \* what the feeds and the registry last gave
    memo,        \* the forks kept, with what they were built from
    at           \* [Caller -> what the call waits for]

vars == <<now, schedule, nodeVersion, refreshing, answers, asking, nameVersion, snapshot, memo, at>>

Time == (UNION {ToSet(s) : s \in Schedule}) \ {None}

Unsupported(t) == [forks |-> None, checkedAt |-> t, nextSince |-> None]

Idle == [is |-> "idle"]

Init ==
    /\ now = 0 /\ schedule = None /\ nodeVersion = 0 /\ refreshing = {}
    /\ answers = [t \in Time |-> None] /\ asking = None /\ nameVersion = 0
    /\ snapshot = 0 /\ memo = None /\ at = [c \in Caller |-> Idle]

-----------------------------------------------------------------------------
(* Schedules                                                               *)

Due ==
    schedule # None =>
        now - schedule.checkedAt >= IF schedule.forks = None THEN RetryAfter ELSE RefreshAfter

MayRefresh == Due /\ refreshing = {}

\* The refresher found endpoints serving blocks: the first of them are asked.
RefreshNodeForkSchedule ==
    /\ MayRefresh /\ Cardinality(refreshing) < 2
    /\ refreshing' = refreshing \cup {[known |-> schedule, asked |-> 1, since |-> now, n |-> Cardinality(refreshing)]}
    /\ UNCHANGED <<now, schedule, nodeVersion, answers, asking, nameVersion, snapshot, memo, at>>

Forks(entry) == IF entry = None THEN None ELSE entry.forks

NextSince(r, s) ==
    IF Forks(r.known) # None /\ s[2] # None /\ r.known.forks[2] = s[2] THEN r.known.nextSince ELSE r.since

NodeAnswers(r, s) ==
    /\ refreshing' = refreshing \ {r}
    /\ schedule' = [forks |-> s, checkedAt |-> r.since, nextSince |-> NextSince(r, s)]
    /\ nodeVersion' = IF Forks(r.known) # s THEN nodeVersion + 1 ELSE nodeVersion
    /\ UNCHANGED <<now, answers, asking, nameVersion, snapshot, memo, at>>

\* No answer, or none of this chain: the next endpoint is asked.  After the last
\* one a schedule read before is kept.
NodeFails(r) ==
    /\ IF r.asked < MaxUrls
       THEN /\ refreshing' = (refreshing \ {r}) \cup {[r EXCEPT !.asked = @ + 1]}
            /\ UNCHANGED schedule
       ELSE /\ refreshing' = refreshing \ {r}
            /\ schedule' = IF Forks(r.known) = None THEN Unsupported(r.since)
                                                    ELSE [r.known EXCEPT !.checkedAt = r.since]
    /\ UNCHANGED <<now, nodeVersion, answers, asking, nameVersion, snapshot, memo, at>>

-----------------------------------------------------------------------------
(* Names                                                                   *)

\* nodeForkPairs.
Pairs == IF Forks(schedule) = None THEN {} ELSE ToSet(schedule.forks) \ {None}

AnswerDue(t) ==
    answers[t] # None =>
        now - answers[t].askedAt >= IF answers[t].is = "found" THEN RefreshAfter ELSE RetryAfter

Wanted == {t \in Pairs : AnswerDue(t)}

\* One request at a time.
RequestForkSources ==
    IF asking = None /\ Wanted # {} THEN asking' = [wanted |-> Wanted, since |-> now] ELSE UNCHANGED asking

Found(t) == answers[t] # None /\ answers[t].is = "found"

\* Mutant: the last answer is the one kept.
Forgotten(t, since) == [is |-> "failed", askedAt |-> since, name |-> None]

\* A name already found stays while the feed looks again, and when it fails.
Missed(t, since) ==
    IF Found(t) THEN [answers[t] EXCEPT !.askedAt = since] ELSE [is |-> "failed", askedAt |-> since, name |-> None]

\* fetchAnswers: of the pairs some are found; the others are pending, not found,
\* malformed or left out.
FeedNames(found) ==
    /\ asking # None /\ DOMAIN found \subseteq asking.wanted
    /\ answers' = [t \in Time |->
                      IF t \in DOMAIN found THEN [is |-> "found", askedAt |-> asking.since, name |-> found[t]]
                      ELSE IF t \in asking.wanted THEN Missed(t, asking.since)
                      ELSE answers[t]]
    /\ nameVersion' = nameVersion + Cardinality({t \in DOMAIN found : ~(Found(t) /\ answers[t].name = found[t])})
    /\ asking' = None
    /\ UNCHANGED <<now, schedule, nodeVersion, refreshing, snapshot, memo, at>>

-----------------------------------------------------------------------------
(* Forks                                                                   *)

\* nodeForkMentions: each fork of the schedule once, under its name when it has one.
NodeForkMentions == {[time |-> t, name |-> IF Found(t) THEN answers[t].name ELSE None] : t \in Pairs}

KeyWith(feeds) == [feeds |-> feeds, nodes |-> nodeVersion, names |-> nameVersion]

CallStarts(c) ==
    /\ at[c] = Idle
    /\ RequestForkSources
    /\ at' = [at EXCEPT ![c] = [is |-> "asking"]]
    /\ UNCHANGED <<now, schedule, nodeVersion, refreshing, answers, nameVersion, snapshot, memo>>

\* builtForks, with what the feeds answered: kept forks are served, others built
\* from what is known now.
FeedsAnswer(c, feeds) ==
    /\ at[c].is = "asking"
    /\ at' = [at EXCEPT ![c] =
                 IF memo # None /\ memo.key = KeyWith(feeds) THEN Idle
                 ELSE [is |-> "building", key |-> KeyWith(feeds), forks |-> NodeForkMentions]]
    /\ UNCHANGED <<now, schedule, nodeVersion, refreshing, answers, asking, nameVersion, snapshot, memo>>

\* Every feed is down: the schedules alone, or an error when there are none.
FeedsFail(c) == IF NodeForkMentions = {} THEN /\ at[c].is = "asking"
                                              /\ at' = [at EXCEPT ![c] = Idle]
                                              /\ UNCHANGED <<now, schedule, nodeVersion, refreshing, answers, asking, nameVersion, snapshot, memo>>
                                         ELSE FeedsAnswer(c, None)

Building(c) == at[c].is = "building"

\* Mutant: what is built counts as built from what is known when it is done.
KeyAtTheEnd(c) == KeyWith(at[c].key.feeds)

KeyOfBuild(c) == at[c].key

\* The heights of the explorers are in.
BuildEnds(c) ==
    /\ Building(c)
    /\ memo' = [key |-> KeyOfBuild(c), forks |-> at[c].forks]
    /\ at' = [at EXCEPT ![c] = Idle]
    /\ UNCHANGED <<now, schedule, nodeVersion, refreshing, answers, asking, nameVersion, snapshot>>

-----------------------------------------------------------------------------
\* The feeds are read again, or the registry is.
SnapshotChanges ==
    /\ snapshot < MaxSnapshots
    /\ snapshot' = snapshot + 1
    /\ UNCHANGED <<now, schedule, nodeVersion, refreshing, answers, asking, nameVersion, memo, at>>

Tick ==
    /\ now < MaxTime
    /\ now' = now + 1
    /\ UNCHANGED <<schedule, nodeVersion, refreshing, answers, asking, nameVersion, snapshot, memo, at>>

Next ==
    \/ RefreshNodeForkSchedule
    \/ \E r \in refreshing : NodeFails(r) \/ \E s \in Schedule : NodeAnswers(r, s)
    \/ asking # None /\ \E T \in SUBSET asking.wanted : \E found \in [T -> Name] : FeedNames(found)
    \/ \E c \in Caller : CallStarts(c) \/ FeedsAnswer(c, snapshot) \/ FeedsFail(c) \/ BuildEnds(c)
    \/ SnapshotChanges \/ Tick

Spec == Init /\ [][Next]_vars

-----------------------------------------------------------------------------
(* Properties                                                              *)

\* Each version "changes whenever a schedule changes: part of the fork memo key"
\* (nodeForkSchedule.js:105, forkSource.js:38): forks that would be served from the
\* memo are the ones that would be built now, although they were built while
\* schedules and names arrived.
MemoIsCurrent ==
    memo # None /\ memo.key = KeyWith(memo.key.feeds) => memo.forks = NodeForkMentions

\* "Keep a schedule read before (an endpoint may have gone)" and "a name already
\* found stays while the feed looks again" (nodeForkSchedule.js:97, forkSource.js:103):
\* no failure of a node or of the feed takes back what was known.
KnowledgeStays ==
    [][/\ Forks(schedule) # None => Forks(schedule') # None
       /\ \A t \in Time : Found(t) => Found(t)']_vars
=============================================================================
