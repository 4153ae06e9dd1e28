----------------------------- MODULE Blockscout -----------------------------
(***************************************************************************)
(* The explorer's tip of a chain (src/src/sources/blockscout.js).  A chain *)
(* lists up to two instances that may answer; which one did is kept, and   *)
(* that none did, as the last tip is.  Questions about one chain share a   *)
(* flight.  Requests of all chains leave one interval apart, and a host    *)
(* that answered 429 is parked.                                            *)
(*                                                                         *)
(* A flight is at one of its awaits: "paced" for its turn, or "sent".      *)
(***************************************************************************)
EXTENDS Integers, Sequences, FiniteSets, FiniteSetsExt

CONSTANTS
    Chain,
    Candidates,  \* [Chain -> Seq(host)]: candidateUrls
    None,
    CacheTtl,    \* BLOCKSCOUT_CACHE_TTL_MS
    InstanceTtl, \* BLOCKSCOUT_INSTANCE_CACHE_TTL_MS
    Interval,    \* minInterval
    ParkFor,     \* what a 429 parks a host for
    MaxTime      \* bound: the clock

\* What the constants are; asserted by the module that gives them values.
PaceAssumption == Interval \in Nat

VARIABLES
    now,
    instances,  \* instanceCache: [baseUrl, at]
    stats,      \* statsCache: [data, at]
    inflight,   \* [Chain -> the flight: [at, host, left, turn]]
    parked,     \* [host -> until when]
    lastRequest,\* lastRequestAt
    sent        \* when requests left, of all hosts

vars == <<now, instances, stats, inflight, parked, lastRequest, sent>>

Host == UNION {{Candidates[c][i] : i \in DOMAIN Candidates[c]} : c \in Chain}

Init ==
    /\ now = 0
    /\ instances = [c \in Chain |-> None] /\ stats = [c \in Chain |-> None] /\ inflight = [c \in Chain |-> None]
    /\ parked = [h \in Host |-> 0] /\ lastRequest = -Interval /\ sent = <<>>

IsFresh(entry, ttl) == entry # None /\ now - entry.at < ttl

-----------------------------------------------------------------------------
(* One flight                                                              *)

\* Mutant: a turn is only counted from when the one before it was asked for.
TurnIfIdle == IF now >= lastRequest + Interval THEN now ELSE lastRequest + Interval - 1

\* pace: the turn is taken before the wait.
Turn == Max({now, lastRequest + Interval})

\* The flight ends: the tip, or that there is none, is kept for a while.
Land(c, tip) ==
    /\ stats' = [stats EXCEPT ![c] = [data |-> tip, at |-> now]]
    /\ inflight' = [inflight EXCEPT ![c] = None]
    /\ UNCHANGED <<lastRequest, sent>>

\* The first of these hosts that is not parked is asked; parked ones count as silent.
Unparked(hosts) == {i \in DOMAIN hosts : now >= parked[hosts[i]]}

AsksNext(c, hosts, resolves) ==
    IF Unparked(hosts) = {}
    THEN /\ instances' = IF resolves THEN [instances EXCEPT ![c] = [baseUrl |-> None, at |-> now]] ELSE instances
         /\ Land(c, None)
    ELSE LET i == Min(Unparked(hosts))
         IN  /\ inflight' = [inflight EXCEPT ![c] =
                    [at |-> "paced", host |-> hosts[i], left |-> SubSeq(hosts, i + 1, Len(hosts)), turn |-> Turn, resolves |-> resolves]]
             /\ lastRequest' = Turn
             /\ UNCHANGED <<instances, stats, sent>>

\* A question nobody asks yet, and no kept tip answers.
GetExplorerTip(c) ==
    /\ ~IsFresh(stats[c], CacheTtl) /\ inflight[c] = None
    /\ IF ~IsFresh(instances[c], InstanceTtl) THEN AsksNext(c, Candidates[c], TRUE)
       ELSE IF instances[c].baseUrl = None THEN Land(c, None) /\ UNCHANGED instances
       ELSE AsksNext(c, <<instances[c].baseUrl>>, FALSE)
    /\ UNCHANGED <<now, parked>>

Leaves(c) ==
    /\ inflight[c] # None /\ inflight[c].at = "paced" /\ now >= inflight[c].turn
    /\ inflight' = [inflight EXCEPT ![c].at = "sent"]
    /\ sent' = Append(sent, now)
    /\ UNCHANGED <<now, instances, stats, parked, lastRequest>>

IsSent(c) == inflight[c] # None /\ inflight[c].at = "sent"

\* A listing with blocks; that it has some proves the instance.
Answers(c, tip) ==
    /\ IsSent(c)
    /\ instances' = IF inflight[c].resolves
                    THEN [instances EXCEPT ![c] = [baseUrl |-> inflight[c].host, at |-> now]] ELSE instances
    /\ Land(c, tip)
    /\ UNCHANGED <<now, parked>>

\* Nothing of use: the next candidate has its turn.
Fails(c) ==
    /\ IsSent(c)
    /\ AsksNext(c, inflight[c].left, inflight[c].resolves)
    /\ UNCHANGED <<now, parked>>

\* Too many requests: x-ratelimit-reset says for how long.
IsParked(c) ==
    /\ IsSent(c)
    /\ parked' = [parked EXCEPT ![inflight[c].host] = now + ParkFor]
    /\ LET hosts == SelectSeq(inflight[c].left, LAMBDA h : h # inflight[c].host)
       IN  AsksNext(c, hosts, inflight[c].resolves)
    /\ UNCHANGED now

\* Timers fire when they are due.
Tick ==
    /\ now < MaxTime
    /\ \A c \in Chain : inflight[c] # None /\ inflight[c].at = "paced" => now < inflight[c].turn
    /\ now' = now + 1
    /\ UNCHANGED <<instances, stats, inflight, parked, lastRequest, sent>>

Next ==
    \/ Tick
    \/ \E c \in Chain : GetExplorerTip(c) \/ Leaves(c) \/ Fails(c) \/ IsParked(c) \/ Answers(c, now)

Spec == Init /\ [][Next]_vars

-----------------------------------------------------------------------------
(* Properties                                                              *)

\* "The whole pod shares one egress IP, so requests are paced" (blockscout.js:25-27):
\* whatever chains are asked about at once, their requests leave apart.
RequestsArePaced == \A i, j \in DOMAIN sent : i < j => sent[j] - sent[i] >= Interval
=============================================================================
