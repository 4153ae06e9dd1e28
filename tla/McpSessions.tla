----------------------------- MODULE McpSessions -----------------------------
(***************************************************************************)
(* The MCP endpoint (mcp-server-http.js): what a request spends of the     *)
(* budgets of its address and of its licensee around the check of its      *)
(* bearer token, and the sessions it opens, uses and closes, beside the    *)
(* sweep that closes idle ones.  A request waits at the check (Grants), at *)
(* the sweep it may have to make room with, and at server.connect; others  *)
(* run meanwhile.                                                          *)
(*                                                                         *)
(* Abstracted: a session is unused for MCP_SESSION_IDLE_MS, and a window   *)
(* of RATE_LIMIT_WINDOW_MS ends, at any moment.  There is one address and  *)
(* one licensee behind it, as with a portal.                               *)
(***************************************************************************)
EXTENDS FiniteSets, Integers

CONSTANTS
    Session,     \* session ids
    Request,     \* requests that may be under way at once
    Timer,       \* the interval that sweeps
    MaxSessions, \* MCP_MAX_SESSIONS
    MaxSpent,    \* MCP_RATE_LIMIT_MAX
    MaxRequests  \* bound: requests in one window

SessionsAssumption ==
    IsFiniteSet(Request) /\ Timer \notin Request /\ {MaxSessions, MaxSpent, MaxRequests} \subseteq Nat

VARIABLES
    transports, \* the open sessions
    lastSeen,   \* the sessions with a time of last use
    idle,       \* those unused for MCP_SESSION_IDLE_MS
    used,       \* ids given out so far
    at,         \* what each request, and the timer's sweep, waits for
    due,        \* the sessions that were idle when its sweep began
    address,    \* the count of the address in its window
    licensee,   \* the count of the licensee in its window
    refused     \* history: requests of this window that were not authorised

sessions == <<transports, lastSeen, idle, used>>
budgets == <<address, licensee, refused>>
vars == <<sessions, at, due, budgets>>

TypeOK ==
    /\ transports \in SUBSET Session /\ lastSeen \in SUBSET Session
    /\ idle \in SUBSET lastSeen /\ used \in SUBSET Session
    /\ at \in [Request \cup {Timer} -> {"free", "check", "served", "sweep", "full", "connect"}]
    /\ due \in [Request \cup {Timer} -> SUBSET Session]
    /\ {address, licensee, refused} \subseteq Nat

Init ==
    /\ transports = {} /\ lastSeen = {} /\ idle = {} /\ used = {}
    /\ at = [p \in Request \cup {Timer} |-> "free"]
    /\ due = [p \in Request \cup {Timer} |-> {}]
    /\ address = 0 /\ licensee = 0 /\ refused = 0

-----------------------------------------------------------------------------
(* Budgets                                                                 *)

Goes(r, to) == at' = [at EXCEPT ![r] = to]

\* limitMcp: every request spends from its address first.
LimitMcp(r) ==
    /\ at[r] = "free" /\ address < MaxRequests
    /\ address' = address + 1
    /\ IF address + 1 <= MaxSpent THEN Goes(r, "check") /\ UNCHANGED refused
                                  ELSE refused' = refused + 1 /\ UNCHANGED at
    /\ UNCHANGED <<sessions, due, licensee>>

\* requireLicence ends in 401, 403 or 503.
NotAuthorised(r) ==
    /\ at[r] = "check" /\ Goes(r, "free")
    /\ refused' = refused + 1
    /\ UNCHANGED <<sessions, due, address, licensee>>

Refunded(n) == IF n > 0 THEN n - 1 ELSE n

\* requireLicence lets the request pass; limitLicensee.
Authorised(r) ==
    /\ at[r] = "check" /\ licensee < MaxRequests
    /\ address' = Refunded(address)
    /\ licensee' = licensee + 1
    /\ Goes(r, IF licensee + 1 <= MaxSpent THEN "served" ELSE "free")
    /\ UNCHANGED <<sessions, due, refused>>

\* The window of a budget ends: the next request, or a sweep, starts it anew.
NewWindow ==
    \/ address' = 0 /\ refused' = 0 /\ UNCHANGED licensee
    \/ licensee' = 0 /\ UNCHANGED <<address, refused>>

WindowEnds == NewWindow /\ budgets # <<0, 0, 0>> /\ UNCHANGED <<sessions, at, due>>

-----------------------------------------------------------------------------
(* Sessions                                                                *)

\* Mutant: a sweep closes all that was idle when it began.
StillDueAll(D, s) == D

\* A sweep reads the times of last use one by one, as its loop gets to them: a
\* session used meanwhile is newer than the clock the sweep has read.
StillDue(D, s) == D \ {s}

\* A POST with the id of an open session.
UseSession(r) ==
    /\ at[r] = "served"
    /\ \E s \in transports :
          /\ lastSeen' = lastSeen \cup {s} /\ idle' = idle \ {s}
          /\ due' = [p \in DOMAIN due |-> StillDue(due[p], s)]
    /\ Goes(r, "free")
    /\ UNCHANGED <<transports, used, budgets>>

\* A POST or DELETE without an open session, or one that fails.
Refuse(r) ==
    /\ at[r] \in {"served", "full", "connect"} /\ Goes(r, "free")
    /\ UNCHANGED <<sessions, due, budgets>>

\* DELETE, or the client closes the connection: transport.onclose.
CloseSession(r) ==
    /\ at[r] = "served"
    /\ \E s \in transports :
          /\ transports' = transports \ {s}
          /\ lastSeen' = lastSeen \ {s} /\ idle' = idle \ {s}
    /\ Goes(r, "free")
    /\ UNCHANGED <<used, due, budgets>>

Room == Cardinality(transports) < MaxSessions

\* A POST that initialises: without room it sweeps first.
Initialise(r) ==
    /\ at[r] = "served"
    /\ Goes(r, IF Room THEN "connect" ELSE "sweep")
    /\ due' = [due EXCEPT ![r] = IF Room THEN {} ELSE idle]
    /\ UNCHANGED <<sessions, budgets>>

\* Mutant: a session has no time of use before its first request.
InitialisedUnseen(r) ==
    /\ at[r] = "connect"
    /\ \E s \in Session \ used : transports' = transports \cup {s} /\ used' = used \cup {s}
    /\ Goes(r, "free")
    /\ UNCHANGED <<lastSeen, idle, due, budgets>>

\* onsessioninitialized, once server.connect has resolved.
Initialised(r) ==
    /\ at[r] = "connect"
    /\ \E s \in Session \ used :
          /\ transports' = transports \cup {s} /\ lastSeen' = lastSeen \cup {s}
          /\ used' = used \cup {s}
    /\ Goes(r, "free")
    /\ UNCHANGED <<idle, due, budgets>>

(* sweep()                                                                 *)

StartSweep ==
    /\ at[Timer] = "free"
    /\ Goes(Timer, "sweep") /\ due' = [due EXCEPT ![Timer] = idle]
    /\ UNCHANGED <<sessions, budgets>>

ToClose(p) == due[p] \cap lastSeen

\* One session goes, then the sweep waits for its transport to close.
CloseIdle(p) ==
    /\ at[p] = "sweep"
    /\ \E s \in ToClose(p) :
          /\ transports' = transports \ {s}
          /\ lastSeen' = lastSeen \ {s} /\ idle' = idle \ {s}
    /\ UNCHANGED <<used, at, due, budgets>>

\* Nothing is left to close.  A request looks again for room.
EndSweep(p) ==
    /\ at[p] = "sweep" /\ ToClose(p) = {}
    /\ due' = [due EXCEPT ![p] = {}]
    /\ Goes(p, IF p = Timer THEN "free" ELSE IF Room THEN "connect" ELSE "full")
    /\ UNCHANGED <<sessions, budgets>>

\* Nobody uses a session for a while.
FallsIdle(s) ==
    /\ s \in lastSeen \ idle
    /\ idle' = idle \cup {s}
    /\ UNCHANGED <<transports, lastSeen, used, at, due, budgets>>

Next ==
    \/ \E r \in Request :
          \/ LimitMcp(r) \/ NotAuthorised(r) \/ Authorised(r)
          \/ UseSession(r) \/ Refuse(r) \/ CloseSession(r) \/ Initialise(r) \/ Initialised(r)
    \/ WindowEnds
    \/ StartSweep
    \/ \E p \in Request \cup {Timer} : CloseIdle(p) \/ EndSweep(p)
    \/ \E s \in Session : FallsIdle(s)

\* The interval fires, and the transports it closes do close.
Fairness == WF_vars(StartSweep) /\ WF_vars(CloseIdle(Timer)) /\ WF_vars(EndSweep(Timer))

Spec == Init /\ [][Next]_vars /\ Fairness

-----------------------------------------------------------------------------
(* Properties                                                              *)

Checking == {r \in Request : at[r] = "check"}

\* "An authorised request gets that back": what an address has spent is at most
\* its unauthorised requests and those being checked, so licensees behind one
\* address do not exhaust its budget for each other (mcp-server-http.js:98-112).
LicenseeCostsAddressNothing == address <= refused + Cardinality(Checking)

\* A sweep closes no session that is in use, however long it waited since it
\* looked at the clock, and a request that was used is open (lines 115-129).
SweepSparesUsed ==
    [][\A s \in transports :
          s \notin transports' => s \in idle \/ \E r \in Request : CloseSession(r)]_vars

\* "Sessions used to live until the client closed them": an open session has a
\* time of last use, and an idle one is used or closed in the end (lines 81-83).
IdleSessionsEnd ==
    \A s \in Session :
        (s \in transports /\ (s \in idle \/ s \notin lastSeen))
            ~> (s \notin transports \/ s \in lastSeen \ idle)

=============================================================================
