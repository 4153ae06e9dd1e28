------------------------------- MODULE Grants -------------------------------
(***************************************************************************)
(* Licence keys and OAuth grants (src/src/auth): connectors register, a    *)
(* licensee approves one with a key, the connector exchanges the code for  *)
(* tokens and rotates them, and a bearer token is checked on every MCP     *)
(* request.  Each handler is a sequence of statements on a shared store;   *)
(* other requests, on this pod or another, run between any two of them,    *)
(* and any statement may fail and end its request there.                   *)
(*                                                                         *)
(* Abstracted: a secret is the grant it belongs to, and which secret a     *)
(* request presents shows when it is looked up: some row, or none.  The    *)
(* checks on a request's own parameters (redirect URI, scope, PKCE, client *)
(* secret) pass, or end the request.                                       *)
(***************************************************************************)
EXTENDS FiniteSets, Naturals

CONSTANTS
    Key,        \* licence keys
    Client,     \* connector registrations
    Grant,      \* grants; a code is named after the grant it opens
    Request,    \* requests that may be under way at once
    MaxClients, \* MAX_CLIENTS
    None

ASSUME LimitAssumption == MaxClients \in Nat
ASSUME NoneAssumption == None \notin Key \cup Client \cup Grant \cup (Client \X Key)

VARIABLES
    licence, \* licence_keys: "unissued", "active" or "revoked"
    clients, \* oauth_clients
    aged,    \* those registered over UNUSED_CLIENT_TTL ago
    codes,   \* oauth_codes
    tokens,  \* oauth_tokens
    owner,   \* history: the client and key of every code there ever was
    req      \* the requests under way

vars == <<licence, clients, aged, codes, tokens, owner, req>>
store == <<licence, clients, aged, codes, tokens, owner>>

Stage == {"idle", "count", "create", "key", "code", "take", "row", "delete", "approver",
          "expire", "access", "refresh token", "find", "end grant", "holder", "admitted"}

\* A request: what it does next, whom it acts for, and, as history, the keys
\* that had been revoked when it arrived.
Requests == [at : Stage, client : Client \cup {None}, grant : Grant \cup {None},
             key : Key \cup {None}, revoked : SUBSET Key]

Codes == [grant : Grant, client : Client, key : Key, fresh : BOOLEAN]
Tokens == [kind : {"access", "refresh"}, grant : Grant, client : Client, key : Key, fresh : BOOLEAN]

TypeOK ==
    /\ licence \in [Key -> {"unissued", "active", "revoked"}]
    /\ clients \in SUBSET Client /\ aged \in SUBSET clients
    /\ codes \in SUBSET Codes /\ tokens \in SUBSET Tokens
    /\ owner \in [Grant -> (Client \X Key) \cup {None}]
    /\ req \in [Request -> Requests]

Idle == [at |-> "idle", client |-> None, grant |-> None, key |-> None, revoked |-> {}]

Init ==
    /\ licence = [k \in Key |-> "unissued"]
    /\ clients = {} /\ aged = {}
    /\ codes = {} /\ tokens = {}
    /\ owner = [g \in Grant |-> None]
    /\ req = [r \in Request |-> Idle]

-----------------------------------------------------------------------------
(* Licence keys: the command line                                          *)

SetLicence(k, from, to) ==
    /\ licence[k] = from
    /\ licence' = [licence EXCEPT ![k] = to]
    /\ UNCHANGED <<clients, aged, codes, tokens, owner, req>>

CreateLicenceKey(k) == SetLicence(k, "unissued", "active")

RevokeLicenceKey(k) == SetLicence(k, "active", "revoked")

\* activeKey, activeKeyByHash.
Active(k) == licence[k] = "active"

-----------------------------------------------------------------------------
(* Requests                                                                *)

\* What a request comes to: a step onwards, or its end.
Goes(r, to) == req' = [req EXCEPT ![r] = to]
On(r, at) == Goes(r, [req[r] EXCEPT !.at = at])

\* A request shows from its first statement on; one that fails there, or whose
\* parameters are refused before, leaves nothing behind.
Free(r) == req[r] = Idle
Arriving == [Idle EXCEPT !.revoked = {k \in Key : licence[k] = "revoked"}]

\* It has been answered, a check refuses it, or a statement fails
\* (StoreUnavailableError, or the driver's): what was done stays done.
End(r) == ~Free(r) /\ Goes(r, Idle) /\ UNCHANGED store

\* A connector is known by its registration.
KnownClient(r, next) ==
    /\ Free(r)
    /\ \E c \in clients, at \in next : Goes(r, [Arriving EXCEPT !.at = at, !.client = c])
    /\ UNCHANGED store

\* authorization(): it asks for a licensee's approval.
Authorization(r) == KnownClient(r, {"key"})

\* client(): it authenticates to exchange a code, to refresh or to revoke.
Authenticate(r) == KnownClient(r, {"take", "row", "find"})

(* POST /oauth/register                                                    *)

PurgeUnusedClients(r) ==
    LET used == clients \ (aged \ {t.client : t \in tokens})
    IN  /\ Free(r)
        /\ clients' = used /\ aged' = aged \cap used
        /\ Goes(r, [Arriving EXCEPT !.at = "count"])
        /\ UNCHANGED <<licence, codes, tokens, owner>>

CountClients(r) ==
    /\ req[r].at = "count" /\ Cardinality(clients) < MaxClients
    /\ On(r, "create")
    /\ UNCHANGED store

CreateClient(r) ==
    /\ req[r].at = "create"
    /\ \E c \in Client \ clients : clients' = clients \cup {c}
    /\ Goes(r, Idle)
    /\ UNCHANGED <<licence, aged, codes, tokens, owner>>

(* POST /oauth/authorize with a key, and a bearer that is itself a key     *)

\* licenseeForKey: the key on the consent form, or the bearer.
LicenseeForKey(r) ==
    /\ \E k \in Key :
          /\ Active(k)
          /\ \/ req[r].at = "key" /\ Goes(r, [req[r] EXCEPT !.at = "code", !.key = k])
             \/ Free(r) /\ Goes(r, [Arriving EXCEPT !.at = "admitted", !.key = k])
    /\ UNCHANGED store

PutCode(r) ==
    /\ req[r].at = "code"
    /\ \E g \in Grant :
          /\ owner[g] = None
          /\ codes' = codes \cup {[grant |-> g, client |-> req[r].client, key |-> req[r].key, fresh |-> TRUE]}
          /\ owner' = [owner EXCEPT ![g] = <<req[r].client, req[r].key>>]
    /\ Goes(r, Idle)
    /\ UNCHANGED <<licence, clients, aged, tokens>>

(* POST /oauth/token                                                       *)

\* Mutant: the code is read, and deleted by nobody.
CodesLeftAll(c) == codes

\* takeCode reads and deletes in one transaction.
CodesLeft(c) == codes \ {c}

\* Mutant: a code is good in anybody's hands.
FreshCode(c, client) == c.fresh

Spendable(c, client) == c.fresh /\ c.client = client

\* A code spent by a request it was not issued to, or too late, is gone too.
TakeCode(r) ==
    /\ req[r].at = "take"
    /\ \E c \in codes :
          /\ codes' = CodesLeft(c)
          /\ Goes(r, IF Spendable(c, req[r].client)
                     THEN [req[r] EXCEPT !.at = "approver", !.grant = c.grant, !.key = c.key]
                     ELSE Idle)
    /\ UNCHANGED <<licence, clients, aged, tokens, owner>>

ReadRefreshToken(r) ==
    /\ req[r].at = "row"
    /\ \E t \in tokens :
          /\ t.kind = "refresh" /\ t.fresh /\ t.client = req[r].client
          /\ Goes(r, [req[r] EXCEPT !.at = "delete", !.grant = t.grant, !.key = t.key])
    /\ UNCHANGED store

DeleteGrant(r) ==
    /\ req[r].at \in {"delete", "end grant"}
    /\ tokens' = {t \in tokens : t.grant # req[r].grant}
    /\ IF req[r].at = "delete" THEN On(r, "approver") ELSE Goes(r, Idle)
    /\ UNCHANGED <<licence, clients, aged, codes, owner>>

\* Mutant: a refresh trusts the key of the row.
ApprovedUnlessNew(k) == licence[k] # "unissued"

Approved(k) == Active(k)

\* The key behind a code, a refresh token or an access token is still active.
CheckApprover(r) ==
    /\ req[r].at \in {"approver", "holder"} /\ Approved(req[r].key)
    /\ On(r, IF req[r].at = "approver" THEN "expire" ELSE "admitted")
    /\ UNCHANGED store

(* issue(): expired rows go, then the two tokens are inserted              *)

\* Two statements: the second may fail after the first.
DeleteExpired(r) ==
    /\ req[r].at = "expire"
    /\ tokens' = {t \in tokens : t.fresh}
    /\ \/ codes' = {c \in codes : c.fresh} /\ On(r, "access")
       \/ UNCHANGED codes /\ Goes(r, Idle)
    /\ UNCHANGED <<licence, clients, aged, owner>>

Token(r, kind) ==
    [kind |-> kind, grant |-> req[r].grant, client |-> req[r].client, key |-> req[r].key, fresh |-> TRUE]

PutTokens(r) ==
    /\ \/ req[r].at = "access" /\ tokens' = tokens \cup {Token(r, "access")} /\ On(r, "refresh token")
       \/ req[r].at = "refresh token" /\ tokens' = tokens \cup {Token(r, "refresh")} /\ Goes(r, Idle)
    /\ UNCHANGED <<licence, clients, aged, codes, owner>>

(* POST /oauth/revoke, and mcpBearer with an access token                  *)

FindToken(r) ==
    /\ req[r].at = "find"
    /\ \E t \in tokens :
          /\ t.client = req[r].client
          /\ Goes(r, [req[r] EXCEPT !.at = "end grant", !.grant = t.grant])
    /\ UNCHANGED store

ReadAccessToken(r) ==
    /\ Free(r)
    /\ \E t \in tokens :
          /\ t.kind = "access" /\ t.fresh
          /\ Goes(r, [Arriving EXCEPT !.at = "holder", !.grant = t.grant, !.key = t.key])
    /\ UNCHANGED store

-----------------------------------------------------------------------------

\* Time passes: for a registration, a code or a token.
Age ==
    \/ \E c \in clients \ aged :
          aged' = aged \cup {c} /\ UNCHANGED <<licence, clients, codes, tokens, owner, req>>
    \/ \E c \in codes :
          /\ c.fresh /\ codes' = (codes \ {c}) \cup {[c EXCEPT !.fresh = FALSE]}
          /\ UNCHANGED <<licence, clients, aged, tokens, owner, req>>
    \/ \E t \in tokens :
          /\ t.fresh /\ tokens' = (tokens \ {t}) \cup {[t EXCEPT !.fresh = FALSE]}
          /\ UNCHANGED <<licence, clients, aged, codes, owner, req>>

Next ==
    \/ \E k \in Key : CreateLicenceKey(k) \/ RevokeLicenceKey(k)
    \/ \E r \in Request :
          \/ End(r) \/ Authorization(r) \/ Authenticate(r)
          \/ PurgeUnusedClients(r) \/ CountClients(r) \/ CreateClient(r)
          \/ LicenseeForKey(r) \/ PutCode(r)
          \/ TakeCode(r) \/ ReadRefreshToken(r) \/ DeleteGrant(r) \/ CheckApprover(r)
          \/ DeleteExpired(r) \/ PutTokens(r)
          \/ FindToken(r) \/ ReadAccessToken(r)
    \/ Age

Spec == Init /\ [][Next]_vars

-----------------------------------------------------------------------------
(* Properties                                                              *)

\* "Revoking a key disconnects that licensee's connectors": a request that
\* arrives after the revocation gets no code, no token and no answer with that
\* key, whatever was stored before and however other requests interleave
\* (oauth.js:60-72, 262, 269).
RevokedKeyGetsNothing ==
    \A r \in Request :
        req[r].at \in {"code", "expire", "access", "refresh token", "admitted"}
            => req[r].key \notin req[r].revoked

\* ... "and no one else's": every token was issued to the connector, and under
\* the key, that its grant was approved for, and so is every one to come
\* (licenceKeys.js:7-8).
TokensKeepTheirOwner ==
    \A x \in tokens \cup codes
             \cup {req[r] : r \in {r \in Request : req[r].grant # None /\ req[r].client # None
                                                    /\ req[r].at # "end grant"}} :
        owner[x.grant] = <<x.client, x.key>>

-----------------------------------------------------------------------------
(* Refinement: the life of a grant                                         *)

\* Somebody is about to issue tokens of the grant.
Pending(g) ==
    \E r \in Request :
        /\ req[r].grant = g
        /\ req[r].at \in {"delete", "approver", "expire", "access", "refresh token"}

StageOf(g) ==
    IF owner[g] = None THEN "none"
    ELSE IF Pending(g) \/ \E t \in tokens : t.grant = g THEN "live"
    ELSE IF \E c \in codes : c.grant = g THEN "offered"
    ELSE "over"

Life == INSTANCE GrantLife WITH Unowned <- None, stage <- [g \in Grant |-> StageOf(g)]

\* A grant is taken up at most once, keeps its owner, and stays over once it is
\* over: no step of any two requests brings it back (oauth.js:257-271).
GrantsAreLived == Life!Spec
=============================================================================
