---------------------------- MODULE ClientsProofs ----------------------------
(***************************************************************************)
(* Parts that run for a client of the service, for all their constants:    *)
(* Grants for any number of keys, connectors, grants and requests, then    *)
(* parts of the dashboard that MCClients runs side by side.  Of each part, *)
(* the invariant that its steps keep comes first, then the steps, then     *)
(* what MCClients checks of it.                                            *)
(***************************************************************************)
EXTENDS MCClients, FiniteSetTheorems, WellFoundedInduction, TLAPS

-----------------------------------------------------------------------------
(* Licence keys and grants.  Fits says what a request holds at each stage, *)
(* and that a key it knew to be revoked still is; OwnerInv, that codes,    *)
(* tokens and the requests about to issue tokens go by the approval of     *)
(* their grant, and that while its one code is there nothing else is done  *)
(* in a grant's name.                                                      *)

\* The stages at which a request is about to issue tokens of its grant.
Issuing == {"delete", "approver", "expire", "access", "refresh token"}

Fits(q) ==
    /\ q \in Requests
    /\ \A k \in q.revoked : licence[k] = "revoked"
    /\ q.at \in {"key", "code", "take", "row", "find"} => q.client \in Client /\ q.grant = None
    /\ q.at \in {"code", "holder"} => q.key \in Key
    /\ q.at \in Issuing => q.grant \in Grant /\ q.client \in Client /\ q.key \in Key
    /\ q.at \in {"holder", "admitted", "idle", "count", "create"} => q.client = None
    /\ q.at \in {"code", "expire", "access", "refresh token", "admitted"} => q.key \notin q.revoked

RequestInv == \A r \in Request : Fits(req[r])

StoreOK ==
    /\ licence \in [Key -> {"unissued", "active", "revoked"}]
    /\ clients \in SUBSET Client /\ aged \in SUBSET clients
    /\ codes \in SUBSET Codes /\ tokens \in SUBSET Tokens
    /\ owner \in [Grant -> (Client \X Key) \cup {None}]

\* A step of one request leaves the others as they fit.
LEMMA OneMoves ==
    ASSUME TypeOK, RequestInv, NEW r \in Request, NEW to, Goes(r, to), Fits(to), UNCHANGED licence
    PROVE  req' \in [Request -> Requests] /\ RequestInv'
<1>1. \A q \in Request : req'[q] = IF q = r THEN to ELSE req[q]
    BY DEF Goes, TypeOK
<1>2. \A q \in Request : Fits(req'[q])
    BY <1>1 DEF RequestInv
<1>3. \A q \in Request : Fits(req[q])'
    BY <1>2 DEF Fits
<1>4. to \in Requests
    BY DEF Fits
<1> QED BY <1>3, <1>4 DEF RequestInv, Goes, TypeOK

\* Requests that end or have just arrived fit.
LEMMA IdleFits == Fits(Idle)
BY NoneAssumption DEF Fits, Idle, Requests, Stage, Issuing

\* No statement of any request gives a request what its stage may not hold.
LEMMA RequestInvStep == TypeOK /\ RequestInv /\ [Next]_vars => (TypeOK /\ RequestInv)'
<1> SUFFICES ASSUME TypeOK, RequestInv, [Next]_vars PROVE (TypeOK /\ RequestInv)'
    OBVIOUS
<1>0. StoreOK
    BY DEF TypeOK, StoreOK
<1>a. StoreOK' /\ req' \in [Request -> Requests] => TypeOK'
    BY DEF TypeOK, StoreOK
<1>b. \A r \in Request : Fits(req[r])
    BY DEF RequestInv
<1>1. ASSUME NEW k \in Key, CreateLicenceKey(k) \/ RevokeLicenceKey(k) PROVE (TypeOK /\ RequestInv)'
    <2>1. licence[k] # "revoked" /\ StoreOK'
        BY <1>0, <1>1 DEF CreateLicenceKey, RevokeLicenceKey, SetLicence, StoreOK
    <2>2. \A x \in Key : licence[x] = "revoked" => licence'[x] = "revoked"
        BY <1>1, <2>1 DEF CreateLicenceKey, RevokeLicenceKey, SetLicence, TypeOK
    <2>3. UNCHANGED req
        BY <1>1 DEF CreateLicenceKey, RevokeLicenceKey, SetLicence
    <2>4. \A r \in Request : Fits(req[r])'
        BY <1>b, <2>2, <2>3 DEF Fits, Requests
    <2> QED BY <1>a, <2>1, <2>3, <2>4 DEF RequestInv, TypeOK
<1>2. ASSUME NEW r \in Request, End(r) PROVE (TypeOK /\ RequestInv)'
    <2>1. Goes(r, Idle) /\ UNCHANGED licence /\ StoreOK'
        BY <1>0, <1>2 DEF End, store, StoreOK
    <2> QED BY <1>a, <2>1, IdleFits, OneMoves
<1>3. ASSUME NEW r \in Request, Authorization(r) \/ Authenticate(r) PROVE (TypeOK /\ RequestInv)'
    <2>1. PICK c \in clients, at \in {"key", "take", "row", "find"} :
              Goes(r, [Arriving EXCEPT !.at = at, !.client = c])
        BY <1>3 DEF Authorization, Authenticate, KnownClient
    <2>2. UNCHANGED licence /\ StoreOK'
        BY <1>0, <1>3 DEF Authorization, Authenticate, KnownClient, store, StoreOK
    <2>3. Fits([Arriving EXCEPT !.at = at, !.client = c])
        BY NoneAssumption DEF Fits, Arriving, Idle, Requests, Stage, Issuing, TypeOK
    <2> QED BY <1>a, <2>1, <2>2, <2>3, OneMoves
<1>4. ASSUME NEW r \in Request, PurgeUnusedClients(r) PROVE (TypeOK /\ RequestInv)'
    <2>1. Goes(r, [Arriving EXCEPT !.at = "count"]) /\ UNCHANGED licence /\ StoreOK'
        BY <1>0, <1>4 DEF PurgeUnusedClients, StoreOK
    <2>2. Fits([Arriving EXCEPT !.at = "count"])
        BY DEF Fits, Arriving, Idle, Requests, Stage, Issuing, TypeOK
    <2> QED BY <1>a, <2>1, <2>2, OneMoves
<1>5. ASSUME NEW r \in Request, CountClients(r) PROVE (TypeOK /\ RequestInv)'
    <2>1. Goes(r, [req[r] EXCEPT !.at = "create"]) /\ UNCHANGED licence /\ StoreOK' /\ req[r].at = "count"
        BY <1>0, <1>5 DEF CountClients, On, store, StoreOK
    <2>2. Fits([req[r] EXCEPT !.at = "create"])
        BY <1>b, <2>1 DEF Fits, Requests, Stage, Issuing
    <2> QED BY <1>a, <2>1, <2>2, OneMoves
<1>6. ASSUME NEW r \in Request, CreateClient(r) PROVE (TypeOK /\ RequestInv)'
    <2>1. Goes(r, Idle) /\ UNCHANGED licence /\ StoreOK'
        BY <1>0, <1>6 DEF CreateClient, StoreOK
    <2> QED BY <1>a, <2>1, IdleFits, OneMoves
<1>7. ASSUME NEW r \in Request, LicenseeForKey(r) PROVE (TypeOK /\ RequestInv)'
    <2>1. UNCHANGED licence /\ StoreOK'
        BY <1>0, <1>7 DEF LicenseeForKey, store, StoreOK
    <2>2. PICK k \in Key :
              /\ licence[k] = "active"
              /\ \/ req[r].at = "key" /\ Goes(r, [req[r] EXCEPT !.at = "code", !.key = k])
                 \/ Goes(r, [Arriving EXCEPT !.at = "admitted", !.key = k])
        BY <1>7 DEF LicenseeForKey, Active
    <2>3. req[r].at = "key" => Fits([req[r] EXCEPT !.at = "code", !.key = k])
        BY <1>b, <2>2 DEF Fits, Requests, Stage, Issuing
    <2>4. Fits([Arriving EXCEPT !.at = "admitted", !.key = k])
        BY <2>2 DEF Fits, Arriving, Idle, Requests, Stage, Issuing
    <2> QED BY <1>a, <2>1, <2>2, <2>3, <2>4, OneMoves
<1>8. ASSUME NEW r \in Request, PutCode(r) PROVE (TypeOK /\ RequestInv)'
    <2>1. Goes(r, Idle) /\ UNCHANGED <<licence, clients, aged, tokens>> /\ req[r].at = "code"
        BY <1>8 DEF PutCode
    <2>2. req[r].client \in Client /\ req[r].key \in Key
        BY <1>b, <2>1 DEF Fits
    <2>3. PICK g \in Grant :
              /\ codes' = codes \cup {[grant |-> g, client |-> req[r].client, key |-> req[r].key,
                                      fresh |-> TRUE]}
              /\ owner' = [owner EXCEPT ![g] = <<req[r].client, req[r].key>>]
        BY <1>8 DEF PutCode
    <2>4. codes' \in SUBSET Codes
        <3>1. [grant |-> g, client |-> req[r].client, key |-> req[r].key, fresh |-> TRUE] \in Codes
            BY <2>2 DEF Codes
        <3> QED BY <1>0, <2>3, <3>1 DEF StoreOK
    <2>5. owner' \in [Grant -> (Client \X Key) \cup {None}]
        BY <1>0, <2>2, <2>3 DEF StoreOK
    <2> QED BY <1>0, <1>a, <2>1, <2>4, <2>5, IdleFits, OneMoves DEF StoreOK
<1>9. ASSUME NEW r \in Request, TakeCode(r) PROVE (TypeOK /\ RequestInv)'
    <2>1. UNCHANGED licence /\ StoreOK' /\ req[r].at = "take"
        BY <1>0, <1>9 DEF TakeCode, CodesLeft, StoreOK
    <2>2. PICK c \in codes : Goes(r, IF Spendable(c, req[r].client)
                                     THEN [req[r] EXCEPT !.at = "approver", !.grant = c.grant, !.key = c.key]
                                     ELSE Idle)
        BY <1>9 DEF TakeCode
    <2>3. c.grant \in Grant /\ c.key \in Key
        BY DEF TypeOK, Codes
    <2>4. Fits([req[r] EXCEPT !.at = "approver", !.grant = c.grant, !.key = c.key])
        BY <1>b, <2>1, <2>3 DEF Fits, Requests, Stage, Issuing
    <2> QED BY <1>a, <2>1, <2>2, <2>4, IdleFits, OneMoves
<1>10. ASSUME NEW r \in Request, ReadRefreshToken(r) PROVE (TypeOK /\ RequestInv)'
    <2>1. UNCHANGED licence /\ StoreOK' /\ req[r].at = "row"
        BY <1>0, <1>10 DEF ReadRefreshToken, store, StoreOK
    <2>2. PICK t \in tokens :
              Goes(r, [req[r] EXCEPT !.at = "delete", !.grant = t.grant, !.key = t.key])
        BY <1>10 DEF ReadRefreshToken
    <2>3. t.grant \in Grant /\ t.key \in Key
        BY DEF TypeOK, Tokens
    <2>4. Fits([req[r] EXCEPT !.at = "delete", !.grant = t.grant, !.key = t.key])
        BY <1>b, <2>1, <2>3 DEF Fits, Requests, Stage, Issuing
    <2> QED BY <1>a, <2>1, <2>2, <2>4, OneMoves
<1>11. ASSUME NEW r \in Request, DeleteGrant(r) PROVE (TypeOK /\ RequestInv)'
    <2>1. UNCHANGED licence /\ StoreOK'
        BY <1>0, <1>11 DEF DeleteGrant, StoreOK
    <2>2. \/ req[r].at = "delete" /\ Goes(r, [req[r] EXCEPT !.at = "approver"])
          \/ Goes(r, Idle)
        BY <1>11 DEF DeleteGrant, On
    <2>3. req[r].at = "delete" => Fits([req[r] EXCEPT !.at = "approver"])
        BY <1>b DEF Fits, Requests, Stage, Issuing
    <2> QED BY <1>a, <2>1, <2>2, <2>3, IdleFits, OneMoves
<1>12. ASSUME NEW r \in Request, CheckApprover(r) PROVE (TypeOK /\ RequestInv)'
    <2>1. UNCHANGED licence /\ StoreOK'
        BY <1>0, <1>12 DEF CheckApprover, store, StoreOK
    <2>2. /\ licence[req[r].key] = "active"
          /\ \/ req[r].at = "approver" /\ Goes(r, [req[r] EXCEPT !.at = "expire"])
             \/ req[r].at = "holder" /\ Goes(r, [req[r] EXCEPT !.at = "admitted"])
        BY <1>12 DEF CheckApprover, Approved, Active, On
    <2>3. req[r].at = "approver" => Fits([req[r] EXCEPT !.at = "expire"])
        BY <1>b, <2>2 DEF Fits, Requests, Stage, Issuing
    <2>4. req[r].at = "holder" => Fits([req[r] EXCEPT !.at = "admitted"])
        BY <1>b, <2>2 DEF Fits, Requests, Stage, Issuing
    <2> QED BY <1>a, <2>1, <2>2, <2>3, <2>4, OneMoves
<1>13. ASSUME NEW r \in Request, DeleteExpired(r) PROVE (TypeOK /\ RequestInv)'
    <2>1. UNCHANGED licence /\ StoreOK' /\ req[r].at = "expire"
        BY <1>0, <1>13 DEF DeleteExpired, StoreOK
    <2>2. Goes(r, [req[r] EXCEPT !.at = "access"]) \/ Goes(r, Idle)
        BY <1>13 DEF DeleteExpired, On
    <2>3. Fits([req[r] EXCEPT !.at = "access"])
        BY <1>b, <2>1 DEF Fits, Requests, Stage, Issuing
    <2> QED BY <1>a, <2>1, <2>2, <2>3, IdleFits, OneMoves
<1>14. ASSUME NEW r \in Request, PutTokens(r) PROVE (TypeOK /\ RequestInv)'
    <2>1. req[r].at \in {"access", "refresh token"} /\ UNCHANGED <<licence, clients, aged, codes, owner>>
        BY <1>14 DEF PutTokens
    <2>2. Token(r, "access") \in Tokens /\ Token(r, "refresh") \in Tokens
        BY <1>b, <2>1 DEF Fits, Token, Tokens, Issuing
    <2>3. StoreOK'
        BY <1>0, <1>14, <2>1, <2>2 DEF PutTokens, StoreOK
    <2>4. \/ req[r].at = "access" /\ Goes(r, [req[r] EXCEPT !.at = "refresh token"])
          \/ Goes(r, Idle)
        BY <1>14 DEF PutTokens, On
    <2>5. req[r].at = "access" => Fits([req[r] EXCEPT !.at = "refresh token"])
        BY <1>b DEF Fits, Requests, Stage, Issuing
    <2> QED BY <1>a, <2>1, <2>3, <2>4, <2>5, IdleFits, OneMoves
<1>15. ASSUME NEW r \in Request, FindToken(r) PROVE (TypeOK /\ RequestInv)'
    <2>1. UNCHANGED licence /\ StoreOK' /\ req[r].at = "find"
        BY <1>0, <1>15 DEF FindToken, store, StoreOK
    <2>2. PICK t \in tokens : Goes(r, [req[r] EXCEPT !.at = "end grant", !.grant = t.grant])
        BY <1>15 DEF FindToken
    <2>3. Fits([req[r] EXCEPT !.at = "end grant", !.grant = t.grant])
        BY <1>b, <2>1 DEF Fits, Requests, Stage, Issuing, TypeOK, Tokens
    <2> QED BY <1>a, <2>1, <2>2, <2>3, OneMoves
<1>16. ASSUME NEW r \in Request, ReadAccessToken(r) PROVE (TypeOK /\ RequestInv)'
    <2>1. UNCHANGED licence /\ StoreOK'
        BY <1>0, <1>16 DEF ReadAccessToken, store, StoreOK
    <2>2. PICK t \in tokens :
              Goes(r, [Arriving EXCEPT !.at = "holder", !.grant = t.grant, !.key = t.key])
        BY <1>16 DEF ReadAccessToken
    <2>3. Fits([Arriving EXCEPT !.at = "holder", !.grant = t.grant, !.key = t.key])
        BY DEF Fits, Arriving, Idle, Requests, Stage, Issuing, TypeOK, Tokens
    <2> QED BY <1>a, <2>1, <2>2, <2>3, OneMoves
<1>17. CASE Age
    <2>1. UNCHANGED <<licence, req>>
        BY <1>17 DEF Age
    <2>2. StoreOK'
        BY <1>0, <1>17 DEF Age, StoreOK, Codes, Tokens
    <2>3. \A r \in Request : Fits(req[r])'
        BY <1>b, <2>1 DEF Fits
    <2> QED BY <1>a, <2>1, <2>2, <2>3 DEF RequestInv, TypeOK
<1>18. CASE UNCHANGED vars
    <2>1. \A r \in Request : Fits(req[r])'
        BY <1>b, <1>18 DEF Fits, vars
    <2> QED BY <1>18, <2>1 DEF vars, TypeOK, RequestInv
<1> QED BY <1>1, <1>2, <1>3, <1>4, <1>5, <1>6, <1>7, <1>8, <1>9, <1>10, <1>11, <1>12, <1>13, <1>14,
           <1>15, <1>16, <1>17, <1>18 DEF Next

-----------------------------------------------------------------------------

\* Approval h of grant g is in a code, or in a token or a request about to
\* issue one.
CodeOf(g, h) == \E c \in codes : c.grant = g /\ <<c.client, c.key>> = h

Holds(g, h) ==
    \/ \E t \in tokens : t.grant = g /\ <<t.client, t.key>> = h
    \/ \E r \in Request :
          req[r].at \in Issuing /\ req[r].grant = g /\ <<req[r].client, req[r].key>> = h

OneCode == \A c, d \in codes : c.grant = d.grant => c = d

OwnerInv ==
    /\ OneCode
    /\ \A g \in Grant, h \in Client \X Key : CodeOf(g, h) \/ Holds(g, h) => owner[g] = h
    /\ \A g \in Grant, h, i \in Client \X Key : ~(CodeOf(g, h) /\ Holds(g, i))

\* What any step but PutCode does: approvals are passed on, never made, and one
\* that leaves a code leaves the only one.
PassedOn ==
    /\ UNCHANGED owner /\ OneCode'
    /\ \A g \in Grant, h \in Client \X Key :
          /\ CodeOf(g, h)' => CodeOf(g, h)
          /\ Holds(g, h)' => \/ Holds(g, h)
                             \/ CodeOf(g, h) /\ \A i \in Client \X Key : ~CodeOf(g, i)'

\* A request that moves without taking anything up, while rows only go.
LEMMA Quiet ==
    ASSUME TypeOK, OneCode, NEW r \in Request, NEW to, Goes(r, to),
           tokens' \subseteq tokens, codes' \subseteq codes, UNCHANGED owner,
           to.at \in Issuing => /\ req[r].at \in Issuing /\ to.grant = req[r].grant
                                /\ to.client = req[r].client /\ to.key = req[r].key
    PROVE  PassedOn
<1>1. \A q \in Request : req'[q] = IF q = r THEN to ELSE req[q]
    BY DEF Goes, TypeOK
<1>2. OneCode'
    BY DEF OneCode
<1>3. ASSUME NEW g \in Grant, NEW h \in Client \X Key, CodeOf(g, h)' PROVE CodeOf(g, h)
    BY <1>3 DEF CodeOf
<1>4. ASSUME NEW g \in Grant, NEW h \in Client \X Key, Holds(g, h)' PROVE Holds(g, h)
    BY <1>1, <1>4 DEF Holds
<1> QED BY <1>2, <1>3, <1>4 DEF PassedOn

\* Every step but PutCode only passes approvals on.
LEMMA EveryOtherStepPassesOn ==
    ASSUME TypeOK, RequestInv, OwnerInv, [Next]_vars, \A r \in Request : ~PutCode(r)
    PROVE  PassedOn
<1>0. OneCode
    BY DEF OwnerInv
<1>1. ASSUME NEW k \in Key, CreateLicenceKey(k) \/ RevokeLicenceKey(k) PROVE PassedOn
    <2>1. UNCHANGED <<codes, tokens, owner, req>>
        BY <1>1 DEF CreateLicenceKey, RevokeLicenceKey, SetLicence
    <2> QED BY <1>0, <2>1 DEF PassedOn, OneCode, CodeOf, Holds
<1>2. ASSUME NEW r \in Request, End(r) PROVE PassedOn
    BY <1>0, <1>2, Quiet DEF End, store, Idle, Issuing
<1>3. ASSUME NEW r \in Request, Authorization(r) \/ Authenticate(r) PROVE PassedOn
    <2>1. PICK c \in clients, at \in {"key", "take", "row", "find"} :
              Goes(r, [Arriving EXCEPT !.at = at, !.client = c])
        BY <1>3 DEF Authorization, Authenticate, KnownClient
    <2>2. UNCHANGED <<codes, tokens, owner>>
        BY <1>3 DEF Authorization, Authenticate, KnownClient, store
    <2>3. [Arriving EXCEPT !.at = at, !.client = c].at \notin Issuing
        BY DEF Arriving, Idle, Issuing
    <2> QED BY <1>0, <2>1, <2>2, <2>3, Quiet
<1>4. ASSUME NEW r \in Request, PurgeUnusedClients(r) PROVE PassedOn
    <2>1. [Arriving EXCEPT !.at = "count"].at \notin Issuing
        BY DEF Arriving, Idle, Issuing
    <2> QED BY <1>0, <1>4, <2>1, Quiet DEF PurgeUnusedClients
<1>5. ASSUME NEW r \in Request, CountClients(r) PROVE PassedOn
    <2>1. [req[r] EXCEPT !.at = "create"].at \notin Issuing
        BY DEF TypeOK, Requests, Issuing
    <2> QED BY <1>0, <1>5, <2>1, Quiet DEF CountClients, On, store
<1>6. ASSUME NEW r \in Request, CreateClient(r) PROVE PassedOn
    BY <1>0, <1>6, Quiet DEF CreateClient, Idle, Issuing
<1>7. ASSUME NEW r \in Request, LicenseeForKey(r) PROVE PassedOn
    <2>1. PICK k \in Key : \/ Goes(r, [req[r] EXCEPT !.at = "code", !.key = k])
                           \/ Goes(r, [Arriving EXCEPT !.at = "admitted", !.key = k])
        BY <1>7 DEF LicenseeForKey
    <2>2. /\ [req[r] EXCEPT !.at = "code", !.key = k].at \notin Issuing
          /\ [Arriving EXCEPT !.at = "admitted", !.key = k].at \notin Issuing
        BY DEF Arriving, Idle, TypeOK, Requests, Issuing
    <2> QED BY <1>0, <1>7, <2>1, <2>2, Quiet DEF LicenseeForKey, store
<1>8. ASSUME NEW r \in Request, TakeCode(r) PROVE PassedOn
    <2>1. req[r].at = "take" /\ UNCHANGED <<tokens, owner>>
        BY <1>8 DEF TakeCode
    <2>2. PICK c \in codes :
              /\ codes' = codes \ {c}
              /\ Goes(r, IF Spendable(c, req[r].client)
                         THEN [req[r] EXCEPT !.at = "approver", !.grant = c.grant, !.key = c.key]
                         ELSE Idle)
        BY <1>8 DEF TakeCode, CodesLeft
    <2>3. CASE ~Spendable(c, req[r].client)
        BY <1>0, <2>1, <2>2, <2>3, Quiet DEF Idle, Issuing
    <2>4. CASE Spendable(c, req[r].client)
        <3> DEFINE to == [req[r] EXCEPT !.at = "approver", !.grant = c.grant, !.key = c.key]
        <3>1. \A q \in Request : req'[q] = IF q = r THEN to ELSE req[q]
            BY <2>2, <2>4 DEF Goes, TypeOK
        <3>2. to.grant = c.grant /\ to.client = c.client /\ to.key = c.key
            BY <2>4 DEF TypeOK, Requests, Spendable
        <3> HIDE DEF to
        <3>3. OneCode'
            BY <1>0, <2>2 DEF OneCode
        <3>4. ASSUME NEW g \in Grant, NEW h \in Client \X Key PROVE CodeOf(g, h)' => CodeOf(g, h)
            BY <2>2 DEF CodeOf
        <3>5. ASSUME NEW g \in Grant, NEW h \in Client \X Key, Holds(g, h)'
              PROVE  \/ Holds(g, h)
                     \/ CodeOf(g, h) /\ \A i \in Client \X Key : ~CodeOf(g, i)'
            <4>1. Holds(g, h) \/ (to.grant = g /\ <<to.client, to.key>> = h)
                BY <2>1, <3>1, <3>5 DEF Holds
            <4>2. to.grant = g /\ <<to.client, to.key>> = h => CodeOf(g, h)
                BY <3>2 DEF CodeOf
            <4>3. \A i \in Client \X Key : to.grant = g => ~CodeOf(g, i)'
                BY <1>0, <2>2, <3>2 DEF CodeOf, OneCode
            <4> QED BY <4>1, <4>2, <4>3
        <3> QED BY <2>1, <3>3, <3>4, <3>5 DEF PassedOn
    <2> QED BY <2>3, <2>4
<1>9. ASSUME NEW r \in Request, ReadRefreshToken(r) PROVE PassedOn
    <2>1. req[r].at = "row" /\ UNCHANGED <<codes, tokens, owner>>
        BY <1>9 DEF ReadRefreshToken, store
    <2>2. PICK t \in tokens :
              /\ t.client = req[r].client
              /\ Goes(r, [req[r] EXCEPT !.at = "delete", !.grant = t.grant, !.key = t.key])
        BY <1>9 DEF ReadRefreshToken
    <2> DEFINE to == [req[r] EXCEPT !.at = "delete", !.grant = t.grant, !.key = t.key]
    <2>3. \A q \in Request : req'[q] = IF q = r THEN to ELSE req[q]
        BY <2>2 DEF Goes, TypeOK
    <2>4. to.grant = t.grant /\ to.client = t.client /\ to.key = t.key
        BY <2>2 DEF TypeOK, Requests
    <2> HIDE DEF to
    <2>5. ASSUME NEW g \in Grant, NEW h \in Client \X Key, Holds(g, h)' PROVE Holds(g, h)
        BY <2>1, <2>3, <2>4, <2>5 DEF Holds
    <2> QED BY <1>0, <2>1, <2>5 DEF PassedOn, OneCode, CodeOf
<1>10. ASSUME NEW r \in Request, DeleteGrant(r) PROVE PassedOn
    <2>1. tokens' \subseteq tokens /\ UNCHANGED <<codes, owner>>
        BY <1>10 DEF DeleteGrant
    <2>2. \/ req[r].at = "delete" /\ Goes(r, [req[r] EXCEPT !.at = "approver"])
          \/ Goes(r, Idle)
        BY <1>10 DEF DeleteGrant, On
    <2>3. CASE Goes(r, Idle)
        BY <1>0, <2>1, <2>3, Quiet DEF Idle, Issuing
    <2>4. CASE req[r].at = "delete" /\ Goes(r, [req[r] EXCEPT !.at = "approver"])
        <3> DEFINE to == [req[r] EXCEPT !.at = "approver"]
        <3>1. to.grant = req[r].grant /\ to.client = req[r].client /\ to.key = req[r].key
            BY DEF TypeOK, Requests
        <3>2. Goes(r, to) /\ req[r].at \in Issuing
            BY <2>4 DEF Issuing
        <3> HIDE DEF to
        <3> QED BY <1>0, <2>1, <3>1, <3>2, Quiet
    <2> QED BY <2>2, <2>3, <2>4
<1>11. ASSUME NEW r \in Request, CheckApprover(r) PROVE PassedOn
    <2>1. UNCHANGED <<codes, tokens, owner>>
        BY <1>11 DEF CheckApprover, store
    <2>2. PICK at \in {"expire", "admitted"} :
              /\ Goes(r, [req[r] EXCEPT !.at = at])
              /\ at = "expire" => req[r].at = "approver"
        BY <1>11 DEF CheckApprover, On
    <2> DEFINE to == [req[r] EXCEPT !.at = at]
    <2>3. to.at = at /\ to.grant = req[r].grant /\ to.client = req[r].client /\ to.key = req[r].key
        BY DEF TypeOK, Requests
    <2>4. Goes(r, to) /\ (at \in Issuing => req[r].at \in Issuing)
        BY <2>2 DEF Issuing
    <2> HIDE DEF to
    <2> QED BY <1>0, <2>1, <2>3, <2>4, Quiet
<1>12. ASSUME NEW r \in Request, DeleteExpired(r) PROVE PassedOn
    <2>1. tokens' \subseteq tokens /\ codes' \subseteq codes /\ UNCHANGED owner /\ req[r].at \in Issuing
        BY <1>12 DEF DeleteExpired, Issuing
    <2>2. Goes(r, [req[r] EXCEPT !.at = "access"]) \/ Goes(r, Idle)
        BY <1>12 DEF DeleteExpired, On
    <2>3. CASE Goes(r, Idle)
        BY <1>0, <2>1, <2>3, Quiet DEF Idle, Issuing
    <2>4. CASE Goes(r, [req[r] EXCEPT !.at = "access"])
        <3> DEFINE to == [req[r] EXCEPT !.at = "access"]
        <3>1. to.grant = req[r].grant /\ to.client = req[r].client /\ to.key = req[r].key
            BY DEF TypeOK, Requests
        <3>2. Goes(r, to)
            BY <2>4
        <3> HIDE DEF to
        <3> QED BY <1>0, <2>1, <3>1, <3>2, Quiet
    <2> QED BY <2>2, <2>3, <2>4
<1>13. ASSUME NEW r \in Request, PutTokens(r) PROVE PassedOn
    <2>1. UNCHANGED <<codes, owner>> /\ req[r].at \in {"access", "refresh token"}
        BY <1>13 DEF PutTokens
    <2>2. PICK is \in {"access", "refresh"} : tokens' = tokens \cup {Token(r, is)}
        BY <1>13 DEF PutTokens
    <2>3. PICK to \in {Idle, [req[r] EXCEPT !.at = "refresh token"]} : Goes(r, to)
        BY <1>13 DEF PutTokens, On
    <2>4. to.at \in Issuing => /\ to.grant = req[r].grant
                               /\ to.client = req[r].client /\ to.key = req[r].key
        <3>1. CASE to = Idle
            BY <3>1 DEF Idle, Issuing
        <3>2. CASE to = [req[r] EXCEPT !.at = "refresh token"]
            BY <3>2 DEF TypeOK, Requests
        <3> QED BY <2>3, <3>1, <3>2
    <2>5. \A q \in Request : req'[q] = IF q = r THEN to ELSE req[q]
        BY <2>3 DEF Goes, TypeOK
    <2>6. /\ Token(r, is).grant = req[r].grant
          /\ Token(r, is).client = req[r].client /\ Token(r, is).key = req[r].key
        BY DEF Token
    <2>7. req[r].at \in Issuing
        BY <2>1 DEF Issuing
    <2>8. ASSUME NEW g \in Grant, NEW h \in Client \X Key, Holds(g, h)' PROVE Holds(g, h)
        <3>1. CASE \E t \in tokens' : t.grant = g /\ <<t.client, t.key>> = h
            BY <2>2, <2>6, <2>7, <3>1 DEF Holds
        <3>2. ASSUME NEW q \in Request, req'[q].at \in Issuing, req'[q].grant = g,
                     <<req'[q].client, req'[q].key>> = h
              PROVE  Holds(g, h)
            <4>1. CASE q = r
                BY <2>5, <2>7, <2>4, <3>2, <4>1 DEF Holds
            <4>2. CASE q # r
                BY <2>5, <3>2, <4>2 DEF Holds
            <4> QED BY <4>1, <4>2
        <3> QED BY <2>8, <3>1, <3>2 DEF Holds
    <2> QED BY <1>0, <2>1, <2>8 DEF PassedOn, OneCode, CodeOf
<1>14. ASSUME NEW r \in Request, FindToken(r) PROVE PassedOn
    <2>1. PICK t \in tokens : Goes(r, [req[r] EXCEPT !.at = "end grant", !.grant = t.grant])
        BY <1>14 DEF FindToken
    <2>2. [req[r] EXCEPT !.at = "end grant", !.grant = t.grant].at \notin Issuing
        BY DEF TypeOK, Requests, Issuing
    <2> QED BY <1>0, <1>14, <2>1, <2>2, Quiet DEF FindToken, store
<1>15. ASSUME NEW r \in Request, ReadAccessToken(r) PROVE PassedOn
    <2>1. PICK t \in tokens :
              Goes(r, [Arriving EXCEPT !.at = "holder", !.grant = t.grant, !.key = t.key])
        BY <1>15 DEF ReadAccessToken
    <2>2. [Arriving EXCEPT !.at = "holder", !.grant = t.grant, !.key = t.key].at \notin Issuing
        BY DEF Arriving, Idle, Issuing
    <2> QED BY <1>0, <1>15, <2>1, <2>2, Quiet DEF ReadAccessToken, store
<1>16. CASE Age
    <2>1. UNCHANGED <<owner, req>>
        BY <1>16 DEF Age
    <2>2. \A t \in tokens' : \E u \in tokens : t.grant = u.grant /\ t.client = u.client /\ t.key = u.key
        BY <1>16 DEF Age, TypeOK, Tokens
    <2>3. \A c \in codes' : \E d \in codes : c.grant = d.grant /\ c.client = d.client /\ c.key = d.key
        BY <1>16 DEF Age, TypeOK, Codes
    <2>4. OneCode'
        <3>1. CASE UNCHANGED codes
            BY <1>0, <3>1 DEF OneCode
        <3>2. ASSUME NEW c \in codes, codes' = (codes \ {c}) \cup {[c EXCEPT !.fresh = FALSE]}
              PROVE  OneCode'
            <4>1. [c EXCEPT !.fresh = FALSE].grant = c.grant
                BY DEF TypeOK, Codes
            <4> QED BY <1>0, <3>2, <4>1 DEF OneCode
        <3> QED BY <1>16, <3>1, <3>2 DEF Age
    <2>5. ASSUME NEW g \in Grant, NEW h \in Client \X Key PROVE CodeOf(g, h)' => CodeOf(g, h)
        BY <2>3 DEF CodeOf
    <2>6. ASSUME NEW g \in Grant, NEW h \in Client \X Key PROVE Holds(g, h)' => Holds(g, h)
        BY <2>1, <2>2 DEF Holds
    <2> QED BY <2>1, <2>4, <2>5, <2>6 DEF PassedOn
<1>17. CASE UNCHANGED vars
    BY <1>0, <1>17 DEF vars, PassedOn, OneCode, CodeOf, Holds
<1> QED BY <1>1, <1>2, <1>3, <1>4, <1>5, <1>6, <1>7, <1>8, <1>9, <1>10, <1>11, <1>12, <1>13, <1>14,
           <1>15, <1>16, <1>17 DEF Next

\* What PutCode does: a first code of grant g carries approval h.
Opens(g, h) ==
    /\ owner[g] = None /\ owner' = [owner EXCEPT ![g] = h]
    /\ \A f \in Grant, i \in Client \X Key :
          /\ CodeOf(f, i)' <=> CodeOf(f, i) \/ (f = g /\ i = h)
          /\ Holds(f, i)' <=> Holds(f, i)
    /\ OneCode'

\* PutCode takes a grant in whose name nothing was done.
LEMMA PutCodeOffers ==
    ASSUME TypeOK, RequestInv, OwnerInv, NEW r \in Request, PutCode(r)
    PROVE  \E g \in Grant, h \in Client \X Key : Opens(g, h)
<1>1. req[r].client \in Client /\ req[r].key \in Key
    BY DEF RequestInv, Fits, PutCode
<1>2. PICK g \in Grant :
          /\ owner[g] = None
          /\ codes' = codes \cup {[grant |-> g, client |-> req[r].client, key |-> req[r].key,
                                  fresh |-> TRUE]}
          /\ owner' = [owner EXCEPT ![g] = <<req[r].client, req[r].key>>]
    BY DEF PutCode
<1> DEFINE h == <<req[r].client, req[r].key>>
           new == [grant |-> g, client |-> req[r].client, key |-> req[r].key, fresh |-> TRUE]
<1>3. new.grant = g /\ <<new.client, new.key>> = h /\ h \in Client \X Key
    BY <1>1
<1>4. codes' = codes \cup {new} /\ owner' = [owner EXCEPT ![g] = h]
    BY <1>2
<1> HIDE DEF new, h
<1>5. UNCHANGED tokens /\ Goes(r, Idle) /\ req[r].at \notin Issuing
    BY DEF PutCode, Issuing
<1>6. Idle.at \notin Issuing
    BY DEF Idle, Issuing
<1>7. \A q \in Request : req'[q] = IF q = r THEN Idle ELSE req[q]
    BY <1>5 DEF Goes, TypeOK
<1>8. ASSUME NEW f \in Grant, NEW i \in Client \X Key PROVE Holds(f, i)' <=> Holds(f, i)
    BY <1>5, <1>6, <1>7 DEF Holds
<1>9. ASSUME NEW f \in Grant, NEW i \in Client \X Key
      PROVE  CodeOf(f, i)' <=> CodeOf(f, i) \/ (f = g /\ i = h)
    BY <1>3, <1>4 DEF CodeOf
<1>10. \A c \in codes : c.grant # g
    <2> SUFFICES ASSUME NEW c \in codes, c.grant = g PROVE FALSE
        OBVIOUS
    <2>1. <<c.client, c.key>> \in Client \X Key /\ CodeOf(g, <<c.client, c.key>>)
        BY DEF TypeOK, Codes, CodeOf
    <2> QED BY <1>2, <2>1, NoneAssumption DEF OwnerInv
<1>11. OneCode'
    BY <1>3, <1>4, <1>10 DEF OwnerInv, OneCode
<1>12. Opens(g, h)
    BY <1>2, <1>4, <1>8, <1>9, <1>11 DEF Opens
<1> QED BY <1>3, <1>12

\* No step breaks the link between what is held of a grant and its approval.
LEMMA OwnerInvStep ==
    TypeOK /\ RequestInv /\ OwnerInv /\ [Next]_vars => OwnerInv'
<1> SUFFICES ASSUME TypeOK, RequestInv, OwnerInv, [Next]_vars PROVE OwnerInv'
    OBVIOUS
<1>1. CASE \A r \in Request : ~PutCode(r)
    <2>1. PassedOn
        BY <1>1, EveryOtherStepPassesOn
    <2> QED BY <2>1 DEF PassedOn, OwnerInv
<1>2. ASSUME NEW r \in Request, PutCode(r) PROVE OwnerInv'
    <2>1. PICK g \in Grant, h \in Client \X Key : Opens(g, h)
        BY <1>2, PutCodeOffers
    <2>2. \A i \in Client \X Key : ~CodeOf(g, i) /\ ~Holds(g, i)
        BY <2>1, NoneAssumption DEF Opens, OwnerInv
    <2>3. ASSUME NEW f \in Grant, NEW i \in Client \X Key, (CodeOf(f, i) \/ Holds(f, i))'
          PROVE  owner'[f] = i
        BY <2>1, <2>2, <2>3 DEF Opens, OwnerInv, TypeOK
    <2>4. ASSUME NEW f \in Grant, NEW i \in Client \X Key, NEW j \in Client \X Key
          PROVE  ~(CodeOf(f, i) /\ Holds(f, j))'
        BY <2>1, <2>2 DEF Opens, OwnerInv
    <2> QED BY <2>1, <2>3, <2>4 DEF Opens, OwnerInv
<1> QED BY <1>1, <1>2

\* The inductive invariant of the specification.
GrantsInv == TypeOK /\ RequestInv /\ OwnerInv

\* GrantsInv holds throughout.
LEMMA GrantsInvariant == Spec => []GrantsInv
<1>1. Init => GrantsInv
    <2> SUFFICES ASSUME Init PROVE GrantsInv
        OBVIOUS
    <2>1. \A r \in Request : req[r] = Idle
        BY DEF Init
    <2>2. RequestInv
        BY <2>1, IdleFits DEF RequestInv
    <2>3. Idle \in Requests
        BY DEF Idle, Requests, Stage
    <2>4. TypeOK
        BY <2>3 DEF Init, TypeOK
    <2>5. OwnerInv
        BY <2>1 DEF Init, OwnerInv, OneCode, CodeOf, Holds, Idle, Issuing
    <2> QED BY <2>2, <2>4, <2>5 DEF GrantsInv
<1>2. GrantsInv /\ [Next]_vars => GrantsInv'
    BY RequestInvStep, OwnerInvStep DEF GrantsInv
<1> QED BY <1>1, <1>2, PTL DEF Spec

\* The five tables and the requests only ever hold what their columns and
\* stages allow.
THEOREM TypeCorrect == Spec => []TypeOK
<1>1. GrantsInv => TypeOK
    BY DEF GrantsInv
<1> QED BY <1>1, GrantsInvariant, PTL

\* "Revoking a key disconnects that licensee's connectors" (oauth.js:60-72,
\* 262, 269): a request that arrives after the revocation gets nothing with it.
THEOREM RevocationHolds == Spec => []RevokedKeyGetsNothing
<1>1. GrantsInv => RevokedKeyGetsNothing
    BY DEF GrantsInv, RequestInv, Fits, RevokedKeyGetsNothing
<1> QED BY <1>1, GrantsInvariant, PTL

\* "... and no one else's" (licenceKeys.js:7-8): whatever is stored or about to
\* be issued goes by the approval of its grant.
THEOREM OwnersAreKept == Spec => []TokensKeepTheirOwner
<1>1. GrantsInv => TokensKeepTheirOwner
    <2> SUFFICES ASSUME GrantsInv PROVE TokensKeepTheirOwner
        OBVIOUS
    <2>1. ASSUME NEW t \in tokens PROVE owner[t.grant] = <<t.client, t.key>>
        <3>1. t.grant \in Grant /\ <<t.client, t.key>> \in Client \X Key
            BY DEF GrantsInv, TypeOK, Tokens
        <3>2. Holds(t.grant, <<t.client, t.key>>)
            BY DEF Holds
        <3> QED BY <3>1, <3>2 DEF GrantsInv, OwnerInv
    <2>2. ASSUME NEW c \in codes PROVE owner[c.grant] = <<c.client, c.key>>
        <3>1. c.grant \in Grant /\ <<c.client, c.key>> \in Client \X Key
            BY DEF GrantsInv, TypeOK, Codes
        <3>2. CodeOf(c.grant, <<c.client, c.key>>)
            BY DEF CodeOf
        <3> QED BY <3>1, <3>2 DEF GrantsInv, OwnerInv
    <2>3. ASSUME NEW r \in Request, req[r].grant # None, req[r].client # None, req[r].at # "end grant"
          PROVE  owner[req[r].grant] = <<req[r].client, req[r].key>>
        <3>1. Fits(req[r])
            BY DEF GrantsInv, RequestInv
        <3>2. req[r].at \in Issuing
            BY <2>3, <3>1 DEF Fits, Requests, Stage, Issuing
        <3>3. req[r].grant \in Grant /\ <<req[r].client, req[r].key>> \in Client \X Key
            BY <3>1, <3>2 DEF Fits
        <3>4. Holds(req[r].grant, <<req[r].client, req[r].key>>)
            BY <3>2 DEF Holds
        <3> QED BY <3>3, <3>4 DEF GrantsInv, OwnerInv
    <2> QED BY <2>1, <2>2, <2>3 DEF TokensKeepTheirOwner
<1> QED BY <1>1, GrantsInvariant, PTL

-----------------------------------------------------------------------------

\* The stage of a grant is that of the approvals held of it.
Held(g) == \E h \in Client \X Key : Holds(g, h)
Coded(g) == \E h \in Client \X Key : CodeOf(g, h)

StagesShow ==
    \A g \in Grant :
        StageOf(g) = IF owner[g] = None THEN "none"
                     ELSE IF Held(g) THEN "live" ELSE IF Coded(g) THEN "offered" ELSE "over"

\* In a state of the specification, the stages are as the approvals show.
LEMMA StageByApprovals == GrantsInv => StagesShow
<1> SUFFICES ASSUME GrantsInv, NEW g \in Grant
             PROVE  StageOf(g) = IF owner[g] = None THEN "none"
                                 ELSE IF Held(g) THEN "live" ELSE IF Coded(g) THEN "offered" ELSE "over"
    BY DEF StagesShow
<1>1. Held(g) <=> Pending(g) \/ \E t \in tokens : t.grant = g
    <2>1. ASSUME NEW t \in tokens, t.grant = g PROVE Held(g)
        BY <2>1 DEF GrantsInv, TypeOK, Tokens, Held, Holds
    <2>2. ASSUME NEW r \in Request, req[r].grant = g, req[r].at \in Issuing PROVE Held(g)
        BY <2>2 DEF GrantsInv, RequestInv, Fits, Held, Holds
    <2> QED BY <2>1, <2>2 DEF Held, Holds, Pending, Issuing
<1>2. Coded(g) <=> \E c \in codes : c.grant = g
    BY DEF GrantsInv, TypeOK, Codes, Coded, CodeOf
<1> QED BY <1>1, <1>2 DEF StageOf

\* "Single use" (oauth.js:8-10): every step of every request is, for the grants,
\* an offer, an advance, or nothing.
THEOREM GrantsImplementTheirLife == Spec => GrantsAreLived
<1>1. Init => Life!Init
    BY DEF Init, Life!Init, StageOf
<1>2. GrantsInv /\ StagesShow /\ StagesShow' /\ [Next]_vars => [Life!Next]_(Life!vars)
    <2> SUFFICES ASSUME GrantsInv, StagesShow, StagesShow', [Next]_vars
                 PROVE  Life!Next \/ UNCHANGED <<[g \in Grant |-> StageOf(g)], owner>>
        BY DEF Life!vars
    <2> DEFINE Was == [g \in Grant |-> StageOf(g)]
               Is == [g \in Grant |-> StageOf(g)']
    <2>0. /\ \A g \in Grant : Was[g] = IF owner[g] = None THEN "none"
                                       ELSE IF Held(g) THEN "live"
                                       ELSE IF Coded(g) THEN "offered" ELSE "over"
          /\ \A g \in Grant : Is[g] = IF owner'[g] = None THEN "none"
                                      ELSE IF Held(g)' THEN "live"
                                      ELSE IF Coded(g)' THEN "offered" ELSE "over"
        BY DEF StagesShow
    <2>a. \A g \in Grant : owner[g] = None => ~Held(g) /\ ~Coded(g)
        BY NoneAssumption DEF GrantsInv, OwnerInv, Held, Coded
    <2>b. \A g \in Grant : ~(Held(g) /\ Coded(g))
        BY DEF GrantsInv, OwnerInv, Held, Coded
    <2>1. CASE \A r \in Request : ~PutCode(r)
        <3>1. PassedOn
            BY <2>1, EveryOtherStepPassesOn DEF GrantsInv
        <3>2. /\ UNCHANGED owner
              /\ \A g \in Grant : /\ Coded(g)' => Coded(g)
                                  /\ Held(g)' => Held(g) \/ (Coded(g) /\ ~Coded(g)')
            BY <3>1 DEF PassedOn, Held, Coded
        <3> DEFINE Given == {g \in Grant : Was[g] = "offered" /\ Is[g] = "live"}
                   Ended == {g \in Grant : Was[g] \in {"offered", "live"} /\ Is[g] = "over"}
        <3>3. \A g \in Grant : Is[g] = IF g \in Given THEN "live" ELSE IF g \in Ended THEN "over" ELSE Was[g]
            BY <2>0, <2>b, <3>2
        <3>4. CASE Given \cup Ended = {}
            BY <3>2, <3>3, <3>4
        <3>5. CASE Given \cup Ended # {}
            <4>1. /\ Given \in SUBSET {g \in Grant : Was[g] = "offered"}
                  /\ Ended \in SUBSET {g \in Grant : Was[g] \in {"offered", "live"}}
                  /\ Given \cap Ended = {}
                OBVIOUS
            <4>2. Is = [g \in Grant |-> IF g \in Given THEN "live" ELSE IF g \in Ended THEN "over" ELSE Was[g]]
                BY <3>3
            <4> HIDE DEF Given, Ended
            <4> QED BY <3>2, <3>5, <4>1, <4>2 DEF Life!Next, Life!Advance
        <3> QED BY <3>4, <3>5
    <2>2. ASSUME NEW r \in Request, PutCode(r) PROVE Life!Next
        <3>1. PICK g \in Grant, h \in Client \X Key : Opens(g, h)
            BY <2>2, PutCodeOffers DEF GrantsInv
        <3>2. /\ \A f \in Grant : Held(f)' <=> Held(f)
              /\ \A f \in Grant : Coded(f)' <=> Coded(f) \/ f = g
            BY <3>1 DEF Opens, Held, Coded
        <3>3. owner'[g] = h /\ h # None /\ \A f \in Grant \ {g} : owner'[f] = owner[f]
            BY <3>1, NoneAssumption DEF Opens, GrantsInv, TypeOK
        <3>4. Was[g] = "none" /\ Is[g] = "offered" /\ \A f \in Grant \ {g} : Is[f] = Was[f]
            BY <2>0, <2>a, <3>1, <3>2, <3>3 DEF Opens
        <3>5. Is = [Was EXCEPT ![g] = "offered"]
            BY <3>4
        <3>6. PICK c \in Client, k \in Key : h = <<c, k>>
            OBVIOUS
        <3> QED BY <3>1, <3>4, <3>5, <3>6 DEF Opens, Life!Next, Life!Offer
    <2> QED BY <2>1, <2>2
<1> QED BY <1>1, <1>2, GrantsInvariant, StageByApprovals, PTL DEF Spec, GrantsAreLived, Life!Spec

-----------------------------------------------------------------------------
(* The chat with the assistant                                             *)

Message == [role : {"user", "assistant"}, of : Nat]

ChatTypeOK ==
    /\ messages \in Seq(Message)
    /\ busy \in BOOLEAN /\ asked \in Nat
    /\ question \in C!Question \cup {None}

\* A reply stands after its question; the question under way is the last that was asked
\* and is said once, at the end; every other one has its reply, or had its notice.
RepliesFollow(s) ==
    \A i \in DOMAIN s : s[i].role = "assistant" /\ i > 1 => s[i - 1] = C!UserMessage(s[i].of)

HasReply(s, n) == \A i \in DOMAIN s : s[i] = C!UserMessage(n) => i < Len(s) /\ s[i + 1] = C!Reply(n)

ChatInv ==
    /\ \A i \in DOMAIN messages : messages[i].of <= asked
    /\ RepliesFollow(messages)
    /\ question # None =>
          /\ question.n = asked /\ busy
          /\ messages # <<>> /\ messages[Len(messages)] = C!UserMessage(asked)
          /\ \A i \in DOMAIN messages : messages[i] = C!UserMessage(asked) => i = Len(messages)
    /\ \A n \in 1 .. asked : n \notin notices /\ (question = None \/ question.n # n) => HasReply(messages, n)

\* What is kept of a conversation is its end.
LEMMA LatestIs ==
    ASSUME NEW s \in Seq(Message), s # <<>>
    PROVE  /\ C!Latest(s) \in Seq(Message) /\ C!Latest(s) # <<>>
           /\ \E k \in Nat : /\ Len(C!Latest(s)) = Len(s) - k
                             /\ \A i \in 1 .. Len(s) - k : C!Latest(s)[i] = s[i + k]
<1>1. KeptMessages \in Nat \ {0} /\ Len(s) \in Nat /\ Len(s) > 0
    BY DashboardAssumption DEF C!PanelAssumption
<1>2. CASE Len(s) > KeptMessages
    <2> DEFINE k == Len(s) - KeptMessages
    <2>1. C!Latest(s) = SubSeq(s, k + 1, Len(s)) /\ k \in Nat
        BY <1>1, <1>2 DEF C!Latest
    <2>2. /\ Len(SubSeq(s, k + 1, Len(s))) = Len(s) - k
          /\ \A i \in 1 .. Len(s) - k : SubSeq(s, k + 1, Len(s))[i] = s[i + k]
          /\ SubSeq(s, k + 1, Len(s)) \in Seq(Message)
        BY <1>1, <1>2
    <2>3. Len(s) - k > 0
        BY <1>1
    <2> DEFINE t == C!Latest(s)
    <2>4. t \in Seq(Message) /\ Len(t) = Len(s) - k /\ \A i \in 1 .. Len(s) - k : t[i] = s[i + k]
        BY <2>1, <2>2
    <2> HIDE DEF k, t
    <2>5. t # <<>>
        BY <2>3, <2>4
    <2>6. \E l \in Nat : Len(t) = Len(s) - l /\ \A i \in 1 .. Len(s) - l : t[i] = s[i + l]
        BY <2>1, <2>4
    <2> QED BY <2>4, <2>5, <2>6 DEF t
<1>3. CASE ~(Len(s) > KeptMessages)
    BY <1>1, <1>3 DEF C!Latest
<1> QED BY <1>2, <1>3

\* A shorter memory of a conversation is as good.
LEMMA LatestKeeps ==
    ASSUME NEW s \in Seq(Message), s # <<>>
    PROVE  /\ RepliesFollow(s) => RepliesFollow(C!Latest(s))
           /\ \A n \in Nat : HasReply(s, n) => HasReply(C!Latest(s), n)
           /\ C!Latest(s)[Len(C!Latest(s))] = s[Len(s)]
           /\ \A n \in Nat : (\A i \in DOMAIN s : s[i] = C!UserMessage(n) => i = Len(s)) =>
                  \A i \in DOMAIN C!Latest(s) : C!Latest(s)[i] = C!UserMessage(n) => i = Len(C!Latest(s))
           /\ \A n \in Nat : (\A i \in DOMAIN s : s[i].of <= n) => \A i \in DOMAIN C!Latest(s) : C!Latest(s)[i].of <= n
<1> DEFINE t == C!Latest(s)
<1>1. /\ t \in Seq(Message) /\ t # <<>>
      /\ \E k \in Nat : Len(t) = Len(s) - k /\ \A i \in 1 .. Len(s) - k : t[i] = s[i + k]
    BY LatestIs
<1> HIDE DEF t
<1>2. PICK k \in Nat : Len(t) = Len(s) - k /\ \A i \in 1 .. Len(s) - k : t[i] = s[i + k]
    BY <1>1
<1>3. DOMAIN t = 1 .. Len(s) - k /\ DOMAIN s = 1 .. Len(s) /\ Len(s) \in Nat /\ Len(t) > 0 /\ Len(t) \in Nat
    BY <1>1, <1>2
<1>4. RepliesFollow(s) => RepliesFollow(t)
    <2> SUFFICES ASSUME RepliesFollow(s), NEW i \in 1 .. Len(s) - k, t[i].role = "assistant", i > 1
                 PROVE  t[i - 1] = C!UserMessage(t[i].of)
        BY <1>3 DEF RepliesFollow
    <2>1. t[i] = s[i + k] /\ t[i - 1] = s[i - 1 + k] /\ i + k > 1 /\ i + k \in 1 .. Len(s) /\ i - 1 + k = (i + k) - 1
        BY <1>2, <1>3
    <2> QED BY <1>3, <2>1 DEF RepliesFollow
<1>5. ASSUME NEW n \in Nat, HasReply(s, n) PROVE HasReply(t, n)
    <2> SUFFICES ASSUME NEW i \in 1 .. Len(s) - k, t[i] = C!UserMessage(n) PROVE i < Len(t) /\ t[i + 1] = C!Reply(n)
        BY <1>3 DEF HasReply
    <2>1. i + k < Len(s) /\ s[(i + k) + 1] = C!Reply(n)
        BY <1>2, <1>3, <1>5 DEF HasReply
    <2>2. i + 1 \in 1 .. Len(s) - k /\ i + 1 + k = (i + k) + 1
        BY <1>3, <2>1
    <2> QED BY <1>2, <2>1, <2>2
<1>6. t[Len(t)] = s[Len(s)]
    BY <1>2, <1>3
<1>7. ASSUME NEW n \in Nat, \A i \in DOMAIN s : s[i] = C!UserMessage(n) => i = Len(s)
      PROVE  \A i \in DOMAIN t : t[i] = C!UserMessage(n) => i = Len(t)
    BY <1>2, <1>3, <1>7
<1>8. ASSUME NEW n \in Nat, \A i \in DOMAIN s : s[i].of <= n PROVE \A i \in DOMAIN t : t[i].of <= n
    <2>1. \A i \in 1 .. Len(s) - k : i + k \in 1 .. Len(s)
        BY <1>3
    <2> QED BY <1>2, <1>3, <1>8, <2>1
<1> QED BY <1>4, <1>5, <1>6, <1>7, <1>8 DEF t

LEMMA ChatInvStep == ChatTypeOK /\ ChatInv /\ [C!Next]_chat => (ChatTypeOK /\ ChatInv)'
<1> SUFFICES ASSUME ChatTypeOK, ChatInv, [C!Next]_chat PROVE (ChatTypeOK /\ ChatInv)'
    OBVIOUS
<1>a. /\ Len(messages) \in Nat /\ DOMAIN messages = 1 .. Len(messages) /\ asked \in Nat
      /\ None \notin C!Question
    BY DashboardAssumption DEF ChatTypeOK, C!PanelAssumption
<1>1. CASE C!SendAssistantMessage
    <2> DEFINE s == Append(messages, C!UserMessage(asked + 1))
               q == [n |-> asked + 1, polling |-> FALSE, misses |-> 0, polls |-> 0]
    <2>1. /\ question = None /\ asked' = asked + 1 /\ messages' = C!Latest(s)
          /\ busy' = TRUE /\ question' = q /\ UNCHANGED notices
        BY <1>1 DEF C!SendAssistantMessage, ChatInv
    <2>2. /\ s \in Seq(Message) /\ s # <<>> /\ Len(s) = Len(messages) + 1
          /\ \A i \in 1 .. Len(messages) : s[i] = messages[i]
          /\ s[Len(messages) + 1] = C!UserMessage(asked + 1)
        BY <1>a DEF ChatTypeOK, C!UserMessage, Message
    <2>3. q \in C!Question /\ q.n = asked + 1
        BY <1>a DEF C!Question
    <2> HIDE DEF s, q
    <2>0. q # None
        BY <1>a, <2>3
    <2>4. RepliesFollow(s)
        <3> SUFFICES ASSUME NEW i \in 1 .. Len(s), s[i].role = "assistant", i > 1 PROVE s[i - 1] = C!UserMessage(s[i].of)
            BY <2>2 DEF RepliesFollow
        <3>1. i \in 1 .. Len(messages)
            BY <1>a, <2>2 DEF C!UserMessage
        <3> QED BY <1>a, <2>2, <3>1 DEF ChatInv, RepliesFollow
    <2>5. \A i \in DOMAIN s : s[i].of <= asked + 1
        <3>1. ASSUME NEW i \in 1 .. Len(messages) PROVE s[i].of <= asked + 1
            <4>1. messages[i].of \in Nat /\ messages[i].of <= asked
                <5>1. messages[i] \in Message
                    BY DEF ChatTypeOK
                <5>2. messages[i].of <= asked
                    BY <1>a DEF ChatInv
                <5> QED BY <5>1, <5>2 DEF Message
            <4> QED BY <1>a, <2>2, <4>1
        <3>2. s[Len(messages) + 1].of = asked + 1
            BY <2>2 DEF C!UserMessage
        <3> QED BY <1>a, <2>2, <3>1, <3>2
    <2>6. \A i \in DOMAIN s : s[i] = C!UserMessage(asked + 1) => i = Len(s)
        BY <1>a, <2>2 DEF ChatInv, C!UserMessage
    <2>7. ASSUME NEW n \in 1 .. asked, n \notin notices PROVE HasReply(s, n)
        BY <1>a, <2>1, <2>2, <2>7 DEF ChatInv, HasReply, C!UserMessage
    <2>8. ChatTypeOK'
        BY <1>a, <2>1, <2>2, <2>3, LatestIs DEF ChatTypeOK
    <2>9. /\ \A i \in DOMAIN messages' : messages'[i].of <= asked'
          /\ RepliesFollow(messages)'
          /\ messages' # <<>> /\ messages'[Len(messages')] = C!UserMessage(asked + 1)
          /\ \A i \in DOMAIN messages' : messages'[i] = C!UserMessage(asked + 1) => i = Len(messages')
        <3>1. asked + 1 \in Nat
            BY <1>a
        <3>2. messages' # <<>> /\ messages'[Len(messages')] = C!UserMessage(asked + 1)
            BY <2>1, <2>2, LatestIs, LatestKeeps
        <3>3. RepliesFollow(messages')
            BY <2>1, <2>2, <2>4, LatestKeeps
        <3>4. \A i \in DOMAIN messages' : messages'[i].of <= asked'
            BY <2>1, <2>2, <2>5, <3>1, LatestKeeps
        <3>5. \A i \in DOMAIN messages' : messages'[i] = C!UserMessage(asked + 1) => i = Len(messages')
            BY <2>1, <2>2, <2>6, <3>1, LatestKeeps
        <3> QED BY <3>2, <3>3, <3>4, <3>5 DEF RepliesFollow
    <2>10. \A n \in 1 .. asked : n \notin notices => HasReply(messages', n)
        BY <1>a, <2>1, <2>2, <2>7, LatestKeeps
    <2> QED BY <1>a, <2>0, <2>1, <2>3, <2>8, <2>9, <2>10 DEF ChatInv, RepliesFollow, HasReply
<1>2. CASE C!Answered /\ question # None
    <2>1. /\ messages' = Append(messages, C!Reply(question.n)) /\ question' = None
          /\ UNCHANGED <<notices, asked>> /\ busy' \in BOOLEAN /\ question.n = asked
        BY <1>2 DEF C!Answered, C!Ends, ChatInv
    <2>2. /\ messages' \in Seq(Message) /\ Len(messages') = Len(messages) + 1
          /\ \A i \in 1 .. Len(messages) : messages'[i] = messages[i]
          /\ messages'[Len(messages) + 1] = C!Reply(asked) /\ Len(messages) > 0
          /\ messages[Len(messages)] = C!UserMessage(asked)
        BY <1>2, <1>a, <2>1 DEF ChatTypeOK, ChatInv, C!Reply, Message
    <2>3. RepliesFollow(messages')
        <3> SUFFICES ASSUME NEW i \in 1 .. Len(messages'), messages'[i].role = "assistant", i > 1
                     PROVE  messages'[i - 1] = C!UserMessage(messages'[i].of)
            BY <2>2 DEF RepliesFollow
        <3>1. CASE i \in 1 .. Len(messages)
            BY <1>a, <2>2, <3>1 DEF ChatInv, RepliesFollow
        <3>2. CASE i = Len(messages) + 1
            BY <1>a, <2>2, <3>2 DEF C!Reply
        <3> QED BY <1>a, <2>2, <3>1, <3>2
    <2>4. \A i \in DOMAIN messages' : messages'[i].of <= asked
        BY <1>a, <2>2 DEF ChatInv, C!Reply
    <2>5. ASSUME NEW n \in 1 .. asked, n \notin notices PROVE HasReply(messages', n)
        <3> SUFFICES ASSUME NEW i \in 1 .. Len(messages'), messages'[i] = C!UserMessage(n)
                     PROVE  i < Len(messages') /\ messages'[i + 1] = C!Reply(n)
            BY <2>2 DEF HasReply
        <3>1. i \in 1 .. Len(messages)
            BY <1>a, <2>2 DEF C!Reply, C!UserMessage
        <3>2. CASE n = asked
            BY <1>2, <1>a, <2>2, <3>1, <3>2 DEF ChatInv
        <3>3. CASE n # asked
            <4>1. HasReply(messages, n)
                BY <2>1, <2>5, <3>3 DEF ChatInv
            <4> QED BY <1>a, <2>2, <3>1, <4>1 DEF HasReply
        <3> QED BY <3>2, <3>3
    <2> QED BY <1>a, <2>1, <2>2, <2>3, <2>4, <2>5 DEF ChatTypeOK, ChatInv, RepliesFollow, HasReply
<1>3. CASE C!Noticed /\ question # None
    <2>1. /\ UNCHANGED <<messages, asked>> /\ notices' = notices \cup {question.n} /\ question' = None
          /\ busy' \in BOOLEAN /\ question.n = asked
        BY <1>3 DEF C!Noticed, C!Ends, ChatInv
    <2> QED BY <1>3, <2>1 DEF ChatTypeOK, ChatInv, RepliesFollow, HasReply
<1>4. CASE /\ question # None /\ question' \in C!Question /\ question'.n = question.n
           /\ UNCHANGED <<messages, busy, asked, notices>>
    <2>1. ChatTypeOK'
        BY <1>4 DEF ChatTypeOK
    <2>2. question' # None
        BY <1>4, <1>a
    <2> QED BY <1>4, <2>1, <2>2 DEF ChatInv, RepliesFollow, HasReply
<1>5. CASE UNCHANGED <<messages, asked, question, notices>> /\ busy' \in BOOLEAN /\ (busy => busy')
    BY <1>5 DEF ChatTypeOK, ChatInv, RepliesFollow, HasReply
<1>6. CASE C!ResetAssistantChat
    <2>1. messages' = <<>> /\ question = None /\ UNCHANGED <<busy, asked, question, notices>>
        BY <1>6 DEF C!ResetAssistantChat, C!MayReset, ChatInv
    <2> QED BY <2>1 DEF ChatTypeOK, ChatInv, RepliesFollow, HasReply
<1>7. CASE C!Posts
    <2>1. CASE C!PostIsAccepted
        <3>1. /\ question' \in C!Question /\ question'.n = question.n /\ question # None
              /\ UNCHANGED <<messages, busy, asked, notices>>
            BY <2>1 DEF C!PostIsAccepted, C!Question, ChatTypeOK
        <3> QED BY <1>4, <3>1
    <2> QED BY <1>2, <1>3, <1>7, <2>1 DEF C!Posts, C!PostIsAnswered, C!PostFails
<1>8. CASE C!Polls \/ C!DeadlinePasses
    <2>1. question # None /\ question \in C!Question
        BY <1>8 DEF C!Polls, C!PollIsLost, C!PollMisses, C!PollIsAnswered, C!DeadlinePasses, C!Waiting, C!Polling, ChatTypeOK
    <2>2. \/ C!Answered \/ C!Noticed
          \/ /\ \E m \in Nat, k \in Nat : question' = [question EXCEPT !.polls = k, !.misses = m]
             /\ UNCHANGED <<messages, busy, asked, notices>>
        <3>0. question.misses \in Nat /\ question.misses + 1 \in Nat /\ question.polls + 1 \in Nat
            BY <2>1 DEF C!Question
        <3>1. CASE C!PollIsLost
            BY <3>0, <3>1 DEF C!PollIsLost
        <3>2. CASE C!PollMisses
            BY <3>0, <3>2 DEF C!PollMisses
        <3>3. CASE C!PollIsAnswered
            BY <3>0, <3>3 DEF C!PollIsAnswered
        <3>4. CASE C!DeadlinePasses
            BY <3>4 DEF C!DeadlinePasses
        <3> QED BY <1>8, <3>1, <3>2, <3>3, <3>4 DEF C!Polls
    <2>3. ASSUME NEW m \in Nat, NEW k \in Nat, question' = [question EXCEPT !.polls = k, !.misses = m]
          PROVE  question' \in C!Question /\ question'.n = question.n
        BY <2>1, <2>3 DEF C!Question
    <2> QED BY <1>2, <1>3, <1>4, <2>1, <2>2, <2>3
<1>9. CASE C!ToggleAssistant \/ C!JobAdvances \/ UNCHANGED chat
    BY <1>5, <1>9 DEF C!ToggleAssistant, C!JobAdvances, chat, ChatTypeOK
<1>10. ASSUME NEW is \in BOOLEAN, C!ProbeAssistant(is) PROVE (ChatTypeOK /\ ChatInv)'
    <2>1. UNCHANGED <<messages, asked, question, notices>> /\ busy' \in BOOLEAN /\ (busy => busy')
        BY <1>10 DEF C!ProbeAssistant, ChatTypeOK
    <2> QED BY <1>5, <2>1
<1> QED BY <1>1, <1>6, <1>7, <1>8, <1>9, <1>10 DEF C!Next

LEMMA ChatRunsAlone == ClientsSpec => C!Init /\ [][C!Next]_chat
<1>1. ClientsInit => C!Init
    BY DEF ClientsInit
<1>2. [ClientsNext]_everything => [C!Next]_chat
    BY DEF ClientsNext, everything, Over, chat
<1> QED BY <1>1, <1>2, PTL DEF ClientsSpec

\* A question ends, with its answer or a notice, in the conversation it was asked in
\* (app.js:4824-4921).
THEOREM AnswersAlwaysFollow == ClientsSpec => []AnswersFollowQuestions
<1>1. C!Init => ChatTypeOK /\ ChatInv
    <2> SUFFICES ASSUME C!Init PROVE ChatTypeOK /\ ChatInv
        OBVIOUS
    <2>1. messages = <<>> /\ question = None /\ busy = FALSE /\ asked = 0
        BY DEF C!Init
    <2>a. <<>> \in Seq(Message)
        OBVIOUS
    <2>2. ChatTypeOK
        BY <2>1, <2>a DEF ChatTypeOK
    <2>3. ChatInv
        BY <2>1 DEF ChatInv, RepliesFollow, HasReply
    <2> QED BY <2>2, <2>3
<1>2. ChatTypeOK /\ ChatInv => AnswersFollowQuestions
    BY DEF ChatTypeOK, ChatInv, RepliesFollow, HasReply, AnswersFollowQuestions, C!AnswersFollowQuestions, C!Last
<1> QED BY <1>1, <1>2, ChatInvStep, ChatRunsAlone, PTL

-----------------------------------------------------------------------------
(* The list of releases                                                    *)

ReleaseFields ==
    {"on", "hidden", "query", "chain", "configured", "items", "error", "loading", "loadedAt", "drawn"}

IsReleases(r) ==
    /\ DOMAIN r = ReleaseFields /\ r = [f \in ReleaseFields |-> r[f]]
    /\ r.query \in Query
    /\ DOMAIN r.items = Query /\ DOMAIN r.error = Query /\ DOMAIN r.loading = Query /\ DOMAIN r.loadedAt = Query
    /\ \A q \in Query : /\ r.error[q] \in {"no", "yes"} \/ (r.error[q] = "range" /\ q \in BadRange)
                        /\ r.loading[q] # "no" => q \notin BadRange

\* What is on screen is always what would be drawn, also while an answer is awaited.
ReleasesOK(r) == IsReleases(r) /\ (r.on => r.drawn = R!Drawn(r))

\* The fields a list is drawn from.
SameList(r, s) ==
    /\ s.query = r.query /\ s.chain = r.chain /\ s.configured = r.configured
    /\ s.error[s.query] = r.error[r.query] /\ s.items[s.query] = r.items[r.query]

LEMMA SameListSameDrawing == ASSUME NEW r, NEW s, SameList(r, s) PROVE R!Drawn(s) = R!Drawn(r)
BY DEF SameList, R!Drawn

LEMMA ReleasesRedrawn ==
    ASSUME NEW r, IsReleases(r)
    PROVE  /\ ReleasesOK(R!Redrawn(r)) /\ IsReleases(R!Redrawn(r)) /\ R!Redrawn(r).on = r.on
           /\ R!Redrawn(r).drawn = R!Drawn(r) /\ SameList(r, R!Redrawn(r))
<1> DEFINE s == [r EXCEPT !.drawn = R!Drawn(r)]
<1>1. /\ DOMAIN s = ReleaseFields /\ s = [f \in ReleaseFields |-> s[f]]
      /\ \A f \in ReleaseFields \ {"drawn"} : s[f] = r[f]
      /\ s.drawn = R!Drawn(r)
    BY DEF IsReleases, ReleaseFields
<1> HIDE DEF s
<1>2. /\ s.on = r.on /\ s.query = r.query /\ s.chain = r.chain /\ s.configured = r.configured
      /\ s.items = r.items /\ s.error = r.error /\ s.loading = r.loading /\ s.loadedAt = r.loadedAt
    BY <1>1 DEF ReleaseFields
<1>3. SameList(r, s)
    BY <1>2 DEF SameList
<1>4. R!Drawn(s) = R!Drawn(r)
    BY <1>3, SameListSameDrawing
<1>5. IsReleases(s)
    BY <1>1, <1>2 DEF IsReleases
<1>6. s = R!Redrawn(r)
    BY DEF s, R!Redrawn
<1> QED BY <1>1, <1>2, <1>3, <1>4, <1>5, <1>6 DEF ReleasesOK

LEMMA IfOnScreenIs == ASSUME NEW r, IsReleases(r) PROVE ReleasesOK(R!IfOnScreen(r)) /\ IsReleases(R!IfOnScreen(r))
BY ReleasesRedrawn DEF R!IfOnScreen, ReleasesOK

\* A change of the fields nothing is drawn from.
LEMMA AsideIs ==
    ASSUME NEW r, IsReleases(r), NEW s, DOMAIN s = ReleaseFields, s = [f \in ReleaseFields |-> s[f]],
           s.on = r.on, s.query = r.query, s.chain = r.chain, s.configured = r.configured,
           s.items = r.items, s.error = r.error, s.drawn = r.drawn, s.loadedAt = r.loadedAt,
           DOMAIN s.loading = Query, \A q \in Query : s.loading[q] # "no" => q \notin BadRange
    PROVE  IsReleases(s) /\ (ReleasesOK(r) => ReleasesOK(s))
<1>1. IsReleases(s)
    BY DEF IsReleases
<1>2. SameList(r, s)
    BY DEF SameList
<1> QED BY <1>1, <1>2, SameListSameDrawing DEF ReleasesOK

LEMMA NotLoadingIs ==
    ASSUME NEW r, IsReleases(r), NEW q \in Query
    PROVE  LET s == [r EXCEPT !.loading[q] = "no"] IN IsReleases(s) /\ (ReleasesOK(r) => ReleasesOK(s))
<1> DEFINE s == [r EXCEPT !.loading[q] = "no"]
<1>1. /\ DOMAIN s = ReleaseFields /\ s = [f \in ReleaseFields |-> s[f]]
      /\ \A f \in ReleaseFields \ {"loading"} : s[f] = r[f]
      /\ s.loading = [r.loading EXCEPT ![q] = "no"]
    BY DEF IsReleases, ReleaseFields
<1> HIDE DEF s
<1>2. /\ s.on = r.on /\ s.query = r.query /\ s.chain = r.chain /\ s.configured = r.configured
      /\ s.items = r.items /\ s.error = r.error /\ s.drawn = r.drawn /\ s.loadedAt = r.loadedAt
    BY <1>1 DEF ReleaseFields
<1>3. DOMAIN s.loading = Query /\ \A p \in Query : s.loading[p] # "no" => p \notin BadRange
    BY <1>1 DEF IsReleases
<1>4. IsReleases(s) /\ (ReleasesOK(r) => ReleasesOK(s))
    BY <1>1, <1>2, <1>3, AsideIs
<1> QED BY <1>4 DEF s

LEMMA AskedIs ==
    ASSUME NEW r, IsReleases(r), NEW quiet \in BOOLEAN
    PROVE  /\ IsReleases(R!Asked(r, quiet))
           /\ ReleasesOK(r) /\ (quiet \/ r.error[r.query] = "no") => ReleasesOK(R!Asked(r, quiet))
<1> DEFINE q == r.query
           bad == [r EXCEPT !.error[q] = "range"]
           way == IF quiet THEN "quietly" ELSE "aloud"
           err == IF quiet THEN r.error[q] ELSE "no"
           asked_ == [r EXCEPT !.loading[q] = way, !.error[q] = err]
<1>1. CASE R!Asked(r, quiet) = r
    BY <1>1
<1>2. CASE R!Asked(r, quiet) = R!IfOnScreen(bad) /\ q \in BadRange
    <2>1. /\ DOMAIN bad = ReleaseFields /\ bad = [f \in ReleaseFields |-> bad[f]]
          /\ bad.query = r.query /\ bad.items = r.items /\ bad.error = [r.error EXCEPT ![q] = "range"]
          /\ bad.loading = r.loading /\ bad.loadedAt = r.loadedAt
        BY DEF IsReleases, ReleaseFields
    <2> HIDE DEF bad
    <2>2. IsReleases(bad)
        BY <1>2, <2>1 DEF IsReleases
    <2> QED BY <1>2, <2>2, IfOnScreenIs
<1>3. CASE R!Asked(r, quiet) = asked_ /\ q \notin BadRange
    <2>1. /\ DOMAIN asked_ = ReleaseFields /\ asked_ = [f \in ReleaseFields |-> asked_[f]]
          /\ asked_.query = r.query /\ asked_.items = r.items /\ asked_.error = [r.error EXCEPT ![q] = err]
          /\ asked_.loading = [r.loading EXCEPT ![q] = way] /\ asked_.loadedAt = r.loadedAt
          /\ asked_.on = r.on /\ asked_.drawn = r.drawn
          /\ asked_.chain = r.chain /\ asked_.configured = r.configured
          /\ asked_.error[q] = err
        BY DEF IsReleases, ReleaseFields
    <2> HIDE DEF asked_
    <2>2. IsReleases(asked_)
        BY <1>3, <2>1 DEF IsReleases
    <2>3. ASSUME quiet \/ r.error[r.query] = "no" PROVE SameList(r, asked_)
        BY <2>1, <2>3 DEF SameList
    <2> QED BY <1>3, <2>1, <2>2, <2>3, SameListSameDrawing DEF ReleasesOK
<1> QED BY <1>1, <1>2, <1>3 DEF R!Asked

LEMMA ConfiguredIs ==
    ASSUME NEW r, IsReleases(r), NEW is \in BOOLEAN
    PROVE  /\ IsReleases(R!Configured(r, is)) /\ (ReleasesOK(r) => ReleasesOK(R!Configured(r, is)))
           /\ R!Configured(r, is) = r \/ ReleasesOK(R!Configured(r, is))
<1> DEFINE s == [r EXCEPT !.configured = is]
<1>1. /\ DOMAIN s = ReleaseFields /\ s = [f \in ReleaseFields |-> s[f]]
      /\ s.query = r.query /\ s.items = r.items /\ s.error = r.error
      /\ s.loading = r.loading /\ s.loadedAt = r.loadedAt
    BY DEF IsReleases, ReleaseFields
<1>2. R!Configured(r, is) \in {r, R!IfOnScreen(s)}
    BY DEF R!Configured
<1> HIDE DEF s
<1>3. IsReleases(s)
    BY <1>1 DEF IsReleases
<1> QED BY <1>2, <1>3, IfOnScreenIs

\* What ends a request: drawn anew if there is something new.
LEMMA EndsIs ==
    ASSUME NEW r, IsReleases(r), NEW changed \in BOOLEAN, changed \/ ReleasesOK(r)
    PROVE  ReleasesOK(R!Ends(r, changed))
<1>1. CASE changed
    <2> DEFINE s == R!WithChainOptions(r)
    <2>1. /\ DOMAIN s = ReleaseFields /\ s = [f \in ReleaseFields |-> s[f]]
          /\ s.query = r.query /\ s.items = r.items /\ s.error = r.error
          /\ s.loading = r.loading /\ s.loadedAt = r.loadedAt
        <3>1. \E c : s = [r EXCEPT !.chain = c]
            BY DEF R!WithChainOptions
        <3> HIDE DEF s
        <3> QED BY <3>1 DEF IsReleases, ReleaseFields
    <2>2. R!Ends(r, changed) = R!IfOnScreen(s)
        BY <1>1 DEF R!Ends
    <2> HIDE DEF s
    <2>3. IsReleases(s)
        BY <2>1 DEF IsReleases
    <2> QED BY <2>2, <2>3, IfOnScreenIs
<1>2. CASE ~changed
    BY <1>2 DEF R!Ends
<1> QED BY <1>1, <1>2

LEMMA RefreshIs == ASSUME NEW r, ReleasesOK(r) PROVE ReleasesOK(R!RefreshIfDue(r))
BY AskedIs DEF R!RefreshIfDue, ReleasesOK

LEMMA ReleasesStep == ReleasesOK(releases) /\ [R!Next]_<<releases, hour>> => ReleasesOK(releases)'
<1> SUFFICES ASSUME ReleasesOK(releases), [R!Next]_<<releases, hour>> PROVE ReleasesOK(releases')
    BY DEF ReleasesOK, IsReleases, R!Drawn, R!Says
<1>a. IsReleases(releases)
    BY DEF ReleasesOK
<1>1. CASE R!Probe
    <2>1. releases' = R!Asked(releases, FALSE) /\ releases.error[releases.query] = "no"
        BY <1>1 DEF R!Probe
    <2> QED BY <1>a, <2>1, AskedIs
<1>2. CASE R!Enter
    <2> DEFINE r == [releases EXCEPT !.on = TRUE]
    <2>1. releases' \in {R!Redrawn(R!Asked(r, FALSE)), R!Redrawn(r)}
        BY <1>2 DEF R!Enter
    <2>2. IsReleases(r)
        <3>1. /\ DOMAIN r = ReleaseFields /\ r = [f \in ReleaseFields |-> r[f]]
              /\ r.query = releases.query /\ r.items = releases.items /\ r.error = releases.error
              /\ r.loading = releases.loading /\ r.loadedAt = releases.loadedAt
            BY <1>a DEF IsReleases, ReleaseFields
        <3> HIDE DEF r
        <3> QED BY <1>a, <3>1 DEF IsReleases
    <2> HIDE DEF r
    <2> QED BY <2>1, <2>2, AskedIs, ReleasesRedrawn
<1>3. CASE R!Leave \/ R!TabHides
    <2> DEFINE r == [releases EXCEPT !.on = FALSE]
               s == [releases EXCEPT !.hidden = ~@]
    <2>1. releases' \in {r, s}
        BY <1>3 DEF R!Leave, R!TabHides
    <2>2. /\ DOMAIN r = ReleaseFields /\ r = [f \in ReleaseFields |-> r[f]] /\ ~r.on
          /\ r.query = releases.query /\ r.items = releases.items /\ r.error = releases.error
          /\ r.loading = releases.loading /\ r.loadedAt = releases.loadedAt
        BY <1>a DEF IsReleases, ReleaseFields
    <2>3. ReleasesOK(s)
        <3>1. /\ DOMAIN s = ReleaseFields /\ s = [f \in ReleaseFields |-> s[f]]
              /\ \A f \in ReleaseFields \ {"hidden"} : s[f] = releases[f]
            BY <1>a DEF IsReleases, ReleaseFields
        <3> HIDE DEF s
        <3>2. /\ s.on = releases.on /\ s.query = releases.query /\ s.chain = releases.chain
              /\ s.configured = releases.configured /\ s.items = releases.items /\ s.error = releases.error
              /\ s.drawn = releases.drawn /\ s.loadedAt = releases.loadedAt /\ s.loading = releases.loading
            BY <3>1 DEF ReleaseFields
        <3>3. DOMAIN s.loading = Query /\ \A q \in Query : s.loading[q] # "no" => q \notin BadRange
            BY <1>a, <3>2 DEF IsReleases
        <3> QED BY <1>a, <3>1, <3>2, <3>3, AsideIs
    <2> HIDE DEF r, s
    <2>4. ReleasesOK(r)
        BY <1>a, <2>2 DEF ReleasesOK, IsReleases
    <2> QED BY <2>1, <2>3, <2>4
<1>4. CASE R!TabShows
    <2> DEFINE s == [releases EXCEPT !.hidden = FALSE]
    <2>1. releases' = R!RefreshIfDue(s)
        BY <1>4 DEF R!TabShows
    <2>2. /\ DOMAIN s = ReleaseFields /\ s = [f \in ReleaseFields |-> s[f]]
          /\ \A f \in ReleaseFields \ {"hidden"} : s[f] = releases[f]
        BY <1>a DEF IsReleases, ReleaseFields
    <2> HIDE DEF s
    <2>3. ReleasesOK(s)
        <3>2. /\ s.on = releases.on /\ s.query = releases.query /\ s.chain = releases.chain
              /\ s.configured = releases.configured /\ s.items = releases.items /\ s.error = releases.error
              /\ s.drawn = releases.drawn /\ s.loadedAt = releases.loadedAt /\ s.loading = releases.loading
            BY <2>2 DEF ReleaseFields
        <3>3. DOMAIN s.loading = Query /\ \A q \in Query : s.loading[q] # "no" => q \notin BadRange
            BY <1>a, <3>2 DEF IsReleases
        <3> QED BY <1>a, <2>2, <3>2, <3>3, AsideIs
    <2> QED BY <2>1, <2>3, RefreshIs
<1>5. CASE R!IntervalFires
    BY <1>5, RefreshIs DEF R!IntervalFires
<1>6. CASE R!Tick \/ UNCHANGED <<releases, hour>>
    BY <1>6 DEF R!Tick
<1>7. ASSUME NEW q \in Query, R!ChangesQuery(q) PROVE ReleasesOK(releases')
    <2> DEFINE r == [releases EXCEPT !.query = q]
    <2>1. releases' = R!Redrawn(R!Asked(r, FALSE))
        BY <1>7 DEF R!ChangesQuery
    <2>2. /\ DOMAIN r = ReleaseFields /\ r = [f \in ReleaseFields |-> r[f]]
          /\ r.query = q /\ r.items = releases.items /\ r.error = releases.error
          /\ r.loading = releases.loading /\ r.loadedAt = releases.loadedAt
        BY <1>a DEF IsReleases, ReleaseFields
    <2> HIDE DEF r
    <2>3. IsReleases(r)
        BY <1>a, <2>2 DEF IsReleases
    <2> QED BY <2>1, <2>3, AskedIs, ReleasesRedrawn
<1>8. ASSUME NEW c, R!PicksChain(c) PROVE ReleasesOK(releases')
    <2> DEFINE r == [releases EXCEPT !.chain = c]
    <2>1. releases' = R!Redrawn(r)
        BY <1>8 DEF R!PicksChain
    <2>2. /\ DOMAIN r = ReleaseFields /\ r = [f \in ReleaseFields |-> r[f]]
          /\ r.query = releases.query /\ r.items = releases.items /\ r.error = releases.error
          /\ r.loading = releases.loading /\ r.loadedAt = releases.loadedAt
        BY <1>a DEF IsReleases, ReleaseFields
    <2> HIDE DEF r
    <2>3. IsReleases(r)
        BY <1>a, <2>2 DEF IsReleases
    <2> QED BY <2>1, <2>3, ReleasesRedrawn
<1>9. ASSUME NEW q \in Query, R!FailsQuietly(q) PROVE ReleasesOK(releases')
    <2> DEFINE s == [releases EXCEPT !.loading[q] = "no"]
    <2>1. releases' = s
        BY <1>9 DEF R!FailsQuietly
    <2>2. ReleasesOK(s)
        BY <1>a, NotLoadingIs
    <2> QED BY <2>1, <2>2
<1>10. ASSUME NEW q \in Query, R!Absent(q) PROVE ReleasesOK(releases')
    <2> DEFINE known == R!Configured(releases, FALSE)
               r == [known EXCEPT !.loading[q] = "no"]
    <2>1. releases' = R!Ends(r, TRUE)
        BY <1>10 DEF R!Absent
    <2>2. IsReleases(known)
        BY <1>a, ConfiguredIs
    <2> HIDE DEF known
    <2>4. IsReleases(r)
        BY <2>2, NotLoadingIs
    <2> QED BY <2>1, <2>4, EndsIs
<1>11. ASSUME NEW q \in Query, NEW hasStatus \in BOOLEAN, R!Fails(q, hasStatus) PROVE ReleasesOK(releases')
    <2> DEFINE r == [releases EXCEPT !.error[q] = "yes"]
               known == IF hasStatus /\ r.configured = None THEN R!Configured(r, TRUE) ELSE r
               s == [known EXCEPT !.loading[q] = "no"]
    <2>1. releases' = R!Ends(s, TRUE)
        BY <1>11 DEF R!Fails
    <2>2. /\ DOMAIN r = ReleaseFields /\ r = [f \in ReleaseFields |-> r[f]]
          /\ r.query = releases.query /\ r.items = releases.items /\ r.error = [releases.error EXCEPT ![q] = "yes"]
          /\ r.loading = releases.loading /\ r.loadedAt = releases.loadedAt
        BY <1>a DEF IsReleases, ReleaseFields
    <2> HIDE DEF r
    <2>3. IsReleases(r)
        BY <1>a, <2>2 DEF IsReleases
    <2>4. IsReleases(known)
        BY <2>3, ConfiguredIs
    <2> HIDE DEF known
    <2>6. IsReleases(s)
        BY <2>4, NotLoadingIs
    <2> QED BY <2>1, <2>6, EndsIs
<1>12. ASSUME NEW q \in Query, NEW answer, R!Loaded(q, answer) PROVE ReleasesOK(releases')
    <2> DEFINE kept == [releases EXCEPT !.items[q] = answer, !.error[q] = "no", !.loadedAt[q] = hour]
               known == R!Configured(kept, TRUE)
               r == [known EXCEPT !.loading[q] = "no"]
               new == R!Changed(releases, q, answer)
    <2>1. releases' = R!Ends(r, new) /\ new \in BOOLEAN
        BY <1>12 DEF R!Loaded, R!Changed
    <2>2. /\ DOMAIN kept = ReleaseFields /\ kept = [f \in ReleaseFields |-> kept[f]]
          /\ kept.query = releases.query /\ kept.loading = releases.loading
          /\ kept.on = releases.on /\ kept.drawn = releases.drawn
          /\ kept.chain = releases.chain /\ kept.configured = releases.configured
          /\ kept.items = [releases.items EXCEPT ![q] = answer]
          /\ kept.error = [releases.error EXCEPT ![q] = "no"]
          /\ kept.loadedAt = [releases.loadedAt EXCEPT ![q] = hour]
        BY <1>a DEF IsReleases, ReleaseFields
    <2> HIDE DEF kept
    <2>3. IsReleases(kept)
        BY <1>a, <2>2 DEF IsReleases
    <2>4. ~new => SameList(releases, kept)
        <3>1. releases.error[q] \in {"no", "yes"}
            BY <1>12, <1>a DEF IsReleases, R!Loaded
        <3> QED BY <1>a, <2>2, <3>1 DEF SameList, R!Changed, IsReleases
    <2>5. ~new => ReleasesOK(kept)
        BY <1>a, <2>2, <2>3, <2>4, SameListSameDrawing DEF ReleasesOK
    <2>6. IsReleases(known) /\ (~new => ReleasesOK(known))
        BY <2>3, <2>5, ConfiguredIs
    <2> HIDE DEF known, new
    <2>7. IsReleases(r) /\ (~new => ReleasesOK(r))
        BY <2>6, NotLoadingIs
    <2> QED BY <2>1, <2>7, EndsIs
<1> QED BY <1>1, <1>2, <1>3, <1>4, <1>5, <1>6, <1>7, <1>8, <1>9, <1>10, <1>11, <1>12 DEF R!Next

LEMMA ReleasesRunAlone == ClientsSpec => R!Init /\ [][R!Next]_<<releases, hour>>
<1>1. ClientsInit => R!Init
    BY DEF ClientsInit
<1>2. [ClientsNext]_everything => [R!Next]_<<releases, hour>>
    BY DEF ClientsNext, everything
<1> QED BY <1>1, <1>2, PTL DEF ClientsSpec

\* Answers of several queries come in any order and are drawn only when they say something new:
\* what is on screen is always what would be drawn now (app.js:5801).
LEMMA TheListIsAlwaysTheAnswer == ClientsSpec => []R!ListIsWhatWasAnswered
<1>1. R!Init => ReleasesOK(releases)
    <2> SUFFICES ASSUME R!Init PROVE ReleasesOK(releases)
        OBVIOUS
    <2>1. /\ DOMAIN releases = ReleaseFields /\ releases = [f \in ReleaseFields |-> releases[f]]
          /\ releases.on = FALSE /\ releases.query = FirstQuery
          /\ releases.items = [q \in Query |-> None] /\ releases.error = [q \in Query |-> "no"]
          /\ releases.loading = [q \in Query |-> "no"] /\ releases.loadedAt = [q \in Query |-> -RefreshMs]
        BY DEF R!Init, ReleaseFields
    <2>2. FirstQuery \in Query
        BY DashboardAssumption DEF R!ReleaseListAssumption
    <2> QED BY <2>1, <2>2 DEF ReleasesOK, IsReleases
<1>2. ReleasesOK(releases) => R!ListIsWhatWasAnswered
    BY DEF ReleasesOK, R!ListIsWhatWasAnswered
<1> QED BY <1>1, <1>2, ReleasesStep, ReleasesRunAlone, PTL

-----------------------------------------------------------------------------
(* The news and the forum                                                  *)

\* A finite set of numbers has a greatest: one without would have a smallest subset without.
LEMMA FiniteHasGreatest ==
    ASSUME NEW S \in SUBSET Int, IsFiniteSet(S), S # {}
    PROVE  \E m \in S : \A x \in S : x <= m
<1> DEFINE Has(U) == \E m \in U : \A x \in U : x <= m
           Bad == {U \in SUBSET S : U # {} /\ ~Has(U)}
           Less == StrictSubsetOrdering(S)
<1> SUFFICES ASSUME ~Has(S) PROVE FALSE
    OBVIOUS
<1>1. IsWellFoundedOn(Less, SUBSET S)
    BY FS_StrictSubsetOrderingWellFounded, FS_FiniteSubsetsOfFinite
<1>2. S \in Bad
    OBVIOUS
<1>3. PICK U \in Bad : \A W \in Bad : ~(<<W, U>> \in Less)
    <2>1. Bad \subseteq SUBSET S /\ Bad # {}
        BY <1>2
    <2> HIDE DEF Bad, Less
    <2> QED BY <1>1, <2>1, WFMin
<1>4. PICK x \in U : TRUE
    BY <1>3
<1> DEFINE W == U \ {x}
<1>5. CASE W = {}
    <2>1. U = {x} /\ x \in Int
        BY <1>3, <1>4, <1>5
    <2>2. Has(U)
        BY <2>1
    <2> QED BY <1>3, <2>2
<1>6. CASE W # {}
    <2>1. <<W, U>> \in Less
        BY <1>3, <1>4 DEF StrictSubsetOrdering
    <2>2. W \in SUBSET S /\ W \notin Bad
        BY <1>3, <2>1
    <2>3. Has(W)
        BY <1>6, <2>2
    <2>4. PICK m \in W : \A y \in W : y <= m
        BY <2>3
    <2>5. m \in Int /\ x \in Int /\ m \in U /\ \A y \in U : y \in Int
        BY <1>3, <1>4, <2>4
    <2>6. CASE x <= m
        <3>1. \A y \in U : y <= m
            BY <2>4, <2>6
        <3> QED BY <1>3, <2>5, <3>1
    <2>7. CASE ~(x <= m)
        <3>1. \A y \in U : y <= x
            <4> SUFFICES ASSUME NEW y \in U PROVE y <= x
                OBVIOUS
            <4>1. y = x \/ y <= m
                BY <2>4
            <4> QED BY <2>5, <2>7, <4>1
        <3> QED BY <1>3, <1>4, <3>1
    <2> QED BY <2>6, <2>7
<1> QED BY <1>5, <1>6

GreatestOf(m, S) == m \in S /\ \A x \in S : x <= m

LEMMA MaxIs ==
    ASSUME NEW S \in SUBSET Int, NEW m, GreatestOf(m, S)
    PROVE  F!Max(S) = m
<1>1. \A x \in S : m >= x
    BY DEF GreatestOf
<1>2. F!Max(S) \in S /\ \A x \in S : F!Max(S) >= x
    <2>1. \E z \in S : \A x \in S : z >= x
        BY <1>1 DEF GreatestOf
    <2> QED BY <2>1 DEF F!Max
<1> DEFINE most == F!Max(S)
<1>3. most >= m /\ m >= most /\ most \in Int /\ m \in Int
    BY <1>1, <1>2 DEF GreatestOf
<1> HIDE DEF most
<1>4. most = m
    BY <1>3
<1> QED BY <1>4 DEF most

LEMMA FiniteMaxIs ==
    ASSUME NEW S \in SUBSET Int, IsFiniteSet(S), S # {}
    PROVE  GreatestOf(F!Max(S), S)
BY FiniteHasGreatest, MaxIs DEF GreatestOf

LEMMA MaxOfTwo ==
    ASSUME NEW a \in Int, NEW b \in Int
    PROVE  F!Max({a, b}) = IF a >= b THEN a ELSE b
<1>1. CASE a >= b
    BY <1>1, MaxIs DEF GreatestOf
<1>2. CASE ~(a >= b)
    BY <1>2, MaxIs DEF GreatestOf
<1> QED BY <1>1, <1>2

LEMMA MinOfTwo ==
    ASSUME NEW a \in Int, NEW b \in Int
    PROVE  F!Min({a, b}) = IF a <= b THEN a ELSE b
<1> DEFINE least == F!Min({a, b})
<1>1. least \in {a, b} /\ \A x \in {a, b} : least <= x
    <2>1. \E z \in {a, b} : \A x \in {a, b} : z <= x
        <3>1. CASE a <= b
            BY <3>1
        <3>2. CASE ~(a <= b)
            BY <3>2
        <3> QED BY <3>1, <3>2
    <2> QED BY <2>1 DEF F!Min
<1> HIDE DEF least
<1>2. least = IF a <= b THEN a ELSE b
    BY <1>1
<1> QED BY <1>2 DEF least

LEMMA ImageIsFinite ==
    ASSUME NEW S, IsFiniteSet(S), NEW f, DOMAIN f = S, f = [x \in S |-> f[x]]
    PROVE  IsFiniteSet({f[x] : x \in S})
<1> DEFINE Im == {f[x] : x \in S}
<1>1. f \in Surjection(S, Im)
    BY DEF Surjection
<1> HIDE DEF Im
<1>2. IsFiniteSet(Im)
    BY <1>1, FS_Surjection
<1> QED BY <1>2 DEF Im

LEMMA RangeIs ==
    ASSUME NEW S, NEW s \in Seq(S)
    PROVE  F!Range(s) \subseteq S /\ IsFiniteSet(F!Range(s))
<1>1. DOMAIN s = 1 .. Len(s) /\ s = [i \in 1 .. Len(s) |-> s[i]] /\ Len(s) \in Nat
    OBVIOUS
<1>2. IsFiniteSet(1 .. Len(s))
    <2>1. 1 \in Int /\ Len(s) \in Int
        BY <1>1
    <2> QED BY <2>1, FS_Interval
<1>3. IsFiniteSet({s[i] : i \in 1 .. Len(s)})
    BY <1>1, <1>2, ImageIsFinite
<1> QED BY <1>1, <1>3 DEF F!Range

-----------------------------------------------------------------------------

ScreenFields ==
    {"on", "loaded", "loading", "unreachable", "stories", "scope", "class", "chips", "due", "drawn",
     "groups", "filter", "tiles"}

\* r is s but for some fields.
But(s, r, changed) ==
    /\ DOMAIN r = ScreenFields /\ r = [f \in ScreenFields |-> r[f]]
    /\ \A f \in ScreenFields \ changed : r[f] = s[f]

StoryFields == {"at", "sources", "count", "chain", "class"}

IsScreen(s) ==
    /\ But(s, s, {}) /\ (s.loaded => ~s.unreachable)
    /\ \A id \in DOMAIN s.stories : DOMAIN s.stories[id] = StoryFields

\* A list is filtered by a class only where some story is classified.
IsClassed(s) == kind = "news" /\ s.class # "all" => F!ClassChips(s) # {}

NewsIsDrawn(s) == s.loaded => s.drawn = F!Drawn(s)

ForumIsDrawn(s) ==
    s.loaded => /\ s.drawn = F!Listed(s)
                /\ s.tiles = [x \in DOMAIN s.groups |-> Cardinality(DOMAIN s.groups[x])]

IsShown(s) == IF kind = "news" THEN NewsIsDrawn(s) ELSE ForumIsDrawn(s)

IsGrouped(s) == kind = "forum" /\ s.loaded => s.groups = F!GroupByForum(s)

LEMMA ButIsScreen ==
    ASSUME NEW s, IsScreen(s), NEW r, NEW changed, But(s, r, changed),
           "loaded" \notin changed, "unreachable" \notin changed, "stories" \notin changed
    PROVE  IsScreen(r)
BY DEF IsScreen, But, ScreenFields

LEMMA ShownIs ==
    ASSUME NEW s, IsScreen(s)
    PROVE  LET r == F!Shown(s) IN But(s, r, {"drawn", "chips", "tiles"}) /\ IsShown(r)
<1> DEFINE r == F!Shown(s)
<1>1. CASE kind = "news"
    <2> DEFINE u == [s EXCEPT !.drawn = None, !.chips = {}]
               d == [s EXCEPT !.drawn = F!Drawn(s)]
    <2>1. r = IF s.unreachable THEN u ELSE IF s.loaded THEN d ELSE s
        BY <1>1 DEF F!Shown, F!RenderNewsList, F!Unavailable
    <2>2. But(s, u, {"drawn", "chips", "tiles"})
        BY DEF IsScreen, But, ScreenFields
    <2>3. But(s, d, {"drawn", "chips", "tiles"}) /\ d.drawn = F!Drawn(s)
        BY DEF IsScreen, But, ScreenFields
    <2>4. But(s, s, {"drawn", "chips", "tiles"})
        BY DEF IsScreen, But
    <2> HIDE DEF u, d
    <2>5. But(s, r, {"drawn", "chips", "tiles"})
        BY <2>1, <2>2, <2>3, <2>4
    <2>6. s.loaded => r = d
        BY <2>1 DEF IsScreen
    <2>7. d.stories = s.stories /\ d.scope = s.scope /\ d.class = s.class
        BY <2>3 DEF But, ScreenFields
    <2>8. F!Drawn(d) = F!Drawn(s)
        BY <2>7 DEF F!Drawn, F!Visible, F!Known
    <2>9. r.loaded = s.loaded
        BY <2>5 DEF But, ScreenFields
    <2> HIDE DEF r
    <2> QED BY <1>1, <2>3, <2>5, <2>6, <2>8, <2>9 DEF IsShown, NewsIsDrawn, r
<1>2. CASE kind # "news"
    <2> DEFINE counts == [x \in DOMAIN s.groups |-> Cardinality(DOMAIN s.groups[x])]
               t == [s EXCEPT !.tiles = counts]
               d == [t EXCEPT !.drawn = F!Listed(t)]
    <2>0. counts = [x \in DOMAIN s.groups |-> F!Cardinality(DOMAIN s.groups[x])]
        BY DEF Cardinality, F!Cardinality
    <2>1. r = IF t.loaded THEN d ELSE t
        BY <1>2, <2>0 DEF F!Shown, F!RenderForum, F!RenderForumList, F!RenderForumTreemap
    <2> HIDE DEF counts
    <2>2. But(s, t, {"drawn", "chips", "tiles"}) /\ t.tiles = counts
        BY DEF IsScreen, But, ScreenFields
    <2> HIDE DEF t
    <2>3. But(s, d, {"drawn", "chips", "tiles"}) /\ d.drawn = F!Listed(t) /\ d.tiles = t.tiles
        BY <2>2 DEF But, ScreenFields
    <2> HIDE DEF d
    <2>4. d.groups = s.groups /\ d.filter = s.filter /\ t.groups = s.groups /\ t.filter = s.filter
        BY <2>2, <2>3 DEF But, ScreenFields
    <2>5. F!Listed(d) = F!Listed(t)
        BY <2>4 DEF F!Listed
    <2>6. But(s, r, {"drawn", "chips", "tiles"})
        BY <2>1, <2>2, <2>3
    <2>7. r.loaded = s.loaded /\ t.loaded = s.loaded
        BY <2>2, <2>6 DEF But, ScreenFields
    <2>8. r.loaded => r = d
        BY <2>1, <2>7
    <2> HIDE DEF r
    <2>9. ForumIsDrawn(r)
        BY <2>2, <2>3, <2>4, <2>5, <2>8 DEF ForumIsDrawn, counts
    <2> QED BY <1>2, <2>6, <2>9 DEF IsShown, r
<1> QED BY <1>1, <1>2

LEMMA ChipsAre ==
    ASSUME NEW s, IsScreen(s)
    PROVE  LET t == F!WithClassChips(s)
           IN  /\ But(s, t, {"chips", "class"}) /\ IsScreen(t) /\ IsClassed(t)
               /\ IsClassed(s) /\ kind = "news" => t.class = s.class
<1> DEFINE none == [s EXCEPT !.chips = {}, !.class = "all"]
           some == [s EXCEPT !.chips = F!ClassChips(s) \cup {"all"}]
           t == F!WithClassChips(s)
<1>1. t = IF F!ClassChips(s) = {} THEN none ELSE some
    BY DEF F!WithClassChips
<1>2. But(s, none, {"chips", "class"}) /\ none.class = "all"
    BY DEF IsScreen, But, ScreenFields
<1>3. But(s, some, {"chips"}) /\ some.class = s.class
    BY DEF IsScreen, But, ScreenFields
<1> HIDE DEF none, some
<1>4. But(s, t, {"chips", "class"}) /\ (t.class # "all" => F!ClassChips(s) # {})
    BY <1>1, <1>2, <1>3 DEF But
<1>5. IsClassed(s) /\ kind = "news" => t.class = s.class
    BY <1>1, <1>2, <1>3 DEF IsClassed
<1> HIDE DEF t
<1>6. t.stories = s.stories
    BY <1>4 DEF But, ScreenFields
<1>7. F!ClassChips(t) = F!ClassChips(s)
    BY <1>6 DEF F!ClassChips, F!Known
<1>8. IsScreen(t)
    BY <1>4, ButIsScreen
<1> QED BY <1>4, <1>5, <1>7, <1>8 DEF IsClassed, t

LEMMA RenderedIs ==
    ASSUME NEW s, IsScreen(s)
    PROVE  LET r == F!Rendered(s)
           IN  But(s, r, {"drawn", "chips", "tiles", "class"}) /\ IsShown(r) /\ IsScreen(r) /\ IsClassed(r)
<1> DEFINE r == F!Rendered(s)
<1>1. CASE kind = "news"
    <2> DEFINE t == F!WithClassChips(s)
    <2>1. But(s, t, {"chips", "class"}) /\ IsScreen(t) /\ IsClassed(t)
        BY ChipsAre
    <2>2. r = F!Shown(t)
        BY <1>1 DEF F!Rendered
    <2> HIDE DEF t, r
    <2>3. But(t, r, {"drawn", "chips", "tiles"}) /\ IsShown(r)
        BY <2>1, <2>2, ShownIs
    <2>4. But(s, r, {"drawn", "chips", "tiles", "class"})
        BY <2>1, <2>3 DEF But
    <2>5. r.class = t.class /\ r.stories = t.stories
        BY <2>3 DEF But, ScreenFields
    <2>6. IsClassed(r)
        BY <2>1, <2>5 DEF IsClassed, F!ClassChips, F!Known
    <2>7. IsScreen(r)
        BY <2>1, <2>3, ButIsScreen
    <2> QED BY <2>3, <2>4, <2>6, <2>7 DEF r
<1>2. CASE kind # "news"
    <2>1. r = F!Shown(s)
        BY <1>2 DEF F!Rendered
    <2> HIDE DEF r
    <2>2. But(s, r, {"drawn", "chips", "tiles"}) /\ IsShown(r)
        BY <2>1, ShownIs
    <2>3. IsScreen(r)
        BY <2>2, ButIsScreen
    <2>4. But(s, r, {"drawn", "chips", "tiles", "class"})
        BY <2>2 DEF But
    <2> QED BY <1>2, <2>2, <2>3, <2>4 DEF IsClassed, r
<1> QED BY <1>1, <1>2

-----------------------------------------------------------------------------

FeedFrame == {F!Hello} \cup {F!Item(a) : a \in Article}
                \cup {F!Classified(a.story, class) : a \in Article, class \in StoryClass}

LEMMA FrameIs ==
    ASSUME NEW f \in FeedFrame
    PROVE  /\ f.is \in {"hello", "item", "class"}
           /\ f.is = "item" => f.at \in Int
           /\ f.is = "class" => f.class \in StoryClass
<1>1. CASE f = F!Hello
    BY <1>1 DEF F!Hello, F!Classified
<1>2. ASSUME NEW a \in Article, f = F!Item(a) PROVE f.is = "item" /\ f.at \in Int
    BY <1>2, DashboardAssumption DEF F!Item, F!FeedAssumption
<1>3. ASSUME NEW a \in Article, NEW class \in StoryClass, f = F!Classified(a.story, class)
      PROVE  f.is = "class" /\ f.class = class
    BY <1>3 DEF F!Classified
<1> QED BY <1>1, <1>2, <1>3 DEF FeedFrame

LEMMA SetToSeqIs ==
    ASSUME NEW S, IsFiniteSet(S)
    PROVE  F!SetToSeq(S) \in Seq(S)
<1>1. Cardinality(S) \in Nat /\ ExistsBijection(1 .. Cardinality(S), S)
    BY FS_CardinalityType
<1>2. PICK g \in [1 .. Cardinality(S) -> S] : F!IsInjective(g)
    BY <1>1 DEF ExistsBijection, Bijection, Injection, IsInjective, F!IsInjective
<1>3. F!SetToSeq(S) \in [1 .. Cardinality(S) -> S]
    BY <1>2 DEF F!SetToSeq, F!Cardinality, Cardinality
<1> QED BY <1>1, <1>3

FeedTypeOK ==
    /\ kind \in {"news", "forum"}
    /\ IsScreen(screen)
    /\ link = [is |-> link.is, tries |-> link.tries, wire |-> link.wire]
    /\ link.wire \in Seq(FeedFrame) /\ feed \in Seq(FeedFrame)
    /\ screen.loading => ~screen.loaded
    /\ ~screen.loaded => link.is = "none" /\ link.wire = <<>>

\* What is drawn and not due is of what the page has; of a forum what is drawn is of its groups.
FeedInv ==
    /\ IsClassed(screen)
    /\ ~screen.due => IsGrouped(screen)
    /\ screen.on /\ (kind = "news" => ~screen.due) => IsShown(screen)

LEMMA KeepsClassed ==
    ASSUME NEW s, NEW r, NEW changed, But(s, r, changed), IsClassed(s),
           "stories" \notin changed, "class" \notin changed
    PROVE  IsClassed(r)
<1>1. r.stories = s.stories /\ r.class = s.class
    BY DEF But, ScreenFields
<1> QED BY <1>1 DEF IsClassed, F!ClassChips, F!Known

LEMMA KeepsGrouped ==
    ASSUME NEW s, NEW r, NEW changed, But(s, r, changed), IsGrouped(s),
           "stories" \notin changed, "groups" \notin changed, "loaded" \notin changed
    PROVE  IsGrouped(r)
<1>1. r.stories = s.stories /\ r.groups = s.groups /\ r.loaded = s.loaded
    BY DEF But, ScreenFields
<1> QED BY <1>1 DEF IsGrouped, F!GroupByForum, F!Known

\* A forum's list and tiles are of its groups, whatever is told of its threads.
LEMMA KeepsShown ==
    ASSUME NEW s, NEW r, NEW changed, But(s, r, changed), IsShown(s),
           changed \cap {"loaded", "scope", "class", "drawn", "groups", "filter", "tiles"} = {},
           kind = "news" => "stories" \notin changed
    PROVE  IsShown(r)
<1>1. /\ r.loaded = s.loaded /\ r.scope = s.scope /\ r.class = s.class /\ r.drawn = s.drawn
      /\ r.groups = s.groups /\ r.filter = s.filter /\ r.tiles = s.tiles
    BY DEF But, ScreenFields
<1>2. kind = "news" => r.stories = s.stories
    BY DEF But, ScreenFields
<1>3. F!Listed(r) = F!Listed(s)
    BY <1>1 DEF F!Listed
<1>4. kind = "news" => F!Drawn(r) = F!Drawn(s)
    BY <1>1, <1>2 DEF F!Drawn, F!Visible, F!Known
<1> QED BY <1>1, <1>3, <1>4 DEF IsShown, NewsIsDrawn, ForumIsDrawn

LEMMA RegroupedIs ==
    ASSUME NEW s, IsScreen(s)
    PROVE  LET g == F!Regrouped(s) IN But(s, g, {"groups"}) /\ IsScreen(g) /\ (kind = "forum" => g.groups = F!GroupByForum(g))
<1> DEFINE h == [s EXCEPT !.groups = F!GroupByForum(s)]
           g == F!Regrouped(s)
<1>1. But(s, h, {"groups"}) /\ h.groups = F!GroupByForum(s)
    BY DEF IsScreen, But, ScreenFields
<1>2. g = IF kind = "forum" THEN h ELSE s
    BY DEF F!Regrouped, F!RegroupForum
<1> HIDE DEF h
<1>3. But(s, g, {"groups"})
    BY <1>1, <1>2 DEF IsScreen, But
<1>4. h.stories = s.stories
    BY <1>1 DEF But, ScreenFields
<1>5. F!GroupByForum(h) = F!GroupByForum(s)
    BY <1>4 DEF F!GroupByForum, F!Known
<1> HIDE DEF g
<1>6. IsScreen(g)
    BY <1>3, ButIsScreen
<1> QED BY <1>1, <1>2, <1>3, <1>5, <1>6 DEF g

\* What an article changes are the stories, of which none loses its class.
LEMMA ToldIs ==
    ASSUME NEW s, IsScreen(s), IsClassed(s), NEW f,
           NEW r, r = IF kind = "news" THEN F!UpsertArticle(s, f) ELSE F!UpsertForumPost(s, f)
    PROVE  But(s, r, {"stories"}) /\ IsScreen(r) /\ IsClassed(r)
<1> DEFINE one == F!OneArticle(f)
           more == F!Stored([x \in {f.story} |-> one], s.stories)
           grown == [s.stories EXCEPT ![f.story] = F!Merged(f, s.stories[f.story])]
           new == [s EXCEPT !.stories = more]
           merged == [s EXCEPT !.stories = grown]
<1>1. \/ r = s
      \/ r = new /\ (kind = "news" => f.story \notin F!Known(s))
      \/ r = merged /\ kind = "news" /\ f.story \in F!Known(s)
    BY DEF F!UpsertArticle, F!UpsertStory, F!UpsertForumPost
<1>2. /\ DOMAIN more = {f.story} \cup DOMAIN s.stories
      /\ more[f.story] = one
      /\ \A id \in DOMAIN s.stories : id # f.story => more[id] = s.stories[id]
      /\ DOMAIN one = StoryFields
    <2>1. DOMAIN one = StoryFields
        BY DEF F!OneArticle, StoryFields
    <2> HIDE DEF one
    <2> QED BY <2>1 DEF F!Stored
<1>3. f.story \in F!Known(s) =>
      /\ DOMAIN grown = DOMAIN s.stories
      /\ \A id \in DOMAIN s.stories : DOMAIN grown[id] = StoryFields /\ grown[id].class = s.stories[id].class
    <2> SUFFICES ASSUME f.story \in F!Known(s), NEW id \in DOMAIN s.stories
                 PROVE  /\ DOMAIN grown = DOMAIN s.stories
                        /\ DOMAIN grown[id] = StoryFields /\ grown[id].class = s.stories[id].class
        OBVIOUS
    <2> DEFINE old == s.stories[id]
               b == F!Merged(f, old)
    <2>1. DOMAIN old = StoryFields
        BY DEF IsScreen
    <2>2. DOMAIN b = StoryFields /\ b.class = old.class
        <3>1. b \in {[old EXCEPT !.at = F!Max({old.at, f.at})],
                     [old EXCEPT !.sources = old.sources \cup {f.source}, !.count = old.count + 1, !.at = F!Max({old.at, f.at})]}
            BY DEF F!Merged
        <3> HIDE DEF old, b
        <3> QED BY <2>1, <3>1 DEF StoryFields
    <2>3. grown[id] \in {old, b} /\ DOMAIN grown = DOMAIN s.stories
        OBVIOUS
    <2> HIDE DEF old, b, grown
    <2> QED BY <2>1, <2>2, <2>3 DEF old
<1> HIDE DEF one, more, grown
<1>4. CASE r = s
    BY <1>4 DEF But, IsScreen
<1>5. CASE r = new /\ (kind = "news" => f.story \notin F!Known(s))
    <2>1. But(s, new, {"stories"}) /\ new.stories = more
        BY DEF IsScreen, But, ScreenFields
    <2> HIDE DEF new
    <2>2. new.loaded = s.loaded /\ new.unreachable = s.unreachable /\ new.class = s.class
        BY <2>1 DEF But, ScreenFields
    <2>3. IsScreen(new)
        BY <1>2, <2>1, <2>2 DEF IsScreen, But
    <2>4. IsClassed(new)
        BY <1>2, <1>5, <2>1, <2>2 DEF IsClassed, F!ClassChips, F!Known
    <2> QED BY <1>5, <2>1, <2>3, <2>4
<1>6. CASE r = merged /\ kind = "news" /\ f.story \in F!Known(s)
    <2>1. But(s, merged, {"stories"}) /\ merged.stories = grown
        BY DEF IsScreen, But, ScreenFields
    <2> HIDE DEF merged
    <2>2. merged.loaded = s.loaded /\ merged.unreachable = s.unreachable /\ merged.class = s.class
        BY <2>1 DEF But, ScreenFields
    <2>3. IsScreen(merged)
        BY <1>3, <1>6, <2>1, <2>2 DEF IsScreen, But
    <2>4. IsClassed(merged)
        BY <1>3, <1>6, <2>1, <2>2 DEF IsClassed, F!ClassChips, F!Known
    <2> QED BY <1>6, <2>1, <2>3, <2>4
<1> QED BY <1>1, <1>4, <1>5, <1>6

\* A frame that arrives changes nothing that is drawn, or what is drawn is due.
LEMMA ReceivedIs ==
    ASSUME NEW s, s = screen, IsScreen(s), IsClassed(s), NEW f \in FeedFrame
    PROVE  LET r == F!Received(f)
           IN  /\ IsScreen(r) /\ IsClassed(r)
               /\ But(s, r, {"chips"}) \/ (But(s, r, {"stories", "due"}) /\ r.due = TRUE)
<1> DEFINE r == F!Received(f)
<1>1. CASE f.is = "hello"
    <2> DEFINE t == F!WithClassChips(s)
    <2>1. r = IF kind = "news" THEN t ELSE s
        BY <1>1 DEF F!Received
    <2>2. But(s, t, {"chips", "class"}) /\ IsScreen(t) /\ IsClassed(t) /\ (kind = "news" => t.class = s.class)
        BY ChipsAre
    <2> HIDE DEF t
    <2>3. kind = "news" => But(s, t, {"chips"})
        BY <2>2 DEF But
    <2>4. But(s, s, {"chips"})
        BY DEF IsScreen, But
    <2> QED BY <2>1, <2>2, <2>3, <2>4
<1>2. CASE f.is = "item"
    <2> DEFINE t == IF kind = "news" THEN F!UpsertArticle(s, f) ELSE F!UpsertForumPost(s, f)
               d == [t EXCEPT !.due = TRUE]
    <2>1. r = IF t.stories = s.stories THEN t ELSE d
        BY <1>2 DEF F!Received, F!Due
    <2> HIDE DEF r
    <2>2. But(s, t, {"stories"}) /\ IsScreen(t) /\ IsClassed(t)
        BY ToldIs
    <2> HIDE DEF t
    <2>3. But(t, d, {"due"}) /\ d.due = TRUE
        BY <2>2 DEF IsScreen, But, ScreenFields
    <2> HIDE DEF d
    <2>4. IsScreen(d) /\ IsClassed(d)
        BY <2>2, <2>3, ButIsScreen, KeepsClassed
    <2>5. t.stories = s.stories => But(s, t, {"chips"})
        BY <2>2 DEF But
    <2>6. But(s, d, {"stories", "due"})
        BY <2>2, <2>3 DEF But
    <2> QED BY <2>1, <2>2, <2>3, <2>4, <2>5, <2>6 DEF r
<1>3. CASE f.is = "class"
    <2> DEFINE d == [s EXCEPT !.stories[f.story].class = f.class, !.due = TRUE]
               more == [s.stories EXCEPT ![f.story].class = f.class]
    <2>1. r = IF f.story \in F!Known(s) THEN d ELSE s
        BY <1>3 DEF F!Received
    <2> HIDE DEF r
    <2>2. But(s, d, {"stories", "due"}) /\ d.due = TRUE /\ d.stories = more
        BY DEF IsScreen, But, ScreenFields
    <2> HIDE DEF d
    <2>3. ASSUME f.story \in F!Known(s)
          PROVE  /\ DOMAIN more = DOMAIN s.stories
                 /\ \A id \in DOMAIN s.stories : DOMAIN more[id] = StoryFields
                 /\ more[f.story].class = f.class
        BY <2>3 DEF IsScreen, StoryFields, F!Known
    <2> HIDE DEF more
    <2>4. f.class # None
        BY <1>3, FrameIs, DashboardAssumption DEF F!FeedAssumption
    <2>5. d.loaded = s.loaded /\ d.unreachable = s.unreachable
        BY <2>2 DEF But, ScreenFields
    <2>6. f.story \in F!Known(s) => IsScreen(d)
        BY <2>2, <2>3, <2>5 DEF IsScreen, But
    <2>7. f.story \in F!Known(s) => IsClassed(d)
        BY <2>2, <2>3, <2>4 DEF IsClassed, F!ClassChips, F!Known
    <2>8. But(s, s, {"chips"})
        BY DEF IsScreen, But
    <2> QED BY <2>1, <2>2, <2>6, <2>7, <2>8 DEF r
<1> QED BY <1>1, <1>2, <1>3, FrameIs

FeedOK == FeedTypeOK /\ FeedInv

LEMMA LoadedIs ==
    ASSUME FeedOK, F!LoadEnds
    PROVE  /\ IsScreen(screen') /\ IsClassed(screen') /\ screen'.loaded /\ ~screen'.loading
           /\ IsShown(screen') /\ IsGrouped(screen')
           /\ screen'.stories = F!Stored(F!StoriesOf(feed), screen.stories)
<1> DEFINE new == F!StoriesOf(feed)
           all == F!Stored(new, screen.stories)
           s == [screen EXCEPT !.stories = all]
           g == F!Regrouped(s)
           l == [g EXCEPT !.loaded = TRUE, !.loading = FALSE, !.unreachable = FALSE]
<1>1. screen' = F!Rendered(l)
    BY DEF F!LoadEnds, F!Loaded
<1>2. \A id \in DOMAIN new : DOMAIN new[id] = StoryFields
    <2> SUFFICES ASSUME NEW id \in DOMAIN new PROVE DOMAIN new[id] = StoryFields
        OBVIOUS
    <2>1. DOMAIN F!Grouped(feed, id) = StoryFields
        BY DEF F!Grouped, StoryFields
    <2>2. \A f : DOMAIN F!OneArticle(f) = StoryFields
        BY DEF F!OneArticle, StoryFields
    <2>3. \E f : new[id] \in {F!Grouped(feed, id), F!OneArticle(f)}
        BY DEF F!StoriesOf
    <2> HIDE DEF new
    <2> QED BY <2>1, <2>2, <2>3
<1> HIDE DEF new
<1>3. \A id \in DOMAIN all : DOMAIN all[id] = StoryFields
    BY <1>2 DEF F!Stored, FeedOK, FeedTypeOK, IsScreen
<1> HIDE DEF all
<1>4. But(screen, s, {"stories"}) /\ s.stories = all
    BY DEF FeedOK, FeedTypeOK, IsScreen, But, ScreenFields
<1> HIDE DEF s
<1>5. IsScreen(s)
    <2>1. s.loaded = screen.loaded /\ s.unreachable = screen.unreachable
        BY <1>4 DEF But, ScreenFields
    <2> QED BY <1>3, <1>4, <2>1 DEF FeedOK, FeedTypeOK, IsScreen, But
<1>6. But(s, g, {"groups"}) /\ IsScreen(g) /\ (kind = "forum" => g.groups = F!GroupByForum(g))
    BY <1>5, RegroupedIs
<1> HIDE DEF g
<1>7. But(g, l, {"loaded", "loading", "unreachable"}) /\ l.loaded = TRUE /\ l.loading = FALSE /\ l.unreachable = FALSE
    BY <1>6 DEF IsScreen, But, ScreenFields
<1> HIDE DEF l
<1>8. l.stories = g.stories /\ l.groups = g.groups
    BY <1>7 DEF But, ScreenFields
<1>9. IsScreen(l) /\ IsGrouped(l)
    <2>1. IsScreen(l)
        BY <1>6, <1>7, <1>8 DEF IsScreen, But
    <2>2. F!GroupByForum(l) = F!GroupByForum(g)
        BY <1>8 DEF F!GroupByForum, F!Known
    <2> QED BY <1>6, <1>8, <2>1, <2>2 DEF IsGrouped
<1>10. But(l, screen', {"drawn", "chips", "tiles", "class"}) /\ IsShown(screen') /\ IsScreen(screen') /\ IsClassed(screen')
    BY <1>1, <1>9, RenderedIs
<1>11. screen'.loaded = TRUE /\ screen'.loading = FALSE
    BY <1>7, <1>10 DEF But, ScreenFields
<1>12. IsGrouped(screen')
    BY <1>9, <1>10, KeepsGrouped
<1>13. screen'.stories = all
    <2>1. screen'.stories = l.stories
        BY <1>10 DEF But, ScreenFields
    <2>2. g.stories = s.stories
        BY <1>6 DEF But, ScreenFields
    <2> QED BY <1>4, <1>8, <2>1, <2>2
<1> QED BY <1>10, <1>11, <1>12, <1>13 DEF all, new

FeedScreen(s) ==
    /\ IsScreen(s) /\ IsClassed(s) /\ (s.loading => ~s.loaded)
    /\ ~s.due => IsGrouped(s)
    /\ s.on /\ (kind = "news" => ~s.due) => IsShown(s)

LEMMA FeedStep == FeedOK /\ [F!Next]_feedVars => FeedOK'
<1> SUFFICES ASSUME FeedOK, [F!Next]_feedVars PROVE FeedOK'
    OBVIOUS
<1>a. FeedScreen(screen) /\ link = [is |-> link.is, tries |-> link.tries, wire |-> link.wire]
    BY DEF FeedOK, FeedTypeOK, FeedInv, FeedScreen
<1>b. ASSUME kind' = kind, FeedScreen(screen'), feed' \in Seq(FeedFrame),
             link' = [is |-> link'.is, tries |-> link'.tries, wire |-> link'.wire], link'.wire \in Seq(FeedFrame),
             ~screen'.loaded => link'.is = "none" /\ link'.wire = <<>>
      PROVE  FeedOK'
    BY <1>b DEF FeedOK, FeedTypeOK, FeedInv, FeedScreen, IsClassed, IsGrouped, IsShown, NewsIsDrawn, ForumIsDrawn
<1>c. ASSUME kind' = kind, screen' = screen, feed' \in Seq(FeedFrame),
             link' = [is |-> link'.is, tries |-> link'.tries, wire |-> link'.wire], link'.wire \in Seq(FeedFrame),
             ~screen.loaded => link'.is = "none" /\ link'.wire = <<>>
      PROVE  FeedOK'
    BY <1>a, <1>b, <1>c DEF FeedOK, FeedTypeOK
<1>d. ASSUME kind' = kind, FeedScreen(screen'), screen'.loaded = screen.loaded, feed' = feed, link' = link
      PROVE  FeedOK'
    BY <1>b, <1>d DEF FeedOK, FeedTypeOK
<1>1. ASSUME NEW f \in FeedFrame, F!Publishes(f) PROVE FeedOK'
    <2>1. feed' \in Seq(FeedFrame) /\ kind' = kind /\ screen' = screen
        BY <1>1 DEF F!Publishes, FeedOK, FeedTypeOK
    <2>2. link' = [link EXCEPT !.wire = IF link.is = "open" THEN Append(link.wire, f) ELSE link.wire]
        BY <1>1 DEF F!Publishes
    <2>3. /\ link'.is = link.is /\ link'.wire \in {link.wire, Append(link.wire, f)}
          /\ link.is = "none" => link'.wire = link.wire
          /\ link' = [is |-> link'.is, tries |-> link'.tries, wire |-> link'.wire]
        BY <1>a, <2>2
    <2>4. link'.wire \in Seq(FeedFrame)
        BY <2>3 DEF FeedOK, FeedTypeOK
    <2> QED BY <2>1, <2>3, <2>4, <1>c DEF FeedOK, FeedTypeOK
<1>2. CASE F!PublishesArticle \/ F!ClassifiesStory
    <2>1. \A a \in Article : F!Item(a) \in FeedFrame
        BY DEF FeedFrame
    <2>2. CASE F!PublishesArticle
        BY <1>1, <2>1, <2>2 DEF F!PublishesArticle
    <2>3. CASE F!ClassifiesStory
        <3>1. PICK f \in F!Items(F!Range(feed)), class \in StoryClass : F!Publishes(F!Classified(f.story, class))
            BY <2>3 DEF F!ClassifiesStory
        <3>2. f \in FeedFrame /\ f.is = "item"
            BY <3>1 DEF F!Items, F!Range, FeedOK, FeedTypeOK
        <3>3. PICK a \in Article : f.story = a.story
            <4>1. f # F!Hello /\ \A x, c : f # F!Classified(x, c)
                BY <3>2 DEF F!Hello, F!Classified
            <4>2. \A a \in Article : F!Item(a).story = a.story
                BY DEF F!Item
            <4> QED BY <3>2, <4>1, <4>2 DEF FeedFrame
        <3>4. F!Classified(f.story, class) \in FeedFrame
            BY <3>3 DEF FeedFrame
        <3> QED BY <1>1, <3>1, <3>4
    <2> QED BY <1>2, <2>2, <2>3
<1>3. CASE F!Enter
    <2> DEFINE s == [screen EXCEPT !.on = TRUE, !.loading = ~screen.loaded]
    <2>1. screen' = F!Shown(s) /\ UNCHANGED <<kind, link, feed>>
        BY <1>3 DEF F!Enter
    <2>2. But(screen, s, {"on", "loading"}) /\ s.loading = ~screen.loaded
        BY <1>a DEF FeedScreen, IsScreen, But, ScreenFields
    <2> HIDE DEF s
    <2>3. IsScreen(s) /\ IsClassed(s) /\ (~screen.due => IsGrouped(s)) /\ s.due = screen.due /\ s.loaded = screen.loaded
        BY <1>a, <2>2, ButIsScreen, KeepsClassed, KeepsGrouped DEF FeedScreen, But, ScreenFields
    <2>4. But(s, screen', {"drawn", "chips", "tiles"}) /\ IsShown(screen')
        BY <2>1, <2>3, ShownIs
    <2>5. IsScreen(screen') /\ IsClassed(screen') /\ (~s.due => IsGrouped(screen'))
        BY <2>3, <2>4, ButIsScreen, KeepsClassed, KeepsGrouped
    <2>6. screen'.loading = s.loading /\ screen'.loaded = s.loaded /\ screen'.due = s.due
        BY <2>4 DEF But, ScreenFields
    <2> QED BY <1>d, <2>1, <2>2, <2>3, <2>4, <2>5, <2>6 DEF FeedScreen
<1>4. CASE F!Leave
    <2> DEFINE s == [screen EXCEPT !.on = FALSE]
    <2>1. screen' = s /\ UNCHANGED <<kind, link, feed>>
        BY <1>4 DEF F!Leave
    <2>2. But(screen, s, {"on"}) /\ s.on = FALSE
        BY <1>a DEF FeedScreen, IsScreen, But, ScreenFields
    <2> HIDE DEF s
    <2>3. IsScreen(s) /\ IsClassed(s) /\ (~screen.due => IsGrouped(s))
        BY <1>a, <2>2, ButIsScreen, KeepsClassed, KeepsGrouped DEF FeedScreen
    <2>4. s.loading = screen.loading /\ s.loaded = screen.loaded /\ s.due = screen.due
        BY <2>2 DEF But, ScreenFields
    <2> QED BY <1>a, <1>d, <2>1, <2>2, <2>3, <2>4 DEF FeedScreen
<1>5. CASE F!LoadEnds
    <2>1. FeedScreen(screen')
        BY <1>5, LoadedIs DEF FeedScreen
    <2>2. link' = [link EXCEPT !.is = "connecting", !.wire = <<>>] /\ UNCHANGED <<kind, feed>>
        BY <1>5 DEF F!LoadEnds, F!Connecting
    <2>3. link' = [is |-> link'.is, tries |-> link'.tries, wire |-> link'.wire] /\ link'.wire = <<>>
        BY <1>a, <2>2
    <2>4. <<>> \in Seq(FeedFrame)
        OBVIOUS
    <2> QED BY <1>5, <1>b, <2>1, <2>2, <2>3, <2>4, LoadedIs DEF FeedOK, FeedTypeOK
<1>6. CASE F!LoadFails
    <2> DEFINE l == [screen EXCEPT !.loading = FALSE]
               d == [l EXCEPT !.unreachable = TRUE]
               n == [d EXCEPT !.drawn = None, !.chips = {}]
               o == [screen EXCEPT !.loading = FALSE, !.drawn = None]
    <2>1. screen' = (IF kind = "news" THEN F!Unavailable([screen EXCEPT !.loading = FALSE, !.unreachable = TRUE]) ELSE o)
          /\ UNCHANGED <<kind, link, feed>> /\ screen.loading
        BY <1>6 DEF F!LoadFails
    <2>2. F!Unavailable([screen EXCEPT !.loading = FALSE, !.unreachable = TRUE]) = n
        BY DEF F!Unavailable
    <2>3. But(screen, n, {"loading", "unreachable", "drawn", "chips"}) /\ n.loading = FALSE
        BY <1>a DEF FeedScreen, IsScreen, But, ScreenFields
    <2>4. But(screen, o, {"loading", "drawn"}) /\ o.loading = FALSE
        BY <1>a DEF FeedScreen, IsScreen, But, ScreenFields
    <2> HIDE DEF n, o
    <2>5. But(screen, screen', {"loading", "unreachable", "drawn", "chips"}) /\ screen'.loading = FALSE
        BY <2>1, <2>2, <2>3, <2>4 DEF But
    <2>6. screen'.loaded = screen.loaded /\ ~screen.loaded /\ screen'.stories = screen.stories
        BY <1>a, <2>1, <2>5 DEF But, ScreenFields, FeedScreen
    <2>7. IsScreen(screen')
        BY <1>a, <2>5, <2>6 DEF FeedScreen, IsScreen, But
    <2>8. IsClassed(screen')
        BY <1>a, <2>5, KeepsClassed DEF FeedScreen
    <2> QED BY <1>d, <2>1, <2>5, <2>6, <2>7, <2>8 DEF FeedScreen, IsGrouped, IsShown, NewsIsDrawn, ForumIsDrawn
<1>7. CASE F!SocketOpens
    <2> DEFINE newest == F!Items(F!Range(SubSeq(feed, Len(feed) - F!Min({Fresh, Len(feed)}) + 1, Len(feed))))
    <2>1. link' = [is |-> "open", tries |-> 0, wire |-> <<F!Hello>> \o F!SetToSeq(newest)] /\ UNCHANGED <<kind, screen, feed>>
          /\ link.is = "connecting"
        BY <1>7 DEF F!SocketOpens
    <2>2. newest \subseteq FeedFrame /\ IsFiniteSet(newest)
        <3> DEFINE k == F!Min({Fresh, Len(feed)})
                   last == SubSeq(feed, Len(feed) - k + 1, Len(feed))
        <3>1. Fresh \in Nat /\ feed \in Seq(FeedFrame) /\ Len(feed) \in Nat
            BY DashboardAssumption DEF F!FeedAssumption, FeedOK, FeedTypeOK
        <3>2. k \in Nat /\ k <= Len(feed)
            BY <3>1, MinOfTwo
        <3> HIDE DEF k
        <3>3. last \in Seq(FeedFrame)
            BY <3>1, <3>2
        <3> HIDE DEF last
        <3>4. F!Range(last) \subseteq FeedFrame /\ IsFiniteSet(F!Range(last))
            BY <3>3, RangeIs
        <3>5. newest = {f \in F!Range(last) : f.is = "item"}
            BY DEF last, k, F!Items
        <3>6. newest \in SUBSET F!Range(last)
            BY <3>5
        <3> HIDE DEF newest
        <3> QED BY <3>4, <3>6, FS_Subset
    <2> HIDE DEF newest
    <2>3. F!SetToSeq(newest) \in Seq(FeedFrame)
        BY <2>2, SetToSeqIs
    <2>4. <<F!Hello>> \in Seq(FeedFrame)
        BY DEF FeedFrame
    <2>5. link'.wire \in Seq(FeedFrame) /\ link' = [is |-> link'.is, tries |-> link'.tries, wire |-> link'.wire]
        BY <2>1, <2>3, <2>4
    <2>6. screen.loaded
        BY <2>1 DEF FeedOK, FeedTypeOK
    <2> QED BY <1>c, <2>1, <2>5, <2>6 DEF FeedOK, FeedTypeOK
<1>8. CASE F!SocketCloses
    <2>1. UNCHANGED <<kind, screen, feed>> /\ link.is \in {"connecting", "open"}
          /\ link' \in {[is |-> "waiting", tries |-> link.tries + 1, wire |-> <<>>], [link EXCEPT !.is = "given up", !.wire = <<>>]}
        BY <1>8 DEF F!SocketCloses
    <2>2. link' = [is |-> link'.is, tries |-> link'.tries, wire |-> link'.wire] /\ link'.wire = <<>>
        <3>1. CASE link' = [is |-> "waiting", tries |-> link.tries + 1, wire |-> <<>>]
            BY <3>1
        <3>2. CASE link' = [link EXCEPT !.is = "given up", !.wire = <<>>]
            BY <1>a, <3>2
        <3> QED BY <2>1, <3>1, <3>2
    <2>3. <<>> \in Seq(FeedFrame)
        OBVIOUS
    <2>4. screen.loaded
        BY <2>1 DEF FeedOK, FeedTypeOK
    <2> QED BY <1>c, <2>1, <2>2, <2>3, <2>4 DEF FeedOK, FeedTypeOK
<1>9. CASE F!Reconnects
    <2>1. UNCHANGED <<kind, screen, feed>> /\ link.is = "waiting" /\ link' = [link EXCEPT !.is = "connecting", !.wire = <<>>]
        BY <1>9 DEF F!Reconnects, F!Connecting
    <2>2. link' = [is |-> link'.is, tries |-> link'.tries, wire |-> link'.wire] /\ link'.wire = <<>>
        BY <1>a, <2>1
    <2>3. <<>> \in Seq(FeedFrame)
        OBVIOUS
    <2>4. screen.loaded
        BY <2>1 DEF FeedOK, FeedTypeOK
    <2> QED BY <1>c, <2>1, <2>2, <2>3, <2>4 DEF FeedOK, FeedTypeOK
<1>10. CASE F!FrameArrives
    <2> DEFINE f == Head(link.wire)
    <2>1. /\ link.wire # <<>> /\ screen' = F!Received(f) /\ UNCHANGED <<kind, feed>>
          /\ link' = [link EXCEPT !.wire = Tail(link.wire)]
        BY <1>10 DEF F!FrameArrives
    <2>2. f \in FeedFrame /\ Tail(link.wire) \in Seq(FeedFrame)
        BY <2>1 DEF FeedOK, FeedTypeOK
    <2>3. link' = [is |-> link'.is, tries |-> link'.tries, wire |-> link'.wire] /\ link'.wire = Tail(link.wire)
        BY <1>a, <2>1
    <2>4. screen.loaded
        BY <2>1 DEF FeedOK, FeedTypeOK
    <2> HIDE DEF f
    <2>5. /\ IsScreen(screen') /\ IsClassed(screen')
          /\ But(screen, screen', {"chips"}) \/ (But(screen, screen', {"stories", "due"}) /\ screen'.due = TRUE)
        BY <1>a, <2>1, <2>2, ReceivedIs DEF FeedScreen
    <2>6. screen'.loaded = screen.loaded /\ screen'.loading = screen.loading /\ screen'.on = screen.on
        BY <2>5 DEF But, ScreenFields
    <2>7. FeedScreen(screen')
        <3>1. CASE But(screen, screen', {"chips"})
            <4>1. screen'.due = screen.due
                BY <3>1 DEF But, ScreenFields
            <4>2. (~screen.due => IsGrouped(screen')) /\ (screen.on /\ (kind = "news" => ~screen.due) => IsShown(screen'))
                BY <1>a, <3>1, KeepsGrouped, KeepsShown DEF FeedScreen
            <4> QED BY <1>a, <2>5, <2>6, <4>1, <4>2 DEF FeedScreen
        <3>2. CASE But(screen, screen', {"stories", "due"}) /\ screen'.due = TRUE
            <4>1. screen.on /\ kind # "news" => IsShown(screen')
                BY <1>a, <3>2, KeepsShown DEF FeedScreen
            <4> QED BY <1>a, <2>5, <2>6, <3>2, <4>1 DEF FeedScreen
        <3> QED BY <2>5, <3>1, <3>2
    <2> QED BY <1>b, <2>1, <2>2, <2>3, <2>4, <2>6, <2>7 DEF FeedOK, FeedTypeOK
<1>11. CASE F!Rerenders
    <2> DEFINE s == [screen EXCEPT !.due = FALSE]
               g == F!Regrouped(s)
    <2>1. screen' = (IF s.on THEN F!Rendered(g) ELSE g) /\ UNCHANGED <<kind, link, feed>>
        BY <1>11 DEF F!Rerenders, F!Refreshed
    <2>2. But(screen, s, {"due"})
        BY <1>a DEF FeedScreen, IsScreen, But, ScreenFields
    <2> HIDE DEF s
    <2>3. IsScreen(s) /\ IsClassed(s) /\ s.on = screen.on /\ s.loaded = screen.loaded /\ s.loading = screen.loading
        BY <1>a, <2>2, ButIsScreen, KeepsClassed DEF FeedScreen, But, ScreenFields
    <2>4. But(s, g, {"groups"}) /\ IsScreen(g) /\ (kind = "forum" => g.groups = F!GroupByForum(g))
        BY <2>3, RegroupedIs
    <2> HIDE DEF g
    <2>5. IsClassed(g) /\ IsGrouped(g) /\ g.on = screen.on /\ g.loaded = screen.loaded /\ g.loading = screen.loading
        BY <2>3, <2>4, KeepsClassed DEF IsGrouped, But, ScreenFields
    <2>6. CASE ~s.on
        BY <1>a, <1>d, <2>1, <2>3, <2>4, <2>5, <2>6 DEF FeedScreen
    <2>7. CASE s.on
        <3> DEFINE r == F!Rendered(g)
        <3>1. But(g, r, {"drawn", "chips", "tiles", "class"}) /\ IsShown(r) /\ IsScreen(r) /\ IsClassed(r)
            BY <2>4, RenderedIs
        <3> HIDE DEF r
        <3>2. r.loaded = screen.loaded /\ r.loading = screen.loading
            BY <2>5, <3>1 DEF But, ScreenFields
        <3>4. IsGrouped(r)
            BY <2>5, <3>1, KeepsGrouped
        <3>3. screen' = r
            BY <2>1, <2>7 DEF r
        <3> QED BY <1>a, <1>d, <2>1, <3>1, <3>2, <3>3, <3>4 DEF FeedScreen
    <2> QED BY <2>6, <2>7
<1>12. ASSUME NEW scope, F!ClicksScope(scope) PROVE FeedOK'
    <2> DEFINE s == [screen EXCEPT !.scope = scope]
    <2>1. screen' = F!RenderNewsList(s) /\ UNCHANGED <<kind, link, feed>> /\ kind = "news"
        BY <1>12 DEF F!ClicksScope
    <2>2. But(screen, s, {"scope"})
        BY <1>a DEF FeedScreen, IsScreen, But, ScreenFields
    <2> HIDE DEF s
    <2>3. IsScreen(s) /\ IsClassed(s) /\ s.loaded = screen.loaded /\ s.loading = screen.loading
        BY <1>a, <2>2, ButIsScreen, KeepsClassed DEF FeedScreen, But, ScreenFields
    <2>4. screen' = F!Shown(s)
        BY <2>1 DEF F!Shown
    <2>5. But(s, screen', {"drawn", "chips", "tiles"}) /\ IsShown(screen')
        BY <2>3, <2>4, ShownIs
    <2>6. IsScreen(screen') /\ IsClassed(screen') /\ screen'.loaded = screen.loaded /\ screen'.loading = screen.loading
        BY <2>3, <2>5, ButIsScreen, KeepsClassed DEF But, ScreenFields
    <2> QED BY <1>a, <1>d, <2>1, <2>5, <2>6 DEF FeedScreen, IsGrouped
<1>13. ASSUME NEW class, F!ClicksClass(class) PROVE FeedOK'
    <2> DEFINE s == [screen EXCEPT !.class = class]
    <2>1. screen' = F!Rendered(s) /\ UNCHANGED <<kind, link, feed>> /\ kind = "news"
        BY <1>13 DEF F!ClicksClass
    <2>2. But(screen, s, {"class"})
        BY <1>a DEF FeedScreen, IsScreen, But, ScreenFields
    <2> HIDE DEF s
    <2>3. IsScreen(s) /\ s.loaded = screen.loaded /\ s.loading = screen.loading
        BY <1>a, <2>2, ButIsScreen DEF FeedScreen, But, ScreenFields
    <2>4. But(s, screen', {"drawn", "chips", "tiles", "class"}) /\ IsShown(screen') /\ IsScreen(screen') /\ IsClassed(screen')
        BY <2>1, <2>3, RenderedIs
    <2>5. screen'.loaded = screen.loaded /\ screen'.loading = screen.loading
        BY <2>3, <2>4 DEF But, ScreenFields
    <2> QED BY <1>a, <1>d, <2>1, <2>4, <2>5 DEF FeedScreen, IsGrouped
<1>14. ASSUME NEW x, F!ClicksTile(x) PROVE FeedOK'
    <2> DEFINE s == [screen EXCEPT !.filter = IF @ = x THEN None ELSE x]
    <2>1. screen' = F!RenderForum(s) /\ UNCHANGED <<kind, link, feed>> /\ kind = "forum"
        BY <1>14 DEF F!ClicksTile
    <2>2. But(screen, s, {"filter"})
        BY <1>a DEF FeedScreen, IsScreen, But, ScreenFields
    <2> HIDE DEF s
    <2>3. IsScreen(s) /\ s.loaded = screen.loaded /\ s.loading = screen.loading /\ s.due = screen.due
          /\ IsClassed(s) /\ (~screen.due => IsGrouped(s))
        BY <1>a, <2>2, ButIsScreen, KeepsClassed, KeepsGrouped DEF FeedScreen, But, ScreenFields
    <2>4. screen' = F!Shown(s)
        BY <2>1 DEF F!Shown
    <2>5. But(s, screen', {"drawn", "chips", "tiles"}) /\ IsShown(screen')
        BY <2>3, <2>4, ShownIs
    <2>6. IsScreen(screen') /\ IsClassed(screen') /\ (~screen.due => IsGrouped(screen'))
        BY <2>3, <2>5, ButIsScreen, KeepsClassed, KeepsGrouped
    <2>7. screen'.loaded = screen.loaded /\ screen'.loading = screen.loading /\ screen'.due = screen.due
        BY <2>3, <2>5 DEF But, ScreenFields
    <2> QED BY <1>a, <1>d, <2>1, <2>5, <2>6, <2>7 DEF FeedScreen
<1>15. CASE UNCHANGED feedVars
    BY <1>15 DEF feedVars, FeedOK, FeedTypeOK, FeedInv, IsScreen, But, IsClassed, IsGrouped, IsShown, NewsIsDrawn, ForumIsDrawn
<1> QED BY <1>2, <1>3, <1>4, <1>5, <1>6, <1>7, <1>8, <1>9, <1>10, <1>11, <1>12, <1>13, <1>14, <1>15 DEF F!Next

-----------------------------------------------------------------------------

StoryOf(story, of) ==
    /\ GreatestOf(story.at, {f.at : f \in of})
    /\ kind = "news" =>
          /\ story.sources = {f.source : f \in of}
          /\ IsFiniteSet(story.sources) /\ story.count = Cardinality(story.sources)

AreStoriesOf(stories, frames) ==
    /\ DOMAIN stories = {f.story : f \in frames}
    /\ \A id \in DOMAIN stories : StoryOf(stories[id], {f \in frames : f.story = id})

ToldOK ==
    /\ told \subseteq {f \in FeedFrame : f.is = "item"}
    /\ ~screen.loaded => told = {}
    /\ AreStoriesOf(screen.stories, told)

LEMMA AnsweredIs ==
    ASSUME feed \in Seq(FeedFrame), kind \in {"news", "forum"}
    PROVE  AreStoriesOf(F!StoriesOf(feed), F!Items(F!Range(feed)))
<1> DEFINE said == F!Items(F!Range(feed))
           new == F!StoriesOf(feed)
<1>1. DOMAIN new = {f.story : f \in said}
    BY DEF F!StoriesOf
<1>2. said \subseteq {f \in FeedFrame : f.is = "item"} /\ IsFiniteSet(said)
    <2>1. F!Range(feed) \subseteq FeedFrame /\ IsFiniteSet(F!Range(feed))
        BY RangeIs
    <2>2. said \in SUBSET F!Range(feed) /\ \A f \in said : f.is = "item"
        BY DEF F!Items
    <2> HIDE DEF said
    <2> QED BY <2>1, <2>2, FS_Subset
<1>3. ASSUME NEW id \in DOMAIN new PROVE StoryOf(new[id], {f \in said : f.story = id})
    <2> DEFINE of == {f \in said : f.story = id}
               ats == {f.at : f \in of}
               sources == {f.source : f \in of}
    <2>1. of # {} /\ IsFiniteSet(of) /\ of \subseteq {f \in FeedFrame : f.is = "item"}
        <3> HIDE DEF said
        <3>1. of \in SUBSET said
            OBVIOUS
        <3> QED BY <1>1, <1>2, <1>3, <3>1, FS_Subset
    <2>2. IsFiniteSet(ats) /\ IsFiniteSet(sources)
        <3> HIDE DEF of
        <3> DEFINE a == [f \in of |-> f.at]
                   b == [f \in of |-> f.source]
        <3>1. IsFiniteSet({a[f] : f \in of}) /\ IsFiniteSet({b[f] : f \in of})
            <4>1. DOMAIN a = of /\ a = [f \in of |-> a[f]] /\ DOMAIN b = of /\ b = [f \in of |-> b[f]]
                OBVIOUS
            <4> HIDE DEF a, b
            <4> QED BY <2>1, <4>1, ImageIsFinite
        <3>2. ats = {a[f] : f \in of} /\ sources = {b[f] : f \in of}
            OBVIOUS
        <3> QED BY <3>1, <3>2
    <2>3. ats \in SUBSET Int /\ ats # {}
        <3> HIDE DEF of
        <3> QED BY <2>1, FrameIs
    <2>4. CASE kind = "news"
        <3> DEFINE at == {i \in DOMAIN feed : feed[i].is = "item" /\ feed[i].story = id}
        <3>1. of = {feed[i] : i \in at}
            BY DEF F!Items, F!Range
        <3> HIDE DEF of, at
        <3>2. ats = {feed[i].at : i \in at} /\ sources = {feed[i].source : i \in at}
            BY <3>1
        <3>3. new[id] = F!Grouped(feed, id)
            BY <1>1, <1>3, <2>4 DEF F!StoriesOf
        <3>4. new[id].at = F!Max(ats) /\ new[id].sources = sources /\ new[id].count = Cardinality(sources)
            <4> USE DEF at
            <4> DEFINE g == F!Grouped(feed, id)
            <4>1. g.at = F!Max({feed[i].at : i \in at})
                BY DEF F!Grouped
            <4>2. g.sources = {feed[i].source : i \in at}
                BY DEF F!Grouped
            <4>3. g.count = Cardinality({feed[i].source : i \in at})
                BY DEF F!Grouped, Cardinality, F!Cardinality
            <4> HIDE DEF ats, sources, new, at, g
            <4> QED BY <3>2, <3>3, <4>1, <4>2, <4>3 DEF g
        <3> HIDE DEF ats, sources, new, at
        <3>5. GreatestOf(F!Max(ats), ats)
            BY <2>2, <2>3, FiniteMaxIs
        <3> QED BY <2>2, <3>4, <3>5 DEF StoryOf, ats, sources, of
    <2>5. CASE kind # "news"
        <3> DEFINE Newest(f) == f.story = id /\ \A g \in said : g.story = id => g.at <= f.at
                   newest == CHOOSE f \in said : Newest(f)
        <3>1. \E f \in said : Newest(f)
            <4>1. PICK m \in ats : \A x \in ats : x <= m
                <5> HIDE DEF ats
                <5> QED BY <2>2, <2>3, FiniteHasGreatest
            <4>2. PICK f \in of : f.at = m
                BY <4>1
            <4> QED BY <4>1, <4>2
        <3>2. newest \in said /\ Newest(newest)
            <4> HIDE DEF Newest
            <4> QED BY <3>1
        <3>3. new[id] = F!OneArticle(newest)
            BY <1>1, <1>3, <2>5 DEF F!StoriesOf
        <3>4. new[id].at = newest.at
            BY <3>3 DEF F!OneArticle
        <3> HIDE DEF new, newest, said
        <3>5. GreatestOf(newest.at, ats)
            BY <3>2 DEF GreatestOf
        <3> QED BY <2>5, <3>4, <3>5 DEF StoryOf
    <2> QED BY <2>4, <2>5
<1> QED BY <1>1, <1>3 DEF AreStoriesOf

\* An article that is told again leaves the publishers and the newest time as they are.
LEMMA ToldAgain ==
    ASSUME NEW s, IsScreen(s), NEW frames, frames \subseteq {f \in FeedFrame : f.is = "item"},
           AreStoriesOf(s.stories, frames), NEW f \in FeedFrame, f.is = "item",
           NEW r, r = IF kind = "news" THEN F!UpsertArticle(s, f) ELSE F!UpsertForumPost(s, f)
    PROVE  AreStoriesOf(r.stories, frames \cup {f})
<1> DEFINE x == f.story
           more == frames \cup {f}
           old == {g \in frames : g.story = x}
           of == {g \in more : g.story = x}
           one == F!OneArticle(f)
<1>1. of = old \cup {f} /\ {g.at : g \in of} = {g.at : g \in old} \cup {f.at}
      /\ {g.source : g \in of} = {g.source : g \in old} \cup {f.source}
    OBVIOUS
<1>2. f.at \in Int /\ \A g \in frames : g.at \in Int
    BY FrameIs
<1>3. \A id : id # x => {g \in more : g.story = id} = {g \in frames : g.story = id}
    OBVIOUS
<1>4. {g.story : g \in more} = {g.story : g \in frames} \cup {x}
    OBVIOUS
\* Enough to see to its own story.
<1>5. ASSUME DOMAIN r.stories = DOMAIN s.stories \cup {x},
             \A id \in DOMAIN s.stories : id # x => r.stories[id] = s.stories[id],
             StoryOf(r.stories[x], of)
      PROVE  AreStoriesOf(r.stories, more)
    <2>1. DOMAIN r.stories = {g.story : g \in more}
        BY <1>4, <1>5 DEF AreStoriesOf
    <2>2. ASSUME NEW id \in DOMAIN r.stories PROVE StoryOf(r.stories[id], {g \in more : g.story = id})
        <3>1. CASE id = x
            BY <1>5, <3>1
        <3>2. CASE id # x
            <4> HIDE DEF more
            <4> QED BY <1>3, <1>5, <2>2, <3>2 DEF AreStoriesOf
        <3> QED BY <3>1, <3>2
    <2> QED BY <2>1, <2>2 DEF AreStoriesOf
<1>6. StoryOf(one, {f})
    <2>1. one.at = f.at /\ one.sources = {f.source} /\ one.count = 1
        BY DEF F!OneArticle
    <2>2. IsFiniteSet({f.source}) /\ Cardinality({f.source}) = 1
        BY FS_Singleton
    <2> HIDE DEF one
    <2> QED BY <1>2, <2>1, <2>2 DEF StoryOf, GreatestOf
<1> SUFFICES AreStoriesOf(r.stories, more)
    OBVIOUS
<1> HIDE DEF one, more
<1>7. CASE x \notin DOMAIN s.stories
    <2> DEFINE grown == F!Stored([y \in {x} |-> one], s.stories)
    <2>1. r = [s EXCEPT !.stories = grown]
        BY <1>7 DEF F!UpsertArticle, F!UpsertStory, F!UpsertForumPost, F!Known, one
    <2>2. r.stories = grown
        BY <2>1 DEF IsScreen, But, ScreenFields
    <2>3. DOMAIN grown = DOMAIN s.stories \cup {x} /\ grown[x] = one
          /\ \A id \in DOMAIN s.stories : id # x => grown[id] = s.stories[id]
        BY DEF F!Stored
    <2>4. old = {}
        BY <1>7 DEF AreStoriesOf
    <2>5. of = {f}
        BY <1>1, <2>4
    <2> HIDE DEF grown, of
    <2> QED BY <1>5, <1>6, <2>2, <2>3, <2>5
<1>8. CASE x \in DOMAIN s.stories
    <2> DEFINE story == s.stories[x]
    <2>1. StoryOf(story, old) /\ DOMAIN story = StoryFields
        BY <1>8 DEF AreStoriesOf, IsScreen
    <2>2. story.at \in Int
        BY <1>2, <2>1 DEF StoryOf, GreatestOf
    <2>3. CASE kind = "news"
        <3> DEFINE b == F!Merged(f, story)
                   grown == [s.stories EXCEPT ![x] = b]
        <3>1. r = [s EXCEPT !.stories = grown]
            BY <1>8, <2>3 DEF F!UpsertArticle, F!Known
        <3>2. r.stories = grown
            BY <3>1 DEF IsScreen, But, ScreenFields
        <3>3. DOMAIN grown = DOMAIN s.stories \cup {x} /\ grown[x] = b
              /\ \A id \in DOMAIN s.stories : id # x => grown[id] = s.stories[id]
            BY <1>8
        <3> DEFINE later == F!Max({story.at, f.at})
        <3>4. b = IF f.source \in story.sources THEN [story EXCEPT !.at = later]
                  ELSE [story EXCEPT !.sources = story.sources \cup {f.source}, !.count = story.count + 1, !.at = later]
            BY DEF F!Merged
        <3>5. later = IF story.at >= f.at THEN story.at ELSE f.at
            BY <1>2, <2>2, MaxOfTwo
        <3> HIDE DEF later, b, grown, story
        <3>6. b.at = later /\ b.sources = story.sources \cup {f.source}
              /\ b.count = IF f.source \in story.sources THEN story.count ELSE story.count + 1
            BY <2>1, <3>4 DEF StoryFields
        <3>7. GreatestOf(b.at, {g.at : g \in of})
            <4> DEFINE ats == {g.at : g \in old}
            <4>1. GreatestOf(story.at, ats) /\ \A y \in ats : y \in Int
                BY <1>2, <2>1 DEF StoryOf
            <4>2. {g.at : g \in of} = ats \cup {f.at}
                BY <1>1
            <4> HIDE DEF ats, of
            <4>3. GreatestOf(b.at, ats \cup {f.at})
                BY <1>2, <2>2, <3>5, <3>6, <4>1 DEF GreatestOf
            <4> QED BY <4>2, <4>3
        <3>8. IsFiniteSet(b.sources) /\ b.count = Cardinality(b.sources)
            <4>1. IsFiniteSet(story.sources) /\ story.count = Cardinality(story.sources)
                BY <2>1, <2>3 DEF StoryOf
            <4> QED BY <3>6, <4>1, FS_AddElement
        <3>9. b.sources = {g.source : g \in of}
            BY <1>1, <2>1, <2>3, <3>6 DEF StoryOf
        <3> HIDE DEF of
        <3>10. StoryOf(b, of)
            BY <3>7, <3>8, <3>9 DEF StoryOf
        <3> QED BY <1>5, <3>2, <3>3, <3>10
    <2>4. CASE kind # "news"
        <3> DEFINE grown == F!Stored([y \in {x} |-> one], s.stories)
        <3>1. CASE story.at >= f.at
            <4>1. r = s
                BY <1>8, <2>4, <3>1 DEF F!UpsertForumPost, F!Known
            <4>2. StoryOf(story, of)
                <5> DEFINE ats == {g.at : g \in old}
                <5>1. GreatestOf(story.at, ats) /\ {g.at : g \in of} = ats \cup {f.at}
                    BY <1>1, <2>1 DEF StoryOf
                <5> HIDE DEF ats, of, story
                <5>2. GreatestOf(story.at, ats \cup {f.at})
                    BY <1>2, <2>2, <3>1, <5>1 DEF GreatestOf
                <5> QED BY <2>4, <5>1, <5>2 DEF StoryOf
            <4> HIDE DEF of
            <4> QED BY <1>5, <1>8, <4>1, <4>2
        <3>2. CASE ~(story.at >= f.at)
            <4>1. r = [s EXCEPT !.stories = grown]
                BY <1>8, <2>4, <3>2 DEF F!UpsertForumPost, F!Known, one
            <4>2. r.stories = grown
                BY <4>1 DEF IsScreen, But, ScreenFields
            <4>3. DOMAIN grown = DOMAIN s.stories \cup {x} /\ grown[x] = one
                  /\ \A id \in DOMAIN s.stories : id # x => grown[id] = s.stories[id]
                BY DEF F!Stored
            <4> HIDE DEF grown
            <4>4. StoryOf(one, of)
                <5> DEFINE ats == {g.at : g \in old}
                <5>1. GreatestOf(story.at, ats) /\ {g.at : g \in of} = ats \cup {f.at} /\ one.at = f.at
                      /\ \A y \in ats : y \in Int
                    BY <1>1, <1>2, <2>1 DEF StoryOf, one, F!OneArticle
                <5> HIDE DEF ats, of, story
                <5>2. \A y \in ats : y <= f.at
                    BY <1>2, <2>2, <3>2, <5>1 DEF GreatestOf
                <5>3. GreatestOf(one.at, ats \cup {f.at})
                    BY <1>2, <5>1, <5>2 DEF GreatestOf
                <5> QED BY <2>4, <5>1, <5>3 DEF StoryOf
            <4> HIDE DEF of
            <4> QED BY <1>5, <4>2, <4>3, <4>4
        <3> QED BY <3>1, <3>2
    <2> QED BY <2>3, <2>4
<1> QED BY <1>7, <1>8


\* Only an answer and a frame say anything of a story.
LEMMA StoriesKept ==
    ASSUME FeedOK, [F!Next]_feedVars
    PROVE  \/ F!LoadEnds \/ F!FrameArrives
           \/ screen'.stories = screen.stories /\ screen'.loaded = screen.loaded /\ UNCHANGED <<kind, told>>
<1> DEFINE Kept(s) == IsScreen(s) /\ s.stories = screen.stories /\ s.loaded = screen.loaded
<1>a. FeedScreen(screen)
    BY DEF FeedOK, FeedTypeOK, FeedInv, FeedScreen
<1>b. ASSUME NEW s, NEW changed, But(screen, s, changed),
             changed \cap {"stories", "loaded", "unreachable"} = {}
      PROVE  Kept(s)
    <2>1. IsScreen(s)
        BY <1>a, <1>b, ButIsScreen DEF FeedScreen
    <2>2. s.stories = screen.stories /\ s.loaded = screen.loaded
        BY <1>b DEF But, ScreenFields
    <2> QED BY <2>1, <2>2
<1>c. ASSUME NEW s, Kept(s)
      PROVE  Kept(F!Shown(s)) /\ Kept(F!Rendered(s)) /\ Kept(F!Regrouped(s))
    <2>1. ASSUME NEW r, NEW changed, But(s, r, changed),
                 changed \cap {"stories", "loaded", "unreachable"} = {}
          PROVE  Kept(r)
        <3>1. IsScreen(r)
            BY <1>c, <2>1, ButIsScreen
        <3>2. r.stories = s.stories /\ r.loaded = s.loaded
            BY <2>1 DEF But, ScreenFields
        <3> QED BY <1>c, <3>1, <3>2
    <2>2. Kept(F!Shown(s))
        <3>1. But(s, F!Shown(s), {"drawn", "chips", "tiles"})
            BY <1>c, ShownIs
        <3> QED BY <2>1, <3>1
    <2>3. Kept(F!Rendered(s))
        <3>1. But(s, F!Rendered(s), {"drawn", "chips", "tiles", "class"})
            BY <1>c, RenderedIs
        <3> QED BY <2>1, <3>1
    <2>4. Kept(F!Regrouped(s))
        <3>1. But(s, F!Regrouped(s), {"groups"})
            BY <1>c, RegroupedIs
        <3> QED BY <2>1, <3>1
    <2> QED BY <2>2, <2>3, <2>4
<1>d. Kept(screen)
    BY <1>a DEF FeedScreen
<1> HIDE DEF Kept
<1>1. CASE F!PublishesArticle \/ F!ClassifiesStory \/ F!SocketOpens \/ F!SocketCloses \/ F!Reconnects \/ UNCHANGED feedVars
    BY <1>1 DEF F!PublishesArticle, F!ClassifiesStory, F!Publishes, F!SocketOpens, F!SocketCloses, F!Reconnects, feedVars
<1>2. CASE F!Enter
    <2> DEFINE s == [screen EXCEPT !.on = TRUE, !.loading = ~screen.loaded]
    <2>1. screen' = F!Shown(s) /\ UNCHANGED <<kind, told>>
        BY <1>2 DEF F!Enter
    <2>2. But(screen, s, {"on", "loading"})
        BY <1>a DEF FeedScreen, IsScreen, But, ScreenFields
    <2> HIDE DEF s
    <2>3. Kept(screen')
        BY <1>b, <1>c, <2>1, <2>2
    <2> QED BY <2>1, <2>3 DEF Kept
<1>3. CASE F!Leave
    <2> DEFINE s == [screen EXCEPT !.on = FALSE]
    <2>1. screen' = s /\ UNCHANGED <<kind, told>>
        BY <1>3 DEF F!Leave
    <2>2. But(screen, s, {"on"})
        BY <1>a DEF FeedScreen, IsScreen, But, ScreenFields
    <2> HIDE DEF s
    <2>3. Kept(screen')
        BY <1>b, <2>1, <2>2
    <2> QED BY <2>1, <2>3 DEF Kept
<1>4. CASE F!LoadFails
    <2> DEFINE l == [screen EXCEPT !.loading = FALSE, !.unreachable = TRUE]
               n == [l EXCEPT !.drawn = None, !.chips = {}]
               o == [screen EXCEPT !.loading = FALSE, !.drawn = None]
    <2>1. screen' \in {n, o} /\ UNCHANGED <<kind, told>>
        BY <1>4 DEF F!LoadFails, F!Unavailable
    <2>2. But(screen, n, {"loading", "unreachable", "drawn", "chips"})
        BY <1>a DEF FeedScreen, IsScreen, But, ScreenFields
    <2>3. But(screen, o, {"loading", "drawn"})
        BY <1>a DEF FeedScreen, IsScreen, But, ScreenFields
    <2> HIDE DEF n, o
    <2>4. But(screen, screen', {"loading", "unreachable", "drawn", "chips"})
        BY <2>1, <2>2, <2>3 DEF But
    <2> QED BY <2>1, <2>4 DEF But, ScreenFields
<1>5. CASE F!Rerenders
    <2> DEFINE s == [screen EXCEPT !.due = FALSE]
    <2>1. screen' \in {F!Rendered(F!Regrouped(s)), F!Regrouped(s)} /\ UNCHANGED <<kind, told>>
        BY <1>5 DEF F!Rerenders, F!Refreshed
    <2>2. But(screen, s, {"due"})
        BY <1>a DEF FeedScreen, IsScreen, But, ScreenFields
    <2> HIDE DEF s
    <2>3. Kept(s)
        BY <1>b, <2>2
    <2>4. Kept(F!Regrouped(s))
        BY <1>c, <2>3
    <2>5. Kept(screen')
        BY <1>c, <2>1, <2>4
    <2> QED BY <2>1, <2>5 DEF Kept
<1>6. ASSUME NEW scope, F!ClicksScope(scope) PROVE screen'.stories = screen.stories /\ screen'.loaded = screen.loaded /\ UNCHANGED <<kind, told>>
    <2> DEFINE s == [screen EXCEPT !.scope = scope]
    <2>1. screen' = F!Shown(s) /\ UNCHANGED <<kind, told>>
        BY <1>6 DEF F!ClicksScope, F!Shown
    <2>2. But(screen, s, {"scope"})
        BY <1>a DEF FeedScreen, IsScreen, But, ScreenFields
    <2> HIDE DEF s
    <2>3. Kept(screen')
        BY <1>b, <1>c, <2>1, <2>2
    <2> QED BY <2>1, <2>3 DEF Kept
<1>7. ASSUME NEW class, F!ClicksClass(class) PROVE screen'.stories = screen.stories /\ screen'.loaded = screen.loaded /\ UNCHANGED <<kind, told>>
    <2> DEFINE s == [screen EXCEPT !.class = class]
    <2>1. screen' = F!Rendered(s) /\ UNCHANGED <<kind, told>>
        BY <1>7 DEF F!ClicksClass
    <2>2. But(screen, s, {"class"})
        BY <1>a DEF FeedScreen, IsScreen, But, ScreenFields
    <2> HIDE DEF s
    <2>3. Kept(screen')
        BY <1>b, <1>c, <2>1, <2>2
    <2> QED BY <2>1, <2>3 DEF Kept
<1>8. ASSUME NEW x, F!ClicksTile(x) PROVE screen'.stories = screen.stories /\ screen'.loaded = screen.loaded /\ UNCHANGED <<kind, told>>
    <2> DEFINE s == [screen EXCEPT !.filter = IF @ = x THEN None ELSE x]
    <2>1. screen' = F!Shown(s) /\ UNCHANGED <<kind, told>>
        BY <1>8 DEF F!ClicksTile, F!Shown
    <2>2. But(screen, s, {"filter"})
        BY <1>a DEF FeedScreen, IsScreen, But, ScreenFields
    <2> HIDE DEF s
    <2>3. Kept(screen')
        BY <1>b, <1>c, <2>1, <2>2
    <2> QED BY <2>1, <2>3 DEF Kept
<1> QED BY <1>1, <1>2, <1>3, <1>4, <1>5, <1>6, <1>7, <1>8 DEF F!Next

LEMMA ToldStep == FeedOK /\ ToldOK /\ [F!Next]_feedVars => ToldOK'
<1> SUFFICES ASSUME FeedOK, ToldOK, [F!Next]_feedVars PROVE ToldOK'
    OBVIOUS
<1>a. FeedScreen(screen) /\ kind \in {"news", "forum"}
    BY DEF FeedOK, FeedTypeOK, FeedInv, FeedScreen
<1>b. ASSUME UNCHANGED kind, told' \subseteq {f \in FeedFrame : f.is = "item"},
             ~screen'.loaded => told' = {}, AreStoriesOf(screen'.stories, told')
      PROVE  ToldOK'
    BY <1>b DEF ToldOK, AreStoriesOf, StoryOf
<1>1. CASE screen'.stories = screen.stories /\ screen'.loaded = screen.loaded /\ UNCHANGED <<kind, told>>
    BY <1>1, <1>b DEF ToldOK
<1>2. CASE F!LoadEnds
    <2> DEFINE said == F!Items(F!Range(feed))
               new == F!StoriesOf(feed)
    <2>1. told' = told \cup said /\ UNCHANGED kind /\ screen.loading
        BY <1>2 DEF F!LoadEnds
    <2>2. told = {}
        BY <1>a, <2>1 DEF FeedScreen, ToldOK
    <2>3. AreStoriesOf(new, said)
        BY <1>a, AnsweredIs DEF FeedOK, FeedTypeOK
    <2>4. screen'.stories = F!Stored(new, screen.stories) /\ screen'.loaded
        BY <1>2, LoadedIs
    <2>5. said \subseteq {f \in FeedFrame : f.is = "item"}
        BY RangeIs DEF F!Items, FeedOK, FeedTypeOK
    <2> HIDE DEF said, new
    <2>6. DOMAIN screen.stories = {}
        BY <2>2 DEF ToldOK, AreStoriesOf
    <2>7. DOMAIN screen'.stories = DOMAIN new /\ \A id \in DOMAIN new : screen'.stories[id] = new[id]
        BY <2>4, <2>6 DEF F!Stored
    <2>8. told' = said
        BY <2>1, <2>2
    <2>9. AreStoriesOf(screen'.stories, told')
        BY <2>3, <2>7, <2>8 DEF AreStoriesOf
    <2> QED BY <1>b, <2>1, <2>4, <2>5, <2>8, <2>9
<1>3. CASE F!FrameArrives
    <2> DEFINE f == Head(link.wire)
    <2>1. /\ link.wire # <<>> /\ screen' = F!Received(f) /\ UNCHANGED kind
          /\ told' = told \cup F!Items({f})
        BY <1>3 DEF F!FrameArrives
    <2>2. f \in FeedFrame /\ screen.loaded
        BY <2>1 DEF FeedOK, FeedTypeOK
    <2> HIDE DEF f
    <2>3. screen'.loaded
        <3>1. \/ But(screen, screen', {"chips"})
              \/ But(screen, screen', {"stories", "due"})
            BY <1>a, <2>1, <2>2, ReceivedIs DEF FeedScreen
        <3>2. screen'.loaded = screen.loaded
            BY <3>1 DEF But, ScreenFields
        <3> QED BY <2>2, <3>2
    <2>4. told' \subseteq {g \in FeedFrame : g.is = "item"}
        BY <2>1, <2>2 DEF ToldOK, F!Items
    <2>5. CASE f.is = "hello"
        <3>1. told' = told
            BY <2>1, <2>5 DEF F!Items
        <3>2. screen' = IF kind = "news" THEN F!WithClassChips(screen) ELSE screen
            BY <2>1, <2>5 DEF F!Received
        <3>3. screen'.stories = screen.stories
            <4>1. But(screen, F!WithClassChips(screen), {"chips", "class"})
                BY <1>a, ChipsAre DEF FeedScreen
            <4> QED BY <3>2, <4>1 DEF But, ScreenFields
        <3> QED BY <1>b, <2>1, <2>3, <2>4, <3>1, <3>3 DEF ToldOK
    <2>6. CASE f.is = "item"
        <3> DEFINE r == IF kind = "news" THEN F!UpsertArticle(screen, f) ELSE F!UpsertForumPost(screen, f)
                   d == [r EXCEPT !.due = TRUE]
        <3>1. told' = told \cup {f}
            BY <2>1, <2>6 DEF F!Items
        <3>2. AreStoriesOf(r.stories, told \cup {f})
            BY <1>a, <2>2, <2>6, ToldAgain DEF FeedScreen, ToldOK
        <3>3. screen' = IF r.stories = screen.stories THEN r ELSE d
            BY <2>1, <2>6 DEF F!Received, F!Due
        <3>4. But(screen, r, {"stories"})
            BY <1>a, ToldIs DEF FeedScreen
        <3> HIDE DEF r
        <3>5. d.stories = r.stories
            BY <3>4 DEF But, ScreenFields
        <3> HIDE DEF d
        <3>6. screen'.stories = r.stories
            BY <3>3, <3>5
        <3> QED BY <1>b, <2>1, <2>3, <2>4, <3>1, <3>2, <3>6
    <2>7. CASE f.is = "class"
        <3>1. told' = told
            BY <2>1, <2>7 DEF F!Items
        <3> DEFINE more == [screen.stories EXCEPT ![f.story].class = f.class]
                   d == [screen EXCEPT !.stories[f.story].class = f.class, !.due = TRUE]
        <3>2. screen' = IF f.story \in DOMAIN screen.stories THEN d ELSE screen
            BY <2>1, <2>7 DEF F!Received, F!Known
        <3>3. d.stories = more
            BY <1>a DEF FeedScreen, IsScreen, But, ScreenFields
        <3>4. DOMAIN more = DOMAIN screen.stories
            OBVIOUS
        <3>5. ASSUME NEW id \in DOMAIN screen.stories
              PROVE  StoryOf(more[id], {g \in told : g.story = id})
            <4> DEFINE old == screen.stories[id]
                       b == [old EXCEPT !.class = f.class]
            <4>1. DOMAIN old = StoryFields
                BY <1>a DEF FeedScreen, IsScreen
            <4>2. more[id] \in {old, b}
                OBVIOUS
            <4>3. StoryOf(old, {g \in told : g.story = id})
                BY DEF ToldOK, AreStoriesOf
            <4> HIDE DEF old, more
            <4>4. b.at = old.at /\ b.sources = old.sources /\ b.count = old.count
                BY <4>1 DEF StoryFields
            <4> HIDE DEF b
            <4>5. StoryOf(b, {g \in told : g.story = id})
                BY <4>3, <4>4 DEF StoryOf
            <4> QED BY <4>2, <4>3, <4>5
        <3> HIDE DEF more, d
        <3>6. AreStoriesOf(screen'.stories, told)
            BY <3>2, <3>3, <3>4, <3>5 DEF AreStoriesOf, ToldOK
        <3> QED BY <1>b, <2>1, <2>3, <2>4, <3>1, <3>6
    <2> QED BY <2>2, <2>5, <2>6, <2>7, FrameIs
<1> QED BY <1>1, <1>2, <1>3, StoriesKept

LEMMA FeedsRunAlone == ClientsSpec => F!Init /\ [][F!Next]_feedVars
<1>1. ClientsInit => F!Init
    BY DEF ClientsInit
<1>2. [ClientsNext]_everything => [F!Next]_feedVars
    BY DEF ClientsNext, everything, feedVars
<1> QED BY <1>1, <1>2, PTL DEF ClientsSpec

LEMMA FeedBegins == F!Init => FeedOK /\ ToldOK
<1> SUFFICES ASSUME F!Init PROVE FeedOK /\ ToldOK
    OBVIOUS
<1>1. /\ But(screen, screen, {}) /\ screen.stories = <<>> /\ screen.class = "all"
      /\ screen.on = FALSE /\ screen.loaded = FALSE /\ screen.loading = FALSE
    BY DEF F!Init, But, ScreenFields
<1>2. DOMAIN screen.stories = {}
    BY <1>1
<1>3. IsScreen(screen)
    BY <1>1, <1>2 DEF IsScreen
<1>4. /\ link = [is |-> link.is, tries |-> link.tries, wire |-> link.wire]
      /\ link.wire = <<>> /\ link.is = "none" /\ feed = <<>> /\ told = {} /\ kind \in {"news", "forum"}
    BY DEF F!Init
<1>5. <<>> \in Seq(FeedFrame)
    OBVIOUS
<1> QED BY <1>1, <1>2, <1>3, <1>4, <1>5 DEF FeedOK, FeedTypeOK, FeedInv, IsClassed, IsGrouped, ToldOK, AreStoriesOf

LEMMA FeedsHold == ClientsSpec => [](FeedOK /\ ToldOK)
BY FeedsRunAlone, FeedBegins, FeedStep, ToldStep, PTL

LEMMA ToldOnce == FeedOK /\ ToldOK => F!ToldOnceCountsOnce
<1> SUFFICES ASSUME FeedOK, ToldOK, NEW id \in DOMAIN screen.stories
             PROVE  LET of == {f \in told : f.story = id}
                        story == screen.stories[id]
                    IN /\ story.at = F!Max({f.at : f \in of})
                       /\ kind = "news" => story.sources = {f.source : f \in of} /\ story.count = Cardinality(story.sources)
    BY DEF F!ToldOnceCountsOnce, F!Known, F!Cardinality, Cardinality
<1> DEFINE of == {f \in told : f.story = id}
           ats == {f.at : f \in of}
           story == screen.stories[id]
<1>1. StoryOf(story, of)
    BY DEF ToldOK, AreStoriesOf
<1>2. ats \in SUBSET Int
    BY FrameIs DEF ToldOK
<1>3. GreatestOf(story.at, ats)
    BY <1>1 DEF StoryOf
<1> HIDE DEF ats
<1>4. F!Max(ats) = story.at
    BY <1>2, <1>3, MaxIs
<1> QED BY <1>1, <1>4 DEF StoryOf, ats

LEMMA ListIsOfThePage == FeedOK => F!ListIsCurrent
<1> SUFFICES ASSUME FeedOK, screen.on, screen.loaded
             PROVE  /\ ~screen.due => screen.drawn = IF kind = "news" THEN F!Drawn(screen) ELSE F!Listed(F!RegroupForum(screen))
                    /\ kind = "forum" =>
                          /\ DOMAIN screen.drawn = {x \in DOMAIN screen.tiles : screen.filter \in {None, x}}
                          /\ \A x \in DOMAIN screen.drawn : screen.tiles[x] = Cardinality(DOMAIN screen.drawn[x])
    BY DEF F!ListIsCurrent, F!Cardinality, Cardinality
<1>1. kind \in {"news", "forum"} /\ IsScreen(screen) /\ (~screen.due => IsGrouped(screen))
      /\ ((kind = "news" => ~screen.due) => IsShown(screen))
    BY DEF FeedOK, FeedTypeOK, FeedInv
<1>2. CASE kind = "news"
    BY <1>1, <1>2 DEF IsShown, NewsIsDrawn
<1>3. CASE kind = "forum"
    <2> DEFINE r == F!RegroupForum(screen)
    <2>1. screen.drawn = F!Listed(screen)
          /\ screen.tiles = [x \in DOMAIN screen.groups |-> Cardinality(DOMAIN screen.groups[x])]
        BY <1>1, <1>3 DEF IsShown, ForumIsDrawn
    <2>2. r.groups = F!GroupByForum(screen) /\ r.filter = screen.filter
        BY <1>1 DEF F!RegroupForum, IsScreen, But, ScreenFields
    <2> HIDE DEF r
    <2>3. ~screen.due => F!Listed(r) = F!Listed(screen)
        BY <1>1, <1>3, <2>2 DEF IsGrouped, F!Listed
    <2>4. /\ DOMAIN screen.drawn = {x \in DOMAIN screen.tiles : screen.filter \in {None, x}}
          /\ \A x \in DOMAIN screen.drawn : screen.tiles[x] = Cardinality(DOMAIN screen.drawn[x])
        BY <2>1 DEF F!Listed
    <2> QED BY <1>3, <2>1, <2>3, <2>4 DEF r
<1> QED BY <1>1, <1>2, <1>3

\* The list of releases is that of the last answer to the query of the view, whatever came
\* before it, and those of the news and the forum are of what the page has, with what was told
\* twice counted once (app.js:5801, 5349-5378, 5430-5441).
THEOREM ListsAreAlwaysOfWhatWasTold == ClientsSpec => []ListsAreOfWhatWasTold
<1> QED BY TheListIsAlwaysTheAnswer, FeedsHold, ToldOnce, ListIsOfThePage, PTL DEF ListsAreOfWhatWasTold

-----------------------------------------------------------------------------
(* The table of networks                                                   *)

TableFields ==
    {"on", "bulk", "live", "due", "open", "query", "typed", "type", "status", "incidentOnly", "tvsOnly",
     "key", "dir", "header", "shown", "latched", "stale", "drawn"}

\* u is t but for some fields.
TableBut(t, u, changed) ==
    /\ DOMAIN u = TableFields /\ u = [f \in TableFields |-> u[f]]
    /\ \A f \in TableFields \ changed : u[f] = t[f]

IsTable(t) == TableBut(t, t, {}) /\ t.header = <<t.key, t.dir>>

\* What is before a reader: a column that is there once stays, and sorts.
IsBefore(t) ==
    /\ t.drawn.l2beat = T!ShowsL2Beat(t) /\ t.drawn.incident = T!ShowsIncident(t)
    /\ t.key = "incident" => T!ShowsIncident(t)
    /\ T!ShowsIncident(t) => t.latched

TableOK(t) ==
    /\ IsTable(t)
    /\ t.on => IsBefore(t) /\ (~t.typed => t.drawn = T!Drawn(t))

LEMMA ColumnsAreOf ==
    ASSUME NEW t, NEW u, NEW changed, TableBut(t, u, changed),
           changed \cap {"tvsOnly", "type", "key", "incidentOnly", "latched", "open"} = {}
    PROVE  T!ShowsL2Beat(u) = T!ShowsL2Beat(t) /\ T!ShowsIncident(u) = T!ShowsIncident(t)
<1>1. /\ u.tvsOnly = t.tvsOnly /\ u.type = t.type /\ u.key = t.key
      /\ u.incidentOnly = t.incidentOnly /\ u.latched = t.latched /\ u.open = t.open
    BY DEF TableBut, TableFields
<1> QED BY <1>1 DEF T!ShowsL2Beat, T!ShowsIncident

LEMMA DrawnIsOf ==
    ASSUME NEW t, NEW u, NEW changed, TableBut(t, u, changed),
           changed \subseteq {"on", "live", "due", "typed", "header", "stale", "drawn"}
    PROVE  T!Drawn(u) = T!Drawn(t)
<1>1. /\ u.bulk = t.bulk /\ u.open = t.open /\ u.query = t.query /\ u.type = t.type /\ u.status = t.status
      /\ u.incidentOnly = t.incidentOnly /\ u.tvsOnly = t.tvsOnly /\ u.key = t.key /\ u.dir = t.dir
      /\ u.shown = t.shown /\ u.latched = t.latched
    BY DEF TableBut, TableFields
<1>2. T!Rows(u) = T!Rows(t) /\ T!Chains(u) = T!Chains(t)
    BY <1>1 DEF T!Rows, T!Chains, T!Passes
<1>3. T!SortOf(u) = T!SortOf(t)
    BY <1>1 DEF T!SortOf
<1>6. T!Limit(u) = T!Limit(t)
    BY <1>1 DEF T!Limit
<1>7. T!ShowsL2Beat(u) = T!ShowsL2Beat(t) /\ T!ShowsIncident(u) = T!ShowsIncident(t)
    BY ColumnsAreOf
<1> QED BY <1>2, <1>3, <1>6, <1>7 DEF T!Drawn

LEMMA RenderedTableIs ==
    ASSUME NEW t, IsTable(t)
    PROVE  LET r == T!RenderChainsTable(t)
           IN  /\ IsTable(r) /\ IsBefore(r) /\ r.drawn = T!Drawn(r)
               /\ r.on = t.on /\ r.typed = t.typed /\ (t.latched => r.latched)
<1> DEFINE l == T!Latched(t)
           h == [l EXCEPT !.key = "chainId", !.dir = 1]
           s == [h EXCEPT !.header = <<h.key, h.dir>>]
           v == T!WithVisibleSort(l)
           r == [v EXCEPT !.drawn = T!Drawn(v)]
<1>1. TableBut(t, l, {"latched"}) /\ l.latched = (t.latched \/ T!ShowsIncident(t))
    BY DEF T!Latched, IsTable, TableBut, TableFields
<1>2. IsTable(l) /\ (T!ShowsIncident(l) => l.latched) /\ (t.latched => l.latched)
    <2>1. l.header = t.header /\ l.key = t.key /\ l.dir = t.dir /\ l.incidentOnly = t.incidentOnly /\ l.open = t.open
        BY <1>1 DEF TableBut, TableFields
    <2>2. IsTable(l)
        BY <1>1, <2>1 DEF IsTable, TableBut
    <2>3. T!ShowsIncident(l) => l.latched
        BY <1>1, <2>1 DEF T!ShowsIncident
    <2> QED BY <1>1, <2>2, <2>3
<1> HIDE DEF l
<1>3. /\ TableBut(l, s, {"key", "dir", "header"}) /\ s.key = "chainId" /\ s.dir = 1
      /\ s.header = <<"chainId", 1>>
    BY <1>2 DEF IsTable, TableBut, TableFields
<1>4. v = IF ~T!ShowsIncident(l) /\ l.key = "incident" THEN s ELSE l
    BY DEF T!WithVisibleSort, T!SyncedHeaders
<1> HIDE DEF s
<1>5. /\ IsTable(v) /\ TableBut(l, v, {"key", "dir", "header"})
      /\ v.key = "incident" => T!ShowsIncident(v)
    <2>1. CASE v = s
        BY <1>3, <2>1 DEF IsTable, TableBut
    <2>2. CASE v = l /\ (T!ShowsIncident(l) \/ l.key # "incident")
        BY <1>2, <2>2 DEF IsTable, TableBut
    <2> QED BY <1>4, <2>1, <2>2
<1> HIDE DEF v
<1>6. v.latched = l.latched /\ v.incidentOnly = l.incidentOnly /\ v.open = l.open
    BY <1>5 DEF TableBut, TableFields
<1>7. T!ShowsIncident(v) => v.latched
    BY <1>2, <1>6 DEF T!ShowsIncident
<1>8. TableBut(v, r, {"drawn"}) /\ r.drawn = T!Drawn(v)
    BY <1>5 DEF IsTable, TableBut, TableFields
<1>9. r = T!RenderChainsTable(t)
    BY DEF T!RenderChainsTable, v, l
<1> HIDE DEF r
<1>10. T!Drawn(r) = T!Drawn(v) /\ T!ShowsL2Beat(r) = T!ShowsL2Beat(v) /\ T!ShowsIncident(r) = T!ShowsIncident(v)
    BY <1>8, DrawnIsOf, ColumnsAreOf
<1>11. r.drawn.l2beat = T!ShowsL2Beat(v) /\ r.drawn.incident = T!ShowsIncident(v)
    BY <1>8 DEF T!Drawn
<1>12. r.key = v.key /\ r.dir = v.dir /\ r.header = v.header /\ r.latched = v.latched
    BY <1>8 DEF TableBut, TableFields
<1>13. IsTable(r)
    BY <1>5, <1>8, <1>12 DEF IsTable, TableBut
<1>14. IsBefore(r)
    BY <1>5, <1>7, <1>10, <1>11, <1>12 DEF IsBefore
<1>15. r.on = t.on /\ r.typed = t.typed
    BY <1>1, <1>5, <1>8 DEF TableBut, TableFields
<1> QED BY <1>2, <1>6, <1>8, <1>9, <1>10, <1>12, <1>13, <1>14, <1>15

\* Whatever is drawn anew is as it should be, and no column goes.
Follows(t, u) == TableOK(u) /\ (t.latched => u.latched)

LEMMA ButIsTable ==
    ASSUME NEW t, IsTable(t), NEW u, NEW changed, TableBut(t, u, changed),
           changed \cap {"key", "dir", "header", "latched"} = {}
    PROVE  IsTable(u) /\ (t.latched => u.latched)
BY DEF IsTable, TableBut, TableFields

LEMMA RenderedFollows == ASSUME NEW t, IsTable(t) PROVE Follows(t, T!RenderChainsTable(t))
BY RenderedTableIs DEF Follows, TableOK

LEMMA SearchFollows == ASSUME NEW t, IsTable(t) PROVE Follows(t, T!ApplySearch(t))
<1> DEFINE u == [t EXCEPT !.shown = None]
<1>1. CASE t.on
    <2>1. TableBut(t, u, {"shown"})
        BY DEF IsTable, TableBut, TableFields
    <2>2. T!ApplySearch(t) = T!RenderChainsTable(u)
        BY <1>1 DEF T!ApplySearch
    <2> HIDE DEF u
    <2>3. IsTable(u) /\ (t.latched => u.latched)
        BY <2>1, ButIsTable
    <2> QED BY <2>2, <2>3, RenderedFollows DEF Follows
<1>2. CASE ~t.on
    BY <1>2 DEF T!ApplySearch, Follows, TableOK
<1> QED BY <1>1, <1>2

LEMMA ViewFollows == ASSUME NEW t, IsTable(t), NEW on PROVE Follows(t, T!SwitchView(t, on))
<1> DEFINE u == [t EXCEPT !.on = on]
           v == [u EXCEPT !.stale = FALSE]
           w == IF on /\ u.stale THEN T!RenderChainsTable(v) ELSE u
<1>1. TableBut(t, u, {"on"}) /\ TableBut(t, v, {"on", "stale"})
    BY DEF IsTable, TableBut, TableFields
<1>2. T!SwitchView(t, on) = T!ApplySearch(w)
    BY DEF T!SwitchView
<1> HIDE DEF u, v
<1>3. IsTable(u) /\ IsTable(v) /\ (t.latched => u.latched /\ v.latched)
    BY <1>1, ButIsTable
<1>4. IsTable(w) /\ (t.latched => w.latched)
    BY <1>3, RenderedTableIs
<1> QED BY <1>2, <1>4, SearchFollows DEF Follows

LEMMA BulkFollows == ASSUME NEW t, IsTable(t), NEW bulk PROVE Follows(t, T!ApplyBulk(t, bulk))
<1> DEFINE u == [t EXCEPT !.bulk = bulk, !.open = t.live]
           b == [u EXCEPT !.stale = TRUE]
           v == IF u.on THEN T!RenderChainsTable(u) ELSE b
<1>1. TableBut(t, u, {"bulk", "open"}) /\ TableBut(t, b, {"bulk", "open", "stale"})
    BY DEF IsTable, TableBut, TableFields
<1>2. T!ApplyBulk(t, bulk) = T!SwitchView(v, v.on)
    BY DEF T!ApplyBulk
<1> HIDE DEF u, b
<1>3. IsTable(u) /\ IsTable(b) /\ (t.latched => u.latched /\ b.latched)
    BY <1>1, ButIsTable
<1>4. IsTable(v) /\ (t.latched => v.latched)
    BY <1>3, RenderedTableIs
<1> HIDE DEF v
<1> QED BY <1>2, <1>4, ViewFollows DEF Follows

LEMMA TableFollows == TableOK(table) /\ [T!Next]_tableVars => Follows(table, table')
<1> SUFFICES ASSUME TableOK(table), T!Next PROVE Follows(table, table')
    BY DEF tableVars, Follows
<1>a. IsTable(table)
    BY DEF TableOK
\* A click that changes what is drawn and draws it.
<1>b. ASSUME NEW t, NEW changed, TableBut(table, t, changed),
             changed \cap {"key", "dir", "header", "latched"} = {}, table' = T!RenderChainsTable(t)
      PROVE  Follows(table, table')
    BY <1>a, <1>b, ButIsTable, RenderedFollows DEF Follows
<1>1. CASE T!BulkArrives
    BY <1>1, <1>a, BulkFollows DEF T!BulkArrives, T!Told
<1>2. CASE T!FeedChanges
    <2> PICK live : table' = [table EXCEPT !.live = live, !.due = TRUE]
        BY <1>2 DEF T!FeedChanges, T!Told
    <2>1. TableBut(table, table', {"live", "due"})
        BY <1>a DEF IsTable, TableBut, TableFields
    <2>2. IsTable(table') /\ (table.latched => table'.latched)
        BY <1>a, <2>1, ButIsTable
    <2>3. /\ table'.on = table.on /\ table'.drawn = table.drawn /\ table'.key = table.key
          /\ table'.latched = table.latched /\ table'.typed = table.typed
        BY <2>1 DEF TableBut, TableFields
    <2>4. T!Drawn(table') = T!Drawn(table)
        BY <2>1, DrawnIsOf
    <2>5. T!ShowsL2Beat(table') = T!ShowsL2Beat(table) /\ T!ShowsIncident(table') = T!ShowsIncident(table)
        BY <2>1, ColumnsAreOf
    <2> QED BY <2>2, <2>3, <2>4, <2>5 DEF Follows, TableOK, IsBefore
<1>3. CASE T!Repaint
    <2> DEFINE t == [table EXCEPT !.due = FALSE, !.open = table.live]
    <2>1. table' = IF t.on THEN T!RenderChainsTable(t) ELSE t
        BY <1>3 DEF T!Repaint, T!IfOnScreen
    <2>2. TableBut(table, t, {"due", "open"})
        BY <1>a DEF IsTable, TableBut, TableFields
    <2> HIDE DEF t
    <2>3. IsTable(t) /\ (table.latched => t.latched)
        BY <1>a, <2>2, ButIsTable
    <2> QED BY <1>b, <2>1, <2>2, <2>3 DEF Follows, TableOK
<1>4. CASE T!ChangesView
    BY <1>4, <1>a, ViewFollows DEF T!ChangesView, T!Clicked
<1>5. CASE T!Types
    <2> PICK w : table' = [table EXCEPT !.query = w, !.typed = TRUE]
        BY <1>5 DEF T!Types, T!Clicked
    <2>1. TableBut(table, table', {"query", "typed"}) /\ table'.typed = TRUE
        BY <1>a DEF IsTable, TableBut, TableFields
    <2>2. IsTable(table') /\ (table.latched => table'.latched)
        BY <1>a, <2>1, ButIsTable
    <2>3. table'.on = table.on /\ table'.drawn = table.drawn /\ table'.key = table.key /\ table'.latched = table.latched
        BY <2>1 DEF TableBut, TableFields
    <2>4. T!ShowsL2Beat(table') = T!ShowsL2Beat(table) /\ T!ShowsIncident(table') = T!ShowsIncident(table)
        BY <2>1, ColumnsAreOf
    <2> QED BY <2>1, <2>2, <2>3, <2>4 DEF Follows, TableOK, IsBefore
<1>6. CASE T!TypingRests
    <2> DEFINE t == [table EXCEPT !.typed = FALSE]
    <2>1. table' = T!ApplySearch(t)
        BY <1>6 DEF T!TypingRests
    <2>2. TableBut(table, t, {"typed"})
        BY <1>a DEF IsTable, TableBut, TableFields
    <2> HIDE DEF t
    <2>3. IsTable(t) /\ (table.latched => t.latched)
        BY <1>a, <2>2, ButIsTable
    <2> QED BY <2>1, <2>3, SearchFollows DEF Follows
<1>7. ASSUME NEW key, T!ClicksHeader(key) PROVE Follows(table, table')
    <2> DEFINE t == [table EXCEPT !.dir = IF table.key = key THEN -@ ELSE 1, !.key = key]
               h == [t EXCEPT !.header = <<t.key, t.dir>>]
    <2>1. table' = T!RenderChainsTable(h)
        BY <1>7 DEF T!ClicksHeader, T!SyncedHeaders, T!Clicked
    <2>2. TableBut(table, h, {"key", "dir", "header"}) /\ h.header = <<h.key, h.dir>> /\ h.latched = table.latched
        BY <1>a DEF IsTable, TableBut, TableFields
    <2> HIDE DEF h
    <2>3. IsTable(h)
        BY <2>2 DEF IsTable, TableBut
    <2> QED BY <2>1, <2>2, <2>3, RenderedFollows DEF Follows
<1>8. ASSUME NEW type, T!ClicksType(type) PROVE Follows(table, table')
    <2> DEFINE t == [table EXCEPT !.type = type, !.shown = None]
    <2>1. table' = T!RenderChainsTable(t)
        BY <1>8 DEF T!ClicksType, T!Clicked
    <2>2. TableBut(table, t, {"type", "shown"})
        BY <1>a DEF IsTable, TableBut, TableFields
    <2> HIDE DEF t
    <2> QED BY <1>b, <2>1, <2>2
<1>9. ASSUME NEW status, T!ClicksStatus(status) PROVE Follows(table, table')
    <2> DEFINE t == [table EXCEPT !.status = status, !.shown = None]
    <2>1. table' = T!RenderChainsTable(t)
        BY <1>9 DEF T!ClicksStatus, T!Clicked
    <2>2. TableBut(table, t, {"status", "shown"})
        BY <1>a DEF IsTable, TableBut, TableFields
    <2> HIDE DEF t
    <2> QED BY <1>b, <2>1, <2>2
<1>10. CASE T!ClicksIncidentOnly \/ T!ClicksTvsOnly
    <2> DEFINE i == [table EXCEPT !.incidentOnly = ~@, !.shown = None]
               v == [table EXCEPT !.tvsOnly = ~@, !.shown = None]
    <2>1. table' \in {T!RenderChainsTable(i), T!RenderChainsTable(v)}
        BY <1>10 DEF T!ClicksIncidentOnly, T!ClicksTvsOnly, T!Clicked
    <2>2. TableBut(table, i, {"incidentOnly", "shown"}) /\ TableBut(table, v, {"tvsOnly", "shown"})
        BY <1>a DEF IsTable, TableBut, TableFields
    <2> HIDE DEF i, v
    <2> QED BY <1>b, <2>1, <2>2
<1>11. CASE T!ShowsMore
    <2> DEFINE t == [table EXCEPT !.shown = T!Limit(table) + PageSize * 3]
    <2>1. table' = T!RenderChainsTable(t)
        BY <1>11 DEF T!ShowsMore, T!Clicked
    <2>2. TableBut(table, t, {"shown"})
        BY <1>a DEF IsTable, TableBut, TableFields
    <2> HIDE DEF t
    <2> QED BY <1>b, <2>1, <2>2
<1> QED BY <1>1, <1>2, <1>3, <1>4, <1>5, <1>6, <1>7, <1>8, <1>9, <1>10, <1>11 DEF T!Next

LEMMA TableBegins == T!Init => TableOK(table)
<1> SUFFICES ASSUME T!Init PROVE TableOK(table)
    OBVIOUS
<1> PICK on \in BOOLEAN :
        LET t == [on |-> on, bulk |-> None, live |-> {}, due |-> FALSE, open |-> {},
                  query |-> None, typed |-> FALSE, type |-> "all", status |-> "all", incidentOnly |-> FALSE, tvsOnly |-> FALSE,
                  key |-> "chainId", dir |-> 1, header |-> <<"chainId", 1>>, shown |-> None, latched |-> FALSE, stale |-> FALSE,
                  drawn |-> [rows |-> <<>>, more |-> 0, of |-> 0, l2beat |-> TRUE, incident |-> TRUE]]
        IN table = IF on THEN T!RenderChainsTable(t) ELSE t
    BY DEF T!Init
<1> DEFINE t == [on |-> on, bulk |-> None, live |-> {}, due |-> FALSE, open |-> {},
                 query |-> None, typed |-> FALSE, type |-> "all", status |-> "all", incidentOnly |-> FALSE, tvsOnly |-> FALSE,
                 key |-> "chainId", dir |-> 1, header |-> <<"chainId", 1>>, shown |-> None, latched |-> FALSE, stale |-> FALSE,
                 drawn |-> [rows |-> <<>>, more |-> 0, of |-> 0, l2beat |-> TRUE, incident |-> TRUE]]
<1>1. IsTable(t) /\ t.on = on
    BY DEF IsTable, TableBut, TableFields
<1>2. table = IF on THEN T!RenderChainsTable(t) ELSE t
    OBVIOUS
<1> HIDE DEF t
<1> QED BY <1>1, <1>2, RenderedFollows DEF Follows, TableOK

LEMMA TableHolds ==
    TableOK(table) => T!TableIsCurrent /\ T!SortIsVisible
<1> SUFFICES ASSUME TableOK(table) PROVE T!TableIsCurrent /\ T!SortIsVisible
    OBVIOUS
<1>1. T!TableIsCurrent
    BY DEF T!TableIsCurrent, TableOK
<1>2. table.header = <<table.key, table.dir>>
    BY DEF TableOK, IsTable
<1>3. ASSUME table.on PROVE T!ShownColumn(table, table.key)
    <2>1. IsBefore(table)
        BY <1>3 DEF TableOK
    <2>2. table.key = "tvs" => table.drawn.l2beat
        BY <2>1 DEF IsBefore, T!ShowsL2Beat
    <2>3. table.key = "incident" => table.drawn.incident
        BY <2>1 DEF IsBefore
    <2> QED BY <2>2, <2>3 DEF T!ShownColumn
<1> QED BY <1>1, <1>2, <1>3 DEF T!SortIsVisible

LEMMA ColumnHolds ==
    TableOK(table) /\ Follows(table, table') => [table.on /\ table.drawn.incident /\ table'.on => table'.drawn.incident]_table
<1> SUFFICES ASSUME TableOK(table), Follows(table, table'), table.on, table.drawn.incident, table'.on
             PROVE  table'.drawn.incident
    OBVIOUS
<1>1. T!ShowsIncident(table) /\ table.latched
    BY DEF TableOK, IsBefore
<1>2. table'.latched /\ table'.drawn.incident = T!ShowsIncident(table')
    BY <1>1 DEF Follows, TableOK, IsBefore
<1> QED BY <1>2 DEF T!ShowsIncident

LEMMA TableRunsAlone == ClientsSpec => T!Init /\ [][T!Next]_tableVars
<1>1. ClientsInit => T!Init
    BY DEF ClientsInit
<1>2. [ClientsNext]_everything => [T!Next]_tableVars
    BY DEF ClientsNext, everything, tableVars
<1> QED BY <1>1, <1>2, PTL DEF ClientsSpec

LEMMA TableStays == ClientsSpec => [](T!TableIsCurrent /\ T!SortIsVisible) /\ T!ColumnStays
<1>1. TableOK(table) /\ [T!Next]_tableVars => TableOK(table)'
    <2> SUFFICES ASSUME TableOK(table), [T!Next]_tableVars PROVE TableOK(table')
        BY DEF TableOK, IsTable, TableBut, IsBefore
    <2> QED BY TableFollows DEF Follows
<1>2. TableOK(table) /\ [T!Next]_tableVars => [table.on /\ table.drawn.incident /\ table'.on => table'.drawn.incident]_table
    BY TableFollows, ColumnHolds
<1> QED BY <1>1, <1>2, TableBegins, TableHolds, TableRunsAlone, PTL DEF T!ColumnStays

-----------------------------------------------------------------------------
(* The graph of networks                                                   *)

GraphFields ==
    {"on", "bulk", "lib", "loads", "built", "dirty", "waiting", "running", "data", "drawn", "coloured", "live", "due",
     "open", "type", "size", "emphasis", "sources"}

\* h is g but for some fields.
GraphBut(g, h, changed) ==
    /\ DOMAIN h = GraphFields /\ h = [f \in GraphFields |-> h[f]]
    /\ \A f \in GraphFields \ changed : h[f] = g[f]

Whole(d) == \A l \in d.links : l.from \in {n.id : n \in d.nodes} /\ l.to \in {n.id : n \in d.nodes}

\* What was built is of what is there now, and so is what the library was given.
IsDrawn(g) ==
    /\ g.built /\ g.data = G!Data(g) /\ g.drawn = G!Filtered(g)
    /\ g.emphasis => g.coloured = g.open

\* Whatever view is on.
IsGraph(g) ==
    /\ GraphBut(g, g, {}) /\ g.waiting \in Nat
    /\ g.lib \in {"none", "loading", "loaded"} /\ (g.lib = "loading" => g.waiting > 0)
    /\ g.built => g.lib = "loaded"
    /\ Whole(g.data) /\ Whole(g.drawn)
    /\ g.dirty \/ IsDrawn(g)

Awaited(g) == g.lib = "loaded" /\ g.waiting = 0 /\ G!Listed(g.bulk) # <<>>

\* What is not of now is awaited, and the loop runs before a reader.
GraphOK(g) ==
    /\ IsGraph(g) /\ g.on \in BOOLEAN
    /\ g.on /\ Awaited(g) => ~g.dirty
    /\ g.built => g.running = g.on

LEMMA BuiltOf ==
    ASSUME NEW g, NEW h, NEW changed, GraphBut(g, h, changed), changed \cap {"bulk", "sources", "size"} = {}
    PROVE  G!Data(h) = G!Data(g)
<1>1. h.bulk = g.bulk /\ h.sources = g.sources /\ h.size = g.size
    BY DEF GraphBut, GraphFields
<1>2. G!VisibleChains(h) = G!VisibleChains(g)
    BY <1>1 DEF G!VisibleChains
<1> QED BY <1>1, <1>2 DEF G!Data

LEMMA FilteredOf ==
    ASSUME NEW g, NEW h, NEW changed, GraphBut(g, h, changed), changed \cap {"bulk", "type", "data"} = {}
    PROVE  G!Filtered(h) = G!Filtered(g)
<1>1. h.bulk = g.bulk /\ h.type = g.type /\ h.data = g.data
    BY DEF GraphBut, GraphFields
<1>2. \A ids : G!LinksFor(h, ids) = G!LinksFor(g, ids)
    BY <1>1 DEF G!LinksFor
<1> QED BY <1>1, <1>2 DEF G!Filtered

LEMMA DataIsWhole == ASSUME NEW g PROVE Whole(G!Data(g))
<1> DEFINE d == G!Data(g)
           ids == {c.id : c \in G!VisibleChains(g)}
<1>1. {n.id : n \in d.nodes} = ids
    <2>1. d.nodes = {[id |-> c.id, class |-> c.class, size |-> g.size] : c \in G!VisibleChains(g)}
        BY DEF G!Data
    <2> HIDE DEF d
    <2>2. \A n \in d.nodes : n.id \in ids
        BY <2>1
    <2>3. ASSUME NEW c \in G!VisibleChains(g) PROVE c.id \in {n.id : n \in d.nodes}
        <3> DEFINE n == [id |-> c.id, class |-> c.class, size |-> g.size]
        <3>1. n \in d.nodes /\ n.id = c.id
            BY <2>1
        <3> QED BY <3>1
    <2> QED BY <2>2, <2>3
<1>2. \A l \in d.links : l.from \in ids /\ l.to \in ids
    BY DEF G!Data
<1> QED BY <1>1, <1>2 DEF Whole

LEMMA FilteredIsWhole == ASSUME NEW g, Whole(g.data) PROVE Whole(G!Filtered(g))
<1>1. CASE g.type = "all"
    BY <1>1 DEF G!Filtered
<1>2. CASE g.type # "all"
    <2> DEFINE matches == {n.id : n \in {m \in g.data.nodes : m.class = g.type}}
               ids == matches \cup UNION {G!Parents(g.bulk, id) : id \in matches}
               d == [nodes |-> {n \in g.data.nodes : n.id \in ids}, links |-> G!LinksFor(g, ids)]
    <2>1. G!Filtered(g) = d
        BY <1>2 DEF G!Filtered
    <2> HIDE DEF ids
    <2>2. ASSUME NEW l \in d.links PROVE l.from \in {n.id : n \in d.nodes} /\ l.to \in {n.id : n \in d.nodes}
        <3>1. l \in g.data.links /\ l.from \in ids /\ l.to \in ids
            BY <2>2 DEF G!LinksFor
        <3>2. PICK n \in g.data.nodes : n.id = l.from
            BY <3>1 DEF Whole
        <3>3. PICK m \in g.data.nodes : m.id = l.to
            BY <3>1 DEF Whole
        <3> QED BY <3>1, <3>2, <3>3
    <2> QED BY <2>1, <2>2 DEF Whole
<1> QED BY <1>1, <1>2

\* A list, a choice or the library: none of these touches what was built or drawn.
OfTheGraph == {"data", "drawn", "built", "dirty", "coloured", "bulk", "sources", "size", "type", "emphasis", "open", "lib", "waiting"}

LEMMA ButIsGraph ==
    ASSUME NEW g, IsGraph(g), NEW h, NEW changed, GraphBut(g, h, changed), changed \cap OfTheGraph = {}
    PROVE  IsGraph(h) /\ (Awaited(h) = Awaited(g)) /\ h.dirty = g.dirty /\ h.built = g.built
<1>1. /\ h.data = g.data /\ h.drawn = g.drawn /\ h.built = g.built /\ h.dirty = g.dirty /\ h.coloured = g.coloured
      /\ h.emphasis = g.emphasis /\ h.open = g.open /\ h.lib = g.lib /\ h.waiting = g.waiting /\ h.bulk = g.bulk
    BY DEF GraphBut, GraphFields, OfTheGraph
<1>2. G!Data(h) = G!Data(g) /\ G!Filtered(h) = G!Filtered(g)
    BY BuiltOf, FilteredOf DEF OfTheGraph
<1>3. IsDrawn(g) => IsDrawn(h)
    BY <1>1, <1>2 DEF IsDrawn
<1>4. GraphBut(h, h, {})
    BY DEF GraphBut
<1> QED BY <1>1, <1>3, <1>4 DEF IsGraph, Awaited

\* What becomes of the view when all of it is drawn anew.
LEMMA FilterIsApplied ==
    ASSUME NEW g, GraphBut(g, g, {}), g.built, Whole(g.data), g.data = G!Data(g)
    PROVE  LET a == G!ApplyGraphFilter(g)
           IN  GraphBut(g, a, {"drawn", "coloured"}) /\ IsDrawn(a) /\ Whole(a.drawn) /\ Whole(a.data)
<1> DEFINE a == [g EXCEPT !.drawn = G!Filtered(g), !.coloured = IF g.emphasis THEN g.open ELSE None]
<1>1. G!ApplyGraphFilter(g) = a
    BY DEF G!ApplyGraphFilter
<1>2. /\ GraphBut(g, a, {"drawn", "coloured"}) /\ a.drawn = G!Filtered(g)
      /\ a.coloured = IF g.emphasis THEN g.open ELSE None
    BY DEF GraphBut, GraphFields
<1> HIDE DEF a
<1>3. a.built = g.built /\ a.data = g.data /\ a.emphasis = g.emphasis /\ a.open = g.open
    BY <1>2 DEF GraphBut, GraphFields
<1>4. G!Data(a) = G!Data(g) /\ G!Filtered(a) = G!Filtered(g)
    BY <1>2, BuiltOf, FilteredOf
<1>5. Whole(a.drawn)
    BY <1>2, FilteredIsWhole
<1> QED BY <1>1, <1>2, <1>3, <1>4, <1>5 DEF IsDrawn

LEMMA RedrawnIs ==
    ASSUME NEW g, GraphBut(g, g, {}), g.lib = "loaded"
    PROVE  LET r == G!Redrawn(g)
           IN  /\ GraphBut(g, r, {"data", "built", "drawn", "running", "coloured"})
               /\ IsDrawn(r) /\ Whole(r.drawn) /\ Whole(r.data)
               /\ r.running = IF g.built THEN g.running ELSE TRUE
<1> DEFINE d == G!Data(g)
           b == IF g.built THEN [g EXCEPT !.data = d]
                ELSE [g EXCEPT !.data = d, !.built = TRUE, !.drawn = d, !.running = TRUE]
           r == G!ApplyGraphFilter(b)
<1>1. G!BuildGraph(g) = b
    BY DEF G!BuildGraph
<1>2. /\ GraphBut(g, b, {"data", "built", "drawn", "running"}) /\ b.data = d /\ b.built
      /\ b.running = IF g.built THEN g.running ELSE TRUE
    BY DEF GraphBut, GraphFields
<1> HIDE DEF b
<1>3. G!Data(b) = d
    BY <1>2, BuiltOf
<1>4. GraphBut(b, b, {}) /\ Whole(b.data)
    BY <1>2, DataIsWhole DEF GraphBut
<1>5. GraphBut(b, r, {"drawn", "coloured"}) /\ IsDrawn(r) /\ Whole(r.drawn) /\ Whole(r.data)
    BY <1>2, <1>3, <1>4, FilterIsApplied
<1>6. r = G!Redrawn(g)
    BY <1>1 DEF G!Redrawn
<1> HIDE DEF r
<1>7. r.running = b.running
    BY <1>5 DEF GraphBut, GraphFields
<1>8. GraphBut(g, r, {"data", "built", "drawn", "running", "coloured"})
    BY <1>2, <1>5 DEF GraphBut
<1> QED BY <1>2, <1>5, <1>6, <1>7, <1>8

\* A visit: it starts the loop, and asks for the library.
LEMMA EnsuringIs ==
    ASSUME NEW g, IsGraph(g), g.on
    PROVE  LET r == G!EnsureGraphView(g)
           IN  /\ GraphBut(g, r, {"running", "waiting", "lib"}) /\ IsGraph(r) /\ ~Awaited(r)
               /\ r.built => r.running = TRUE
<1> DEFINE s == [g EXCEPT !.running = @ \/ g.built]
           w == [s EXCEPT !.waiting = @ + 1, !.lib = IF @ = "none" THEN "loading" ELSE @]
           r == IF G!Listed(g.bulk) = <<>> THEN s ELSE w
<1>1. GraphBut(g, s, {"running"}) /\ (g.built => s.running = TRUE)
    BY DEF IsGraph, GraphBut, GraphFields
<1>2. s.bulk = g.bulk /\ s.waiting = g.waiting /\ s.lib = g.lib
    BY <1>1 DEF GraphBut, GraphFields
<1>3. r = G!EnsureGraphView(g)
    BY <1>2 DEF G!EnsureGraphView
<1>4. /\ GraphBut(s, w, {"waiting", "lib"}) /\ w.waiting = g.waiting + 1
      /\ w.lib = IF g.lib = "none" THEN "loading" ELSE g.lib
    BY <1>1, <1>2 DEF GraphBut, GraphFields
<1> HIDE DEF s, w
<1>5. IsGraph(s) /\ s.built = g.built
    BY <1>1, ButIsGraph DEF OfTheGraph
<1>6. /\ w.data = s.data /\ w.drawn = s.drawn /\ w.built = s.built /\ w.dirty = s.dirty /\ w.coloured = s.coloured
      /\ w.emphasis = s.emphasis /\ w.open = s.open /\ w.running = s.running /\ w.bulk = s.bulk
    BY <1>4 DEF GraphBut, GraphFields
<1>7. G!Data(w) = G!Data(s) /\ G!Filtered(w) = G!Filtered(s)
    BY <1>4, BuiltOf, FilteredOf
<1>8. IsDrawn(s) => IsDrawn(w)
    BY <1>6, <1>7 DEF IsDrawn
<1>9. IsGraph(w) /\ w.waiting > 0
    <2>1. GraphBut(w, w, {})
        BY <1>4 DEF GraphBut
    <2>2. g.waiting \in Nat
        BY DEF IsGraph
    <2> QED BY <1>2, <1>4, <1>5, <1>6, <1>8, <2>1, <2>2 DEF IsGraph
<1>10. GraphBut(g, s, {"running", "waiting", "lib"}) /\ GraphBut(g, w, {"running", "waiting", "lib"})
    BY <1>1, <1>4 DEF GraphBut
<1>11. CASE G!Listed(g.bulk) = <<>>
    BY <1>1, <1>2, <1>3, <1>5, <1>10, <1>11 DEF Awaited
<1>12. CASE G!Listed(g.bulk) # <<>>
    BY <1>1, <1>3, <1>5, <1>6, <1>9, <1>10, <1>12 DEF Awaited
<1> QED BY <1>11, <1>12

LEMMA ViewOK == ASSUME NEW g, IsGraph(g), NEW on PROVE GraphOK(G!SwitchView(g, on))
<1>1. CASE on
    <2> DEFINE u == [g EXCEPT !.on = TRUE]
    <2>1. GraphBut(g, u, {"on"}) /\ u.on = TRUE
        BY DEF IsGraph, GraphBut, GraphFields
    <2>2. G!SwitchView(g, on) = G!EnsureGraphView(u)
        BY <1>1 DEF G!SwitchView
    <2> HIDE DEF u
    <2> DEFINE r == G!EnsureGraphView(u)
    <2>3. IsGraph(u)
        BY <2>1, ButIsGraph DEF OfTheGraph
    <2>4. /\ GraphBut(u, r, {"running", "waiting", "lib"}) /\ IsGraph(r) /\ ~Awaited(r)
          /\ r.built => r.running = TRUE
        BY <2>1, <2>3, EnsuringIs
    <2>5. r.on = u.on
        BY <2>4 DEF GraphBut, GraphFields
    <2> QED BY <2>1, <2>2, <2>4, <2>5 DEF GraphOK
<1>2. CASE ~on
    <2> DEFINE r == [[g EXCEPT !.on = FALSE] EXCEPT !.running = FALSE]
    <2>1. GraphBut(g, r, {"on", "running"}) /\ r.on = FALSE /\ r.running = FALSE
        BY DEF IsGraph, GraphBut, GraphFields
    <2>2. G!SwitchView(g, on) = r
        BY <1>2 DEF G!SwitchView, G!PauseGraph
    <2> HIDE DEF r
    <2>3. IsGraph(r)
        BY <2>1, ButIsGraph DEF OfTheGraph
    <2> QED BY <2>1, <2>2, <2>3 DEF GraphOK
<1> QED BY <1>1, <1>2

LEMMA BulkOK == ASSUME NEW g, IsGraph(g), NEW bulk PROVE GraphOK(G!ApplyBulk(g, bulk))
<1> DEFINE u == [g EXCEPT !.bulk = bulk, !.open = g.live, !.dirty = TRUE]
           v == IF u.on THEN G!EnsureGraphView(u) ELSE u
<1>1. GraphBut(g, u, {"bulk", "open", "dirty"}) /\ u.dirty
    BY DEF IsGraph, GraphBut, GraphFields
<1>2. G!ApplyBulk(g, bulk) = G!SwitchView(v, u.on)
    BY DEF G!ApplyBulk
<1> HIDE DEF u
<1>3. /\ u.data = g.data /\ u.drawn = g.drawn /\ u.built = g.built /\ u.lib = g.lib /\ u.waiting = g.waiting
      /\ u.on = g.on
    BY <1>1 DEF GraphBut, GraphFields
<1>4. IsGraph(u)
    BY <1>1, <1>3 DEF IsGraph, GraphBut
<1>5. IsGraph(v)
    BY <1>4, EnsuringIs
<1> HIDE DEF v
<1> QED BY <1>2, <1>3, <1>5, ViewOK

LEMMA RedrawnOK ==
    ASSUME NEW g, GraphBut(g, g, {}), g.lib = "loaded", g.waiting \in Nat, g.on = TRUE, g.built => g.running = TRUE
    PROVE  GraphOK([G!Redrawn(g) EXCEPT !.dirty = FALSE])
<1> DEFINE r == G!Redrawn(g)
           e == [r EXCEPT !.dirty = FALSE]
<1>1. /\ GraphBut(g, r, {"data", "built", "drawn", "running", "coloured"})
      /\ IsDrawn(r) /\ Whole(r.drawn) /\ Whole(r.data)
      /\ r.running = IF g.built THEN g.running ELSE TRUE
    BY RedrawnIs
<1> HIDE DEF r
<1>2. GraphBut(r, e, {"dirty"}) /\ e.dirty = FALSE
    BY <1>1 DEF GraphBut, GraphFields
<1> HIDE DEF e
<1>3. r.waiting = g.waiting /\ r.lib = g.lib /\ r.on = g.on /\ r.dirty = g.dirty
    BY <1>1 DEF GraphBut, GraphFields
<1>4. /\ e.waiting = r.waiting /\ e.lib = r.lib /\ e.on = r.on /\ e.built = r.built /\ e.data = r.data /\ e.drawn = r.drawn
      /\ e.running = r.running /\ e.emphasis = r.emphasis /\ e.coloured = r.coloured /\ e.open = r.open
    BY <1>2 DEF GraphBut, GraphFields
<1>5. G!Data(e) = G!Data(r) /\ G!Filtered(e) = G!Filtered(r)
    BY <1>2, BuiltOf, FilteredOf
<1>6. GraphBut(r, r, {}) /\ GraphBut(e, e, {})
    BY <1>1, <1>2 DEF GraphBut
<1>7. IsDrawn(e)
    BY <1>1, <1>4, <1>5 DEF IsDrawn
<1>8. IsGraph(e)
    BY <1>1, <1>3, <1>4, <1>6, <1>7 DEF IsGraph
<1>9. GraphOK(e)
    BY <1>1, <1>2, <1>3, <1>4, <1>8 DEF GraphOK
<1>10. e = [G!Redrawn(g) EXCEPT !.dirty = FALSE]
    BY DEF e, r
<1> QED BY <1>9, <1>10

\* What is pressed or repainted is drawn of what was built.
LEMMA FilterOK ==
    ASSUME NEW t, GraphOK(t), NEW g, GraphBut(t, g, {"type", "emphasis", "due", "open"})
    PROVE  GraphOK(G!ApplyGraphFilter(g))
<1> DEFINE a == [g EXCEPT !.drawn = G!Filtered(g), !.coloured = IF g.emphasis THEN g.open ELSE None]
<1>1. /\ g.data = t.data /\ g.drawn = t.drawn /\ g.built = t.built /\ g.dirty = t.dirty /\ g.lib = t.lib
      /\ g.waiting = t.waiting /\ g.bulk = t.bulk /\ g.on = t.on /\ g.running = t.running
    BY DEF GraphBut, GraphFields
<1>2. GraphBut(g, g, {}) /\ G!Data(g) = G!Data(t)
    <2>1. {"type", "emphasis", "due", "open"} \cap {"bulk", "sources", "size"} = {}
        OBVIOUS
    <2> QED BY <2>1, BuiltOf DEF GraphBut
<1>3. CASE ~g.built
    <2>1. G!ApplyGraphFilter(g) = g
        BY <1>3 DEF G!ApplyGraphFilter
    <2>2. g.dirty
        BY <1>1, <1>3 DEF GraphOK, IsGraph, IsDrawn
    <2>3. IsGraph(g)
        BY <1>1, <1>2, <1>3, <2>2 DEF GraphOK, IsGraph
    <2> QED BY <1>1, <1>3, <2>1, <2>3 DEF GraphOK, Awaited
<1>4. CASE g.built
    <2>1. G!ApplyGraphFilter(g) = a
        BY <1>4 DEF G!ApplyGraphFilter
    <2>2. GraphBut(g, a, {"drawn", "coloured"}) /\ a.drawn = G!Filtered(g)
        BY <1>2 DEF GraphBut, GraphFields
    <2> HIDE DEF a
    <2>3. /\ a.data = g.data /\ a.built = g.built /\ a.dirty = g.dirty /\ a.lib = g.lib
          /\ a.waiting = g.waiting /\ a.bulk = g.bulk /\ a.on = g.on /\ a.running = g.running
        BY <2>2 DEF GraphBut, GraphFields
    <2>4. Whole(a.data) /\ Whole(a.drawn)
        BY <1>1, <2>2, <2>3, FilteredIsWhole DEF GraphOK, IsGraph
    <2>5. g.dirty \/ IsDrawn(a)
        <3> SUFFICES ASSUME ~g.dirty PROVE IsDrawn(a)
            OBVIOUS
        <3>1. g.data = G!Data(g) /\ Whole(g.data)
            BY <1>1, <1>2 DEF GraphOK, IsGraph, IsDrawn
        <3> QED BY <1>2, <1>4, <2>1, <3>1, FilterIsApplied
    <2>6. IsGraph(a)
        BY <1>1, <2>2, <2>3, <2>4, <2>5 DEF GraphOK, IsGraph, GraphBut
    <2> QED BY <1>1, <2>1, <2>3, <2>6 DEF GraphOK, Awaited
<1> QED BY <1>3, <1>4

\* One that comes before the library leaves its mark.
LEMMA ChoiceOK ==
    ASSUME NEW t, GraphOK(t), t.on, NEW g, GraphBut(t, g, {"size", "sources"})
    PROVE  GraphOK(G!Redrawn(g))
<1>1. /\ g.data = t.data /\ g.drawn = t.drawn /\ g.built = t.built /\ g.dirty = t.dirty /\ g.lib = t.lib
      /\ g.waiting = t.waiting /\ g.bulk = t.bulk /\ g.on = t.on /\ g.running = t.running
    BY DEF GraphBut, GraphFields
<1>2. GraphBut(g, g, {})
    BY DEF GraphBut
<1>3. CASE g.lib = "loaded"
    <2> DEFINE r == G!Redrawn(g)
    <2>1. /\ GraphBut(g, r, {"data", "built", "drawn", "running", "coloured"})
          /\ IsDrawn(r) /\ Whole(r.drawn) /\ Whole(r.data)
          /\ r.running = IF g.built THEN g.running ELSE TRUE
        BY <1>2, <1>3, RedrawnIs
    <2> HIDE DEF r
    <2>2. r.waiting = g.waiting /\ r.lib = g.lib /\ r.on = g.on /\ r.dirty = g.dirty /\ r.bulk = g.bulk
        BY <2>1 DEF GraphBut, GraphFields
    <2>3. GraphBut(r, r, {})
        BY <2>1 DEF GraphBut
    <2>4. IsGraph(r)
        BY <1>1, <1>3, <2>1, <2>2, <2>3 DEF GraphOK, IsGraph
    <2>5. GraphOK(r)
        BY <1>1, <2>1, <2>2, <2>4 DEF GraphOK, Awaited
    <2>6. r = G!Redrawn(g)
        BY DEF r
    <2> QED BY <2>5, <2>6
<1>4. CASE g.lib # "loaded"
    <2> DEFINE u == [g EXCEPT !.dirty = TRUE]
    <2>1. GraphBut(g, u, {"dirty"}) /\ u.dirty
        BY <1>2 DEF GraphBut, GraphFields
    <2>2. ~g.built /\ G!BuildGraph(g) = u
        BY <1>1, <1>4 DEF G!BuildGraph, GraphOK, IsGraph
    <2> HIDE DEF u
    <2>3. /\ u.data = g.data /\ u.drawn = g.drawn /\ u.built = g.built /\ u.lib = g.lib
          /\ u.waiting = g.waiting /\ u.bulk = g.bulk /\ u.on = g.on
        BY <2>1 DEF GraphBut, GraphFields
    <2>4. G!Redrawn(g) = u
        BY <2>2, <2>3 DEF G!Redrawn, G!ApplyGraphFilter
    <2>5. IsGraph(u)
        BY <1>1, <2>1, <2>2, <2>3 DEF GraphOK, IsGraph, GraphBut
    <2> QED BY <1>1, <1>4, <2>2, <2>3, <2>4, <2>5 DEF GraphOK, Awaited
<1> QED BY <1>3, <1>4

LEMMA GraphStep == GraphOK(graph) /\ [G!Next]_graphVars => GraphOK(graph')
<1> SUFFICES ASSUME GraphOK(graph), G!Next PROVE GraphOK(graph')
    BY DEF graphVars
<1>a. IsGraph(graph) /\ GraphBut(graph, graph, {}) /\ graph.on \in BOOLEAN
    BY DEF GraphOK, IsGraph
<1>1. CASE G!BulkArrives
    BY <1>1, <1>a, BulkOK DEF G!BulkArrives, G!Told
<1>2. CASE G!LibraryLoads
    <2> DEFINE g == [graph EXCEPT !.lib = "loaded"]
    <2>1. graph' = g /\ graph.lib = "loading"
        BY <1>2 DEF G!LibraryLoads, G!Goes
    <2>2. GraphBut(graph, g, {"lib"}) /\ g.lib = "loaded"
        BY <1>a DEF GraphBut, GraphFields
    <2> HIDE DEF g
    <2>3. /\ g.data = graph.data /\ g.drawn = graph.drawn /\ g.built = graph.built /\ g.dirty = graph.dirty
          /\ g.waiting = graph.waiting /\ g.on = graph.on
        BY <2>2 DEF GraphBut, GraphFields
    <2>4. ~graph.built /\ graph.waiting > 0 /\ graph.waiting \in Nat
        BY <1>a, <2>1 DEF IsGraph
    <2>5. graph.dirty
        BY <1>a, <2>4 DEF IsGraph, IsDrawn
    <2>6. IsGraph(g)
        BY <1>a, <2>2, <2>3, <2>5 DEF IsGraph, GraphBut
    <2> QED BY <1>a, <2>1, <2>3, <2>4, <2>6 DEF GraphOK, Awaited
<1>3. CASE G!LibraryFails
    <2> DEFINE g == [graph EXCEPT !.lib = "none", !.loads = @ + 1, !.waiting = 0]
    <2>1. graph' = g /\ graph.lib = "loading"
        BY <1>3 DEF G!LibraryFails, G!Goes
    <2>2. GraphBut(graph, g, {"lib", "loads", "waiting"}) /\ g.lib = "none" /\ g.waiting = 0
        BY <1>a DEF GraphBut, GraphFields
    <2> HIDE DEF g
    <2>3. /\ g.data = graph.data /\ g.drawn = graph.drawn /\ g.built = graph.built /\ g.dirty = graph.dirty
          /\ g.on = graph.on
        BY <2>2 DEF GraphBut, GraphFields
    <2>4. ~graph.built
        BY <1>a, <2>1 DEF IsGraph
    <2>5. graph.dirty
        BY <1>a, <2>4 DEF IsGraph, IsDrawn
    <2>6. IsGraph(g)
        BY <1>a, <2>2, <2>3, <2>4, <2>5 DEF IsGraph, GraphBut
    <2> QED BY <1>a, <2>1, <2>2, <2>3, <2>4, <2>6 DEF GraphOK, Awaited
<1>4. CASE G!ViewIsEnsured
    <2> DEFINE g == [graph EXCEPT !.waiting = @ - 1]
    <2>1. graph' = G!Ensured(g) /\ graph.lib = "loaded" /\ graph.waiting > 0
        BY <1>4 DEF G!ViewIsEnsured, G!Goes
    <2>2. GraphBut(graph, g, {"waiting"}) /\ g.waiting = graph.waiting - 1
        BY <1>a DEF GraphBut, GraphFields
    <2> HIDE DEF g
    <2>3. /\ g.data = graph.data /\ g.drawn = graph.drawn /\ g.built = graph.built /\ g.dirty = graph.dirty
          /\ g.lib = graph.lib /\ g.on = graph.on /\ g.running = graph.running /\ g.bulk = graph.bulk
          /\ g.emphasis = graph.emphasis /\ g.coloured = graph.coloured /\ g.open = graph.open
        BY <2>2 DEF GraphBut, GraphFields
    <2>4. GraphBut(g, g, {}) /\ g.waiting \in Nat
        BY <1>a, <2>1, <2>2 DEF IsGraph, GraphBut
    <2>5. CASE g.on /\ g.dirty
        <3>1. graph' = [G!Redrawn(g) EXCEPT !.dirty = FALSE]
            BY <2>1, <2>5 DEF G!Ensured
        <3>2. g.on = TRUE /\ (g.built => g.running = TRUE)
            BY <1>a, <2>3, <2>5 DEF GraphOK
        <3> QED BY <2>1, <2>3, <2>4, <3>1, <3>2, RedrawnOK
    <2>6. CASE ~(g.on /\ g.dirty)
        <3>1. graph' = g
            BY <2>1, <2>6 DEF G!Ensured
        <3>2. G!Data(g) = G!Data(graph) /\ G!Filtered(g) = G!Filtered(graph)
            BY <2>2, BuiltOf, FilteredOf
        <3>3. IsDrawn(graph) => IsDrawn(g)
            BY <2>3, <3>2 DEF IsDrawn
        <3>4. IsGraph(g)
            BY <1>a, <2>1, <2>3, <2>4, <3>3 DEF IsGraph
        <3> QED BY <1>a, <2>3, <2>6, <3>1, <3>4 DEF GraphOK
    <2> QED BY <2>5, <2>6
<1>5. CASE G!FeedChanges
    <2> PICK live : graph' = [graph EXCEPT !.live = live, !.due = TRUE]
        BY <1>5 DEF G!FeedChanges, G!Told
    <2>1. GraphBut(graph, graph', {"live", "due"})
        BY <1>a DEF GraphBut, GraphFields
    <2>2. IsGraph(graph') /\ Awaited(graph') = Awaited(graph) /\ graph'.dirty = graph.dirty /\ graph'.built = graph.built
        BY <1>a, <2>1, ButIsGraph DEF OfTheGraph
    <2>3. graph'.on = graph.on /\ graph'.running = graph.running
        BY <2>1 DEF GraphBut, GraphFields
    <2> QED BY <2>2, <2>3 DEF GraphOK
<1>6. CASE G!Repaint
    <2> DEFINE g == [graph EXCEPT !.due = FALSE, !.open = graph.live]
    <2>1. graph' = IF g.emphasis THEN G!ApplyGraphFilter(g) ELSE g
        BY <1>6 DEF G!Repaint, G!Goes
    <2>2. GraphBut(graph, g, {"due", "open"})
        BY <1>a DEF GraphBut, GraphFields
    <2> HIDE DEF g
    <2>3. CASE g.emphasis
        <3>1. GraphBut(graph, g, {"type", "emphasis", "due", "open"})
            BY <2>2 DEF GraphBut
        <3> QED BY <2>1, <2>3, <3>1, FilterOK
    <2>4. CASE ~g.emphasis
        <3>1. /\ g.data = graph.data /\ g.drawn = graph.drawn /\ g.built = graph.built /\ g.dirty = graph.dirty
              /\ g.lib = graph.lib /\ g.on = graph.on /\ g.running = graph.running /\ g.bulk = graph.bulk
              /\ g.waiting = graph.waiting
            BY <2>2 DEF GraphBut, GraphFields
        <3>2. G!Data(g) = G!Data(graph) /\ G!Filtered(g) = G!Filtered(graph)
            BY <2>2, BuiltOf, FilteredOf
        <3>3. IsDrawn(graph) => IsDrawn(g)
            BY <2>4, <3>1, <3>2 DEF IsDrawn
        <3>4. IsGraph(g)
            BY <1>a, <2>2, <3>1, <3>3 DEF IsGraph, GraphBut
        <3> QED BY <2>1, <2>4, <3>1, <3>4 DEF GraphOK, Awaited
    <2> QED BY <2>3, <2>4
<1>7. CASE G!ChangesView
    BY <1>7, <1>a, ViewOK DEF G!ChangesView, G!Clicked
<1>8. ASSUME NEW type, G!ClicksType(type) PROVE GraphOK(graph')
    <2> DEFINE g == [graph EXCEPT !.type = type]
    <2>1. graph' = G!ApplyGraphFilter(g)
        BY <1>8 DEF G!ClicksType, G!Clicked
    <2>2. GraphBut(graph, g, {"type", "emphasis", "due", "open"})
        BY <1>a DEF GraphBut, GraphFields
    <2> HIDE DEF g
    <2> QED BY <2>1, <2>2, FilterOK
<1>9. ASSUME NEW size, G!ClicksSize(size) PROVE GraphOK(graph')
    <2> DEFINE g == [graph EXCEPT !.size = size]
    <2>1. graph' = G!Redrawn(g) /\ graph.on
        BY <1>9 DEF G!ClicksSize, G!Clicked
    <2>2. GraphBut(graph, g, {"size", "sources"})
        BY <1>a DEF GraphBut, GraphFields
    <2> HIDE DEF g
    <2> QED BY <2>1, <2>2, ChoiceOK
<1>10. CASE G!ClicksEmphasis
    <2> DEFINE g == [graph EXCEPT !.emphasis = ~@]
    <2>1. graph' = G!ApplyGraphFilter(g)
        BY <1>10 DEF G!ClicksEmphasis, G!Clicked
    <2>2. GraphBut(graph, g, {"type", "emphasis", "due", "open"})
        BY <1>a DEF GraphBut, GraphFields
    <2> HIDE DEF g
    <2> QED BY <2>1, <2>2, FilterOK
<1>11. ASSUME NEW s, G!ClicksSource(s) PROVE GraphOK(graph')
    <2> DEFINE g == [graph EXCEPT !.sources = IF s \in @ THEN @ \ {s} ELSE @ \cup {s}]
    <2>1. graph' = G!Redrawn(g) /\ graph.on
        BY <1>11 DEF G!ClicksSource, G!Clicked
    <2>2. GraphBut(graph, g, {"size", "sources"})
        BY <1>a DEF GraphBut, GraphFields
    <2> HIDE DEF g
    <2> QED BY <2>1, <2>2, ChoiceOK
<1> QED BY <1>1, <1>2, <1>3, <1>4, <1>5, <1>6, <1>7, <1>8, <1>9, <1>10, <1>11 DEF G!Next

LEMMA GraphBegins == G!Init => GraphOK(graph)
<1> SUFFICES ASSUME G!Init PROVE GraphOK(graph)
    OBVIOUS
<1> PICK on \in BOOLEAN :
        graph = [on |-> on, bulk |-> None, lib |-> "none", loads |-> 0, built |-> FALSE, dirty |-> TRUE, waiting |-> 0,
                 running |-> FALSE, data |-> G!Nothing, drawn |-> G!Nothing, coloured |-> None, live |-> {}, due |-> FALSE,
                 open |-> {}, type |-> "all", size |-> "tvs", emphasis |-> FALSE, sources |-> AllSources]
    BY DEF G!Init
<1>1. GraphBut(graph, graph, {})
    BY DEF GraphBut, GraphFields
<1>2. Whole(G!Nothing)
    BY DEF Whole, G!Nothing
<1>3. IsGraph(graph)
    BY <1>1, <1>2 DEF IsGraph
<1> QED BY <1>3 DEF GraphOK, Awaited

LEMMA GraphHolds == GraphOK(graph) => G!EndsAreDrawn /\ G!GraphIsCurrent /\ G!LoopIsPaused
<1> SUFFICES ASSUME GraphOK(graph) PROVE G!EndsAreDrawn /\ G!GraphIsCurrent /\ G!LoopIsPaused
    OBVIOUS
<1>1. IsGraph(graph) /\ GraphBut(graph, graph, {})
    BY DEF GraphOK, IsGraph
<1>2. G!EndsAreDrawn
    BY <1>1 DEF G!EndsAreDrawn, IsGraph, Whole
<1>3. G!LoopIsPaused
    BY DEF G!LoopIsPaused, GraphOK
<1>4. ASSUME graph.on, G!Listed(graph.bulk) # <<>>, graph.lib = "loaded", graph.waiting = 0
      PROVE  /\ graph.drawn = G!Filtered([graph EXCEPT !.data = G!Data(graph)])
             /\ graph.emphasis => graph.coloured = graph.open
    <2>1. IsDrawn(graph)
        BY <1>4 DEF GraphOK, IsGraph, Awaited
    <2>2. [graph EXCEPT !.data = G!Data(graph)] = graph
        BY <1>1, <2>1 DEF IsDrawn, GraphBut
    <2> QED BY <2>1, <2>2 DEF IsDrawn
<1>5. G!GraphIsCurrent
    BY <1>4 DEF G!GraphIsCurrent
<1> QED BY <1>2, <1>3, <1>5

LEMMA GraphRunsAlone == ClientsSpec => G!Init /\ [][G!Next]_graphVars
<1>1. ClientsInit => G!Init
    BY DEF ClientsInit
<1>2. [ClientsNext]_everything => [G!Next]_graphVars
    BY DEF ClientsNext, everything, graphVars
<1> QED BY <1>1, <1>2, PTL DEF ClientsSpec

LEMMA GraphFollows == ClientsSpec => [](G!EndsAreDrawn /\ G!GraphIsCurrent /\ G!LoopIsPaused)
<1>1. GraphOK(graph) /\ [G!Next]_graphVars => GraphOK(graph)'
    <2> SUFFICES ASSUME GraphOK(graph), [G!Next]_graphVars PROVE GraphOK(graph')
        BY DEF GraphOK, IsGraph, GraphBut, IsDrawn, Awaited, Whole
    <2> QED BY GraphStep
<1> QED BY <1>1, GraphBegins, GraphHolds, GraphRunsAlone, PTL

\* The table and the graph are of the newest list and of the pressed chips (app.js:717, 2345);
\* a table is sorted by a column that is there (app.js:2186), the incident column stays
\* (app.js:2032), every link has both ends (app.js:2479), and nothing is drawn behind another
\* view (app.js:2334).
THEOREM NetworksAreAlwaysCurrent == ClientsSpec => NetworksAreCurrent
<1> QED BY TableStays, GraphFollows, PTL DEF NetworksAreCurrent
=============================================================================
