----------------------------- MODULE PageProofs -----------------------------
(***************************************************************************)
(* ChainPage, as MCClients runs it, for all networks, clients, lists and   *)
(* any number of openings: what is shown is what was asked for, whatever   *)
(* answers are late, and the address is that of the screen.  TimelineView, *)
(* for all events, ranges and searches: the list of events is complete and *)
(* in order.  BrowserProbes, for all endpoints: what rests has tested      *)
(* enough, and shows what works first.                                     *)
(***************************************************************************)
EXTENDS MCClients, Integers, FiniteSetTheorems, WellFoundedInduction, TLAPS

-----------------------------------------------------------------------------
(* The drawer and the page of a network                                    *)

PageFields ==
    {"view", "chain", "client", "profile", "history", "at", "bulk", "failed", "loading", "opened", "clientSeq", "panel",
     "head", "asked", "follows", "settled", "feed", "token", "rendered", "renderedBulk", "header", "profileHead"}

\* q is p but for some fields.
PageBut(p, q, changed) ==
    /\ DOMAIN q = PageFields /\ q = [f \in PageFields |-> q[f]]
    /\ \A f \in PageFields \ changed : q[f] = p[f]

IsPage(p) == PageBut(p, p, {})

Address ==
    [profile : Network \cup {None}, view : D!Views \ {"chain"}, chain : Network \cup {None}, client : Software \cup {None}]

HistoryOK(p) == p.history \in Seq(Address) /\ p.at \in 1..Len(p.history)

\* A part of what is on the screen has its answer or waits for one.
Awaits(p, on, opening, parts) ==
    \A k \in parts \cap p.follows :
        \/ on \in p.settled \/ (k = "software" /\ ~p.feed)
        \/ \E r \in p.asked : r.kind = k /\ r.on = on /\ r.opening = opening

\* What an opening asked for is of what it shows.
DrawerRequest(p, r) ==
    /\ r.kind \in D!DrawerParts \cup {"client"} /\ r.opening \in 1..p.opened
    /\ r.kind \in D!DrawerParts /\ r.opening = p.opened /\ p.chain # None => r.of = p.chain

DrawerOK(p) ==
    /\ p.chain \in InList \cup {None} /\ p.client \in Software \cup {None} /\ p.opened \in Nat
    /\ p.chain # None => p.client = None
    /\ p.client # None => p.clientSeq = p.opened
    /\ p.head # None => p.chain = p.head.of
    /\ p.panel \subseteq {p.opened}
    /\ \A r \in p.asked : r.on = "drawer" => DrawerRequest(p, r)
    /\ p.chain # None => Awaits(p, "drawer", p.opened, D!DrawerParts)
    /\ p.client # None => Awaits(p, "drawer", p.opened, {"client"})

PageRequest(p, r) ==
    /\ r.kind \in D!ProfileParts \cup {"refresh"} /\ r.opening \in 1..p.token /\ r.of \in Network
    /\ r.opening = p.token /\ p.rendered # None => r.of = p.rendered

OnPage(p) == D!OnProfile(p) /\ p.rendered = p.profile

\* The header is of the list that the page was last fed, or a newer one is awaited.
HeaderOK(p) ==
    \/ p.header = p.renderedBulk
    \/ \E r \in p.asked : r.kind = "refresh" /\ r.on = "page" /\ r.opening = p.token

ProfileOK(p) ==
    /\ p.view \in D!Views /\ p.profile \in Network \cup {None} /\ p.rendered \in Network \cup {None}
    /\ p.token \in Nat /\ p.bulk \in Nat
    /\ p.view = "chain" => p.profile # None
    /\ p.profileHead # None =>
           D!OnProfile(p) /\ p.token > 0 /\ p.profileHead = [of |-> p.profile, opening |-> p.token]
    /\ p.bulk = 0 /\ ~p.failed => p.token = 0
    /\ p.rendered # None => p.token > 0
    /\ \A r \in p.asked : r.on # "drawer" => PageRequest(p, r)
    /\ OnPage(p) =>
           Awaits(p, "page", p.token, D!ProfileParts) /\ ("refresh" \in p.follows => HeaderOK(p))

\* Once a turn is over, what is shown is of the list that is there.
Fed(p) ==
    D!OnProfile(p) => (p.bulk > 0 => p.rendered = p.profile) /\ (p.rendered = p.profile => p.renderedBulk = p.bulk)

\* What the address says is what is shown.
Matches(p) ==
    LET a == p.history[p.at] IN
    /\ a.profile # None => p.view = "chain" /\ p.profile = a.profile
    /\ a.profile = None =>
           /\ p.view = a.view
           /\ p.chain = IF a.chain \in InList THEN a.chain ELSE None
           /\ p.client = IF a.chain \in InList THEN None ELSE a.client

\* In the middle of a turn, and at its end.
Turning(p) == IsPage(p) /\ HistoryOK(p) /\ DrawerOK(p) /\ ProfileOK(p)
PageOK(p) == Turning(p) /\ Fed(p) /\ (p.bulk > 0 => Matches(p))

LEMMA NetworksAre == InList \subseteq Network /\ None \notin Network /\ None \notin Software
BY DashboardAssumption DEF D!PageAssumption

LEMMA DrawerStays ==
    ASSUME NEW p, DrawerOK(p), NEW q,
           q.chain = p.chain, q.client = p.client, q.clientSeq = p.clientSeq, q.opened = p.opened,
           q.head = p.head, q.panel = p.panel, q.feed = p.feed, q.follows = p.follows,
           {r \in q.asked : r.on = "drawer"} = {r \in p.asked : r.on = "drawer"},
           "drawer" \in q.settled <=> "drawer" \in p.settled
    PROVE  DrawerOK(q)
<1>1. \A r : r \in q.asked /\ r.on = "drawer" <=> r \in p.asked /\ r.on = "drawer"
    OBVIOUS
<1>2. \A parts : Awaits(p, "drawer", p.opened, parts) => Awaits(q, "drawer", q.opened, parts)
    BY <1>1 DEF Awaits
<1>3. \A r \in q.asked : r.on = "drawer" => DrawerRequest(q, r)
    BY <1>1 DEF DrawerOK, DrawerRequest
<1> QED BY <1>2, <1>3 DEF DrawerOK

LEMMA ProfileStays ==
    ASSUME NEW p, ProfileOK(p), NEW q,
           q.view = p.view, q.profile = p.profile, q.rendered = p.rendered, q.token = p.token, q.bulk = p.bulk,
           q.profileHead = p.profileHead, q.failed = p.failed, q.header = p.header, q.renderedBulk = p.renderedBulk,
           q.feed = p.feed, q.follows = p.follows,
           {r \in q.asked : r.on # "drawer"} = {r \in p.asked : r.on # "drawer"},
           "page" \in q.settled <=> "page" \in p.settled
    PROVE  ProfileOK(q)
<1>1. \A r : r \in q.asked /\ r.on # "drawer" <=> r \in p.asked /\ r.on # "drawer"
    OBVIOUS
<1>2. \A parts : Awaits(p, "page", p.token, parts) => Awaits(q, "page", q.token, parts)
    BY <1>1 DEF Awaits
<1>3. \A r \in q.asked : r.on # "drawer" => PageRequest(q, r)
    BY <1>1 DEF ProfileOK, PageRequest
<1>4. HeaderOK(p) => HeaderOK(q)
    BY <1>1 DEF HeaderOK
<1>5. OnPage(q) = OnPage(p) /\ D!OnProfile(q) = D!OnProfile(p)
    BY DEF OnPage, D!OnProfile
<1> QED BY <1>2, <1>3, <1>4, <1>5 DEF ProfileOK

\* All but the address, and what is fed.
LEMMA AddressOfIs ==
    ASSUME NEW p, Turning(p)
    PROVE  /\ D!AddressOf(p) \in Address
           /\ LET a == D!AddressOf(p) IN
              IF p.view = "chain" THEN a.profile = p.profile
              ELSE a.profile = None /\ a.view = p.view /\ a.chain = p.chain /\ a.client = p.client
<1>1. CASE D!OnProfile(p)
    <2>1. D!AddressOf(p) = [profile |-> p.profile, view |-> "overview", chain |-> None, client |-> None]
        BY <1>1 DEF D!AddressOf, D!DefaultView
    <2> QED BY <1>1, <2>1 DEF Address, D!OnProfile, D!Views, Turning, ProfileOK
<1>2. CASE ~D!OnProfile(p)
    <2>1. D!AddressOf(p) = [profile |-> None, view |-> p.view, chain |-> p.chain, client |-> p.client]
        BY <1>2 DEF D!AddressOf
    <2>2. p.view \in D!Views \ {"chain"}
        BY <1>2 DEF D!OnProfile, Turning, ProfileOK
    <2>3. p.chain \in Network \cup {None} /\ p.client \in Software \cup {None}
        BY NetworksAre DEF Turning, DrawerOK
    <2> QED BY <2>1, <2>2, <2>3 DEF Address
<1> QED BY <1>1, <1>2

LEMMA UrlIs ==
    ASSUME NEW p, IsPage(p), HistoryOK(p), D!AddressOf(p) \in Address
    PROVE  LET u == D!UpdateUrl(p)
               h == D!PushUrl(p)
           IN  /\ PageBut(p, u, {"history"}) /\ HistoryOK(u) /\ u.history[u.at] = D!AddressOf(p)
               /\ PageBut(p, h, {"history", "at"}) /\ HistoryOK(h) /\ h.history[h.at] = D!AddressOf(p)
<1> DEFINE a == D!AddressOf(p)
           u == [p EXCEPT !.history = [p.history EXCEPT ![p.at] = a]]
           h == [p EXCEPT !.history = Append(SubSeq(p.history, 1, p.at), a), !.at = p.at + 1]
<1>1. a \in Address
    OBVIOUS
<1> HIDE DEF a
<1>2. /\ PageBut(p, u, {"history"}) /\ u.history = [p.history EXCEPT ![p.at] = a] /\ u.at = p.at
      /\ PageBut(p, h, {"history", "at"}) /\ h.history = Append(SubSeq(p.history, 1, p.at), a) /\ h.at = p.at + 1
    BY DEF PageBut, PageFields, IsPage
<1>3. D!UpdateUrl(p) = u /\ D!PushUrl(p) = h
    BY DEF D!UpdateUrl, D!PushUrl, IsPage, PageBut, PageFields, a
<1> HIDE DEF u, h
<1>4. p.history \in Seq(Address) /\ p.at \in 1..Len(p.history)
    BY DEF HistoryOK
<1>5. HistoryOK(u) /\ u.history[u.at] = a
    BY <1>1, <1>2, <1>4 DEF HistoryOK
<1>6. HistoryOK(h) /\ h.history[h.at] = a
    <2> DEFINE s == SubSeq(p.history, 1, p.at)
    <2>1. s \in Seq(Address) /\ Len(s) = p.at
        BY <1>4
    <2> HIDE DEF s
    <2>2. h.history = Append(s, a)
        BY <1>2 DEF s
    <2> QED BY <1>1, <1>2, <1>4, <2>1, <2>2 DEF HistoryOK
<1> QED BY <1>2, <1>3, <1>5, <1>6 DEF a

LEMMA UrlTurns ==
    ASSUME NEW p, Turning(p)
    PROVE  LET u == D!UpdateUrl(p)
               h == D!PushUrl(p)
           IN  /\ Turning(u) /\ PageBut(p, u, {"history"}) /\ Matches(u)
               /\ Turning(h) /\ PageBut(p, h, {"history", "at"}) /\ Matches(h)
<1>1. ASSUME NEW q, PageBut(p, q, {"history", "at"}), HistoryOK(q), q.history[q.at] = D!AddressOf(p)
      PROVE  Turning(q) /\ Matches(q)
    <2>1. /\ q.chain = p.chain /\ q.client = p.client /\ q.clientSeq = p.clientSeq /\ q.opened = p.opened
          /\ q.head = p.head /\ q.panel = p.panel /\ q.feed = p.feed /\ q.follows = p.follows
          /\ q.asked = p.asked /\ q.settled = p.settled
          /\ q.view = p.view /\ q.profile = p.profile /\ q.rendered = p.rendered /\ q.token = p.token /\ q.bulk = p.bulk
          /\ q.profileHead = p.profileHead /\ q.failed = p.failed /\ q.header = p.header
          /\ q.renderedBulk = p.renderedBulk
        BY <1>1 DEF PageBut, PageFields
    <2>2. DrawerOK(q)
        BY <2>1, DrawerStays DEF Turning
    <2>3. ProfileOK(q)
        BY <2>1, ProfileStays DEF Turning
    <2>4. IsPage(q)
        BY <1>1 DEF IsPage, PageBut
    <2>5. CASE p.view = "chain"
        <3>1. D!AddressOf(p).profile = p.profile /\ p.profile # None
            BY <2>5, AddressOfIs DEF Turning, ProfileOK
        <3> QED BY <1>1, <2>1, <2>2, <2>3, <2>4, <2>5, <3>1 DEF Turning, Matches
    <2>6. CASE p.view # "chain"
        <3> DEFINE a == D!AddressOf(p)
        <3>1. a.profile = None /\ a.view = p.view /\ a.chain = p.chain /\ a.client = p.client
            BY <2>6, AddressOfIs
        <3>2. p.chain \in InList \cup {None} /\ (p.chain # None => p.client = None) /\ None \notin InList
            BY NetworksAre DEF Turning, DrawerOK
        <3> HIDE DEF a
        <3>3. q.history[q.at] = a
            BY <1>1 DEF a
        <3> QED BY <1>1, <2>1, <2>2, <2>3, <2>4, <3>1, <3>2, <3>3 DEF Turning, Matches
    <2> QED BY <2>5, <2>6
<1> DEFINE u == D!UpdateUrl(p)
           h == D!PushUrl(p)
<1>2. /\ PageBut(p, u, {"history"}) /\ HistoryOK(u) /\ u.history[u.at] = D!AddressOf(p)
      /\ PageBut(p, h, {"history", "at"}) /\ HistoryOK(h) /\ h.history[h.at] = D!AddressOf(p)
    BY UrlIs, AddressOfIs DEF Turning
<1> HIDE DEF u, h
<1>3. PageBut(p, u, {"history", "at"})
    BY <1>2 DEF PageBut
<1>4. Turning(u) /\ Matches(u)
    BY <1>1, <1>2, <1>3
<1>5. Turning(h) /\ Matches(h)
    BY <1>1, <1>2
<1> QED BY <1>2, <1>4, <1>5 DEF u, h

\* What is not asked has no section to fill.
LEMMA AskIs ==
    ASSUME NEW p, IsPage(p), NEW requests
    PROVE  LET q == D!Ask(p, requests)
           IN  /\ PageBut(p, q, {"asked"})
               /\ q.asked = p.asked \cup {r \in requests : r.kind \in p.follows /\ (p.feed \/ r.kind # "software")}
<1> DEFINE new == {r \in requests : r.kind \in p.follows /\ (p.feed \/ r.kind # "software")}
           q == [p EXCEPT !.asked = @ \cup new]
<1>1. D!Ask(p, requests) = q
    BY DEF D!Ask
<1> HIDE DEF new
<1>2. PageBut(p, q, {"asked"}) /\ q.asked = p.asked \cup new
    BY DEF IsPage, PageBut, PageFields
<1> QED BY <1>1, <1>2 DEF new

LEMMA HideTurns ==
    ASSUME NEW p, Turning(p)
    PROVE  LET q == D!Hide(p)
           IN  PageBut(p, q, {"chain", "client", "head"}) /\ Turning(q) /\ q.chain = None /\ q.client = None
<1> DEFINE q == [p EXCEPT !.chain = None, !.client = None, !.head = None]
<1>1. D!Hide(p) = q
    BY DEF D!Hide
<1>2. PageBut(p, q, {"chain", "client", "head"}) /\ q.chain = None /\ q.client = None /\ q.head = None
    BY DEF Turning, IsPage, PageBut, PageFields
<1> HIDE DEF q
<1>3. /\ q.opened = p.opened /\ q.panel = p.panel /\ q.feed = p.feed /\ q.follows = p.follows
      /\ q.asked = p.asked /\ q.settled = p.settled /\ q.history = p.history /\ q.at = p.at
      /\ q.view = p.view /\ q.profile = p.profile /\ q.rendered = p.rendered /\ q.token = p.token /\ q.bulk = p.bulk
      /\ q.profileHead = p.profileHead /\ q.failed = p.failed /\ q.header = p.header
      /\ q.renderedBulk = p.renderedBulk
    BY <1>2 DEF PageBut, PageFields
<1>4. DrawerOK(q)
    <2>1. \A r \in q.asked : r.on = "drawer" => DrawerRequest(q, r)
        BY <1>2, <1>3 DEF Turning, DrawerOK, DrawerRequest
    <2> QED BY <1>2, <1>3, <2>1 DEF Turning, DrawerOK
<1>5. ProfileOK(q)
    BY <1>3, ProfileStays DEF Turning
<1>6. IsPage(q) /\ HistoryOK(q)
    BY <1>2, <1>3 DEF Turning, IsPage, PageBut, HistoryOK
<1> QED BY <1>1, <1>2, <1>4, <1>5, <1>6 DEF Turning

Asks(of, parts, opening) == {[kind |-> k, on |-> "drawer", of |-> of, opening |-> opening] : k \in parts}

\* A drawer opens with a panel of its own, and asks for its parts: o is the view
\* before they are asked for.
LEMMA OpeningTurns ==
    ASSUME NEW p, Turning(p),
           NEW o, PageBut(p, o, {"chain", "client", "head", "opened", "panel", "settled", "clientSeq"}),
           o.chain \in InList \cup {None}, o.client \in Software \cup {None}, o.chain # None => o.client = None,
           o.client # None => o.clientSeq = p.opened + 1, o.head = None, o.opened = p.opened + 1,
           o.panel = {p.opened + 1}, o.settled = p.settled \ {"drawer"},
           NEW parts, parts \subseteq D!DrawerParts \cup {"client"},
           o.chain # None => D!DrawerParts \subseteq parts, o.client # None => "client" \in parts,
           NEW of, o.chain # None => of = o.chain
    PROVE  LET q == D!Ask(o, Asks(of, parts, p.opened + 1))
           IN  /\ PageBut(p, q, {"chain", "client", "head", "opened", "panel", "settled", "clientSeq", "asked"})
               /\ Turning(q) /\ q.chain = o.chain /\ q.client = o.client
<1> DEFINE requests == Asks(of, parts, p.opened + 1)
           q == D!Ask(o, requests)
<1>1. IsPage(o)
    BY DEF IsPage, PageBut
<1>2. /\ PageBut(o, q, {"asked"})
      /\ q.asked = o.asked \cup {r \in requests : r.kind \in o.follows /\ (o.feed \/ r.kind # "software")}
    BY <1>1, AskIs
<1> HIDE DEF q
<1>3. /\ q.feed = p.feed /\ q.follows = p.follows /\ o.feed = p.feed /\ o.follows = p.follows /\ o.asked = p.asked
      /\ q.settled = p.settled \ {"drawer"} /\ q.history = p.history /\ q.at = p.at
      /\ q.view = p.view /\ q.profile = p.profile /\ q.rendered = p.rendered /\ q.token = p.token /\ q.bulk = p.bulk
      /\ q.profileHead = p.profileHead /\ q.failed = p.failed /\ q.header = p.header
      /\ q.renderedBulk = p.renderedBulk
    BY <1>2 DEF PageBut, PageFields
<1>4. /\ q.chain = o.chain /\ q.client = o.client /\ q.head = None /\ q.opened = p.opened + 1 /\ q.panel = {p.opened + 1}
      /\ q.clientSeq = o.clientSeq
    BY <1>2 DEF PageBut, PageFields
<1>5. \A r \in requests : r.on = "drawer" /\ r.kind \in parts /\ r.of = of /\ r.opening = p.opened + 1
    BY DEF Asks
<1>6. \A k \in parts : \E r \in requests : r.kind = k /\ r.on = "drawer" /\ r.opening = p.opened + 1
    <2> TAKE k \in parts
    <2> DEFINE r == [kind |-> k, on |-> "drawer", of |-> of, opening |-> p.opened + 1]
    <2>1. r \in requests /\ r.kind = k /\ r.on = "drawer" /\ r.opening = p.opened + 1
        BY DEF Asks
    <2> QED BY <2>1
<1> HIDE DEF requests
<1>7. Awaits(q, "drawer", q.opened, parts)
    BY <1>2, <1>3, <1>4, <1>6 DEF Awaits
<1>8. p.opened \in Nat
    BY DEF Turning, DrawerOK
<1>9. \A r \in q.asked : r.on = "drawer" => DrawerRequest(q, r)
    <2> TAKE r \in q.asked
    <2>1. CASE r \in requests
        BY <1>4, <1>5, <1>8, <2>1 DEF DrawerRequest
    <2>2. CASE r \in p.asked
        BY <1>4, <1>8, <2>2 DEF DrawerRequest, Turning, DrawerOK
    <2> QED BY <1>2, <1>3, <2>1, <2>2
<1>10. DrawerOK(q)
    <2>1. q.chain # None => Awaits(q, "drawer", q.opened, D!DrawerParts)
        BY <1>4, <1>7 DEF Awaits
    <2>2. q.client # None => Awaits(q, "drawer", q.opened, {"client"})
        BY <1>4, <1>7 DEF Awaits
    <2> QED BY <1>4, <1>8, <1>9, <2>1, <2>2 DEF DrawerOK
<1>11. ProfileOK(q)
    <2>1. {r \in q.asked : r.on # "drawer"} = {r \in p.asked : r.on # "drawer"}
        BY <1>2, <1>3, <1>5
    <2>2. "page" \in q.settled <=> "page" \in p.settled
        BY <1>3
    <2> QED BY <1>3, <2>1, <2>2, ProfileStays DEF Turning
<1>12. IsPage(q) /\ HistoryOK(q)
    BY <1>2, <1>3 DEF Turning, IsPage, PageBut, HistoryOK
<1>13. PageBut(p, q, {"chain", "client", "head", "opened", "panel", "settled", "clientSeq", "asked"})
    BY <1>2 DEF PageBut
<1> QED BY <1>4, <1>10, <1>11, <1>12, <1>13 DEF Turning, q, requests

DrawerFields == {"chain", "client", "head", "opened", "panel", "settled", "clientSeq", "asked"}

\* One that is not listed, or not yet, opens nothing.
LEMMA ChainOpens ==
    ASSUME NEW p, Turning(p), NEW c, c \in InList, p.bulk > 0
    PROVE  LET q == D!OpenChainDetail(p, c, TRUE)
           IN  /\ PageBut(p, q, DrawerFields) /\ Turning(q) /\ q.chain = c /\ q.client = None
               /\ D!OpenChainDetail(p, c, FALSE) = D!UpdateUrl(q)
<1> DEFINE o == [p EXCEPT !.chain = c, !.client = None, !.head = None,
                          !.opened = p.opened + 1, !.panel = {p.opened + 1}, !.settled = @ \ {"drawer"}]
           q == D!Ask(o, Asks(c, D!DrawerParts, p.opened + 1))
<1>1. D!OpenChainDetail(p, c, TRUE) = q /\ D!OpenChainDetail(p, c, FALSE) = D!UpdateUrl(q)
    <2>1. p.bulk # 0
        BY DEF Turning, ProfileOK
    <2> QED BY <2>1 DEF D!OpenChainDetail, Asks
<1>2. /\ PageBut(p, o, {"chain", "client", "head", "opened", "panel", "settled", "clientSeq"})
      /\ o.chain = c /\ o.client = None /\ o.head = None /\ o.opened = p.opened + 1 /\ o.panel = {p.opened + 1}
      /\ o.settled = p.settled \ {"drawer"}
    BY DEF Turning, IsPage, PageBut, PageFields
<1> HIDE DEF o
<1>3. c # None
    BY NetworksAre
<1>4. /\ PageBut(p, q, {"chain", "client", "head", "opened", "panel", "settled", "clientSeq", "asked"})
      /\ Turning(q) /\ q.chain = c /\ q.client = None
    BY <1>2, <1>3, OpeningTurns
<1> QED BY <1>1, <1>4 DEF DrawerFields

LEMMA ClientOpens ==
    ASSUME NEW p, Turning(p), NEW x \in Software
    PROVE  LET q == D!OpenClientDetail(p, x, TRUE)
           IN  /\ PageBut(p, q, DrawerFields) /\ Turning(q) /\ q.chain = None /\ q.client = x
               /\ D!OpenClientDetail(p, x, FALSE) = D!UpdateUrl(q)
<1> DEFINE o == [p EXCEPT !.chain = None, !.client = x, !.head = None, !.opened = p.opened + 1,
                          !.clientSeq = p.opened + 1, !.panel = {p.opened + 1}, !.settled = @ \ {"drawer"}]
           parts == {"client"}
           q == D!Ask(o, Asks(x, parts, p.opened + 1))
<1>1. Asks(x, parts, p.opened + 1) = {[kind |-> "client", on |-> "drawer", of |-> x, opening |-> p.opened + 1]}
    BY DEF Asks
<1>2. D!OpenClientDetail(p, x, TRUE) = q /\ D!OpenClientDetail(p, x, FALSE) = D!UpdateUrl(q)
    BY <1>1 DEF D!OpenClientDetail
<1>3. /\ PageBut(p, o, {"chain", "client", "head", "opened", "panel", "settled", "clientSeq"})
      /\ o.chain = None /\ o.client = x /\ o.head = None /\ o.opened = p.opened + 1 /\ o.panel = {p.opened + 1}
      /\ o.settled = p.settled \ {"drawer"} /\ o.clientSeq = p.opened + 1
    BY DEF Turning, IsPage, PageBut, PageFields
<1>a. parts \subseteq D!DrawerParts \cup {"client"} /\ "client" \in parts
    OBVIOUS
<1> HIDE DEF o, parts
<1>4. /\ PageBut(p, q, {"chain", "client", "head", "opened", "panel", "settled", "clientSeq", "asked"})
      /\ Turning(q) /\ q.chain = None /\ q.client = x
    BY <1>3, <1>a, OpeningTurns
<1> QED BY <1>2, <1>4 DEF DrawerFields

\* A tab: the poller of a page that is left is stopped.
LEMMA LeavingTurns ==
    ASSUME NEW p, Turning(p), NEW o, PageBut(p, o, {"profile"}), o.profile \in Network \cup {None},
           NEW v \in D!Views \ {"chain"}
    PROVE  LET q == D!SwitchView(o, v)
           IN  PageBut(p, q, {"profile", "view", "profileHead"}) /\ Turning(q) /\ Fed(q) /\ q.view = v
<1> DEFINE l == [o EXCEPT !.profileHead = None]
           m == IF o.view = "chain" THEN l ELSE o
           q == [m EXCEPT !.view = v]
<1>1. D!SwitchView(o, v) = q
    BY DEF D!SwitchView, D!LeaveChainProfile
<1>2. o.view = p.view /\ o.profileHead = p.profileHead
    BY DEF PageBut, PageFields
<1>3. PageBut(p, m, {"profile", "profileHead"}) /\ m.profile = o.profile /\ m.profileHead = None
    <2>1. CASE o.view = "chain"
        BY <2>1 DEF PageBut, PageFields
    <2>2. CASE o.view # "chain"
        <3>1. p.profileHead = None
            BY <1>2, <2>2 DEF Turning, ProfileOK, D!OnProfile
        <3> QED BY <1>2, <2>2, <3>1 DEF PageBut, PageFields
    <2> QED BY <2>1, <2>2
<1> HIDE DEF m
<1>4. PageBut(p, q, {"profile", "view", "profileHead"}) /\ q.view = v /\ q.profile = o.profile /\ q.profileHead = None
    BY <1>3 DEF PageBut, PageFields
<1> HIDE DEF q
<1>5. /\ q.chain = p.chain /\ q.client = p.client /\ q.clientSeq = p.clientSeq /\ q.opened = p.opened
      /\ q.head = p.head /\ q.panel = p.panel /\ q.feed = p.feed /\ q.follows = p.follows
      /\ q.asked = p.asked /\ q.settled = p.settled /\ q.history = p.history /\ q.at = p.at
      /\ q.rendered = p.rendered /\ q.token = p.token /\ q.bulk = p.bulk /\ q.failed = p.failed
    BY <1>4 DEF PageBut, PageFields
<1>6. DrawerOK(q)
    BY <1>5, DrawerStays DEF Turning
<1>7. ~D!OnProfile(q) /\ ~OnPage(q)
    BY <1>4 DEF D!OnProfile, OnPage
<1>8. \A r \in q.asked : r.on # "drawer" => PageRequest(q, r)
    BY <1>5 DEF Turning, ProfileOK, PageRequest
<1>9. ProfileOK(q)
    BY <1>4, <1>5, <1>7, <1>8 DEF Turning, ProfileOK
<1>10. IsPage(q) /\ HistoryOK(q)
    BY <1>4, <1>5 DEF Turning, IsPage, PageBut, HistoryOK
<1> QED BY <1>1, <1>4, <1>6, <1>7, <1>9, <1>10 DEF Turning, Fed

\* A page that is being opened, before its parts are drawn: t is p but for where
\* the reader is.
Arrives(p, t, c) ==
    /\ PageBut(p, t, {"profile", "view", "history", "at", "loading", "failed"})
    /\ HistoryOK(t) /\ t.view = "chain" /\ t.profile = c

PageAsks(c, turn, bulk, parts) ==
    {[kind |-> x, on |-> "page", of |-> c, opening |-> turn, bulk |-> bulk] : x \in parts}

LEMMA RenderingTurns ==
    ASSUME NEW p, Turning(p), NEW c \in Network, NEW t, Arrives(p, t, c), t.bulk > 0 \/ t.failed
    PROVE  LET q == D!RenderChainProfile(t, c)
           IN  /\ PageBut(t, q, {"asked", "token", "rendered", "renderedBulk", "header", "failed", "profileHead", "settled"})
               /\ Turning(q) /\ Fed(q)
<1> DEFINE o == [t EXCEPT !.token = t.token + 1, !.rendered = c, !.renderedBulk = t.bulk, !.header = t.bulk,
                  !.failed = @ /\ t.bulk = 0, !.profileHead = None, !.settled = @ \ {"page"}]
           requests == PageAsks(c, t.token + 1, t.bulk, D!ProfileParts)
           q == D!Ask(o, requests)
<1>1. D!RenderChainProfile(t, c) = q
    BY DEF D!RenderChainProfile, PageAsks
<1>2. /\ PageBut(t, o, {"token", "rendered", "renderedBulk", "header", "failed", "profileHead", "settled"})
      /\ o.token = t.token + 1 /\ o.rendered = c /\ o.renderedBulk = t.bulk /\ o.header = t.bulk
      /\ (o.failed <=> t.failed /\ t.bulk = 0) /\ o.profileHead = None /\ o.settled = t.settled \ {"page"}
    BY DEF Arrives, PageBut, PageFields
<1> HIDE DEF o
<1>3. IsPage(o)
    BY <1>2 DEF IsPage, PageBut
<1>4. /\ PageBut(o, q, {"asked"})
      /\ q.asked = o.asked \cup {r \in requests : r.kind \in o.follows /\ (o.feed \/ r.kind # "software")}
    BY <1>3, AskIs
<1> HIDE DEF q
<1>5. /\ t.chain = p.chain /\ t.client = p.client /\ t.clientSeq = p.clientSeq /\ t.opened = p.opened
      /\ t.head = p.head /\ t.panel = p.panel /\ t.feed = p.feed /\ t.follows = p.follows
      /\ t.asked = p.asked /\ t.settled = p.settled /\ t.token = p.token /\ t.bulk = p.bulk
    BY DEF Arrives, PageBut, PageFields
<1>6. /\ q.chain = t.chain /\ q.client = t.client /\ q.clientSeq = t.clientSeq /\ q.opened = t.opened
      /\ q.head = t.head /\ q.panel = t.panel /\ q.feed = t.feed /\ q.follows = t.follows
      /\ q.history = t.history /\ q.at = t.at /\ q.bulk = t.bulk /\ q.view = t.view /\ q.profile = t.profile
      /\ o.asked = t.asked /\ o.feed = t.feed /\ o.follows = t.follows
    BY <1>2, <1>4 DEF PageBut, PageFields
<1>7. /\ q.token = t.token + 1 /\ q.rendered = c /\ q.renderedBulk = t.bulk /\ q.header = t.bulk
      /\ (q.failed <=> t.failed /\ t.bulk = 0) /\ q.profileHead = None /\ q.settled = t.settled \ {"page"}
    BY <1>2, <1>4 DEF PageBut, PageFields
<1>8. \A r \in requests : r.on = "page" /\ r.kind \in D!ProfileParts /\ r.of = c /\ r.opening = t.token + 1
    BY DEF PageAsks
<1>9. \A k \in D!ProfileParts : \E r \in requests : r.kind = k /\ r.on = "page" /\ r.opening = t.token + 1
    <2> TAKE k \in D!ProfileParts
    <2> DEFINE r == [kind |-> k, on |-> "page", of |-> c, opening |-> t.token + 1, bulk |-> t.bulk]
    <2>1. r \in requests /\ r.kind = k /\ r.on = "page" /\ r.opening = t.token + 1
        BY DEF PageAsks
    <2> QED BY <2>1
<1> HIDE DEF requests
<1>10. Awaits(q, "page", q.token, D!ProfileParts)
    BY <1>4, <1>6, <1>7, <1>9 DEF Awaits
<1>11. DrawerOK(q)
    <2>1. {r \in q.asked : r.on = "drawer"} = {r \in p.asked : r.on = "drawer"}
        BY <1>4, <1>5, <1>6, <1>8
    <2>2. "drawer" \in q.settled <=> "drawer" \in p.settled
        BY <1>5, <1>7
    <2> QED BY <1>5, <1>6, <2>1, <2>2, DrawerStays DEF Turning
<1>12. p.token \in Nat /\ p.bulk \in Nat
    BY DEF Turning, ProfileOK
<1>13. \A r \in q.asked : r.on # "drawer" => PageRequest(q, r)
    <2> TAKE r \in q.asked
    <2>1. CASE r \in requests
        BY <1>5, <1>7, <1>8, <1>12, <2>1 DEF PageRequest
    <2>2. CASE r \in p.asked
        BY <1>5, <1>7, <1>12, <2>2 DEF PageRequest, Turning, ProfileOK
    <2> QED BY <1>4, <1>5, <1>6, <2>1, <2>2
<1>14. HeaderOK(q)
    BY <1>7 DEF HeaderOK
<1>15. ProfileOK(q)
    <2>1. q.view = "chain" /\ q.profile = c /\ c # None /\ q.view \in D!Views
        BY <1>6, NetworksAre DEF Arrives, D!Views
    <2>2. q.bulk = 0 => q.failed
        BY <1>5, <1>6, <1>7, <1>12
    <2> QED BY <1>5, <1>6, <1>7, <1>10, <1>12, <1>13, <1>14, <2>1, <2>2 DEF ProfileOK
<1>16. Fed(q)
    BY <1>6, <1>7 DEF Fed, Arrives
<1>17. IsPage(q) /\ HistoryOK(q)
    BY <1>4, <1>6 DEF Arrives, IsPage, PageBut, HistoryOK
<1>18. PageBut(t, q, {"asked", "token", "rendered", "renderedBulk", "header", "failed", "profileHead", "settled"})
    BY <1>2, <1>4 DEF PageBut
<1> QED BY <1>1, <1>11, <1>15, <1>16, <1>17, <1>18 DEF Turning

\* Before there is a list, a page is only remembered.
LEMMA WaitingTurns ==
    ASSUME NEW p, Turning(p), NEW c \in Network, NEW t, Arrives(p, t, c), t.failed = p.failed,
           t.bulk = 0, ~t.failed
    PROVE  LET q == [t EXCEPT !.rendered = None]
           IN  PageBut(t, q, {"rendered"}) /\ Turning(q) /\ Fed(q)
<1> DEFINE q == [t EXCEPT !.rendered = None]
<1>1. PageBut(t, q, {"rendered"}) /\ q.rendered = None
    BY DEF Arrives, PageBut, PageFields
<1> HIDE DEF q
<1>2. /\ t.chain = p.chain /\ t.client = p.client /\ t.clientSeq = p.clientSeq /\ t.opened = p.opened
      /\ t.head = p.head /\ t.panel = p.panel /\ t.feed = p.feed /\ t.follows = p.follows
      /\ t.asked = p.asked /\ t.settled = p.settled /\ t.token = p.token /\ t.bulk = p.bulk
      /\ t.profileHead = p.profileHead
    BY DEF Arrives, PageBut, PageFields
<1>3. /\ q.chain = t.chain /\ q.client = t.client /\ q.clientSeq = t.clientSeq /\ q.opened = t.opened
      /\ q.head = t.head /\ q.panel = t.panel /\ q.feed = t.feed /\ q.follows = t.follows /\ q.token = t.token
      /\ q.history = t.history /\ q.at = t.at /\ q.bulk = t.bulk /\ q.view = t.view /\ q.profile = t.profile
      /\ q.asked = t.asked /\ q.settled = t.settled /\ q.profileHead = t.profileHead
    BY <1>1 DEF PageBut, PageFields
<1>4. DrawerOK(q)
    BY <1>2, <1>3, DrawerStays DEF Turning
<1>5. p.token = 0 /\ q.profileHead = None
    BY <1>2, <1>3 DEF Turning, ProfileOK
<1>6. c # None /\ ~OnPage(q)
    BY <1>1, <1>3, NetworksAre DEF Arrives, OnPage
<1>7. \A r \in q.asked : r.on # "drawer" => PageRequest(q, r)
    BY <1>1, <1>2, <1>3, <1>5 DEF Turning, ProfileOK, PageRequest
<1>8. ProfileOK(q)
    BY <1>1, <1>2, <1>3, <1>5, <1>6, <1>7 DEF Turning, ProfileOK, Arrives, D!Views
<1>9. Fed(q)
    BY <1>1, <1>3, <1>6 DEF Fed, Arrives
<1>10. IsPage(q) /\ HistoryOK(q)
    BY <1>1, <1>3 DEF Arrives, IsPage, PageBut, HistoryOK
<1>11. Turning(q)
    BY <1>4, <1>8, <1>10 DEF Turning
<1> QED BY <1>1, <1>9, <1>11 DEF q

\* What a newer list feeds is asked for again.
LEMMA RefreshingTurns ==
    ASSUME NEW p, Turning(p), OnPage(p)
    PROVE  LET q == D!RefreshProfileBulk(p)
           IN  PageBut(p, q, {"asked", "renderedBulk"}) /\ Turning(q) /\ Fed(q)
<1> DEFINE o == [p EXCEPT !.renderedBulk = p.bulk]
           one == [kind |-> "refresh", on |-> "page", of |-> p.profile, opening |-> p.token, bulk |-> p.bulk]
           q == D!Ask(o, {one})
<1>1. D!RefreshProfileBulk(p) = q
    BY DEF D!RefreshProfileBulk
<1>2. PageBut(p, o, {"renderedBulk"}) /\ o.renderedBulk = p.bulk
    BY DEF Turning, IsPage, PageBut, PageFields
<1> HIDE DEF o
<1>3. IsPage(o)
    BY <1>2 DEF IsPage, PageBut
<1>4. /\ one.kind = "refresh" /\ one.on = "page" /\ one.of = p.profile /\ one.opening = p.token
    OBVIOUS
<1> HIDE DEF one
<1>5. /\ PageBut(o, q, {"asked"})
      /\ q.asked = o.asked \cup {r \in {one} : r.kind \in o.follows /\ (o.feed \/ r.kind # "software")}
    BY <1>3, AskIs
<1> HIDE DEF q
<1>6. /\ q.chain = p.chain /\ q.client = p.client /\ q.clientSeq = p.clientSeq /\ q.opened = p.opened
      /\ q.head = p.head /\ q.panel = p.panel /\ q.feed = p.feed /\ q.follows = p.follows
      /\ q.settled = p.settled /\ q.history = p.history /\ q.at = p.at
      /\ q.view = p.view /\ q.profile = p.profile /\ q.rendered = p.rendered /\ q.token = p.token /\ q.bulk = p.bulk
      /\ q.profileHead = p.profileHead /\ q.failed = p.failed /\ q.header = p.header /\ q.renderedBulk = p.bulk
      /\ o.asked = p.asked /\ o.follows = p.follows
    BY <1>2, <1>5 DEF PageBut, PageFields
<1>7. DrawerOK(q)
    <2>1. {r \in q.asked : r.on = "drawer"} = {r \in p.asked : r.on = "drawer"}
        BY <1>4, <1>5, <1>6
    <2> QED BY <1>6, <2>1, DrawerStays DEF Turning
<1>8. p.asked \subseteq q.asked /\ ("refresh" \in p.follows => one \in q.asked) /\ q.asked \subseteq p.asked \cup {one}
    BY <1>4, <1>5, <1>6
<1>9. "refresh" \in q.follows => HeaderOK(q)
    BY <1>4, <1>6, <1>8 DEF HeaderOK
<1>10. Awaits(q, "page", q.token, D!ProfileParts)
    <2>1. Awaits(p, "page", p.token, D!ProfileParts)
        BY DEF Turning, ProfileOK
    <2> QED BY <1>6, <1>8, <2>1 DEF Awaits
<1>11. \A r \in q.asked : r.on # "drawer" => PageRequest(q, r)
    <2> TAKE r \in q.asked
    <2>0. p.profile \in Network /\ p.profile = p.rendered /\ p.token \in Nat
        BY DEF OnPage, D!OnProfile, Turning, ProfileOK
    <2>1. p.token > 0
        BY <2>0, NetworksAre DEF Turning, ProfileOK
    <2>2. CASE r = one
        BY <1>4, <1>6, <2>0, <2>1, <2>2 DEF PageRequest
    <2>3. CASE r \in p.asked
        BY <1>6, <2>3 DEF PageRequest, Turning, ProfileOK
    <2> QED BY <1>8, <2>2, <2>3
<1>12. ProfileOK(q)
    <2>1. OnPage(q) = OnPage(p) /\ D!OnProfile(q) = D!OnProfile(p)
        BY <1>6 DEF OnPage, D!OnProfile
    <2> QED BY <1>6, <1>9, <1>10, <1>11, <2>1 DEF Turning, ProfileOK
<1>13. Fed(q)
    BY <1>6 DEF Fed, OnPage
<1>14. IsPage(q) /\ HistoryOK(q)
    BY <1>5, <1>6 DEF Turning, IsPage, PageBut, HistoryOK
<1>15. PageBut(p, q, {"asked", "renderedBulk"})
    BY <1>2, <1>5 DEF PageBut
<1> QED BY <1>1, <1>7, <1>12, <1>13, <1>14, <1>15 DEF Turning

LEMMA ArrivingIs ==
    ASSUME NEW p, Turning(p), NEW c \in Network, NEW fromUrl
    PROVE  LET moved == D!SwitchView([p EXCEPT !.profile = c], "chain")
               there == IF fromUrl THEN moved ELSE D!PushUrl(moved)
           IN  /\ Arrives(p, there, c) /\ PageBut(p, there, {"profile", "view", "history", "at"})
               /\ fromUrl => there.history = p.history /\ there.at = p.at
               /\ ~fromUrl => there.history[there.at].profile = c
<1> DEFINE o == [p EXCEPT !.profile = c]
           s == [o EXCEPT !.view = "chain"]
           h == D!PushUrl(s)
<1>1. D!SwitchView(o, "chain") = s
    <2>1. o.profile = c /\ c # None
        BY NetworksAre DEF Turning, IsPage, PageBut, PageFields
    <2> QED BY <2>1 DEF D!SwitchView
<1>2. PageBut(p, s, {"profile", "view"}) /\ s.profile = c /\ s.view = "chain"
    BY DEF Turning, IsPage, PageBut, PageFields
<1> HIDE DEF s
<1>3. s.history = p.history /\ s.at = p.at
    BY <1>2 DEF PageBut, PageFields
<1>4. IsPage(s) /\ HistoryOK(s)
    BY <1>2, <1>3 DEF IsPage, PageBut, HistoryOK, Turning
<1>5. D!AddressOf(s) \in Address /\ D!AddressOf(s).profile = c
    <2>1. D!AddressOf(s) = [profile |-> c, view |-> "overview", chain |-> None, client |-> None]
        BY <1>2, NetworksAre DEF D!AddressOf, D!OnProfile, D!DefaultView
    <2> QED BY <2>1 DEF Address, D!Views
<1>6. PageBut(s, h, {"history", "at"}) /\ HistoryOK(h) /\ h.history[h.at] = D!AddressOf(s)
    BY <1>4, <1>5, UrlIs
<1> HIDE DEF h
<1>7. h.view = s.view /\ h.profile = s.profile
    BY <1>6 DEF PageBut, PageFields
<1>8. /\ PageBut(p, s, {"profile", "view", "history", "at"}) /\ PageBut(p, h, {"profile", "view", "history", "at"})
      /\ PageBut(p, s, {"profile", "view", "history", "at", "loading", "failed"})
      /\ PageBut(p, h, {"profile", "view", "history", "at", "loading", "failed"})
    BY <1>2, <1>6 DEF PageBut
<1>9. Arrives(p, s, c) /\ Arrives(p, h, c)
    BY <1>2, <1>4, <1>6, <1>7, <1>8 DEF Arrives
<1>10. CASE fromUrl
    BY <1>1, <1>3, <1>8, <1>9, <1>10
<1>11. CASE ~fromUrl
    BY <1>1, <1>5, <1>6, <1>8, <1>9, <1>11 DEF h
<1> QED BY <1>10, <1>11

LEMMA ProfileOpens ==
    ASSUME NEW p, Turning(p), NEW c \in Network, NEW fromUrl \in BOOLEAN
    PROVE  LET q == D!OpenChainProfile(p, c, fromUrl)
           IN  /\ Turning(q) /\ Fed(q) /\ q.view = "chain" /\ q.profile = c /\ q.bulk = p.bulk
               /\ fromUrl = TRUE => q.history = p.history /\ q.at = p.at
               /\ fromUrl = FALSE => Matches(q)
<1> DEFINE same == p.view = "chain" /\ p.profile = c
           h == IF p.chain # None THEN D!Hide(p) ELSE p
           moved == D!SwitchView([h EXCEPT !.profile = c], "chain")
           there == IF fromUrl THEN moved ELSE D!PushUrl(moved)
           w == [there EXCEPT !.rendered = None]
           q == D!OpenChainProfile(p, c, fromUrl)
<1>1. q = IF same /\ fromUrl /\ p.rendered = c
          THEN IF p.renderedBulk # p.bulk THEN D!RefreshProfileBulk(p) ELSE p
          ELSE IF p.bulk = 0 /\ ~p.failed THEN w ELSE D!RenderChainProfile(there, c)
    BY DEF D!OpenChainProfile
<1>2. Turning(h) /\ PageBut(p, h, {"chain", "client", "head"})
    BY HideTurns DEF Turning, IsPage, PageBut
<1> HIDE DEF h
<1>3. /\ Arrives(h, there, c) /\ PageBut(h, there, {"profile", "view", "history", "at"})
      /\ fromUrl => there.history = h.history /\ there.at = h.at
      /\ ~fromUrl => there.history[there.at].profile = c
    BY <1>2, ArrivingIs
<1> HIDE DEF there
<1>4. /\ there.bulk = p.bulk /\ there.failed = p.failed /\ h.failed = p.failed
      /\ h.history = p.history /\ h.at = p.at /\ there.view = "chain" /\ there.profile = c
    BY <1>2, <1>3 DEF PageBut, PageFields, Arrives
<1>5. c # None /\ p.bulk \in Nat
    BY NetworksAre DEF Turning, ProfileOK
<1>6. CASE same /\ fromUrl /\ p.rendered = c
    <2>1. OnPage(p)
        BY <1>5, <1>6 DEF OnPage, D!OnProfile
    <2>2. CASE p.renderedBulk # p.bulk
        <3> DEFINE r == D!RefreshProfileBulk(p)
        <3>1. PageBut(p, r, {"asked", "renderedBulk"}) /\ Turning(r) /\ Fed(r)
            BY <2>1, RefreshingTurns
        <3>2. q = r
            BY <1>1, <1>6, <2>2
        <3> HIDE DEF r, q
        <3>3. q.view = p.view /\ q.profile = p.profile /\ q.bulk = p.bulk /\ q.history = p.history /\ q.at = p.at
            BY <3>1, <3>2 DEF PageBut, PageFields
        <3> QED BY <1>6, <3>1, <3>2, <3>3 DEF q
    <2>3. CASE p.renderedBulk = p.bulk
        <3>1. q = p
            BY <1>1, <1>6, <2>3
        <3>2. Fed(p)
            BY <2>1, <2>3 DEF Fed, OnPage
        <3> HIDE DEF q
        <3> QED BY <1>6, <3>1, <3>2 DEF q
    <2> QED BY <2>2, <2>3
<1>7. ASSUME ~(same /\ fromUrl /\ p.rendered = c),
             Turning(q), Fed(q), PageBut(there, q, PageFields \ {"view", "profile", "bulk", "history", "at"})
      PROVE  /\ Turning(q) /\ Fed(q) /\ q.view = "chain" /\ q.profile = c /\ q.bulk = p.bulk
             /\ fromUrl = TRUE => q.history = p.history /\ q.at = p.at
             /\ fromUrl = FALSE => Matches(q)
    <2> HIDE DEF q
    <2>1. q.view = "chain" /\ q.profile = c /\ q.bulk = p.bulk /\ q.history = there.history /\ q.at = there.at
        BY <1>4, <1>7 DEF PageBut, PageFields
    <2>2. ~fromUrl => Matches(q)
        BY <1>3, <1>5, <2>1 DEF Matches
    <2> QED BY <1>3, <1>4, <1>7, <2>1, <2>2
<1>8. CASE ~(same /\ fromUrl /\ p.rendered = c) /\ p.bulk = 0 /\ ~p.failed
    <2>1. PageBut(there, w, {"rendered"}) /\ Turning(w) /\ Fed(w)
        BY <1>2, <1>3, <1>4, <1>8, WaitingTurns
    <2>2. q = w
        BY <1>1, <1>8
    <2> HIDE DEF q, w
    <2>3. PageBut(there, q, PageFields \ {"view", "profile", "bulk", "history", "at"})
        BY <2>1, <2>2 DEF PageBut, PageFields
    <2>4. Turning(q) /\ Fed(q)
        BY <2>1, <2>2
    <2> QED BY <1>7, <1>8, <2>3, <2>4 DEF q
<1>9. CASE ~(same /\ fromUrl /\ p.rendered = c) /\ ~(p.bulk = 0 /\ ~p.failed)
    <2> DEFINE r == D!RenderChainProfile(there, c)
    <2>1. /\ PageBut(there, r, {"asked", "token", "rendered", "renderedBulk", "header", "failed", "profileHead", "settled"})
          /\ Turning(r) /\ Fed(r)
        BY <1>2, <1>3, <1>4, <1>5, <1>9, RenderingTurns
    <2>2. q = r
        BY <1>1, <1>9
    <2> HIDE DEF q, r
    <2>3. PageBut(there, q, PageFields \ {"view", "profile", "bulk", "history", "at"})
        BY <2>1, <2>2 DEF PageBut, PageFields
    <2>4. Turning(q) /\ Fed(q)
        BY <2>1, <2>2
    <2> QED BY <1>7, <1>9, <2>3, <2>4 DEF q
<1> QED BY <1>6, <1>8, <1>9

\* Applied, the address is what is shown.
LEMMA AppliedIs ==
    ASSUME NEW p, Turning(p)
    PROVE  LET q == D!ApplyUrlState(p)
           IN  /\ Turning(q) /\ Fed(q) /\ q.bulk = p.bulk /\ q.history = p.history /\ q.at = p.at
               /\ p.bulk > 0 => Matches(q)
<1> DEFINE a == p.history[p.at]
           o == [p EXCEPT !.profile = None]
           s == D!SwitchView(o, a.view)
           q == D!ApplyUrlState(p)
<1>1. q = IF a.profile # None THEN D!OpenChainProfile(D!Hide(p), a.profile, TRUE)
          ELSE IF a.chain \in InList /\ p.bulk > 0 THEN D!OpenChainDetail(s, a.chain, TRUE)
          ELSE IF a.client # None THEN D!OpenClientDetail(s, a.client, TRUE)
          ELSE D!Hide(s)
    BY DEF D!ApplyUrlState
<1>2. a \in Address
    BY DEF Turning, HistoryOK
<1>3. CASE a.profile # None
    <2> DEFINE h == D!Hide(p)
               r == D!OpenChainProfile(h, a.profile, TRUE)
    <2>1. PageBut(p, h, {"chain", "client", "head"}) /\ Turning(h)
        BY HideTurns
    <2> HIDE DEF h
    <2>2. h.bulk = p.bulk /\ h.history = p.history /\ h.at = p.at
        BY <2>1 DEF PageBut, PageFields
    <2>3. a.profile \in Network
        BY <1>2, <1>3 DEF Address
    <2>4. /\ Turning(r) /\ Fed(r) /\ r.view = "chain" /\ r.profile = a.profile /\ r.bulk = h.bulk
          /\ r.history = h.history /\ r.at = h.at
        BY <2>1, <2>3, ProfileOpens
    <2>5. q = r
        BY <1>1, <1>3 DEF h
    <2> HIDE DEF r
    <2>6. Matches(r)
        BY <1>3, <2>2, <2>4 DEF Matches
    <2> QED BY <2>2, <2>4, <2>5, <2>6
<1>4. CASE a.profile = None
    <2>1. PageBut(p, o, {"profile"}) /\ o.profile = None
        BY DEF Turning, IsPage, PageBut, PageFields
    <2>2. a.view \in D!Views \ {"chain"} /\ a.client \in Software \cup {None} /\ None \in Network \cup {None}
        BY <1>2 DEF Address
    <2>3. PageBut(p, s, {"profile", "view", "profileHead"}) /\ Turning(s) /\ Fed(s) /\ s.view = a.view
        BY <2>1, <2>2, LeavingTurns
    <2> HIDE DEF s
    <2>4. s.bulk = p.bulk /\ s.history = p.history /\ s.at = p.at
        BY <2>3 DEF PageBut, PageFields
    <2>5. ASSUME Turning(q), PageBut(s, q, DrawerFields),
                 p.bulk > 0 => /\ q.chain = IF a.chain \in InList THEN a.chain ELSE None
                               /\ q.client = IF a.chain \in InList THEN None ELSE a.client
          PROVE  /\ Turning(q) /\ Fed(q) /\ q.bulk = p.bulk /\ q.history = p.history /\ q.at = p.at
                 /\ p.bulk > 0 => Matches(q)
        <3> HIDE DEF q
        <3>1. /\ q.view = s.view /\ q.bulk = s.bulk /\ q.history = s.history /\ q.at = s.at
            BY <2>5 DEF PageBut, PageFields, DrawerFields
        <3>2. Fed(q)
            BY <2>2, <2>3, <3>1 DEF Fed, D!OnProfile
        <3> HIDE DEF a
        <3>3. a = q.history[q.at]
            BY <2>4, <3>1 DEF a
        <3>4. p.bulk > 0 => Matches(q)
            BY <1>4, <2>3, <2>5, <3>1, <3>3 DEF Matches
        <3> QED BY <2>4, <2>5, <3>1, <3>2, <3>4
    <2>6. CASE a.chain \in InList /\ p.bulk > 0
        <3> DEFINE r == D!OpenChainDetail(s, a.chain, TRUE)
        <3>1. PageBut(s, r, DrawerFields) /\ Turning(r) /\ r.chain = a.chain /\ r.client = None
            BY <2>3, <2>4, <2>6, ChainOpens
        <3>2. q = r
            BY <1>1, <1>4, <2>6 DEF s
        <3> HIDE DEF q, r
        <3> QED BY <2>5, <2>6, <3>1, <3>2 DEF q
    <2>7. CASE ~(a.chain \in InList /\ p.bulk > 0) /\ a.client # None
        <3> DEFINE r == D!OpenClientDetail(s, a.client, TRUE)
        <3>0. a.client \in Software
            BY <2>2, <2>7
        <3>1. PageBut(s, r, DrawerFields) /\ Turning(r) /\ r.chain = None /\ r.client = a.client
            BY <2>3, <3>0, ClientOpens
        <3>2. q = r
            BY <1>1, <1>4, <2>7 DEF s
        <3> HIDE DEF q, r
        <3> QED BY <2>5, <2>7, <3>1, <3>2 DEF q
    <2>8. CASE ~(a.chain \in InList /\ p.bulk > 0) /\ a.client = None
        <3> DEFINE r == D!Hide(s)
        <3>1. PageBut(s, r, {"chain", "client", "head"}) /\ Turning(r) /\ r.chain = None /\ r.client = None
            BY <2>3, HideTurns
        <3>2. q = r
            BY <1>1, <1>4, <2>8 DEF s
        <3> HIDE DEF q, r
        <3>3. PageBut(s, r, DrawerFields)
            BY <3>1 DEF PageBut, DrawerFields
        <3> QED BY <2>5, <2>8, <3>1, <3>2, <3>3 DEF q
    <2> QED BY <2>6, <2>7, <2>8
<1> QED BY <1>3, <1>4

\* An answer is taken off what is asked for, and fills its part or is dropped.
Answered(p, q, r) ==
    /\ PageBut(p, q, {"asked", "settled", "head", "panel", "feed", "profileHead", "header"})
    /\ q.asked = p.asked \ {r} /\ p.settled \subseteq q.settled
    /\ q.feed = p.feed \/ ~q.feed

\* What is on the screen takes its own answers.
TakesItsOwn(p, q, r) ==
    /\ \/ r.on = "drawer" /\ r.opening = p.opened /\ r.kind \in D!DrawerParts /\ p.chain # None /\ r.of = p.chain
       \/ r.on = "drawer" /\ r.opening = p.opened /\ r.kind = "client" /\ p.client # None /\ p.clientSeq = p.opened
       => "drawer" \in q.settled
    /\ r.on = "page" /\ r.opening = p.token /\ r.kind \in D!ProfileParts /\ D!OnProfile(p) /\ r.of = p.profile
       => "page" \in q.settled
    /\ q.head = p.head \/ q.head.of = p.chain
    /\ q.panel \subseteq {p.opened}
    /\ \/ q.profileHead = p.profileHead
       \/ D!OnProfile(p) /\ p.token > 0 /\ q.profileHead = [of |-> p.profile, opening |-> p.token]
    /\ OnPage(p) => \/ q.header = p.renderedBulk
                    \/ q.header = p.header /\ ~(r.kind = "refresh" /\ r.opening = p.token)

LEMMA AnsweredOK ==
    ASSUME NEW p, PageOK(p), NEW r \in p.asked, NEW q, Answered(p, q, r), TakesItsOwn(p, q, r)
    PROVE  PageOK(q)
<1>1. /\ q.chain = p.chain /\ q.client = p.client /\ q.clientSeq = p.clientSeq /\ q.opened = p.opened
      /\ q.follows = p.follows /\ q.history = p.history /\ q.at = p.at
      /\ q.view = p.view /\ q.profile = p.profile /\ q.rendered = p.rendered /\ q.token = p.token /\ q.bulk = p.bulk
      /\ q.failed = p.failed /\ q.renderedBulk = p.renderedBulk
    BY DEF Answered, PageBut, PageFields
<1>2. DrawerOK(p) /\ ProfileOK(p) /\ Fed(p) /\ HistoryOK(p)
    BY DEF PageOK, Turning
<1>3. DrawerOK(q)
    <2>1. \A s \in q.asked : s.on = "drawer" => DrawerRequest(q, s)
        BY <1>1, <1>2 DEF DrawerOK, DrawerRequest, Answered
    <2>2. ASSUME p.chain # None PROVE Awaits(q, "drawer", q.opened, D!DrawerParts)
        <3> SUFFICES ASSUME NEW k \in D!DrawerParts \cap p.follows, "drawer" \notin q.settled, ~(k = "software" /\ ~q.feed)
                     PROVE  \E s \in q.asked : s.kind = k /\ s.on = "drawer" /\ s.opening = p.opened
            BY <1>1 DEF Awaits
        <3>1. PICK s \in p.asked : s.kind = k /\ s.on = "drawer" /\ s.opening = p.opened
            BY <1>2, <2>2 DEF DrawerOK, Awaits, Answered
        <3>2. s # r
            BY <1>2, <2>2, <3>1 DEF DrawerOK, DrawerRequest, TakesItsOwn
        <3> QED BY <3>1, <3>2 DEF Answered
    <2>3. ASSUME p.client # None PROVE Awaits(q, "drawer", q.opened, {"client"})
        <3> SUFFICES ASSUME "client" \in p.follows, "drawer" \notin q.settled
                     PROVE  \E s \in q.asked : s.kind = "client" /\ s.on = "drawer" /\ s.opening = p.opened
            BY <1>1 DEF Awaits
        <3>1. PICK s \in p.asked : s.kind = "client" /\ s.on = "drawer" /\ s.opening = p.opened
            BY <1>2, <2>3 DEF DrawerOK, Awaits, Answered
        <3>2. s # r
            BY <1>2, <2>3, <3>1 DEF DrawerOK, TakesItsOwn
        <3> QED BY <3>1, <3>2 DEF Answered
    <2> QED BY <1>1, <1>2, <2>1, <2>2, <2>3 DEF DrawerOK, TakesItsOwn
<1>4. ProfileOK(q)
    <2>0. OnPage(q) = OnPage(p) /\ D!OnProfile(q) = D!OnProfile(p)
        BY <1>1 DEF OnPage, D!OnProfile
    <2>1. \A s \in q.asked : s.on # "drawer" => PageRequest(q, s)
        BY <1>1, <1>2 DEF ProfileOK, PageRequest, Answered
    <2>2. ASSUME OnPage(p) PROVE Awaits(q, "page", q.token, D!ProfileParts)
        <3> SUFFICES ASSUME NEW k \in D!ProfileParts \cap p.follows, "page" \notin q.settled, ~(k = "software" /\ ~q.feed)
                     PROVE  \E s \in q.asked : s.kind = k /\ s.on = "page" /\ s.opening = p.token
            BY <1>1 DEF Awaits
        <3>1. PICK s \in p.asked : s.kind = k /\ s.on = "page" /\ s.opening = p.token
            BY <1>2, <2>2 DEF ProfileOK, Awaits, Answered
        <3>2. s # r
            <4>1. s.of = p.profile /\ D!OnProfile(p)
                BY <1>2, <2>2, <3>1, NetworksAre DEF ProfileOK, PageRequest, OnPage, D!OnProfile
            <4> QED BY <3>1, <4>1 DEF TakesItsOwn
        <3> QED BY <3>1, <3>2 DEF Answered
    <2>3. ASSUME OnPage(p), "refresh" \in p.follows PROVE HeaderOK(q)
        <3>1. HeaderOK(p)
            BY <1>2, <2>3 DEF ProfileOK
        <3>2. CASE q.header = p.renderedBulk
            BY <1>1, <3>2 DEF HeaderOK
        <3>3. CASE q.header # p.renderedBulk
            <4>1. q.header = p.header /\ ~(r.kind = "refresh" /\ r.opening = p.token)
                BY <2>3, <3>3 DEF TakesItsOwn
            <4> QED BY <1>1, <3>1, <3>3, <4>1 DEF HeaderOK, Answered
        <3> QED BY <3>2, <3>3
    <2>4. q.profileHead # None =>
              D!OnProfile(q) /\ q.token > 0 /\ q.profileHead = [of |-> q.profile, opening |-> q.token]
        BY <1>1, <1>2, <2>0 DEF ProfileOK, TakesItsOwn
    <2> QED BY <1>1, <1>2, <2>0, <2>1, <2>2, <2>3, <2>4 DEF ProfileOK
<1>5. Fed(q)
    BY <1>1, <1>2 DEF Fed, D!OnProfile
<1>6. Matches(p) => Matches(q)
    BY <1>1 DEF Matches
<1>7. IsPage(q) /\ HistoryOK(q)
    BY <1>1, <1>2 DEF Answered, IsPage, PageBut, HistoryOK
<1> QED BY <1>1, <1>3, <1>4, <1>5, <1>6, <1>7 DEF PageOK, Turning

LEMMA AnswerStep == ASSUME PageOK(page), NEW r \in page.asked, D!Answer(r) PROVE PageOK(page')
<1> DEFINE w == D!Without(r)
           s == D!Settled(r)
<1>1. IsPage(page) /\ DrawerOK(page) /\ ProfileOK(page) /\ Fed(page)
    BY DEF PageOK, Turning
<1>2. PageBut(page, w, {"asked"}) /\ w.asked = page.asked \ {r}
    BY <1>1 DEF D!Without, IsPage, PageBut, PageFields
<1> DEFINE current == r.opening = IF r.on = "drawer" THEN page.opened ELSE page.token
           t == [w EXCEPT !.settled = @ \cup {r.on}]
<1>3. s = IF current THEN t ELSE w
    BY DEF D!Settled
<1> HIDE DEF w
<1>4. PageBut(w, t, {"settled"}) /\ t.settled = w.settled \cup {r.on}
    BY <1>2 DEF PageBut, PageFields
<1> HIDE DEF t, current
<1>5. w.settled = page.settled /\ t.asked = w.asked
    BY <1>2, <1>4 DEF PageBut, PageFields
<1>6. /\ PageBut(page, s, {"asked", "settled"}) /\ s.asked = page.asked \ {r}
      /\ page.settled \subseteq s.settled /\ (current => r.on \in s.settled)
    <2>1. PageBut(page, t, {"asked", "settled"}) /\ PageBut(page, w, {"asked", "settled"})
        BY <1>2, <1>4 DEF PageBut
    <2>2. CASE current
        BY <1>2, <1>3, <1>4, <1>5, <2>1, <2>2
    <2>3. CASE ~current
        BY <1>2, <1>3, <1>5, <2>1, <2>3
    <2> QED BY <2>2, <2>3
<1> HIDE DEF s
<1>7. /\ w.head = page.head /\ w.panel = page.panel /\ w.feed = page.feed /\ w.profileHead = page.profileHead
      /\ w.header = page.header
      /\ s.head = page.head /\ s.panel = page.panel /\ s.feed = page.feed /\ s.profileHead = page.profileHead
      /\ s.header = page.header
    BY <1>2, <1>6 DEF PageBut, PageFields
<1>8. page.panel \subseteq {page.opened}
    BY <1>1 DEF DrawerOK
<1>9. /\ Answered(page, w, r) /\ Answered(page, s, r)
    BY <1>2, <1>5, <1>6, <1>7 DEF Answered, PageBut
\* What is on the screen is current.
<1>10. r.on = "drawer" /\ r.opening = page.opened => "drawer" \in s.settled
    BY <1>6 DEF current
<1>11. r.on = "page" /\ r.opening = page.token => "page" \in s.settled
    BY <1>6 DEF current
<1>12. CASE r.kind # "refresh" /\ page' = s
    <2>1. TakesItsOwn(page, s, r)
        BY <1>7, <1>8, <1>10, <1>11, <1>12 DEF TakesItsOwn
    <2> QED BY <1>9, <1>12, <2>1, AnsweredOK
<1>13. CASE page' = w /\ r.kind \in D!DrawerParts /\ r.kind \notin {"forum", "software"} /\ page.chain # r.of
    <2>1. TakesItsOwn(page, w, r)
        BY <1>7, <1>8, <1>13 DEF TakesItsOwn, D!DrawerParts, D!ProfileParts
    <2> QED BY <1>9, <1>13, <2>1, AnsweredOK
<1>14. CASE page' = w /\ r.kind \in {"forum", "software"} /\ ~D!ChainOnScreen(page, r.of)
    <2>1. TakesItsOwn(page, w, r)
        BY <1>7, <1>8, <1>14 DEF TakesItsOwn, D!ChainOnScreen, D!OnProfile
    <2> QED BY <1>9, <1>14, <2>1, AnsweredOK
<1>15. CASE page' = w /\ r.kind \in D!ProfileParts \ {"forum", "software"} /\ ~D!Live(r)
    <2>1. TakesItsOwn(page, w, r)
        BY <1>7, <1>8, <1>15 DEF TakesItsOwn, D!Live, D!OnProfile, D!DrawerParts, D!ProfileParts
    <2> QED BY <1>9, <1>15, <2>1, AnsweredOK
<1>16. CASE D!RpcAnswers(r)
    <2> DEFINE h == [s EXCEPT !.head = [of |-> r.of, opening |-> r.opening]]
    <2>1. CASE page.chain = r.of
        <3>1. page' = h /\ r.kind = "rpc"
            BY <1>16, <2>1 DEF D!RpcAnswers, s
        <3>2. PageBut(s, h, {"head"}) /\ h.head.of = r.of
            BY <1>6 DEF PageBut, PageFields
        <3> HIDE DEF h
        <3>3. /\ h.panel = s.panel /\ h.feed = s.feed /\ h.profileHead = s.profileHead /\ h.header = s.header
              /\ h.asked = s.asked /\ h.settled = s.settled
            BY <3>2 DEF PageBut, PageFields
        <3>4. Answered(page, h, r)
            BY <1>6, <1>7, <3>2, <3>3 DEF Answered, PageBut
        <3>5. TakesItsOwn(page, h, r)
            BY <1>7, <1>8, <1>10, <1>11, <2>1, <3>1, <3>2, <3>3 DEF TakesItsOwn
        <3> QED BY <3>1, <3>4, <3>5, AnsweredOK
    <2>2. CASE page.chain # r.of
        BY <1>13, <1>16, <2>2 DEF D!RpcAnswers, D!DrawerParts, w
    <2> QED BY <2>1, <2>2
<1>17. CASE D!LoadChainDetail(r) \/ D!LoadChainHardforks(r) \/ D!LoadLiveClients(r)
    <2>1. CASE page.chain = r.of
        BY <1>12, <1>17, <2>1 DEF D!LoadChainDetail, D!LoadChainHardforks, D!LoadLiveClients, s
    <2>2. CASE page.chain # r.of
        BY <1>13, <1>17, <2>2 DEF D!LoadChainDetail, D!LoadChainHardforks, D!LoadLiveClients, D!DrawerParts, w
    <2> QED BY <2>1, <2>2
<1>18. CASE D!LoadForumNews(r) \/ D!LoadNetworkClients(r)
    <2>1. CASE D!ChainOnScreen(page, r.of)
        BY <1>12, <1>18, <2>1 DEF D!LoadForumNews, D!LoadNetworkClients, s
    <2>2. CASE ~D!ChainOnScreen(page, r.of)
        BY <1>14, <1>18, <2>2 DEF D!LoadForumNews, D!LoadNetworkClients, w
    <2> QED BY <2>1, <2>2
<1>19. CASE D!FeedIsAbsent(r)
    <2> DEFINE h == [s EXCEPT !.feed = FALSE]
    <2>1. page' = h /\ r.kind = "software"
        BY <1>19 DEF D!FeedIsAbsent, s
    <2>2. PageBut(s, h, {"feed"}) /\ h.feed = FALSE
        BY <1>6 DEF PageBut, PageFields
    <2> HIDE DEF h
    <2>3. /\ h.panel = s.panel /\ h.head = s.head /\ h.profileHead = s.profileHead /\ h.header = s.header
          /\ h.asked = s.asked /\ h.settled = s.settled
        BY <2>2 DEF PageBut, PageFields
    <2>4. Answered(page, h, r)
        BY <1>6, <1>7, <2>2, <2>3 DEF Answered, PageBut
    <2>5. TakesItsOwn(page, h, r)
        BY <1>7, <1>8, <1>10, <1>11, <2>1, <2>2, <2>3 DEF TakesItsOwn
    <2> QED BY <2>1, <2>4, <2>5, AnsweredOK
<1>20. CASE D!ClientAnswers(r)
    <2> DEFINE h == [s EXCEPT !.panel = @ \cup {r.opening}]
    <2>1. CASE D!Current(r)
        <3>1. page' = h /\ r.kind = "client" /\ r.opening = page.opened
            BY <1>20, <2>1 DEF D!ClientAnswers, D!Current, s
        <3>2. PageBut(s, h, {"panel"}) /\ h.panel = s.panel \cup {r.opening}
            BY <1>6 DEF PageBut, PageFields
        <3> HIDE DEF h
        <3>3. /\ h.feed = s.feed /\ h.head = s.head /\ h.profileHead = s.profileHead /\ h.header = s.header
              /\ h.asked = s.asked /\ h.settled = s.settled
            BY <3>2 DEF PageBut, PageFields
        <3>4. Answered(page, h, r)
            BY <1>6, <1>7, <3>2, <3>3 DEF Answered, PageBut
        <3>5. TakesItsOwn(page, h, r)
            BY <1>7, <1>8, <1>10, <1>11, <3>1, <3>2, <3>3 DEF TakesItsOwn
        <3> QED BY <3>1, <3>4, <3>5, AnsweredOK
    <2>2. CASE ~D!Current(r)
        <3>1. page' = w /\ r.kind = "client"
            BY <1>20, <2>2 DEF D!ClientAnswers, w
        <3>2. TakesItsOwn(page, w, r)
            BY <1>7, <1>8, <2>2, <3>1 DEF TakesItsOwn, D!Current, D!DrawerParts, D!ProfileParts
        <3> QED BY <1>9, <3>1, <3>2, AnsweredOK
    <2> QED BY <2>1, <2>2
<1>21. CASE D!ProbesAnswer(r)
    <2> DEFINE h == [s EXCEPT !.profileHead = [of |-> r.of, opening |-> r.opening]]
    <2>1. CASE D!Live(r)
        <3>1. page' = h /\ r.kind = "probes"
            BY <1>21, <2>1 DEF D!ProbesAnswer, s
        <3>2. PageBut(s, h, {"profileHead"}) /\ h.profileHead = [of |-> r.of, opening |-> r.opening]
            BY <1>6 DEF PageBut, PageFields
        <3> HIDE DEF h
        <3>3. /\ h.feed = s.feed /\ h.head = s.head /\ h.panel = s.panel /\ h.header = s.header
              /\ h.asked = s.asked /\ h.settled = s.settled
            BY <3>2 DEF PageBut, PageFields
        <3>4. Answered(page, h, r)
            BY <1>6, <1>7, <3>2, <3>3 DEF Answered, PageBut
        <3>5. r.on # "drawer"
            BY <1>1, <3>1 DEF DrawerOK, DrawerRequest, D!DrawerParts
        <3>6. page.token > 0 /\ D!OnProfile(page) /\ h.profileHead = [of |-> page.profile, opening |-> page.token]
            BY <1>1, <2>1, <3>2, <3>5 DEF ProfileOK, PageRequest, D!Live, D!OnProfile
        <3>7. TakesItsOwn(page, h, r)
            BY <1>7, <1>8, <1>10, <1>11, <3>1, <3>3, <3>6 DEF TakesItsOwn
        <3> QED BY <3>1, <3>4, <3>7, AnsweredOK
    <2>2. CASE ~D!Live(r)
        BY <1>15, <1>21, <2>2 DEF D!ProbesAnswer, D!ProfileParts, w
    <2> QED BY <2>1, <2>2
<1>22. CASE D!CardAnswers(r)
    <2>1. CASE D!Live(r)
        BY <1>12, <1>22, <2>1 DEF D!CardAnswers, s
    <2>2. CASE ~D!Live(r)
        BY <1>15, <1>22, <2>2 DEF D!CardAnswers, D!ProfileParts, w
    <2> QED BY <2>1, <2>2
<1>23. CASE D!DetailAnswers(r)
    <2> DEFINE h == [s EXCEPT !.header = r.bulk]
    <2>1. CASE ~D!Live(r)
        BY <1>15, <1>23, <2>1 DEF D!DetailAnswers, D!ProfileParts, w
    <2>2. CASE D!Live(r) /\ D!OfItsBulk(r)
        <3>1. page' = h /\ r.kind = "header"
            BY <1>23, <2>2 DEF D!DetailAnswers, s
        <3>2. PageBut(s, h, {"header"}) /\ h.header = page.renderedBulk
            BY <1>6, <2>2 DEF PageBut, PageFields, D!OfItsBulk
        <3> HIDE DEF h
        <3>3. /\ h.feed = s.feed /\ h.head = s.head /\ h.panel = s.panel /\ h.profileHead = s.profileHead
              /\ h.asked = s.asked /\ h.settled = s.settled
            BY <3>2 DEF PageBut, PageFields
        <3>4. Answered(page, h, r)
            BY <1>6, <1>7, <3>2, <3>3 DEF Answered, PageBut
        <3>5. TakesItsOwn(page, h, r)
            BY <1>7, <1>8, <1>10, <1>11, <3>1, <3>2, <3>3 DEF TakesItsOwn
        <3> QED BY <3>1, <3>4, <3>5, AnsweredOK
    <2>3. CASE D!Live(r) /\ ~D!OfItsBulk(r)
        BY <1>12, <1>23, <2>3 DEF D!DetailAnswers, s
    <2> QED BY <2>1, <2>2, <2>3
<1>24. CASE D!RefreshAnswers(r)
    <2> DEFINE h == [w EXCEPT !.header = page.bulk]
    <2>1. CASE page.view = "chain" /\ page.token = r.opening
        <3>1. page' = h /\ r.kind = "refresh"
            BY <1>24, <2>1 DEF D!RefreshAnswers, w
        <3>2. PageBut(w, h, {"header"}) /\ h.header = page.bulk
            BY <1>2 DEF PageBut, PageFields
        <3> HIDE DEF h
        <3>3. /\ h.feed = w.feed /\ h.head = w.head /\ h.panel = w.panel /\ h.profileHead = w.profileHead
              /\ h.asked = w.asked /\ h.settled = w.settled
            BY <3>2 DEF PageBut, PageFields
        <3>4. Answered(page, h, r)
            BY <1>2, <1>5, <1>7, <3>2, <3>3 DEF Answered, PageBut
        <3>5. OnPage(page) => h.header = page.renderedBulk
            BY <1>1, <3>2 DEF Fed, OnPage
        <3>6. TakesItsOwn(page, h, r)
            BY <1>7, <1>8, <3>1, <3>3, <3>5 DEF TakesItsOwn, D!DrawerParts, D!ProfileParts
        <3> QED BY <3>1, <3>4, <3>6, AnsweredOK
    <2>2. CASE ~(page.view = "chain" /\ page.token = r.opening)
        <3>1. page' = w /\ r.kind = "refresh"
            BY <1>24, <2>2 DEF D!RefreshAnswers, w
        <3>2. TakesItsOwn(page, w, r)
            BY <1>7, <1>8, <2>2, <3>1 DEF TakesItsOwn, OnPage, D!OnProfile, D!DrawerParts, D!ProfileParts
        <3> QED BY <1>9, <3>1, <3>2, AnsweredOK
    <2> QED BY <2>1, <2>2
<1> QED BY <1>16, <1>17, <1>18, <1>19, <1>20, <1>21, <1>22, <1>23, <1>24 DEF D!Answer

LEMMA UnfedStays ==
    ASSUME NEW p, NEW q, q.view = p.view, q.profile = p.profile, q.bulk = p.bulk, q.rendered = p.rendered,
           q.renderedBulk = p.renderedBulk, Fed(p)
    PROVE  Fed(q)
BY DEF Fed, D!OnProfile

LEMMA LoadingOK ==
    ASSUME NEW p, PageOK(p), NEW q, PageBut(p, q, {"loading", "failed"}), p.failed => q.failed
    PROVE  PageOK(q)
<1>1. /\ q.chain = p.chain /\ q.client = p.client /\ q.clientSeq = p.clientSeq /\ q.opened = p.opened
      /\ q.head = p.head /\ q.panel = p.panel /\ q.feed = p.feed /\ q.follows = p.follows
      /\ q.asked = p.asked /\ q.settled = p.settled /\ q.history = p.history /\ q.at = p.at
      /\ q.view = p.view /\ q.profile = p.profile /\ q.rendered = p.rendered /\ q.token = p.token /\ q.bulk = p.bulk
      /\ q.profileHead = p.profileHead /\ q.header = p.header /\ q.renderedBulk = p.renderedBulk
    BY DEF PageBut, PageFields
<1>2. Turning(p) /\ Fed(p)
    BY DEF PageOK
<1>3. DrawerOK(q)
    BY <1>1, <1>2, DrawerStays DEF Turning
<1>4. ProfileOK(q)
    <2>1. OnPage(q) = OnPage(p) /\ D!OnProfile(q) = D!OnProfile(p)
        BY <1>1 DEF OnPage, D!OnProfile
    <2>2. Awaits(p, "page", p.token, D!ProfileParts) => Awaits(q, "page", q.token, D!ProfileParts)
        BY <1>1 DEF Awaits
    <2>3. HeaderOK(p) => HeaderOK(q)
        BY <1>1 DEF HeaderOK
    <2>4. \A r \in q.asked : r.on # "drawer" => PageRequest(q, r)
        BY <1>1, <1>2 DEF Turning, ProfileOK, PageRequest
    <2> QED BY <1>1, <1>2, <2>1, <2>2, <2>3, <2>4 DEF Turning, ProfileOK
<1>5. IsPage(q) /\ HistoryOK(q)
    BY <1>1, <1>2 DEF Turning, IsPage, PageBut, HistoryOK
<1>6. Fed(q)
    BY <1>1, <1>2, UnfedStays
<1>7. p.bulk > 0 => Matches(q)
    BY <1>1 DEF PageOK, Matches
<1> QED BY <1>1, <1>3, <1>4, <1>5, <1>6, <1>7 DEF PageOK, Turning

LEMMA BulkTurns ==
    ASSUME NEW p, Turning(p)
    PROVE  PageOK(D!ApplyBulk(p))
<1> DEFINE u == [p EXCEPT !.bulk = p.bulk + 1]
           q == D!ApplyUrlState(u)
<1>1. PageBut(p, u, {"bulk"}) /\ u.bulk = p.bulk + 1 /\ D!ApplyBulk(p) = q
    BY DEF D!ApplyBulk, Turning, IsPage, PageBut, PageFields
<1> HIDE DEF u
<1>2. /\ u.chain = p.chain /\ u.client = p.client /\ u.clientSeq = p.clientSeq /\ u.opened = p.opened
      /\ u.head = p.head /\ u.panel = p.panel /\ u.feed = p.feed /\ u.follows = p.follows
      /\ u.asked = p.asked /\ u.settled = p.settled /\ u.history = p.history /\ u.at = p.at
      /\ u.view = p.view /\ u.profile = p.profile /\ u.rendered = p.rendered /\ u.token = p.token
      /\ u.profileHead = p.profileHead /\ u.header = p.header /\ u.renderedBulk = p.renderedBulk
    BY <1>1 DEF PageBut, PageFields
<1>3. DrawerOK(u)
    BY <1>2, DrawerStays DEF Turning
<1>4. ProfileOK(u)
    <2>1. OnPage(u) = OnPage(p) /\ D!OnProfile(u) = D!OnProfile(p)
        BY <1>2 DEF OnPage, D!OnProfile
    <2>2. Awaits(p, "page", p.token, D!ProfileParts) => Awaits(u, "page", u.token, D!ProfileParts)
        BY <1>2 DEF Awaits
    <2>3. HeaderOK(p) => HeaderOK(u)
        BY <1>2 DEF HeaderOK
    <2>4. \A r \in u.asked : r.on # "drawer" => PageRequest(u, r)
        BY <1>2 DEF Turning, ProfileOK, PageRequest
    <2>5. u.bulk \in Nat /\ u.bulk # 0
        BY <1>1 DEF Turning, ProfileOK
    <2> QED BY <1>2, <2>1, <2>2, <2>3, <2>4, <2>5 DEF Turning, ProfileOK
<1>5. Turning(u)
    BY <1>1, <1>2, <1>3, <1>4 DEF Turning, IsPage, PageBut, HistoryOK
<1>6. Turning(q) /\ Fed(q) /\ q.bulk = u.bulk /\ (u.bulk > 0 => Matches(q))
    BY <1>5, AppliedIs
<1> QED BY <1>1, <1>6 DEF PageOK

LEMMA PushedOK ==
    ASSUME NEW p, Turning(p), Fed(p)
    PROVE  PageOK(D!UpdateUrl(p)) /\ PageOK(D!PushUrl(p))
<1> DEFINE u == D!UpdateUrl(p)
           h == D!PushUrl(p)
<1>1. /\ Turning(u) /\ PageBut(p, u, {"history"}) /\ Matches(u)
      /\ Turning(h) /\ PageBut(p, h, {"history", "at"}) /\ Matches(h)
    BY UrlTurns
<1> HIDE DEF u, h
<1>2. /\ u.view = p.view /\ u.profile = p.profile /\ u.bulk = p.bulk /\ u.rendered = p.rendered
      /\ u.renderedBulk = p.renderedBulk
      /\ h.view = p.view /\ h.profile = p.profile /\ h.bulk = p.bulk /\ h.rendered = p.rendered
      /\ h.renderedBulk = p.renderedBulk
    BY <1>1 DEF PageBut, PageFields
<1>3. Fed(u) /\ Fed(h)
    BY <1>2, UnfedStays
<1>4. PageOK(u) /\ PageOK(h)
    BY <1>1, <1>3 DEF PageOK
<1> QED BY <1>4 DEF u, h

LEMMA DrawerFed == ASSUME NEW p, NEW q, Fed(p), PageBut(p, q, DrawerFields) PROVE Fed(q)
<1>1. /\ q.view = p.view /\ q.profile = p.profile /\ q.bulk = p.bulk /\ q.rendered = p.rendered
      /\ q.renderedBulk = p.renderedBulk
    BY DEF PageBut, PageFields, DrawerFields
<1> QED BY <1>1, UnfedStays

LEMMA PageStep == PageOK(page) /\ [D!Next]_page => PageOK(page')
<1> SUFFICES ASSUME PageOK(page), D!Next PROVE PageOK(page')
    OBVIOUS
<1>a. Turning(page) /\ Fed(page) /\ IsPage(page) /\ page.bulk \in Nat
    BY DEF PageOK, Turning, ProfileOK
<1>1. CASE D!BulkArrives
    <2> DEFINE b == D!ApplyBulk(page)
    <2>1. PageOK(b) /\ page' = [b EXCEPT !.loading = FALSE]
        BY <1>1, <1>a, BulkTurns DEF D!BulkArrives
    <2> HIDE DEF b
    <2>2. PageBut(b, page', {"loading", "failed"}) /\ page'.failed = b.failed
        BY <2>1 DEF PageOK, Turning, IsPage, PageBut, PageFields
    <2> QED BY <2>1, <2>2, LoadingOK
<1>2. CASE D!BulkIsCurrent \/ D!LoadRetry
    <2>1. PageBut(page, page', {"loading", "failed"}) /\ page'.failed = page.failed
        BY <1>2, <1>a DEF D!BulkIsCurrent, D!LoadRetry, IsPage, PageBut, PageFields
    <2> QED BY <2>1, LoadingOK
<1>3. CASE D!BulkFails
    <2> DEFINE p == [page EXCEPT !.loading = FALSE]
               t == [p EXCEPT !.failed = TRUE]
    <2>1. PageBut(page, p, {"loading", "failed"}) /\ p.failed = page.failed
        BY <1>a DEF IsPage, PageBut, PageFields
    <2>2. PageBut(page, t, {"loading", "failed"}) /\ t.failed
        BY <1>a DEF IsPage, PageBut, PageFields
    <2>3. page' = IF p.bulk > 0 THEN p
                  ELSE IF p.view = "chain" /\ p.profile # None /\ p.rendered = None
                  THEN D!RenderChainProfile(t, p.profile) ELSE t
        BY <1>3 DEF D!BulkFails
    <2> HIDE DEF p, t
    <2>4. PageOK(p) /\ PageOK(t)
        BY <2>1, <2>2, LoadingOK
    <2>5. p.bulk = page.bulk /\ p.view = page.view /\ p.profile = page.profile /\ t.bulk = page.bulk
          /\ t.view = page.view /\ t.profile = page.profile
        BY <2>1, <2>2 DEF PageBut, PageFields
    <2>6. CASE ~(p.bulk > 0) /\ p.view = "chain" /\ p.profile # None
        <3> DEFINE r == D!RenderChainProfile(t, page.profile)
        <3>1. page.profile \in Network
            BY <1>a, <2>5, <2>6 DEF Turning, ProfileOK
        <3>2. PageBut(page, t, {"profile", "view", "history", "at", "loading", "failed"}) /\ HistoryOK(t)
            BY <2>2, <2>4 DEF PageBut, PageOK, Turning
        <3>3. Arrives(page, t, page.profile)
            BY <2>5, <2>6, <3>2 DEF Arrives
        <3>4. /\ PageBut(t, r, {"asked", "token", "rendered", "renderedBulk", "header", "failed", "profileHead", "settled"})
              /\ Turning(r) /\ Fed(r)
            BY <1>a, <2>2, <3>1, <3>3, RenderingTurns
        <3> HIDE DEF r
        <3>5. r.bulk = page.bulk
            BY <2>5, <3>4 DEF PageBut, PageFields
        <3>6. PageOK(r)
            BY <2>5, <2>6, <3>4, <3>5 DEF PageOK
        <3> QED BY <2>3, <2>4, <2>5, <3>6 DEF r
    <2> QED BY <2>3, <2>4, <2>6
<1>4. ASSUME NEW v \in D!Views \ {"chain"}, D!ClicksTab(v) PROVE PageOK(page')
    <2> DEFINE q == D!SwitchView(page, v)
    <2>1. PageBut(page, page, {"profile"}) /\ page.profile \in Network \cup {None}
        BY <1>a DEF Turning, ProfileOK, IsPage, PageBut
    <2>2. Turning(q) /\ Fed(q)
        BY <1>a, <2>1, LeavingTurns
    <2>3. page' = D!PushUrl(q)
        BY <1>4 DEF D!ClicksTab
    <2> HIDE DEF q
    <2> QED BY <2>2, <2>3, PushedOK
<1>5. ASSUME NEW c, D!ClicksChain(c) PROVE PageOK(page')
    <2> DEFINE q == D!OpenChainDetail(page, c, TRUE)
    <2>1. CASE c \in InList
        <3>1. PageBut(page, q, DrawerFields) /\ Turning(q) /\ page' = D!UpdateUrl(q)
            BY <1>5, <1>a, <2>1, ChainOpens DEF D!ClicksChain
        <3> HIDE DEF q
        <3>2. Fed(q)
            BY <1>a, <3>1, DrawerFed
        <3> QED BY <3>1, <3>2, PushedOK
    <2>2. CASE c \notin InList
        BY <1>5, <2>2 DEF D!ClicksChain, D!OpenChainDetail
    <2> QED BY <2>1, <2>2
<1>6. ASSUME NEW x \in Software, D!ClicksClient(x) PROVE PageOK(page')
    <2> DEFINE q == D!OpenClientDetail(page, x, TRUE)
    <2>1. PageBut(page, q, DrawerFields) /\ Turning(q) /\ page' = D!UpdateUrl(q)
        BY <1>6, <1>a, ClientOpens DEF D!ClicksClient
    <2> HIDE DEF q
    <2>2. Fed(q)
        BY <1>a, <2>1, DrawerFed
    <2> QED BY <2>1, <2>2, PushedOK
<1>7. ASSUME NEW c \in Network, D!ClicksProfile(c) PROVE PageOK(page')
    <2> DEFINE q == D!OpenChainProfile(page, c, FALSE)
    <2>1. Turning(q) /\ Fed(q) /\ Matches(q)
        BY <1>a, ProfileOpens
    <2>2. page' = q
        BY <1>7 DEF D!ClicksProfile
    <2> HIDE DEF q
    <2> QED BY <2>1, <2>2 DEF PageOK
<1>8. CASE D!ClosesDrawer
    <2> DEFINE q == D!Hide(page)
    <2>1. PageBut(page, q, {"chain", "client", "head"}) /\ Turning(q) /\ page' = D!UpdateUrl(q)
        BY <1>8, <1>a, HideTurns DEF D!ClosesDrawer, D!CloseDrawer
    <2> HIDE DEF q
    <2>2. PageBut(page, q, DrawerFields)
        BY <2>1 DEF PageBut, DrawerFields
    <2>3. Fed(q)
        BY <1>a, <2>2, DrawerFed
    <2> QED BY <2>1, <2>3, PushedOK
<1>9. ASSUME NEW step \in {-1, 1}, D!Goes(step) PROVE PageOK(page')
    <2> DEFINE p == [page EXCEPT !.at = @ + step]
               q == D!ApplyUrlState(p)
    <2>1. PageBut(page, p, {"at"}) /\ p.at = page.at + step
        BY <1>a DEF IsPage, PageBut, PageFields
    <2>2. page' = q /\ page.at + step \in 1..Len(page.history)
        BY <1>9 DEF D!Goes
    <2> HIDE DEF p
    <2>3. /\ p.chain = page.chain /\ p.client = page.client /\ p.clientSeq = page.clientSeq /\ p.opened = page.opened
          /\ p.head = page.head /\ p.panel = page.panel /\ p.feed = page.feed /\ p.follows = page.follows
          /\ p.asked = page.asked /\ p.settled = page.settled /\ p.history = page.history
          /\ p.view = page.view /\ p.profile = page.profile /\ p.rendered = page.rendered /\ p.token = page.token
          /\ p.bulk = page.bulk /\ p.failed = page.failed
          /\ p.profileHead = page.profileHead /\ p.header = page.header /\ p.renderedBulk = page.renderedBulk
        BY <2>1 DEF PageBut, PageFields
    <2>4. DrawerOK(p)
        BY <1>a, <2>3, DrawerStays DEF Turning
    <2>5. ProfileOK(p)
        BY <1>a, <2>3, ProfileStays DEF Turning
    <2>6. Turning(p)
        BY <1>a, <2>1, <2>2, <2>3, <2>4, <2>5 DEF Turning, IsPage, PageBut, HistoryOK
    <2>7. Turning(q) /\ Fed(q) /\ q.bulk = p.bulk /\ (p.bulk > 0 => Matches(q))
        BY <2>6, AppliedIs
    <2> HIDE DEF q
    <2> QED BY <2>2, <2>7 DEF PageOK
<1>10. ASSUME NEW r \in page.asked, D!Answer(r) PROVE PageOK(page')
    BY <1>10, AnswerStep
<1> QED BY <1>1, <1>2, <1>3, <1>4, <1>5, <1>6, <1>7, <1>8, <1>9, <1>10 DEF D!Next

LEMMA BlankTurns == ASSUME NEW a \in Address, NEW parts PROVE Turning(D!Blank(a, parts)) /\ D!Blank(a, parts).bulk = 0
<1> DEFINE p == D!Blank(a, parts)
<1>1. /\ PageBut(p, p, {}) /\ p.view = "overview" /\ p.chain = None /\ p.client = None /\ p.profile = None
      /\ p.history = <<a>> /\ p.at = 1 /\ p.bulk = 0 /\ p.opened = 0 /\ p.panel = {} /\ p.head = None /\ p.asked = {}
      /\ p.token = 0 /\ p.rendered = None /\ p.profileHead = None
    BY DEF D!Blank, PageBut, PageFields, D!DefaultView
<1> HIDE DEF p
<1>2. HistoryOK(p)
    <2>1. <<a>> \in Seq(Address) /\ Len(<<a>>) = 1
        OBVIOUS
    <2> QED BY <1>1, <2>1 DEF HistoryOK
<1>3. DrawerOK(p)
    BY <1>1 DEF DrawerOK
<1>4. ProfileOK(p)
    BY <1>1 DEF ProfileOK, OnPage, D!OnProfile, D!Views
<1> QED BY <1>1, <1>2, <1>3, <1>4 DEF Turning, IsPage, p

LEMMA PageBegins == ClientsInit => PageOK(page)
<1> SUFFICES ASSUME ClientsInit PROVE PageOK(page)
    OBVIOUS
<1>1. CASE page = NoPage
    <2> DEFINE a == [profile |-> None, view |-> "overview", chain |-> None, client |-> None]
    <2>1. a \in Address
        BY DEF Address, D!Views
    <2> HIDE DEF a
    <2>2. page = D!Blank(a, {})
        BY <1>1 DEF NoPage, a
    <2>3. Turning(page) /\ page.bulk = 0
        BY <2>1, <2>2, BlankTurns
    <2>4. page.view = "overview"
        BY <2>2 DEF D!Blank, D!DefaultView
    <2> QED BY <2>3, <2>4 DEF PageOK, Fed, D!OnProfile
<1>2. CASE D!Init
    <2> PICK a \in D!Addresses, kept \in KeptList, parts \in D!Followed :
            page = IF kept THEN D!ApplyBulk(D!ApplyUrlState(D!Blank(a, parts))) ELSE D!ApplyUrlState(D!Blank(a, parts))
        BY <1>2 DEF D!Init
    <2> DEFINE b == D!Blank(a, parts)
               q == D!ApplyUrlState(b)
    <2>1. a \in Address
        BY DEF D!Addresses, Address, D!Views, D!DefaultView
    <2>2. Turning(b) /\ b.bulk = 0
        BY <2>1, BlankTurns
    <2> HIDE DEF b
    <2>3. Turning(q) /\ Fed(q) /\ q.bulk = b.bulk
        BY <2>2, AppliedIs
    <2>4. page = IF kept THEN D!ApplyBulk(q) ELSE q
        BY DEF b
    <2> HIDE DEF q
    <2>5. PageOK(q)
        BY <2>2, <2>3 DEF PageOK
    <2> QED BY <2>3, <2>4, <2>5, BulkTurns
<1> QED BY <1>1, <1>2 DEF ClientsInit

LEMMA PageHolds == PageOK(page) => PageIsWhatWasAskedFor
<1> SUFFICES ASSUME PageOK(page) PROVE PageIsWhatWasAskedFor
    OBVIOUS
<1>1. Turning(page) /\ DrawerOK(page) /\ ProfileOK(page) /\ Fed(page) /\ (page.bulk > 0 => Matches(page))
    BY DEF PageOK, Turning
<1>2. D!ScreenMatchesAddress
    <2> SUFFICES ASSUME page.bulk > 0 PROVE D!ScreenMatchesAddress
        BY DEF D!ScreenMatchesAddress
    <2> DEFINE a == page.history[page.at]
               there == D!ApplyUrlState(page)
    <2>1. Matches(there) /\ there.history = page.history /\ there.at = page.at
        BY <1>1, AppliedIs
    <2> HIDE DEF there
    <2>2. a \in Address
        BY <1>1 DEF Turning, HistoryOK
    <2>3. a.profile # None => page.view = "chain" /\ page.profile = a.profile /\ there.view = "chain"
        BY <1>1, <2>1 DEF Matches
    <2>4. a.profile = None =>
              page.view = a.view /\ there.view = a.view /\ page.chain = there.chain /\ page.client = there.client
        BY <1>1, <2>1 DEF Matches
    <2>5. a.view # "chain"
        BY <2>2 DEF Address
    <2> HIDE DEF a
    <2>6. /\ D!OnProfile(page) <=> a.profile # None
          /\ D!OnProfile(page) => page.profile = a.profile
          /\ page.view = there.view
          /\ a.profile = None => page.chain = there.chain /\ page.client = there.client
        BY <2>3, <2>4, <2>5 DEF D!OnProfile
    <2> QED BY <2>6 DEF D!ScreenMatchesAddress, a, there
<1>3. D!LateAnswersStayOff
    <2>1. page.bulk > 0 /\ D!OnProfile(page) /\ "refresh" \in page.follows /\ {r \in page.asked : r.kind = "refresh"} = {}
          => page.header = page.renderedBulk
        BY <1>1 DEF Fed, ProfileOK, HeaderOK, OnPage
    <2> QED BY <1>1, <2>1 DEF D!LateAnswersStayOff, DrawerOK, ProfileOK
<1>4. D!NothingWaitsForDroppedAnswer
    BY <1>1 DEF D!NothingWaitsForDroppedAnswer, DrawerOK, ProfileOK, Awaits, OnPage
<1> QED BY <1>2, <1>3, <1>4 DEF PageIsWhatWasAskedFor

\* Copying the address copies the screen, a slow answer for what is no longer shown is dropped, and
\* nothing that is shown waits for one that was, whatever the reader opens, leaves and comes back
\* to, and however late the list of networks (app.js:761-793, 630-635; profile.js:9-11).
THEOREM PageIsAlwaysWhatWasAskedFor == ClientsSpec => []PageIsWhatWasAskedFor
<1>1. PageOK(page) /\ [ClientsNext]_everything => PageOK(page)'
    <2> SUFFICES ASSUME PageOK(page), [ClientsNext]_everything PROVE PageOK(page')
        BY DEF PageOK, Turning, IsPage, PageBut, HistoryOK, DrawerOK, DrawerRequest, ProfileOK, PageRequest, Awaits,
               OnPage, HeaderOK, Fed, Matches, D!OnProfile
    <2>1. [D!Next]_page
        BY DEF ClientsNext, everything
    <2> QED BY <2>1, PageStep
<1> QED BY <1>1, PageBegins, PageHolds, PTL DEF ClientsSpec

-----------------------------------------------------------------------------
(* Orders of finite sets                                                   *)

Below(S, Rel, n) == {m \in S : <<m, n>> \in Rel}

\* As many are below one as below another only if they are the same, so each number is taken.
LEMMA EveryRankIsTaken ==
    ASSUME NEW S, IsFiniteSet(S), NEW Rel,
           \A x \in S : <<x, x>> \notin Rel,
           \A x, y \in S : x = y \/ <<x, y>> \in Rel \/ <<y, x>> \in Rel,
           \A x, y, z \in S : <<x, y>> \in Rel /\ <<y, z>> \in Rel => <<x, z>> \in Rel
    PROVE  /\ Cardinality(S) \in Nat
           /\ \A m, n \in S : <<m, n>> \in Rel => Cardinality(Below(S, Rel, m)) < Cardinality(Below(S, Rel, n))
           /\ \A k \in 1 .. Cardinality(S) : \E n \in S : Cardinality(Below(S, Rel, n)) = k - 1
<1> DEFINE Ranks == 0 .. Cardinality(S) - 1
           rank == [n \in S |-> Cardinality(Below(S, Rel, n))]
<1>1. Cardinality(S) \in Nat
    BY FS_CardinalityType
<1>2. ASSUME NEW n \in S
      PROVE  IsFiniteSet(Below(S, Rel, n)) /\ Cardinality(Below(S, Rel, n)) \in Nat /\ Cardinality(Below(S, Rel, n)) < Cardinality(S)
    <2>1. IsFiniteSet(S \ {n}) /\ Cardinality(S \ {n}) = Cardinality(S) - 1
        BY FS_RemoveElement
    <2>2. Below(S, Rel, n) \in SUBSET (S \ {n})
        BY DEF Below
    <2>3. IsFiniteSet(Below(S, Rel, n)) /\ Cardinality(Below(S, Rel, n)) <= Cardinality(S \ {n})
        BY <2>1, <2>2, FS_Subset
    <2> QED BY <1>1, <2>1, <2>3, FS_CardinalityType
<1>3. ASSUME NEW m \in S, NEW n \in S, <<m, n>> \in Rel
      PROVE  Cardinality(Below(S, Rel, m)) < Cardinality(Below(S, Rel, n))
    <2>1. Below(S, Rel, m) \cup {m} \in SUBSET Below(S, Rel, n) /\ m \notin Below(S, Rel, m)
        BY <1>3 DEF Below
    <2>2. Cardinality(Below(S, Rel, m) \cup {m}) = Cardinality(Below(S, Rel, m)) + 1
        BY <1>2, <2>1, FS_AddElement
    <2>3. Cardinality(Below(S, Rel, m) \cup {m}) <= Cardinality(Below(S, Rel, n))
        BY <1>2, <2>1, FS_Subset
    <2> QED BY <1>2, <2>2, <2>3
<1>4. rank \in Injection(S, Ranks)
    <2>1. rank \in [S -> Ranks]
        BY <1>1, <1>2
    <2>2. ASSUME NEW m \in S, NEW n \in S, m # n PROVE rank[m] # rank[n]
        <3>1. <<m, n>> \in Rel \/ <<n, m>> \in Rel
            BY <2>2
        <3> QED BY <1>2, <1>3, <3>1
    <2>3. \A m, n \in DOMAIN rank : rank[m] = rank[n] => m = n
        BY <2>2
    <2> HIDE DEF rank, Ranks
    <2>4. IsInjective(rank)
        BY <2>3 DEF IsInjective
    <2> QED BY <2>1, <2>4 DEF Injection
<1>5. IsFiniteSet(Ranks) /\ Cardinality(Ranks) = Cardinality(S)
    <2>1. 0 \in Int /\ Cardinality(S) - 1 \in Int
        BY <1>1
    <2>2. IsFiniteSet(Ranks) /\ Cardinality(Ranks) = IF 0 > Cardinality(S) - 1 THEN 0 ELSE Cardinality(S) - 1 - 0 + 1
        BY <2>1, FS_Interval
    <2> QED BY <1>1, <2>2
<1>6. rank \in Surjection(S, Ranks)
    <2> HIDE DEF rank, Ranks
    <2> QED BY <1>4, <1>5, FS_Injection
<1>7. ASSUME NEW k \in 1 .. Cardinality(S) PROVE \E n \in S : Cardinality(Below(S, Rel, n)) = k - 1
    <2>1. k - 1 \in Ranks
        BY <1>1
    <2>2. \E n \in S : rank[n] = k - 1
        <3> HIDE DEF rank, Ranks
        <3> QED BY <1>6, <2>1 DEF Surjection
    <2> QED BY <2>2
<1> QED BY <1>1, <1>3, <1>7

IsOrder(S, Rel) ==
    /\ \A x \in S : <<x, x>> \notin Rel
    /\ \A x, y \in S : x = y \/ <<x, y>> \in Rel \/ <<y, x>> \in Rel
    /\ \A x, y, z \in S : <<x, y>> \in Rel /\ <<y, z>> \in Rel => <<x, z>> \in Rel

\* Each is at the place its rank gives it.
IsRanked(rows, S, Rel) ==
    /\ rows \in [1 .. Cardinality(S) -> S]
    /\ \A i \in 1 .. Cardinality(S) : Cardinality(Below(S, Rel, rows[i])) = i - 1

AreInOrder(rows, S, Rel) ==
    /\ Cardinality(S) \in Nat /\ rows \in Seq(S) /\ Len(rows) = Cardinality(S)
    /\ \A i, j \in 1 .. Len(rows) : i < j => <<rows[i], rows[j]>> \in Rel
    /\ \A u \in S : \E i \in 1 .. Len(rows) : rows[i] = u

\* What is placed by its rank is in order, and everything is placed once.
LEMMA RankedIs ==
    ASSUME NEW S, IsFiniteSet(S), NEW Rel, IsOrder(S, Rel), NEW rows, IsRanked(rows, S, Rel)
    PROVE  AreInOrder(rows, S, Rel)
<1> DEFINE N == Cardinality(S)
<1>1. IsOrder(S, Rel) /\ rows \in [1 .. N -> S] /\ \A i \in 1 .. N : rows[i] \in S /\ Cardinality(Below(S, Rel, rows[i])) = i - 1
    BY DEF IsRanked
<1>2. /\ N \in Nat
      /\ \A m, n \in S : <<m, n>> \in Rel => Cardinality(Below(S, Rel, m)) < Cardinality(Below(S, Rel, n))
    BY EveryRankIsTaken DEF IsOrder
<1>3. \A u \in S : Cardinality(Below(S, Rel, u)) \in Nat /\ Cardinality(Below(S, Rel, u)) < N
    <2> SUFFICES ASSUME NEW u \in S PROVE Cardinality(Below(S, Rel, u)) \in Nat /\ Cardinality(Below(S, Rel, u)) < N
        OBVIOUS
    <2>1. Below(S, Rel, u) \subseteq S \ {u}
        BY <1>1 DEF Below, IsOrder
    <2>2. IsFiniteSet(S \ {u}) /\ Cardinality(S \ {u}) = N - 1
        BY FS_RemoveElement
    <2>3. IsFiniteSet(Below(S, Rel, u)) /\ Cardinality(Below(S, Rel, u)) <= N - 1
        BY <2>1, <2>2, FS_Subset
    <2>4. Cardinality(Below(S, Rel, u)) \in Nat
        BY <2>3, FS_CardinalityType
    <2> QED BY <1>2, <2>3, <2>4
<1>4. rows \in Seq(S) /\ Len(rows) = N
    BY <1>1, <1>2
<1> HIDE DEF N
<1>5. ASSUME NEW i \in 1 .. N, NEW j \in 1 .. N, i < j PROVE <<rows[i], rows[j]>> \in Rel
    <2>1. rows[i] # rows[j]
        BY <1>1, <1>2, <1>5
    <2>2. <<rows[j], rows[i]>> \notin Rel
        <3> SUFFICES ASSUME <<rows[j], rows[i]>> \in Rel PROVE FALSE
            OBVIOUS
        <3>1. Cardinality(Below(S, Rel, rows[j])) < Cardinality(Below(S, Rel, rows[i]))
            BY <1>1, <1>2
        <3> QED BY <1>1, <1>2, <1>5, <3>1
    <2> QED BY <1>1, <2>1, <2>2 DEF IsOrder
<1>6. ASSUME NEW u \in S PROVE \E i \in 1 .. N : rows[i] = u
    <2> DEFINE i == Cardinality(Below(S, Rel, u)) + 1
    <2>1. i \in 1 .. N /\ i - 1 = Cardinality(Below(S, Rel, u))
        BY <1>2, <1>3
    <2> HIDE DEF i
    <2>2. rows[i] = u
        <3> SUFFICES ASSUME rows[i] # u PROVE FALSE
            OBVIOUS
        <3>1. Cardinality(Below(S, Rel, rows[i])) = Cardinality(Below(S, Rel, u)) /\ rows[i] \in S
            BY <1>1, <2>1
        <3>2. <<rows[i], u>> \in Rel \/ <<u, rows[i]>> \in Rel
            BY <1>1, <3>1 DEF IsOrder
        <3> QED BY <1>2, <1>3, <3>1, <3>2
    <2> QED BY <2>1, <2>2
<1> QED BY <1>2, <1>4, <1>5, <1>6 DEF N, AreInOrder

LEMMA FiniteHasLeast ==
    ASSUME NEW Set \in SUBSET Int, IsFiniteSet(Set), Set # {}
    PROVE  \E m \in Set : \A x \in Set : m <= x
<1> DEFINE Rel == {p \in Set \X Set : p[1] < p[2]}
<1>1. /\ \A x \in Set : <<x, x>> \notin Rel
      /\ \A x, y \in Set : x = y \/ <<x, y>> \in Rel \/ <<y, x>> \in Rel
      /\ \A x, y, z \in Set : <<x, y>> \in Rel /\ <<y, z>> \in Rel => <<x, z>> \in Rel
    OBVIOUS
<1>2. Cardinality(Set) \in Nat /\ Cardinality(Set) # 0
    BY FS_CardinalityType, FS_EmptySet
<1>3. \E m \in Set : Cardinality(Below(Set, Rel, m)) = 1 - 1
    <2>1. 1 \in 1 .. Cardinality(Set)
        BY <1>2
    <2> HIDE DEF Rel
    <2> QED BY <1>1, <2>1, EveryRankIsTaken
<1>4. PICK m \in Set : Cardinality(Below(Set, Rel, m)) = 0
    BY <1>3
<1>5. Below(Set, Rel, m) = {}
    <2>1. Below(Set, Rel, m) \in SUBSET Set
        BY DEF Below
    <2> HIDE DEF Rel
    <2> QED BY <1>4, <2>1, FS_Subset, FS_EmptySet
<1>6. ASSUME NEW x \in Set PROVE m <= x
    <2>1. ~(x < m)
        BY <1>5 DEF Below
    <2> QED BY <2>1
<1> QED BY <1>6

LEMMA FiniteHasGreatest ==
    ASSUME NEW Set \in SUBSET Int, IsFiniteSet(Set), Set # {}
    PROVE  \E m \in Set : \A x \in Set : x <= m
<1> DEFINE Minus == {0 - x : x \in Set}
           f == [x \in Set |-> 0 - x]
<1>1. Minus \in SUBSET Int /\ Minus # {}
    <2>1. \A x \in Set : 0 - x \in Int
        OBVIOUS
    <2>2. Minus \in SUBSET Int
        BY <2>1
    <2>3. PICK x \in Set : TRUE
        OBVIOUS
    <2>4. 0 - x \in Minus
        OBVIOUS
    <2> QED BY <2>2, <2>4
<1>2. IsFiniteSet(Minus)
    <2>1. f \in Surjection(Set, Minus)
        BY DEF Surjection
    <2> HIDE DEF f, Minus
    <2> QED BY <2>1, FS_Surjection
<1>3. PICK y \in Minus : \A x \in Minus : y <= x
    <2> HIDE DEF Minus
    <2> QED BY <1>1, <1>2, FiniteHasLeast
<1>4. PICK m \in Set : y = 0 - m
    OBVIOUS
<1>5. ASSUME NEW x \in Set PROVE x <= m
    <2>1. 0 - m <= 0 - x
        BY <1>3, <1>4
    <2> QED BY <2>1
<1> QED BY <1>5

-----------------------------------------------------------------------------
(* The timeline                                                            *)

LEMMA SameSizes == \A S : (E!IsFiniteSet(S) <=> IsFiniteSet(S)) /\ E!Cardinality(S) = Cardinality(S)
<1>1. ASSUME NEW S PROVE E!IsFiniteSet(S) <=> IsFiniteSet(S)
    BY DEF E!IsFiniteSet, IsFiniteSet
<1>2. ASSUME NEW S PROVE E!Cardinality(S) = Cardinality(S)
    BY DEF E!Cardinality, Cardinality, E!IsFiniteSet, IsFiniteSet
<1> QED BY <1>1, <1>2

Ordered(items, now) == {p \in items \X items : E!Before(p[1], p[2], now)}

\* What is pending, by its time; then the rest, the newest first; what has no date is last, by how much is known of it.
Precedes(P, a, b) ==
    \/ a \in P /\ b \notin P
    \/ a \in P /\ b \in P /\ E!At(a) < E!At(b)
    \/ a \notin P /\ b \notin P /\ E!At(a) > E!At(b)
    \/ (a \in P <=> b \in P) /\ E!At(a) = E!At(b) /\ E!UndatedRank(a) < E!UndatedRank(b)
    \/ (a \in P <=> b \in P) /\ E!At(a) = E!At(b) /\ E!UndatedRank(a) = E!UndatedRank(b) /\ a.id < b.id

PendingOf(items, now) == {u \in items : E!Pending(u, now)}

LEMMA BeforeIs ==
    ASSUME NEW items, E!IsList(items), NEW now \in Int
    PROVE  /\ \A u \in items : E!At(u) \in Int /\ E!UndatedRank(u) \in Int /\ u.id \in Int
           /\ \A a, b \in items : E!Before(a, b, now) <=> Precedes(PendingOf(items, now), a, b)
<1>1. ASSUME NEW u \in items PROVE E!At(u) \in Int /\ E!UndatedRank(u) \in Int /\ u.id \in Int
    <2>1. E!IsEvent(u)
        BY <1>1 DEF E!IsList
    <2>2. u.id \in Int /\ (u.at # None => u.at \in Int)
        BY <2>1 DEF E!IsEvent
    <2> QED BY <2>2 DEF E!At, E!IsDated, E!UndatedRank
<1>2. ASSUME NEW a \in items, NEW b \in items
      PROVE  E!Before(a, b, now) <=> Precedes(PendingOf(items, now), a, b)
    <2>1. /\ E!At(a) \in Int /\ E!UndatedRank(a) \in Int /\ a.id \in Int
          /\ E!At(b) \in Int /\ E!UndatedRank(b) \in Int /\ b.id \in Int
        BY <1>1
    <2>2. /\ a \in PendingOf(items, now) <=> E!Pending(a, now)
          /\ b \in PendingOf(items, now) <=> E!Pending(b, now)
        BY DEF PendingOf
    <2> QED BY <2>1, <2>2 DEF E!Before, E!Pending, Precedes
<1> QED BY <1>1, <1>2

LEMMA RowsAreOrdered ==
    ASSUME NEW items, E!IsList(items), NEW now \in Int
    PROVE  IsOrder(items, Ordered(items, now))
<1> DEFINE P == PendingOf(items, now)
           Rel == Ordered(items, now)
<1>1. \A u \in items : E!At(u) \in Int /\ E!UndatedRank(u) \in Int /\ u.id \in Int
    BY BeforeIs
<1>2. \A a, b \in items : <<a, b>> \in Rel <=> Precedes(P, a, b)
    BY BeforeIs DEF Ordered
<1>3. \A a, b \in items : a.id = b.id => a = b
    BY DEF E!IsList
<1> HIDE DEF P, Rel
<1>4. \A x \in items : <<x, x>> \notin Rel
    BY <1>1, <1>2 DEF Precedes
<1>5. \A x, y \in items : x = y \/ <<x, y>> \in Rel \/ <<y, x>> \in Rel
    <2> SUFFICES ASSUME NEW x \in items, NEW y \in items, x # y PROVE Precedes(P, x, y) \/ Precedes(P, y, x)
        BY <1>2
    <2>1. x.id # y.id
        BY <1>3
    <2> QED BY <1>1, <2>1 DEF Precedes
<1>6. \A x, y, z \in items : <<x, y>> \in Rel /\ <<y, z>> \in Rel => <<x, z>> \in Rel
    <2> SUFFICES ASSUME NEW x \in items, NEW y \in items, NEW z \in items, Precedes(P, x, y), Precedes(P, y, z)
                 PROVE  Precedes(P, x, z)
        BY <1>2
    <2> QED BY <1>1 DEF Precedes
<1> QED BY <1>4, <1>5, <1>6 DEF Rel, IsOrder

\* Rows are the events, each once, in order.
LEMMA SortedIs ==
    ASSUME NEW items, E!IsList(items), NEW now \in Int
    PROVE  LET rows == E!Sorted(items, now) IN
           /\ Cardinality(items) \in Nat /\ rows \in Seq(items) /\ Len(rows) = Cardinality(items)
           /\ \A i, j \in 1 .. Len(rows) : i < j => Precedes(PendingOf(items, now), rows[i], rows[j])
           /\ \A u \in items : \E i \in 1 .. Len(rows) : rows[i] = u
<1> DEFINE Rel == Ordered(items, now)
           N == Cardinality(items)
           rows == E!Sorted(items, now)
           place == [u \in items |-> 1 + E!Cardinality({w \in items : E!Before(w, u, now)})]
<1>1. IsFiniteSet(items)
    BY SameSizes DEF E!IsList
<1>2. IsOrder(items, Rel)
    BY RowsAreOrdered
<1>3. /\ N \in Nat
      /\ \A m, n \in items : <<m, n>> \in Rel => Cardinality(Below(items, Rel, m)) < Cardinality(Below(items, Rel, n))
      /\ \A k \in 1 .. N : \E n \in items : Cardinality(Below(items, Rel, n)) = k - 1
    <2> HIDE DEF Rel
    <2> QED BY <1>1, <1>2, EveryRankIsTaken DEF IsOrder
<1>4. \A u \in items : place[u] = 1 + Cardinality(Below(items, Rel, u))
    <2> SUFFICES ASSUME NEW u \in items PROVE place[u] = 1 + Cardinality(Below(items, Rel, u))
        OBVIOUS
    <2>1. {w \in items : E!Before(w, u, now)} = Below(items, Rel, u)
        BY DEF Below, Ordered
    <2> QED BY <2>1, SameSizes
<1>5. rows = [i \in 1 .. N |-> CHOOSE u \in items : place[u] = i]
    <2>1. E!Cardinality(items) = N
        BY SameSizes
    <2> QED BY <2>1 DEF E!Sorted
<1> HIDE DEF Rel, N, rows, place
<1>6. ASSUME NEW i \in 1 .. N
      PROVE  rows[i] \in items /\ Cardinality(Below(items, Rel, rows[i])) = i - 1
    <2>1. \E u \in items : place[u] = i
        <3>1. PICK n \in items : Cardinality(Below(items, Rel, n)) = i - 1
            BY <1>3
        <3> QED BY <1>4, <3>1
    <2>2. rows[i] \in items /\ place[rows[i]] = i
        BY <1>5, <2>1
    <2>3. Cardinality(Below(items, Rel, rows[i])) \in Nat
        BY <1>1, FS_Subset, FS_CardinalityType DEF Below
    <2> QED BY <1>4, <2>2, <2>3
<1>7. rows \in [1 .. N -> items]
    BY <1>5, <1>6
<1>8. /\ rows \in Seq(items) /\ Len(rows) = N
      /\ \A i, j \in 1 .. Len(rows) : i < j => <<rows[i], rows[j]>> \in Rel
      /\ \A u \in items : \E i \in 1 .. Len(rows) : rows[i] = u
    <2>1. rows \in [1 .. Cardinality(items) -> items]
        BY <1>7 DEF N
    <2>2. \A i \in 1 .. Cardinality(items) : Cardinality(Below(items, Rel, rows[i])) = i - 1
        BY <1>6 DEF N
    <2>3. N = Cardinality(items)
        BY DEF N
    <2>4. IsRanked(rows, items, Rel)
        BY <2>1, <2>2 DEF IsRanked
    <2>5. AreInOrder(rows, items, Rel)
        BY <1>1, <1>2, <2>4, RankedIs
    <2> QED BY <2>3, <2>5 DEF AreInOrder
<1>9. ASSUME NEW i \in 1 .. N, NEW j \in 1 .. N, i < j PROVE Precedes(PendingOf(items, now), rows[i], rows[j])
    <2>1. <<rows[i], rows[j]>> \in Rel
        BY <1>8, <1>9
    <2>2. E!Before(rows[i], rows[j], now)
        BY <2>1 DEF Rel, Ordered
    <2> QED BY <1>6, <2>2, BeforeIs
<1> QED BY <1>3, <1>8, <1>9 DEF N, rows

LEMMA SameDay ==
    ASSUME NEW x \in Int, NEW y \in Int, NEW z \in Int, NEW d \in Nat \ {0}, x <= y, y <= z, x \div d = z \div d
    PROVE  y \div d = x \div d
<1> DEFINE p == x \div d
           q == y \div d
           r == z \div d
<1>1. p \in Int /\ q \in Int /\ r \in Int
    OBVIOUS
<1>2. d * p <= x /\ x < d * p + d /\ d * q <= y /\ y < d * q + d /\ d * r <= z /\ z < d * r + d
    OBVIOUS
<1>3. p = r
    OBVIOUS
<1> HIDE DEF p, q, r
<1>4. ASSUME q > p PROVE FALSE
    <2>1. q >= p + 1
        BY <1>1, <1>4
    <2>2. d * q >= d * p + d
        BY <1>1, <2>1
    <2> QED BY <1>1, <1>2, <1>3, <2>2
<1>5. ASSUME q < p PROVE FALSE
    <2>1. q + 1 <= p
        BY <1>1, <1>5
    <2>2. d * q + d <= d * p
        BY <1>1, <2>1
    <2> QED BY <1>1, <1>2, <1>3, <2>2
<1>6. q = p
    BY <1>1, <1>4, <1>5
<1> QED BY <1>6 DEF p, q

LEMMA KnownBy ==
    ASSUME NEW u, E!IsEvent(u), NEW now \in Int
    PROVE  /\ E!Pending(u, now) => E!IsDated(u)
           /\ E!IsDated(u) => u.at \in Int /\ E!At(u) = u.at /\ E!At(u) > 0 /\ E!Separator(u, now).day = "day"
           /\ ~E!IsDated(u) => E!At(u) = 0 /\ E!Separator(u, now).of = 0
           /\ ~E!IsDated(u) /\ E!UndatedRank(u) = 0 => E!Separator(u, now).day = "height"
           /\ ~E!IsDated(u) /\ E!UndatedRank(u) = 1 => E!Separator(u, now).day = "past"
           /\ ~E!IsDated(u) /\ E!UndatedRank(u) = 2 => E!Separator(u, now).day = "unannounced"
           /\ E!UndatedRank(u) \in 0 .. 2
<1>1. E!IsDated(u) => u.at \in Int /\ u.at > 0
    BY DEF E!IsDated, E!IsEvent
<1>2. E!Pending(u, now) => E!IsDated(u)
    BY DEF E!Pending
<1>3. E!IsDated(u) => E!At(u) = u.at /\ E!Separator(u, now).day = "day"
    BY DEF E!At, E!Separator, E!IsUndatedPast, E!ActivationBlock
<1>4. ~E!IsDated(u) => E!At(u) = 0 /\ E!Separator(u, now).of = 0
    BY DEF E!At, E!Separator
<1>5. ~E!IsDated(u) =>
          /\ E!UndatedRank(u) = 0 => E!Separator(u, now).day = "height"
          /\ E!UndatedRank(u) = 1 => E!Separator(u, now).day = "past"
          /\ E!UndatedRank(u) = 2 => E!Separator(u, now).day = "unannounced"
    BY DEF E!UndatedRank, E!Separator
<1>6. E!UndatedRank(u) \in 0 .. 2
    BY DEF E!UndatedRank
<1> QED BY <1>1, <1>2, <1>3, <1>4, <1>5, <1>6

\* What stands between two rows of a day is of that day.
LEMMA DayIsOneRun ==
    ASSUME NEW items, E!IsList(items), NEW now \in Int, NEW a \in items, NEW b \in items, NEW c \in items,
           Precedes(PendingOf(items, now), a, b), Precedes(PendingOf(items, now), b, c),
           E!Separator(a, now) = E!Separator(c, now)
    PROVE  E!Separator(b, now) = E!Separator(a, now)
<1> DEFINE P == PendingOf(items, now)
           day(u) == E!Separator(u, now).day
           of(u) == E!Separator(u, now).of
           Dated == {u \in items : E!IsDated(u)}
           at(u) == E!At(u)
           rank(u) == E!UndatedRank(u)
<1>1. (\A u \in items : E!IsEvent(u)) /\ P \subseteq Dated
    BY KnownBy DEF E!IsList, PendingOf
<1>2. \A u \in items : u \in P <=> E!Pending(u, now)
    BY DEF PendingOf
<1>3. \A u \in items : u \in P => u \in Dated
    BY <1>1
<1>4. \A u \in items :
          /\ u \in Dated => at(u) \in Int /\ at(u) > 0 /\ day(u) = "day"
          /\ u \notin Dated => at(u) = 0 /\ of(u) = 0
          /\ u \notin Dated /\ rank(u) = 0 => day(u) = "height"
          /\ u \notin Dated /\ rank(u) = 1 => day(u) = "past"
          /\ u \notin Dated /\ rank(u) = 2 => day(u) = "unannounced"
          /\ rank(u) \in 0 .. 2
    <2> SUFFICES ASSUME NEW u \in items
                 PROVE  /\ u \in Dated => at(u) \in Int /\ at(u) > 0 /\ day(u) = "day"
                        /\ u \notin Dated => at(u) = 0 /\ of(u) = 0
                        /\ u \notin Dated /\ rank(u) = 0 => day(u) = "height"
                        /\ u \notin Dated /\ rank(u) = 1 => day(u) = "past"
                        /\ u \notin Dated /\ rank(u) = 2 => day(u) = "unannounced"
                        /\ rank(u) \in 0 .. 2
        OBVIOUS
    <2>1. E!IsEvent(u)
        BY <1>1
    <2> QED BY <2>1, KnownBy
<1>5. day(a) = day(c) /\ of(a) = of(c) /\ (a \in P <=> c \in P)
    <2>1. E!Separator(a, now).scheduled = E!Separator(c, now).scheduled
        OBVIOUS
    <2>2. E!Pending(a, now) <=> E!Pending(c, now)
        BY <2>1 DEF E!Separator, E!Pending
    <2> QED BY <1>2, <2>2
<1>6. \A u \in items : u \in Dated => of(u) = at(u) \div DayLength
    BY <1>1, KnownBy DEF E!Separator
<1>7. Precedes(P, a, b) /\ Precedes(P, b, c)
    OBVIOUS
<1> HIDE DEF P, Dated, day, of
<1>8. b \in P <=> a \in P
    BY <1>5, <1>7 DEF Precedes
<1>9. (b \in Dated <=> a \in Dated) /\ day(b) = day(a)
    <2> HIDE DEF at, rank
    <2>1. \/ a \in P /\ b \in P /\ c \in P
          \/ a \notin P /\ b \notin P /\ c \notin P /\ at(a) >= at(b) /\ at(b) >= at(c)
             /\ (at(a) = at(b) => rank(a) <= rank(b)) /\ (at(b) = at(c) => rank(b) <= rank(c))
        BY <1>4, <1>5, <1>7, <1>8 DEF Precedes, at, rank
    <2> QED BY <1>3, <1>4, <1>5, <2>1
<1>10. of(b) = of(a)
    <2>1. CASE b \notin Dated
        BY <1>4, <1>9, <2>1
    <2>2. CASE b \in Dated
        <3>1. a \in Dated /\ c \in Dated
            <4> HIDE DEF at, rank
            <4>1. a \in Dated /\ day(c) = "day"
                BY <1>4, <1>5, <1>9, <2>2
            <4>2. rank(c) = 0 \/ rank(c) = 1 \/ rank(c) = 2
                BY <1>4
            <4> QED BY <1>4, <4>1, <4>2
        <3>2. (at(a) <= at(b) /\ at(b) <= at(c)) \/ (at(c) <= at(b) /\ at(b) <= at(a))
            BY <1>4, <1>5, <1>7, <1>8 DEF Precedes
        <3>3. DayLength \in Nat \ {0}
            BY DashboardAssumption DEF E!TimelineViewAssumption
        <3>4. at(a) \in Int /\ at(b) \in Int /\ at(c) \in Int
            BY <1>4, <2>2, <3>1
        <3>5. at(a) \div DayLength = at(c) \div DayLength
            BY <1>5, <1>6, <3>1
        <3> HIDE DEF at
        <3>6. at(b) \div DayLength = at(a) \div DayLength
            BY <3>2, <3>3, <3>4, <3>5, SameDay
        <3> QED BY <1>6, <2>2, <3>1, <3>6
    <2> QED BY <2>1, <2>2
<1>11. E!Separator(b, now).scheduled = E!Separator(a, now).scheduled
    <2>1. E!Pending(b, now) <=> E!Pending(a, now)
        BY <1>2, <1>8
    <2> QED BY <2>1 DEF E!Separator, E!Pending
<1>12. \A u : E!Separator(u, now) = [day |-> day(u), of |-> of(u), scheduled |-> E!Separator(u, now).scheduled]
    BY DEF E!Separator, day, of
<1> QED BY <1>9, <1>10, <1>11, <1>12

\* No day comes up twice in the rows.
LEMMA RowsAreInRuns ==
    ASSUME NEW items, E!IsList(items), NEW now \in Int, NEW rows, rows = E!Sorted(items, now)
    PROVE  \A i, k \in 1 .. Len(rows) :
               i < k /\ E!Separator(rows[i], now) = E!Separator(rows[k], now) =>
                   \A j \in i .. k : E!Separator(rows[j], now) = E!Separator(rows[i], now)
<1> SUFFICES ASSUME NEW i \in 1 .. Len(rows), NEW k \in 1 .. Len(rows), i < k,
                    E!Separator(rows[i], now) = E!Separator(rows[k], now), NEW j \in i .. k
             PROVE  E!Separator(rows[j], now) = E!Separator(rows[i], now)
    OBVIOUS
<1>1. /\ rows \in Seq(items)
      /\ \A m, n \in 1 .. Len(rows) : m < n => Precedes(PendingOf(items, now), rows[m], rows[n])
    BY SortedIs
<1>2. j \in 1 .. Len(rows) /\ rows[i] \in items /\ rows[j] \in items /\ rows[k] \in items
    BY <1>1
<1>3. CASE j = i \/ j = k
    BY <1>3
<1>4. CASE i < j /\ j < k
    <2>1. Precedes(PendingOf(items, now), rows[i], rows[j]) /\ Precedes(PendingOf(items, now), rows[j], rows[k])
        BY <1>1, <1>2, <1>4
    <2> QED BY <1>2, <2>1, DayIsOneRun
<1> QED BY <1>3, <1>4

LEMMA ExtremesAre ==
    ASSUME NEW Set \in SUBSET Int, IsFiniteSet(Set), Set # {}
    PROVE  /\ E!Min(Set) \in Set /\ \A x \in Set : E!Min(Set) <= x
           /\ E!Max(Set) \in Set /\ \A x \in Set : E!Max(Set) >= x
<1>1. \E m \in Set : \A x \in Set : m <= x
    BY FiniteHasLeast
<1>2. \E m \in Set : \A x \in Set : m >= x
    BY FiniteHasGreatest
<1>3. E!Min(Set) \in Set /\ \A x \in Set : E!Min(Set) <= x
    BY <1>1 DEF E!Min
<1>4. E!Max(Set) \in Set /\ \A x \in Set : E!Max(Set) >= x
    BY <1>2 DEF E!Max
<1> QED BY <1>3, <1>4

LEMMA PartOfList ==
    ASSUME NEW items, E!IsList(items), NEW some \in SUBSET items
    PROVE  E!IsList(some) /\ IsFiniteSet(some) /\ Cardinality(some) \in Nat
<1>1. IsFiniteSet(items)
    BY SameSizes DEF E!IsList
<1>2. IsFiniteSet(some) /\ Cardinality(some) \in Nat
    BY <1>1, FS_Subset, FS_CardinalityType
<1> QED BY <1>2, SameSizes DEF E!IsList

LEMMA TimesAre ==
    ASSUME NEW items, E!IsList(items)
    PROVE  E!Times(items) \in SUBSET Int /\ IsFiniteSet(E!Times(items))
           /\ \A u \in items : E!IsDated(u) => u.at \in E!Times(items) /\ u.at \in Int
<1> DEFINE dated == {u \in items : E!IsDated(u)}
<1>1. IsFiniteSet(dated)
    BY PartOfList
<1>2. E!Times(items) = {u.at : u \in dated}
    BY DEF E!Times
<1>3. \A u \in items : E!IsDated(u) => u.at \in Int
    BY DEF E!IsDated, E!IsList, E!IsEvent
<1> HIDE DEF dated
<1>4. IsFiniteSet({u.at : u \in dated})
    <2> DEFINE f == [u \in dated |-> u.at]
    <2>1. f \in Surjection(dated, {u.at : u \in dated})
        BY DEF Surjection
    <2> HIDE DEF f
    <2> QED BY <1>1, <2>1, FS_Surjection
<1> QED BY <1>2, <1>3, <1>4 DEF dated

\* The axis begins before all that is pending.
LEMMA PendingIsOnAxis ==
    ASSUME NEW items, E!IsList(items), NEW now \in Int, NEW range \in Nat, NEW u \in items, E!Pending(u, now)
    PROVE  LET d == E!Domain(range, items, now) IN d[1] <= u.at /\ d[2] \in Int /\ u.at \in Int /\ E!IsDated(u)
<1> DEFINE times == E!Times(items)
           d == E!Domain(range, items, now)
<1>1. times \in SUBSET Int /\ IsFiniteSet(times)
    BY TimesAre
<1>2. E!IsDated(u) /\ u.at \in times /\ u.at \in Int
    BY TimesAre DEF E!Pending
<1>3. DayLength \in Nat \ {0}
    BY DashboardAssumption DEF E!TimelineViewAssumption
<1>4. u.at + DayLength > now
    BY <1>2, <1>3 DEF E!Pending
<1>5. CASE range = 0
    <2> DEFINE lo == E!Min(times \cup {now})
               hi == E!Max(times \cup {now})
               pad == E!Max({(hi - lo) \div 50, 1})
    <2>1. IsFiniteSet(times \cup {now}) /\ times \cup {now} \in SUBSET Int
        BY <1>1, FS_AddElement
    <2>2. lo \in Int /\ hi \in Int /\ lo <= u.at
        BY <1>2, <2>1, ExtremesAre
    <2>3. d = <<lo - pad, hi + pad>>
        BY <1>2, <1>5 DEF E!Domain, E!Padded
    <2>4. pad \in Int /\ pad >= 1
        <3> DEFINE x == (hi - lo) \div 50
        <3>1. x \in Int
            BY <2>2
        <3> HIDE DEF x
        <3>2. {x, 1} \in SUBSET Int /\ IsFiniteSet({x, 1})
            <4>1. IsFiniteSet({1})
                BY FS_Singleton
            <4>2. IsFiniteSet({1} \cup {x}) /\ {1} \cup {x} = {x, 1}
                BY <4>1, FS_AddElement
            <4> QED BY <3>1, <4>2
        <3>3. E!Max({x, 1}) \in {x, 1} /\ E!Max({x, 1}) >= 1
            BY <3>2, ExtremesAre
        <3> QED BY <3>1, <3>3 DEF x
    <2> HIDE DEF lo, hi, pad
    <2> QED BY <1>2, <2>2, <2>3, <2>4
<1>6. CASE range # 0
    <2> DEFINE span == range * DayLength
               ahead == {now} \cup {t \in times : t > now}
               last == E!Max(ahead)
               x == last + span \div 20
    <2>1. span \in Int /\ span >= DayLength /\ now - span \in Int
        BY <1>3, <1>6
    <2>2. ahead \in SUBSET Int /\ IsFiniteSet(ahead) /\ ahead # {}
        <3>1. {t \in times : t > now} \in SUBSET times
            OBVIOUS
        <3>2. IsFiniteSet({t \in times : t > now})
            BY <1>1, <3>1, FS_Subset
        <3>3. IsFiniteSet({t \in times : t > now} \cup {now})
            BY <3>2, FS_AddElement
        <3> QED BY <1>1, <3>3
    <2>3. last \in Int
        BY <2>2, ExtremesAre
    <2>4. d = <<now - span, E!Min({x, now + span})>>
        BY <1>6 DEF E!Domain
    <2> HIDE DEF last, span, ahead
    <2>5. x \in Int /\ now + span \in Int
        BY <2>1, <2>3
    <2> HIDE DEF x
    <2>6. E!Min({x, now + span}) \in Int
        <3> DEFINE y == now + span
        <3>1. y \in Int
            BY <2>5
        <3> HIDE DEF y
        <3>2. IsFiniteSet({x} \cup {y}) /\ {x} \cup {y} = {x, y}
            BY FS_Singleton, FS_AddElement
        <3>3. {x, y} \in SUBSET Int /\ IsFiniteSet({x, y}) /\ {x, y} # {}
            BY <2>5, <3>1, <3>2
        <3> QED BY <3>3, ExtremesAre DEF y
    <2> QED BY <1>2, <1>3, <1>4, <2>1, <2>4, <2>6
<1> QED BY <1>5, <1>6

LEMMA UpcomingIs ==
    ASSUME NEW u, NEW now
    PROVE  /\ E!InStream(u, "upcoming", now) <=> E!Pending(u, now)
           /\ E!HardforkStreamOf(u, now) = "upcoming" <=> E!Pending(u, now)
           /\ E!InStream(u, "all", now)
<1>1. E!Pending(u, now) => u.phase # "cancelled" /\ E!IsDated(u)
    BY DEF E!Pending
<1>2. E!StreamOf(u, now) = "upcoming" <=> E!Pending(u, now)
    BY <1>1 DEF E!StreamOf
<1>3. E!HardforkStreamOf(u, now) = "upcoming" <=> E!Pending(u, now)
    BY <1>1 DEF E!HardforkStreamOf
<1> QED BY <1>2, <1>3 DEF E!InStream

LEMMA DisjointSizes ==
    ASSUME NEW A1, NEW A2, IsFiniteSet(A1), IsFiniteSet(A2), A1 \cap A2 = {}
    PROVE  IsFiniteSet(A1 \cup A2) /\ Cardinality(A1 \cup A2) = Cardinality(A1) + Cardinality(A2)
<1>1. IsFiniteSet(A1 \cup A2) /\ Cardinality(A1 \cup A2) = Cardinality(A1) + Cardinality(A2) - Cardinality(A1 \cap A2)
    BY FS_Union
<1>2. Cardinality(A1 \cap A2) = 0 /\ Cardinality(A1) \in Nat /\ Cardinality(A2) \in Nat
    BY FS_EmptySet, FS_CardinalityType
<1> QED BY <1>1, <1>2

\* E!ToComeIsListed of a view.
ToCome(v) ==
    LET s == v.screen IN
    /\ s.tabs["upcoming"] = Cardinality({u \in E!Searched(v) : E!Pending(u, s.at)})
    /\ (v.type = "hardfork" \/ v.stream = "all") =>
           Len(s.rows) = Cardinality(s.plotted) + s.omitted.undated + s.omitted.later + s.omitted.older

ScreenIs(v, s, now) ==
    /\ s.kind = "list" /\ s.at = now /\ s.next = E!NextUp(E!Searched(v), now)
    /\ \E items : E!IsList(items) /\ s.rows = E!Sorted(items, now)
    /\ s.tabs["upcoming"] = Cardinality({u \in E!Searched(v) : E!Pending(u, now)})
    /\ (v.type = "hardfork" \/ v.stream = "all") =>
           Len(s.rows) = Cardinality(s.plotted) + s.omitted.undated + s.omitted.later + s.omitted.older

LEMMA SearchedIs == ASSUME NEW v, E!IsList(v.upgrades) PROVE E!IsList(E!Searched(v)) /\ IsFiniteSet(E!Searched(v))
<1>1. E!Searched(v) \in SUBSET v.upgrades
    BY DEF E!Searched, E!Typed
<1> QED BY <1>1, PartOfList

LEMMA RangeScreenIs ==
    ASSUME NEW v, E!IsList(v.upgrades), v.range \in Nat, v.type # "hardfork", NEW now \in Int
    PROVE  ScreenIs(v, E!RangeScreen(v, now), now)
<1> DEFINE S == E!Searched(v)
           d == E!Domain(v.range, S, now)
           inRange == {u \in S : E!InRange(u, d)}
           later == {u \in S : E!Later(u, d, now)}
           undated == {u \in S : ~E!IsDated(u)}
           tabbable == inRange \cup later \cup undated
           listed == {u \in tabbable : E!InStream(u, v.stream, now)}
           s == E!RangeScreen(v, now)
<1>1. E!IsList(S) /\ IsFiniteSet(S)
    BY SearchedIs
<1>2. s = [kind |-> "list", at |-> now, plotted |-> inRange, tabs |-> E!Counts(tabbable, now),
           omitted |-> [undated |-> E!Cardinality(undated), later |-> E!Cardinality(later), older |-> 0],
           rows |-> E!Sorted(listed, now), next |-> E!NextUp(S, now)]
    BY DEF E!RangeScreen
<1>3. /\ s.kind = "list" /\ s.at = now /\ s.next = E!NextUp(S, now) /\ s.plotted = inRange
      /\ s.tabs = E!Counts(tabbable, now) /\ s.rows = E!Sorted(listed, now)
      /\ s.omitted.undated = E!Cardinality(undated) /\ s.omitted.later = E!Cardinality(later) /\ s.omitted.older = 0
    BY <1>2
<1>4. inRange \in SUBSET S /\ later \in SUBSET S /\ undated \in SUBSET S /\ tabbable \in SUBSET S /\ listed \in SUBSET S
    OBVIOUS
<1>5. inRange \cap later = {} /\ (inRange \cup later) \cap undated = {}
    <2>1. \A u \in S : E!InRange(u, d) /\ E!Later(u, d, now) => FALSE
        <3> SUFFICES ASSUME NEW u \in S, E!InRange(u, d), E!Later(u, d, now) PROVE FALSE
            OBVIOUS
        <3>1. E!Pending(u, now)
            BY DEF E!Later
        <3>2. d[2] \in Int /\ u.at \in Int
            BY <1>1, <3>1, PendingIsOnAxis
        <3> QED BY <3>2 DEF E!InRange, E!Later
    <2>2. \A u \in S : E!InRange(u, d) \/ E!Later(u, d, now) => E!IsDated(u)
        BY DEF E!InRange, E!Later
    <2> HIDE DEF d, S
    <2> QED BY <2>1, <2>2
<1>6. ASSUME NEW u \in S, E!Pending(u, now) PROVE u \in tabbable
    <2>1. d[1] <= u.at /\ d[2] \in Int /\ u.at \in Int /\ E!IsDated(u)
        BY <1>1, <1>6, PendingIsOnAxis
    <2>2. u.at <= d[2] \/ u.at > d[2]
        BY <2>1
    <2>3. E!InRange(u, d) \/ E!Later(u, d, now)
        BY <1>6, <2>1, <2>2 DEF E!InRange, E!Later
    <2> QED BY <2>3
<1> HIDE DEF S, d, inRange, later, undated
<1>7. s.tabs["upcoming"] = Cardinality({u \in S : E!Pending(u, now)})
    <2>1. E!Counts(tabbable, now)["upcoming"] = E!Cardinality({u \in tabbable : E!InStream(u, "upcoming", now)})
        BY DashboardAssumption DEF E!TimelineViewAssumption, E!Counts
    <2>2. {u \in tabbable : E!InStream(u, "upcoming", now)} = {u \in S : E!Pending(u, now)}
        BY <1>4, <1>6, UpcomingIs
    <2> QED BY <1>3, <2>1, <2>2, SameSizes
<1>8. ASSUME v.stream = "all"
      PROVE  Len(s.rows) = Cardinality(s.plotted) + s.omitted.undated + s.omitted.later + s.omitted.older
    <2>1. listed = tabbable
        BY <1>8, UpcomingIs
    <2>2. IsFiniteSet(inRange) /\ IsFiniteSet(later) /\ IsFiniteSet(undated)
        BY <1>1, <1>4, FS_Subset
    <2>3. IsFiniteSet(inRange \cup later) /\ Cardinality(inRange \cup later) = Cardinality(inRange) + Cardinality(later)
        BY <1>5, <2>2, DisjointSizes
    <2>4. Cardinality(tabbable) = Cardinality(inRange \cup later) + Cardinality(undated)
        BY <1>5, <2>2, <2>3, DisjointSizes
    <2>5. E!IsList(tabbable)
        BY <1>1, <1>4, PartOfList
    <2>6. Len(s.rows) = Cardinality(tabbable)
        <3> HIDE DEF tabbable, listed, s
        <3> QED BY <1>3, <2>1, <2>5, SortedIs
    <2>7. E!Cardinality(undated) = Cardinality(undated) /\ E!Cardinality(later) = Cardinality(later)
        BY SameSizes
    <2>8. Cardinality(inRange) \in Nat /\ Cardinality(later) \in Nat /\ Cardinality(undated) \in Nat
        BY <2>2, FS_CardinalityType
    <2> HIDE DEF tabbable, listed, s
    <2> QED BY <1>3, <2>3, <2>4, <2>6, <2>7, <2>8
<1>9. E!IsList(listed)
    BY <1>1, <1>4, PartOfList
<1> QED BY <1>3, <1>7, <1>8, <1>9 DEF ScreenIs, S

LEMMA HardforkScreenIs ==
    ASSUME NEW v, E!IsList(v.upgrades), NEW now \in Int
    PROVE  ScreenIs(v, E!HardforkScreen(v, now), now)
<1> DEFINE S == E!Searched(v)
           items == {u \in S : E!HardforkStreamOf(u, now) = v.hf}
           dated == {u \in items : E!IsDated(u)}
           plotted == {u \in dated : v.hf = "past" => u.at >= now - ChartHistory}
           s == E!HardforkScreen(v, now)
<1>1. E!IsList(S) /\ IsFiniteSet(S)
    BY SearchedIs
<1>2. s = [kind |-> "list", at |-> now, plotted |-> plotted, tabs |-> E!HardforkCounts(S, now),
           omitted |-> [undated |-> E!Cardinality(items \ dated), later |-> 0, older |-> E!Cardinality(dated \ plotted)],
           rows |-> E!Sorted(items, now), next |-> E!NextUp(S, now)]
    BY DEF E!HardforkScreen
<1>3. /\ s.kind = "list" /\ s.at = now /\ s.next = E!NextUp(S, now) /\ s.plotted = plotted
      /\ s.tabs = E!HardforkCounts(S, now) /\ s.rows = E!Sorted(items, now)
      /\ s.omitted.undated = E!Cardinality(items \ dated) /\ s.omitted.later = 0
      /\ s.omitted.older = E!Cardinality(dated \ plotted)
    BY <1>2
<1>4. items \in SUBSET S /\ dated \in SUBSET items /\ plotted \in SUBSET dated
    OBVIOUS
<1> HIDE DEF plotted, dated, items, S
<1>5. s.tabs["upcoming"] = Cardinality({u \in S : E!Pending(u, now)})
    <2>1. E!HardforkCounts(S, now)["upcoming"] = E!Cardinality({u \in S : E!HardforkStreamOf(u, now) = "upcoming"})
        BY DEF E!HardforkCounts, E!HardforkStreams
    <2>2. {u \in S : E!HardforkStreamOf(u, now) = "upcoming"} = {u \in S : E!Pending(u, now)}
        BY UpcomingIs
    <2> QED BY <1>3, <2>1, <2>2, SameSizes
<1>6. E!IsList(items) /\ IsFiniteSet(items)
    BY <1>1, <1>4, PartOfList
<1>7. Len(s.rows) = Cardinality(s.plotted) + s.omitted.undated + s.omitted.later + s.omitted.older
    <2>1. IsFiniteSet(plotted) /\ IsFiniteSet(dated \ plotted) /\ IsFiniteSet(items \ dated) /\ IsFiniteSet(dated)
        BY <1>4, <1>6, FS_Subset
    <2>2. Cardinality(plotted \cup (dated \ plotted)) = Cardinality(plotted) + Cardinality(dated \ plotted)
        <3>1. plotted \cap (dated \ plotted) = {}
            OBVIOUS
        <3> QED BY <2>1, <3>1, DisjointSizes
    <2>3. Cardinality(dated \cup (items \ dated)) = Cardinality(dated) + Cardinality(items \ dated)
        <3>1. dated \cap (items \ dated) = {}
            OBVIOUS
        <3> QED BY <2>1, <3>1, DisjointSizes
    <2>4. plotted \cup (dated \ plotted) = dated /\ dated \cup (items \ dated) = items
        BY <1>4
    <2>5. Len(s.rows) = Cardinality(items)
        BY <1>3, <1>6, SortedIs
    <2>6. /\ E!Cardinality(items \ dated) = Cardinality(items \ dated)
          /\ E!Cardinality(dated \ plotted) = Cardinality(dated \ plotted)
        BY SameSizes
    <2>7. Cardinality(plotted) \in Nat /\ Cardinality(dated \ plotted) \in Nat /\ Cardinality(items \ dated) \in Nat
        BY <2>1, FS_CardinalityType
    <2>8. Cardinality(items) = Cardinality(plotted) + Cardinality(dated \ plotted) + Cardinality(items \ dated)
        BY <2>2, <2>3, <2>4
    <2> HIDE DEF s
    <2> QED BY <1>3, <2>5, <2>6, <2>7, <2>8
<1> QED BY <1>3, <1>5, <1>6, <1>7 DEF ScreenIs, S

ViewFields ==
    {"upgrades", "load", "error", "on", "search", "type", "stream", "hf", "range", "ticker", "looked", "screen"}

IsView(v) == DOMAIN v = ViewFields /\ v = [f \in ViewFields |-> v[f]]

\* What a rendering is given.
Loaded(v) == E!IsList(v.upgrades) /\ v.error \in {"no", "old-api", "down"} /\ v.range \in Nat

RowsOK(v) ==
    v.screen.kind = "list" =>
        v.screen.at \in Int /\ \E items : E!IsList(items) /\ v.screen.rows = E!Sorted(items, v.screen.at)

\* What has an hour stands as it did when the page last looked.
Crossed(v) == \A u \in E!Searched(v) : ~u.day => (E!Pending(u, v.screen.at) <=> E!Pending(u, v.looked))

DrawnOK(v, now) ==
    v.on /\ v.screen.kind = "list" =>
        /\ v.screen.at <= now /\ v.screen.next = E!NextUp(E!Searched(v), v.screen.at)
        /\ ToCome(v) /\ Crossed(v)

ViewOK(v, now) == IsView(v) /\ Loaded(v) /\ now \in Int /\ RowsOK(v) /\ DrawnOK(v, now)

LEMMA RenderedOK ==
    ASSUME NEW v, NEW now \in Int, IsView(v), Loaded(v)
    PROVE  ViewOK(E!Rendered(v, now), now)
<1> DEFINE r == E!Rendered(v, now)
           drawn == IF v.type = "hardfork" THEN E!HardforkScreen(v, now) ELSE E!RangeScreen(v, now)
<1>1. CASE v.error # "no"
    <2>1. r = [v EXCEPT !.screen = [kind |-> v.error]]
        BY <1>1 DEF E!Rendered
    <2>2. IsView(r) /\ Loaded(r) /\ r.screen.kind # "list"
        BY <1>1, <2>1 DEF IsView, Loaded, ViewFields
    <2> QED BY <2>2 DEF ViewOK, RowsOK, DrawnOK
<1>2. CASE v.error = "no" /\ v.load # "yes"
    <2>1. r = [v EXCEPT !.screen = [kind |-> "loading"]]
        BY <1>2 DEF E!Rendered
    <2>2. IsView(r) /\ Loaded(r) /\ r.screen.kind # "list"
        BY <1>2, <2>1 DEF IsView, Loaded, ViewFields
    <2> QED BY <2>2 DEF ViewOK, RowsOK, DrawnOK
<1>3. CASE v.error = "no" /\ v.load = "yes"
    <2> DEFINE ticks == \E u \in E!Searched(v) : E!Pending(u, now)
    <2>1. r = [v EXCEPT !.screen = drawn, !.looked = now, !.ticker = ticks]
        BY <1>3 DEF E!Rendered
    <2>2. ScreenIs(v, drawn, now)
        BY RangeScreenIs, HardforkScreenIs DEF Loaded
    <2> HIDE DEF drawn, ticks
    <2>3. /\ IsView(r) /\ r.screen = drawn /\ r.looked = now /\ r.upgrades = v.upgrades /\ r.error = v.error
          /\ r.range = v.range /\ r.type = v.type /\ r.stream = v.stream /\ r.search = v.search
        BY <2>1 DEF IsView, ViewFields
    <2> HIDE DEF r
    <2>4. E!Searched(r) = E!Searched(v)
        BY <2>3 DEF E!Searched, E!Typed
    <2>5. RowsOK(r)
        BY <2>2, <2>3 DEF RowsOK, ScreenIs
    <2>6. ToCome(r) /\ Crossed(r)
        BY <2>2, <2>3, <2>4 DEF ToCome, Crossed, ScreenIs
    <2>7. DrawnOK(r, now)
        BY <2>2, <2>3, <2>4, <2>6 DEF DrawnOK, ScreenIs
    <2> QED BY <2>3, <2>5, <2>7 DEF ViewOK, Loaded, r
<1> QED BY <1>1, <1>2, <1>3

\* While no countdown on the screen has ended, what has an hour stands as it stood.
LEMMA NothingHasCrossed ==
    ASSUME NEW v, NEW now \in Int, E!IsList(v.upgrades), v.screen.kind = "list", v.screen.at \in Int, v.screen.at <= now,
           v.screen.next = E!NextUp(E!Searched(v), v.screen.at),
           ~ \E at \in E!Countdowns(v.screen) : at <= now,
           NEW u \in E!Searched(v), ~u.day
    PROVE  E!Pending(u, v.screen.at) <=> E!Pending(u, now)
<1> DEFINE S == E!Searched(v)
           at == v.screen.at
           ahead == {w \in S : E!IsDated(w) /\ w.phase # "cancelled" /\ E!At(w) > at}
<1>1. E!IsList(S) /\ IsFiniteSet(S)
    BY SearchedIs
<1>2. \A t : E!Pending(u, t) <=> u.phase # "cancelled" /\ E!IsDated(u) /\ u.at > t
    BY DEF E!Pending
<1>3. E!IsDated(u) => u.at \in Int
    BY <1>1, TimesAre
<1>4. ASSUME E!Pending(u, now) PROVE E!Pending(u, at)
    <2>1. u.at > now /\ u.at \in Int
        BY <1>2, <1>3, <1>4
    <2>2. u.at > at
        BY <2>1
    <2> QED BY <1>2, <1>4, <2>2
<1>5. ASSUME E!Pending(u, at) PROVE E!Pending(u, now)
    <2>1. u \in ahead
        BY <1>2, <1>5 DEF E!At
    <2>2. E!IsList(ahead)
        BY <1>1, PartOfList
    <2>3. v.screen.next = E!Min(E!Times(ahead))
        BY <2>1 DEF E!NextUp
    <2> HIDE DEF ahead
    <2>4. u.at \in E!Times(ahead) /\ E!Times(ahead) \in SUBSET Int /\ IsFiniteSet(E!Times(ahead))
        BY <1>2, <1>5, <2>1, <2>2, TimesAre
    <2>5. v.screen.next \in Int /\ v.screen.next <= u.at
        BY <2>3, <2>4, ExtremesAre
    <2>6. None \notin Int
        BY DashboardAssumption DEF E!TimelineViewAssumption
    <2>7. v.screen.next \in E!Countdowns(v.screen)
        BY <2>5, <2>6 DEF E!Countdowns
    <2>8. ~(v.screen.next <= now)
        BY <2>7
    <2>9. u.at > now
        BY <1>3, <2>4, <2>5, <2>8
    <2> QED BY <1>2, <1>5, <2>9
<1> QED BY <1>4, <1>5

LEMMA AnsweredListsAre ==
    /\ E!IsList({}) /\ E!IsList(TimelineEvents) /\ E!IsList({E!UpgradeAsEvent(u) : u \in WindowEvents})
    /\ RangeDays \subseteq Nat /\ FirstMoment \in Nat /\ MomentStep \in Nat
<1> DEFINE made == {E!UpgradeAsEvent(u) : u \in WindowEvents}
<1>1. E!IsList(TimelineEvents) /\ E!IsList(WindowEvents) /\ RangeDays \subseteq Nat /\ FirstMoment \in Nat /\ MomentStep \in Nat
    BY DashboardAssumption DEF E!TimelineViewAssumption
<1>2. E!IsList({})
    BY FS_EmptySet, SameSizes DEF E!IsList
<1>3. ASSUME NEW u \in WindowEvents PROVE E!IsEvent(E!UpgradeAsEvent(u)) /\ E!UpgradeAsEvent(u).id = u.id
    <2>1. E!IsEvent(u)
        BY <1>1 DEF E!IsList
    <2> DEFINE type == IF u.type = "hardfork" THEN "software_update" ELSE u.type
    <2>2. E!UpgradeAsEvent(u) = [u EXCEPT !.type = type, !.phase = "none", !.rollouts = {u.status}]
        BY <2>1 DEF E!UpgradeAsEvent, E!IsEvent
    <2> HIDE DEF type
    <2> QED BY <2>1, <2>2 DEF E!IsEvent
<1>4. IsFiniteSet(made)
    <2> DEFINE f == [u \in WindowEvents |-> E!UpgradeAsEvent(u)]
    <2>1. f \in Surjection(WindowEvents, made)
        BY DEF Surjection
    <2>2. IsFiniteSet(WindowEvents)
        BY <1>1, SameSizes DEF E!IsList
    <2> HIDE DEF f, made
    <2> QED BY <2>1, <2>2, FS_Surjection
<1>5. \A m, n \in made : m.id = n.id => m = n
    <2> SUFFICES ASSUME NEW u \in WindowEvents, NEW w \in WindowEvents, E!UpgradeAsEvent(u).id = E!UpgradeAsEvent(w).id
                 PROVE  u = w
        OBVIOUS
    <2> QED BY <1>1, <1>3 DEF E!IsList
<1>6. E!IsList(made)
    BY <1>3, <1>4, <1>5, SameSizes DEF E!IsList
<1> QED BY <1>1, <1>2, <1>6

LEMMA TimelineBegins == E!Init => ViewOK(view, moment)
<1> SUFFICES ASSUME E!Init PROVE ViewOK(view, moment)
    OBVIOUS
<1>1. view = E!Blank /\ moment = FirstMoment
    BY DEF E!Init
<1>2. IsView(view) /\ view.screen.kind # "list" /\ view.upgrades = {} /\ view.error = "no" /\ view.range = 7
    BY <1>1 DEF E!Blank, IsView, ViewFields
<1>3. E!IsList({}) /\ FirstMoment \in Nat
    BY AnsweredListsAre
<1> QED BY <1>1, <1>2, <1>3 DEF ViewOK, Loaded, RowsOK, DrawnOK

\* A field that is neither drawn nor part of what was loaded.
LEMMA TimelineStep == ViewOK(view, moment) /\ [E!Next]_timeline => ViewOK(view', moment')
<1> SUFFICES ASSUME ViewOK(view, moment), [E!Next]_timeline PROVE ViewOK(view', moment')
    OBVIOUS
<1>0. IsView(view) /\ Loaded(view) /\ moment \in Int /\ RowsOK(view) /\ DrawnOK(view, moment)
    BY DEF ViewOK
<1>1. ASSUME NEW v, view' = E!Rendered(v, moment), IsView(v), Loaded(v), moment' = moment PROVE ViewOK(view', moment')
    BY <1>0, <1>1, RenderedOK
<1>2. ASSUME E!SwitchToTimeline PROVE ViewOK(view', moment')
    <2> DEFINE v == [view EXCEPT !.on = TRUE]
               w == IF v.load = "no" THEN [v EXCEPT !.load = "loading"] ELSE v
    <2>1. view' = E!Rendered(w, moment) /\ moment' = moment
        BY <1>2 DEF E!SwitchToTimeline
    <2>2. IsView(w) /\ Loaded(w)
        BY <1>0 DEF IsView, Loaded, ViewFields
    <2> HIDE DEF w
    <2> QED BY <1>1, <2>1, <2>2
<1>3. ASSUME E!SwitchAway PROVE ViewOK(view', moment')
    <2>1. view' = [view EXCEPT !.on = FALSE, !.ticker = FALSE] /\ moment' = moment
        BY <1>3 DEF E!SwitchAway
    <2>2. IsView(view') /\ Loaded(view') /\ ~view'.on /\ view'.screen = view.screen
        BY <1>0, <2>1 DEF IsView, Loaded, ViewFields
    <2> QED BY <1>0, <2>1, <2>2 DEF ViewOK, RowsOK, DrawnOK
<1>4. ASSUME E!LoadTimeline PROVE ViewOK(view', moment')
    <2>1. PICK events : E!IsList(events) /\ E!LoadEnds(events)
        BY <1>4, AnsweredListsAre DEF E!LoadTimeline
    <2> DEFINE v == [view EXCEPT !.load = "yes", !.error = "no", !.upgrades = events]
    <2>2. view' = E!Rendered(v, moment) /\ moment' = moment
        BY <2>1 DEF E!LoadEnds
    <2>3. IsView(v) /\ Loaded(v)
        BY <1>0, <2>1 DEF IsView, Loaded, ViewFields
    <2> HIDE DEF v
    <2> QED BY <1>1, <2>2, <2>3
<1>5. ASSUME NEW how \in {"old-api", "down"}, E!LoadFails(how) PROVE ViewOK(view', moment')
    <2> DEFINE v == [view EXCEPT !.load = "no", !.error = how]
    <2>1. view' = E!Rendered(v, moment) /\ moment' = moment
        BY <1>5 DEF E!LoadFails
    <2>2. IsView(v) /\ Loaded(v)
        BY <1>0 DEF IsView, Loaded, ViewFields
    <2> HIDE DEF v
    <2> QED BY <1>1, <2>1, <2>2
<1>6. ASSUME NEW type, E!ClicksType(type) PROVE ViewOK(view', moment')
    <2> DEFINE v == [view EXCEPT !.type = type]
    <2>1. view' = E!Rendered(v, moment) /\ moment' = moment
        BY <1>6 DEF E!ClicksType, E!Click
    <2>2. IsView(v) /\ Loaded(v)
        BY <1>0 DEF IsView, Loaded, ViewFields
    <2> HIDE DEF v
    <2> QED BY <1>1, <2>1, <2>2
<1>7. ASSUME NEW days \in RangeDays, E!ClicksRange(days) PROVE ViewOK(view', moment')
    <2> DEFINE v == [view EXCEPT !.range = days]
    <2>1. view' = E!Rendered(v, moment) /\ moment' = moment /\ days \in Nat
        BY <1>7, AnsweredListsAre DEF E!ClicksRange, E!Click
    <2>2. IsView(v) /\ Loaded(v)
        BY <1>0, <2>1 DEF IsView, Loaded, ViewFields
    <2> HIDE DEF v
    <2> QED BY <1>1, <2>1, <2>2
<1>8. ASSUME NEW stream, E!ClicksTab(stream) PROVE ViewOK(view', moment')
    <2> DEFINE v == IF view.type = "hardfork" THEN [view EXCEPT !.hf = stream] ELSE [view EXCEPT !.stream = stream]
    <2>1. view' = E!Rendered(v, moment) /\ moment' = moment
        BY <1>8 DEF E!ClicksTab, E!Click
    <2>2. IsView(v) /\ Loaded(v)
        BY <1>0 DEF IsView, Loaded, ViewFields
    <2> HIDE DEF v
    <2> QED BY <1>1, <2>1, <2>2
<1>9. ASSUME NEW q, E!Searches(q) PROVE ViewOK(view', moment')
    <2> DEFINE v == [view EXCEPT !.search = q]
    <2>1. view' = (IF v.on THEN E!Rendered(v, moment) ELSE v) /\ moment' = moment
        BY <1>9 DEF E!Searches
    <2>2. IsView(v) /\ Loaded(v) /\ v.screen = view.screen
        BY <1>0 DEF IsView, Loaded, ViewFields
    <2> HIDE DEF v
    <2>3. CASE v.on
        BY <1>1, <2>1, <2>2, <2>3
    <2>4. CASE ~v.on
        BY <1>0, <2>1, <2>2, <2>4 DEF ViewOK, RowsOK, DrawnOK
    <2> QED BY <2>3, <2>4
<1>10. ASSUME E!TickerFires PROVE ViewOK(view', moment')
    <2> DEFINE ended == \E at \in E!Countdowns(view.screen) : at <= moment
               v == [view EXCEPT !.looked = moment]
    <2>1. moment' = moment /\ view' = IF view.on /\ ended THEN E!Rendered(view, moment) ELSE v
        BY <1>10 DEF E!TickerFires
    <2>2. CASE view.on /\ ended
        <3> HIDE DEF v
        <3>1. view' = E!Rendered(view, moment)
            BY <2>1, <2>2
        <3> QED BY <1>0, <1>1, <2>1, <3>1
    <2>3. CASE ~(view.on /\ ended)
        <3>1. view' = v
            BY <2>1, <2>3
        <3>2. /\ IsView(v) /\ Loaded(v) /\ v.screen = view.screen /\ (v.on <=> view.on) /\ v.looked = moment
              /\ v.upgrades = view.upgrades /\ v.type = view.type /\ v.stream = view.stream /\ v.search = view.search
            BY <1>0 DEF IsView, Loaded, ViewFields
        <3> HIDE DEF v
        <3>3. E!Searched(v) = E!Searched(view)
            BY <3>2 DEF E!Searched, E!Typed
        <3>4. RowsOK(v)
            BY <1>0, <3>2 DEF RowsOK
        <3>5. ASSUME view.on, view.screen.kind = "list" PROVE Crossed(v)
            <4>1. /\ E!IsList(view.upgrades) /\ view.screen.at \in Int /\ view.screen.at <= moment /\ ~ended
                  /\ view.screen.next = E!NextUp(E!Searched(view), view.screen.at)
                BY <1>0, <2>3, <3>5 DEF Loaded, RowsOK, DrawnOK
            <4>2. \A u \in E!Searched(view) :
                      ~u.day => (E!Pending(u, view.screen.at) <=> E!Pending(u, moment))
                BY <1>0, <3>5, <4>1, NothingHasCrossed
            <4> QED BY <3>2, <3>3, <4>2 DEF Crossed
        <3>6. ToCome(view) => ToCome(v)
            BY <3>2, <3>3 DEF ToCome
        <3>7. DrawnOK(v, moment)
            BY <1>0, <3>2, <3>3, <3>5, <3>6 DEF DrawnOK
        <3> QED BY <1>0, <2>1, <3>1, <3>2, <3>4, <3>7 DEF ViewOK
    <2> QED BY <2>2, <2>3
<1>11. ASSUME E!Tick PROVE ViewOK(view', moment')
    <2>1. view' = view /\ moment' \in Int /\ moment' >= moment
        BY <1>0, <1>11, AnsweredListsAre DEF E!Tick
    <2>2. DrawnOK(view, moment')
        BY <1>0, <2>1 DEF DrawnOK, RowsOK
    <2> QED BY <1>0, <2>1, <2>2 DEF ViewOK
<1>12. CASE UNCHANGED timeline
    <2>1. view' = view /\ moment' = moment
        BY <1>12 DEF timeline
    <2> QED BY <2>1
<1> QED BY <1>2, <1>3, <1>4, <1>5, <1>6, <1>7, <1>8, <1>9, <1>10, <1>11, <1>12 DEF E!Next

LEMMA TimelineHolds == ViewOK(view, moment) => TimelineIsComplete
<1> SUFFICES ASSUME ViewOK(view, moment) PROVE TimelineIsComplete
    OBVIOUS
<1>1. RowsOK(view) /\ DrawnOK(view, moment)
    BY DEF ViewOK
<1>2. E!ToComeIsListed
    BY <1>1, SameSizes DEF E!ToComeIsListed, DrawnOK, ToCome
<1>3. E!EachDayOnce
    <2> SUFFICES ASSUME view.screen.kind = "list" PROVE E!EachDayOnce
        BY DEF E!EachDayOnce
    <2>1. PICK items : E!IsList(items) /\ view.screen.rows = E!Sorted(items, view.screen.at)
        BY <1>1 DEF RowsOK
    <2> DEFINE rows == view.screen.rows
               now == view.screen.at
    <2>2. \A i, k \in 1 .. Len(rows) :
               i < k /\ E!Separator(rows[i], now) = E!Separator(rows[k], now) =>
                   \A j \in i .. k : E!Separator(rows[j], now) = E!Separator(rows[i], now)
        BY <1>1, <2>1, RowsAreInRuns DEF RowsOK
    <2> QED BY <2>2 DEF E!EachDayOnce
<1>4. E!WindowsCrossIntoThePast
    BY <1>1 DEF E!WindowsCrossIntoThePast, DrawnOK, Crossed
<1> QED BY <1>2, <1>3, <1>4 DEF TimelineIsComplete

\* Whatever range, tab, type and search the reader picks, and however late the list comes: the range
\* bounds history and never what is to come (app.js:6758-6761), no day comes up twice among the rows
\* (app.js:7149), and after a tick what has an hour stands where it stands now (app.js:7206).
THEOREM TimelineIsAlwaysComplete == ClientsSpec => []TimelineIsComplete
<1>1. ClientsInit => ViewOK(view, moment)
    BY TimelineBegins DEF ClientsInit
<1>2. ViewOK(view, moment) /\ [ClientsNext]_everything => ViewOK(view, moment)'
    <2> SUFFICES ASSUME ViewOK(view, moment), [ClientsNext]_everything PROVE ViewOK(view', moment')
        BY DEF ViewOK, IsView, Loaded, RowsOK, DrawnOK, ToCome, Crossed
    <2>1. [E!Next]_timeline
        BY DEF ClientsNext, everything
    <2> QED BY <2>1, TimelineStep
<1> QED BY <1>1, <1>2, TimelineHolds, PTL DEF ClientsSpec

-----------------------------------------------------------------------------
(* The tests of endpoints                                                  *)

LEMMA EachUpTo ==
    ASSUME NEW n \in Nat, NEW S, 0 \in S, \A i \in 0 .. n - 1 : i \in S => i + 1 \in S
    PROVE  \A i \in 0 .. n : i \in S
<1> DEFINE bad == {i \in 0 .. n : i \notin S}
<1> SUFFICES ASSUME bad # {} PROVE FALSE
    OBVIOUS
<1>1. IsFiniteSet(0 .. n)
    BY FS_Interval, 0 \in Int, n \in Int
<1>2. IsFiniteSet(bad) /\ bad \in SUBSET Int
    <2>1. bad \in SUBSET (0 .. n) /\ bad \in SUBSET Int
        OBVIOUS
    <2> HIDE DEF bad
    <2> QED BY <1>1, <2>1, FS_Subset
<1>3. PICK k \in bad : \A x \in bad : k <= x
    <2> HIDE DEF bad
    <2> QED BY <1>2, FiniteHasLeast
<1>4. k \in 0 .. n /\ k \notin S /\ k # 0
    OBVIOUS
<1>5. k - 1 \in 0 .. n - 1 /\ k - 1 \notin bad
    BY <1>3, <1>4
<1>6. k - 1 \in S
    BY <1>5
<1> QED BY <1>4, <1>5, <1>6

AreStarted(f, tests, q, n) == f = [i \in 0 .. n |-> IF i = 0 THEN tests ELSE B!Started(f[i - 1], q[i])]

LEMMA StartedSteps ==
    ASSUME NEW tests, NEW q, NEW n \in Nat
    PROVE  \E f : AreStarted(f, tests, q, n)
<1> DEFINE Is(f, k) == AreStarted(f, tests, q, k)
           S == {k \in 0 .. n : \E f : Is(f, k)}
<1>1. 0 \in S
    <2>1. Is([i \in 0 .. 0 |-> tests], 0)
        BY DEF AreStarted
    <2>2. \E f : Is(f, 0)
        BY <2>1
    <2> QED BY <2>2
<1>2. ASSUME NEW k \in 0 .. n - 1, k \in S PROVE k + 1 \in S
    <2>1. PICK f : Is(f, k)
        BY <1>2
    <2> DEFINE g == [i \in 0 .. (k + 1) |-> IF i = k + 1 THEN B!Started(f[k], q[k + 1]) ELSE f[i]]
    <2>2. ASSUME NEW i \in 0 .. (k + 1) PROVE g[i] = IF i = 0 THEN tests ELSE B!Started(g[i - 1], q[i])
        <3>1. CASE i = k + 1
            <4>1. i # 0 /\ i - 1 = k /\ k \in 0 .. (k + 1) /\ k # k + 1
                BY <3>1
            <4>2. g[k] = f[k]
                BY <4>1
            <4>3. g[i] = B!Started(f[k], q[i])
                BY <3>1
            <4> HIDE DEF g
            <4> QED BY <4>1, <4>2, <4>3
        <3>2. CASE i # k + 1
            <4>1. i \in 0 .. k /\ (i # 0 => i - 1 \in 0 .. k /\ i - 1 \in 0 .. (k + 1) /\ i - 1 # k + 1)
                BY <3>2
            <4>2. f[i] = IF i = 0 THEN tests ELSE B!Started(f[i - 1], q[i])
                BY <2>1, <4>1 DEF AreStarted
            <4>3. g[i] = f[i] /\ (i # 0 => g[i - 1] = f[i - 1])
                BY <3>2, <4>1
            <4> HIDE DEF g
            <4> QED BY <4>2, <4>3
        <3> QED BY <3>1, <3>2
    <2>3. Is(g, k + 1)
        BY <2>2 DEF AreStarted
    <2> HIDE DEF g
    <2> QED BY <2>3
<1>3. n \in S
    <2>1. \A k \in 0 .. n : k \in S
        <3> HIDE DEF S
        <3> QED BY <1>1, <1>2, EachUpTo
    <2> HIDE DEF S
    <2> QED BY <2>1
<1> QED BY <1>3

LEMMA SizesAre == \A S : (B!IsFiniteSet(S) <=> IsFiniteSet(S)) /\ B!Cardinality(S) = Cardinality(S)
<1>1. ASSUME NEW S PROVE B!IsFiniteSet(S) <=> IsFiniteSet(S)
    BY DEF B!IsFiniteSet, IsFiniteSet
<1>2. ASSUME NEW S PROVE B!Cardinality(S) = Cardinality(S)
    BY DEF B!Cardinality, Cardinality, B!IsFiniteSet, IsFiniteSet
<1> QED BY <1>1, <1>2

Testable == B!Offered \ Skipped

Outcomes == {"none", "skip", "pending", "ok", "failed"}

TestsOf(tests, u, t) == {f \in tests : f[1] = u /\ f[2] = t}
TestsUnder(tests, t) == {f \in tests : f[2] = t}

\* Of a row's tests under one token, each has a number of its own, and none is beyond their count.
FlightsOK(tests, t, n) ==
    /\ IsFiniteSet(tests) /\ t \in Nat /\ n \in Nat
    /\ \A f \in tests :
           /\ f = <<f[1], f[2], f[3]>> /\ f[1] \in Testable /\ f[2] \in Nat /\ f[2] <= t
           /\ f[3] \in Nat /\ f[3] <= B!Copies(tests, f[1], f[2])
    /\ n = Cardinality(TestsUnder(tests, t))

LEMMA CopiesAre ==
    ASSUME NEW tests, IsFiniteSet(tests), NEW u, NEW t
    PROVE  /\ B!Copies(tests, u, t) = Cardinality(TestsOf(tests, u, t)) /\ B!Copies(tests, u, t) \in Nat
           /\ IsFiniteSet(TestsOf(tests, u, t))
<1>1. IsFiniteSet(TestsOf(tests, u, t))
    BY FS_Subset DEF TestsOf
<1>2. B!Copies(tests, u, t) = Cardinality(TestsOf(tests, u, t))
    BY SizesAre DEF B!Copies, TestsOf
<1> QED BY <1>1, <1>2, FS_CardinalityType

LEMMA OneIsStarted ==
    ASSUME NEW tests, NEW n, token \in Nat, FlightsOK(tests, token, n), NEW u \in Testable
    PROVE  LET more == B!Started(tests, u) IN
           FlightsOK(more, token, n + 1) /\ tests \subseteq more /\ \E f \in more : f[1] = u /\ f[2] = token
<1> DEFINE c == B!Copies(tests, u, token)
           e == <<u, token, c + 1>>
           more == B!Started(tests, u)
<1>1. IsFiniteSet(tests) /\ c \in Nat /\ c = Cardinality(TestsOf(tests, u, token)) /\ IsFiniteSet(TestsOf(tests, u, token))
    BY CopiesAre DEF FlightsOK
<1>2. more = tests \cup {e} /\ IsFiniteSet(more)
    BY <1>1, FS_AddElement DEF B!Started
<1>3. e \notin tests
    <2> SUFFICES ASSUME e \in tests PROVE FALSE
        OBVIOUS
    <2>1. e[3] <= B!Copies(tests, e[1], e[2])
        BY DEF FlightsOK
    <2> HIDE DEF c
    <2>2. c + 1 <= B!Copies(tests, u, token)
        BY <2>1
    <2> QED BY <1>1, <2>2 DEF c
<1>4. ASSUME NEW v, NEW t
      PROVE  B!Copies(more, v, t) = IF v = u /\ t = token THEN B!Copies(tests, v, t) + 1 ELSE B!Copies(tests, v, t)
    <2>1. B!Copies(more, v, t) = Cardinality(TestsOf(more, v, t)) /\ B!Copies(tests, v, t) = Cardinality(TestsOf(tests, v, t))
        BY <1>1, <1>2, CopiesAre
    <2>2. IsFiniteSet(TestsOf(tests, v, t)) /\ e \notin TestsOf(tests, v, t)
        <3>1. IsFiniteSet(TestsOf(tests, v, t))
            BY <1>1, CopiesAre
        <3> HIDE DEF e
        <3> QED BY <1>3, <3>1 DEF TestsOf
    <2>3. CASE v = u /\ t = token
        <3>1. TestsOf(more, v, t) = TestsOf(tests, v, t) \cup {e}
            BY <1>2, <2>3 DEF TestsOf
        <3> HIDE DEF e
        <3> QED BY <2>1, <2>2, <2>3, <3>1, FS_AddElement
    <2>4. CASE ~(v = u /\ t = token)
        <3>1. TestsOf(more, v, t) = TestsOf(tests, v, t)
            BY <1>2, <2>4 DEF TestsOf
        <3> HIDE DEF e
        <3> QED BY <2>1, <2>4, <3>1
    <2> QED BY <2>3, <2>4
<1>5. n + 1 \in Nat /\ n + 1 = Cardinality(TestsUnder(more, token))
    <2>1. TestsUnder(more, token) = TestsUnder(tests, token) \cup {e} /\ e \notin TestsUnder(tests, token)
        BY <1>2, <1>3 DEF TestsUnder
    <2>2. IsFiniteSet(TestsUnder(tests, token)) /\ n \in Nat /\ n = Cardinality(TestsUnder(tests, token))
        BY <1>1, FS_Subset DEF FlightsOK, TestsUnder
    <2> HIDE DEF e
    <2> QED BY <2>1, <2>2, FS_AddElement
<1>6. ASSUME NEW f \in more
      PROVE  /\ f = <<f[1], f[2], f[3]>> /\ f[1] \in Testable /\ f[2] \in Nat /\ f[2] <= token
             /\ f[3] \in Nat /\ f[3] <= B!Copies(more, f[1], f[2])
    <2>1. CASE f = e
        <3>1. B!Copies(more, u, token) = c + 1
            BY <1>4
        <3> HIDE DEF c
        <3> QED BY <1>1, <2>1, <3>1
    <2>2. CASE f \in tests
        <3>1. /\ f = <<f[1], f[2], f[3]>> /\ f[1] \in Testable /\ f[2] \in Nat /\ f[2] <= token
              /\ f[3] \in Nat /\ f[3] <= B!Copies(tests, f[1], f[2])
            BY <2>2 DEF FlightsOK
        <3>2. B!Copies(more, f[1], f[2]) \in Nat /\ B!Copies(tests, f[1], f[2]) \in Nat
            BY <1>1, <1>2, CopiesAre
        <3>3. B!Copies(more, f[1], f[2]) >= B!Copies(tests, f[1], f[2])
            BY <1>4, <3>2
        <3> QED BY <3>1, <3>2, <3>3
    <2> QED BY <1>2, <2>1, <2>2
<1>7. e \in more /\ e[1] = u /\ e[2] = token
    BY <1>2
<1> HIDE DEF more, e
<1>8. FlightsOK(more, token, n + 1)
    BY <1>2, <1>5, <1>6 DEF FlightsOK
<1>9. tests \subseteq more
    BY <1>2
<1> QED BY <1>7, <1>8, <1>9 DEF more

LEMMA OneEnds ==
    ASSUME NEW tests, NEW n, NEW t, FlightsOK(tests, t, n), NEW f \in tests, f[3] = B!Copies(tests, f[1], f[2])
    PROVE  /\ f[2] = t => n >= 1 /\ FlightsOK(tests \ {f}, t, n - 1)
           /\ f[2] # t => FlightsOK(tests \ {f}, t, n)
<1> DEFINE others == tests \ {f}
<1>1. /\ IsFiniteSet(tests) /\ IsFiniteSet(others) /\ t \in Nat /\ n \in Nat /\ n = Cardinality(TestsUnder(tests, t))
      /\ IsFiniteSet(TestsUnder(tests, t))
    <2>1. IsFiniteSet(tests) /\ t \in Nat /\ n \in Nat /\ n = Cardinality(TestsUnder(tests, t))
        BY DEF FlightsOK
    <2> QED BY <2>1, FS_Subset DEF TestsUnder
<1>2. ASSUME NEW g \in others
      PROVE  /\ g = <<g[1], g[2], g[3]>> /\ g[1] \in Testable /\ g[2] \in Nat /\ g[2] <= t
             /\ g[3] \in Nat /\ g[3] <= B!Copies(others, g[1], g[2])
    <2>1. /\ g = <<g[1], g[2], g[3]>> /\ g[1] \in Testable /\ g[2] \in Nat /\ g[2] <= t
          /\ g[3] \in Nat /\ g[3] <= B!Copies(tests, g[1], g[2]) /\ f = <<f[1], f[2], f[3]>>
        BY DEF FlightsOK
    <2>2. /\ B!Copies(others, g[1], g[2]) = Cardinality(TestsOf(others, g[1], g[2])) /\ IsFiniteSet(TestsOf(tests, g[1], g[2]))
          /\ B!Copies(tests, g[1], g[2]) = Cardinality(TestsOf(tests, g[1], g[2])) /\ B!Copies(tests, g[1], g[2]) \in Nat
        BY <1>1, CopiesAre
    <2>3. CASE g[1] = f[1] /\ g[2] = f[2]
        <3>1. TestsOf(others, g[1], g[2]) = TestsOf(tests, g[1], g[2]) \ {f} /\ f \in TestsOf(tests, g[1], g[2])
            BY <2>3 DEF TestsOf
        <3>2. B!Copies(others, g[1], g[2]) = B!Copies(tests, g[1], g[2]) - 1
            <4> HIDE DEF others
            <4> QED BY <2>2, <3>1, FS_RemoveElement
        <3>3. g[3] # B!Copies(tests, g[1], g[2])
            BY <2>1, <2>3
        <3> QED BY <2>1, <2>2, <3>2, <3>3
    <2>4. CASE ~(g[1] = f[1] /\ g[2] = f[2])
        <3>1. TestsOf(others, g[1], g[2]) = TestsOf(tests, g[1], g[2])
            BY <2>4 DEF TestsOf
        <3> HIDE DEF others
        <3> QED BY <2>1, <2>2, <3>1
    <2> QED BY <2>3, <2>4
<1>3. CASE f[2] = t
    <2>1. TestsUnder(others, t) = TestsUnder(tests, t) \ {f} /\ f \in TestsUnder(tests, t)
        BY <1>3 DEF TestsUnder
    <2>2. Cardinality(TestsUnder(others, t)) = n - 1 /\ Cardinality(TestsUnder(others, t)) \in Nat
        <3> HIDE DEF others
        <3>1. IsFiniteSet(TestsUnder(others, t)) /\ Cardinality(TestsUnder(others, t)) = n - 1
            BY <1>1, <2>1, FS_RemoveElement
        <3> QED BY <3>1, FS_CardinalityType
    <2>3. n - 1 \in Nat
        BY <2>2
    <2> HIDE DEF others
    <2> QED BY <1>1, <1>2, <1>3, <2>2, <2>3 DEF FlightsOK, others
<1>4. CASE f[2] # t
    <2>1. TestsUnder(others, t) = TestsUnder(tests, t)
        BY <1>4 DEF TestsUnder
    <2> QED BY <1>1, <1>2, <1>4, <2>1 DEF FlightsOK
<1> QED BY <1>3, <1>4

\* A row that waits for its test, or is under test.
Underway(q, t, tests, u) == (\E i \in 1 .. Len(q) : q[i] = u) \/ \E f \in tests : f[1] = u /\ f[2] = t

\* The pool is filled: what leaves the queue is under test, and is counted.
LEMMA PumpedIs ==
    ASSUME NEW q, NEW n, NEW others, token \in Nat, B!Pumped(q, n, others), q \in Seq(Testable),
           FlightsOK(others, token, n), n <= AtATime
    PROVE  /\ FlightsOK(flying', token, active') /\ active' <= AtATime /\ queue' \in Seq(Testable)
           /\ active' + Len(queue') = n + Len(q)
           /\ \A u : Underway(q, token, others, u) => Underway(queue', token, flying', u)
<1> DEFINE room == IF n < AtATime THEN AtATime - n ELSE 0
           k == IF room < Len(q) THEN room ELSE Len(q)
           started[i \in 0 .. k] == IF i = 0 THEN others ELSE B!Started(started[i - 1], q[i])
           Good(S, i) == FlightsOK(S, token, n + i) /\ others \subseteq S /\ \A j \in 1 .. i : \E f \in S : f[1] = q[j] /\ f[2] = token
           good == {i \in 0 .. k : Good(started[i], i)}
<1>1. AtATime \in Nat /\ n \in Nat /\ Len(q) \in Nat
    BY DashboardAssumption DEF B!ProbesAssumption, FlightsOK
<1>2. k \in Nat /\ k <= Len(q) /\ n + k <= AtATime
    BY <1>1
<1>3. active' = n + k /\ queue' = [i \in 1 .. (Len(q) - k) |-> q[k + i]] /\ flying' = started[k]
    BY DEF B!Pumped
<1>4. started[0] = others /\ \A i \in 1 .. k : started[i] = B!Started(started[i - 1], q[i])
    <2> HIDE DEF k
    <2>1. \E f : AreStarted(f, others, q, k)
        BY <1>2, StartedSteps
    <2>2. started = CHOOSE f : AreStarted(f, others, q, k)
        BY DEF AreStarted
    <2> HIDE DEF started
    <2>3. AreStarted(started, others, q, k)
        BY <2>1, <2>2
    <2>4. started = [i \in 0 .. k |-> IF i = 0 THEN others ELSE B!Started(started[i - 1], q[i])]
        BY <2>3 DEF AreStarted
    <2>5. 0 \in 0 .. k /\ 1 .. k \subseteq 0 .. k /\ 0 \notin 1 .. k
        BY <1>2
    <2> QED BY <2>4, <2>5
<1> HIDE DEF started, k
<1>5. 0 \in good
    BY <1>1, <1>2, <1>4
<1>6. ASSUME NEW i \in 0 .. k - 1, i \in good PROVE i + 1 \in good
    <2>1. Good(started[i], i)
        BY <1>6
    <2>2. i + 1 \in 1 .. k /\ i + 1 - 1 = i /\ i + 1 \in 1 .. Len(q) /\ i + 1 \in 0 .. k
        BY <1>1, <1>2
    <2>3. started[i + 1] = B!Started(started[i], q[i + 1])
        BY <1>4, <2>2
    <2>4. q[i + 1] \in Testable
        BY <2>2
    <2> DEFINE S == started[i]
               T1 == started[i + 1]
               u == q[i + 1]
    <2>5. FlightsOK(T1, token, n + i + 1) /\ S \subseteq T1 /\ \E f \in T1 : f[1] = u /\ f[2] = token
        <3>1. FlightsOK(S, token, n + i) /\ T1 = B!Started(S, u) /\ u \in Testable
            BY <2>1, <2>3, <2>4
        <3> HIDE DEF S, T1, u
        <3> QED BY <3>1, OneIsStarted
    <2>6. n + i + 1 = n + (i + 1)
        BY <1>1
    <2>7. \A j \in 1 .. (i + 1) : \E f \in T1 : f[1] = q[j] /\ f[2] = token
        <3> SUFFICES ASSUME NEW j \in 1 .. (i + 1) PROVE \E f \in T1 : f[1] = q[j] /\ f[2] = token
            OBVIOUS
        <3>1. CASE j = i + 1
            BY <2>5, <3>1
        <3>2. CASE j # i + 1
            <4>1. j \in 1 .. i
                BY <3>2
            <4> QED BY <2>1, <2>5, <4>1
        <3> QED BY <3>1, <3>2
    <2>8. Good(started[i + 1], i + 1)
        BY <2>1, <2>5, <2>6, <2>7
    <2> HIDE DEF Good
    <2> QED BY <2>2, <2>8
<1>7. Good(started[k], k)
    <2>1. \A i \in 0 .. k : i \in good
        <3> HIDE DEF good
        <3> QED BY <1>2, <1>5, <1>6, EachUpTo
    <2> HIDE DEF Good
    <2> QED BY <1>2, <2>1
<1>8. FlightsOK(flying', token, active') /\ active' <= AtATime
    BY <1>2, <1>3, <1>7
<1>9. queue' \in Seq(Testable) /\ Len(queue') = Len(q) - k
    <2>1. \A i \in 1 .. (Len(q) - k) : k + i \in 1 .. Len(q) /\ q[k + i] \in Testable
        BY <1>1, <1>2
    <2>2. queue' \in [1 .. (Len(q) - k) -> Testable]
        BY <1>3, <2>1
    <2>3. Len(q) - k \in Nat
        BY <1>1, <1>2
    <2> QED BY <2>2, <2>3
<1>10. ASSUME NEW u, Underway(q, token, others, u) PROVE Underway(queue', token, flying', u)
    <2>1. CASE \E f \in others : f[1] = u /\ f[2] = token
        BY <1>3, <1>7, <2>1 DEF Underway
    <2>2. CASE \E i \in 1 .. Len(q) : q[i] = u
        <3>1. PICK i \in 1 .. Len(q) : q[i] = u
            BY <2>2
        <3>2. CASE i <= k
            <4>1. i \in 1 .. k
                BY <1>2, <3>2
            <4> QED BY <1>3, <1>7, <3>1, <4>1 DEF Underway
        <3>3. CASE i > k
            <4>1. i - k \in 1 .. (Len(q) - k) /\ k + (i - k) = i
                BY <1>1, <1>2, <3>3
            <4>2. queue'[i - k] = u
                BY <1>3, <3>1, <4>1
            <4> QED BY <1>9, <4>1, <4>2 DEF Underway
        <3> QED BY <1>2, <3>2, <3>3
    <2> QED BY <1>10, <2>1, <2>2 DEF Underway
<1>11. active' + Len(queue') = n + Len(q)
    BY <1>1, <1>2, <1>3, <1>9
<1> QED BY <1>8, <1>9, <1>10, <1>11

LEMMA RowsAre ==
    ASSUME NEW S, IsFiniteSet(S), NEW Rel, IsOrder(S, Rel)
    PROVE  AreInOrder(B!Sorted(S, Rel), S, Rel)
<1> DEFINE N == Cardinality(S)
           rows == B!Sorted(S, Rel)
           rank(u) == B!Cardinality({w \in S : <<w, u>> \in Rel})
<1>1. \A u : rank(u) = Cardinality(Below(S, Rel, u))
    <2> SUFFICES ASSUME NEW u PROVE rank(u) = Cardinality(Below(S, Rel, u))
        OBVIOUS
    <2>1. {w \in S : <<w, u>> \in Rel} = Below(S, Rel, u)
        BY DEF Below
    <2> QED BY <2>1, SizesAre
<1>2. rows = [i \in 1 .. N |-> CHOOSE u \in S : rank(u) = i - 1]
    <2>1. B!Cardinality(S) = N
        BY SizesAre
    <2> QED BY <2>1 DEF B!Sorted
<1>3. \A k \in 1 .. N : \E u \in S : Cardinality(Below(S, Rel, u)) = k - 1
    BY EveryRankIsTaken DEF IsOrder
<1> HIDE DEF N, rows, rank
<1>4. ASSUME NEW i \in 1 .. N PROVE rows[i] \in S /\ Cardinality(Below(S, Rel, rows[i])) = i - 1
    <2>1. \E u \in S : rank(u) = i - 1
        <3>1. PICK u \in S : Cardinality(Below(S, Rel, u)) = i - 1
            BY <1>3
        <3>2. rank(u) = i - 1
            BY <1>1, <3>1
        <3> QED BY <3>2
    <2>2. rows[i] \in S /\ rank(rows[i]) = i - 1
        BY <1>2, <2>1
    <2> QED BY <1>1, <2>2
<1>5. rows \in [1 .. Cardinality(S) -> S]
    BY <1>2, <1>4 DEF N
<1>6. \A i \in 1 .. Cardinality(S) : Cardinality(Below(S, Rel, rows[i])) = i - 1
    BY <1>4 DEF N
<1>7. IsRanked(rows, S, Rel)
    BY <1>5, <1>6 DEF IsRanked
<1>8. AreInOrder(rows, S, Rel)
    BY <1>7, RankedIs
<1> QED BY <1>8 DEF rows

LEMMA EndpointsAre ==
    /\ Endpoint \subseteq Nat /\ IsFiniteSet(Endpoint) /\ RoundTrip \in [Endpoint -> Nat]
    /\ AtATime \in Nat \ {0} /\ BatchSize \in Nat \ {0} /\ WantWorking \in Nat
    /\ B!Offered \subseteq Endpoint /\ IsFiniteSet(B!Offered) /\ Testable \subseteq Endpoint
<1>1. /\ Endpoint \subseteq Nat /\ IsFiniteSet(Endpoint) /\ RoundTrip \in [Endpoint -> Nat]
      /\ AtATime \in Nat \ {0} /\ BatchSize \in Nat \ {0} /\ WantWorking \in Nat
    BY DashboardAssumption, SizesAre DEF B!ProbesAssumption
<1>2. B!Offered \subseteq Endpoint
    BY DEF B!Offered
<1> QED BY <1>1, <1>2, FS_Subset DEF Testable

LEMMA ServerOrders == \A S \in SUBSET Endpoint : IsOrder(S, B!ServerOrder)
<1> SUFFICES ASSUME NEW S \in SUBSET Endpoint PROVE IsOrder(S, B!ServerOrder)
    OBVIOUS
<1>1. \A u \in Endpoint : B!Order(u) \in Int /\ u \in Int
    BY EndpointsAre DEF B!Order
<1> DEFINE o(u) == B!Order(u)
<1>2. \A u, w \in Endpoint : <<u, w>> \in B!ServerOrder <=> o(u) < o(w) \/ (o(u) = o(w) /\ u < w)
    BY DEF B!ServerOrder
<1> HIDE DEF o
<1>3. \A u \in Endpoint : o(u) \in Int /\ u \in Int
    BY <1>1 DEF o
<1> DEFINE O1 == B!ServerOrder
<1> HIDE DEF O1
<1>10. \A u, w \in Endpoint : <<u, w>> \in O1 <=> o(u) < o(w) \/ (o(u) = o(w) /\ u < w)
    BY <1>2 DEF O1
<1>4. \A x \in S : <<x, x>> \notin O1
    BY <1>10, <1>3
<1>5. \A x, y \in S : x = y \/ <<x, y>> \in O1 \/ <<y, x>> \in O1
    <2> SUFFICES ASSUME NEW x \in Endpoint, NEW y \in Endpoint PROVE x = y \/ <<x, y>> \in O1 \/ <<y, x>> \in O1
        OBVIOUS
    <2> QED BY <1>10, <1>3
<1>6. \A x, y, z \in S : <<x, y>> \in O1 /\ <<y, z>> \in O1 => <<x, z>> \in O1
    <2> SUFFICES ASSUME NEW x \in Endpoint, NEW y \in Endpoint, NEW z \in Endpoint, <<x, y>> \in O1, <<y, z>> \in O1
                 PROVE  <<x, z>> \in O1
        OBVIOUS
    <2> QED BY <1>10, <1>3
<1> QED BY <1>4, <1>5, <1>6 DEF IsOrder, O1

LEMMA FasterOrders == ASSUME NEW res PROVE IsOrder(B!Offered, B!Faster(res))
<1> DEFINE Ok == {u \in Endpoint : res[u] = "ok"}
           F1 == B!Faster(res)
           O1 == B!ServerOrder
           s(u) == RoundTrip[u]
<1>1. \A u, w \in Endpoint : <<u, w>> \in F1 <=>
          \/ u \in Ok /\ w \notin Ok
          \/ u \in Ok /\ w \in Ok /\ s(u) < s(w)
          \/ u \in Ok /\ w \in Ok /\ s(u) = s(w) /\ <<u, w>> \in O1
          \/ u \notin Ok /\ w \notin Ok /\ <<u, w>> \in O1
    BY DEF B!Faster
<1>2. IsOrder(Endpoint, O1)
    BY ServerOrders
<1>3. \A u \in Endpoint : s(u) \in Int
    BY EndpointsAre
<1> HIDE DEF Ok, F1, O1, s
<1>9. /\ \A x \in Endpoint : <<x, x>> \notin O1
      /\ \A x, y \in Endpoint : x = y \/ <<x, y>> \in O1 \/ <<y, x>> \in O1
      /\ \A x, y, z \in Endpoint : <<x, y>> \in O1 /\ <<y, z>> \in O1 => <<x, z>> \in O1
    BY <1>2 DEF IsOrder
<1>4. \A x \in Endpoint : <<x, x>> \notin F1
    <2> SUFFICES ASSUME NEW x \in Endpoint PROVE <<x, x>> \notin F1
        OBVIOUS
    <2>1. <<x, x>> \notin O1 /\ s(x) \in Int
        BY <1>3, <1>9
    <2> QED BY <1>1, <2>1
<1>5. \A x, y \in Endpoint : x = y \/ <<x, y>> \in F1 \/ <<y, x>> \in F1
    <2> SUFFICES ASSUME NEW x \in Endpoint, NEW y \in Endpoint PROVE x = y \/ <<x, y>> \in F1 \/ <<y, x>> \in F1
        OBVIOUS
    <2>1. x = y \/ <<x, y>> \in O1 \/ <<y, x>> \in O1
        BY <1>9
    <2> QED BY <1>1, <1>3, <2>1
<1>6. \A x, y, z \in Endpoint : <<x, y>> \in F1 /\ <<y, z>> \in F1 => <<x, z>> \in F1
    <2> SUFFICES ASSUME NEW x \in Endpoint, NEW y \in Endpoint, NEW z \in Endpoint, <<x, y>> \in F1, <<y, z>> \in F1
                 PROVE  <<x, z>> \in F1
        OBVIOUS
    <2>1. <<x, y>> \in O1 /\ <<y, z>> \in O1 => <<x, z>> \in O1
        BY <1>9
    <2> QED BY <1>1, <1>3, <2>1
<1>7. B!Offered \subseteq Endpoint
    BY EndpointsAre
<1>8. IsOrder(B!Offered, F1)
    BY <1>4, <1>5, <1>6, <1>7 DEF IsOrder
<1> QED BY <1>8 DEF F1

\* The rows that wait: those that did, and those of a set that can be tested.
LEMMA QueuedIs ==
    ASSUME NEW q \in Seq(Testable), NEW S \in SUBSET B!Offered
    PROVE  LET more == B!Queued(q, S) IN
           /\ more \in Seq(Testable) /\ Len(more) \in Nat /\ Len(q) \in Nat /\ Len(more) >= Len(q)
           /\ S \ Skipped # {} => Len(more) > 0
           /\ S \ Skipped = {} => Len(more) = Len(q)
           /\ \A u \in S \ Skipped : \E i \in 1 .. Len(more) : more[i] = u
           /\ \A i \in 1 .. Len(q) : \E k \in 1 .. Len(more) : more[k] = q[i]
<1> DEFINE some == S \ Skipped
           rows == B!Sorted(some, B!ServerOrder)
           more == B!Queued(q, S)
<1>1. some \subseteq Testable /\ IsFiniteSet(some) /\ some \subseteq Endpoint
    BY EndpointsAre, FS_Subset DEF Testable
<1>2. /\ rows \in Seq(some) /\ Len(rows) = Cardinality(some) /\ Cardinality(some) \in Nat
      /\ \A u \in some : \E i \in 1 .. Len(rows) : rows[i] = u
    <2>1. IsOrder(some, B!ServerOrder)
        BY <1>1, ServerOrders
    <2> HIDE DEF some
    <2> QED BY <1>1, <2>1, RowsAre DEF AreInOrder
<1>3. more = q \o rows
    BY DEF B!Queued
<1> HIDE DEF some, rows, more
<1>4. rows \in Seq(Testable)
    BY <1>1, <1>2
<1>5. /\ more \in Seq(Testable) /\ Len(more) = Len(q) + Len(rows) /\ Len(q) \in Nat /\ Len(rows) \in Nat
      /\ \A i \in 1 .. Len(q) : more[i] = q[i]
      /\ \A i \in 1 .. Len(rows) : more[Len(q) + i] = rows[i]
    BY <1>3, <1>4
<1>6. some # {} <=> Len(rows) > 0
    BY <1>1, <1>2, FS_EmptySet
<1>7. \A u \in some : \E i \in 1 .. Len(more) : more[i] = u
    <2> SUFFICES ASSUME NEW u \in some PROVE \E i \in 1 .. Len(more) : more[i] = u
        OBVIOUS
    <2>1. PICK i \in 1 .. Len(rows) : rows[i] = u
        BY <1>2
    <2>2. Len(q) + i \in 1 .. Len(more) /\ more[Len(q) + i] = u
        BY <1>5, <2>1
    <2> QED BY <2>2
<1>8. \A i \in 1 .. Len(q) : \E k \in 1 .. Len(more) : more[k] = q[i]
    <2> SUFFICES ASSUME NEW i \in 1 .. Len(q) PROVE \E k \in 1 .. Len(more) : more[k] = q[i]
        OBVIOUS
    <2>1. i \in 1 .. Len(more) /\ more[i] = q[i]
        BY <1>5
    <2> QED BY <2>1
<1> QED BY <1>5, <1>6, <1>7, <1>8 DEF some, more

Finished(res) == {u \in Endpoint : res[u] \in {"ok", "failed"}}
WorkingIn(res) == {u \in Endpoint : res[u] = "ok"}

\* What a test can say is said of rows that can be tested.
ResultsOK(res) ==
    /\ res \in [Endpoint -> Outcomes]
    /\ \A u \in Endpoint : /\ res[u] = "skip" => u \in Skipped
                           /\ res[u] \in {"pending", "ok", "failed"} => u \in Testable

AllUnderway(res, q, t, tests) == \A u \in Endpoint : res[u] = "pending" => Underway(q, t, tests, u)

FastestFirst(rows, res) ==
    \A i, j \in DOMAIN rows :
        i < j /\ rows[j] \in WorkingIn(res) => rows[i] \in WorkingIn(res) /\ RoundTrip[rows[i]] <= RoundTrip[rows[j]]

Enough(res) == Cardinality(WorkingIn(res)) >= WantWorking \/ Testable \subseteq Finished(res)

\* What works stands first: after the first sort on the screen, after a later one there or behind "Show more".
Leading(rows, k, res) ==
    /\ k = 1 => FastestFirst(rows, res)
    /\ FastestFirst(rows, res) \/ FastestFirst(B!Behind(rows), res)

Settled(rows, k, res, q, n) == n = 0 /\ q = <<>> /\ Finished(res) # {} => Enough(res) /\ Leading(rows, k, res)

ListOK(rows, k) ==
    /\ k \in {0, 1, 2} /\ DOMAIN rows = 1 .. Cardinality(B!Offered)
    /\ k = 0 => rows = B!Sorted(B!Offered, B!ServerOrder)

ProbesAre(on, rows, k, seen, res, q, n, t, tests) ==
    /\ t \in Nat /\ FlightsOK(tests, t, n) /\ n <= AtATime /\ ListOK(rows, k)
    /\ q \in Seq(Testable) /\ seen \subseteq B!Offered /\ ResultsOK(res)
    /\ on => AllUnderway(res, q, t, tests) /\ Settled(rows, k, res, q, n)
    /\ on \/ (n = 0 /\ seen = {})

ProbesOK == ProbesAre(shown, list, sorts, watched, result, queue, active, token, flying)

LEMMA MarkedIs ==
    ASSUME NEW res, ResultsOK(res), NEW S \in SUBSET B!Offered
    PROVE  /\ ResultsOK(B!Marked(res, S))
           /\ \A u \in Endpoint : B!Marked(res, S)[u] = IF u \in S THEN IF u \in Skipped THEN "skip" ELSE "pending" ELSE res[u]
<1> DEFINE new == B!Marked(res, S)
<1>1. new = [u \in Endpoint |-> IF u \in S THEN IF u \in Skipped THEN "skip" ELSE "pending" ELSE res[u]]
    BY DEF B!Marked
<1>2. res \in [Endpoint -> Outcomes]
    BY DEF ResultsOK
<1>3. new \in [Endpoint -> Outcomes]
    <2> HIDE DEF new
    <2> QED BY <1>1, <1>2 DEF Outcomes
<1> HIDE DEF new
<1>4. ASSUME NEW u \in Endpoint
      PROVE  /\ new[u] = IF u \in S THEN IF u \in Skipped THEN "skip" ELSE "pending" ELSE res[u]
             /\ new[u] = "skip" => u \in Skipped
             /\ new[u] \in {"pending", "ok", "failed"} => u \in Testable
    <2>1. new[u] = IF u \in S THEN IF u \in Skipped THEN "skip" ELSE "pending" ELSE res[u]
        BY <1>1
    <2>2. (res[u] = "skip" => u \in Skipped) /\ (res[u] \in {"pending", "ok", "failed"} => u \in Testable)
        BY DEF ResultsOK
    <2> QED BY <2>1, <2>2 DEF Testable
<1> QED BY <1>3, <1>4 DEF ResultsOK, new

\* Some rows are queued: what is under test is, and the pool is empty only if it was and none of them can be tested.
LEMMA RoundGoesOn ==
    ASSUME token \in Nat, NEW S \in SUBSET B!Offered, NEW res, ResultsOK(res), NEW q \in Seq(Testable), NEW n, NEW others,
           FlightsOK(others, token, n), n <= AtATime, B!Pumped(B!Queued(q, S), n, others), result' = B!Marked(res, S)
    PROVE  /\ FlightsOK(flying', token, active') /\ active' <= AtATime /\ queue' \in Seq(Testable) /\ ResultsOK(result')
           /\ AllUnderway(res, q, token, others) => AllUnderway(result', queue', token, flying')
           /\ active' = 0 /\ queue' = <<>> => n = 0 /\ q = <<>> /\ S \subseteq Skipped
<1> DEFINE more == B!Queued(q, S)
<1>1. /\ more \in Seq(Testable) /\ Len(more) \in Nat /\ Len(q) \in Nat /\ Len(more) >= Len(q)
      /\ S \ Skipped # {} => Len(more) > 0
      /\ \A u \in S \ Skipped : \E i \in 1 .. Len(more) : more[i] = u
      /\ \A i \in 1 .. Len(q) : \E k \in 1 .. Len(more) : more[k] = q[i]
    BY QueuedIs
<1> HIDE DEF more
<1>2. /\ FlightsOK(flying', token, active') /\ active' <= AtATime /\ queue' \in Seq(Testable)
      /\ active' + Len(queue') = n + Len(more)
      /\ \A u : Underway(more, token, others, u) => Underway(queue', token, flying', u)
    <2>1. B!Pumped(more, n, others)
        BY DEF more
    <2> QED BY <1>1, <2>1, PumpedIs
<1>3. /\ ResultsOK(result')
      /\ \A u \in Endpoint : result'[u] = IF u \in S THEN IF u \in Skipped THEN "skip" ELSE "pending" ELSE res[u]
    BY MarkedIs
<1>4. ASSUME AllUnderway(res, q, token, others), NEW u \in Endpoint, result'[u] = "pending"
      PROVE  Underway(queue', token, flying', u)
    <2>1. CASE u \in S
        <3>1. u \in S \ Skipped
            BY <1>3, <1>4, <2>1
        <3>2. Underway(more, token, others, u)
            BY <1>1, <3>1 DEF Underway
        <3> QED BY <1>2, <3>2
    <2>2. CASE u \notin S
        <3>1. res[u] = "pending"
            BY <1>3, <1>4, <2>2
        <3>2. Underway(q, token, others, u)
            BY <1>4, <3>1 DEF AllUnderway
        <3>3. Underway(more, token, others, u)
            BY <1>1, <3>2 DEF Underway
        <3> QED BY <1>2, <3>3
    <2> QED BY <2>1, <2>2
<1>5. ASSUME active' = 0, queue' = <<>> PROVE n = 0 /\ q = <<>> /\ S \subseteq Skipped
    <2>1. n \in Nat /\ Len(queue') = 0
        BY <1>5 DEF FlightsOK
    <2>2. n = 0 /\ Len(more) = 0
        BY <1>1, <1>2, <1>5, <2>1
    <2>3. Len(q) = 0
        BY <1>1, <2>2
    <2> QED BY <1>1, <2>2, <2>3
<1> QED BY <1>2, <1>3, <1>4, <1>5 DEF AllUnderway

\* While few work, what is untested is not left over.
LEMMA MoreIs ==
    ASSUME NEW res, ResultsOK(res)
    PROVE  /\ B!More(res) \subseteq B!Offered \ Skipped
           /\ B!More(res) = {} => \/ Cardinality(WorkingIn(res)) >= WantWorking
                                  \/ \A u \in Testable : res[u] # "none"
<1> DEFINE untested == {u \in B!Offered \ Skipped : res[u] = "none"}
           more == B!More(res)
<1>1. more = {u \in untested : B!FewWork(res) /\ B!Cardinality({w \in untested : <<w, u>> \in B!ServerOrder}) < BatchSize}
    BY DEF B!More
<1>2. B!FewWork(res) <=> Cardinality(WorkingIn(res)) < WantWorking
    BY SizesAre DEF B!FewWork, WorkingIn
<1>3. IsFiniteSet(untested) /\ untested \subseteq Endpoint /\ Testable = B!Offered \ Skipped
    BY EndpointsAre, FS_Subset DEF Testable
<1>4. Cardinality(WorkingIn(res)) \in Nat /\ WantWorking \in Nat /\ BatchSize \in Nat \ {0}
    <2>1. IsFiniteSet(WorkingIn(res))
        BY EndpointsAre, FS_Subset DEF WorkingIn
    <2> QED BY <2>1, EndpointsAre, FS_CardinalityType
<1>5. ASSUME NEW u \in Testable, res[u] = "none", Cardinality(WorkingIn(res)) < WantWorking PROVE more # {}
    <2>1. untested # {}
        BY <1>3, <1>5
    <2> HIDE DEF untested, more
    <2>2. IsOrder(untested, B!ServerOrder)
        BY <1>3, ServerOrders
    <2>3. Cardinality(untested) \in Nat /\ Cardinality(untested) # 0
        BY <1>3, <2>1, FS_CardinalityType, FS_EmptySet
    <2>4. \A k \in 1 .. Cardinality(untested) : \E v \in untested : Cardinality(Below(untested, B!ServerOrder, v)) = k - 1
        BY <1>3, <2>2, EveryRankIsTaken DEF IsOrder
    <2>5. 1 \in 1 .. Cardinality(untested)
        BY <2>3
    <2>6. PICK v \in untested : Cardinality(Below(untested, B!ServerOrder, v)) = 0
        BY <2>4, <2>5
    <2>7. B!Cardinality({w \in untested : <<w, v>> \in B!ServerOrder}) = 0
        <3>1. {w \in untested : <<w, v>> \in B!ServerOrder} = Below(untested, B!ServerOrder, v)
            BY DEF Below
        <3> QED BY <2>6, <3>1, SizesAre
    <2>8. 0 < BatchSize
        BY <1>4
    <2> QED BY <1>1, <1>2, <1>5, <2>7, <2>8
<1>6. more \subseteq B!Offered \ Skipped
    BY <1>1
<1> HIDE DEF more
<1> QED BY <1>4, <1>5, <1>6 DEF more

LEMMA FreshResults ==
    LET none == [u \in Endpoint |-> "none"] IN
    /\ ResultsOK(none) /\ \A q, t, tests : AllUnderway(none, q, t, tests)
    /\ \A rows, k, q, n : Settled(rows, k, none, q, n)
<1> DEFINE none == [u \in Endpoint |-> "none"]
<1>1. ResultsOK(none)
    BY DEF ResultsOK, Outcomes
<1>2. \A u \in Endpoint : none[u] = "none"
    OBVIOUS
<1> HIDE DEF none
<1>3. Finished(none) = {}
    BY <1>2 DEF Finished
<1>4. ASSUME NEW q, NEW t, NEW tests PROVE AllUnderway(none, q, t, tests)
    BY <1>2 DEF AllUnderway
<1>5. ASSUME NEW rows, NEW k, NEW q, NEW n PROVE Settled(rows, k, none, q, n)
    BY <1>3 DEF Settled
<1> QED BY <1>1, <1>4, <1>5 DEF none

LEMMA NewListIs == ListOK(B!Sorted(B!Offered, B!ServerOrder), 0)
<1> DEFINE rows == B!Sorted(B!Offered, B!ServerOrder)
<1>1. AreInOrder(rows, B!Offered, B!ServerOrder)
    BY EndpointsAre, ServerOrders, RowsAre
<1> HIDE DEF rows
<1>2. DOMAIN rows = 1 .. Cardinality(B!Offered)
    BY <1>1 DEF AreInOrder
<1> QED BY <1>2 DEF ListOK, rows

\* The sorted rows fill the lists: the first time, from the top.
LEMMA RefilledIs ==
    ASSUME ListOK(list, sorts), NEW res, NEW best, best \in Seq(Endpoint), Len(best) = Cardinality(B!Offered),
           FastestFirst(best, res)
    PROVE  ListOK(B!Refilled(best), IF sorts = 0 THEN 1 ELSE 2) /\ Leading(B!Refilled(best), IF sorts = 0 THEN 1 ELSE 2, res)
<1> DEFINE N == Len(best)
           r == B!Refilled(best)
           server == B!Sorted(B!Offered, B!ServerOrder)
           other == \E i \in DOMAIN list : i > RowsShown /\ list[i] = server[1]
<1>1. N \in Nat /\ best \in [1 .. N -> Endpoint] /\ DOMAIN best = 1 .. N /\ DOMAIN list = 1 .. N
    BY DEF ListOK
<1>2. RowsShown \in Nat /\ RowsShown >= 1
    BY DashboardAssumption DEF B!ProbesAssumption
<1>3. CASE ~other
    <2>1. r = best
        BY <1>3 DEF B!Refilled
    <2> HIDE DEF r
    <2> QED BY <1>1, <2>1 DEF ListOK, Leading, r
<1>4. CASE other
    <2>1. PICK i \in DOMAIN list : i > RowsShown /\ list[i] = server[1]
        BY <1>4
    <2>2. N > RowsShown /\ i \in 1 .. N /\ 1 \in 1 .. N /\ 1 < i
        BY <1>1, <1>2, <2>1
    <2>3. sorts # 0
        <3> SUFFICES ASSUME sorts = 0 PROVE FALSE
            OBVIOUS
        <3>1. AreInOrder(server, B!Offered, B!ServerOrder) /\ IsOrder(B!Offered, B!ServerOrder)
            BY EndpointsAre, ServerOrders, RowsAre
        <3>2. list = server
            BY DEF ListOK
        <3> HIDE DEF server
        <3>3. server \in Seq(B!Offered) /\ Len(server) = N /\ \A a, b \in 1 .. Len(server) : a < b => <<server[a], server[b]>> \in B!ServerOrder
            BY <3>1 DEF AreInOrder
        <3>4. <<server[1], server[i]>> \in B!ServerOrder /\ server[1] \in B!Offered
            BY <1>1, <2>2, <3>3
        <3>5. server[i] = server[1]
            BY <2>1, <3>2
        <3> QED BY <3>1, <3>4, <3>5 DEF IsOrder
    <2>4. B!Hidden(best) = N - RowsShown
        BY <2>2 DEF B!Hidden
    <2>5. r = [k \in 1 .. N |-> IF k <= RowsShown THEN best[k + (N - RowsShown)] ELSE best[k - RowsShown]]
        BY <1>1, <1>4, <2>4 DEF B!Refilled
    <2> DEFINE N1 == N
    <2>6. ASSUME NEW k \in 1 .. N
          PROVE  /\ k <= RowsShown => k + (N - RowsShown) \in 1 .. N
                 /\ k > RowsShown => k - RowsShown \in 1 .. N
                 /\ k <= N - RowsShown => k + RowsShown \in 1 .. N /\ ~(k + RowsShown <= RowsShown) /\ (k + RowsShown) - RowsShown = k
                 /\ ~(k <= N - RowsShown) =>
                        LET l == k - (N - RowsShown) IN l \in 1 .. N /\ l <= RowsShown /\ l + (N - RowsShown) = k
        BY <1>1, <1>2, <2>2
    <2> HIDE DEF r, N1
    <2>7. r \in [1 .. N -> Endpoint]
        BY <1>1, <1>2, <2>5, <2>6
    <2>8. r \in Seq(Endpoint) /\ Len(r) = N /\ DOMAIN r = 1 .. N
        BY <1>1, <2>7
    <2>9. B!Hidden(r) = N - RowsShown
        BY <2>2, <2>8 DEF B!Hidden
    <2>10. B!Behind(r) = [k \in 1 .. N |-> IF k <= N - RowsShown THEN r[k + RowsShown] ELSE r[k - (N - RowsShown)]]
        BY <2>8, <2>9 DEF B!Behind
    <2> DEFINE behind == B!Behind(r)
    <2>12. DOMAIN behind = 1 .. N
        BY <2>10
    <2>14. /\ \A k \in 1 .. N : behind[k] = IF k <= N - RowsShown THEN r[k + RowsShown] ELSE r[k - (N - RowsShown)]
           /\ \A k \in 1 .. N : r[k] = IF k <= RowsShown THEN best[k + (N - RowsShown)] ELSE best[k - RowsShown]
        BY <2>5, <2>10
    <2> HIDE DEF behind
    <2>11. ASSUME NEW k \in 1 .. N PROVE behind[k] = best[k]
        <3>1. CASE k <= N - RowsShown
            <4>1. behind[k] = r[k + RowsShown]
                BY <2>14, <3>1
            <4>2. /\ k + RowsShown \in 1 .. N /\ ~(k + RowsShown <= RowsShown)
                  /\ (k + RowsShown) - RowsShown = k
                BY <2>6, <3>1
            <4>3. r[k + RowsShown] = best[(k + RowsShown) - RowsShown]
                BY <2>14, <4>2
            <4> QED BY <4>1, <4>2, <4>3
        <3>2. CASE ~(k <= N - RowsShown)
            <4> DEFINE l == k - (N - RowsShown)
            <4>1. behind[k] = r[l]
                BY <2>14, <3>2
            <4>2. l \in 1 .. N /\ l <= RowsShown /\ l + (N - RowsShown) = k
                BY <2>6, <3>2
            <4> HIDE DEF l
            <4>3. r[l] = best[l + (N - RowsShown)]
                BY <2>14, <4>2
            <4> QED BY <4>1, <4>2, <4>3
        <3> QED BY <3>1, <3>2
    <2>13. FastestFirst(behind, res)
        BY <1>1, <2>11, <2>12 DEF FastestFirst
    <2> QED BY <2>3, <2>8, <2>13 DEF ListOK, Leading, behind, r
<1> QED BY <1>3, <1>4

LEMMA ProbesBegin == B!Init => ProbesOK
<1> SUFFICES ASSUME B!Init PROVE ProbesOK
    OBVIOUS
<1>1. /\ token = 1 /\ active = 0 /\ flying = {} /\ queue = <<>> /\ watched = B!Offered
      /\ result = [u \in Endpoint |-> "none"] /\ list = B!Sorted(B!Offered, B!ServerOrder) /\ sorts = 0
    BY DEF B!Init
<1>9. shown
    BY DEF B!Init
<1>2. FlightsOK(flying, token, active)
    <2>1. TestsUnder(flying, token) = {}
        BY <1>1 DEF TestsUnder
    <2>2. IsFiniteSet(flying) /\ Cardinality(TestsUnder(flying, token)) = 0
        BY <1>1, <2>1, FS_EmptySet
    <2> QED BY <1>1, <2>2 DEF FlightsOK
<1>3. active <= AtATime /\ token \in Nat /\ queue \in Seq(Testable)
    BY <1>1, EndpointsAre
<1>4. /\ ResultsOK(result) /\ AllUnderway(result, queue, token, flying) /\ Settled(list, sorts, result, queue, active)
    BY <1>1, FreshResults
<1>5. ListOK(list, sorts)
    BY <1>1, NewListIs
<1> QED BY <1>1, <1>2, <1>3, <1>4, <1>5, <1>9 DEF ProbesOK, ProbesAre

\* Nothing is under test for a list that was just drawn.
LEMMA NewTokenIs ==
    ASSUME NEW tests, NEW n, NEW t, FlightsOK(tests, t, n)
    PROVE  FlightsOK(tests, t + 1, 0)
<1>1. /\ IsFiniteSet(tests) /\ t \in Nat /\ t + 1 \in Nat
      /\ \A f \in tests :
             /\ f = <<f[1], f[2], f[3]>> /\ f[1] \in Testable /\ f[2] \in Nat /\ f[2] <= t
             /\ f[3] \in Nat /\ f[3] <= B!Copies(tests, f[1], f[2])
    BY DEF FlightsOK
<1>2. \A f \in tests : f[2] <= t + 1 /\ f[2] # t + 1
    BY <1>1
<1>3. Cardinality(TestsUnder(tests, t + 1)) = 0
    <2>1. TestsUnder(tests, t + 1) = {}
        BY <1>2 DEF TestsUnder
    <2> QED BY <2>1, FS_EmptySet
<1> QED BY <1>1, <1>2, <1>3 DEF FlightsOK

\* The last test of a round is over and sends for no more: enough rows work, or all were tested, and the list is sorted.
LEMMA RoundIsOver ==
    ASSUME NEW res, ResultsOK(res), B!More(res) = {}, NEW tests, NEW t, FlightsOK(tests, t, 0),
           AllUnderway(res, <<>>, t, tests)
    PROVE  /\ Enough(res) /\ B!Sorted(B!Offered, B!Faster(res)) \in Seq(Endpoint)
           /\ Len(B!Sorted(B!Offered, B!Faster(res))) = Cardinality(B!Offered)
           /\ FastestFirst(B!Sorted(B!Offered, B!Faster(res)), res)
<1> DEFINE rows == B!Sorted(B!Offered, B!Faster(res))
<1>1. ASSUME NEW u \in Endpoint PROVE res[u] # "pending"
    <2>1. TestsUnder(tests, t) = {}
        <3>1. IsFiniteSet(TestsUnder(tests, t)) /\ Cardinality(TestsUnder(tests, t)) = 0
            BY FS_Subset DEF FlightsOK, TestsUnder
        <3> QED BY <3>1, FS_EmptySet
    <2>2. ~Underway(<<>>, t, tests, u)
        BY <2>1 DEF Underway, TestsUnder
    <2> QED BY <2>2 DEF AllUnderway
<1>2. Enough(res)
    <2>1. CASE Cardinality(WorkingIn(res)) >= WantWorking
        BY <2>1 DEF Enough
    <2>2. CASE \A u \in Testable : res[u] # "none"
        <3>1. ASSUME NEW u \in Testable PROVE u \in Finished(res)
            <4>1. u \in Endpoint /\ u \notin Skipped
                BY EndpointsAre DEF Testable
            <4>2. res[u] \in Outcomes /\ (res[u] = "skip" => u \in Skipped)
                BY <4>1 DEF ResultsOK
            <4> QED BY <1>1, <2>2, <4>1, <4>2 DEF Outcomes, Finished
        <3> QED BY <3>1 DEF Enough
    <2> QED BY <2>1, <2>2, MoreIs
<1>3. AreInOrder(rows, B!Offered, B!Faster(res))
    BY EndpointsAre, FasterOrders, RowsAre
<1>4. /\ rows \in Seq(B!Offered) /\ Len(rows) = Cardinality(B!Offered)
      /\ \A i, j \in 1 .. Len(rows) : i < j => <<rows[i], rows[j]>> \in B!Faster(res)
    BY <1>3 DEF AreInOrder
<1> HIDE DEF rows
<1>5. rows \in Seq(Endpoint) /\ DOMAIN rows = 1 .. Len(rows)
    <2>1. rows \in [1 .. Len(rows) -> B!Offered] /\ Len(rows) \in Nat /\ DOMAIN rows = 1 .. Len(rows)
        BY <1>4
    <2>2. B!Offered \subseteq Endpoint
        BY EndpointsAre
    <2>3. rows \in [1 .. Len(rows) -> Endpoint]
        BY <2>1, <2>2
    <2> QED BY <2>1, <2>3
<1>6. ASSUME NEW i \in DOMAIN rows, NEW j \in DOMAIN rows, i < j, rows[j] \in WorkingIn(res)
      PROVE  rows[i] \in WorkingIn(res) /\ RoundTrip[rows[i]] <= RoundTrip[rows[j]]
    <2>1. <<rows[i], rows[j]>> \in B!Faster(res) /\ rows[i] \in Endpoint /\ rows[j] \in Endpoint /\ res[rows[j]] = "ok"
        BY <1>4, <1>5, <1>6 DEF WorkingIn
    <2>2. /\ res[rows[i]] = "ok"
          /\ RoundTrip[rows[i]] < RoundTrip[rows[j]] \/ RoundTrip[rows[i]] = RoundTrip[rows[j]]
        BY <2>1 DEF B!Faster
    <2>3. RoundTrip[rows[i]] \in Nat /\ RoundTrip[rows[j]] \in Nat
        BY <2>1, EndpointsAre
    <2> QED BY <2>1, <2>2, <2>3 DEF WorkingIn
<1>7. FastestFirst(rows, res)
    BY <1>6 DEF FastestFirst
<1> QED BY <1>2, <1>4, <1>5, <1>7 DEF rows

LEMMA ProbesStep ==
    ASSUME ProbesOK, [B!Next]_probes
    PROVE  ProbesAre(shown', list', sorts', watched', result', queue', active', token', flying')
<1> DEFINE Next1 == ProbesAre(shown', list', sorts', watched', result', queue', active', token', flying')
<1>0. /\ token \in Nat /\ FlightsOK(flying, token, active) /\ active <= AtATime /\ active \in Nat
      /\ queue \in Seq(Testable) /\ watched \subseteq B!Offered /\ ResultsOK(result)
      /\ shown => AllUnderway(result, queue, token, flying) /\ Settled(list, sorts, result, queue, active)
      /\ ListOK(list, sorts) /\ (shown \/ (active = 0 /\ watched = {}))
    BY DEF ProbesOK, ProbesAre, FlightsOK
<1>1. AtATime \in Nat /\ 0 <= AtATime
    BY EndpointsAre
<1>2. ASSUME NEW u \in Endpoint, B!Seen(u) PROVE Next1
    <2>1. /\ shown /\ u \in B!Offered /\ watched' \subseteq B!Offered /\ shown' = shown /\ list' = list /\ sorts' = sorts /\ token' = token
        BY <1>0, <1>2 DEF B!Seen
    <2>2. CASE result[u] # "none"
        <3>1. result' = result /\ queue' = queue /\ active' = active /\ flying' = flying
            BY <1>2, <2>2 DEF B!Seen
        <3> QED BY <1>0, <2>1, <3>1 DEF ProbesAre
    <2>3. CASE result[u] = "none"
        <3>1. result' = B!Marked(result, {u}) /\ B!Pumped(B!Queued(queue, {u}), active, flying) /\ {u} \in SUBSET B!Offered
            BY <1>2, <2>1, <2>3 DEF B!Seen
        <3>2. /\ FlightsOK(flying', token, active') /\ active' <= AtATime /\ queue' \in Seq(Testable) /\ ResultsOK(result')
              /\ AllUnderway(result, queue, token, flying) => AllUnderway(result', queue', token, flying')
              /\ active' = 0 /\ queue' = <<>> => active = 0 /\ queue = <<>> /\ {u} \subseteq Skipped
            BY <1>0, <3>1, RoundGoesOn
        <3>3. ASSUME shown, active' = 0, queue' = <<>>, Finished(result') # {} PROVE Enough(result') /\ Leading(list, sorts, result')
            <4>1. \A v \in Endpoint : B!Marked(result, {u})[v] = IF v \in {u} THEN IF v \in Skipped THEN "skip" ELSE "pending" ELSE result[v]
                BY <1>0, <3>1, MarkedIs
            <4>2. \A v \in Endpoint : result'[v] = IF v = u THEN "skip" ELSE result[v]
                BY <3>1, <3>2, <3>3, <4>1
            <4>3. Finished(result') = Finished(result) /\ WorkingIn(result') = WorkingIn(result)
                BY <2>3, <4>2 DEF Finished, WorkingIn
            <4>4. Enough(result) /\ Leading(list, sorts, result)
                BY <1>0, <3>2, <3>3, <4>3 DEF Settled
            <4> QED BY <4>3, <4>4 DEF Enough, Leading, FastestFirst
        <3>4. shown => Settled(list, sorts, result', queue', active')
            BY <3>3 DEF Settled
        <3> QED BY <1>0, <2>1, <3>2, <3>4 DEF ProbesAre
    <2> QED BY <2>2, <2>3
<1>3. ASSUME B!TestAgain PROVE Next1
    <2> DEFINE rows == B!Again
    <2>1. /\ shown /\ shown' = shown /\ list' = list /\ sorts' = sorts /\ watched' = watched /\ token' = token
          /\ result' = B!Marked(result, rows) /\ B!Pumped(B!Queued(queue, rows), active, flying)
        BY <1>3 DEF B!TestAgain
    <2>2. rows \in SUBSET B!Offered /\ \A u \in rows : u \in Testable
        <3>1. ASSUME NEW u \in rows PROVE u \in B!Offered /\ u \in Testable
            <4>1. u \in B!Offered /\ u \in Endpoint /\ result[u] \notin {"none", "skip"}
                BY EndpointsAre DEF B!Again
            <4> QED BY <1>0, <4>1 DEF ResultsOK, Outcomes
        <3> QED BY <3>1
    <2> HIDE DEF rows
    <2>3. /\ FlightsOK(flying', token, active') /\ active' <= AtATime /\ queue' \in Seq(Testable) /\ ResultsOK(result')
          /\ AllUnderway(result, queue, token, flying) => AllUnderway(result', queue', token, flying')
          /\ active' = 0 /\ queue' = <<>> => active = 0 /\ queue = <<>> /\ rows \subseteq Skipped
        BY <1>0, <2>1, <2>2, RoundGoesOn
    <2>4. ASSUME active' = 0, queue' = <<>> PROVE result' = result
        <3>1. rows = {}
            BY <2>2, <2>3, <2>4 DEF Testable
        <3>2. \A v \in Endpoint : B!Marked(result, rows)[v] = result[v]
            BY <1>0, <2>2, <3>1, MarkedIs
        <3>3. result \in [Endpoint -> Outcomes] /\ result' \in [Endpoint -> Outcomes]
            BY <1>0, <2>3 DEF ResultsOK
        <3> QED BY <2>1, <3>2, <3>3
    <2>5. Settled(list, sorts, result', queue', active')
        <3>1. CASE active' = 0 /\ queue' = <<>>
            BY <1>0, <2>1, <2>3, <2>4, <3>1
        <3>2. CASE ~(active' = 0 /\ queue' = <<>>)
            BY <3>2 DEF Settled
        <3> QED BY <3>1, <3>2
    <2> QED BY <1>0, <2>1, <2>3, <2>5 DEF ProbesAre
<1>4. ASSUME B!Rerender PROVE Next1
    <2>1. /\ shown' = TRUE /\ token' = token + 1 /\ active' = 0 /\ queue' = <<>> /\ watched' = B!Offered /\ flying' = flying
          /\ result' = [u \in Endpoint |-> "none"] /\ list' = B!Sorted(B!Offered, B!ServerOrder) /\ sorts' = 0
        BY <1>4 DEF B!Rerender, B!NewList
    <2>2. FlightsOK(flying, token + 1, 0)
        BY <1>0, NewTokenIs
    <2>3. /\ ResultsOK(result') /\ AllUnderway(result', queue', token', flying') /\ Settled(list', sorts', result', queue', active')
          /\ ListOK(list', sorts')
        BY <2>1, FreshResults, NewListIs
    <2>4. token' \in Nat /\ queue' \in Seq(Testable)
        BY <1>0, <2>1
    <2> QED BY <1>1, <2>1, <2>2, <2>3, <2>4 DEF ProbesAre
<1>5. ASSUME B!Leave PROVE Next1
    <2>1. /\ shown' = FALSE /\ token' = token + 1 /\ active' = 0 /\ queue' = <<>> /\ watched' = {} /\ flying' = flying
          /\ result' = result /\ list' = list /\ sorts' = sorts
        BY <1>5 DEF B!Leave
    <2>2. FlightsOK(flying, token + 1, 0)
        BY <1>0, NewTokenIs
    <2>3. token' \in Nat /\ queue' \in Seq(Testable)
        BY <1>0, <2>1
    <2> QED BY <1>0, <1>1, <2>1, <2>2, <2>3 DEF ProbesAre
<1>6. ASSUME NEW f \in flying, NEW outcome \in {"ok", "failed"}, B!ProbeEnds(f, outcome) PROVE Next1
    <2> DEFINE u == f[1]
               res == [result EXCEPT ![u] = outcome]
               others == flying \ {f}
               idle == active = 1 /\ queue = <<>>
    <2>1. f[3] = B!Copies(flying, f[1], f[2]) /\ shown' = shown /\ token' = token
        BY <1>6 DEF B!ProbeEnds
    <2>2. /\ f[2] = token => active >= 1 /\ FlightsOK(others, token, active - 1)
          /\ f[2] # token => FlightsOK(others, token, active)
        BY <1>0, <2>1, OneEnds
    <2>3. u \in Testable /\ u \in Endpoint
        BY <1>0, EndpointsAre DEF FlightsOK
    <2>4. ResultsOK(res) /\ res[u] = outcome /\ \A v \in Endpoint : v # u => res[v] = result[v]
        <3>1. result \in [Endpoint -> Outcomes] /\ outcome \in Outcomes
            BY <1>0 DEF ResultsOK, Outcomes
        <3>2. res[u] = outcome /\ \A v \in Endpoint : v # u => res[v] = result[v]
            BY <2>3, <3>1
        <3>3. res \in [Endpoint -> Outcomes]
            BY <2>3, <3>1
        <3>4. ASSUME NEW v \in Endpoint
              PROVE  /\ res[v] = "skip" => v \in Skipped
                     /\ res[v] \in {"pending", "ok", "failed"} => v \in Testable
            <4>1. CASE v = u
                BY <2>3, <3>2, <4>1
            <4>2. CASE v # u
                BY <1>0, <3>2, <4>2 DEF ResultsOK
            <4> QED BY <4>1, <4>2
        <3> HIDE DEF res
        <3> QED BY <3>2, <3>3, <3>4 DEF ResultsOK
    <2> HIDE DEF res
    <2>5. ASSUME shown PROVE AllUnderway(res, queue, token, others)
        <3>1. ASSUME NEW v \in Endpoint, res[v] = "pending" PROVE Underway(queue, token, others, v)
            <4>1. v # u /\ result[v] = "pending"
                BY <2>4, <3>1
            <4>2. Underway(queue, token, flying, v)
                BY <1>0, <2>5, <4>1 DEF AllUnderway
            <4> QED BY <4>1, <4>2 DEF Underway
        <3> QED BY <3>1 DEF AllUnderway
    <2>6. CASE f[2] # token
        <3>1. list' = list /\ sorts' = sorts /\ watched' = watched /\ result' = result /\ queue' = queue /\ active' = active /\ flying' = others
            BY <1>6, <2>6 DEF B!ProbeEnds
        <3>2. ASSUME shown PROVE AllUnderway(result, queue, token, others)
            BY <1>0, <2>6, <3>2 DEF AllUnderway, Underway
        <3> QED BY <1>0, <2>1, <2>2, <2>6, <3>1, <3>2 DEF ProbesAre
    <2>7. CASE f[2] = token /\ ~(idle /\ B!More(res) # {})
        <3>1. /\ result' = res /\ B!Pumped(queue, active - 1, others) /\ watched' = watched
              /\ IF idle THEN list' = B!Refilled(B!Sorted(B!Offered, B!Faster(res))) /\ sorts' = IF sorts = 0 THEN 1 ELSE 2
                 ELSE list' = list /\ sorts' = sorts
            BY <1>6, <2>7 DEF B!ProbeEnds, res
        <3>2. active - 1 <= AtATime /\ FlightsOK(others, token, active - 1)
            BY <1>0, <1>1, <2>2, <2>7
        <3> HIDE DEF others
        <3>3. /\ FlightsOK(flying', token, active') /\ active' <= AtATime /\ queue' \in Seq(Testable)
              /\ active' + Len(queue') = active - 1 + Len(queue)
              /\ \A v : Underway(queue, token, others, v) => Underway(queue', token, flying', v)
            <4> DEFINE less == active - 1
            <4> HIDE DEF less
            <4>1. B!Pumped(queue, less, others) /\ FlightsOK(others, token, less) /\ less <= AtATime
                BY <3>1, <3>2 DEF less
            <4>2. /\ FlightsOK(flying', token, active') /\ active' <= AtATime /\ queue' \in Seq(Testable)
                  /\ active' + Len(queue') = less + Len(queue)
                  /\ \A v : Underway(queue, token, others, v) => Underway(queue', token, flying', v)
                BY <1>0, <4>1, PumpedIs
            <4> QED BY <4>2 DEF less
        <3>4. shown => AllUnderway(result', queue', token, flying')
            BY <2>5, <3>1, <3>3 DEF AllUnderway
        <3> DEFINE best == B!Sorted(B!Offered, B!Faster(res))
        <3>5. ASSUME shown, idle
              PROVE  /\ Enough(res) /\ best \in Seq(Endpoint) /\ Len(best) = Cardinality(B!Offered)
                     /\ FastestFirst(best, res)
            <4>1. B!More(res) = {}
                BY <2>7, <3>5
            <4>2. AllUnderway(res, <<>>, token, others) /\ FlightsOK(others, token, 0)
                BY <2>5, <3>2, <3>5
            <4> QED BY <2>4, <4>1, <4>2, RoundIsOver
        <3>6. idle => active' = 0 /\ queue' = <<>>
            <4> SUFFICES ASSUME idle PROVE active' = 0 /\ queue' = <<>>
                OBVIOUS
            <4>1. active' \in Nat /\ queue' \in Seq(Testable)
                BY <3>3 DEF FlightsOK
            <4>2. active = 1 /\ Len(queue) = 0
                OBVIOUS
            <4>3. active' = 0 /\ Len(queue') = 0
                <5>1. active' + Len(queue') = 0 /\ Len(queue') \in Nat
                    BY <3>3, <4>1, <4>2
                <5> QED BY <4>1, <5>1
            <4> QED BY <4>1, <4>3
        <3>7. active' = 0 /\ queue' = <<>> => idle
            <4> SUFFICES ASSUME active' = 0, queue' = <<>> PROVE idle
                OBVIOUS
            <4>1. Len(queue') = 0 /\ Len(queue) \in Nat /\ active >= 1
                BY <1>0, <2>2, <2>7
            <4>2. active = 1 /\ Len(queue) = 0
                BY <1>0, <3>3, <4>1
            <4> QED BY <1>0, <4>2
        <3>10. shown /\ shown'
            BY <1>0, <2>1, <2>2, <2>7
        <3> HIDE DEF idle, best
        <3>8. CASE shown /\ idle
            <4>1. ListOK(list', sorts') /\ Leading(list', sorts', res)
                <5>1. list' = B!Refilled(best) /\ sorts' = IF sorts = 0 THEN 1 ELSE 2
                    BY <3>1, <3>8 DEF best
                <5> QED BY <1>0, <3>5, <3>8, <5>1, RefilledIs
            <4>2. Settled(list', sorts', result', queue', active')
                BY <3>1, <3>5, <3>8, <4>1 DEF Settled
            <4> QED BY <1>0, <2>1, <2>4, <3>1, <3>3, <3>4, <3>10, <4>1, <4>2 DEF ProbesAre
        <3>9. CASE ~idle
            <4>1. list' = list /\ sorts' = sorts
                BY <3>1, <3>9
            <4>2. Settled(list', sorts', result', queue', active')
                BY <3>7, <3>9 DEF Settled
            <4> QED BY <1>0, <2>1, <2>4, <3>1, <3>3, <3>4, <3>10, <4>1, <4>2 DEF ProbesAre
        <3> QED BY <3>8, <3>9, <3>10
    <2>8. CASE f[2] = token /\ idle /\ B!More(res) # {}
        <3>1. /\ result' = B!Marked(res, B!More(res)) /\ B!Pumped(B!Queued(queue, B!More(res)), 0, others)
              /\ watched' = watched \ B!More(res) /\ list' = list /\ sorts' = sorts
            BY <1>6, <2>8 DEF B!ProbeEnds, res
        <3>2. B!More(res) \in SUBSET B!Offered /\ B!More(res) \subseteq B!Offered \ Skipped
            BY <2>4, MoreIs
        <3>3. FlightsOK(others, token, 0)
            BY <2>2, <2>8
        <3> HIDE DEF others
        <3>4. /\ FlightsOK(flying', token, active') /\ active' <= AtATime /\ queue' \in Seq(Testable) /\ ResultsOK(result')
              /\ AllUnderway(res, queue, token, others) => AllUnderway(result', queue', token, flying')
              /\ active' = 0 /\ queue' = <<>> => B!More(res) \subseteq Skipped
            BY <1>0, <1>1, <2>4, <3>1, <3>2, <3>3, RoundGoesOn
        <3>5. ~(active' = 0 /\ queue' = <<>>)
            BY <2>8, <3>2, <3>4
        <3>6. Settled(list', sorts', result', queue', active')
            BY <3>5 DEF Settled
        <3>7. watched' \subseteq B!Offered
            BY <1>0, <3>1
        <3>8. shown'
            BY <1>0, <2>1, <2>2, <2>8
        <3> QED BY <1>0, <2>1, <2>5, <3>1, <3>4, <3>6, <3>7, <3>8 DEF ProbesAre
    <2> QED BY <2>6, <2>7, <2>8
<1>7. CASE UNCHANGED probes
    <2>1. /\ shown' = shown /\ list' = list /\ sorts' = sorts /\ watched' = watched /\ result' = result /\ queue' = queue /\ active' = active
          /\ token' = token /\ flying' = flying
        BY <1>7 DEF probes
    <2> QED BY <2>1 DEF ProbesOK
<1> HIDE DEF Next1
<1>8. ASSUME B!Next PROVE Next1
    BY <1>2, <1>3, <1>4, <1>5, <1>6, <1>8 DEF B!Next
<1> QED BY <1>7, <1>8 DEF Next1

LEMMA ProbesHold == ProbesOK => WorkingOnesAreOnScreen
<1> SUFFICES ASSUME ProbesOK PROVE WorkingOnesAreOnScreen
    OBVIOUS
<1>0. /\ FlightsOK(flying, token, active) /\ active <= AtATime
      /\ shown => Settled(list, sorts, result, queue, active)
    BY DEF ProbesOK, ProbesAre
<1>1. active = B!Cardinality({f \in flying : f[2] = token})
    BY <1>0, SizesAre DEF FlightsOK, TestsUnder
<1>2. /\ B!Tested = Finished(result) /\ B!Working = WorkingIn(result) /\ B!Offered \ Skipped = Testable
      /\ B!Cardinality(B!Working) = Cardinality(B!Working)
    BY SizesAre DEF B!Tested, B!Working, Finished, WorkingIn, Testable
<1>3. ASSUME B!Resting PROVE Enough(result) /\ Leading(list, sorts, result)
    BY <1>0, <1>2, <1>3 DEF B!Resting, Settled
<1>4. B!Resting => B!Cardinality(B!Working) >= WantWorking \/ B!Offered \ Skipped \subseteq B!Tested
    BY <1>2, <1>3 DEF Enough
<1>5. \A rows : B!FastestFirst(rows) = FastestFirst(rows, result)
    BY <1>2 DEF FastestFirst, B!FastestFirst
<1>6. B!Resting => (sorts = 1 => B!FastestFirst(list)) /\ (B!FastestFirst(list) \/ B!FastestFirst(B!Behind(list)))
    BY <1>3, <1>5 DEF Leading
<1> QED BY <1>0, <1>1, <1>4, <1>6 DEF WorkingOnesAreOnScreen, B!WorkingOnesAreOnScreen

\* However many endpoints, tests at a time and lists: a page that tests no more has found as many working endpoints
\* as it looks for or has tested all it can, and after a list's first round shows them first, the fastest on top, after a
\* later one there or behind "Show more" (profile.js:1041-1075); the tests under way are those counted, never more than
\* allowed, whatever was tested for an earlier list (profile.js:1024-1040).
THEOREM WorkingOnesAreAlwaysOnScreen == ClientsSpec => []WorkingOnesAreOnScreen
<1>1. ClientsInit => ProbesOK
    BY ProbesBegin DEF ClientsInit
<1>2. ProbesOK /\ [ClientsNext]_everything => ProbesOK'
    <2> SUFFICES ASSUME ProbesOK, [ClientsNext]_everything PROVE ProbesOK'
        OBVIOUS
    <2>1. [B!Next]_probes
        BY DEF ClientsNext, everything
    <2>2. ProbesAre(shown', list', sorts', watched', result', queue', active', token', flying')
        BY <2>1, ProbesStep
    <2> QED BY <2>2 DEF ProbesOK, ProbesAre, FlightsOK, TestsUnder, ResultsOK, AllUnderway, Underway, Settled, Enough, Leading,
                        FastestFirst, ListOK, WorkingIn, Finished
<1> QED BY <1>1, <1>2, ProbesHold, PTL DEF ClientsSpec
=============================================================================
