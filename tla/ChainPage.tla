------------------------------ MODULE ChainPage ------------------------------
(***************************************************************************)
(* Where the reader of the dashboard is: the tab, the detail drawer, the   *)
(* profile page of a network, and the address that names them              *)
(* (src/public/app.js 606-793, 4018-4760, 6323-6410; profile.js 67-336).   *)
(* The address is applied at the start, on Back and Forward, and whenever  *)
(* the list of networks has been loaded, which may be twice: a copy kept   *)
(* by the browser, then the answer of the API.  Each opening asks for its  *)
(* parts, and their answers may come after the reader has moved on.        *)
(*                                                                         *)
(* A handler runs to its end, so the page is one record and a handler an   *)
(* operator on it.  The answers of different parts meet in nothing, so a   *)
(* behaviour follows the requests of one part, and those of the others are *)
(* not recorded.  Left out: filters and drawing, and the minute for which  *)
(* a profile's answers are kept and read again (profile.js:42-49).         *)
(***************************************************************************)
EXTENDS Integers, Sequences

CONSTANTS
    Chain, Client,   \* what a drawer can be opened on
    Listed,          \* the networks the list has
    None,
    Kept,            \* BOOLEAN's values for: the browser has kept a list
    MaxOpenings,     \* bound: drawers and profiles opened
    MaxHistory       \* bound: entries of the browser's history

PageAssumption == Listed \subseteq Chain /\ None \notin Chain \cup Client

VARIABLES page

vars == <<page>>

DefaultView == "overview"
Views == {"overview", "networks", "chain"}

\* profilePathId and the parameters: an address is of a profile or of a view.
Addresses ==
    [profile : {None}, view : Views \ {"chain"}, chain : Chain \cup {None}, client : {None}]
        \cup [profile : {None}, view : {DefaultView}, chain : {None}, client : Client]
        \cup [profile : Chain, view : {DefaultView}, chain : {None}, client : {None}]

\* What a drawer on a network asks for, what a profile does (its cards are one
\* part: they are guarded alike), and what a behaviour follows.
DrawerParts == {"rpc", "detail", "forks", "clients", "forum", "software"}
ProfileParts == {"header", "probes", "card", "forum", "software"}
Followed == {{x} : x \in DrawerParts \cup {"probes", "card", "client"}} \cup {{"header", "refresh"}}

\* bulk: how many lists were applied.  opened counts openings of the drawer, and
\* is the one whose parts its panel holds; token counts renderings of a profile.
\* settled: where the part followed has its answer.
Blank(address, parts) ==
    [view |-> DefaultView, chain |-> None, client |-> None, profile |-> None,
     history |-> <<address>>, at |-> 1,
     bulk |-> 0, failed |-> FALSE, loading |-> TRUE,
     opened |-> 0, clientSeq |-> 0, panel |-> {}, head |-> None, asked |-> {},
     follows |-> parts, settled |-> {}, feed |-> TRUE,
     token |-> 0, rendered |-> None, renderedBulk |-> 0, header |-> 0, profileHead |-> None]

-----------------------------------------------------------------------------
(* Address and history                                                     *)

OnProfile(p) == p.view = "chain" /\ p.profile # None

AddressOf(p) ==
    IF OnProfile(p) THEN [profile |-> p.profile, view |-> DefaultView, chain |-> None, client |-> None]
                    ELSE [profile |-> None, view |-> p.view, chain |-> p.chain, client |-> p.client]

UpdateUrl(p) == [p EXCEPT !.history[p.at] = AddressOf(p)]

\* updateUrl({ push: true }): what Forward would have shown is gone.
PushUrl(p) == [p EXCEPT !.history = Append(SubSeq(p.history, 1, p.at), AddressOf(p)), !.at = p.at + 1]

\* Mutant: the drawer is forgotten.
ProfileOnScreen(p, c) == p.view = "chain" /\ p.profile = c

ChainOnScreen(p, c) == p.chain = c \/ (p.view = "chain" /\ p.profile = c)

-----------------------------------------------------------------------------
(* The drawer                                                              *)

\* The panel keeps its content, hidden.
Hide(p) == [p EXCEPT !.chain = None, !.client = None, !.head = None]

CloseDrawer(p) == UpdateUrl(Hide(p))

\* The client feed is not asked once it is known to be absent (loadNetworkClients).
Ask(p, requests) ==
    [p EXCEPT !.asked = @ \cup {r \in requests : r.kind \in p.follows /\ (p.feed \/ r.kind # "software")}]

\* "rpc" starts the block-head poller of the drawer, which it stops first; the
\* others fill a box of their own.
OpenChainDetail(p, c, fromUrl) ==
    LET open == Ask([p EXCEPT !.chain = c, !.client = None, !.head = None,
                              !.opened = p.opened + 1, !.panel = {p.opened + 1}, !.settled = @ \ {"drawer"}],
                    {[kind |-> x, on |-> "drawer", of |-> c, opening |-> p.opened + 1] : x \in DrawerParts})
    IN IF c \notin Listed \/ p.bulk = 0 THEN p ELSE IF fromUrl THEN open ELSE UpdateUrl(open)

OpenClientDetail(p, x, fromUrl) ==
    LET open == Ask([p EXCEPT !.chain = None, !.client = x, !.head = None, !.opened = p.opened + 1,
                              !.clientSeq = p.opened + 1, !.panel = {p.opened + 1}, !.settled = @ \ {"drawer"}],
                    {[kind |-> "client", on |-> "drawer", of |-> x, opening |-> p.opened + 1]})
    IN IF fromUrl THEN open ELSE UpdateUrl(open)

-----------------------------------------------------------------------------
(* The profile page                                                        *)

LeaveChainProfile(p) == [p EXCEPT !.profileHead = None]

SwitchView(p, v) ==
    LET view == IF v = "chain" /\ p.profile = None THEN DefaultView ELSE v
    IN [IF p.view = "chain" /\ view # "chain" THEN LeaveChainProfile(p) ELSE p EXCEPT !.view = view]

\* Of the parts of a profile, "header" draws the header of this list's
\* generation, and "probes" starts the block-head poller of the page.
RenderChainProfile(p, c) ==
    Ask([p EXCEPT !.token = p.token + 1, !.rendered = c, !.renderedBulk = p.bulk, !.header = p.bulk,
                  !.failed = @ /\ p.bulk = 0, !.profileHead = None, !.settled = @ \ {"page"}],
        {[kind |-> x, on |-> "page", of |-> c, opening |-> p.token + 1, bulk |-> p.bulk] : x \in ProfileParts})

\* What a newer list feeds is drawn again, and the rest of the page kept.
RefreshProfileBulk(p) ==
    Ask([p EXCEPT !.renderedBulk = p.bulk],
        {[kind |-> "refresh", on |-> "page", of |-> p.profile, opening |-> p.token, bulk |-> p.bulk]})

OpenChainProfile(p, c, fromUrl) ==
    LET same == p.view = "chain" /\ p.profile = c
        shown == SwitchView([IF p.chain # None THEN Hide(p) ELSE p EXCEPT !.profile = c], "chain")
        there == IF fromUrl THEN shown ELSE PushUrl(shown)
    IN IF same /\ fromUrl /\ p.rendered = c
       THEN IF p.renderedBulk # p.bulk THEN RefreshProfileBulk(p) ELSE p
       ELSE IF p.bulk = 0 /\ ~p.failed THEN [there EXCEPT !.rendered = None]
                                       ELSE RenderChainProfile(there, c)

\* applyUrlState.
ApplyUrlState(p) ==
    LET a == p.history[p.at]
        shown == SwitchView([p EXCEPT !.profile = None], a.view)
    IN IF a.profile # None THEN OpenChainProfile(Hide(p), a.profile, TRUE)
       ELSE IF a.chain \in Listed /\ p.bulk > 0 THEN OpenChainDetail(shown, a.chain, TRUE)
       ELSE IF a.client # None THEN OpenClientDetail(shown, a.client, TRUE)
       ELSE Hide(shown)

-----------------------------------------------------------------------------
(* The list of networks                                                    *)

ApplyBulk(p) == ApplyUrlState([p EXCEPT !.bulk = p.bulk + 1])

\* DOMContentLoaded: the address is applied before there is a list, and a kept
\* list in the same turn.
Init ==
    \E a \in Addresses, kept \in Kept, parts \in Followed :
        LET started == ApplyUrlState(Blank(a, parts)) IN
        page = IF kept THEN ApplyBulk(started) ELSE started

\* loadBulk has its answer, from the API or a fallback; or the kept list is
\* still current; or every source has failed, and a page without a list says so,
\* renders the profile that waited for one, and offers to try again.
BulkArrives == page.loading /\ page' = [ApplyBulk(page) EXCEPT !.loading = FALSE]

BulkIsCurrent == page.loading /\ page.bulk > 0 /\ page' = [page EXCEPT !.loading = FALSE]

BulkFails ==
    /\ page.loading
    /\ LET p == [page EXCEPT !.loading = FALSE] IN
       page' = IF p.bulk > 0 THEN p
               ELSE IF p.view = "chain" /\ p.profile # None /\ p.rendered = None
                    THEN RenderChainProfile([p EXCEPT !.failed = TRUE], p.profile)
               ELSE [p EXCEPT !.failed = TRUE]

LoadRetry == ~page.loading /\ page.bulk = 0 /\ page' = [page EXCEPT !.loading = TRUE]

-----------------------------------------------------------------------------
(* The reader                                                              *)

MayOpen == page.opened + page.token < MaxOpenings
MayPush == page.at < MaxHistory

ClicksTab(v) == v # page.view /\ MayPush /\ page' = PushUrl(SwitchView(page, v))
ClicksChain(c) == MayOpen /\ page.bulk > 0 /\ page' = OpenChainDetail(page, c, FALSE)
ClicksClient(x) == MayOpen /\ page' = OpenClientDetail(page, x, FALSE)
ClicksProfile(c) == MayOpen /\ MayPush /\ page' = OpenChainProfile(page, c, FALSE)
ClosesDrawer == (page.chain # None \/ page.client # None) /\ page' = CloseDrawer(page)

\* popstate.
Goes(step) ==
    /\ page.at + step \in 1..Len(page.history)
    /\ MayOpen
    /\ page' = ApplyUrlState([page EXCEPT !.at = @ + step])

-----------------------------------------------------------------------------
(* Answers                                                                 *)

Without(r) == [page EXCEPT !.asked = @ \ {r}]

\* The box is the one of its opening: of an older one, it is off the screen.
Settled(r) ==
    IF r.opening = IF r.on = "drawer" THEN page.opened ELSE page.token
    THEN [Without(r) EXCEPT !.settled = @ \cup {r.on}] ELSE Without(r)

\* live() of a rendering.
Live(r) == r.opening = page.token /\ page.view = "chain" /\ page.profile = r.of

\* loadLiveRpc, whose chain the drawer must still show: with endpoints a poller
\* is started that writes to the head cell of this opening (every network here has
\* endpoints).
RpcAnswers(r) ==
    /\ r.kind = "rpc"
    /\ page' = IF page.chain = r.of THEN [Settled(r) EXCEPT !.head = [of |-> r.of, opening |-> r.opening]]
                                    ELSE Without(r)

\* What cannot be had is drawn from the list.
LoadChainDetail(r) == r.kind = "detail" /\ page' = IF page.chain = r.of THEN Settled(r) ELSE Without(r)

LoadChainHardforks(r) == r.kind = "forks" /\ page' = IF page.chain = r.of THEN Settled(r) ELSE Without(r)

LoadLiveClients(r) == r.kind = "clients" /\ page' = IF page.chain = r.of THEN Settled(r) ELSE Without(r)

\* Of the drawer or of the page, whichever shows the network.
LoadForumNews(r) == r.kind = "forum" /\ page' = IF ChainOnScreen(page, r.of) THEN Settled(r) ELSE Without(r)

LoadNetworkClients(r) == r.kind = "software" /\ page' = IF ChainOnScreen(page, r.of) THEN Settled(r) ELSE Without(r)

\* 404: there is no client feed, and no section to fill (setClientFeedConfigured).
FeedIsAbsent(r) == r.kind = "software" /\ page' = [Settled(r) EXCEPT !.feed = FALSE]

\* Only the newest opening draws, into the panel that has its loading line.
Current(r) == r.opening = page.clientSeq /\ page.client # None /\ r.opening = page.opened

ClientAnswers(r) ==
    /\ r.kind = "client"
    /\ page' = IF Current(r) THEN [Settled(r) EXCEPT !.panel = @ \cup {r.opening}] ELSE Without(r)

ProbesAnswer(r) ==
    /\ r.kind = "probes"
    /\ page' = IF Live(r) THEN [Settled(r) EXCEPT !.profileHead = [of |-> r.of, opening |-> r.opening]]
                          ELSE Without(r)

\* Relations, clients seen, hardforks, events, data quality.
CardAnswers(r) == r.kind = "card" /\ page' = IF Live(r) THEN Settled(r) ELSE Without(r)

\* A header drawn for a newer list is left alone by the answer to an older one.
OfItsBulk(r) == page.renderedBulk = r.bulk

DetailAnswers(r) ==
    /\ r.kind = "header"
    /\ page' = IF ~Live(r) THEN Without(r)
               ELSE IF OfItsBulk(r) THEN [Settled(r) EXCEPT !.header = r.bulk] ELSE Settled(r)

RefreshAnswers(r) ==
    /\ r.kind = "refresh"
    /\ page' = IF page.view = "chain" /\ page.token = r.opening THEN [Without(r) EXCEPT !.header = page.bulk]
                                                                ELSE Without(r)

Answer(r) ==
    \/ RpcAnswers(r) \/ LoadChainDetail(r) \/ LoadChainHardforks(r) \/ LoadLiveClients(r)
    \/ LoadForumNews(r) \/ LoadNetworkClients(r) \/ FeedIsAbsent(r) \/ ClientAnswers(r)
    \/ ProbesAnswer(r) \/ CardAnswers(r) \/ DetailAnswers(r) \/ RefreshAnswers(r)

Next ==
    \/ BulkArrives \/ BulkIsCurrent \/ BulkFails \/ LoadRetry
    \/ \E v \in Views \ {"chain"} : ClicksTab(v)
    \/ \E c \in Chain : ClicksChain(c) \/ ClicksProfile(c)
    \/ \E x \in Client : ClicksClient(x)
    \/ ClosesDrawer
    \/ \E step \in {-1, 1} : Goes(step)
    \/ \E r \in page.asked : Answer(r)

Spec == Init /\ [][Next]_vars

-----------------------------------------------------------------------------
(* Properties                                                              *)

\* Copying the address copies the screen, and a list that loads late moves
\* nobody: once there is a list, applying the address would show the tab, the
\* profile and, off a profile, the drawer that are shown (app.js:761-793, 502-535).
ScreenMatchesAddress ==
    page.bulk > 0 =>
        LET a == page.history[page.at]
            there == ApplyUrlState(page)
        IN /\ OnProfile(page) <=> a.profile # None
           /\ OnProfile(page) => page.profile = a.profile
           /\ page.view = there.view
           /\ a.profile = None => page.chain = there.chain /\ page.client = there.client

\* "A slow answer for a chain no longer shown is dropped" (app.js:630-635): the
\* pollers are of what is shown, the panel holds the parts of one opening, and a
\* header is of the newest list it was drawn for.
LateAnswersStayOff ==
    /\ page.head # None => page.chain = page.head.of
    /\ page.profileHead # None => OnProfile(page) /\ page.profileHead = [of |-> page.profile, opening |-> page.token]
    /\ page.panel \subseteq {page.opened}
    /\ /\ page.bulk > 0 /\ OnProfile(page) /\ "refresh" \in page.follows
       /\ {r \in page.asked : r.kind = "refresh"} = {}
       => page.header = page.renderedBulk

\* "Each section fetches on its own and fills in when it answers" (profile.js:9-11):
\* of what is on the screen no part waits for an answer that was dropped, whatever
\* the reader opened, left and came back to meanwhile (app.js:4187-4193).
NothingWaitsForDroppedAnswer ==
    LET Awaits(on, opening, parts) ==
            \A kind \in parts \cap page.follows :
                \/ on \in page.settled \/ (kind = "software" /\ ~page.feed)
                \/ \E r \in page.asked : r.kind = kind /\ r.on = on /\ r.opening = opening
    IN  /\ page.chain # None => Awaits("drawer", page.opened, DrawerParts)
        /\ page.client # None => Awaits("drawer", page.opened, {"client"})
        /\ OnProfile(page) /\ page.rendered = page.profile => Awaits("page", page.token, ProfileParts)

\* "Already showing this chain (history, or applyBulk re-applying the URL): keep
\* the page as it is -- expanded sections, an open drawer" (profile.js:69-70).
BulkKeepsDrawer ==
    [][page'.bulk = page.bulk + 1 /\ page.rendered # None /\ OnProfile(page) =>
          page'.chain = page.chain /\ page'.client = page.client]_vars

=============================================================================
