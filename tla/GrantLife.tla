----------------------------- MODULE GrantLife -----------------------------
(***************************************************************************)
(* What the OAuth endpoints promise of a grant (src/src/auth/oauth.js,     *)
(* lines 6-15): a licensee offers it to one connector, the connector takes *)
(* it up at most once, and once it is over it stays over.                  *)
(***************************************************************************)
CONSTANTS Grant, Client, Key, Unowned

VARIABLES stage, owner

vars == <<stage, owner>>

Init == /\ stage = [g \in Grant |-> "none"]
        /\ owner = [g \in Grant |-> Unowned]

\* Key k approves connector c.
Offer(g, c, k) == /\ stage[g] = "none"
                  /\ stage' = [stage EXCEPT ![g] = "offered"]
                  /\ owner' = [owner EXCEPT ![g] = <<c, k>>]

\* Some grants are taken up, and some end: several may, when a request clears
\* away what has expired.
Advance == /\ \E T \in SUBSET {g \in Grant : stage[g] = "offered"},
                 E \in SUBSET {g \in Grant : stage[g] \in {"offered", "live"}} :
                 /\ T \cap E = {} /\ T \cup E # {}
                 /\ stage' = [g \in Grant |-> IF g \in T THEN "live"
                                              ELSE IF g \in E THEN "over" ELSE stage[g]]
           /\ UNCHANGED owner

Next == \/ \E g \in Grant, c \in Client, k \in Key : Offer(g, c, k)
        \/ Advance

Spec == Init /\ [][Next]_vars
=============================================================================
