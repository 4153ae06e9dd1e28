---------------------------- MODULE DurableMarks ----------------------------
(***************************************************************************)
(* What the private-RPC list promises, without its writer: a set that is   *)
(* learnt while the process is up, a copy of it that only ever grows and   *)
(* never holds anything that was not learnt, and a restart that resumes    *)
(* from the copy (src/src/store/privateRpcStore.js, lines 7-15).      *)
(***************************************************************************)
CONSTANT Url

VARIABLES up, known, kept

vars == <<up, known, kept>>

Init == /\ up = TRUE
        /\ known = {}
        /\ kept = {}

\* The process finds out that some URLs are private.
Learn == /\ up
         /\ \E U \in SUBSET (Url \ known) : known' = known \cup U
         /\ UNCHANGED <<up, kept>>

\* Part of what is known becomes durable; nothing durable is given up.
Keep == /\ up
        /\ \E U \in SUBSET (known \ kept) : kept' = kept \cup U
        /\ UNCHANGED <<up, known>>

\* What was only in memory is gone.
Stop == /\ up
        /\ up' = FALSE
        /\ known' = {}
        /\ UNCHANGED kept

\* The new process knows exactly what was durable.
Resume == /\ ~up
          /\ up' = TRUE
          /\ known' = kept
          /\ UNCHANGED kept

Next == Learn \/ Keep \/ Stop \/ Resume

Spec == Init /\ [][Next]_vars
=============================================================================
