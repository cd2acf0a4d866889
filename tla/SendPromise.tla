----------------------------- MODULE SendPromise -----------------------------
(* What the send of a transaction promises, without its peers and its timers:  *)
(* the wallet tracks the transaction before anybody can have it, it says       *)
(* "sent" only with evidence from the network, and what a peer has accepted    *)
(* stays tracked, and is not reported as unsent if nobody doubted it.          *)
(*                                                                             *)
(* Evidence may be wrong: a verifier may have mistaken another transaction for *)
(* this one ("mistaken"), or it may have looked for an accepted transaction in *)
(* vain ("doubted").  Of a doubted transaction the promise says only that it   *)
(* stays tracked.                                                              *)

VARIABLES
    tracked,  \* the wallet will recognise the transaction in a block
    evidence, \* "none", "mistaken", "held": a node has it, "accepted": a peer said so
              \* to the wallet, "doubted": it did, and the verifier found nothing
    answer    \* what the user is told: "none", "sent", "notSent"

vars == <<tracked, evidence, answer>>

Init == tracked = FALSE /\ evidence = "none" /\ answer = "none"

\* The transaction is registered (again, for a second attempt).
Track ==
    /\ answer = "none"
    /\ tracked' = TRUE
    /\ UNCHANGED <<evidence, answer>>

\* A peer that was sent the transaction keeps it, or accepts it; the verifier may
\* be wrong about one that nobody is known to have, and doubt an accepted one.
Reach ==
    /\ tracked /\ answer = "none"
    /\ \/ evidence = "none" /\ evidence' = "mistaken"
       \/ evidence \in {"none", "mistaken"} /\ evidence' = "held"
       \/ evidence # "doubted" /\ evidence' \in {"accepted", "doubted"}
    /\ UNCHANGED <<tracked, answer>>

\* The peers that answered refuse it: it need not be tracked any longer.
Drop ==
    /\ answer = "none" /\ evidence \notin {"accepted", "doubted"}
    /\ tracked' = FALSE
    /\ UNCHANGED <<evidence, answer>>

Sent ==
    /\ answer = "none" /\ evidence # "none"
    /\ answer' = "sent"
    /\ tracked' = TRUE
    /\ UNCHANGED evidence

NotSent ==
    /\ answer = "none" /\ evidence # "accepted"
    /\ answer' = "notSent"
    /\ UNCHANGED <<tracked, evidence>>

Next == Track \/ Reach \/ Drop \/ Sent \/ NotSent

Spec == Init /\ [][Next]_vars
=============================================================================
