------------------------------ MODULE Broadcast ------------------------------
(* One send of a transaction: the tasks of broadcastTransactionWithProgress()  *)
(* of NetworkManager.swift (one for each peer, the verifier and the timeout),  *)
(* and what sendShieldedWithProgress() of WalletManager.swift makes of their   *)
(* result, with its one retry.                                                 *)
(*                                                                             *)
(* A step is the code between two suspension points; reads of the actor that   *)
(* follow each other are one step.  There is no clock: a timer that was        *)
(* started may fire at any time.  The peers are the environment: one may       *)
(* accept and drop the transaction, answer DUPLICATE for any reason (FIX #935),*)
(* or have it although the send failed.                                        *)
EXTENDS Naturals, FiniteSets

CONSTANT Peer  \* the peers the wallet knows

ASSUME PeerAssumption == IsFiniteSet(Peer) /\ Peer # {}

VARIABLES
    phase,     \* how far the send has come
    attempt,   \* calls of broadcastTransactionWithProgress()
    task,      \* the task of each peer
    held,      \* environment: some node has the transaction in its mempool
    mistaken,  \* the verifier has taken another transaction for this one
    accepts, dups, rejects,  \* BroadcastState: the counters
    verifier,  \* the task that verifies the propagation
    seen,      \* the counters as the verifier read them
    timedOut,  \* the overall timeout has fired
    tracked,   \* the txid is in pendingOutgoingTxidSet
    persisted, \* the txid is in UserDefaults
    height,    \* its mempool height is in UserDefaults
    shown,     \* pendingBroadcastTxid, with the send lock
    result,    \* BroadcastResult
    outcome    \* what the user is told

network == <<phase, attempt, timedOut>>
world == <<held, mistaken>>
counters == <<accepts, dups, rejects>>
tracking == <<tracked, persisted, height, shown>>
answer == <<result, outcome>>
vars == <<network, task, world, counters, verifier, seen, tracking, answer>>

Verdicts == {"verified", "refuted", "unsure", "cancelled"}
NoResult == [verified |-> FALSE, accepts |-> 0, rejects |-> 0, attempted |-> FALSE]

TypeOK ==
    /\ phase \in {"idle", "preparing", "running", "result", "retrying", "done"}
    /\ attempt \in 0..2
    /\ task \in [Peer -> {"off", "sending", "announcing", "doubling", "done"}]
    /\ held \in BOOLEAN /\ mistaken \in BOOLEAN
    /\ accepts \in Nat /\ dups \in Nat /\ rejects \in Nat
    /\ verifier \in {"off", "waiting", "settling", "deciding", "check", "recheck"} \cup Verdicts
    /\ seen \in [accepts : Nat, dups : Nat, rejects : Nat]
    /\ timedOut \in BOOLEAN
    /\ tracked \in BOOLEAN /\ persisted \in BOOLEAN
    /\ height \in BOOLEAN /\ shown \in BOOLEAN
    /\ result \in [verified : BOOLEAN, accepts : Nat, rejects : Nat, attempted : BOOLEAN]
    /\ outcome \in {"none", "sent", "rejected", "lied", "unreachable", "failed", "error"}

Init ==
    /\ phase = "idle" /\ attempt = 0 /\ timedOut = FALSE
    /\ task = [p \in Peer |-> "off"]
    /\ held = FALSE /\ mistaken = FALSE
    /\ accepts = 0 /\ dups = 0 /\ rejects = 0
    /\ verifier = "off" /\ seen = [accepts |-> 0, dups |-> 0, rejects |-> 0]
    /\ tracked = FALSE /\ persisted = FALSE /\ height = FALSE /\ shown = FALSE
    /\ result = NoResult /\ outcome = "none"

-----------------------------------------------------------------------------
(* Before the peers are contacted                                            *)

\* The anchor is not found: broadcastTransactionWithProgress() throws before the
\* registration.
BadAnchor ==
    /\ phase \in {"idle", "retrying"}
    /\ phase' = "done" /\ outcome' = "error"
    /\ UNCHANGED <<attempt, timedOut, task, world, counters, verifier, seen, tracking, result>>

\* Mutant of Register: the txid is registered with the first acceptance only, as
\* before FIX #702.
MutRegisterLate ==
    /\ phase \in {"idle", "retrying"}
    /\ phase' = "preparing"
    /\ attempt' = attempt + 1
    /\ UNCHANGED <<timedOut, task, world, counters, verifier, seen, tracking, answer>>

\* FIX #702 and FIX #849: the txid is registered before any peer is contacted.
Register ==
    /\ phase \in {"idle", "retrying"}
    /\ phase' = "preparing"
    /\ attempt' = attempt + 1
    /\ tracked' = TRUE /\ persisted' = TRUE
    /\ UNCHANGED <<timedOut, task, world, counters, verifier, seen, height, shown, answer>>

\* No peer is left after the waits of FIX #378, #380 and #387: it throws.
NoPeers ==
    /\ phase = "preparing"
    /\ phase' = "done" /\ outcome' = "error"
    /\ UNCHANGED <<attempt, timedOut, task, world, counters, verifier, seen, tracking, result>>

\* A fresh BroadcastState, a task for each responsive peer, and the verifier.
Start ==
    /\ phase = "preparing"
    /\ phase' = "running"
    /\ \E asked \in SUBSET Peer \ {{}} :
          task' = [p \in Peer |-> IF p \in asked THEN "sending" ELSE "done"]
    /\ accepts' = 0 /\ dups' = 0 /\ rejects' = 0
    /\ verifier' = "waiting" /\ timedOut' = FALSE
    /\ UNCHANGED <<attempt, world, seen, tracking, answer>>

-----------------------------------------------------------------------------
(* The tasks of the peers                                                    *)

\* What the peer does with the transaction.
MayKeep == held' = held \/ held' = TRUE

Answered(p, next) ==
    /\ phase = "running" /\ task[p] = "sending"
    /\ task' = [task EXCEPT ![p] = next]
    /\ UNCHANGED <<network, mistaken, verifier, seen, tracking, answer>>

\* Silence for a second: recordSuccess().  The first one announces.
Accept(p) ==
    /\ Answered(p, IF accepts = 0 THEN "announcing" ELSE "done")
    /\ accepts' = accepts + 1
    /\ MayKeep
    /\ UNCHANGED <<dups, rejects>>

\* A reject message with any other code than DUPLICATE.
Reject(p) ==
    /\ Answered(p, "done")
    /\ rejects' = rejects + 1
    /\ UNCHANGED <<held, accepts, dups>>

\* DUPLICATE: the peer has it, or the code masks a rejection.
Duplicate(p) ==
    /\ Answered(p, "doubling")
    /\ dups' = dups + 1
    /\ MayKeep
    /\ UNCHANGED <<accepts, rejects>>

\* An error, the timeout of the task or its cancellation, with the transaction
\* delivered or not.
Fail(p) ==
    /\ Answered(p, "done")
    /\ MayKeep
    /\ UNCHANGED counters

\* setPendingBroadcast()
Pending == shown' = TRUE /\ tracked' = TRUE /\ persisted' = TRUE

Announce(p) ==
    /\ task[p] = "announcing"
    /\ task' = [task EXCEPT ![p] = "done"]
    /\ Pending
    /\ UNCHANGED <<network, world, counters, verifier, seen, height, answer>>

\* FIX #935 v3: a DUPLICATE announces only beside an acceptance.
AnnounceDuplicate(p) ==
    /\ task[p] = "doubling"
    /\ task' = [task EXCEPT ![p] = "done"]
    /\ IF accepts >= 1 THEN Pending ELSE UNCHANGED <<shown, tracked, persisted>>
    /\ UNCHANGED <<network, world, counters, verifier, seen, height, answer>>

-----------------------------------------------------------------------------
(* The verifier                                                              *)

TxIdKnown == accepts + dups > 0 \/ verifier \notin {"waiting", "cancelled"}

\* Mutant of Wake: no timer, and a cancelled sleep is not noticed (try?).
MutWakeNeedsAnswer ==
    /\ verifier = "waiting" /\ accepts + dups > 0
    /\ verifier' = "settling"
    /\ UNCHANGED <<network, task, world, counters, seen, tracking, answer>>

\* A txid was reported or ten seconds are over (FIX #364); after the overall
\* timeout the sleep throws instead.
Wake ==
    /\ verifier = "waiting"
    /\ verifier' = IF accepts + dups = 0 /\ timedOut THEN "cancelled" ELSE "settling"
    /\ UNCHANGED <<network, task, world, counters, seen, tracking, answer>>

\* FIX #392: half a second later the acceptances and the duplicates are read.
Settle ==
    /\ verifier = "settling"
    /\ verifier' = "deciding"
    /\ seen' = [seen EXCEPT !.accepts = accepts, !.dups = dups]
    /\ UNCHANGED <<network, task, world, counters, tracking, answer>>

\* setVerified() and setMempoolVerified(): the height of the transaction that is
\* shown is stored.
Verify ==
    /\ verifier' = "verified"
    /\ height' = (height \/ shown)
    /\ UNCHANGED <<rejects, tracked, persisted, shown>>

\* Mutant of Decide: before FIX #835, every answer but a rejection counted, two
\* duplicates included.
MutDecideTrustsDuplicates ==
    /\ verifier = "deciding"
    /\ seen' = [seen EXCEPT !.rejects = rejects]
    /\ \/ seen.accepts + seen.dups >= 2 /\ Verify
       \/ seen.accepts + seen.dups < 2 /\ verifier' = "check" /\ UNCHANGED <<rejects, tracking>>
    /\ UNCHANGED <<network, task, world, accepts, dups, answer>>

\* A duplicate beside an acceptance (FIX #835), or three acceptances and no
\* rejection (FIX #1575), are enough; everything else is checked with the peers.
Decide ==
    /\ verifier = "deciding"
    /\ seen' = [seen EXCEPT !.rejects = rejects]
    /\ LET enough == \/ seen.dups >= 1 /\ seen.accepts >= 1
                     \/ seen.accepts >= 3 /\ rejects = 0
       IN \/ enough /\ Verify
          \/ ~enough /\ verifier' = "check" /\ UNCHANGED <<rejects, tracking>>
    /\ UNCHANGED <<network, task, world, accepts, dups, answer>>

\* verifyTxViaP2P() asks some peers with getdata, and may miss the transaction.
\* requestTransaction() takes the next "tx" message of the peer for the answer and
\* does not look at its txid: it may be another transaction.
Found ==
    /\ verifier \in {"check", "recheck"}
    /\ \/ held /\ UNCHANGED mistaken
       \/ mistaken' = TRUE
    /\ Verify
    /\ UNCHANGED <<network, task, held, accepts, dups, seen, answer>>

\* FIX #1073: a failed verification counts as a rejection.
Refuted == verifier' = "refuted" /\ rejects' = rejects + 1

NotFound ==
    /\ verifier = "check"
    /\ \/ seen.dups >= 1 /\ Refuted
       \/ /\ seen.dups = 0
          /\ seen.accepts >= 2 \/ (seen.accepts = 1 /\ seen.rejects = 0)
          /\ verifier' = "recheck" /\ UNCHANGED rejects
       \/ \* FIX #349: refused by others, and not found
          /\ seen.dups = 0 /\ seen.accepts = 1 /\ seen.rejects > 0
          /\ verifier' = "refuted" /\ UNCHANGED rejects
       \/ seen.dups = 0 /\ seen.accepts = 0 /\ verifier' = "unsure" /\ UNCHANGED rejects
    /\ UNCHANGED <<network, task, world, accepts, dups, seen, tracking, answer>>

StillNotFound ==
    /\ verifier = "recheck"
    /\ Refuted
    /\ UNCHANGED <<network, task, world, accepts, dups, seen, tracking, answer>>

-----------------------------------------------------------------------------
(* The end of the task group                                                 *)

TimeOut ==
    /\ phase = "running" /\ ~timedOut
    /\ timedOut' = TRUE
    /\ UNCHANGED <<phase, attempt, task, world, counters, verifier, seen, tracking, answer>>

Finished ==
    /\ phase = "running"
    /\ \A p \in Peer : task[p] = "done"
    /\ verifier = "verified" \/ (timedOut /\ verifier \in Verdicts)

Result(verified) ==
    result' = [verified |-> verified, accepts |-> accepts, rejects |-> rejects, attempted |-> TRUE]

\* removePendingTxidFromPersistence(), which also forgets the heights.
Unsave == persisted' = FALSE /\ height' = FALSE

\* Mutant of Collect: a rejection outweighs acceptances, as before FIX #694.
MutCollectRejectsFirst ==
    /\ Finished
    /\ phase' = "result"
    /\ \/ verifier = "verified" /\ Result(TRUE) /\ UNCHANGED tracking
       \/ /\ verifier # "verified" /\ rejects > 0
          /\ Result(FALSE)
          /\ tracked' = FALSE /\ Unsave /\ UNCHANGED shown
       \/ verifier # "verified" /\ rejects = 0 /\ Result(accepts > 0) /\ UNCHANGED tracking
    /\ UNCHANGED <<attempt, timedOut, task, world, counters, verifier, seen, outcome>>

\* The group has ended, with all its tasks; the counters decide.
Collect ==
    /\ Finished
    /\ phase' = "result"
    /\ \/ \* FIX #160: nothing is known, and the computed txid is shown
          /\ ~TxIdKnown
          /\ result' = NoResult
          /\ Pending /\ UNCHANGED height
       \/ /\ TxIdKnown /\ verifier = "verified"
          /\ Result(TRUE)
          /\ UNCHANGED tracking
       \/ \* FIX #694 and FIX #702: refused, and accepted by nobody
          /\ TxIdKnown /\ verifier # "verified" /\ rejects > 0 /\ accepts = 0
          /\ Result(FALSE)
          /\ tracked' = FALSE /\ Unsave /\ UNCHANGED shown
       \/ \* FIX #694: an acceptance is success, whatever the verifier found
          /\ TxIdKnown /\ verifier # "verified" /\ accepts > 0
          /\ Result(TRUE)
          /\ UNCHANGED tracking
       \/ \* inconclusive
          /\ TxIdKnown /\ verifier # "verified" /\ rejects = 0 /\ accepts = 0
          /\ Result(FALSE)
          /\ UNCHANGED tracking
    /\ UNCHANGED <<attempt, timedOut, task, world, counters, verifier, seen, outcome>>

-----------------------------------------------------------------------------
(* sendShieldedWithProgress()                                                *)

\* FIX #1261 looks at nothing but the counters; after the retry not even at
\* whether a peer was attempted.
Unreached ==
    /\ result.accepts = 0 /\ result.rejects = 0
    /\ attempt = 1 => result.attempted

\* Mutant of Retry: not only once.
MutRetryAgain ==
    /\ phase = "result" /\ Unreached
    /\ phase' = "retrying"
    /\ UNCHANGED <<attempt, timedOut, task, world, counters, verifier, seen, tracking, answer>>

\* Peers were reconnected: the broadcast is done once more.
Retry ==
    /\ phase = "result" /\ Unreached /\ attempt = 1
    /\ phase' = "retrying"
    /\ UNCHANGED <<attempt, timedOut, task, world, counters, verifier, seen, tracking, answer>>

\* No peer could be reconnected, or the retry reached none either.
Unreachable ==
    /\ phase = "result" /\ Unreached
    /\ phase' = "done" /\ outcome' = "unreachable"
    /\ shown' = FALSE /\ Unsave
    /\ UNCHANGED <<attempt, timedOut, task, world, counters, verifier, seen, tracked, result>>

\* The decision table of VUL-002, FIX #245, #349, #590 and #990.
Decision ==
    CASE result.verified -> "sent"
      [] ~result.verified /\ result.rejects > 0 -> "rejected"
      [] ~result.verified /\ result.rejects = 0 /\ result.accepts > 0 -> "lied"
      [] ~result.verified /\ result.rejects = 0 /\ result.accepts = 0 ->
            IF result.attempted THEN "sent" ELSE "failed"

\* trackPendingOutgoingFull()
Sent ==
    /\ phase = "result" /\ ~Unreached /\ Decision = "sent"
    /\ phase' = "done" /\ outcome' = "sent"
    /\ tracked' = TRUE /\ persisted' = TRUE
    /\ UNCHANGED <<attempt, timedOut, task, world, counters, verifier, seen, height, shown, result>>

\* clearPendingBroadcast(), and the error is thrown.
Refuse ==
    /\ phase = "result" /\ ~Unreached /\ Decision # "sent"
    /\ phase' = "done" /\ outcome' = Decision
    /\ shown' = FALSE
    /\ UNCHANGED <<attempt, timedOut, task, world, counters, verifier, seen, tracked, persisted,
                   height, result>>

-----------------------------------------------------------------------------
PeerStep(p) == \/ Accept(p) \/ Reject(p) \/ Duplicate(p) \/ Fail(p)
               \/ Announce(p) \/ AnnounceDuplicate(p)
VerifierStep == Wake \/ Settle \/ Decide \/ Found \/ NotFound \/ StillNotFound
SenderStep == \/ BadAnchor \/ Register \/ NoPeers \/ Start \/ Collect
              \/ Retry \/ Unreachable \/ Sent \/ Refuse

Done == phase = "done" /\ UNCHANGED vars

Next == (\E p \in Peer : PeerStep(p)) \/ VerifierStep \/ TimeOut \/ SenderStep \/ Done

Spec == Init /\ [][Next]_vars

\* Each task runs, each of its waits has a timer, and so has the group.
Fairness ==
    /\ \A p \in Peer : WF_vars(PeerStep(p))
    /\ WF_vars(VerifierStep) /\ WF_vars(TimeOut) /\ WF_vars(SenderStep)

FairSpec == Spec /\ Fairness

-----------------------------------------------------------------------------
(* Properties                                                                *)

\* "Sent" is said only of a transaction that a peer accepted or that a node has,
\* or after the verifier took another transaction for it: neither duplicates alone
\* (FIX #935) nor silence of all peers are enough.
SentHasEvidence == outcome = "sent" => result.accepts > 0 \/ held \/ mistaken

\* A transaction that a peer accepted stays registered, in memory and across a
\* restart, and sets the send lock by the time the result is there, whatever the
\* others and the verifier say.  It is reported as sent, unless the verifier
\* refuted it: what is said then, this property leaves open.
AcceptedIsTracked ==
    /\ accepts > 0 => tracked /\ persisted
    /\ accepts > 0 /\ phase = "result" => shown
    /\ accepts > 0 /\ verifier # "refuted" /\ phase = "done" => outcome = "sent"

\* The best evidence there is, and what the user has been told.
Evidence ==
    CASE accepts > 0 /\ verifier # "refuted" -> "accepted"
      [] accepts > 0 /\ verifier = "refuted" -> "doubted"
      [] accepts = 0 /\ held -> "held"
      [] accepts = 0 /\ ~held /\ mistaken -> "mistaken"
      [] accepts = 0 /\ ~held /\ ~mistaken -> "none"
Answer == IF outcome \in {"none", "sent"} THEN outcome ELSE "notSent"

\* The send keeps the promise of SendPromise.
Promise == INSTANCE SendPromise WITH tracked <- tracked, evidence <- Evidence, answer <- Answer
KeepsPromise == Promise!Spec

\* Every send comes to an end.
SendEnds == phase # "idle" ~> phase = "done"

\* A transaction that was verified in the network, and not by mistake, is not
\* reported as unsent.
VerifiedIsSent == phase = "done" /\ result.verified /\ ~mistaken => outcome = "sent"
=============================================================================
