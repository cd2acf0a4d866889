--------------------------- MODULE BroadcastProofs ---------------------------
(* The send implements SendPromise for every set of peers.                    *)
(*                                                                            *)
(* The inductive invariant says where the tasks and the verifier may still    *)
(* run, that an acceptance keeps the transaction registered, and that what the*)
(* verifier and the result say is backed by an acceptance, by a node or by    *)
(* another transaction that was taken for this one.                           *)
EXTENDS Broadcast, TLAPS

\* Tasks and verifier run only inside the task group, and the user is told
\* nothing before the end.
TasksEndFirst ==
    /\ phase # "running" => \A p \in Peer : task[p] \in {"off", "done"}
    /\ phase # "running" => verifier \in {"off"} \cup Verdicts
    /\ phase # "done" <=> outcome = "none"

\* From the registration on the txid is tracked until the group has ended, and
\* after that if a peer has accepted.
RegistrationHolds ==
    /\ phase \in {"preparing", "running"} => tracked /\ persisted
    /\ accepts > 0 => phase \in {"running", "result", "done"} /\ tracked /\ persisted

\* The verifier has read no acceptance that did not happen, and is content only
\* with evidence.
VerifierIsHonest ==
    /\ verifier \in {"deciding", "check", "recheck"} => seen.accepts <= accepts
    /\ verifier = "verified" => accepts > 0 \/ held \/ mistaken

\* The result speaks of the attempt that has just ended.
ResultIsHonest ==
    /\ phase \in {"result", "retrying"} => result.accepts = accepts
    /\ phase = "result" /\ accepts > 0 => result.verified
    /\ phase = "result" /\ result.verified => accepts > 0 \/ held \/ mistaken
    /\ phase = "retrying" => result.accepts = 0

\* The retry is the second attempt, and there is no third.
AttemptsAreCounted ==
    /\ phase = "idle" => attempt = 0
    /\ phase = "retrying" => attempt = 1

\* The first acceptance has been announced, or its task is about to do it.
FirstIsAnnounced ==
    phase = "running" /\ accepts > 0 => shown \/ \E p \in Peer : task[p] = "announcing"

Honest == /\ TasksEndFirst /\ RegistrationHolds /\ VerifierIsHonest /\ ResultIsHonest
          /\ AttemptsAreCounted /\ FirstIsAnnounced /\ SentHasEvidence /\ AcceptedIsTracked

IInv == TypeOK /\ Honest

-----------------------------------------------------------------------------
(* Types                                                                     *)

\* Each step keeps the types.
LEMMA TypeStep ==
    ASSUME TypeOK, AttemptsAreCounted, [Next]_vars
    PROVE  TypeOK'
  <1> USE DEF TypeOK, AttemptsAreCounted, NoResult, Verdicts, network, world, counters, tracking, answer
  <1>1. ASSUME NEW p \in Peer, Accept(p) PROVE TypeOK'
    <2>1. phase' \in {"idle", "preparing", "running", "result", "retrying", "done"} /\ attempt' \in 0..2
      BY <1>1 DEF Accept, Answered, MayKeep
    <2>2. task' \in [Peer -> {"off", "sending", "announcing", "doubling", "done"}]
      BY <1>1 DEF Accept, Answered, MayKeep
    <2>3. held' \in BOOLEAN /\ mistaken' \in BOOLEAN /\ timedOut' \in BOOLEAN
      BY <1>1 DEF Accept, Answered, MayKeep
    <2>4. accepts' \in Nat /\ dups' \in Nat /\ rejects' \in Nat
      BY <1>1 DEF Accept, Answered, MayKeep
    <2>5. verifier' \in {"off", "waiting", "settling", "deciding", "check", "recheck"} \cup Verdicts
      BY <1>1 DEF Accept, Answered, MayKeep
    <2>6. seen' \in [accepts : Nat, dups : Nat, rejects : Nat]
      BY <1>1 DEF Accept, Answered, MayKeep
    <2>7. tracked' \in BOOLEAN /\ persisted' \in BOOLEAN /\ height' \in BOOLEAN /\ shown' \in BOOLEAN
      BY <1>1 DEF Accept, Answered, MayKeep
    <2>8. result' \in [verified : BOOLEAN, accepts : Nat, rejects : Nat, attempted : BOOLEAN]
      BY <1>1 DEF Accept, Answered, MayKeep
    <2>9. outcome' \in {"none", "sent", "rejected", "lied", "unreachable", "failed", "error"}
      BY <1>1 DEF Accept, Answered, MayKeep
    <2> QED BY <2>1, <2>2, <2>3, <2>4, <2>5, <2>6, <2>7, <2>8, <2>9
  <1>2. ASSUME NEW p \in Peer, Reject(p) PROVE TypeOK'
    <2>1. phase' \in {"idle", "preparing", "running", "result", "retrying", "done"} /\ attempt' \in 0..2
      BY <1>2 DEF Reject, Answered
    <2>2. task' \in [Peer -> {"off", "sending", "announcing", "doubling", "done"}]
      BY <1>2 DEF Reject, Answered
    <2>3. held' \in BOOLEAN /\ mistaken' \in BOOLEAN /\ timedOut' \in BOOLEAN
      BY <1>2 DEF Reject, Answered
    <2>4. accepts' \in Nat /\ dups' \in Nat /\ rejects' \in Nat
      BY <1>2 DEF Reject, Answered
    <2>5. verifier' \in {"off", "waiting", "settling", "deciding", "check", "recheck"} \cup Verdicts
      BY <1>2 DEF Reject, Answered
    <2>6. seen' \in [accepts : Nat, dups : Nat, rejects : Nat]
      BY <1>2 DEF Reject, Answered
    <2>7. tracked' \in BOOLEAN /\ persisted' \in BOOLEAN /\ height' \in BOOLEAN /\ shown' \in BOOLEAN
      BY <1>2 DEF Reject, Answered
    <2>8. result' \in [verified : BOOLEAN, accepts : Nat, rejects : Nat, attempted : BOOLEAN]
      BY <1>2 DEF Reject, Answered
    <2>9. outcome' \in {"none", "sent", "rejected", "lied", "unreachable", "failed", "error"}
      BY <1>2 DEF Reject, Answered
    <2> QED BY <2>1, <2>2, <2>3, <2>4, <2>5, <2>6, <2>7, <2>8, <2>9
  <1>3. ASSUME NEW p \in Peer, Duplicate(p) PROVE TypeOK'
    <2>1. phase' \in {"idle", "preparing", "running", "result", "retrying", "done"} /\ attempt' \in 0..2
      BY <1>3 DEF Duplicate, Answered, MayKeep
    <2>2. task' \in [Peer -> {"off", "sending", "announcing", "doubling", "done"}]
      BY <1>3 DEF Duplicate, Answered, MayKeep
    <2>3. held' \in BOOLEAN /\ mistaken' \in BOOLEAN /\ timedOut' \in BOOLEAN
      BY <1>3 DEF Duplicate, Answered, MayKeep
    <2>4. accepts' \in Nat /\ dups' \in Nat /\ rejects' \in Nat
      BY <1>3 DEF Duplicate, Answered, MayKeep
    <2>5. verifier' \in {"off", "waiting", "settling", "deciding", "check", "recheck"} \cup Verdicts
      BY <1>3 DEF Duplicate, Answered, MayKeep
    <2>6. seen' \in [accepts : Nat, dups : Nat, rejects : Nat]
      BY <1>3 DEF Duplicate, Answered, MayKeep
    <2>7. tracked' \in BOOLEAN /\ persisted' \in BOOLEAN /\ height' \in BOOLEAN /\ shown' \in BOOLEAN
      BY <1>3 DEF Duplicate, Answered, MayKeep
    <2>8. result' \in [verified : BOOLEAN, accepts : Nat, rejects : Nat, attempted : BOOLEAN]
      BY <1>3 DEF Duplicate, Answered, MayKeep
    <2>9. outcome' \in {"none", "sent", "rejected", "lied", "unreachable", "failed", "error"}
      BY <1>3 DEF Duplicate, Answered, MayKeep
    <2> QED BY <2>1, <2>2, <2>3, <2>4, <2>5, <2>6, <2>7, <2>8, <2>9
  <1>4. ASSUME NEW p \in Peer, Fail(p) PROVE TypeOK'
    <2>1. phase' \in {"idle", "preparing", "running", "result", "retrying", "done"} /\ attempt' \in 0..2
      BY <1>4 DEF Fail, Answered, MayKeep
    <2>2. task' \in [Peer -> {"off", "sending", "announcing", "doubling", "done"}]
      BY <1>4 DEF Fail, Answered, MayKeep
    <2>3. held' \in BOOLEAN /\ mistaken' \in BOOLEAN /\ timedOut' \in BOOLEAN
      BY <1>4 DEF Fail, Answered, MayKeep
    <2>4. accepts' \in Nat /\ dups' \in Nat /\ rejects' \in Nat
      BY <1>4 DEF Fail, Answered, MayKeep
    <2>5. verifier' \in {"off", "waiting", "settling", "deciding", "check", "recheck"} \cup Verdicts
      BY <1>4 DEF Fail, Answered, MayKeep
    <2>6. seen' \in [accepts : Nat, dups : Nat, rejects : Nat]
      BY <1>4 DEF Fail, Answered, MayKeep
    <2>7. tracked' \in BOOLEAN /\ persisted' \in BOOLEAN /\ height' \in BOOLEAN /\ shown' \in BOOLEAN
      BY <1>4 DEF Fail, Answered, MayKeep
    <2>8. result' \in [verified : BOOLEAN, accepts : Nat, rejects : Nat, attempted : BOOLEAN]
      BY <1>4 DEF Fail, Answered, MayKeep
    <2>9. outcome' \in {"none", "sent", "rejected", "lied", "unreachable", "failed", "error"}
      BY <1>4 DEF Fail, Answered, MayKeep
    <2> QED BY <2>1, <2>2, <2>3, <2>4, <2>5, <2>6, <2>7, <2>8, <2>9
  <1>5. ASSUME NEW p \in Peer, Announce(p) PROVE TypeOK'
    BY <1>5 DEF Announce, Pending
  <1>6. ASSUME NEW p \in Peer, AnnounceDuplicate(p) PROVE TypeOK'
    <2>1. phase' \in {"idle", "preparing", "running", "result", "retrying", "done"} /\ attempt' \in 0..2
      BY <1>6 DEF AnnounceDuplicate, Pending
    <2>2. task' \in [Peer -> {"off", "sending", "announcing", "doubling", "done"}]
      BY <1>6 DEF AnnounceDuplicate, Pending
    <2>3. held' \in BOOLEAN /\ mistaken' \in BOOLEAN /\ timedOut' \in BOOLEAN
      BY <1>6 DEF AnnounceDuplicate, Pending
    <2>4. accepts' \in Nat /\ dups' \in Nat /\ rejects' \in Nat
      BY <1>6 DEF AnnounceDuplicate, Pending
    <2>5. verifier' \in {"off", "waiting", "settling", "deciding", "check", "recheck"} \cup Verdicts
      BY <1>6 DEF AnnounceDuplicate, Pending
    <2>6. seen' \in [accepts : Nat, dups : Nat, rejects : Nat]
      BY <1>6 DEF AnnounceDuplicate, Pending
    <2>7. tracked' \in BOOLEAN /\ persisted' \in BOOLEAN /\ height' \in BOOLEAN /\ shown' \in BOOLEAN
      BY <1>6 DEF AnnounceDuplicate, Pending
    <2>8. result' \in [verified : BOOLEAN, accepts : Nat, rejects : Nat, attempted : BOOLEAN]
      BY <1>6 DEF AnnounceDuplicate, Pending
    <2>9. outcome' \in {"none", "sent", "rejected", "lied", "unreachable", "failed", "error"}
      BY <1>6 DEF AnnounceDuplicate, Pending
    <2> QED BY <2>1, <2>2, <2>3, <2>4, <2>5, <2>6, <2>7, <2>8, <2>9
  <1>7. ASSUME Wake PROVE TypeOK'
    BY <1>7 DEF Wake
  <1>8. ASSUME Settle PROVE TypeOK'
    <2>1. phase' \in {"idle", "preparing", "running", "result", "retrying", "done"} /\ attempt' \in 0..2
      BY <1>8 DEF Settle
    <2>2. task' \in [Peer -> {"off", "sending", "announcing", "doubling", "done"}]
      BY <1>8 DEF Settle
    <2>3. held' \in BOOLEAN /\ mistaken' \in BOOLEAN /\ timedOut' \in BOOLEAN
      BY <1>8 DEF Settle
    <2>4. accepts' \in Nat /\ dups' \in Nat /\ rejects' \in Nat
      BY <1>8 DEF Settle
    <2>5. verifier' \in {"off", "waiting", "settling", "deciding", "check", "recheck"} \cup Verdicts
      BY <1>8 DEF Settle
    <2>6. seen' \in [accepts : Nat, dups : Nat, rejects : Nat]
      BY <1>8 DEF Settle
    <2>7. tracked' \in BOOLEAN /\ persisted' \in BOOLEAN /\ height' \in BOOLEAN /\ shown' \in BOOLEAN
      BY <1>8 DEF Settle
    <2>8. result' \in [verified : BOOLEAN, accepts : Nat, rejects : Nat, attempted : BOOLEAN]
      BY <1>8 DEF Settle
    <2>9. outcome' \in {"none", "sent", "rejected", "lied", "unreachable", "failed", "error"}
      BY <1>8 DEF Settle
    <2> QED BY <2>1, <2>2, <2>3, <2>4, <2>5, <2>6, <2>7, <2>8, <2>9
  <1>9. ASSUME Decide PROVE TypeOK'
    BY <1>9 DEF Decide, Verify
  <1>10. ASSUME Found PROVE TypeOK'
    <2>1. phase' \in {"idle", "preparing", "running", "result", "retrying", "done"} /\ attempt' \in 0..2
      BY <1>10 DEF Found, Verify
    <2>2. task' \in [Peer -> {"off", "sending", "announcing", "doubling", "done"}]
      BY <1>10 DEF Found, Verify
    <2>3. held' \in BOOLEAN /\ mistaken' \in BOOLEAN /\ timedOut' \in BOOLEAN
      BY <1>10 DEF Found, Verify
    <2>4. accepts' \in Nat /\ dups' \in Nat /\ rejects' \in Nat
      BY <1>10 DEF Found, Verify
    <2>5. verifier' \in {"off", "waiting", "settling", "deciding", "check", "recheck"} \cup Verdicts
      BY <1>10 DEF Found, Verify
    <2>6. seen' \in [accepts : Nat, dups : Nat, rejects : Nat]
      BY <1>10 DEF Found, Verify
    <2>7. tracked' \in BOOLEAN /\ persisted' \in BOOLEAN /\ height' \in BOOLEAN /\ shown' \in BOOLEAN
      BY <1>10 DEF Found, Verify
    <2>8. result' \in [verified : BOOLEAN, accepts : Nat, rejects : Nat, attempted : BOOLEAN]
      BY <1>10 DEF Found, Verify
    <2>9. outcome' \in {"none", "sent", "rejected", "lied", "unreachable", "failed", "error"}
      BY <1>10 DEF Found, Verify
    <2> QED BY <2>1, <2>2, <2>3, <2>4, <2>5, <2>6, <2>7, <2>8, <2>9
  <1>11. ASSUME NotFound PROVE TypeOK'
    BY <1>11 DEF NotFound, Refuted
  <1>12. ASSUME StillNotFound PROVE TypeOK'
    BY <1>12 DEF StillNotFound, Refuted
  <1>13. ASSUME TimeOut PROVE TypeOK'
    BY <1>13 DEF TimeOut
  <1>14. ASSUME BadAnchor PROVE TypeOK'
    BY <1>14 DEF BadAnchor
  <1>15. ASSUME Register PROVE TypeOK'
    <2>1. phase' \in {"idle", "preparing", "running", "result", "retrying", "done"} /\ attempt' \in 0..2
      BY <1>15 DEF Register
    <2>2. task' \in [Peer -> {"off", "sending", "announcing", "doubling", "done"}]
      BY <1>15 DEF Register
    <2>3. held' \in BOOLEAN /\ mistaken' \in BOOLEAN /\ timedOut' \in BOOLEAN
      BY <1>15 DEF Register
    <2>4. accepts' \in Nat /\ dups' \in Nat /\ rejects' \in Nat
      BY <1>15 DEF Register
    <2>5. verifier' \in {"off", "waiting", "settling", "deciding", "check", "recheck"} \cup Verdicts
      BY <1>15 DEF Register
    <2>6. seen' \in [accepts : Nat, dups : Nat, rejects : Nat]
      BY <1>15 DEF Register
    <2>7. tracked' \in BOOLEAN /\ persisted' \in BOOLEAN /\ height' \in BOOLEAN /\ shown' \in BOOLEAN
      BY <1>15 DEF Register
    <2>8. result' \in [verified : BOOLEAN, accepts : Nat, rejects : Nat, attempted : BOOLEAN]
      BY <1>15 DEF Register
    <2>9. outcome' \in {"none", "sent", "rejected", "lied", "unreachable", "failed", "error"}
      BY <1>15 DEF Register
    <2> QED BY <2>1, <2>2, <2>3, <2>4, <2>5, <2>6, <2>7, <2>8, <2>9
  <1>16. ASSUME NoPeers PROVE TypeOK'
    <2>1. phase' \in {"idle", "preparing", "running", "result", "retrying", "done"} /\ attempt' \in 0..2
      BY <1>16 DEF NoPeers
    <2>2. task' \in [Peer -> {"off", "sending", "announcing", "doubling", "done"}]
      BY <1>16 DEF NoPeers
    <2>3. held' \in BOOLEAN /\ mistaken' \in BOOLEAN /\ timedOut' \in BOOLEAN
      BY <1>16 DEF NoPeers
    <2>4. accepts' \in Nat /\ dups' \in Nat /\ rejects' \in Nat
      BY <1>16 DEF NoPeers
    <2>5. verifier' \in {"off", "waiting", "settling", "deciding", "check", "recheck"} \cup Verdicts
      BY <1>16 DEF NoPeers
    <2>6. seen' \in [accepts : Nat, dups : Nat, rejects : Nat]
      BY <1>16 DEF NoPeers
    <2>7. tracked' \in BOOLEAN /\ persisted' \in BOOLEAN /\ height' \in BOOLEAN /\ shown' \in BOOLEAN
      BY <1>16 DEF NoPeers
    <2>8. result' \in [verified : BOOLEAN, accepts : Nat, rejects : Nat, attempted : BOOLEAN]
      BY <1>16 DEF NoPeers
    <2>9. outcome' \in {"none", "sent", "rejected", "lied", "unreachable", "failed", "error"}
      BY <1>16 DEF NoPeers
    <2> QED BY <2>1, <2>2, <2>3, <2>4, <2>5, <2>6, <2>7, <2>8, <2>9
  <1>17. ASSUME Start PROVE TypeOK'
    <2>1. phase' \in {"idle", "preparing", "running", "result", "retrying", "done"} /\ attempt' \in 0..2
      BY <1>17 DEF Start
    <2>2. task' \in [Peer -> {"off", "sending", "announcing", "doubling", "done"}]
      BY <1>17 DEF Start
    <2>3. held' \in BOOLEAN /\ mistaken' \in BOOLEAN /\ timedOut' \in BOOLEAN
      BY <1>17 DEF Start
    <2>4. accepts' \in Nat /\ dups' \in Nat /\ rejects' \in Nat
      BY <1>17 DEF Start
    <2>5. verifier' \in {"off", "waiting", "settling", "deciding", "check", "recheck"} \cup Verdicts
      BY <1>17 DEF Start
    <2>6. seen' \in [accepts : Nat, dups : Nat, rejects : Nat]
      BY <1>17 DEF Start
    <2>7. tracked' \in BOOLEAN /\ persisted' \in BOOLEAN /\ height' \in BOOLEAN /\ shown' \in BOOLEAN
      BY <1>17 DEF Start
    <2>8. result' \in [verified : BOOLEAN, accepts : Nat, rejects : Nat, attempted : BOOLEAN]
      BY <1>17 DEF Start
    <2>9. outcome' \in {"none", "sent", "rejected", "lied", "unreachable", "failed", "error"}
      BY <1>17 DEF Start
    <2> QED BY <2>1, <2>2, <2>3, <2>4, <2>5, <2>6, <2>7, <2>8, <2>9
  <1>18. ASSUME Collect PROVE TypeOK'
    <2>1. phase' \in {"idle", "preparing", "running", "result", "retrying", "done"} /\ attempt' \in 0..2
      BY <1>18 DEF Collect, Pending, Result, Unsave
    <2>2. task' \in [Peer -> {"off", "sending", "announcing", "doubling", "done"}]
      BY <1>18 DEF Collect, Pending, Result, Unsave
    <2>3. held' \in BOOLEAN /\ mistaken' \in BOOLEAN /\ timedOut' \in BOOLEAN
      BY <1>18 DEF Collect, Pending, Result, Unsave
    <2>4. accepts' \in Nat /\ dups' \in Nat /\ rejects' \in Nat
      BY <1>18 DEF Collect, Pending, Result, Unsave
    <2>5. verifier' \in {"off", "waiting", "settling", "deciding", "check", "recheck"} \cup Verdicts
      BY <1>18 DEF Collect, Pending, Result, Unsave
    <2>6. seen' \in [accepts : Nat, dups : Nat, rejects : Nat]
      BY <1>18 DEF Collect, Pending, Result, Unsave
    <2>7. tracked' \in BOOLEAN /\ persisted' \in BOOLEAN /\ height' \in BOOLEAN /\ shown' \in BOOLEAN
      BY <1>18 DEF Collect, Pending, Result, Unsave
    <2>8. result' \in [verified : BOOLEAN, accepts : Nat, rejects : Nat, attempted : BOOLEAN]
      <3>1. Result(TRUE) \/ Result(FALSE) \/ result' = NoResult
        BY <1>18 DEF Collect
      <3>2. NoResult \in [verified : BOOLEAN, accepts : Nat, rejects : Nat, attempted : BOOLEAN]
        BY DEF NoResult
      <3>3. ASSUME NEW b \in BOOLEAN, Result(b)
            PROVE  result' \in [verified : BOOLEAN, accepts : Nat, rejects : Nat, attempted : BOOLEAN]
        BY <3>3 DEF Result
      <3> QED BY <3>1, <3>2, <3>3
    <2>9. outcome' \in {"none", "sent", "rejected", "lied", "unreachable", "failed", "error"}
      BY <1>18 DEF Collect, Pending, Result, Unsave
    <2> QED BY <2>1, <2>2, <2>3, <2>4, <2>5, <2>6, <2>7, <2>8, <2>9
  <1>19. ASSUME Retry PROVE TypeOK'
    BY <1>19 DEF Retry
  <1>20. ASSUME Unreachable PROVE TypeOK'
    BY <1>20 DEF Unreachable, Unsave
  <1>21. ASSUME Sent PROVE TypeOK'
    BY <1>21 DEF Sent
  <1>22. ASSUME Refuse PROVE TypeOK'
    <2>1. phase' \in {"idle", "preparing", "running", "result", "retrying", "done"} /\ attempt' \in 0..2
      BY <1>22 DEF Refuse, Decision
    <2>2. task' \in [Peer -> {"off", "sending", "announcing", "doubling", "done"}]
      BY <1>22 DEF Refuse, Decision
    <2>3. held' \in BOOLEAN /\ mistaken' \in BOOLEAN /\ timedOut' \in BOOLEAN
      BY <1>22 DEF Refuse, Decision
    <2>4. accepts' \in Nat /\ dups' \in Nat /\ rejects' \in Nat
      BY <1>22 DEF Refuse, Decision
    <2>5. verifier' \in {"off", "waiting", "settling", "deciding", "check", "recheck"} \cup Verdicts
      BY <1>22 DEF Refuse, Decision
    <2>6. seen' \in [accepts : Nat, dups : Nat, rejects : Nat]
      BY <1>22 DEF Refuse, Decision
    <2>7. tracked' \in BOOLEAN /\ persisted' \in BOOLEAN /\ height' \in BOOLEAN /\ shown' \in BOOLEAN
      BY <1>22 DEF Refuse, Decision
    <2>8. result' \in [verified : BOOLEAN, accepts : Nat, rejects : Nat, attempted : BOOLEAN]
      BY <1>22 DEF Refuse, Decision
    <2>9. outcome' \in {"none", "sent", "rejected", "lied", "unreachable", "failed", "error"}
      BY <1>22 DEF Refuse, Decision
    <2> QED BY <2>1, <2>2, <2>3, <2>4, <2>5, <2>6, <2>7, <2>8, <2>9
  <1>23. CASE UNCHANGED vars
    BY <1>23 DEF vars, network, world, counters, tracking, answer
  <1> QED
    BY <1>1, <1>2, <1>3, <1>4, <1>5, <1>6, <1>7, <1>8, <1>9, <1>10, <1>11,
       <1>12, <1>13, <1>14, <1>15, <1>16, <1>17, <1>18, <1>19, <1>20,
       <1>21, <1>22, <1>23
    DEF Next, PeerStep, VerifierStep, SenderStep, Done

-----------------------------------------------------------------------------
(* The inductive invariant                                                   *)

\* A send begins with nothing registered and no evidence.
LEMMA InvInit == Init => IInv
  <1>1. Init => task \in [Peer -> {"off", "sending", "announcing", "doubling", "done"}]
    BY DEF Init
  <1>2. Init => TypeOK
    <2> SUFFICES ASSUME Init PROVE TypeOK
      OBVIOUS
    <2>1. phase = "idle" /\ attempt \in 0..2 /\ accepts \in Nat /\ dups \in Nat /\ rejects \in Nat
      BY DEF Init
    <2>2. held \in BOOLEAN /\ mistaken \in BOOLEAN /\ timedOut \in BOOLEAN /\ tracked \in BOOLEAN /\ persisted \in BOOLEAN
      BY DEF Init
    <2>3. height \in BOOLEAN /\ shown \in BOOLEAN
      BY DEF Init
    <2>4. result \in [verified : BOOLEAN, accepts : Nat, rejects : Nat, attempted : BOOLEAN]
      BY DEF Init, NoResult
    <2>5. verifier = "off" /\ outcome = "none" /\ seen \in [accepts : Nat, dups : Nat, rejects : Nat]
      BY DEF Init
    <2> QED BY <1>1, <2>1, <2>2, <2>3, <2>4, <2>5 DEF TypeOK
  <1>3. Init => Honest
    BY DEF Init, Honest, Verdicts, TasksEndFirst, RegistrationHolds, VerifierIsHonest,
           ResultIsHonest, AttemptsAreCounted, FirstIsAnnounced, SentHasEvidence,
           AcceptedIsTracked, NoResult
  <1> QED BY <1>2, <1>3 DEF IInv

\* Each step reports only what a peer or a node has said, or the verifier mistook.
LEMMA HonestStep ==
    ASSUME IInv, [Next]_vars
    PROVE  Honest'
  <1> USE DEF IInv, Honest, TypeOK, NoResult, Verdicts, TasksEndFirst, RegistrationHolds,
              VerifierIsHonest, ResultIsHonest, FirstIsAnnounced, SentHasEvidence,
              AttemptsAreCounted,
              AcceptedIsTracked, network, world, counters, tracking, answer
  <1>1. ASSUME NEW p \in Peer, Accept(p) PROVE Honest'
    BY <1>1 DEF Accept, Answered, MayKeep
  <1>2. ASSUME NEW p \in Peer, Reject(p) PROVE Honest'
    BY <1>2 DEF Reject, Answered
  <1>3. ASSUME NEW p \in Peer, Duplicate(p) PROVE Honest'
    BY <1>3 DEF Duplicate, Answered, MayKeep
  <1>4. ASSUME NEW p \in Peer, Fail(p) PROVE Honest'
    BY <1>4 DEF Fail, Answered, MayKeep
  <1>5. ASSUME NEW p \in Peer, Announce(p) PROVE Honest'
    BY <1>5 DEF Announce, Pending
  <1>6. ASSUME NEW p \in Peer, AnnounceDuplicate(p) PROVE Honest'
    BY <1>6 DEF AnnounceDuplicate, Pending
  <1>7. ASSUME Wake PROVE Honest'
    BY <1>7 DEF Wake
  <1>8. ASSUME Settle PROVE Honest'
    BY <1>8 DEF Settle
  <1>9. ASSUME Decide PROVE Honest'
    BY <1>9 DEF Decide, Verify
  <1>10. ASSUME Found PROVE Honest'
    BY <1>10 DEF Found, Verify
  <1>11. ASSUME NotFound PROVE Honest'
    BY <1>11 DEF NotFound, Refuted
  <1>12. ASSUME StillNotFound PROVE Honest'
    BY <1>12 DEF StillNotFound, Refuted
  <1>13. ASSUME TimeOut PROVE Honest'
    BY <1>13 DEF TimeOut
  <1>14. ASSUME BadAnchor PROVE Honest'
    BY <1>14 DEF BadAnchor
  <1>15. ASSUME Register PROVE Honest'
    BY <1>15 DEF Register
  <1>16. ASSUME NoPeers PROVE Honest'
    BY <1>16 DEF NoPeers
  <1>17. ASSUME Start PROVE Honest'
    BY <1>17 DEF Start
  <1>18. ASSUME Collect PROVE Honest'
    <2>1. Finished /\ phase' = "result" /\ UNCHANGED <<attempt, timedOut, task, world, counters,
                                                      verifier, seen, outcome>>
      BY <1>18 DEF Collect
    <2>2. CASE /\ ~TxIdKnown /\ result' = NoResult
               /\ Pending /\ UNCHANGED height
      <3>1. accepts = 0 /\ verifier # "verified"
        BY <2>2 DEF TxIdKnown
      <3> QED BY <2>1, <2>2, <3>1 DEF Finished, Pending
    <2>3. CASE verifier = "verified" /\ Result(TRUE) /\ UNCHANGED tracking
      BY <2>1, <2>3 DEF Finished, Result
    <2>4. CASE /\ verifier # "verified" /\ rejects > 0 /\ accepts = 0
               /\ Result(FALSE) /\ tracked' = FALSE /\ Unsave /\ UNCHANGED shown
      BY <2>1, <2>4 DEF Finished, Result, Unsave
    <2>5. CASE verifier # "verified" /\ accepts > 0 /\ Result(TRUE) /\ UNCHANGED tracking
      BY <2>1, <2>5 DEF Finished, Result
    <2>6. CASE /\ verifier # "verified" /\ rejects = 0 /\ accepts = 0
               /\ Result(FALSE) /\ UNCHANGED tracking
      BY <2>1, <2>6 DEF Finished, Result
    <2> QED BY <1>18, <2>2, <2>3, <2>4, <2>5, <2>6 DEF Collect
  <1>19. ASSUME Retry PROVE Honest'
    BY <1>19 DEF Retry, Unreached
  <1>20. ASSUME Unreachable PROVE Honest'
    BY <1>20 DEF Unreachable, Unreached, Unsave
  <1>21. ASSUME Sent PROVE Honest'
    BY <1>21 DEF Sent, Unreached, Decision
  <1>22. ASSUME Refuse PROVE Honest'
    BY <1>22 DEF Refuse, Unreached, Decision
  <1>23. CASE UNCHANGED vars
    BY <1>23 DEF vars, network, world, counters, tracking, answer
  <1> QED
    BY <1>1, <1>2, <1>3, <1>4, <1>5, <1>6, <1>7, <1>8, <1>9, <1>10, <1>11,
       <1>12, <1>13, <1>14, <1>15, <1>16, <1>17, <1>18, <1>19, <1>20,
       <1>21, <1>22, <1>23
    DEF Next, PeerStep, VerifierStep, SenderStep, Done

\* Each step keeps the invariant.
LEMMA InvStep ==
    ASSUME IInv, [Next]_vars
    PROVE  IInv'
  BY TypeStep, HonestStep DEF IInv, Honest

-----------------------------------------------------------------------------
(* The step of the promise that a step of the send takes                     *)

\* A send that has not begun has promised nothing.
LEMMA PromiseInit == Init => Promise!Init
  BY DEF Init, Promise!Init, Evidence, Answer

\* Each step of the send is a step of the promise, or is not seen by it.
LEMMA PromiseStep ==
    ASSUME IInv, [Next]_vars
    PROVE  [Promise!Next]_(Promise!vars)
  <1> USE DEF IInv, Honest, TypeOK, NoResult, Verdicts, TasksEndFirst, RegistrationHolds,
              VerifierIsHonest, ResultIsHonest, Evidence, Answer,
              network, world, counters, tracking, answer,
              Promise!Next, Promise!vars, Promise!Track, Promise!Reach, Promise!Drop,
              Promise!Sent, Promise!NotSent
  <1>1. ASSUME NEW p \in Peer, Accept(p) PROVE [Promise!Next]_(Promise!vars)
    BY <1>1 DEF Accept, Answered, MayKeep
  <1>2. ASSUME NEW p \in Peer, Reject(p) PROVE [Promise!Next]_(Promise!vars)
    BY <1>2 DEF Reject, Answered
  <1>3. ASSUME NEW p \in Peer, Duplicate(p) PROVE [Promise!Next]_(Promise!vars)
    BY <1>3 DEF Duplicate, Answered, MayKeep
  <1>4. ASSUME NEW p \in Peer, Fail(p) PROVE [Promise!Next]_(Promise!vars)
    BY <1>4 DEF Fail, Answered, MayKeep
  <1>5. ASSUME NEW p \in Peer, Announce(p) PROVE [Promise!Next]_(Promise!vars)
    BY <1>5 DEF Announce, Pending
  <1>6. ASSUME NEW p \in Peer, AnnounceDuplicate(p) PROVE [Promise!Next]_(Promise!vars)
    BY <1>6 DEF AnnounceDuplicate, Pending
  <1>7. ASSUME Wake PROVE [Promise!Next]_(Promise!vars)
    BY <1>7 DEF Wake
  <1>8. ASSUME Settle PROVE [Promise!Next]_(Promise!vars)
    BY <1>8 DEF Settle
  <1>9. ASSUME Decide PROVE [Promise!Next]_(Promise!vars)
    BY <1>9 DEF Decide, Verify
  <1>10. ASSUME Found PROVE [Promise!Next]_(Promise!vars)
    BY <1>10 DEF Found, Verify
  <1>11. ASSUME NotFound PROVE [Promise!Next]_(Promise!vars)
    BY <1>11 DEF NotFound, Refuted
  <1>12. ASSUME StillNotFound PROVE [Promise!Next]_(Promise!vars)
    BY <1>12 DEF StillNotFound, Refuted
  <1>13. ASSUME TimeOut PROVE [Promise!Next]_(Promise!vars)
    BY <1>13 DEF TimeOut
  <1>14. ASSUME BadAnchor PROVE [Promise!Next]_(Promise!vars)
    BY <1>14 DEF BadAnchor
  <1>15. ASSUME Register PROVE [Promise!Next]_(Promise!vars)
    BY <1>15 DEF Register
  <1>16. ASSUME NoPeers PROVE [Promise!Next]_(Promise!vars)
    BY <1>16 DEF NoPeers
  <1>17. ASSUME Start PROVE [Promise!Next]_(Promise!vars)
    BY <1>17 DEF Start
  <1>18. ASSUME Collect PROVE [Promise!Next]_(Promise!vars)
    <2>1. Finished /\ phase' = "result" /\ UNCHANGED <<attempt, timedOut, task, world, counters,
                                                      verifier, seen, outcome>>
      BY <1>18 DEF Collect
    <2>2. CASE /\ ~TxIdKnown /\ result' = NoResult
               /\ Pending /\ UNCHANGED height
      <3>1. accepts = 0 /\ verifier # "verified"
        BY <2>2 DEF TxIdKnown
      <3> QED BY <2>1, <2>2, <3>1 DEF Finished, Pending
    <2>3. CASE verifier = "verified" /\ Result(TRUE) /\ UNCHANGED tracking
      BY <2>1, <2>3 DEF Finished, Result
    <2>4. CASE /\ verifier # "verified" /\ rejects > 0 /\ accepts = 0
               /\ Result(FALSE) /\ tracked' = FALSE /\ Unsave /\ UNCHANGED shown
      <3>1. Answer = "none" /\ Evidence \notin {"accepted", "doubted"} /\ tracked' = FALSE
        BY <2>1, <2>4 DEF Finished
      <3>2. UNCHANGED <<Evidence, Answer>>
        BY <2>1
      <3> QED BY ONLY <3>1, <3>2 DEF Promise!Next, Promise!Drop
    <2>5. CASE verifier # "verified" /\ accepts > 0 /\ Result(TRUE) /\ UNCHANGED tracking
      BY <2>1, <2>5 DEF Finished, Result
    <2>6. CASE /\ verifier # "verified" /\ rejects = 0 /\ accepts = 0
               /\ Result(FALSE) /\ UNCHANGED tracking
      BY <2>1, <2>6 DEF Finished, Result
    <2> QED BY <1>18, <2>2, <2>3, <2>4, <2>5, <2>6 DEF Collect
  <1>19. ASSUME Retry PROVE [Promise!Next]_(Promise!vars)
    BY <1>19 DEF Retry, Unreached
  <1>20. ASSUME Unreachable PROVE [Promise!Next]_(Promise!vars)
    BY <1>20 DEF Unreachable, Unreached, Unsave
  <1>21. ASSUME Sent PROVE [Promise!Next]_(Promise!vars)
    BY <1>21 DEF Sent, Unreached, Decision
  <1>22. ASSUME Refuse PROVE [Promise!Next]_(Promise!vars)
    BY <1>22 DEF Refuse, Unreached, Decision
  <1>23. CASE UNCHANGED vars
    BY <1>23 DEF vars, network, world, counters, tracking, answer
  <1> QED
    BY <1>1, <1>2, <1>3, <1>4, <1>5, <1>6, <1>7, <1>8, <1>9, <1>10, <1>11,
       <1>12, <1>13, <1>14, <1>15, <1>16, <1>17, <1>18, <1>19, <1>20,
       <1>21, <1>22, <1>23
    DEF Next, PeerStep, VerifierStep, SenderStep, Done

-----------------------------------------------------------------------------
(* The theorems                                                              *)

\* The invariant from which the other theorems follow: the tasks and the verifier
\* of broadcastTransactionWithProgress() run only inside its task group, an
\* acceptance keeps the registration, and every verdict has evidence.
THEOREM InductiveInvariant == Spec => []IInv
  <1>1. Init => IInv
    BY InvInit
  <1>2. IInv /\ [Next]_vars => IInv'
    BY InvStep
  <1> QED
    BY <1>1, <1>2, PTL DEF Spec

\* The variables of the send keep their types, for any set of peers.
THEOREM TypeCorrect == Spec => []TypeOK
  <1>1. IInv => TypeOK
    BY DEF IInv
  <1> QED
    BY <1>1, InductiveInvariant, PTL

\* sendShieldedWithProgress() reports a transaction as sent only if a peer accepted
\* it, a node has it, or requestTransaction() took another transaction for it, for
\* any set of peers.
THEOREM SaysSentWithEvidence == Spec => []SentHasEvidence
  <1>1. IInv => SentHasEvidence
    BY DEF IInv, Honest
  <1> QED
    BY <1>1, InductiveInvariant, PTL

\* What one peer has accepted stays in the pending set and in UserDefaults whatever
\* the others answer and the verifier finds, and is reported as sent unless the
\* verifier refuted it.
THEOREM AcceptedStaysTracked == Spec => []AcceptedIsTracked
  <1>1. IInv => AcceptedIsTracked
    BY DEF IInv, Honest
  <1> QED
    BY <1>1, InductiveInvariant, PTL

\* The send implements SendPromise: it tracks the transaction before a peer can
\* have it, speaks of it as sent only with evidence (which may be a mistake of the
\* verifier), forgets only what no peer accepted, and refuses only that or what the
\* verifier doubts.
THEOREM SendKeepsPromise == Spec => KeepsPromise
  <1>1. Init => Promise!Init
    BY PromiseInit
  <1>2. IInv /\ [Next]_vars => [Promise!Next]_(Promise!vars)
    BY PromiseStep
  <1> QED
    BY <1>1, <1>2, InductiveInvariant, PTL DEF Spec, KeepsPromise, Promise!Spec
=============================================================================
