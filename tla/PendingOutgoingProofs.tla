----------------------- MODULE PendingOutgoingProofs -----------------------
(* What holds of PendingOutgoing for every set of transactions and any number *)
(* of crashes: the types, that the database speaks of mined transactions only, *)
(* that the start-up repair alone deletes or undoes and what it may give up,   *)
(* that change is recognised, and what the send lock promises.                 *)
(*                                                                            *)
(* The inductive invariant adds to the types where the evidence of a block     *)
(* comes from: a confirmation is spawned only by the scanner or for a row, and *)
(* an acceptance height is stored only when the broadcast has ended well.      *)
EXTENDS PendingOutgoing, TLAPS

\* A row, a spent note and a running confirmation each stand for a mined block.
EvidenceOfBlock ==
    /\ RecordedOnlyIfMined
    /\ \A t \in Tx : confirm[t] # "idle" => chain[t] = "mined"

\* Nobody can reject a transaction whose acceptance height is stored.
AcceptedHasVerdict ==
    \A t \in Tx : t \in accepted => send[t] \notin {"idle", "registered", "announced"}

IInv == TypeOK /\ EvidenceOfBlock /\ AcceptedHasVerdict

-----------------------------------------------------------------------------
(* Rows                                                                       *)

\* INSERT OR REPLACE keeps the table well formed.
LEMMA InsertTyped ==
    ASSUME NEW t \in Tx, NEW origin \in {"full", "external", "rebuilt"}, history \subseteq Row
    PROVE  Insert(t, origin) \subseteq Row
  BY DEF Insert, RowsOf, Row

\* A step that touches only the rows of a transaction that has none under its
\* wire txid takes no row away.
LEMMA NoRowsToLose ==
    ASSUME NEW t \in Tx, history \subseteq Row, ~Recorded(t, "wire")
    PROVE  RowsOf(t) = {}
  <1> SUFFICES ASSUME NEW row \in history, row[1] = t, row[2] = "wire" PROVE FALSE
    BY DEF RowsOf
  <1>1. PICK origin \in {"full", "external", "rebuilt"} : row = <<t, "wire", origin>>
    BY DEF Row
  <1> QED BY <1>1 DEF Recorded

\* A row that is found is a row of a mined transaction.
LEMMA RecordedIsMined ==
    ASSUME RecordedOnlyIfMined, NEW t \in Tx, NEW format, Recorded(t, format)
    PROVE  chain[t] = "mined"
  BY DEF RecordedOnlyIfMined, Recorded

-----------------------------------------------------------------------------
(* The repair                                                                 *)

\* The steps of the repair that only look and decide.
Looks(t) == \/ CheckWindow(t) \/ CheckRow(t) \/ CheckMempool(t) \/ Classify(t)
            \/ Ask(t) \/ Answer(t) \/ EndRepair(t)

\* Such a step moves the repair of its transaction on and may scan its block
\* again; at the end it may clear the flag of the send lock.
LEMMA LookChanges ==
    ASSUME TypeOK, NEW t \in Tx, Looks(t)
    PROVE  /\ up /\ startup[t] # "idle"
           /\ UNCHANGED <<up, send, chain, pendingSet, actor, announce, confirm, taken, shown,
                          outgoing, forgetting, persisted, accepted, note, history, crashes,
                          forgets>>
           /\ startup' \in [Tx -> Repair] /\ \A u \in Tx \ {t} : startup'[u] = startup[u]
           /\ blind' \subseteq Tx /\ \A u \in Tx : u \in blind /\ u \notin blind' => startup'[u] = "idle"
           /\ scan' \in [Tx -> {"todo", "seen", "past"}] /\ \A u \in Tx \ {t} : scan'[u] = scan[u]
           /\ UNCHANGED blocked \/ blocked' = (blocked /\ persisted # {})
  <1> USE DEF TypeOK, Repair, Decides, memory, stable, repair
  <1>1. CASE CheckWindow(t)
    BY <1>1 DEF CheckWindow
  <1>2. CASE CheckRow(t)
    BY <1>2 DEF CheckRow
  <1>3. CASE CheckMempool(t)
    BY <1>3 DEF CheckMempool
  <1>4. CASE Classify(t)
    BY <1>4 DEF Classify
  <1>5. CASE Ask(t)
    BY <1>5 DEF Ask, Rescan
  <1>6. CASE Answer(t)
    BY <1>6 DEF Answer, Rescan
  <1>7. CASE EndRepair(t)
    BY <1>7 DEF EndRepair
  <1> QED BY <1>1, <1>2, <1>3, <1>4, <1>5, <1>6, <1>7 DEF Looks

-----------------------------------------------------------------------------
(* Types                                                                      *)

\* Each step keeps the types.
LEMMA TypeStep ==
    ASSUME TypeOK, [Next]_vars
    PROVE  TypeOK'
  <1> USE NoTxAssumption, BoundsAssumption DEF TypeOK, Entry, memory, stable, repair
  <1>1. ASSUME NEW t \in Tx, Register(t) PROVE TypeOK'
    BY <1>1 DEF Register
  <1>2. ASSUME NEW t \in Tx, Announce(t) PROVE TypeOK'
    BY <1>2 DEF Announce
  <1>3. ASSUME NEW t \in Tx, Succeed(t) PROVE TypeOK'
    BY <1>3 DEF Succeed
  <1>4. ASSUME NEW t \in Tx, Abort(t) PROVE TypeOK'
    BY <1>4 DEF Abort
  <1>5. ASSUME NEW t \in Tx, Reject(t) PROVE TypeOK'
    BY <1>5 DEF Reject, ClearShown
  <1>6. ASSUME NEW t \in Tx, Unreachable(t) PROVE TypeOK'
    BY <1>6 DEF Unreachable, ClearShown
  <1>7. ASSUME NEW t \in Tx, TrackInsert(t) PROVE TypeOK'
    BY <1>7 DEF TrackInsert
  <1>8. ASSUME NEW t \in Tx, TrackSave(t) PROVE TypeOK'
    BY <1>8 DEF TrackSave
  <1>9. ASSUME NEW t \in Tx, TrackFull(t) PROVE TypeOK'
    BY <1>9 DEF TrackFull
  <1>10. ASSUME NEW t \in Tx, TrackSimple(t) PROVE TypeOK'
    BY <1>10 DEF TrackSimple
  <1>11. ASSUME NEW t \in Tx, ConfirmGuard(t) PROVE TypeOK'
    BY <1>11 DEF ConfirmGuard
  <1>12. ASSUME NEW t \in Tx, ConfirmUnsave(t) PROVE TypeOK'
    BY <1>12 DEF ConfirmUnsave
  <1>13. ASSUME NEW t \in Tx, ConfirmTake(t) PROVE TypeOK'
    BY <1>13 DEF ConfirmTake
  <1>14. ASSUME NEW t \in Tx, ConfirmWrite(t) PROVE TypeOK'
    <2>1. Insert(t, "full") \subseteq Row BY InsertTyped
    <2>2. history' \subseteq Row /\ note' \in [Tx -> {"unspent", "spent"}]
      BY <1>14, <2>1 DEF ConfirmWrite
    <2>3. shown' \in Tx \cup {NoTx} /\ blocked' \in BOOLEAN /\ outgoing' \in BOOLEAN
      BY <1>14 DEF ConfirmWrite, ClearShown
    <2>4. confirm' \in [Tx -> {"idle", "spawned", "removed", "unsaved", "taken"}]
      BY <1>14 DEF ConfirmWrite
    <2>5. taken' \in [Tx -> {"none", "simple", "full"}]
      BY <1>14 DEF ConfirmWrite
    <2> QED BY <1>14, <2>2, <2>3, <2>4, <2>5 DEF ConfirmWrite
  <1>15. ASSUME NEW t \in Tx, Scan(t) PROVE TypeOK'
    <2>1. Insert(t, "external") \subseteq Row BY InsertTyped
    <2> QED BY <1>15, <2>1 DEF Scan
  <1>16. ASSUME NEW t \in Tx, Advance(t) PROVE TypeOK'
    BY <1>16 DEF Advance
  <1>17. ASSUME NEW t \in Tx, Lower(t) PROVE TypeOK'
    <2>1. startup' \in [Tx -> Repair]
      BY <1>17 DEF Lower, Repair
    <2>2. scan' \in [Tx -> {"todo", "seen", "past"}]
      BY <1>17 DEF Lower, Rescan
    <2> QED BY <1>17, <2>1, <2>2 DEF Lower
  <1>18. ASSUME NEW t \in Tx, Looks(t) PROVE TypeOK'
    <2>1. /\ UNCHANGED <<up, send, chain, pendingSet, actor, announce, confirm, taken, shown,
                         outgoing, forgetting, persisted, accepted, note, history, crashes,
                         forgets>>
          /\ startup' \in [Tx -> Repair] /\ blind' \subseteq Tx
          /\ scan' \in [Tx -> {"todo", "seen", "past"}]
      BY <1>18, LookChanges
    <2>2. blocked' \in BOOLEAN
      <3>1. UNCHANGED blocked \/ blocked' = (blocked /\ persisted # {})
        BY <1>18, LookChanges
      <3> QED BY <3>1, Zenon
    <2> QED BY <2>1, <2>2
  <1>28. ASSUME NEW t \in Tx, Free(t) PROVE TypeOK'
    BY <1>28 DEF Free, Repair
  <1>29. ASSUME NEW t \in Tx, DeleteRows(t) PROVE TypeOK'
    BY <1>29 DEF DeleteRows, RowsOf, Repair
  <1>30. ASSUME NEW t \in Tx, Forget(t) PROVE TypeOK'
    BY <1>30 DEF Forget, Repair
  <1>31. ASSUME NEW t \in Tx, Untrack(t) PROVE TypeOK'
    BY <1>31 DEF Untrack, Repair
  <1>19. ASSUME NEW t \in Tx, Relay(t) PROVE TypeOK'
    BY <1>19 DEF Relay
  <1>20. ASSUME NEW t \in Tx, Mine(t) PROVE TypeOK'
    BY <1>20 DEF Mine
  <1>21. ASSUME CheckPending PROVE TypeOK'
    <2>1. confirm' \in [Tx -> {"idle", "spawned", "removed", "unsaved", "taken"}]
      BY <1>21 DEF CheckPending
    <2>2. outgoing' \in BOOLEAN
      BY <1>21 DEF CheckPending
    <2> QED BY <1>21, <2>1, <2>2 DEF CheckPending
  <1>22. ASSUME Populate PROVE TypeOK'
    BY <1>22 DEF Populate, Row
  <1>23. ASSUME GiveUp PROVE TypeOK'
    <2>1. forgets' \in 0..MaxForget
      BY <1>23 DEF GiveUp
    <2>2. shown' \in Tx \cup {NoTx} /\ blocked' \in BOOLEAN /\ outgoing' \in BOOLEAN
      BY <1>23 DEF GiveUp, ClearShown
    <2> QED BY <1>23, <2>1, <2>2 DEF GiveUp
  <1>24. ASSUME ForgetAll PROVE TypeOK'
    BY <1>24 DEF ForgetAll
  <1>25. ASSUME Crash PROVE TypeOK'
    <2>1. crashes' \in 0..MaxCrash
      BY <1>25 DEF Crash
    <2>2. send' \in [Tx -> {"idle", "registered", "announced", "verdict", "inserted",
                           "saved", "tracked", "failed", "lost"}]
      BY <1>25 DEF Crash, InFlight
    <2>3. scan' \in [Tx -> {"todo", "seen", "past"}]
      BY <1>25 DEF Crash
    <2>4. /\ pendingSet' \subseteq Tx /\ announce' \subseteq Tx
          /\ actor' \in [Tx -> {"none", "simple", "full"}]
          /\ taken' \in [Tx -> {"none", "simple", "full"}]
          /\ confirm' \in [Tx -> {"idle", "spawned", "removed", "unsaved", "taken"}]
          /\ startup' \in [Tx -> Repair]
      BY <1>25 DEF Crash, Repair
    <2> QED BY <1>25, <2>1, <2>2, <2>3, <2>4 DEF Crash
  <1>26. ASSUME Restart PROVE TypeOK'
    BY <1>26 DEF Restart, Repair
  <1>27. CASE UNCHANGED vars
    BY <1>27 DEF vars
  <1> QED BY <1>1, <1>2, <1>3, <1>4, <1>5, <1>6, <1>7, <1>8, <1>9, <1>10, <1>11,
         <1>12, <1>13, <1>14, <1>15, <1>16, <1>17, <1>18, <1>19, <1>20, <1>21, <1>22,
         <1>23, <1>24, <1>25, <1>26, <1>27, <1>28, <1>29, <1>30, <1>31
      DEF Next, SendStep, ConfirmStep, ScanStep, StartupStep, Looks

\* The wallet begins with nothing sent.
LEMMA InitTyped == Init => TypeOK
  <1> SUFFICES ASSUME Init PROVE TypeOK
    OBVIOUS
  <1>1. crashes \in 0..MaxCrash /\ forgets \in 0..MaxForget
    BY BoundsAssumption DEF Init
  <1>2. up \in BOOLEAN /\ blocked \in BOOLEAN /\ outgoing \in BOOLEAN /\ forgetting \in BOOLEAN
    BY DEF Init
  <1>3. /\ send \in [Tx -> {"idle", "registered", "announced", "verdict", "inserted",
                             "saved", "tracked", "failed", "lost"}]
        /\ chain \in [Tx -> {"unsent", "relayed", "mined"}]
        /\ actor \in [Tx -> Entry] /\ taken \in [Tx -> Entry]
        /\ confirm \in [Tx -> {"idle", "spawned", "removed", "unsaved", "taken"}]
        /\ scan \in [Tx -> {"todo", "seen", "past"}]
        /\ note \in [Tx -> {"unspent", "spent"}]
        /\ startup \in [Tx -> Repair]
    BY DEF Init, Entry, Repair
  <1>4. /\ pendingSet \subseteq Tx /\ persisted \subseteq Tx /\ accepted \subseteq Tx
        /\ announce \subseteq Tx /\ blind \subseteq Tx /\ history \subseteq Row /\ shown \in Tx \cup {NoTx}
    BY DEF Init
  <1> QED BY <1>1, <1>2, <1>3, <1>4 DEF TypeOK

\* Every state keeps the types of the variables.
THEOREM TypeCorrect == Spec => []TypeOK
  <1>1. Init => TypeOK
    BY InitTyped
  <1>2. TypeOK /\ [Next]_vars => TypeOK'
    BY TypeStep
  <1> QED BY <1>1, <1>2, PTL DEF Spec

-----------------------------------------------------------------------------
(* The database speaks of mined transactions only                             *)

\* Each step records and spends only what is in a block.
LEMMA EvidenceStep ==
    ASSUME TypeOK, EvidenceOfBlock, [Next]_vars
    PROVE  EvidenceOfBlock'
  <1> USE DEF TypeOK, Entry, EvidenceOfBlock, RecordedOnlyIfMined, memory, stable, repair
  <1>1. ASSUME NEW t \in Tx, Register(t) PROVE EvidenceOfBlock'
    BY <1>1 DEF Register
  <1>2. ASSUME NEW t \in Tx, Announce(t) PROVE EvidenceOfBlock'
    BY <1>2 DEF Announce
  <1>3. ASSUME NEW t \in Tx, Succeed(t) PROVE EvidenceOfBlock'
    BY <1>3 DEF Succeed
  <1>4. ASSUME NEW t \in Tx, Abort(t) PROVE EvidenceOfBlock'
    BY <1>4 DEF Abort
  <1>5. ASSUME NEW t \in Tx, Reject(t) PROVE EvidenceOfBlock'
    BY <1>5 DEF Reject, ClearShown
  <1>6. ASSUME NEW t \in Tx, Unreachable(t) PROVE EvidenceOfBlock'
    BY <1>6 DEF Unreachable, ClearShown
  <1>7. ASSUME NEW t \in Tx, TrackInsert(t) PROVE EvidenceOfBlock'
    BY <1>7 DEF TrackInsert
  <1>8. ASSUME NEW t \in Tx, TrackSave(t) PROVE EvidenceOfBlock'
    BY <1>8 DEF TrackSave
  <1>9. ASSUME NEW t \in Tx, TrackFull(t) PROVE EvidenceOfBlock'
    BY <1>9 DEF TrackFull
  <1>10. ASSUME NEW t \in Tx, TrackSimple(t) PROVE EvidenceOfBlock'
    BY <1>10 DEF TrackSimple
  <1>11. ASSUME NEW t \in Tx, ConfirmGuard(t) PROVE EvidenceOfBlock'
    BY <1>11 DEF ConfirmGuard
  <1>12. ASSUME NEW t \in Tx, ConfirmUnsave(t) PROVE EvidenceOfBlock'
    BY <1>12 DEF ConfirmUnsave
  <1>13. ASSUME NEW t \in Tx, ConfirmTake(t) PROVE EvidenceOfBlock'
    BY <1>13 DEF ConfirmTake
  <1>14. ASSUME NEW t \in Tx, ConfirmWrite(t) PROVE EvidenceOfBlock'
    BY <1>14 DEF ConfirmWrite, Insert, RowsOf
  <1>15. ASSUME NEW t \in Tx, Scan(t) PROVE EvidenceOfBlock'
    BY <1>15 DEF Scan, Insert, RowsOf
  <1>16. ASSUME NEW t \in Tx, Advance(t) PROVE EvidenceOfBlock'
    BY <1>16 DEF Advance
  <1>17. ASSUME NEW t \in Tx, Lower(t) PROVE EvidenceOfBlock'
    BY <1>17 DEF Lower, Rescan
  <1>18. ASSUME NEW t \in Tx, Looks(t) PROVE EvidenceOfBlock'
    BY <1>18, LookChanges
  <1>28. ASSUME NEW t \in Tx, Free(t) PROVE EvidenceOfBlock'
    BY <1>28 DEF Free
  <1>29. ASSUME NEW t \in Tx, DeleteRows(t) PROVE EvidenceOfBlock'
    BY <1>29 DEF DeleteRows, RowsOf
  <1>30. ASSUME NEW t \in Tx, Forget(t) PROVE EvidenceOfBlock'
    BY <1>30 DEF Forget
  <1>31. ASSUME NEW t \in Tx, Untrack(t) PROVE EvidenceOfBlock'
    BY <1>31 DEF Untrack
  <1>19. ASSUME NEW t \in Tx, Relay(t) PROVE EvidenceOfBlock'
    BY <1>19 DEF Relay
  <1>20. ASSUME NEW t \in Tx, Mine(t) PROVE EvidenceOfBlock'
    BY <1>20 DEF Mine
  <1>21. ASSUME CheckPending PROVE EvidenceOfBlock'
    <2>1. ASSUME NEW u \in Tx, Recorded(u, "display") PROVE chain[u] = "mined"
      BY <2>1, RecordedIsMined
    <2> QED BY <1>21, <2>1 DEF CheckPending
  <1>22. ASSUME Populate PROVE EvidenceOfBlock'
    BY <1>22 DEF Populate
  <1>23. ASSUME GiveUp PROVE EvidenceOfBlock'
    BY <1>23 DEF GiveUp
  <1>24. ASSUME ForgetAll PROVE EvidenceOfBlock'
    BY <1>24 DEF ForgetAll
  <1>25. ASSUME Crash PROVE EvidenceOfBlock'
    BY <1>25 DEF Crash, InFlight
  <1>26. ASSUME Restart PROVE EvidenceOfBlock'
    BY <1>26 DEF Restart
  <1>27. CASE UNCHANGED vars
    BY <1>27 DEF vars
  <1> QED BY <1>1, <1>2, <1>3, <1>4, <1>5, <1>6, <1>7, <1>8, <1>9, <1>10, <1>11,
         <1>12, <1>13, <1>14, <1>15, <1>16, <1>17, <1>18, <1>19, <1>20, <1>21, <1>22,
         <1>23, <1>24, <1>25, <1>26, <1>27, <1>28, <1>29, <1>30, <1>31
      DEF Next, SendStep, ConfirmStep, ScanStep, StartupStep, Looks

\* Each step keeps the evidence for what was given up.
LEMMA VerdictStep ==
    ASSUME TypeOK, AcceptedHasVerdict, [Next]_vars
    PROVE  AcceptedHasVerdict'
  <1> USE DEF TypeOK, AcceptedHasVerdict, memory, stable, repair
  <1>1. ASSUME NEW t \in Tx, Register(t) PROVE AcceptedHasVerdict'
    BY <1>1 DEF Register
  <1>2. ASSUME NEW t \in Tx, Announce(t) PROVE AcceptedHasVerdict'
    BY <1>2 DEF Announce
  <1>3. ASSUME NEW t \in Tx, Succeed(t) PROVE AcceptedHasVerdict'
    BY <1>3 DEF Succeed
  <1>4. ASSUME NEW t \in Tx, Abort(t) PROVE AcceptedHasVerdict'
    BY <1>4 DEF Abort
  <1>5. ASSUME NEW t \in Tx, Reject(t) PROVE AcceptedHasVerdict'
    BY <1>5 DEF Reject, ClearShown
  <1>6. ASSUME NEW t \in Tx, Unreachable(t) PROVE AcceptedHasVerdict'
    BY <1>6 DEF Unreachable, ClearShown
  <1>7. ASSUME NEW t \in Tx, TrackInsert(t) PROVE AcceptedHasVerdict'
    BY <1>7 DEF TrackInsert
  <1>8. ASSUME NEW t \in Tx, TrackSave(t) PROVE AcceptedHasVerdict'
    BY <1>8 DEF TrackSave
  <1>9. ASSUME NEW t \in Tx, TrackFull(t) PROVE AcceptedHasVerdict'
    BY <1>9 DEF TrackFull
  <1>10. ASSUME NEW t \in Tx, TrackSimple(t) PROVE AcceptedHasVerdict'
    BY <1>10 DEF TrackSimple
  <1>11. ASSUME NEW t \in Tx, ConfirmGuard(t) PROVE AcceptedHasVerdict'
    BY <1>11 DEF ConfirmGuard
  <1>12. ASSUME NEW t \in Tx, ConfirmUnsave(t) PROVE AcceptedHasVerdict'
    BY <1>12 DEF ConfirmUnsave
  <1>13. ASSUME NEW t \in Tx, ConfirmTake(t) PROVE AcceptedHasVerdict'
    BY <1>13 DEF ConfirmTake
  <1>14. ASSUME NEW t \in Tx, ConfirmWrite(t) PROVE AcceptedHasVerdict'
    BY <1>14 DEF ConfirmWrite, Insert, RowsOf
  <1>15. ASSUME NEW t \in Tx, Scan(t) PROVE AcceptedHasVerdict'
    BY <1>15 DEF Scan, Insert, RowsOf
  <1>16. ASSUME NEW t \in Tx, Advance(t) PROVE AcceptedHasVerdict'
    BY <1>16 DEF Advance
  <1>17. ASSUME NEW t \in Tx, Lower(t) PROVE AcceptedHasVerdict'
    BY <1>17 DEF Lower, Rescan
  <1>18. ASSUME NEW t \in Tx, Looks(t) PROVE AcceptedHasVerdict'
    BY <1>18, LookChanges
  <1>28. ASSUME NEW t \in Tx, Free(t) PROVE AcceptedHasVerdict'
    BY <1>28 DEF Free
  <1>29. ASSUME NEW t \in Tx, DeleteRows(t) PROVE AcceptedHasVerdict'
    BY <1>29 DEF DeleteRows, RowsOf
  <1>30. ASSUME NEW t \in Tx, Forget(t) PROVE AcceptedHasVerdict'
    BY <1>30 DEF Forget
  <1>31. ASSUME NEW t \in Tx, Untrack(t) PROVE AcceptedHasVerdict'
    BY <1>31 DEF Untrack
  <1>19. ASSUME NEW t \in Tx, Relay(t) PROVE AcceptedHasVerdict'
    BY <1>19 DEF Relay
  <1>20. ASSUME NEW t \in Tx, Mine(t) PROVE AcceptedHasVerdict'
    BY <1>20 DEF Mine
  <1>21. ASSUME CheckPending PROVE AcceptedHasVerdict'
    BY <1>21 DEF CheckPending
  <1>22. ASSUME Populate PROVE AcceptedHasVerdict'
    BY <1>22 DEF Populate
  <1>23. ASSUME GiveUp PROVE AcceptedHasVerdict'
    BY <1>23 DEF GiveUp
  <1>24. ASSUME ForgetAll PROVE AcceptedHasVerdict'
    BY <1>24 DEF ForgetAll
  <1>25. ASSUME Crash PROVE AcceptedHasVerdict'
    BY <1>25 DEF Crash, InFlight
  <1>26. ASSUME Restart PROVE AcceptedHasVerdict'
    BY <1>26 DEF Restart
  <1>27. CASE UNCHANGED vars
    BY <1>27 DEF vars
  <1> QED BY <1>1, <1>2, <1>3, <1>4, <1>5, <1>6, <1>7, <1>8, <1>9, <1>10, <1>11,
         <1>12, <1>13, <1>14, <1>15, <1>16, <1>17, <1>18, <1>19, <1>20, <1>21, <1>22,
         <1>23, <1>24, <1>25, <1>26, <1>27, <1>28, <1>29, <1>30, <1>31
      DEF Next, SendStep, ConfirmStep, ScanStep, StartupStep, Looks

\* The three parts of the inductive invariant together.
THEOREM InductiveInvariant == Spec => []IInv
  <1>1. Init => IInv
    BY InitTyped DEF Init, IInv, EvidenceOfBlock, RecordedOnlyIfMined, AcceptedHasVerdict
  <1>2. IInv /\ [Next]_vars => IInv'
    BY TypeStep, EvidenceStep, VerdictStep DEF IInv
  <1> QED BY <1>1, <1>2, PTL DEF Spec

\* FIX #350: whatever fails, crashes or is given up, the database never holds a
\* row or a spent note of a transaction that is in no block.
THEOREM DatabaseFollowsChain == Spec => []RecordedOnlyIfMined
  <1>1. IInv => RecordedOnlyIfMined
    BY DEF IInv, EvidenceOfBlock
  <1> QED BY <1>1, InductiveInvariant, PTL

-----------------------------------------------------------------------------
(* What is written or accepted stays                                          *)

\* Insertions for another transaction, and for one that has no row, spare a row, and
\* so does the deletion of the rows of another one.
LEMMA FullRowSurvives ==
    ASSUME TypeOK, [Next]_vars, NEW u \in Tx, <<u, "wire", "full">> \in history,
           startup[u] # "freed"
    PROVE  <<u, "wire", "full">> \in history'
  <1> DEFINE Kept == <<u, "wire", "full">> \in history'
  <1> USE DEF memory, stable, repair
  <1>1. ASSUME NEW t \in Tx, Register(t) PROVE Kept
    BY <1>1 DEF Register
  <1>2. ASSUME NEW t \in Tx, Announce(t) PROVE Kept
    BY <1>2 DEF Announce
  <1>3. ASSUME NEW t \in Tx, Succeed(t) PROVE Kept
    BY <1>3 DEF Succeed
  <1>4. ASSUME NEW t \in Tx, Abort(t) PROVE Kept
    BY <1>4 DEF Abort
  <1>5. ASSUME NEW t \in Tx, Reject(t) PROVE Kept
    BY <1>5 DEF Reject, ClearShown
  <1>6. ASSUME NEW t \in Tx, Unreachable(t) PROVE Kept
    BY <1>6 DEF Unreachable, ClearShown
  <1>7. ASSUME NEW t \in Tx, TrackInsert(t) PROVE Kept
    BY <1>7 DEF TrackInsert
  <1>8. ASSUME NEW t \in Tx, TrackSave(t) PROVE Kept
    BY <1>8 DEF TrackSave
  <1>9. ASSUME NEW t \in Tx, TrackFull(t) PROVE Kept
    BY <1>9 DEF TrackFull
  <1>10. ASSUME NEW t \in Tx, TrackSimple(t) PROVE Kept
    BY <1>10 DEF TrackSimple
  <1>11. ASSUME NEW t \in Tx, ConfirmGuard(t) PROVE Kept
    BY <1>11 DEF ConfirmGuard
  <1>12. ASSUME NEW t \in Tx, ConfirmUnsave(t) PROVE Kept
    BY <1>12 DEF ConfirmUnsave
  <1>13. ASSUME NEW t \in Tx, ConfirmTake(t) PROVE Kept
    BY <1>13 DEF ConfirmTake
  <1>14. ASSUME NEW t \in Tx, ConfirmWrite(t) PROVE Kept
    BY <1>14 DEF ConfirmWrite, Insert, RowsOf
  <1>15. ASSUME NEW t \in Tx, Scan(t) PROVE Kept
    <2>1. CASE ~Recorded(t, "wire")
      <3>1. RowsOf(t) = {}
        BY <2>1, NoRowsToLose DEF TypeOK
      <3> QED BY <1>15, <3>1 DEF Scan, Insert
    <2>2. CASE Recorded(t, "wire")
      BY <1>15, <2>2 DEF Scan
    <2> QED BY <2>1, <2>2
  <1>16. ASSUME NEW t \in Tx, Advance(t) PROVE Kept
    BY <1>16 DEF Advance
  <1>17. ASSUME NEW t \in Tx, Lower(t) PROVE Kept
    BY <1>17 DEF Lower, Rescan
  <1>18. ASSUME NEW t \in Tx, Looks(t) PROVE Kept
    BY <1>18, LookChanges
  <1>28. ASSUME NEW t \in Tx, Free(t) PROVE Kept
    BY <1>28 DEF Free
  <1>29. ASSUME NEW t \in Tx, DeleteRows(t) PROVE Kept
    BY <1>29 DEF DeleteRows, RowsOf
  <1>30. ASSUME NEW t \in Tx, Forget(t) PROVE Kept
    BY <1>30 DEF Forget
  <1>31. ASSUME NEW t \in Tx, Untrack(t) PROVE Kept
    BY <1>31 DEF Untrack
  <1>19. ASSUME NEW t \in Tx, Relay(t) PROVE Kept
    BY <1>19 DEF Relay
  <1>20. ASSUME NEW t \in Tx, Mine(t) PROVE Kept
    BY <1>20 DEF Mine
  <1>21. ASSUME CheckPending PROVE Kept
    BY <1>21 DEF CheckPending
  <1>22. ASSUME Populate PROVE Kept
    BY <1>22 DEF Populate
  <1>23. ASSUME GiveUp PROVE Kept
    BY <1>23 DEF GiveUp
  <1>24. ASSUME ForgetAll PROVE Kept
    BY <1>24 DEF ForgetAll
  <1>25. ASSUME Crash PROVE Kept
    BY <1>25 DEF Crash, InFlight
  <1>26. ASSUME Restart PROVE Kept
    BY <1>26 DEF Restart
  <1>27. CASE UNCHANGED vars
    BY <1>27 DEF vars
  <1> QED BY <1>1, <1>2, <1>3, <1>4, <1>5, <1>6, <1>7, <1>8, <1>9, <1>10, <1>11,
         <1>12, <1>13, <1>14, <1>15, <1>16, <1>17, <1>18, <1>19, <1>20, <1>21, <1>22,
         <1>23, <1>24, <1>25, <1>26, <1>27, <1>28, <1>29, <1>30, <1>31
      DEF Next, SendStep, ConfirmStep, ScanStep, StartupStep, Looks

\* A row written with all that the sender knew is never rebuilt, and deleted only by
\* a repair that took the transaction for rejected before it was written.
THEOREM FullRowIsKept == Spec => FullRowStays
  <1>1. TypeOK /\ [Next]_vars =>
          [\A t \in Tx : <<t, "wire", "full">> \in history
                => <<t, "wire", "full">> \in history' \/ startup[t] = "freed"]_vars
    BY FullRowSurvives
  <1> QED BY <1>1, TypeCorrect, PTL DEF Spec, FullRowStays

-----------------------------------------------------------------------------
(* The scanner, the confirmation and the repair against the sender            *)

\* Before a send is begun nothing is known of the transaction, and the repair
\* takes up only what a crash interrupted or what has failed.
SendOrder ==
    /\ \A t \in Tx : send[t] = "idle" =>
          chain[t] = "unsent" /\ t \notin persisted /\ startup[t] = "idle"
    /\ \A t \in Tx : startup[t] # "idle" => send[t] \in {"lost", "failed"}

\* Rows are stored under the wire order of the txid only, so that the question
\* of checkPendingOutgoingConfirmations() never finds one.
WireRows == \A row \in history : row[2] = "wire"

\* A transaction in flight leaves the pending set and UserDefaults only by a
\* confirmation, which the scanner spawned when it found its block.
InFlightIsPending ==
    \A t \in Tx : send[t] \in InFlight =>
        /\ up
        /\ t \in pendingSet \/ (chain[t] = "mined" /\ scan[t] # "todo")
        /\ t \in persisted \/ chain[t] = "mined"
        /\ confirm[t] # "idle" => scan[t] # "todo"

ScanInv == SendOrder /\ WireRows /\ InFlightIsPending

\* Each step keeps the order of send and repair.
LEMMA SendOrderStep ==
    ASSUME TypeOK, InFlightIsPending, SendOrder, [Next]_vars
    PROVE  SendOrder'
  <1> USE DEF TypeOK, SendOrder, InFlightIsPending, InFlight, memory, stable, repair
  <1>1. ASSUME NEW t \in Tx, Register(t) PROVE SendOrder'
    BY <1>1 DEF Register
  <1>2. ASSUME NEW t \in Tx, Announce(t) PROVE SendOrder'
    BY <1>2 DEF Announce
  <1>3. ASSUME NEW t \in Tx, Succeed(t) PROVE SendOrder'
    BY <1>3 DEF Succeed
  <1>4. ASSUME NEW t \in Tx, Abort(t) PROVE SendOrder'
    BY <1>4 DEF Abort
  <1>5. ASSUME NEW t \in Tx, Reject(t) PROVE SendOrder'
    BY <1>5 DEF Reject, ClearShown
  <1>6. ASSUME NEW t \in Tx, Unreachable(t) PROVE SendOrder'
    BY <1>6 DEF Unreachable, ClearShown
  <1>7. ASSUME NEW t \in Tx, TrackInsert(t) PROVE SendOrder'
    BY <1>7 DEF TrackInsert
  <1>8. ASSUME NEW t \in Tx, TrackSave(t) PROVE SendOrder'
    BY <1>8 DEF TrackSave
  <1>9. ASSUME NEW t \in Tx, TrackFull(t) PROVE SendOrder'
    BY <1>9 DEF TrackFull
  <1>10. ASSUME NEW t \in Tx, TrackSimple(t) PROVE SendOrder'
    BY <1>10 DEF TrackSimple
  <1>11. ASSUME NEW t \in Tx, ConfirmGuard(t) PROVE SendOrder'
    BY <1>11 DEF ConfirmGuard
  <1>12. ASSUME NEW t \in Tx, ConfirmUnsave(t) PROVE SendOrder'
    BY <1>12 DEF ConfirmUnsave
  <1>13. ASSUME NEW t \in Tx, ConfirmTake(t) PROVE SendOrder'
    BY <1>13 DEF ConfirmTake
  <1>14. ASSUME NEW t \in Tx, ConfirmWrite(t) PROVE SendOrder'
    BY <1>14 DEF ConfirmWrite, Insert, RowsOf, ClearShown
  <1>15. ASSUME NEW t \in Tx, Scan(t) PROVE SendOrder'
    BY <1>15 DEF Scan, Insert, RowsOf
  <1>16. ASSUME NEW t \in Tx, Advance(t) PROVE SendOrder'
    BY <1>16 DEF Advance
  <1>17. ASSUME NEW t \in Tx, Lower(t) PROVE SendOrder'
    BY <1>17 DEF Lower, Rescan
  <1>18. ASSUME NEW t \in Tx, Looks(t) PROVE SendOrder'
    BY <1>18, LookChanges
  <1>28. ASSUME NEW t \in Tx, Free(t) PROVE SendOrder'
    BY <1>28 DEF Free
  <1>29. ASSUME NEW t \in Tx, DeleteRows(t) PROVE SendOrder'
    BY <1>29 DEF DeleteRows, RowsOf
  <1>30. ASSUME NEW t \in Tx, Forget(t) PROVE SendOrder'
    BY <1>30 DEF Forget
  <1>31. ASSUME NEW t \in Tx, Untrack(t) PROVE SendOrder'
    BY <1>31 DEF Untrack
  <1>19. ASSUME NEW t \in Tx, Relay(t) PROVE SendOrder'
    BY <1>19 DEF Relay
  <1>20. ASSUME NEW t \in Tx, Mine(t) PROVE SendOrder'
    BY <1>20 DEF Mine
  <1>21. ASSUME CheckPending PROVE SendOrder'
    BY <1>21 DEF CheckPending
  <1>22. ASSUME Populate PROVE SendOrder'
    BY <1>22 DEF Populate
  <1>23. ASSUME GiveUp PROVE SendOrder'
    BY <1>23 DEF GiveUp, ClearShown
  <1>24. ASSUME ForgetAll PROVE SendOrder'
    BY <1>24 DEF ForgetAll
  <1>25. ASSUME Crash PROVE SendOrder'
    BY <1>25 DEF Crash, InFlight
  <1>26. ASSUME Restart PROVE SendOrder'
    BY <1>26 DEF Restart
  <1>27. CASE UNCHANGED vars
    BY <1>27 DEF vars
  <1> QED BY <1>1, <1>2, <1>3, <1>4, <1>5, <1>6, <1>7, <1>8, <1>9, <1>10, <1>11,
         <1>12, <1>13, <1>14, <1>15, <1>16, <1>17, <1>18, <1>19, <1>20, <1>21, <1>22,
         <1>23, <1>24, <1>25, <1>26, <1>27, <1>28, <1>29, <1>30, <1>31
      DEF Next, SendStep, ConfirmStep, ScanStep, StartupStep, Looks

\* Each row that is written has the txid in wire order.
LEMMA WireRowsStep ==
    ASSUME TypeOK, WireRows, [Next]_vars
    PROVE  WireRows'
  <1> USE DEF WireRows, memory, stable, repair
  <1>1. ASSUME NEW t \in Tx, Register(t) PROVE WireRows'
    BY <1>1 DEF Register
  <1>2. ASSUME NEW t \in Tx, Announce(t) PROVE WireRows'
    BY <1>2 DEF Announce
  <1>3. ASSUME NEW t \in Tx, Succeed(t) PROVE WireRows'
    BY <1>3 DEF Succeed
  <1>4. ASSUME NEW t \in Tx, Abort(t) PROVE WireRows'
    BY <1>4 DEF Abort
  <1>5. ASSUME NEW t \in Tx, Reject(t) PROVE WireRows'
    BY <1>5 DEF Reject, ClearShown
  <1>6. ASSUME NEW t \in Tx, Unreachable(t) PROVE WireRows'
    BY <1>6 DEF Unreachable, ClearShown
  <1>7. ASSUME NEW t \in Tx, TrackInsert(t) PROVE WireRows'
    BY <1>7 DEF TrackInsert
  <1>8. ASSUME NEW t \in Tx, TrackSave(t) PROVE WireRows'
    BY <1>8 DEF TrackSave
  <1>9. ASSUME NEW t \in Tx, TrackFull(t) PROVE WireRows'
    BY <1>9 DEF TrackFull
  <1>10. ASSUME NEW t \in Tx, TrackSimple(t) PROVE WireRows'
    BY <1>10 DEF TrackSimple
  <1>11. ASSUME NEW t \in Tx, ConfirmGuard(t) PROVE WireRows'
    BY <1>11 DEF ConfirmGuard
  <1>12. ASSUME NEW t \in Tx, ConfirmUnsave(t) PROVE WireRows'
    BY <1>12 DEF ConfirmUnsave
  <1>13. ASSUME NEW t \in Tx, ConfirmTake(t) PROVE WireRows'
    BY <1>13 DEF ConfirmTake
  <1>14. ASSUME NEW t \in Tx, ConfirmWrite(t) PROVE WireRows'
    BY <1>14 DEF ConfirmWrite, Insert, RowsOf, ClearShown
  <1>15. ASSUME NEW t \in Tx, Scan(t) PROVE WireRows'
    BY <1>15 DEF Scan, Insert, RowsOf
  <1>16. ASSUME NEW t \in Tx, Advance(t) PROVE WireRows'
    BY <1>16 DEF Advance
  <1>17. ASSUME NEW t \in Tx, Lower(t) PROVE WireRows'
    BY <1>17 DEF Lower, Rescan
  <1>18. ASSUME NEW t \in Tx, Looks(t) PROVE WireRows'
    BY <1>18, LookChanges
  <1>28. ASSUME NEW t \in Tx, Free(t) PROVE WireRows'
    BY <1>28 DEF Free
  <1>29. ASSUME NEW t \in Tx, DeleteRows(t) PROVE WireRows'
    BY <1>29 DEF DeleteRows, RowsOf
  <1>30. ASSUME NEW t \in Tx, Forget(t) PROVE WireRows'
    BY <1>30 DEF Forget
  <1>31. ASSUME NEW t \in Tx, Untrack(t) PROVE WireRows'
    BY <1>31 DEF Untrack
  <1>19. ASSUME NEW t \in Tx, Relay(t) PROVE WireRows'
    BY <1>19 DEF Relay
  <1>20. ASSUME NEW t \in Tx, Mine(t) PROVE WireRows'
    BY <1>20 DEF Mine
  <1>21. ASSUME CheckPending PROVE WireRows'
    BY <1>21 DEF CheckPending
  <1>22. ASSUME Populate PROVE WireRows'
    BY <1>22 DEF Populate
  <1>23. ASSUME GiveUp PROVE WireRows'
    BY <1>23 DEF GiveUp, ClearShown
  <1>24. ASSUME ForgetAll PROVE WireRows'
    BY <1>24 DEF ForgetAll
  <1>25. ASSUME Crash PROVE WireRows'
    BY <1>25 DEF Crash, InFlight
  <1>26. ASSUME Restart PROVE WireRows'
    BY <1>26 DEF Restart
  <1>27. CASE UNCHANGED vars
    BY <1>27 DEF vars
  <1> QED BY <1>1, <1>2, <1>3, <1>4, <1>5, <1>6, <1>7, <1>8, <1>9, <1>10, <1>11,
         <1>12, <1>13, <1>14, <1>15, <1>16, <1>17, <1>18, <1>19, <1>20, <1>21, <1>22,
         <1>23, <1>24, <1>25, <1>26, <1>27, <1>28, <1>29, <1>30, <1>31
      DEF Next, SendStep, ConfirmStep, ScanStep, StartupStep, Looks

\* No step but a confirmation takes a transaction in flight from the pending set.
LEMMA InFlightStep ==
    ASSUME TypeOK, EvidenceOfBlock, ScanInv, [Next]_vars
    PROVE  InFlightIsPending'
  <1> USE DEF TypeOK, EvidenceOfBlock, ScanInv, SendOrder, InFlightIsPending, InFlight,
              memory, stable, repair
  <1>1. ASSUME NEW t \in Tx, Register(t) PROVE InFlightIsPending'
    BY <1>1 DEF Register
  <1>2. ASSUME NEW t \in Tx, Announce(t) PROVE InFlightIsPending'
    BY <1>2 DEF Announce
  <1>3. ASSUME NEW t \in Tx, Succeed(t) PROVE InFlightIsPending'
    BY <1>3 DEF Succeed
  <1>4. ASSUME NEW t \in Tx, Abort(t) PROVE InFlightIsPending'
    BY <1>4 DEF Abort
  <1>5. ASSUME NEW t \in Tx, Reject(t) PROVE InFlightIsPending'
    BY <1>5 DEF Reject, ClearShown
  <1>6. ASSUME NEW t \in Tx, Unreachable(t) PROVE InFlightIsPending'
    BY <1>6 DEF Unreachable, ClearShown
  <1>7. ASSUME NEW t \in Tx, TrackInsert(t) PROVE InFlightIsPending'
    BY <1>7 DEF TrackInsert
  <1>8. ASSUME NEW t \in Tx, TrackSave(t) PROVE InFlightIsPending'
    BY <1>8 DEF TrackSave
  <1>9. ASSUME NEW t \in Tx, TrackFull(t) PROVE InFlightIsPending'
    BY <1>9 DEF TrackFull
  <1>10. ASSUME NEW t \in Tx, TrackSimple(t) PROVE InFlightIsPending'
    BY <1>10 DEF TrackSimple
  <1>11. ASSUME NEW t \in Tx, ConfirmGuard(t) PROVE InFlightIsPending'
    BY <1>11 DEF ConfirmGuard
  <1>12. ASSUME NEW t \in Tx, ConfirmUnsave(t) PROVE InFlightIsPending'
    BY <1>12 DEF ConfirmUnsave
  <1>13. ASSUME NEW t \in Tx, ConfirmTake(t) PROVE InFlightIsPending'
    BY <1>13 DEF ConfirmTake
  <1>14. ASSUME NEW t \in Tx, ConfirmWrite(t) PROVE InFlightIsPending'
    BY <1>14 DEF ConfirmWrite, Insert, RowsOf, ClearShown
  <1>15. ASSUME NEW t \in Tx, Scan(t) PROVE InFlightIsPending'
    BY <1>15 DEF Scan, Insert, RowsOf
  <1>16. ASSUME NEW t \in Tx, Advance(t) PROVE InFlightIsPending'
    BY <1>16 DEF Advance
  <1>17. ASSUME NEW t \in Tx, Lower(t) PROVE InFlightIsPending'
    BY <1>17 DEF Lower, Rescan
  <1>18. ASSUME NEW t \in Tx, Looks(t) PROVE InFlightIsPending'
    BY <1>18, LookChanges
  <1>28. ASSUME NEW t \in Tx, Free(t) PROVE InFlightIsPending'
    BY <1>28 DEF Free
  <1>29. ASSUME NEW t \in Tx, DeleteRows(t) PROVE InFlightIsPending'
    BY <1>29 DEF DeleteRows, RowsOf
  <1>30. ASSUME NEW t \in Tx, Forget(t) PROVE InFlightIsPending'
    BY <1>30 DEF Forget
  <1>31. ASSUME NEW t \in Tx, Untrack(t) PROVE InFlightIsPending'
    BY <1>31 DEF Untrack
  <1>19. ASSUME NEW t \in Tx, Relay(t) PROVE InFlightIsPending'
    BY <1>19 DEF Relay
  <1>20. ASSUME NEW t \in Tx, Mine(t) PROVE InFlightIsPending'
    BY <1>20 DEF Mine
  <1>21. ASSUME CheckPending PROVE InFlightIsPending'
    <2>1. \A u \in Tx : ~Recorded(u, "display")
      BY DEF WireRows, Recorded
    <2> QED BY <1>21, <2>1 DEF CheckPending
  <1>22. ASSUME Populate PROVE InFlightIsPending'
    BY <1>22 DEF Populate
  <1>23. ASSUME GiveUp PROVE InFlightIsPending'
    BY <1>23 DEF GiveUp, ClearShown
  <1>24. ASSUME ForgetAll PROVE InFlightIsPending'
    BY <1>24 DEF ForgetAll
  <1>25. ASSUME Crash PROVE InFlightIsPending'
    BY <1>25 DEF Crash, InFlight
  <1>26. ASSUME Restart PROVE InFlightIsPending'
    BY <1>26 DEF Restart
  <1>27. CASE UNCHANGED vars
    BY <1>27 DEF vars
  <1> QED BY <1>1, <1>2, <1>3, <1>4, <1>5, <1>6, <1>7, <1>8, <1>9, <1>10, <1>11,
         <1>12, <1>13, <1>14, <1>15, <1>16, <1>17, <1>18, <1>19, <1>20, <1>21, <1>22,
         <1>23, <1>24, <1>25, <1>26, <1>27, <1>28, <1>29, <1>30, <1>31
      DEF Next, SendStep, ConfirmStep, ScanStep, StartupStep, Looks

\* The orders of sender, scanner, confirmation and repair, in every state.
LEMMA ScanInductive == Spec => []ScanInv
  <1>1. Init => ScanInv
    BY DEF Init, ScanInv, SendOrder, WireRows, InFlightIsPending, InFlight
  <1>2. IInv /\ ScanInv /\ [Next]_vars => ScanInv'
    BY SendOrderStep, WireRowsStep, InFlightStep DEF IInv, ScanInv
  <1> QED BY <1>1, <1>2, InductiveInvariant, PTL DEF Spec

\* FIX #366: when the scanner reaches the block of a transaction that is still
\* being sent or tracked, the txid is in the pending set and its change is not
\* taken for income, whatever the screens forget and however often the process
\* dies.
THEOREM ChangeIsAlwaysRecognised == Spec => []ChangeIsRecognised
  <1>1. ScanInv => ChangeIsRecognised
    BY DEF ScanInv, InFlightIsPending, ChangeIsRecognised
  <1> QED BY <1>1, ScanInductive, PTL

-----------------------------------------------------------------------------
(* What the repair may give up and undo                                       *)

\* The repair has looked for an acceptance, and has not begun to forget.
Looked == {"unproven", "asking", "asked", "phantom", "freed"}

\* The repair runs after a crash.  Between its look at the heights and its end the
\* transaction cannot come to be accepted; one that it found accepted it goes on
\* with only if it is blind, or if it has a row.
RepairEvidence ==
    \A t \in Tx :
        /\ startup[t] \in Looked => t \notin accepted \/ t \in blind
        /\ startup[t] = "settled" => t \notin accepted \/ t \in blind \/ chain[t] = "mined"
        /\ ~up => startup[t] = "idle"
        /\ startup[t] # "idle" \/ ~up => crashes > 0

\* Each step keeps what the repair has found out.
LEMMA RepairEvidenceStep ==
    ASSUME IInv, ScanInv, RepairEvidence, [Next]_vars
    PROVE  RepairEvidence'
  <1> USE DEF IInv, TypeOK, EvidenceOfBlock, ScanInv, SendOrder, RepairEvidence, Looked, Repair,
              memory, stable, repair
  <1>1. ASSUME NEW t \in Tx, Register(t) PROVE RepairEvidence'
    BY <1>1 DEF Register
  <1>2. ASSUME NEW t \in Tx, Announce(t) PROVE RepairEvidence'
    BY <1>2 DEF Announce
  <1>3. ASSUME NEW t \in Tx, Succeed(t) PROVE RepairEvidence'
    BY <1>3 DEF Succeed
  <1>4. ASSUME NEW t \in Tx, Abort(t) PROVE RepairEvidence'
    BY <1>4 DEF Abort
  <1>5. ASSUME NEW t \in Tx, Reject(t) PROVE RepairEvidence'
    BY <1>5 DEF Reject, ClearShown
  <1>6. ASSUME NEW t \in Tx, Unreachable(t) PROVE RepairEvidence'
    BY <1>6 DEF Unreachable, ClearShown
  <1>7. ASSUME NEW t \in Tx, TrackInsert(t) PROVE RepairEvidence'
    BY <1>7 DEF TrackInsert
  <1>8. ASSUME NEW t \in Tx, TrackSave(t) PROVE RepairEvidence'
    BY <1>8 DEF TrackSave
  <1>9. ASSUME NEW t \in Tx, TrackFull(t) PROVE RepairEvidence'
    BY <1>9 DEF TrackFull
  <1>10. ASSUME NEW t \in Tx, TrackSimple(t) PROVE RepairEvidence'
    BY <1>10 DEF TrackSimple
  <1>11. ASSUME NEW t \in Tx, ConfirmGuard(t) PROVE RepairEvidence'
    BY <1>11 DEF ConfirmGuard
  <1>12. ASSUME NEW t \in Tx, ConfirmUnsave(t) PROVE RepairEvidence'
    BY <1>12 DEF ConfirmUnsave
  <1>13. ASSUME NEW t \in Tx, ConfirmTake(t) PROVE RepairEvidence'
    BY <1>13 DEF ConfirmTake
  <1>14. ASSUME NEW t \in Tx, ConfirmWrite(t) PROVE RepairEvidence'
    BY <1>14 DEF ConfirmWrite
  <1>15. ASSUME NEW t \in Tx, Scan(t) PROVE RepairEvidence'
    BY <1>15 DEF Scan
  <1>16. ASSUME NEW t \in Tx, Advance(t) PROVE RepairEvidence'
    BY <1>16 DEF Advance
  <1>17. ASSUME NEW t \in Tx, Lower(t) PROVE RepairEvidence'
    BY <1>17 DEF Lower
  <1>18. ASSUME NEW t \in Tx, Looks(t) PROVE RepairEvidence'
    <2>1. /\ UNCHANGED <<send, chain, accepted, crashes>>
          /\ \A u \in Tx \ {t} : startup'[u] = startup[u]
          /\ startup[t] # "idle"
          /\ \A u \in Tx : u \in blind /\ u \notin blind' => startup'[u] = "idle"
      BY <1>18, LookChanges
    <2>2. /\ startup'[t] \in Looked => t \notin accepted \/ t \in blind
          /\ startup'[t] = "settled" => t \notin accepted \/ t \in blind \/ chain[t] = "mined"
      <3>1. CASE CheckRow(t)
        BY <3>1, RecordedIsMined DEF CheckRow, Decides
      <3>2. CASE CheckWindow(t) \/ CheckMempool(t) \/ Classify(t)
        BY <3>2 DEF CheckWindow, CheckMempool, Classify, Decides
      <3>3. CASE Ask(t) \/ Answer(t)
        <4>1. startup[t] \in {"asking", "asked"} /\ startup'[t] \in {"asked", "phantom", "ending"}
          BY <3>3 DEF Ask, Answer, Decides
        <4> QED BY <4>1
      <3>4. CASE EndRepair(t)
        BY <3>4 DEF EndRepair
      <3> QED BY <1>18, <3>1, <3>2, <3>3, <3>4 DEF Looks
    <2>3. up' = up
      BY <1>18, LookChanges
    <2>4. up
      BY <1>18, LookChanges
    <2> QED
      <3> SUFFICES ASSUME NEW u \in Tx
                   PROVE  /\ startup'[u] \in Looked => u \notin accepted' \/ u \in blind'
                          /\ startup'[u] = "settled" =>
                               u \notin accepted' \/ u \in blind' \/ chain'[u] = "mined"
                          /\ ~up' => startup'[u] = "idle"
                          /\ startup'[u] # "idle" \/ ~up' => crashes' > 0
        BY Zenon DEF RepairEvidence
      <3>1. CASE u = t
        BY <3>1, <2>1, <2>2, <2>3, <2>4
      <3>2. CASE u # t
        BY <3>2, <2>1, <2>3, <2>4
      <3> QED BY <3>1, <3>2
  <1>28. ASSUME NEW t \in Tx, Free(t) PROVE RepairEvidence'
    BY <1>28 DEF Free
  <1>29. ASSUME NEW t \in Tx, DeleteRows(t) PROVE RepairEvidence'
    BY <1>29 DEF DeleteRows, RowsOf
  <1>30. ASSUME NEW t \in Tx, Forget(t) PROVE RepairEvidence'
    BY <1>30 DEF Forget
  <1>31. ASSUME NEW t \in Tx, Untrack(t) PROVE RepairEvidence'
    BY <1>31 DEF Untrack
  <1>19. ASSUME NEW t \in Tx, Relay(t) PROVE RepairEvidence'
    BY <1>19 DEF Relay
  <1>20. ASSUME NEW t \in Tx, Mine(t) PROVE RepairEvidence'
    BY <1>20 DEF Mine
  <1>21. ASSUME CheckPending PROVE RepairEvidence'
    BY <1>21 DEF CheckPending
  <1>22. ASSUME Populate PROVE RepairEvidence'
    BY <1>22 DEF Populate
  <1>23. ASSUME GiveUp PROVE RepairEvidence'
    BY <1>23 DEF GiveUp
  <1>24. ASSUME ForgetAll PROVE RepairEvidence'
    BY <1>24 DEF ForgetAll
  <1>25. ASSUME Crash PROVE RepairEvidence'
    BY <1>25 DEF Crash
  <1>26. ASSUME Restart PROVE RepairEvidence'
    BY <1>26 DEF Restart
  <1>27. CASE UNCHANGED vars
    BY <1>27 DEF vars, repair
  <1> QED BY <1>1, <1>2, <1>3, <1>4, <1>5, <1>6, <1>7, <1>8, <1>9, <1>10, <1>11,
         <1>12, <1>13, <1>14, <1>15, <1>16, <1>17, <1>18, <1>19, <1>20, <1>21, <1>22,
         <1>23, <1>24, <1>25, <1>26, <1>27, <1>28, <1>29, <1>30, <1>31
      DEF Next, SendStep, ConfirmStep, ScanStep, StartupStep, Looks

\* The same in every state.
LEMMA RepairEvidenceInductive == Spec => []RepairEvidence
  <1>1. Init => RepairEvidence
    BY DEF Init, RepairEvidence, Looked
  <1>2. IInv /\ ScanInv /\ RepairEvidence /\ [Next]_vars => RepairEvidence'
    BY RepairEvidenceStep
  <1> QED BY <1>1, <1>2, InductiveInvariant, ScanInductive, PTL DEF Spec

\* No step gives up a transaction that entered a mempool, unless it was mined or
\* the repair is blind.
LEMMA AcceptedSurvives ==
    ASSUME IInv, RepairEvidence, [Next]_vars, NEW u \in accepted, u \notin accepted'
    PROVE  chain[u] = "mined" \/ u \in blind
  <1> DEFINE Goal == chain[u] = "mined" \/ u \in blind
  <1> USE DEF IInv, TypeOK, EvidenceOfBlock, AcceptedHasVerdict, RepairEvidence, memory, stable, repair
  <1>1. ASSUME NEW t \in Tx, Register(t) PROVE Goal
    BY <1>1 DEF Register
  <1>2. ASSUME NEW t \in Tx, Announce(t) PROVE Goal
    BY <1>2 DEF Announce
  <1>3. ASSUME NEW t \in Tx, Succeed(t) PROVE Goal
    BY <1>3 DEF Succeed
  <1>4. ASSUME NEW t \in Tx, Abort(t) PROVE Goal
    BY <1>4 DEF Abort
  <1>5. ASSUME NEW t \in Tx, Reject(t) PROVE Goal
    BY <1>5 DEF Reject, ClearShown
  <1>6. ASSUME NEW t \in Tx, Unreachable(t) PROVE Goal
    BY <1>6 DEF Unreachable, ClearShown
  <1>7. ASSUME NEW t \in Tx, TrackInsert(t) PROVE Goal
    BY <1>7 DEF TrackInsert
  <1>8. ASSUME NEW t \in Tx, TrackSave(t) PROVE Goal
    BY <1>8 DEF TrackSave
  <1>9. ASSUME NEW t \in Tx, TrackFull(t) PROVE Goal
    BY <1>9 DEF TrackFull
  <1>10. ASSUME NEW t \in Tx, TrackSimple(t) PROVE Goal
    BY <1>10 DEF TrackSimple
  <1>11. ASSUME NEW t \in Tx, ConfirmGuard(t) PROVE Goal
    BY <1>11 DEF ConfirmGuard
  <1>12. ASSUME NEW t \in Tx, ConfirmUnsave(t) PROVE Goal
    BY <1>12 DEF ConfirmUnsave
  <1>13. ASSUME NEW t \in Tx, ConfirmTake(t) PROVE Goal
    BY <1>13 DEF ConfirmTake
  <1>14. ASSUME NEW t \in Tx, ConfirmWrite(t) PROVE Goal
    BY <1>14 DEF ConfirmWrite, Insert, RowsOf
  <1>15. ASSUME NEW t \in Tx, Scan(t) PROVE Goal
    BY <1>15 DEF Scan, Insert, RowsOf
  <1>16. ASSUME NEW t \in Tx, Advance(t) PROVE Goal
    BY <1>16 DEF Advance
  <1>17. ASSUME NEW t \in Tx, Lower(t) PROVE Goal
    BY <1>17 DEF Lower
  <1>18. ASSUME NEW t \in Tx, Looks(t) PROVE Goal
    BY <1>18, LookChanges
  <1>28. ASSUME NEW t \in Tx, Free(t) PROVE Goal
    BY <1>28 DEF Free
  <1>29. ASSUME NEW t \in Tx, DeleteRows(t) PROVE Goal
    BY <1>29 DEF DeleteRows, RowsOf
  <1>30. ASSUME NEW t \in Tx, Forget(t) PROVE Goal
    BY <1>30 DEF Forget
  <1>31. ASSUME NEW t \in Tx, Untrack(t) PROVE Goal
    BY <1>31 DEF Untrack
  <1>19. ASSUME NEW t \in Tx, Relay(t) PROVE Goal
    BY <1>19 DEF Relay
  <1>20. ASSUME NEW t \in Tx, Mine(t) PROVE Goal
    BY <1>20 DEF Mine
  <1>21. ASSUME CheckPending PROVE Goal
    BY <1>21 DEF CheckPending
  <1>22. ASSUME Populate PROVE Goal
    BY <1>22 DEF Populate
  <1>23. ASSUME GiveUp PROVE Goal
    BY <1>23 DEF GiveUp
  <1>24. ASSUME ForgetAll PROVE Goal
    BY <1>24 DEF ForgetAll
  <1>25. ASSUME Crash PROVE Goal
    BY <1>25 DEF Crash, InFlight
  <1>26. ASSUME Restart PROVE Goal
    BY <1>26 DEF Restart
  <1>27. CASE UNCHANGED vars
    BY <1>27 DEF vars
  <1> QED BY <1>1, <1>2, <1>3, <1>4, <1>5, <1>6, <1>7, <1>8, <1>9, <1>10, <1>11,
         <1>12, <1>13, <1>14, <1>15, <1>16, <1>17, <1>18, <1>19, <1>20, <1>21, <1>22,
         <1>23, <1>24, <1>25, <1>26, <1>27, <1>28, <1>29, <1>30, <1>31
      DEF Next, SendStep, ConfirmStep, ScanStep, StartupStep, Looks

\* FIX #1550 v3: a transaction that entered a mempool is given up only when a
\* block holds it, or by a repair that does not know the chain height.
THEOREM AcceptedIsNotGivenUp == Spec => AcceptedIsKept
  <1>1. IInv /\ RepairEvidence /\ [Next]_vars =>
          [\A t \in accepted : t \notin accepted' => chain[t] = "mined" \/ t \in blind]_vars
    BY AcceptedSurvives
  <1> QED BY <1>1, InductiveInvariant, RepairEvidenceInductive, PTL DEF Spec, AcceptedIsKept

\* No step but the deletion by the repair takes a transaction out of the history.
LEMMA RowSurvives ==
    ASSUME TypeOK, [Next]_vars, NEW u \in Tx, Recorded(u, "wire"), startup[u] # "freed"
    PROVE  Recorded(u, "wire")'
  <1> DEFINE Kept == Recorded(u, "wire")'
  <1> USE DEF memory, stable, repair
  <1>1. ASSUME NEW t \in Tx, Register(t) PROVE Kept
    BY <1>1 DEF Register, Recorded
  <1>2. ASSUME NEW t \in Tx, Announce(t) PROVE Kept
    BY <1>2 DEF Announce, Recorded
  <1>3. ASSUME NEW t \in Tx, Succeed(t) PROVE Kept
    BY <1>3 DEF Succeed, Recorded
  <1>4. ASSUME NEW t \in Tx, Abort(t) PROVE Kept
    BY <1>4 DEF Abort, Recorded
  <1>5. ASSUME NEW t \in Tx, Reject(t) PROVE Kept
    BY <1>5 DEF Reject, ClearShown, Recorded
  <1>6. ASSUME NEW t \in Tx, Unreachable(t) PROVE Kept
    BY <1>6 DEF Unreachable, ClearShown, Recorded
  <1>7. ASSUME NEW t \in Tx, TrackInsert(t) PROVE Kept
    BY <1>7 DEF TrackInsert, Recorded
  <1>8. ASSUME NEW t \in Tx, TrackSave(t) PROVE Kept
    BY <1>8 DEF TrackSave, Recorded
  <1>9. ASSUME NEW t \in Tx, TrackFull(t) PROVE Kept
    BY <1>9 DEF TrackFull, Recorded
  <1>10. ASSUME NEW t \in Tx, TrackSimple(t) PROVE Kept
    BY <1>10 DEF TrackSimple, Recorded
  <1>11. ASSUME NEW t \in Tx, ConfirmGuard(t) PROVE Kept
    BY <1>11 DEF ConfirmGuard, Recorded
  <1>12. ASSUME NEW t \in Tx, ConfirmUnsave(t) PROVE Kept
    BY <1>12 DEF ConfirmUnsave, Recorded
  <1>13. ASSUME NEW t \in Tx, ConfirmTake(t) PROVE Kept
    BY <1>13 DEF ConfirmTake, Recorded
  <1>14. ASSUME NEW t \in Tx, ConfirmWrite(t) PROVE Kept
    <2>1. CASE u = t
      BY <1>14, <2>1 DEF ConfirmWrite, Insert, Recorded
    <2>2. CASE u # t
      BY <1>14, <2>2 DEF ConfirmWrite, Insert, RowsOf, Recorded
    <2> QED BY <2>1, <2>2
  <1>15. ASSUME NEW t \in Tx, Scan(t) PROVE Kept
    <2>1. CASE ~Recorded(t, "wire")
      <3>1. RowsOf(t) = {}
        BY <2>1, NoRowsToLose DEF TypeOK
      <3> QED BY <1>15, <3>1 DEF Scan, Insert, Recorded
    <2>2. CASE Recorded(t, "wire")
      BY <1>15, <2>2 DEF Scan, Recorded
    <2> QED BY <2>1, <2>2
  <1>16. ASSUME NEW t \in Tx, Advance(t) PROVE Kept
    BY <1>16 DEF Advance, Recorded
  <1>17. ASSUME NEW t \in Tx, Lower(t) PROVE Kept
    BY <1>17 DEF Lower, Rescan, Recorded
  <1>18. ASSUME NEW t \in Tx, Looks(t) PROVE Kept
    BY <1>18, LookChanges DEF Recorded
  <1>28. ASSUME NEW t \in Tx, Free(t) PROVE Kept
    BY <1>28 DEF Free, Recorded
  <1>29. ASSUME NEW t \in Tx, DeleteRows(t) PROVE Kept
    BY <1>29 DEF DeleteRows, RowsOf, Recorded
  <1>30. ASSUME NEW t \in Tx, Forget(t) PROVE Kept
    BY <1>30 DEF Forget, Recorded
  <1>31. ASSUME NEW t \in Tx, Untrack(t) PROVE Kept
    BY <1>31 DEF Untrack, Recorded
  <1>19. ASSUME NEW t \in Tx, Relay(t) PROVE Kept
    BY <1>19 DEF Relay, Recorded
  <1>20. ASSUME NEW t \in Tx, Mine(t) PROVE Kept
    BY <1>20 DEF Mine, Recorded
  <1>21. ASSUME CheckPending PROVE Kept
    BY <1>21 DEF CheckPending, Recorded
  <1>22. ASSUME Populate PROVE Kept
    BY <1>22 DEF Populate, Recorded
  <1>23. ASSUME GiveUp PROVE Kept
    BY <1>23 DEF GiveUp, ClearShown, Recorded
  <1>24. ASSUME ForgetAll PROVE Kept
    BY <1>24 DEF ForgetAll, Recorded
  <1>25. ASSUME Crash PROVE Kept
    BY <1>25 DEF Crash, InFlight, Recorded
  <1>26. ASSUME Restart PROVE Kept
    BY <1>26 DEF Restart, Recorded
  <1>27. CASE UNCHANGED vars
    BY <1>27 DEF vars, Recorded
  <1> QED BY <1>1, <1>2, <1>3, <1>4, <1>5, <1>6, <1>7, <1>8, <1>9, <1>10, <1>11,
         <1>12, <1>13, <1>14, <1>15, <1>16, <1>17, <1>18, <1>19, <1>20, <1>21, <1>22,
         <1>23, <1>24, <1>25, <1>26, <1>27, <1>28, <1>29, <1>30, <1>31
      DEF Next, SendStep, ConfirmStep, ScanStep, StartupStep, Looks

\* A step that sets a note free is that of the repair.
LEMMA NoteSurvives ==
    ASSUME TypeOK, [Next]_vars, NEW u \in Tx, note[u] = "spent", note'[u] = "unspent"
    PROVE  startup[u] = "phantom"
  <1> DEFINE Repaired == startup[u] = "phantom"
  <1> USE DEF TypeOK, memory, stable, repair
  <1>1. ASSUME NEW t \in Tx, Register(t) PROVE Repaired
    BY <1>1 DEF Register
  <1>2. ASSUME NEW t \in Tx, Announce(t) PROVE Repaired
    BY <1>2 DEF Announce
  <1>3. ASSUME NEW t \in Tx, Succeed(t) PROVE Repaired
    BY <1>3 DEF Succeed
  <1>4. ASSUME NEW t \in Tx, Abort(t) PROVE Repaired
    BY <1>4 DEF Abort
  <1>5. ASSUME NEW t \in Tx, Reject(t) PROVE Repaired
    BY <1>5 DEF Reject, ClearShown
  <1>6. ASSUME NEW t \in Tx, Unreachable(t) PROVE Repaired
    BY <1>6 DEF Unreachable, ClearShown
  <1>7. ASSUME NEW t \in Tx, TrackInsert(t) PROVE Repaired
    BY <1>7 DEF TrackInsert
  <1>8. ASSUME NEW t \in Tx, TrackSave(t) PROVE Repaired
    BY <1>8 DEF TrackSave
  <1>9. ASSUME NEW t \in Tx, TrackFull(t) PROVE Repaired
    BY <1>9 DEF TrackFull
  <1>10. ASSUME NEW t \in Tx, TrackSimple(t) PROVE Repaired
    BY <1>10 DEF TrackSimple
  <1>11. ASSUME NEW t \in Tx, ConfirmGuard(t) PROVE Repaired
    BY <1>11 DEF ConfirmGuard
  <1>12. ASSUME NEW t \in Tx, ConfirmUnsave(t) PROVE Repaired
    BY <1>12 DEF ConfirmUnsave
  <1>13. ASSUME NEW t \in Tx, ConfirmTake(t) PROVE Repaired
    BY <1>13 DEF ConfirmTake
  <1>14. ASSUME NEW t \in Tx, ConfirmWrite(t) PROVE Repaired
    BY <1>14 DEF ConfirmWrite
  <1>15. ASSUME NEW t \in Tx, Scan(t) PROVE Repaired
    BY <1>15 DEF Scan
  <1>16. ASSUME NEW t \in Tx, Advance(t) PROVE Repaired
    BY <1>16 DEF Advance
  <1>17. ASSUME NEW t \in Tx, Lower(t) PROVE Repaired
    BY <1>17 DEF Lower, Rescan
  <1>18. ASSUME NEW t \in Tx, Looks(t) PROVE Repaired
    BY <1>18, LookChanges
  <1>28. ASSUME NEW t \in Tx, Free(t) PROVE Repaired
    BY <1>28 DEF Free
  <1>29. ASSUME NEW t \in Tx, DeleteRows(t) PROVE Repaired
    BY <1>29 DEF DeleteRows, RowsOf
  <1>30. ASSUME NEW t \in Tx, Forget(t) PROVE Repaired
    BY <1>30 DEF Forget
  <1>31. ASSUME NEW t \in Tx, Untrack(t) PROVE Repaired
    BY <1>31 DEF Untrack
  <1>19. ASSUME NEW t \in Tx, Relay(t) PROVE Repaired
    BY <1>19 DEF Relay
  <1>20. ASSUME NEW t \in Tx, Mine(t) PROVE Repaired
    BY <1>20 DEF Mine
  <1>21. ASSUME CheckPending PROVE Repaired
    BY <1>21 DEF CheckPending
  <1>22. ASSUME Populate PROVE Repaired
    BY <1>22 DEF Populate
  <1>23. ASSUME GiveUp PROVE Repaired
    BY <1>23 DEF GiveUp, ClearShown
  <1>24. ASSUME ForgetAll PROVE Repaired
    BY <1>24 DEF ForgetAll
  <1>25. ASSUME Crash PROVE Repaired
    BY <1>25 DEF Crash, InFlight
  <1>26. ASSUME Restart PROVE Repaired
    BY <1>26 DEF Restart
  <1>27. CASE UNCHANGED vars
    BY <1>27 DEF vars
  <1> QED BY <1>1, <1>2, <1>3, <1>4, <1>5, <1>6, <1>7, <1>8, <1>9, <1>10, <1>11,
         <1>12, <1>13, <1>14, <1>15, <1>16, <1>17, <1>18, <1>19, <1>20, <1>21, <1>22,
         <1>23, <1>24, <1>25, <1>26, <1>27, <1>28, <1>29, <1>30, <1>31
      DEF Next, SendStep, ConfirmStep, ScanStep, StartupStep, Looks

\* FIX #970, FIX #1550: nothing but the repair undoes a row or a spend, and only of a
\* transaction whose sender died or failed in an earlier life and that is not
\* accepted at that moment, unless the repair is blind.
THEOREM OnlyTheRepairUndoes == Spec => UndoneByRepair
  <1>1. IInv /\ ScanInv /\ RepairEvidence /\ [Next]_vars =>
          [\A t \in Tx : Undone(t) =>
              /\ startup[t] \in {"phantom", "freed"} /\ send[t] \in {"lost", "failed"} /\ crashes > 0
              /\ t \in blind \/ t \notin accepted]_vars
    <2> SUFFICES ASSUME IInv, ScanInv, RepairEvidence, [Next]_vars, NEW t \in Tx, Undone(t)
                 PROVE  /\ startup[t] \in {"phantom", "freed"} /\ send[t] \in {"lost", "failed"}
                        /\ crashes > 0
                        /\ t \in blind \/ t \notin accepted
      OBVIOUS
    <2>1. startup[t] \in {"phantom", "freed"}
      BY RowSurvives, NoteSurvives DEF IInv, Undone
    <2> QED BY <2>1 DEF ScanInv, SendOrder, RepairEvidence, Looked
  <1> QED BY <1>1, InductiveInvariant, ScanInductive, RepairEvidenceInductive, PTL
          DEF Spec, UndoneByRepair

-----------------------------------------------------------------------------
(* The send lock                                                              *)

\* The flags of the lock are as the state of the transaction asks for.
Held(t) ==
    up => /\ send[t] = "announced" => blocked
          /\ send[t] = "tracked" => actor[t] # "none" /\ outgoing
          /\ send[t] = "lost" /\ t \in persisted => blocked

\* The end of a transaction that clears the lock without a look at whose it is.
EndOfAnother(t) == \E u \in Tx \ {t} : ConfirmWrite(u) \/ Reject(u) \/ Unreachable(u)

\* Only the balance screen spawns the task that empties the actor.
ForgettingCounted == forgets = 0 => ~forgetting

\* Each step but that of the balance screen leaves the task unspawned.
LEMMA ForgettingStep ==
    ASSUME TypeOK, ForgettingCounted, [Next]_vars
    PROVE  ForgettingCounted' /\ (forgets' = 0 => forgets = 0)
  <1> DEFINE Goal == ForgettingCounted' /\ (forgets' = 0 => forgets = 0)
  <1> USE DEF TypeOK, ForgettingCounted, memory, stable, repair
  <1>1. ASSUME NEW t \in Tx, Register(t) PROVE Goal
    BY <1>1 DEF Register
  <1>2. ASSUME NEW t \in Tx, Announce(t) PROVE Goal
    BY <1>2 DEF Announce
  <1>3. ASSUME NEW t \in Tx, Succeed(t) PROVE Goal
    BY <1>3 DEF Succeed
  <1>4. ASSUME NEW t \in Tx, Abort(t) PROVE Goal
    BY <1>4 DEF Abort
  <1>5. ASSUME NEW t \in Tx, Reject(t) PROVE Goal
    BY <1>5 DEF Reject, ClearShown
  <1>6. ASSUME NEW t \in Tx, Unreachable(t) PROVE Goal
    BY <1>6 DEF Unreachable, ClearShown
  <1>7. ASSUME NEW t \in Tx, TrackInsert(t) PROVE Goal
    BY <1>7 DEF TrackInsert
  <1>8. ASSUME NEW t \in Tx, TrackSave(t) PROVE Goal
    BY <1>8 DEF TrackSave
  <1>9. ASSUME NEW t \in Tx, TrackFull(t) PROVE Goal
    BY <1>9 DEF TrackFull
  <1>10. ASSUME NEW t \in Tx, TrackSimple(t) PROVE Goal
    BY <1>10 DEF TrackSimple
  <1>11. ASSUME NEW t \in Tx, ConfirmGuard(t) PROVE Goal
    BY <1>11 DEF ConfirmGuard
  <1>12. ASSUME NEW t \in Tx, ConfirmUnsave(t) PROVE Goal
    BY <1>12 DEF ConfirmUnsave
  <1>13. ASSUME NEW t \in Tx, ConfirmTake(t) PROVE Goal
    BY <1>13 DEF ConfirmTake
  <1>14. ASSUME NEW t \in Tx, ConfirmWrite(t) PROVE Goal
    BY <1>14 DEF ConfirmWrite, Insert, RowsOf, ClearShown
  <1>15. ASSUME NEW t \in Tx, Scan(t) PROVE Goal
    BY <1>15 DEF Scan, Insert, RowsOf
  <1>16. ASSUME NEW t \in Tx, Advance(t) PROVE Goal
    BY <1>16 DEF Advance
  <1>17. ASSUME NEW t \in Tx, Lower(t) PROVE Goal
    BY <1>17 DEF Lower, Rescan
  <1>18. ASSUME NEW t \in Tx, Looks(t) PROVE Goal
    BY <1>18, LookChanges
  <1>28. ASSUME NEW t \in Tx, Free(t) PROVE Goal
    BY <1>28 DEF Free
  <1>29. ASSUME NEW t \in Tx, DeleteRows(t) PROVE Goal
    BY <1>29 DEF DeleteRows, RowsOf
  <1>30. ASSUME NEW t \in Tx, Forget(t) PROVE Goal
    BY <1>30 DEF Forget
  <1>31. ASSUME NEW t \in Tx, Untrack(t) PROVE Goal
    BY <1>31 DEF Untrack
  <1>19. ASSUME NEW t \in Tx, Relay(t) PROVE Goal
    BY <1>19 DEF Relay
  <1>20. ASSUME NEW t \in Tx, Mine(t) PROVE Goal
    BY <1>20 DEF Mine
  <1>21. ASSUME CheckPending PROVE Goal
    BY <1>21 DEF CheckPending
  <1>22. ASSUME Populate PROVE Goal
    BY <1>22 DEF Populate
  <1>23. ASSUME GiveUp PROVE Goal
    <2>1. forgets' # 0
      BY <1>23, BoundsAssumption DEF GiveUp
    <2> QED BY <2>1
  <1>24. ASSUME ForgetAll PROVE Goal
    BY <1>24 DEF ForgetAll
  <1>25. ASSUME Crash PROVE Goal
    BY <1>25 DEF Crash, InFlight
  <1>26. ASSUME Restart PROVE Goal
    BY <1>26 DEF Restart
  <1>27. CASE UNCHANGED vars
    BY <1>27 DEF vars
  <1> QED BY <1>1, <1>2, <1>3, <1>4, <1>5, <1>6, <1>7, <1>8, <1>9, <1>10, <1>11,
         <1>12, <1>13, <1>14, <1>15, <1>16, <1>17, <1>18, <1>19, <1>20, <1>21, <1>22,
         <1>23, <1>24, <1>25, <1>26, <1>27, <1>28, <1>29, <1>30, <1>31
      DEF Next, SendStep, ConfirmStep, ScanStep, StartupStep, Looks

\* No send is unbegun and no block is undone.
LEMMA Irreversible ==
    ASSUME TypeOK, [Next]_vars, NEW u \in Tx
    PROVE  /\ send[u] # "idle" => send'[u] # "idle"
           /\ chain[u] = "mined" => chain'[u] = "mined"
  <1> DEFINE Goal == /\ send[u] # "idle" => send'[u] # "idle"
                     /\ chain[u] = "mined" => chain'[u] = "mined"
  <1> USE DEF TypeOK, memory, stable, repair
  <1>1. ASSUME NEW t \in Tx, Register(t) PROVE Goal
    BY <1>1 DEF Register
  <1>2. ASSUME NEW t \in Tx, Announce(t) PROVE Goal
    BY <1>2 DEF Announce
  <1>3. ASSUME NEW t \in Tx, Succeed(t) PROVE Goal
    BY <1>3 DEF Succeed
  <1>4. ASSUME NEW t \in Tx, Abort(t) PROVE Goal
    BY <1>4 DEF Abort
  <1>5. ASSUME NEW t \in Tx, Reject(t) PROVE Goal
    BY <1>5 DEF Reject, ClearShown
  <1>6. ASSUME NEW t \in Tx, Unreachable(t) PROVE Goal
    BY <1>6 DEF Unreachable, ClearShown
  <1>7. ASSUME NEW t \in Tx, TrackInsert(t) PROVE Goal
    BY <1>7 DEF TrackInsert
  <1>8. ASSUME NEW t \in Tx, TrackSave(t) PROVE Goal
    BY <1>8 DEF TrackSave
  <1>9. ASSUME NEW t \in Tx, TrackFull(t) PROVE Goal
    BY <1>9 DEF TrackFull
  <1>10. ASSUME NEW t \in Tx, TrackSimple(t) PROVE Goal
    BY <1>10 DEF TrackSimple
  <1>11. ASSUME NEW t \in Tx, ConfirmGuard(t) PROVE Goal
    BY <1>11 DEF ConfirmGuard
  <1>12. ASSUME NEW t \in Tx, ConfirmUnsave(t) PROVE Goal
    BY <1>12 DEF ConfirmUnsave
  <1>13. ASSUME NEW t \in Tx, ConfirmTake(t) PROVE Goal
    BY <1>13 DEF ConfirmTake
  <1>14. ASSUME NEW t \in Tx, ConfirmWrite(t) PROVE Goal
    BY <1>14 DEF ConfirmWrite, Insert, RowsOf, ClearShown
  <1>15. ASSUME NEW t \in Tx, Scan(t) PROVE Goal
    BY <1>15 DEF Scan, Insert, RowsOf
  <1>16. ASSUME NEW t \in Tx, Advance(t) PROVE Goal
    BY <1>16 DEF Advance
  <1>17. ASSUME NEW t \in Tx, Lower(t) PROVE Goal
    BY <1>17 DEF Lower, Rescan
  <1>18. ASSUME NEW t \in Tx, Looks(t) PROVE Goal
    BY <1>18, LookChanges
  <1>28. ASSUME NEW t \in Tx, Free(t) PROVE Goal
    BY <1>28 DEF Free
  <1>29. ASSUME NEW t \in Tx, DeleteRows(t) PROVE Goal
    BY <1>29 DEF DeleteRows, RowsOf
  <1>30. ASSUME NEW t \in Tx, Forget(t) PROVE Goal
    BY <1>30 DEF Forget
  <1>31. ASSUME NEW t \in Tx, Untrack(t) PROVE Goal
    BY <1>31 DEF Untrack
  <1>19. ASSUME NEW t \in Tx, Relay(t) PROVE Goal
    BY <1>19 DEF Relay
  <1>20. ASSUME NEW t \in Tx, Mine(t) PROVE Goal
    BY <1>20 DEF Mine
  <1>21. ASSUME CheckPending PROVE Goal
    BY <1>21 DEF CheckPending
  <1>22. ASSUME Populate PROVE Goal
    BY <1>22 DEF Populate
  <1>23. ASSUME GiveUp PROVE Goal
    BY <1>23 DEF GiveUp, ClearShown
  <1>24. ASSUME ForgetAll PROVE Goal
    BY <1>24 DEF ForgetAll
  <1>25. ASSUME Crash PROVE Goal
    BY <1>25 DEF Crash, InFlight
  <1>26. ASSUME Restart PROVE Goal
    BY <1>26 DEF Restart
  <1>27. CASE UNCHANGED vars
    BY <1>27 DEF vars
  <1> QED BY <1>1, <1>2, <1>3, <1>4, <1>5, <1>6, <1>7, <1>8, <1>9, <1>10, <1>11,
         <1>12, <1>13, <1>14, <1>15, <1>16, <1>17, <1>18, <1>19, <1>20, <1>21, <1>22,
         <1>23, <1>24, <1>25, <1>26, <1>27, <1>28, <1>29, <1>30, <1>31
      DEF Next, SendStep, ConfirmStep, ScanStep, StartupStep, Looks

\* While no block holds a transaction and the balance screen waits for it, its
\* hold on the lock is lost in no step but the end of another transaction.
LEMMA HeldStep ==
    ASSUME IInv, ScanInv, ForgettingCounted, [Next]_vars, NEW u \in Tx,
           forgets = 0, forgets' = 0, chain[u] # "mined", Held(u), ~EndOfAnother(u)
    PROVE  Held(u)'
  <1> USE DEF IInv, TypeOK, EvidenceOfBlock, ScanInv, SendOrder, InFlightIsPending, InFlight,
              ForgettingCounted, Held, memory, stable, repair
  <1>1. ASSUME NEW t \in Tx, Register(t) PROVE Held(u)'
    BY <1>1 DEF Register
  <1>2. ASSUME NEW t \in Tx, Announce(t) PROVE Held(u)'
    BY <1>2 DEF Announce
  <1>3. ASSUME NEW t \in Tx, Succeed(t) PROVE Held(u)'
    BY <1>3 DEF Succeed
  <1>4. ASSUME NEW t \in Tx, Abort(t) PROVE Held(u)'
    BY <1>4 DEF Abort
  <1>5. ASSUME NEW t \in Tx, Reject(t) PROVE Held(u)'
    <2>1. t = u
      BY <1>5 DEF EndOfAnother
    <2> QED BY <1>5, <2>1 DEF Reject
  <1>6. ASSUME NEW t \in Tx, Unreachable(t) PROVE Held(u)'
    <2>1. t = u
      BY <1>6 DEF EndOfAnother
    <2> QED BY <1>6, <2>1 DEF Unreachable
  <1>7. ASSUME NEW t \in Tx, TrackInsert(t) PROVE Held(u)'
    BY <1>7 DEF TrackInsert
  <1>8. ASSUME NEW t \in Tx, TrackSave(t) PROVE Held(u)'
    BY <1>8 DEF TrackSave
  <1>9. ASSUME NEW t \in Tx, TrackFull(t) PROVE Held(u)'
    BY <1>9 DEF TrackFull
  <1>10. ASSUME NEW t \in Tx, TrackSimple(t) PROVE Held(u)'
    BY <1>10 DEF TrackSimple
  <1>11. ASSUME NEW t \in Tx, ConfirmGuard(t) PROVE Held(u)'
    BY <1>11 DEF ConfirmGuard
  <1>12. ASSUME NEW t \in Tx, ConfirmUnsave(t) PROVE Held(u)'
    BY <1>12 DEF ConfirmUnsave
  <1>13. ASSUME NEW t \in Tx, ConfirmTake(t) PROVE Held(u)'
    BY <1>13 DEF ConfirmTake
  <1>14. ASSUME NEW t \in Tx, ConfirmWrite(t) PROVE Held(u)'
    BY <1>14 DEF ConfirmWrite, EndOfAnother
  <1>15. ASSUME NEW t \in Tx, Scan(t) PROVE Held(u)'
    BY <1>15 DEF Scan, Insert, RowsOf
  <1>16. ASSUME NEW t \in Tx, Advance(t) PROVE Held(u)'
    BY <1>16 DEF Advance
  <1>17. ASSUME NEW t \in Tx, Lower(t) PROVE Held(u)'
    BY <1>17 DEF Lower, Rescan
  <1>18. ASSUME NEW t \in Tx, Looks(t) PROVE Held(u)'
    <2>1. /\ UNCHANGED <<up, send, actor, outgoing, persisted>>
          /\ UNCHANGED blocked \/ blocked' = (blocked /\ persisted # {})
      BY <1>18, LookChanges
    <2>2. ASSUME u \in persisted, blocked PROVE blocked'
      <3>1. persisted # {}
        BY <2>2
      <3> QED BY <2>1, <2>2, <3>1, Zenon
    <2>3. up /\ send[u] = "announced" => u \in persisted
      OBVIOUS
    <2> QED BY <2>1, <2>2, <2>3
  <1>28. ASSUME NEW t \in Tx, Free(t) PROVE Held(u)'
    BY <1>28 DEF Free
  <1>29. ASSUME NEW t \in Tx, DeleteRows(t) PROVE Held(u)'
    BY <1>29 DEF DeleteRows, RowsOf
  <1>30. ASSUME NEW t \in Tx, Forget(t) PROVE Held(u)'
    BY <1>30 DEF Forget
  <1>31. ASSUME NEW t \in Tx, Untrack(t) PROVE Held(u)'
    BY <1>31 DEF Untrack
  <1>19. ASSUME NEW t \in Tx, Relay(t) PROVE Held(u)'
    BY <1>19 DEF Relay
  <1>20. ASSUME NEW t \in Tx, Mine(t) PROVE Held(u)'
    BY <1>20 DEF Mine
  <1>21. ASSUME CheckPending PROVE Held(u)'
    BY <1>21 DEF CheckPending
  <1>22. ASSUME Populate PROVE Held(u)'
    BY <1>22 DEF Populate
  <1>23. ASSUME GiveUp PROVE Held(u)'
    <2>1. forgets' # 0
      BY <1>23 DEF GiveUp
    <2> QED BY <2>1
  <1>24. ASSUME ForgetAll PROVE Held(u)'
    BY <1>24 DEF ForgetAll
  <1>25. ASSUME Crash PROVE Held(u)'
    BY <1>25 DEF Crash, InFlight
  <1>26. ASSUME Restart PROVE Held(u)'
    BY <1>26 DEF Restart
  <1>27. CASE UNCHANGED vars
    BY <1>27 DEF vars
  <1> QED BY <1>1, <1>2, <1>3, <1>4, <1>5, <1>6, <1>7, <1>8, <1>9, <1>10, <1>11,
         <1>12, <1>13, <1>14, <1>15, <1>16, <1>17, <1>18, <1>19, <1>20, <1>21, <1>22,
         <1>23, <1>24, <1>25, <1>26, <1>27, <1>28, <1>29, <1>30, <1>31
      DEF Next, SendStep, ConfirmStep, ScanStep, StartupStep, Looks

\* What the lock promises when several transactions were sent: no crash, restart,
\* repair or periodic check releases it under a transaction that is waiting, and
\* the only step that does is the end of another one.
LockLostToAnother ==
    [][\A t \in Tx :
          forgets' = 0 /\ chain'[t] # "mined" /\ Held(t) /\ ~Held(t)'
              => EndOfAnother(t)]_vars

\* The task of clearAllPendingOutgoing() is counted in every state.
LEMMA ForgettingInductive == Spec => []ForgettingCounted
  <1>1. Init => ForgettingCounted
    BY DEF Init, ForgettingCounted
  <1>2. TypeOK /\ ForgettingCounted /\ [Next]_vars => ForgettingCounted'
    BY ForgettingStep
  <1> QED BY <1>1, <1>2, TypeCorrect, PTL DEF Spec

\* FIX #301, FIX #847, FIX #849 for any number of transactions: the lock of a
\* transaction that waits for its block goes only by another one's end.
THEOREM LockIsLostOnlyToAnother == Spec => LockLostToAnother
  <1>1. IInv /\ ScanInv /\ ForgettingCounted /\ [Next]_vars =>
          [\A t \in Tx :
              forgets' = 0 /\ chain'[t] # "mined" /\ Held(t) /\ ~Held(t)'
                  => EndOfAnother(t)]_vars
    <2> SUFFICES ASSUME IInv, ScanInv, ForgettingCounted, [Next]_vars, NEW t \in Tx,
                        forgets' = 0, chain'[t] # "mined", Held(t), ~EndOfAnother(t)
                 PROVE  Held(t)'
      OBVIOUS
    <2>1. forgets = 0 /\ chain[t] # "mined"
      BY ForgettingStep, Irreversible DEF IInv
    <2> QED BY <2>1, HeldStep
  <1> QED BY <1>1, InductiveInvariant, ScanInductive, ForgettingInductive, PTL
          DEF Spec, LockLostToAnother

\* The hold on the lock of the only transaction that was sent.
SoleHeld ==
    \A t \in Tx : forgets = 0 /\ chain[t] # "mined" /\ Sole(t) => Held(t)

\* Nobody else can take the lock from the only transaction that was sent.
LEMMA SoleHeldStep ==
    ASSUME IInv, ScanInv, ForgettingCounted, SoleHeld, [Next]_vars
    PROVE  SoleHeld'
  <1> SUFFICES ASSUME NEW t \in Tx, forgets' = 0, chain'[t] # "mined", Sole(t)'
               PROVE  Held(t)'
    BY DEF SoleHeld
  <1>1. forgets = 0 /\ chain[t] # "mined"
    BY ForgettingStep, Irreversible DEF IInv
  <1>2. \A u \in Tx \ {t} : send'[u] = "idle" /\ send[u] = "idle"
    BY Irreversible DEF IInv, Sole
  <1>3. ~EndOfAnother(t)
    <2> SUFFICES ASSUME NEW u \in Tx \ {t}, ConfirmWrite(u) \/ Reject(u) \/ Unreachable(u)
                 PROVE  FALSE
      BY DEF EndOfAnother
    <2>1. send[u] = "idle" /\ chain[u] = "unsent"
      BY <1>2 DEF ScanInv, SendOrder
    <2>2. confirm[u] = "idle"
      BY <2>1 DEF IInv, EvidenceOfBlock
    <2> QED BY <2>1, <2>2 DEF ConfirmWrite, Reject, Unreachable
  <1>4. Held(t)
    BY <1>1, <1>2 DEF SoleHeld, Sole
  <1> QED BY <1>1, <1>3, <1>4, HeldStep

\* The user cannot send while the only transaction that was sent waits for its
\* block, also after any number of crashes, unless the balance screen gave up.
THEOREM PendingAlwaysBlocks == Spec => []PendingBlocksSends
  <1>1. Init => SoleHeld
    BY DEF Init, SoleHeld, Held
  <1>2. IInv /\ ScanInv /\ ForgettingCounted /\ SoleHeld /\ [Next]_vars => SoleHeld'
    BY SoleHeldStep
  <1>3. SoleHeld => PendingBlocksSends
    BY DEF SoleHeld, Held, PendingBlocksSends
  <1> QED BY <1>1, <1>2, <1>3, InductiveInvariant, ScanInductive, ForgettingInductive, PTL
          DEF Spec
=============================================================================
