--------------------------- MODULE BlockScanProofs ---------------------------
(***************************************************************************)
(* Proofs about BlockScan, for any callers, any chain and any bounds.      *)
(*                                                                         *)
(* Ranges strengthens the types.  Covered is the invariant behind          *)
(* NothingMissed: as long as no excuse exists, every scan, and every sync  *)
(* that is to scan above a height it has read, carries a proof that the    *)
(* blocks below are done, and that proof survives what the others do       *)
(* because the notes shrink only when a wipe deletes them, and a wipe that *)
(* meets one of them is an excuse.  Behind is the invariant behind         *)
(* AdvanceIsFetched: a mark above the saved height is a fetched block.     *)
(***************************************************************************)
EXTENDS BlockScan, TLAPS

Before == {"called", "checked", "starting", "between"}

\* What the types of the next state need to know of the scans.
Ranges ==
    \A s \in Callers :
        /\ pc[s] \in Preparing \ {"entered"} => s \notin Syncs
        /\ pc[s] = "boosting" => cur[s] = Boost
        /\ pc[s] = "fetching" => cur[s] >= 1
        /\ pc[s] = "examining" => cur[s] \in got[s]
        /\ pc[s] \in {"fetching", "processing"} => tx[s] = 0

TInv == TypeOK /\ Ranges

Quiet == excuses = {} /\ \A s \in Callers : pc[s] # "resetting"
Has(h) == \A k \in 1..h : Complete(k)

\* What the saved height, and the place a scan is at, say of the notes.
Covered ==
    /\ Quiet => Has(last)
    /\ \A s \in Callers :
          Quiet =>
              /\ s \in Syncs /\ pc[s] \in Before => Has(from[s])
              /\ pc[s] \in Reading => Has(cur[s] - 1)
              /\ pc[s] \in {"boosting", "examining"}
                    => \A x \in 1..tx[s] : <<cur[s], x>> \in found
    /\ \A s \in Callers :
          excuses = {} =>
              /\ pc[s] \in {"fetching", "processing"} => mark[s] = cur[s] - 1
              /\ pc[s] = "examining" => mark[s] = cur[s]
              /\ pc[s] \in Reading \cup {"starting"} => running[s]

\* A scan may raise the height only by what it fetched.
Behind ==
    "straggler" \notin excuses =>
        \A s \in Callers :
            /\ s \in Syncs /\ pc[s] \in Before => from[s] <= last
            /\ pc[s] = "fetching" => mark[s] <= last
            /\ pc[s] = "processing" => mark[s] \in got[s] \/ mark[s] <= last
            /\ pc[s] = "examining" => mark[s] \in got[s]

-----------------------------------------------------------------------------
(* The types.                                                              *)

\* No step of a caller, a scan, a timer, the user or a crash breaks the
\* types and what they rest on.
LEMMA TypeStep == TInv /\ [Next]_vars => TInv'
<1> SUFFICES ASSUME TInv, [Next]_vars PROVE TInv'
  OBVIOUS
<1> USE CallersAssumption, BoundsAssumption DEF TypeOK, TInv, Ranges,
     Preparing, Calling, Reading, Scanning, Heights, Txs, Boost, Excuses,
     scanVars, bounds, callVars, Wipers, Callers
<1>1. ASSUME NEW s \in Callers, EnterSync(s) PROVE TInv'
  BY <1>1 DEF EnterSync, Go, Called
<1>2. ASSUME NEW s \in Callers, PassGuards(s) PROVE TInv'
  BY <1>2 DEF PassGuards, Go
<1>3. ASSUME NEW s \in Callers, GuardFails(s) PROVE TInv'
  BY <1>3 DEF GuardFails, Go
<1>4. ASSUME NEW s \in Callers, LookAgain(s) PROVE TInv'
  BY <1>4 DEF LookAgain, Go
<1>5. ASSUME NEW s \in Callers, ScanAgain(s) PROVE TInv'
  BY <1>5 DEF ScanAgain, Go
<1>6. ASSUME NEW s \in Callers, CallRefresh(s) PROVE TInv'
  BY <1>6 DEF CallRefresh, Go, Called
<1>7. ASSUME NEW s \in Callers, RefreshToo(s) PROVE TInv'
  BY <1>7 DEF RefreshToo, Go
<1>8. ASSUME NEW s \in Callers, CallRescan(s) PROVE TInv'
  BY <1>8 DEF CallRescan, Go, Called, Wipe
<1>9. ASSUME NEW s \in Callers, BeginRepair(s) PROVE TInv'
  BY <1>9 DEF BeginRepair, Go, Called, Wipe
<1>10. ASSUME NEW s \in Callers, StopForRepair(s) PROVE TInv'
  BY <1>10 DEF StopForRepair, Go, StopCurrent, Excuse
<1>11. ASSUME NEW s \in Callers, ClearFlag(s) PROVE TInv'
  BY <1>11 DEF ClearFlag, Go
<1>12. ASSUME NEW s \in Callers, DeleteNotes(s) PROVE TInv'
  BY <1>12 DEF DeleteNotes, Go
<1>13. ASSUME NEW s \in Callers, ResetHeight(s) PROVE TInv'
  BY <1>13 DEF ResetHeight, Go, Excuse
<1>14. ASSUME NEW s \in Callers, ClearAgain(s) PROVE TInv'
  <2>1. excuses' \subseteq Excuses
    BY <1>14 DEF ClearAgain, Excuse
  <2>2. TypeOK'
    <3>1. pc' = [pc EXCEPT ![s] = "called"] /\ flag' = FALSE /\ last' = 0
          /\ UNCHANGED <<callVars, found, tip, running, scanVars, bounds>>
      BY <1>14 DEF ClearAgain, Go
    <3>2. pc' \in [Callers -> {"idle"} \cup Preparing \cup Calling \cup Scanning]
      BY <3>1
    <3>3. last' \in 0..MaxHeight
      <4>1. last' = 0
        BY <3>1
      <4> QED
        BY <4>1
    <3>4. flag' \in BOOLEAN
      BY <3>1, Zenon
    <3>5. UNCHANGED <<syncing, repairing, loaded, current, found, tip, running,
                      from, again, cur, tx, target, got, mark, count, wipes,
                      faults>>
      BY <3>1
    <3> QED
      BY <2>1, <3>2, <3>3, <3>4, <3>5
  <2>3. Ranges'
    BY <1>14 DEF ClearAgain, Go
  <2> QED
    BY <2>2, <2>3
<1>15. ASSUME NEW s \in Callers, WiperFails(s) PROVE TInv'
  BY <1>15 DEF WiperFails, Go, Fault, Excuse
<1>16. ASSUME NEW s \in Callers, CallEnds(s) PROVE TInv'
  BY <1>16 DEF CallEnds, Over
<1>17. ASSUME NEW s \in Callers, SkipScan(s) PROVE TInv'
  BY <1>17 DEF SkipScan, Go, Release, Forget
<1>18. ASSUME NEW s \in Callers, CheckFlag(s) PROVE TInv'
  BY <1>18 DEF CheckFlag, Go
<1>19. ASSUME NEW s \in Callers, SetFlag(s) PROVE TInv'
  BY <1>19 DEF SetFlag, Go
<1>20. ASSUME NEW s \in Callers, FindRange(s) PROVE TInv'
  BY <1>20 DEF FindRange, Go, StartHeight
<1>21. ASSUME NEW s \in Callers, NothingToScan(s) PROVE TInv'
  BY <1>21 DEF NothingToScan, Go, Forget
<1>22. ASSUME NEW s \in Callers, ScanFails(s) PROVE TInv'
  BY <1>22 DEF ScanFails, Go, Forget, Fault
<1>23. ASSUME NEW s \in Callers, ExamineTx(s) PROVE TInv'
  <2>1. /\ pc[s] \in {"boosting", "examining"} /\ tx[s] < PerBlock
        /\ tx' = [tx EXCEPT ![s] = tx[s] + 1]
        /\ found' \in {found, found \cup {<<cur[s], tx[s] + 1>>}}
        /\ UNCHANGED <<flag, callVars, last, tip, pc, running, cur, target,
                       got, mark, count>>
    BY <1>23 DEF ExamineTx
  <2>2. excuses' \subseteq Excuses
    BY <1>23 DEF ExamineTx, Excuse
  <2>3. wipes' \in 0..MaxWipes /\ faults' \in 0..MaxFaults
    <3>1. Fault \/ UNCHANGED bounds
      BY <1>23 DEF ExamineTx
    <3> QED
      BY <3>1 DEF Fault
  <2>4. cur[s] \in Heights /\ tx[s] + 1 \in Txs
    BY <2>1
  <2>5. found' \subseteq Heights \X Txs
    BY <2>1, <2>4
  <2>6. tx' \in [Callers -> 0..PerBlock]
    BY <2>1, <2>4
  <2>7. TypeOK'
    BY <2>1, <2>2, <2>3, <2>5, <2>6
  <2>8. Ranges'
    BY <2>1
  <2> QED
    BY <2>7, <2>8
<1>24. ASSUME NEW s \in Callers, EndBoost(s) PROVE TInv'
  BY <1>24 DEF EndBoost, Go, SaveHeight
<1>25. ASSUME NEW s \in Callers, Fetch(s) PROVE TInv'
  <2>1. PICK blocks \in SUBSET Wanted(s) :
            /\ Prefetch(s, blocks)
            /\ got' = [got EXCEPT ![s] = blocks]
    BY <1>25 DEF Fetch
  <2>2. wipes' \in 0..MaxWipes /\ faults' \in 0..MaxFaults
    BY <2>1 DEF Prefetch, Fault
  <2>3. cur[s] >= 1 /\ target[s] <= MaxHeight /\ blocks \subseteq Heights
    BY <1>25, <2>1 DEF Fetch, Go, Wanted
  <2>4. got' \in [Callers -> SUBSET Heights]
    BY <2>1, <2>3
  <2>5. /\ pc[s] = "fetching" /\ pc' = [pc EXCEPT ![s] = "processing"]
        /\ UNCHANGED <<flag, callVars, last, found, tip, running, cur, tx,
                       target, mark, count, excuses>>
    BY <1>25 DEF Fetch, Go
  <2>6. TypeOK'
    BY <2>2, <2>4, <2>5
  <2>7. Ranges'
    BY <2>1, <2>5
  <2> QED
    BY <2>6, <2>7
<1>26. ASSUME NEW s \in Callers, Abort(s) PROVE TInv'
  <2>1. PICK blocks \in SUBSET Wanted(s) :
            /\ Prefetch(s, blocks)
            /\ Forget(s, blocks)
            /\ Excuse("loss", blocks # {})
            /\ IF blocks = {} THEN UNCHANGED last
               ELSE \E top \in blocks : SaveHeight(top)
    BY <1>26 DEF Abort
  <2>2. wipes' \in 0..MaxWipes /\ faults' \in 0..MaxFaults
    BY <2>1 DEF Prefetch, Fault
  <2>3. /\ pc[s] = "fetching" /\ pc' = [pc EXCEPT ![s] = "failing"]
        /\ running' = [running EXCEPT ![s] = FALSE] /\ flag' = FALSE
        /\ UNCHANGED <<callVars, found, tip>>
    BY <1>26 DEF Abort, Go
  <2>4. blocks \subseteq Heights
    BY <2>1, <2>3 DEF Wanted
  <2>5. last' \in 0..MaxHeight
    BY <2>1, <2>4 DEF SaveHeight
  <2>6. excuses' \subseteq Excuses
    BY <2>1 DEF Excuse
  <2>7. /\ cur' \in [Callers -> 0..MaxHeight + 1]
        /\ tx' \in [Callers -> 0..PerBlock]
        /\ target' \in [Callers -> 0..MaxHeight]
        /\ got' \in [Callers -> SUBSET Heights]
        /\ mark' \in [Callers -> 0..MaxHeight]
        /\ count' \in [Callers -> 0..Every - 1]
    BY <2>1, <2>4 DEF Forget
  <2>8. TypeOK'
    BY <2>2, <2>3, <2>5, <2>6, <2>7
  <2>9. Ranges'
    BY <2>1, <2>3 DEF Forget
  <2> QED
    BY <2>8, <2>9
<1>27. ASSUME NEW s \in Callers, Take(s) PROVE TInv'
  BY <1>27 DEF Take, Go
<1>28. ASSUME NEW s \in Callers, PassOver(s) PROVE TInv'
  BY <1>28 DEF PassOver, Excuse
<1>29. ASSUME NEW s \in Callers, LeaveBlock(s) PROVE TInv'
  BY <1>29 DEF LeaveBlock, Go
<1>30. ASSUME NEW s \in Callers, EndBlock(s) PROVE TInv'
  BY <1>30 DEF EndBlock, Go, SaveHeight
<1>31. ASSUME NEW s \in Callers, Finish(s) PROVE TInv'
  BY <1>31 DEF Finish, Go, SaveHeight, Forget
<1>32. ASSUME NEW s \in Callers, EndScan(s) PROVE TInv'
  <2>1. PICK to \in {"returned", "thrown"} : pc' = [pc EXCEPT ![s] = to]
    BY <1>32 DEF EndScan, Go
  <2>2. flag' = FALSE /\ running' = [running EXCEPT ![s] = FALSE]
        /\ current' \in {current, Nobody}
        /\ UNCHANGED <<syncing, repairing, loaded, from, again, last, found,
                       tip, excuses, bounds>>
    BY <1>32 DEF EndScan, Release
  <2>3. /\ cur' = [cur EXCEPT ![s] = 0] /\ tx' = [tx EXCEPT ![s] = 0]
        /\ target' = [target EXCEPT ![s] = 0]
        /\ got' = [got EXCEPT ![s] = {}] /\ mark' = [mark EXCEPT ![s] = 0]
        /\ count' = [count EXCEPT ![s] = 0]
    BY <1>32 DEF EndScan, Forget
  <2>4. /\ cur' \in [Callers -> 0..MaxHeight + 1]
        /\ tx' \in [Callers -> 0..PerBlock]
        /\ target' \in [Callers -> 0..MaxHeight]
        /\ got' \in [Callers -> SUBSET Heights]
        /\ mark' \in [Callers -> 0..MaxHeight]
        /\ count' \in [Callers -> 0..Every - 1]
    BY <2>3
  <2>5. TypeOK'
    BY <2>1, <2>2, <2>4
  <2>6. Ranges'
    BY <2>1, <2>2, <2>3
  <2> QED
    BY <2>5, <2>6
<1>33. CASE TimeOut
  <2>1. faults' \in 0..MaxFaults
    BY <1>33 DEF TimeOut, Fault
  <2> QED
    BY <1>33, <2>1 DEF TimeOut, Fault
<1>34. CASE StopSync
  BY <1>34 DEF StopSync, StopCurrent, Fault, Excuse
<1>35. CASE NewBlock
  BY <1>35 DEF NewBlock
<1>36. CASE Crash
  <2>1. wipes' \in 0..MaxWipes /\ faults' \in 0..MaxFaults
    BY <1>36 DEF Crash, Fault
  <2>2. excuses' \subseteq Excuses
    BY <1>36 DEF Crash, Excuse
  <2>3. /\ cur' \in [Callers -> 0..MaxHeight + 1]
        /\ tx' \in [Callers -> 0..PerBlock]
        /\ from' \in [Callers -> 0..MaxHeight]
        /\ target' \in [Callers -> 0..MaxHeight]
        /\ mark' \in [Callers -> 0..MaxHeight]
        /\ count' \in [Callers -> 0..Every - 1]
    BY <1>36 DEF Crash
  <2>4. /\ got' \in [Callers -> SUBSET Heights]
        /\ running' \in [Callers -> BOOLEAN]
        /\ \A s \in Callers : pc'[s] = "idle"
        /\ pc' \in [Callers -> {"idle"}]
    BY <1>36 DEF Crash
  <2>5. TypeOK'
    BY <1>36, <2>1, <2>2, <2>3, <2>4 DEF Crash
  <2> QED
    BY <2>4, <2>5
<1>37. CASE UNCHANGED vars
  BY <1>37 DEF vars
<1> QED
  BY <1>1, <1>2, <1>3, <1>4, <1>5, <1>6, <1>7, <1>8, <1>9, <1>10, <1>11,
       <1>12, <1>13, <1>14, <1>15, <1>16, <1>17, <1>18, <1>19, <1>20, <1>21,
       <1>22, <1>23, <1>24, <1>25, <1>26, <1>27, <1>28, <1>29, <1>30, <1>31,
       <1>32, <1>33, <1>34, <1>35, <1>36, <1>37 DEF Next, CallStep, ScanStep

\* At the start nobody scans and the height is that of the boost file.
LEMMA TypeInit == Init => TInv
<1> SUFFICES ASSUME Init PROVE TInv
  OBVIOUS
<1> USE BoundsAssumption DEF Init, Boost
<1>1. /\ cur \in [Callers -> 0..MaxHeight + 1]
      /\ tx \in [Callers -> 0..PerBlock]
      /\ from \in [Callers -> 0..MaxHeight]
      /\ target \in [Callers -> 0..MaxHeight]
      /\ mark \in [Callers -> 0..MaxHeight]
      /\ count \in [Callers -> 0..Every - 1]
  OBVIOUS
<1>2. /\ got \in [Callers -> SUBSET Heights]
      /\ running \in [Callers -> BOOLEAN]
      /\ pc \in [Callers -> {"idle"}]
  OBVIOUS
<1>3. last \in 0..MaxHeight /\ tip \in 0..MaxHeight
  OBVIOUS
<1>4. wipes \in 0..MaxWipes /\ faults \in 0..MaxFaults
  OBVIOUS
<1>5. found \subseteq Heights \X Txs
  BY DEF Heights
<1>6. TypeOK
  BY <1>1, <1>2, <1>3, <1>4, <1>5 DEF TypeOK
<1>7. Ranges
  BY <1>2 DEF Ranges, Preparing
<1> QED
  BY <1>6, <1>7 DEF TInv

\* The state keeps its types and the ranges of the scans.
LEMMA TypeAlways == Spec => []TInv
<1>1. Init => TInv
  BY TypeInit
<1>2. TInv /\ [Next]_vars => TInv'
  BY TypeStep
<1> QED
  BY <1>1, <1>2, PTL DEF Spec

\* The scans' state and the saved height keep their types.
THEOREM TypeCorrect == Spec => []TypeOK
<1>1. TInv => TypeOK
  BY DEF TInv
<1> QED
  BY <1>1, TypeAlways, PTL

-----------------------------------------------------------------------------
(* The flags.                                                              *)

\* Background syncs keep each other out, and nobody else begins like one.
SyncIsAlone == \A s, t \in Syncs : pc[s] # "idle" /\ pc[t] # "idle" => s = t
EnteredIsSync == \A s \in Callers : pc[s] = "entered" => s \in Syncs

Owned == FlagsHaveOwners /\ SyncIsAlone /\ EnteredIsSync

\* A step that leaves a flag up leaves its owner: the scan that ends is the one
\* that takes the scan flag down, and a background sync takes down its own.
LEMMA FlagStep == TInv /\ Owned /\ [Next]_vars => Owned'
<1> SUFFICES ASSUME TInv, Owned, [Next]_vars PROVE Owned'
  OBVIOUS
<1> USE CallersAssumption, BoundsAssumption DEF TInv, TypeOK, Owned,
     FlagsHaveOwners, SyncIsAlone, EnteredIsSync, Preparing, Calling, Reading,
     Scanning, Callers, Wipers, scanVars, bounds, callVars
<1>1. ASSUME NEW s \in Callers, EnterSync(s) PROVE Owned'
  BY <1>1 DEF EnterSync, Go, Called
<1>2. ASSUME NEW s \in Callers, PassGuards(s) PROVE Owned'
  BY <1>2 DEF PassGuards, Go
<1>3. ASSUME NEW s \in Callers, GuardFails(s) PROVE Owned'
  BY <1>3 DEF GuardFails, Go
<1>4. ASSUME NEW s \in Callers, LookAgain(s) PROVE Owned'
  BY <1>4 DEF LookAgain, Go
<1>5. ASSUME NEW s \in Callers, ScanAgain(s) PROVE Owned'
  BY <1>5 DEF ScanAgain, Go
<1>6. ASSUME NEW s \in Callers, CallRefresh(s) PROVE Owned'
  BY <1>6 DEF CallRefresh, Go, Called
<1>7. ASSUME NEW s \in Callers, RefreshToo(s) PROVE Owned'
  BY <1>7 DEF RefreshToo, Go
<1>8. ASSUME NEW s \in Callers, CallRescan(s) PROVE Owned'
  BY <1>8 DEF CallRescan, Go, Called, Wipe
<1>9. ASSUME NEW s \in Callers, BeginRepair(s) PROVE Owned'
  BY <1>9 DEF BeginRepair, Go, Called, Wipe
<1>10. ASSUME NEW s \in Callers, StopForRepair(s) PROVE Owned'
  BY <1>10 DEF StopForRepair, Go, StopCurrent, Excuse
<1>11. ASSUME NEW s \in Callers, ClearFlag(s) PROVE Owned'
  BY <1>11 DEF ClearFlag, Go
<1>12. ASSUME NEW s \in Callers, DeleteNotes(s) PROVE Owned'
  BY <1>12 DEF DeleteNotes, Go
<1>13. ASSUME NEW s \in Callers, ResetHeight(s) PROVE Owned'
  BY <1>13 DEF ResetHeight, Go, Excuse
<1>14. ASSUME NEW s \in Callers, ClearAgain(s) PROVE Owned'
  BY <1>14 DEF ClearAgain, Go, Excuse
<1>15. ASSUME NEW s \in Callers, WiperFails(s) PROVE Owned'
  BY <1>15 DEF WiperFails, Go, Fault, Excuse
<1>16. ASSUME NEW s \in Callers, CallEnds(s) PROVE Owned'
  <2>1. /\ pc[s] \in {"thrown", "between", "returned"}
        /\ pc' = [pc EXCEPT ![s] = "idle"]
        /\ syncing' = (syncing /\ s \notin Syncs)
        /\ repairing' = (repairing /\ s \notin Repairs)
        /\ flag' = flag
    BY <1>16 DEF CallEnds, Over
  <2>2. /\ pc'[s] = "idle"
        /\ \A t \in Callers \ {s} : pc'[t] = pc[t]
    BY <2>1
  <2>3. flag' => \E t \in Callers : pc'[t] \in Scanning
    BY <2>1, <2>2
  <2>4. syncing' <=> \E t \in Syncs : pc'[t] # "idle"
    <3>1. CASE s \in Syncs
      <4>1. \A t \in Syncs : pc'[t] = "idle"
        BY <2>1, <2>2, <3>1
      <4>2. ~syncing'
        BY <2>1, <3>1
      <4> QED
        BY <4>1, <4>2
    <3>2. CASE s \notin Syncs
      <4>1. \A t \in Syncs : pc'[t] = pc[t]
        BY <2>2, <3>2
      <4>2. syncing' <=> syncing
        BY <2>1, <3>2
      <4> QED
        BY <4>1, <4>2
    <3> QED
      BY <3>1, <3>2
  <2>5. repairing' => \E t \in Repairs : pc'[t] # "idle"
    <3> SUFFICES ASSUME repairing' PROVE \E t \in Repairs : pc'[t] # "idle"
      OBVIOUS
    <3>1. repairing /\ s \notin Repairs
      BY <2>1
    <3> QED
      BY <2>2, <3>1
  <2>6. SyncIsAlone' /\ EnteredIsSync'
    BY <2>2
  <2> QED
    BY <2>3, <2>4, <2>5, <2>6
<1>17. ASSUME NEW s \in Callers, SkipScan(s) PROVE Owned'
  BY <1>17 DEF SkipScan, Go, Release, Forget
<1>18. ASSUME NEW s \in Callers, CheckFlag(s) PROVE Owned'
  BY <1>18 DEF CheckFlag, Go
<1>19. ASSUME NEW s \in Callers, SetFlag(s) PROVE Owned'
  BY <1>19 DEF SetFlag, Go
<1>20. ASSUME NEW s \in Callers, FindRange(s) PROVE Owned'
  BY <1>20 DEF FindRange, Go, StartHeight
<1>21. ASSUME NEW s \in Callers, NothingToScan(s) PROVE Owned'
  BY <1>21 DEF NothingToScan, Go, Forget
<1>22. ASSUME NEW s \in Callers, ScanFails(s) PROVE Owned'
  BY <1>22 DEF ScanFails, Go, Forget, Fault
<1>23. ASSUME NEW s \in Callers, ExamineTx(s) PROVE Owned'
  BY <1>23 DEF ExamineTx, Fault, Excuse
<1>24. ASSUME NEW s \in Callers, EndBoost(s) PROVE Owned'
  BY <1>24 DEF EndBoost, Go, SaveHeight
<1>25. ASSUME NEW s \in Callers, Fetch(s) PROVE Owned'
  BY <1>25 DEF Fetch, Go, Prefetch, Wanted, Fault
<1>26. ASSUME NEW s \in Callers, Abort(s) PROVE Owned'
  BY <1>26 DEF Abort, Go, Prefetch, Wanted, Fault, Forget, Excuse, SaveHeight
<1>27. ASSUME NEW s \in Callers, Take(s) PROVE Owned'
  BY <1>27 DEF Take, Go
<1>28. ASSUME NEW s \in Callers, PassOver(s) PROVE Owned'
  BY <1>28 DEF PassOver, Excuse
<1>29. ASSUME NEW s \in Callers, LeaveBlock(s) PROVE Owned'
  BY <1>29 DEF LeaveBlock, Go
<1>30. ASSUME NEW s \in Callers, EndBlock(s) PROVE Owned'
  BY <1>30 DEF EndBlock, Go, SaveHeight
<1>31. ASSUME NEW s \in Callers, Finish(s) PROVE Owned'
  BY <1>31 DEF Finish, Go, SaveHeight, Forget
<1>32. ASSUME NEW s \in Callers, EndScan(s) PROVE Owned'
  BY <1>32 DEF EndScan, Go, Release, Forget
<1>33. CASE TimeOut
  BY <1>33 DEF TimeOut, Fault
<1>34. CASE StopSync
  BY <1>34 DEF StopSync, StopCurrent, Fault, Excuse
<1>35. CASE NewBlock
  BY <1>35 DEF NewBlock
<1>36. CASE Crash
  BY <1>36 DEF Crash, Fault, Excuse
<1>37. CASE UNCHANGED vars
  BY <1>37 DEF vars
<1> QED
  BY <1>1, <1>2, <1>3, <1>4, <1>5, <1>6, <1>7, <1>8, <1>9, <1>10, <1>11,
       <1>12, <1>13, <1>14, <1>15, <1>16, <1>17, <1>18, <1>19, <1>20, <1>21,
       <1>22, <1>23, <1>24, <1>25, <1>26, <1>27, <1>28, <1>29, <1>30, <1>31,
       <1>32, <1>33, <1>34, <1>35, <1>36, <1>37 DEF Next, CallStep, ScanStep

\* The scan flag is up only while a scan is under way, the mutex exactly while a
\* background sync is, the repair flag only while a repair is.
LEMMA OwnedAlways == Spec => []Owned
<1>1. Init => Owned
  BY DEF Init, Owned, FlagsHaveOwners, SyncIsAlone, EnteredIsSync, Callers
<1>2. TInv /\ Owned /\ [Next]_vars => Owned'
  BY FlagStep
<1> QED
  BY <1>1, <1>2, TypeAlways, PTL DEF Spec

\* No flag is left up by whoever raised it, however scans, syncs, repairs,
\* timeouts, stops and crashes interleave.
THEOREM FlagsAreHeld == Spec => []FlagsHaveOwners
<1>1. Owned => FlagsHaveOwners
  BY DEF Owned
<1> QED
  BY <1>1, OwnedAlways, PTL

\* Two background syncs never run at the same time, although the mutex is only
\* a variable: it is read and set between two suspension points.
THEOREM SyncsAreExclusive == Spec => []SyncIsAlone
<1>1. Owned => SyncIsAlone
  BY DEF Owned
<1> QED
  BY <1>1, OwnedAlways, PTL

-----------------------------------------------------------------------------
(* No block is missed.                                                     *)

\* What is covered stays covered: by the scan's own steps, by those of
\* another scan over the same blocks, and by a wipe.
LEMMA CoveredStep == TInv /\ Covered /\ [Next]_vars => Covered'
<1> SUFFICES ASSUME TInv, Covered, [Next]_vars PROVE Covered'
  OBVIOUS
<1> USE CallersAssumption, BoundsAssumption DEF TInv, TypeOK, Ranges,
     Preparing, Calling, Reading, Scanning, Heights, Txs, Boost, Wipers,
     Callers, Covered, Quiet, Has, Complete, Before, Straggles, scanVars,
     bounds, callVars
<1>1. ASSUME NEW s \in Callers, EnterSync(s) PROVE Covered'
  BY <1>1 DEF EnterSync, Go, Called
<1>2. ASSUME NEW s \in Callers, PassGuards(s) PROVE Covered'
  BY <1>2 DEF PassGuards, Go
<1>3. ASSUME NEW s \in Callers, GuardFails(s) PROVE Covered'
  BY <1>3 DEF GuardFails, Go
<1>4. ASSUME NEW s \in Callers, LookAgain(s) PROVE Covered'
  BY <1>4 DEF LookAgain, Go
<1>5. ASSUME NEW s \in Callers, ScanAgain(s) PROVE Covered'
  BY <1>5 DEF ScanAgain, Go
<1>6. ASSUME NEW s \in Callers, CallRefresh(s) PROVE Covered'
  BY <1>6 DEF CallRefresh, Go, Called
<1>7. ASSUME NEW s \in Callers, RefreshToo(s) PROVE Covered'
  BY <1>7 DEF RefreshToo, Go
<1>8. ASSUME NEW s \in Callers, CallRescan(s) PROVE Covered'
  BY <1>8 DEF CallRescan, Go, Called, Wipe
<1>9. ASSUME NEW s \in Callers, BeginRepair(s) PROVE Covered'
  BY <1>9 DEF BeginRepair, Go, Called, Wipe
<1>10. ASSUME NEW s \in Callers, StopForRepair(s) PROVE Covered'
  <2>1. /\ pc[s] = "stopping" /\ pc' = [pc EXCEPT ![s] = "waiting"]
        /\ UNCHANGED <<last, found, from, cur, tx, mark>>
    BY <1>10 DEF StopForRepair, Go
  <2>2. excuses' = {} =>
            excuses = {} /\ \A t \in Callers : running'[t] = running[t]
    <3>1. /\ running' = [t \in Callers |-> running[t] /\ t # current]
          /\ excuses' = {} =>
                excuses = {} /\ ~(current # Nobody /\ running[current])
      BY <1>10 DEF StopForRepair, StopCurrent, Excuse
    <3> SUFFICES ASSUME excuses' = {}
                 PROVE \A t \in Callers : running'[t] = running[t]
      BY <3>1
    <3>2. ASSUME NEW t \in Callers, t = current PROVE ~running'[t] /\ ~running[t]
      BY <3>1, <3>2, Zenon
    <3>3. ASSUME NEW t \in Callers, t # current PROVE running'[t] = running[t]
      <4>1. running'[t] <=> running[t]
        BY <3>1, <3>3, Zenon
      <4>2. running[t] \in BOOLEAN /\ running'[t] \in BOOLEAN
        BY <3>1
      <4> QED
        BY <4>1, <4>2
    <3>4. ASSUME NEW t \in Callers, t = current PROVE running'[t] = running[t]
      <4>1. running[t] \in BOOLEAN /\ running'[t] \in BOOLEAN
        BY <3>1
      <4> QED
        BY <3>2, <3>4, <4>1
    <3> QED
      BY <3>3, <3>4
  <2> QED
    BY <2>1, <2>2
<1>11. ASSUME NEW s \in Callers, ClearFlag(s) PROVE Covered'
  BY <1>11 DEF ClearFlag, Go
<1>12. ASSUME NEW s \in Callers, DeleteNotes(s) PROVE Covered'
  BY <1>12 DEF DeleteNotes, Go
<1>13. ASSUME NEW s \in Callers, ResetHeight(s) PROVE Covered'
  BY <1>13 DEF ResetHeight, Go, Excuse
<1>14. ASSUME NEW s \in Callers, ClearAgain(s) PROVE Covered'
  BY <1>14 DEF ClearAgain, Go, Excuse
<1>15. ASSUME NEW s \in Callers, WiperFails(s) PROVE Covered'
  <2>1. /\ pc' = [pc EXCEPT ![s] = "thrown"]
        /\ UNCHANGED <<last, found, from, cur, tx, mark, running>>
    BY <1>15 DEF WiperFails, Go
  <2>2. excuses' = {} => excuses = {} /\ pc[s] # "resetting"
    BY <1>15 DEF WiperFails, Excuse
  <2> QED
    BY <2>1, <2>2
<1>16. ASSUME NEW s \in Callers, CallEnds(s) PROVE Covered'
  BY <1>16 DEF CallEnds, Over
<1>17. ASSUME NEW s \in Callers, SkipScan(s) PROVE Covered'
  BY <1>17 DEF SkipScan, Go, Release, Forget
<1>18. ASSUME NEW s \in Callers, CheckFlag(s) PROVE Covered'
  BY <1>18 DEF CheckFlag, Go
<1>19. ASSUME NEW s \in Callers, SetFlag(s) PROVE Covered'
  BY <1>19 DEF SetFlag, Go
<1>20. ASSUME NEW s \in Callers, FindRange(s) PROVE Covered'
  BY <1>20 DEF FindRange, Go, StartHeight
<1>21. ASSUME NEW s \in Callers, NothingToScan(s) PROVE Covered'
  BY <1>21 DEF NothingToScan, Go, Forget
<1>22. ASSUME NEW s \in Callers, ScanFails(s) PROVE Covered'
  BY <1>22 DEF ScanFails, Go, Forget, Fault
<1>23. ASSUME NEW s \in Callers, ExamineTx(s) PROVE Covered'
  <2>1. /\ pc[s] \in {"boosting", "examining"}
        /\ tx' = [tx EXCEPT ![s] = tx[s] + 1]
        /\ UNCHANGED <<last, pc, running, from, cur, mark>>
    BY <1>23 DEF ExamineTx
  <2>2. found \subseteq found'
    BY <1>23 DEF ExamineTx
  <2>3. excuses' = {} =>
            excuses = {} /\ found' = found \cup {<<cur[s], tx[s] + 1>>}
    BY <1>23 DEF ExamineTx, Excuse
  <2>4. Quiet' => Quiet
    BY <2>1, <2>3
  <2>5. \A h \in Int : Has(h) => Has(h)'
    BY <2>2
  <2>6. ASSUME NEW t \in Callers, Quiet', pc[t] \in {"boosting", "examining"}
        PROVE \A x \in 1..tx'[t] : <<cur[t], x>> \in found'
    <3>1. \A x \in 1..tx[t] : <<cur[t], x>> \in found'
      BY <2>2, <2>4, <2>6
    <3>2. CASE t = s
      <4>1. tx'[t] = tx[t] + 1 /\ tx[t] \in Nat
        BY <2>1, <3>2
      <4>2. <<cur[t], tx[t] + 1>> \in found'
        BY <2>3, <2>6, <3>2
      <4>3. \A x \in 1..tx'[t] : x \in 1..tx[t] \/ x = tx[t] + 1
        BY <4>1
      <4> QED
        BY <3>1, <4>2, <4>3
    <3>3. CASE t # s
      BY <2>1, <3>1, <3>3
    <3> QED
      BY <3>2, <3>3
  <2>7. last \in Int /\ \A t \in Callers : from[t] \in Int /\ cur[t] - 1 \in Int
    OBVIOUS
  <2>8. (Quiet => Has(last))'
    BY <2>1, <2>4, <2>5, <2>7 DEF Covered
  <2>9. ASSUME NEW t \in Callers, Quiet'
        PROVE /\ t \in Syncs /\ pc'[t] \in Before => Has(from[t])'
              /\ pc'[t] \in Reading => Has(cur[t] - 1)'
    BY <2>1, <2>4, <2>5, <2>7, <2>9
  <2> QED
    BY <2>1, <2>3, <2>6, <2>8, <2>9
<1>24. ASSUME NEW s \in Callers, EndBoost(s) PROVE Covered'
  BY <1>24 DEF EndBoost, Go, SaveHeight
<1>25. ASSUME NEW s \in Callers, Fetch(s) PROVE Covered'
  BY <1>25 DEF Fetch, Go, Prefetch, Wanted, Fault
<1>26. ASSUME NEW s \in Callers, Abort(s) PROVE Covered'
  <2>1. PICK blocks \in SUBSET Wanted(s) :
            /\ Forget(s, blocks)
            /\ Excuse("loss", blocks # {})
            /\ blocks = {} => UNCHANGED last
    BY <1>26 DEF Abort
  <2>2. /\ pc[s] = "fetching" /\ pc' = [pc EXCEPT ![s] = "failing"]
        /\ running' = [running EXCEPT ![s] = FALSE]
        /\ UNCHANGED <<found, from>>
    BY <1>26 DEF Abort, Go
  <2>3. excuses' = {} => excuses = {} /\ last' = last
    BY <2>1 DEF Excuse
  <2>4. \A t \in Callers \ {s} :
            cur'[t] = cur[t] /\ tx'[t] = tx[t] /\ mark'[t] = mark[t]
    BY <2>1 DEF Forget
  <2> QED
    BY <2>2, <2>3, <2>4
<1>27. ASSUME NEW s \in Callers, Take(s) PROVE Covered'
  BY <1>27 DEF Take, Go
<1>28. ASSUME NEW s \in Callers, PassOver(s) PROVE Covered'
  BY <1>28 DEF PassOver, Excuse
<1>29. ASSUME NEW s \in Callers, LeaveBlock(s) PROVE Covered'
  BY <1>29 DEF LeaveBlock, Go
<1>30. ASSUME NEW s \in Callers, EndBlock(s) PROVE Covered'
  BY <1>30 DEF EndBlock, Go, SaveHeight
<1>31. ASSUME NEW s \in Callers, Finish(s) PROVE Covered'
  BY <1>31 DEF Finish, Go, SaveHeight, Forget
<1>32. ASSUME NEW s \in Callers, EndScan(s) PROVE Covered'
  BY <1>32 DEF EndScan, Go, Release, Forget
<1>33. CASE TimeOut
  BY <1>33 DEF TimeOut, Fault
<1>34. CASE StopSync
  BY <1>34 DEF StopSync, StopCurrent, Fault, Excuse
<1>35. CASE NewBlock
  BY <1>35 DEF NewBlock
<1>36. CASE Crash
  BY <1>36 DEF Crash, Fault, Excuse
<1>37. CASE UNCHANGED vars
  BY <1>37 DEF vars
<1> QED
  BY <1>1, <1>2, <1>3, <1>4, <1>5, <1>6, <1>7, <1>8, <1>9, <1>10, <1>11,
       <1>12, <1>13, <1>14, <1>15, <1>16, <1>17, <1>18, <1>19, <1>20, <1>21,
       <1>22, <1>23, <1>24, <1>25, <1>26, <1>27, <1>28, <1>29, <1>30, <1>31,
       <1>32, <1>33, <1>34, <1>35, <1>36, <1>37 DEF Next, CallStep, ScanStep

\* The notes of every block up to the saved height were looked for, unless one
\* of the five excuses happened.
THEOREM NoBlockMissed == Spec => []NothingMissed
<1>1. Init => Covered
  BY DEF Init, Covered, Has, Complete, Before, Reading, Boost
<1>2. TInv /\ Covered /\ [Next]_vars => Covered'
  BY CoveredStep
<1>3. Covered => NothingMissed
  BY DEF Covered, Quiet, Has, NothingMissed
<1> QED
  BY <1>1, <1>2, <1>3, TypeAlways, PTL DEF Spec

-----------------------------------------------------------------------------
(* The saved height.                                                       *)

\* A scan starts where the saved height ends, and what it is to save beyond
\* it is a block it fetched.
LEMMA BehindStep == TInv /\ Behind /\ [Next]_vars => Behind'
<1> SUFFICES ASSUME TInv, Behind, [Next]_vars PROVE Behind'
  OBVIOUS
<1> USE CallersAssumption, BoundsAssumption DEF TInv, TypeOK, Ranges,
     Preparing, Calling, Reading, Scanning, Heights, Boost, Wipers, Callers,
     Behind, Before, Straggles, scanVars, bounds, callVars
<1>1. ASSUME NEW s \in Callers, EnterSync(s) PROVE Behind'
  BY <1>1 DEF EnterSync, Go, Called
<1>2. ASSUME NEW s \in Callers, PassGuards(s) PROVE Behind'
  BY <1>2 DEF PassGuards, Go
<1>3. ASSUME NEW s \in Callers, GuardFails(s) PROVE Behind'
  BY <1>3 DEF GuardFails, Go
<1>4. ASSUME NEW s \in Callers, LookAgain(s) PROVE Behind'
  BY <1>4 DEF LookAgain, Go
<1>5. ASSUME NEW s \in Callers, ScanAgain(s) PROVE Behind'
  BY <1>5 DEF ScanAgain, Go
<1>6. ASSUME NEW s \in Callers, CallRefresh(s) PROVE Behind'
  BY <1>6 DEF CallRefresh, Go, Called
<1>7. ASSUME NEW s \in Callers, RefreshToo(s) PROVE Behind'
  BY <1>7 DEF RefreshToo, Go
<1>8. ASSUME NEW s \in Callers, CallRescan(s) PROVE Behind'
  BY <1>8 DEF CallRescan, Go, Called, Wipe
<1>9. ASSUME NEW s \in Callers, BeginRepair(s) PROVE Behind'
  BY <1>9 DEF BeginRepair, Go, Called, Wipe
<1>10. ASSUME NEW s \in Callers, StopForRepair(s) PROVE Behind'
  BY <1>10 DEF StopForRepair, Go, StopCurrent, Excuse
<1>11. ASSUME NEW s \in Callers, ClearFlag(s) PROVE Behind'
  BY <1>11 DEF ClearFlag, Go
<1>12. ASSUME NEW s \in Callers, DeleteNotes(s) PROVE Behind'
  BY <1>12 DEF DeleteNotes, Go
<1>13. ASSUME NEW s \in Callers, ResetHeight(s) PROVE Behind'
  BY <1>13 DEF ResetHeight, Go, Excuse
<1>14. ASSUME NEW s \in Callers, ClearAgain(s) PROVE Behind'
  BY <1>14 DEF ClearAgain, Go, Excuse
<1>15. ASSUME NEW s \in Callers, WiperFails(s) PROVE Behind'
  BY <1>15 DEF WiperFails, Go, Fault, Excuse
<1>16. ASSUME NEW s \in Callers, CallEnds(s) PROVE Behind'
  BY <1>16 DEF CallEnds, Over
<1>17. ASSUME NEW s \in Callers, SkipScan(s) PROVE Behind'
  BY <1>17 DEF SkipScan, Go, Release, Forget
<1>18. ASSUME NEW s \in Callers, CheckFlag(s) PROVE Behind'
  BY <1>18 DEF CheckFlag, Go
<1>19. ASSUME NEW s \in Callers, SetFlag(s) PROVE Behind'
  BY <1>19 DEF SetFlag, Go
<1>20. ASSUME NEW s \in Callers, FindRange(s) PROVE Behind'
  BY <1>20 DEF FindRange, Go, StartHeight
<1>21. ASSUME NEW s \in Callers, NothingToScan(s) PROVE Behind'
  BY <1>21 DEF NothingToScan, Go, Forget
<1>22. ASSUME NEW s \in Callers, ScanFails(s) PROVE Behind'
  BY <1>22 DEF ScanFails, Go, Forget, Fault
<1>23. ASSUME NEW s \in Callers, ExamineTx(s) PROVE Behind'
  BY <1>23 DEF ExamineTx, Fault, Excuse
<1>24. ASSUME NEW s \in Callers, EndBoost(s) PROVE Behind'
  BY <1>24 DEF EndBoost, Go, SaveHeight
<1>25. ASSUME NEW s \in Callers, Fetch(s) PROVE Behind'
  <2>1. PICK blocks \in SUBSET Wanted(s) :
            got' = [got EXCEPT ![s] = blocks]
    BY <1>25 DEF Fetch
  <2>2. /\ pc[s] = "fetching" /\ pc' = [pc EXCEPT ![s] = "processing"]
        /\ UNCHANGED <<last, from, mark, excuses>>
    BY <1>25 DEF Fetch, Go
  <2> QED
    BY <2>1, <2>2
<1>26. ASSUME NEW s \in Callers, Abort(s) PROVE Behind'
  <2>1. PICK blocks \in SUBSET Wanted(s) :
            /\ Forget(s, blocks)
            /\ Excuse("loss", blocks # {})
            /\ IF blocks = {} THEN UNCHANGED last
               ELSE \E top \in blocks : SaveHeight(top)
    BY <1>26 DEF Abort
  <2>2. /\ pc[s] = "fetching" /\ pc' = [pc EXCEPT ![s] = "failing"]
        /\ UNCHANGED from
    BY <1>26 DEF Abort, Go
  <2>3. blocks \subseteq Heights
    BY <2>1, <2>2 DEF Wanted
  <2>4. last' \in Nat /\ last <= last'
    BY <2>1, <2>3 DEF SaveHeight
  <2>5. "straggler" \notin excuses' => "straggler" \notin excuses
    BY <2>1 DEF Excuse
  <2>6. \A t \in Callers \ {s} : mark'[t] = mark[t] /\ got'[t] = got[t]
    BY <2>1 DEF Forget
  <2> QED
    BY <2>2, <2>4, <2>5, <2>6
<1>27. ASSUME NEW s \in Callers, Take(s) PROVE Behind'
  BY <1>27 DEF Take, Go
<1>28. ASSUME NEW s \in Callers, PassOver(s) PROVE Behind'
  BY <1>28 DEF PassOver, Excuse
<1>29. ASSUME NEW s \in Callers, LeaveBlock(s) PROVE Behind'
  BY <1>29 DEF LeaveBlock, Go
<1>30. ASSUME NEW s \in Callers, EndBlock(s) PROVE Behind'
  BY <1>30 DEF EndBlock, Go, SaveHeight
<1>31. ASSUME NEW s \in Callers, Finish(s) PROVE Behind'
  BY <1>31 DEF Finish, Go, SaveHeight, Forget
<1>32. ASSUME NEW s \in Callers, EndScan(s) PROVE Behind'
  BY <1>32 DEF EndScan, Go, Release, Forget
<1>33. CASE TimeOut
  BY <1>33 DEF TimeOut, Fault
<1>34. CASE StopSync
  BY <1>34 DEF StopSync, StopCurrent, Fault, Excuse
<1>35. CASE NewBlock
  BY <1>35 DEF NewBlock
<1>36. CASE Crash
  BY <1>36 DEF Crash, Fault, Excuse
<1>37. CASE UNCHANGED vars
  BY <1>37 DEF vars
<1> QED
  BY <1>1, <1>2, <1>3, <1>4, <1>5, <1>6, <1>7, <1>8, <1>9, <1>10, <1>11,
       <1>12, <1>13, <1>14, <1>15, <1>16, <1>17, <1>18, <1>19, <1>20, <1>21,
       <1>22, <1>23, <1>24, <1>25, <1>26, <1>27, <1>28, <1>29, <1>30, <1>31,
       <1>32, <1>33, <1>34, <1>35, <1>36, <1>37 DEF Next, CallStep, ScanStep

\* A step that raises the saved height raises it to a fetched block.
LEMMA AdvanceStep ==
    TInv /\ Behind /\ [Next]_vars
        => (last' > last /\ "straggler" \notin excuses
                => last' = Boost \/ \E s \in Callers : last' \in got[s] \cup got'[s])
<1> SUFFICES ASSUME TInv, Behind, [Next]_vars, last' > last,
                    "straggler" \notin excuses
             PROVE last' = Boost \/ \E s \in Callers : last' \in got[s] \cup got'[s]
  OBVIOUS
<1> USE BoundsAssumption DEF TInv, TypeOK, Heights
<1>1. ASSUME NEW s \in Callers, EndBlock(s)
      PROVE \E t \in Callers : last' \in got[t] \cup got'[t]
  <2>1. last' = mark[s] /\ mark[s] \in got[s]
    BY <1>1 DEF EndBlock, Go, SaveHeight, Behind
  <2> QED
    BY <2>1
<1>2. ASSUME NEW s \in Callers, Finish(s)
      PROVE \E t \in Callers : last' \in got[t] \cup got'[t]
  <2>1. last' = mark[s] /\ mark[s] \in got[s]
    BY <1>2 DEF Finish, Go, SaveHeight, Behind
  <2> QED
    BY <2>1
<1>3. ASSUME NEW s \in Callers, Abort(s)
      PROVE \E t \in Callers : last' \in got[t] \cup got'[t]
  <2>1. PICK blocks \in SUBSET Wanted(s) :
            /\ Forget(s, blocks)
            /\ IF blocks = {} THEN UNCHANGED last
               ELSE \E top \in blocks : SaveHeight(top)
    BY <1>3 DEF Abort
  <2>2. PICK top \in blocks : SaveHeight(top)
    BY <2>1
  <2>3. last' = top
    BY <2>2 DEF SaveHeight
  <2>4. got'[s] = blocks
    BY <2>1 DEF Forget
  <2> QED
    BY <2>3, <2>4
<1>4. ASSUME NEW s \in Callers, EnterSync(s) \/ CallRefresh(s) \/ CallRescan(s)
                  \/ BeginRepair(s) \/ CallStep(s) \/ ScanFails(s)
                  \/ WiperFails(s)
      PROVE last' = last \/ last' = 0
  BY <1>4 DEF EnterSync, CallRefresh, CallRescan, BeginRepair, CallStep,
     ScanFails, WiperFails, PassGuards, GuardFails, LookAgain, ScanAgain,
     StopForRepair, ClearFlag, DeleteNotes, ResetHeight, ClearAgain,
     RefreshToo, CallEnds
<1>5. ASSUME NEW s \in Callers, SkipScan(s) \/ CheckFlag(s) \/ SetFlag(s)
                  \/ FindRange(s) \/ NothingToScan(s) \/ ExamineTx(s)
                  \/ Fetch(s) \/ Take(s) \/ PassOver(s) \/ LeaveBlock(s)
                  \/ EndScan(s)
      PROVE last' = last \/ last' = 0
  BY <1>5 DEF SkipScan, CheckFlag, SetFlag, FindRange, NothingToScan,
     ExamineTx, Fetch, Take, PassOver, LeaveBlock, EndScan
<1>6. ASSUME TimeOut \/ StopSync \/ NewBlock \/ Crash \/ UNCHANGED vars
      PROVE last' = last \/ last' = 0
  BY <1>6 DEF TimeOut, StopSync, NewBlock, Crash, vars
<1>8. ASSUME NEW s \in Callers, EndBoost(s) PROVE last' = Boost
  BY <1>8 DEF EndBoost, SaveHeight
<1>7. ~(last' = last \/ last' = 0)
  OBVIOUS
<1> QED
  BY <1>1, <1>2, <1>3, <1>4, <1>5, <1>6, <1>7, <1>8 DEF Next, ScanStep

\* FIX #1203: the saved height is raised only to the end of the boost file
\* or to a block some scan fetched, unless a wipe met a caller with a height.
THEOREM AdvanceWasFetched == Spec => AdvanceIsFetched
<1>1. Init => Behind
  BY DEF Init, Behind, Before
<1>2. TInv /\ Behind /\ [Next]_vars => Behind'
  BY BehindStep
<1>3. TInv /\ Behind /\ [Next]_vars
          => [last' > last /\ "straggler" \notin excuses
                  => last' = Boost \/ \E s \in Callers : last' \in got[s] \cup got'[s]]_vars
  BY AdvanceStep
<1> QED
  BY <1>1, <1>2, <1>3, TypeAlways, PTL DEF Spec, AdvanceIsFetched

=============================================================================
