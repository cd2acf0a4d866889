------------------------------ MODULE BlockScan ------------------------------
(***************************************************************************)
(* The scan of the blocks after the boost file for the wallet's notes      *)
(* (FilterScanner.startScan, PHASE 2) and who may run it when: background  *)
(* syncs, balance refreshes, and the two handlers that wipe the notes and  *)
(* scan again (repairNotesAfterDownloadedTree, performFullRescan).  Each   *)
(* of them makes a FilterScanner of its own; what they share is a static   *)
(* flag, the saved height lastScannedHeight and the notes.                 *)
(*                                                                         *)
(* Height 1 stands for the blocks of the boost file, which are on disk     *)
(* (PHASE 1), 2 for the first block after it, which the peers send (PHASE  *)
(* 2), and 0 is what a reset writes.  Left out are the blocks of the delta *)
(* bundle, which are on disk too (PHASE 1b), what a block's outputs do to  *)
(* the commitment tree and the witnesses, and the guards that put a        *)
(* background sync off during a broadcast, a gap fill or the first sync.   *)
(***************************************************************************)
EXTENDS Integers, FiniteSets

CONSTANTS
    Syncs,        \* calls of backgroundSyncToHeight()
    Refreshes,    \* calls of refreshBalance()
    Repairs,      \* calls of repairNotesAfterDownloadedTree()
    Rescans,      \* calls of performFullRescan()
    Nobody,       \* no scanner
    PerBlock,     \* transactions of a block that are looked at
    FirstTip,     \* the chain's height at the start
    MaxHeight,    \* bound: the height the chain may reach
    Every,        \* blocks between two saves of the height (10 in the code)
    Enough,       \* per cent of the blocks a scan goes on with (80 in the code)
    MaxCallers,   \* bound: callers at the same time
    MaxWipes,     \* bound: repairs and rescans
    MaxFaults     \* bound: scans that miss a block, fail, make no progress for
                  \* 900 s or are stopped by the user, transactions that cannot
                  \* be processed, wipes that throw, and crashes of the app

ASSUME CallersAssumption ==
    /\ Syncs \cap (Refreshes \cup Repairs \cup Rescans) = {}
    /\ Refreshes \cap (Repairs \cup Rescans) = {}
    /\ Repairs \cap Rescans = {}
    /\ Nobody \notin Syncs \cup Refreshes \cup Repairs \cup Rescans

ASSUME BoundsAssumption ==
    /\ FirstTip \in Nat \ {0} /\ MaxHeight \in Nat /\ FirstTip <= MaxHeight
    /\ PerBlock \in Nat \ {0}
    /\ Every \in Nat \ {0} /\ Enough \in 0..100
    /\ MaxCallers \in Nat /\ MaxWipes \in Nat /\ MaxFaults \in Nat

Wipers == Repairs \cup Rescans
Callers == Syncs \cup Refreshes \cup Wipers

VARIABLES
    flag,       \* FilterScanner._isScanningFlag
    syncing,    \* isBackgroundSyncing
    repairing,  \* isRepairingDatabase
    loaded,     \* isTreeLoaded
    current,    \* currentScanner: the scanner a stop reaches
    last,       \* last_scanned_height in the database
    found,      \* transactions whose notes are in the database
    tip,        \* the chain's height (external: the peers)
    pc,         \* where each caller is
    running,    \* isScanning of its scanner
    from,       \* the height a sync has read, above which it is to scan
    again,      \* syncs in their second scan, wipers in their refreshBalance()
    cur,        \* currentHeight
    tx,         \* transactions of the block that were looked at
    target,     \* targetHeight
    got,        \* the keys of prefetchedBlocks
    mark,       \* lastActuallyScannedHeight
    count,      \* scannedBlocks % Every
    excuses,    \* history: whether a block may be lost: a wipe met a caller
                \* (straggler), or one of the four other ways (loss)
    wipes,      \* repairs and rescans so far
    faults      \* faults so far

scanVars == <<cur, tx, target, got, mark, count>>
bounds == <<wipes, faults>>
callVars == <<syncing, repairing, loaded, current, from, again>>
vars == <<flag, syncing, repairing, loaded, current, last, found, tip, pc,
          running, from, again, cur, tx, target, got, mark, count, excuses,
          wipes, faults>>

Boost == 1
Heights == 1..MaxHeight
Txs == 1..PerBlock
Excuses == {"loss", "straggler"}

Complete(h) == \A x \in Txs : <<h, x>> \in found

Preparing == {"entered", "stopping", "waiting", "deleting", "resetting",
              "clearing"}
Calling == {"called", "checked", "between", "returned", "thrown"}
Reading == {"boosting", "fetching", "processing", "examining"}
Scanning == Reading \cup {"starting", "ending", "failing"}

\* It goes on from a height it has read, and may still write the height.
Straggles(s) ==
    \/ pc[s] \in Reading
    \/ s \in Syncs /\ pc[s] \in {"called", "checked", "starting", "between"}

\* isRefreshingBalance: the mutex of refreshBalance().
Refreshing ==
    \E s \in Callers :
        (s \in Refreshes /\ pc[s] # "idle") \/ (s \in Wipers /\ s \in again)

TypeOK ==
    /\ flag \in BOOLEAN /\ syncing \in BOOLEAN /\ repairing \in BOOLEAN
    /\ loaded \in BOOLEAN
    /\ current \in Callers \cup {Nobody}
    /\ last \in 0..MaxHeight /\ tip \in 0..MaxHeight
    /\ found \subseteq Heights \X Txs
    /\ pc \in [Callers -> {"idle"} \cup Preparing \cup Calling \cup Scanning]
    /\ running \in [Callers -> BOOLEAN]
    /\ from \in [Callers -> 0..MaxHeight]
    /\ again \subseteq Callers
    /\ cur \in [Callers -> 0..MaxHeight + 1]
    /\ tx \in [Callers -> 0..PerBlock]
    /\ target \in [Callers -> 0..MaxHeight]
    /\ got \in [Callers -> SUBSET Heights]
    /\ mark \in [Callers -> 0..MaxHeight]
    /\ count \in [Callers -> 0..Every - 1]
    /\ excuses \subseteq Excuses
    /\ wipes \in 0..MaxWipes /\ faults \in 0..MaxFaults

\* A wallet that has the notes of the boost file.
Init ==
    /\ flag = FALSE /\ syncing = FALSE /\ repairing = FALSE /\ loaded = TRUE
    /\ current = Nobody
    /\ last = Boost /\ found = {Boost} \X Txs /\ tip = FirstTip
    /\ pc = [s \in Callers |-> "idle"]
    /\ running = [s \in Callers |-> FALSE]
    /\ from = [s \in Callers |-> 0] /\ again = {}
    /\ cur = [s \in Callers |-> 0] /\ tx = [s \in Callers |-> 0]
    /\ target = [s \in Callers |-> 0]
    /\ got = [s \in Callers |-> {}] /\ mark = [s \in Callers |-> 0]
    /\ count = [s \in Callers |-> 0]
    /\ excuses = {}
    /\ wipes = 0 /\ faults = 0

Go(s, here, to) == pc[s] = here /\ pc' = [pc EXCEPT ![s] = to]
Called(s, to) ==
    /\ Go(s, "idle", to)
    /\ Cardinality({t \in Callers : pc[t] # "idle"}) < MaxCallers
Wipe == wipes < MaxWipes /\ wipes' = wipes + 1 /\ UNCHANGED faults
Fault == faults < MaxFaults /\ faults' = faults + 1 /\ UNCHANGED wipes
Excuse(e, happens) == excuses' = IF happens THEN excuses \cup {e} ELSE excuses

\* Nothing but the fetched blocks of a scan is read after its loop.
Forget(s, blocks) ==
    /\ cur' = [cur EXCEPT ![s] = 0] /\ tx' = [tx EXCEPT ![s] = 0]
    /\ target' = [target EXCEPT ![s] = 0]
    /\ got' = [got EXCEPT ![s] = blocks] /\ mark' = [mark EXCEPT ![s] = 0]
    /\ count' = [count EXCEPT ![s] = 0]

\* To stop a scanner whose scan is over has no effect.
Release(s) == current' = IF current = s THEN Nobody ELSE current

\* updateLastScannedHeight(): the saved height is never lowered.
SaveHeight(h) == last' = IF h < last THEN last ELSE h

-----------------------------------------------------------------------------
(* Who calls a scan.                                                       *)

\* backgroundSyncToHeight() up to its await on isBroadcasting.
EnterSync(s) ==
    /\ s \in Syncs /\ ~syncing /\ loaded /\ ~repairing
    /\ Called(s, "entered")
    /\ syncing' = TRUE
    /\ UNCHANGED <<flag, repairing, loaded, current, last, found, tip, running,
                   from, again, scanVars, excuses, bounds>>

\* Its remaining guards; the scan is to start above the height read here.
PassGuards(s) ==
    /\ ~flag /\ tip > last
    /\ Go(s, "entered", "called")
    /\ from' = [from EXCEPT ![s] = last]
    /\ UNCHANGED <<flag, syncing, repairing, loaded, current, last, found, tip,
                   running, again, scanVars, excuses, bounds>>

GuardFails(s) ==
    /\ flag \/ tip <= last
    /\ Go(s, "entered", "idle")
    /\ syncing' = FALSE
    /\ UNCHANGED <<flag, repairing, loaded, current, last, found, tip, running,
                   from, again, scanVars, excuses, bounds>>

\* After the first scan the sync reads the height again, and is done if it has
\* gone down ...
LookAgain(s) ==
    /\ s \in Syncs \ again /\ last >= from[s]
    /\ Go(s, "returned", "between")
    /\ from' = [from EXCEPT ![s] = last]
    /\ UNCHANGED <<flag, syncing, repairing, loaded, current, last, found, tip,
                   running, again, scanVars, excuses, bounds>>

\* ... and, when it has brought the witnesses up to date and asked the peers,
\* scans at most three more blocks above the height it has read.
ScanAgain(s) ==
    /\ tip > from[s] /\ tip - from[s] <= 3
    /\ Go(s, "between", "called")
    /\ again' = again \cup {s}
    /\ UNCHANGED <<flag, syncing, repairing, loaded, current, last, found, tip,
                   running, from, scanVars, excuses, bounds>>

\* refreshBalance() up to its scan; only its scanner can be stopped.
CallRefresh(s) ==
    /\ s \in Refreshes /\ ~Refreshing
    /\ Called(s, "called")
    /\ current' = s
    /\ UNCHANGED <<flag, syncing, repairing, loaded, last, found, tip, running,
                   from, again, scanVars, excuses, bounds>>

\* A repair and a rescan call refreshBalance() after their scan.
RefreshToo(s) ==
    /\ s \in Wipers \ again /\ ~Refreshing
    /\ Go(s, "returned", "called")
    /\ current' = s
    /\ again' = again \cup {s}
    /\ UNCHANGED <<flag, syncing, repairing, loaded, last, found, tip, running,
                   from, scanVars, excuses, bounds>>

\* performFullRescan(): it waits at most 60 s for the flag, then goes on.
CallRescan(s) ==
    /\ s \in Rescans
    /\ Called(s, "deleting")
    /\ Wipe
    /\ UNCHANGED <<flag, callVars, last, found, tip, running, scanVars,
                   excuses>>

BeginRepair(s) ==
    /\ s \in Repairs
    /\ Called(s, "stopping")
    /\ repairing' = TRUE
    /\ Wipe
    /\ UNCHANGED <<flag, syncing, loaded, current, last, found, tip, running,
                   from, again, scanVars, excuses>>

\* currentScanner?.stopScan(), by a repair and by the user's stop.
StopCurrent ==
    /\ current' = Nobody
    /\ running' = [s \in Callers |-> running[s] /\ s # current]
    /\ Excuse("loss", current # Nobody /\ running[current])

StopForRepair(s) ==
    /\ Go(s, "stopping", "waiting")
    /\ StopCurrent
    /\ UNCHANGED <<flag, syncing, repairing, loaded, last, found, tip, from,
                   again, scanVars, bounds>>

\* The flag is down, or it is taken down after two seconds.
ClearFlag(s) ==
    /\ Go(s, "waiting", "deleting")
    /\ flag' = FALSE
    /\ UNCHANGED <<callVars, last, found, tip, running, scanVars, excuses,
                   bounds>>

\* DELETE FROM notes and the reset of the height are two statements.
DeleteNotes(s) ==
    /\ Go(s, "deleting", "resetting")
    /\ found' = {}
    /\ UNCHANGED <<flag, callVars, last, tip, running, scanVars, excuses,
                   bounds>>

\* A scan that is under way may still write the height it had reached.  A
\* repair also drops the commitment tree.
ResetHeight(s) ==
    /\ Go(s, "resetting", IF s \in Repairs THEN "clearing" ELSE "called")
    /\ last' = 0
    /\ loaded' = (loaded /\ s \notin Repairs)
    /\ Excuse("straggler", \E t \in Callers : Straggles(t))
    /\ UNCHANGED <<flag, syncing, repairing, current, found, tip, running, from,
                   again, scanVars, bounds>>

\* The repair's last checks before its scan.
ClearAgain(s) ==
    /\ Go(s, "clearing", "called")
    /\ flag' = FALSE
    /\ last' = 0
    /\ Excuse("straggler", last # 0 /\ \E t \in Callers : Straggles(t))
    /\ UNCHANGED <<callVars, found, tip, running, scanVars, bounds>>

\* One of their other statements throws.
WiperFails(s) ==
    /\ s \in Wipers
    /\ \E here \in {"deleting", "resetting", "clearing", "returned"} :
          Go(s, here, "thrown")
    /\ Fault
    /\ Excuse("loss", pc[s] = "resetting")
    /\ UNCHANGED <<flag, callVars, last, found, tip, running, scanVars>>

\* What follows startScan() in its caller is over, or there is nothing more.
Over(s) ==
    \/ pc[s] \in {"thrown", "between"}
    \/ pc[s] = "returned"
       /\ \/ s \in Refreshes \cup again
          \/ s \in Syncs /\ last < from[s]
          \/ s \in Wipers /\ Refreshing

\* Mutant of CallEnds: the mutex of the background sync is kept.
MutCallEndsKeepsMutex(s) ==
    /\ Over(s)
    /\ pc' = [pc EXCEPT ![s] = "idle"]
    /\ from' = [from EXCEPT ![s] = 0] /\ again' = again \ {s}
    /\ repairing' = (repairing /\ s \notin Repairs)
    /\ loaded' = (loaded \/ (s \in Repairs /\ pc[s] = "returned"))
    /\ UNCHANGED <<flag, syncing, current, last, found, tip, running, scanVars,
                   excuses, bounds>>

\* The caller ends; only a repair without an error counts the tree as loaded.
CallEnds(s) ==
    /\ Over(s)
    /\ pc' = [pc EXCEPT ![s] = "idle"]
    /\ from' = [from EXCEPT ![s] = 0] /\ again' = again \ {s}
    /\ syncing' = (syncing /\ s \notin Syncs)
    /\ repairing' = (repairing /\ s \notin Repairs)
    /\ loaded' = (loaded \/ (s \in Repairs /\ pc[s] = "returned"))
    /\ UNCHANGED <<flag, current, last, found, tip, running, scanVars, excuses,
                   bounds>>

-----------------------------------------------------------------------------
(* startScan().                                                            *)

\* Another scan is under way: startScan() returns and says nothing.
SkipScan(s) ==
    /\ flag
    /\ Go(s, "called", "returned")
    /\ Release(s)
    /\ Forget(s, {})
    /\ UNCHANGED <<flag, syncing, repairing, loaded, from, again, last, found,
                   tip, running, excuses, bounds>>

CheckFlag(s) ==
    /\ ~flag
    /\ Go(s, "called", "checked")
    /\ UNCHANGED <<flag, callVars, last, found, tip, running, scanVars,
                   excuses, bounds>>

\* The lock is released between the check and the set.
SetFlag(s) ==
    /\ Go(s, "checked", "starting")
    /\ flag' = TRUE
    /\ running' = [running EXCEPT ![s] = TRUE]
    /\ UNCHANGED <<callVars, last, found, tip, scanVars, excuses, bounds>>

\* A sync's scanner is told where to start; another reads the saved height.
StartHeight(s) == IF s \in Syncs THEN from[s] + 1 ELSE last + 1

FindRange(s) ==
    /\ StartHeight(s) <= tip
    /\ Go(s, "starting", IF StartHeight(s) <= Boost THEN "boosting"
                         ELSE "fetching")
    /\ cur' = [cur EXCEPT ![s] = StartHeight(s)]
    /\ tx' = [tx EXCEPT ![s] = 0]
    /\ target' = [target EXCEPT ![s] = tip]
    /\ mark' = [mark EXCEPT ![s] = StartHeight(s) - 1]
    /\ UNCHANGED <<flag, callVars, last, found, tip, running, got, count,
                   excuses, bounds>>

NothingToScan(s) ==
    /\ StartHeight(s) > tip
    /\ Go(s, "starting", "ending")
    /\ Forget(s, {})
    /\ UNCHANGED <<flag, callVars, last, found, tip, running, excuses,
                   bounds>>

\* No chain height, no headers: startScan() throws.
ScanFails(s) ==
    /\ Go(s, "starting", "failing")
    /\ Fault
    /\ Forget(s, {})
    /\ UNCHANGED <<flag, callVars, last, found, tip, running, excuses>>

\* The outputs of one more transaction are decrypted; an error is logged and
\* forgotten.  In the loop a stop counts only before the first one.
ExamineTx(s) ==
    /\ pc[s] \in {"boosting", "examining"} /\ tx[s] < PerBlock
    /\ running[s] \/ tx[s] > 0 \/ pc[s] = "boosting"
    /\ tx' = [tx EXCEPT ![s] = @ + 1]
    /\ \/ /\ found' = found \cup {<<cur[s], tx[s] + 1>>}
          /\ UNCHANGED <<excuses, bounds>>
       \/ /\ Fault /\ Excuse("loss", TRUE)
          /\ UNCHANGED found
    /\ UNCHANGED <<flag, callVars, last, tip, pc, running, cur, target, got,
                   mark, count>>

\* The end of PHASE 1: the height of the boost file is saved.
EndBoost(s) ==
    /\ tx[s] = PerBlock
    /\ Go(s, "boosting", IF Boost < target[s] THEN "fetching" ELSE "ending")
    /\ SaveHeight(Boost)
    /\ cur' = [cur EXCEPT ![s] = Boost + 1]
    /\ mark' = [mark EXCEPT ![s] = Boost]
    /\ tx' = [tx EXCEPT ![s] = 0]
    /\ UNCHANGED <<flag, callVars, found, tip, running, target, got, count,
                   excuses, bounds>>

Wanted(s) == cur[s]..target[s]

TooFew(s, blocks) ==
    100 * Cardinality(blocks) < Enough * Cardinality(Wanted(s))

\* The prefetch tries again what is missing, and ends early when stopped.
Prefetch(s, blocks) ==
    /\ blocks \subseteq Wanted(s)
    /\ IF blocks = Wanted(s) \/ ~running[s] THEN UNCHANGED bounds ELSE Fault

Fetch(s) ==
    /\ Go(s, "fetching", "processing")
    /\ \E blocks \in SUBSET Wanted(s) :
          /\ Prefetch(s, blocks) /\ ~TooFew(s, blocks)
          /\ got' = [got EXCEPT ![s] = blocks]
    /\ UNCHANGED <<flag, callVars, last, found, tip, running, cur, tx, target,
                   mark, count, excuses>>

\* Too few fetched, or five rounds brought nothing: the highest block fetched
\* becomes the saved height, the flag goes down and the scan throws.
Abort(s) ==
    /\ Go(s, "fetching", "failing")
    /\ \E blocks \in SUBSET Wanted(s) :
          /\ Prefetch(s, blocks) /\ blocks # Wanted(s)
          /\ Forget(s, blocks)
          /\ Excuse("loss", blocks # {})
          /\ IF blocks = {} THEN UNCHANGED last
             ELSE \E top \in blocks :
                      (\A h \in blocks : h <= top) /\ SaveHeight(top)
    /\ running' = [running EXCEPT ![s] = FALSE]
    /\ flag' = FALSE
    /\ UNCHANGED <<callVars, found, tip>>

\* The head of the loop: a fetched block is to be examined ...
Take(s) ==
    /\ running[s] /\ cur[s] <= target[s] /\ cur[s] \in got[s]
    /\ Go(s, "processing", "examining")
    /\ mark' = [mark EXCEPT ![s] = cur[s]]
    /\ UNCHANGED <<flag, callVars, last, found, tip, running, cur, tx, target,
                   got, count, excuses, bounds>>

\* Mutant of PassOver: the loop runs one height too far.
MutPassOverTooFar(s) ==
    /\ running[s] /\ cur[s] <= target[s] + 1 /\ cur[s] \notin got[s]
    /\ pc[s] = "processing"
    /\ cur' = [cur EXCEPT ![s] = @ + 1]
    /\ Excuse("loss", TRUE)
    /\ UNCHANGED <<flag, callVars, last, found, tip, pc, running, tx, target,
                   got, mark, count, bounds>>

\* ... a missing one is passed over.
PassOver(s) ==
    /\ running[s] /\ cur[s] <= target[s] /\ cur[s] \notin got[s]
    /\ pc[s] = "processing"
    /\ cur' = [cur EXCEPT ![s] = @ + 1]
    /\ Excuse("loss", TRUE)
    /\ UNCHANGED <<flag, callVars, last, found, tip, pc, running, tx, target,
                   got, mark, count, bounds>>

\* A scan stopped since the head of the loop examines nothing.
LeaveBlock(s) ==
    /\ ~running[s] /\ tx[s] = 0
    /\ Go(s, "examining", "processing")
    /\ cur' = [cur EXCEPT ![s] = @ + 1]
    /\ UNCHANGED <<flag, callVars, last, found, tip, running, tx, target, got,
                   mark, count, excuses, bounds>>

\* The block is counted; every so many blocks the height is saved.
EndBlock(s) ==
    /\ tx[s] = PerBlock
    /\ Go(s, "examining", "processing")
    /\ cur' = [cur EXCEPT ![s] = @ + 1]
    /\ tx' = [tx EXCEPT ![s] = 0]
    /\ count' = [count EXCEPT ![s] = (@ + 1) % Every]
    /\ IF count'[s] = 0 THEN SaveHeight(mark[s]) ELSE UNCHANGED last
    /\ UNCHANGED <<flag, callVars, found, tip, running, target, got, mark,
                   excuses, bounds>>

\* Mutant of Finish: the height of the chain is saved, as before FIX #398.
MutFinishAtTip(s) ==
    /\ ~running[s] \/ cur[s] > target[s]
    /\ Go(s, "processing", "ending")
    /\ SaveHeight(tip)
    /\ Forget(s, {})
    /\ UNCHANGED <<flag, callVars, found, tip, running, excuses, bounds>>

\* Mutant of Finish: the target is saved, as before FIX #1203.
MutFinishAtTarget(s) ==
    /\ ~running[s] \/ cur[s] > target[s]
    /\ Go(s, "processing", "ending")
    /\ SaveHeight(target[s])
    /\ Forget(s, {})
    /\ UNCHANGED <<flag, callVars, found, tip, running, excuses, bounds>>

\* The end of the loop: the height of the last fetched block is saved.
Finish(s) ==
    /\ ~running[s] \/ cur[s] > target[s]
    /\ Go(s, "processing", "ending")
    /\ SaveHeight(mark[s])
    /\ Forget(s, {})
    /\ UNCHANGED <<flag, callVars, found, tip, running, excuses, bounds>>

\* Mutant of EndScan: only the scanner's own flag is reset.
MutEndScanKeepsFlag(s) ==
    /\ Go(s, "ending", "returned") \/ Go(s, "failing", "thrown")
    /\ running' = [running EXCEPT ![s] = FALSE]
    /\ Release(s)
    /\ Forget(s, {})
    /\ UNCHANGED <<flag, syncing, repairing, loaded, from, again, last, found,
                   tip, excuses, bounds>>

\* The defer block.
EndScan(s) ==
    /\ Go(s, "ending", "returned") \/ Go(s, "failing", "thrown")
    /\ flag' = FALSE
    /\ running' = [running EXCEPT ![s] = FALSE]
    /\ Release(s)
    /\ Forget(s, {})
    /\ UNCHANGED <<syncing, repairing, loaded, from, again, last, found, tip,
                   excuses, bounds>>

-----------------------------------------------------------------------------
(* The rest of the world.                                                  *)

\* isScanInProgress, asked 900 s after the last progress.
TimeOut ==
    /\ flag
    /\ flag' = FALSE
    /\ Fault
    /\ UNCHANGED <<callVars, last, found, tip, pc, running, scanVars,
                   excuses>>

\* stopSync(): the user's STOP button.
StopSync ==
    /\ current # Nobody
    /\ StopCurrent
    /\ Fault
    /\ UNCHANGED <<flag, syncing, repairing, loaded, last, found, tip, pc, from,
                   again, scanVars>>

NewBlock ==
    /\ tip < MaxHeight
    /\ tip' = tip + 1
    /\ UNCHANGED <<flag, callVars, last, found, pc, running, scanVars,
                   excuses, bounds>>

\* Only the database survives; the tree is loaded at the start.
Crash ==
    /\ Fault
    /\ flag' = FALSE /\ syncing' = FALSE /\ repairing' = FALSE /\ loaded' = TRUE
    /\ current' = Nobody
    /\ pc' = [s \in Callers |-> "idle"]
    /\ running' = [s \in Callers |-> FALSE]
    /\ from' = [s \in Callers |-> 0] /\ again' = {}
    /\ cur' = [s \in Callers |-> 0] /\ tx' = [s \in Callers |-> 0]
    /\ target' = [s \in Callers |-> 0]
    /\ got' = [s \in Callers |-> {}] /\ mark' = [s \in Callers |-> 0]
    /\ count' = [s \in Callers |-> 0]
    /\ Excuse("loss", \E s \in Callers : pc[s] = "resetting")
    /\ UNCHANGED <<last, found, tip>>

-----------------------------------------------------------------------------
CallStep(s) ==
    \/ PassGuards(s) \/ GuardFails(s) \/ LookAgain(s) \/ ScanAgain(s)
    \/ StopForRepair(s) \/ ClearFlag(s) \/ DeleteNotes(s) \/ ResetHeight(s)
    \/ ClearAgain(s) \/ RefreshToo(s) \/ CallEnds(s)

ScanStep(s) ==
    \/ SkipScan(s) \/ CheckFlag(s) \/ SetFlag(s)
    \/ FindRange(s) \/ NothingToScan(s) \/ ExamineTx(s) \/ EndBoost(s)
    \/ Fetch(s) \/ Abort(s) \/ Take(s) \/ PassOver(s) \/ LeaveBlock(s)
    \/ EndBlock(s) \/ Finish(s) \/ EndScan(s)

Next ==
    \/ \E s \in Callers :
          \/ EnterSync(s) \/ CallRefresh(s) \/ CallRescan(s) \/ BeginRepair(s)
          \/ CallStep(s) \/ ScanStep(s) \/ ScanFails(s) \/ WiperFails(s)
    \/ TimeOut \/ StopSync \/ NewBlock \/ Crash

\* A task that can go on does (every await of a scan has a timeout), and the
\* timer of fetchNetworkStats() asks for a background sync every 15 s, but only
\* for a wallet whose saved height is not 0.  That the guards left out let a
\* sync pass in the end (no first sync, broadcast or gap fill for ever) is part
\* of the assumption.
Fairness ==
    /\ \A s \in Syncs : WF_vars(last > 0 /\ EnterSync(s))
    /\ \A s \in Callers : WF_vars(CallStep(s) \/ ScanStep(s))

Spec == Init /\ [][Next]_vars /\ Fairness

-----------------------------------------------------------------------------
(* Properties.                                                             *)

\* The flags that keep others away never outlive who they stand for: the scan
\* flag a scan under way, isBackgroundSyncing a background sync (and it is up
\* throughout one), isRepairingDatabase a repair, whatever way a scan or a call
\* ends and whoever cleared the flag meanwhile.
FlagsHaveOwners ==
    /\ flag => \E s \in Callers : pc[s] \in Scanning
    /\ syncing <=> \E s \in Syncs : pc[s] # "idle"
    /\ repairing => \E s \in Repairs : pc[s] # "idle"

\* The notes of every block up to the saved height are in the database, in
\* spite of overlapping scans, of second scans, of timeouts, of a tip that
\* moves, of repairs and of crashes, unless one of five things happened: a
\* block was not fetched, a scan was stopped, an error of a transaction was
\* swallowed, a wipe met a caller that goes on from a height it had read, or a
\* wipe ended by a crash or an error between the notes and the height.
NothingMissed ==
    excuses = {} /\ (\A s \in Callers : pc[s] # "resetting")
        => \A h \in 1..last : Complete(h)

\* FIX #1203: even after missing blocks, errors and stops the height is raised
\* only to the end of the boost file or to a block that some scan really
\* fetched, unless a wipe met a caller that goes on from a height it had read.
AdvanceIsFetched ==
    [][last' > last /\ "straggler" \notin excuses
            => last' = Boost \/ \E s \in Callers : last' \in got[s] \cup got'[s]]_vars

\* FIX #1203: a block missing from the cache is passed over, but "do NOT advance
\* lastScannedHeight past this gap": the height saved after an examined block
\* passes no block whose notes were not looked for.
GapStaysAbove ==
    [][\A s \in Callers :
          pc[s] = "examining" /\ pc'[s] = "processing"
              => \A h \in (last + 1)..last' : Complete(h)']_vars

\* The wallet catches up with the chain again and again: no scan flag, sync
\* mutex or repair flag left behind by overlapping scans keeps every later
\* background sync from starting.  Excepted is what the code has no answer to
\* in one life of the process: a wipe whose scan failed leaves the height at 0,
\* for which no timer asks, and a repair that failed leaves the tree unloaded.
CatchesUp == []<>(last >= tip) \/ <>[](last = 0 \/ ~loaded)

=============================================================================
