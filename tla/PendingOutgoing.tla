--------------------------- MODULE PendingOutgoing ---------------------------
(* The life of an outgoing transaction between the moment the wallet hands it  *)
(* to the network and the moment the wallet has recorded it: the pending set,  *)
(* UserDefaults, the tracking actor and the send lock of NetworkManager.swift, *)
(* the spend detection of FilterScanner.swift, the history and the notes of    *)
(* WalletDatabase.swift, and the start-up repair of WalletManager.swift.       *)
(*                                                                             *)
(* A step is the code between two suspension points, or one write to stable    *)
(* storage; the flag mempoolOutgoing follows the actor in the same step.  The  *)
(* pending set, the actor, the flags and the tasks in flight are memory and    *)
(* die with the process; UserDefaults and the database survive.  A write to    *)
(* the database succeeds, and each transaction spends one note.  The nodes,    *)
(* the miners and the user are the environment.                                *)
EXTENDS Naturals, FiniteSets

CONSTANTS
    Tx,         \* transactions the user sends
    NoTx,       \* no transaction is shown as pending
    MaxCrash,   \* bound on the number of times the process dies
    MaxForget   \* bound on the number of times the balance screen gives up waiting

ASSUME NoTxAssumption == NoTx \notin Tx
ASSUME BoundsAssumption == MaxCrash \in Nat /\ MaxForget \in Nat

VARIABLES
    up,         \* the process runs
    send,       \* how far the send of each transaction has come
    chain,      \* environment: where the transaction is
    pendingSet, \* pendingOutgoingTxidSet
    persisted,  \* UserDefaults: pending txids, with their broadcast heights
    accepted,   \* UserDefaults: txids with a mempool acceptance height
    actor,      \* TransactionTrackingState.pendingOutgoingTxs
    announce,   \* a task that will call trackOutgoingSimple() has been spawned
    confirm,    \* how far confirmOutgoingTx() has come
    taken,      \* the entry confirmOutgoingTx() took from the actor
    shown,      \* pendingBroadcastTxid
    blocked,    \* hasOurPendingOutgoing
    outgoing,   \* mempoolOutgoing > 0
    forgetting, \* the task of clearAllPendingOutgoing() has been spawned
    scan,       \* lastScannedHeight against the block of the transaction
    note,       \* database: the note the transaction spends
    history,    \* database: the sent rows of transaction_history
    startup,    \* how far the start-up repair of a transaction has come
    blind,      \* the transactions it looks at without knowing the chain height
    crashes, forgets

memory == <<pendingSet, actor, announce, confirm, taken, shown, blocked, outgoing, forgetting>>
stable == <<persisted, accepted, note, history>>
repair == <<startup, blind>>
vars == <<up, send, chain, memory, stable, scan, repair, crashes, forgets>>

\* listed: without a row; lowered, legacy: to be scanned again, with heights or
\* without; cleaning ... asked: the questions of cleanOrphanedPendingTxids();
\* phantom ... forgotten: what it does then
Repair == {"idle", "listed", "lowered", "legacy", "cleaning", "missing", "unproven", "asking",
           "asked", "phantom", "freed", "settled", "forgotten", "ending"}
Entry == {"none", "simple", "full"}
\* txid, byte order it is stored under, where the row comes from
Row == Tx \X {"wire", "display"} \X {"full", "external", "rebuilt"}

TypeOK ==
    /\ up \in BOOLEAN
    /\ send \in [Tx -> {"idle", "registered", "announced", "verdict", "inserted",
                        "saved", "tracked", "failed", "lost"}]
    /\ chain \in [Tx -> {"unsent", "relayed", "mined"}]
    /\ pendingSet \subseteq Tx
    /\ persisted \subseteq Tx
    /\ accepted \subseteq Tx
    /\ actor \in [Tx -> Entry]
    /\ announce \subseteq Tx
    /\ confirm \in [Tx -> {"idle", "spawned", "removed", "unsaved", "taken"}]
    /\ taken \in [Tx -> Entry]
    /\ shown \in Tx \cup {NoTx}
    /\ blocked \in BOOLEAN
    /\ outgoing \in BOOLEAN
    /\ forgetting \in BOOLEAN
    /\ scan \in [Tx -> {"todo", "seen", "past"}]
    /\ note \in [Tx -> {"unspent", "spent"}]
    /\ history \subseteq Row
    /\ startup \in [Tx -> Repair]
    /\ blind \subseteq Tx
    /\ crashes \in 0..MaxCrash
    /\ forgets \in 0..MaxForget

Init ==
    /\ up = TRUE
    /\ send = [t \in Tx |-> "idle"]
    /\ chain = [t \in Tx |-> "unsent"]
    /\ pendingSet = {} /\ persisted = {} /\ accepted = {}
    /\ actor = [t \in Tx |-> "none"]
    /\ announce = {}
    /\ confirm = [t \in Tx |-> "idle"]
    /\ taken = [t \in Tx |-> "none"]
    /\ shown = NoTx /\ blocked = FALSE /\ outgoing = FALSE /\ forgetting = FALSE
    /\ scan = [t \in Tx |-> "todo"]
    /\ note = [t \in Tx |-> "unspent"]
    /\ history = {}
    /\ startup = [t \in Tx |-> "idle"] /\ blind = {}
    /\ crashes = 0 /\ forgets = 0

\* transactionExists() and transactionExistsInHistory(): a row is found under the
\* byte order it was stored with, and no other.
Recorded(t, format) == \E origin \in {"full", "external", "rebuilt"} : <<t, format, origin>> \in history

\* INSERT OR REPLACE of a sent row, and the DELETE of deletePhantomTransaction().
RowsOf(t) == {row \in history : row[1] = t /\ row[2] = "wire"}
Insert(t, origin) == (history \ RowsOf(t)) \cup {<<t, "wire", origin>>}

-----------------------------------------------------------------------------
(* Sending                                                                   *)

\* broadcastTransactionWithProgress(): the txid is registered before the first
\* peer is contacted.  The send screen lets nobody send while one is pending.
Register(t) ==
    /\ up /\ send[t] = "idle"
    /\ ~blocked /\ ~outgoing
    /\ \A u \in Tx : send[u] \notin {"registered", "announced", "verdict", "inserted", "saved"}
    /\ send' = [send EXCEPT ![t] = "registered"]
    /\ pendingSet' = pendingSet \cup {t}
    /\ persisted' = persisted \cup {t}
    /\ UNCHANGED <<up, chain, accepted, actor, announce, confirm, taken, shown, blocked,
                   outgoing, forgetting, scan, note, history, repair, crashes, forgets>>

\* setPendingBroadcast(): the first peer has accepted.  Everything is set at once
\* except the actor's entry, which a spawned task adds.
Announce(t) ==
    /\ up /\ send[t] = "registered"
    /\ send' = [send EXCEPT ![t] = "announced"]
    /\ shown' = t
    /\ pendingSet' = pendingSet \cup {t}
    /\ persisted' = persisted \cup {t}
    /\ blocked' = TRUE /\ outgoing' = TRUE
    /\ announce' = announce \cup {t}
    /\ UNCHANGED <<up, chain, accepted, actor, confirm, taken, forgetting, scan, note,
                   history, repair, crashes, forgets>>

\* The spawned task: trackOutgoingSimple() writes its entry over any other.
TrackSimple(t) ==
    /\ up /\ t \in announce
    /\ announce' = announce \ {t}
    /\ actor' = [actor EXCEPT ![t] = "simple"]
    /\ UNCHANGED <<up, send, chain, pendingSet, confirm, taken, shown, blocked, outgoing,
                   forgetting, stable, scan, repair, crashes, forgets>>

\* The broadcast ends well.  setMempoolVerified() has stored the acceptance
\* height if the transaction was shown by then and the verifier was content.
Succeed(t) ==
    /\ up /\ send[t] \in {"registered", "announced"}
    /\ send' = [send EXCEPT ![t] = "verdict"]
    /\ \E verified \in BOOLEAN :
          accepted' = IF verified /\ shown = t THEN accepted \cup {t} ELSE accepted
    /\ UNCHANGED <<up, chain, memory, persisted, note, history, scan, repair, crashes, forgets>>

\* broadcastTransactionWithProgress() throws after the registration.
Abort(t) ==
    /\ up /\ send[t] = "registered" /\ chain[t] = "unsent"
    /\ send' = [send EXCEPT ![t] = "failed"]
    /\ UNCHANGED <<up, chain, memory, stable, scan, repair, crashes, forgets>>

\* Mutant of ClearShown: an empty txid instead of none.
MutClearShownEmpty == shown' = "" /\ blocked' = FALSE /\ outgoing' = FALSE

\* clearPendingBroadcast()
ClearShown == shown' = NoTx /\ blocked' = FALSE /\ outgoing' = FALSE

\* Rejected by every peer that answered: FIX #702 removes the registration.
Reject(t) ==
    /\ up /\ send[t] = "registered"
    /\ send' = [send EXCEPT ![t] = "failed"]
    /\ pendingSet' = pendingSet \ {t}
    /\ persisted' = persisted \ {t}
    /\ accepted' = accepted \ {t}
    /\ ClearShown
    /\ UNCHANGED <<up, chain, actor, announce, confirm, taken, forgetting, note, history,
                   scan, repair, crashes, forgets>>

\* No peer answered, also on the retry of FIX #1261: only UserDefaults forget it.
Unreachable(t) ==
    /\ up /\ send[t] = "registered"
    /\ send' = [send EXCEPT ![t] = "failed"]
    /\ persisted' = persisted \ {t}
    /\ accepted' = accepted \ {t}
    /\ ClearShown
    /\ UNCHANGED <<up, chain, pendingSet, actor, announce, confirm, taken, forgetting, note,
                   history, scan, repair, crashes, forgets>>

\* Mutant of TrackFull: recorded at broadcast, as before FIX #350.
MutTrackFullRecords(t) ==
    /\ up /\ send[t] = "saved"
    /\ send' = [send EXCEPT ![t] = "tracked"]
    /\ history' = Insert(t, "full")
    /\ note' = [note EXCEPT ![t] = "spent"]
    /\ outgoing' = TRUE
    /\ UNCHANGED <<up, chain, pendingSet, announce, confirm, taken, shown, blocked, actor,
                   forgetting, persisted, accepted, scan, repair, crashes, forgets>>

\* trackPendingOutgoingFull(): the set, then UserDefaults on the main actor, then
\* the entry of the actor with all that confirmOutgoingTx() needs.
TrackInsert(t) ==
    /\ up /\ send[t] = "verdict"
    /\ send' = [send EXCEPT ![t] = "inserted"]
    /\ pendingSet' = pendingSet \cup {t}
    /\ UNCHANGED <<up, chain, actor, announce, confirm, taken, shown, blocked, outgoing,
                   forgetting, stable, scan, repair, crashes, forgets>>

TrackSave(t) ==
    /\ up /\ send[t] = "inserted"
    /\ send' = [send EXCEPT ![t] = "saved"]
    /\ persisted' = persisted \cup {t}
    /\ UNCHANGED <<up, chain, memory, accepted, note, history, scan, repair, crashes, forgets>>

TrackFull(t) ==
    /\ up /\ send[t] = "saved"
    /\ send' = [send EXCEPT ![t] = "tracked"]
    /\ actor' = [actor EXCEPT ![t] = "full"]
    /\ outgoing' = TRUE
    /\ UNCHANGED <<up, chain, pendingSet, announce, confirm, taken, shown, blocked,
                   forgetting, stable, scan, repair, crashes, forgets>>

-----------------------------------------------------------------------------
(* Confirmation                                                              *)

\* confirmOutgoingTx(): of several calls only the one that removes the txid
\* from the set goes on.
ConfirmGuard(t) ==
    /\ up /\ confirm[t] = "spawned"
    /\ pendingSet' = pendingSet \ {t}
    /\ confirm' = [confirm EXCEPT ![t] = IF t \in pendingSet THEN "removed" ELSE "idle"]
    /\ UNCHANGED <<up, send, chain, actor, announce, taken, shown, blocked, outgoing,
                   forgetting, stable, scan, repair, crashes, forgets>>

\* removePendingTxidFromPersistence(), with the heights.
ConfirmUnsave(t) ==
    /\ up /\ confirm[t] = "removed"
    /\ persisted' = persisted \ {t}
    /\ accepted' = accepted \ {t}
    /\ confirm' = [confirm EXCEPT ![t] = "unsaved"]
    /\ UNCHANGED <<up, send, chain, pendingSet, actor, announce, taken, shown, blocked,
                   outgoing, forgetting, note, history, scan, repair, crashes, forgets>>

\* confirmOutgoing() of the actor: read and remove.
ConfirmTake(t) ==
    /\ up /\ confirm[t] = "unsaved"
    /\ taken' = [taken EXCEPT ![t] = actor[t]]
    /\ actor' = [actor EXCEPT ![t] = "none"]
    /\ confirm' = [confirm EXCEPT ![t] = "taken"]
    /\ UNCHANGED <<up, send, chain, pendingSet, announce, shown, blocked, outgoing,
                   forgetting, stable, scan, repair, crashes, forgets>>

\* Mutant of ConfirmWrite: the send lock is not reset.
MutConfirmWriteKeepsLock(t) ==
    /\ up /\ confirm[t] = "taken"
    /\ confirm' = [confirm EXCEPT ![t] = "idle"]
    /\ taken' = [taken EXCEPT ![t] = "none"]
    /\ IF taken[t] = "full"
         THEN history' = Insert(t, "full") /\ note' = [note EXCEPT ![t] = "spent"]
         ELSE UNCHANGED <<history, note>>
    /\ UNCHANGED <<up, send, chain, pendingSet, actor, announce, shown, blocked, outgoing,
                   forgetting, persisted, accepted, scan, repair, crashes, forgets>>

\* The deferred write of FIX #350 and the reset of the send lock.  A full entry
\* is recorded with its note in one database transaction; a simple one updates a
\* row that may not be there; without an entry nothing is written, and the lock
\* is reset only for the transaction that is shown.
ConfirmWrite(t) ==
    /\ up /\ confirm[t] = "taken"
    /\ confirm' = [confirm EXCEPT ![t] = "idle"]
    /\ taken' = [taken EXCEPT ![t] = "none"]
    /\ IF taken[t] = "full"
         THEN history' = Insert(t, "full") /\ note' = [note EXCEPT ![t] = "spent"]
         ELSE UNCHANGED <<history, note>>
    /\ IF taken[t] # "none" \/ shown = t
         THEN ClearShown
         ELSE UNCHANGED <<shown, blocked, outgoing>>
    /\ UNCHANGED <<up, send, chain, pendingSet, actor, announce, forgetting, persisted,
                   accepted, scan, repair, crashes, forgets>>

\* Mutant of Scan: the spend of a pending transaction is not marked, as if the
\* confirmation would do it.
MutScanLeavesNote(t) ==
    /\ up /\ chain[t] = "mined" /\ scan[t] = "todo"
    /\ scan' = [scan EXCEPT ![t] = "seen"]
    /\ note' = [note EXCEPT ![t] = IF t \in pendingSet THEN @ ELSE "spent"]
    /\ IF t \in pendingSet
         THEN /\ confirm' = [confirm EXCEPT ![t] = IF @ = "idle" THEN "spawned" ELSE @]
              /\ UNCHANGED history
         ELSE /\ history' = IF note[t] = "unspent" /\ ~Recorded(t, "wire")
                            THEN Insert(t, "external") ELSE history
              /\ UNCHANGED confirm
    /\ UNCHANGED <<up, send, chain, pendingSet, persisted, accepted, actor, announce, taken,
                   shown, blocked, outgoing, forgetting, repair, crashes, forgets>>

\* FilterScanner finds the nullifier in the block.  The spend is marked; a pending
\* transaction is confirmed by a spawned task, any other is taken for a spend of
\* another wallet and recorded at once (FIX #843), unless the note was already
\* spent or the row exists.
Scan(t) ==
    /\ up /\ chain[t] = "mined" /\ scan[t] = "todo"
    /\ scan' = [scan EXCEPT ![t] = "seen"]
    /\ note' = [note EXCEPT ![t] = "spent"]
    /\ IF t \in pendingSet
         THEN /\ confirm' = [confirm EXCEPT ![t] = IF @ = "idle" THEN "spawned" ELSE @]
              /\ UNCHANGED history
         ELSE /\ history' = IF note[t] = "unspent" /\ ~Recorded(t, "wire")
                            THEN Insert(t, "external") ELSE history
              /\ UNCHANGED confirm
    /\ UNCHANGED <<up, send, chain, pendingSet, persisted, accepted, actor, announce, taken,
                   shown, blocked, outgoing, forgetting, repair, crashes, forgets>>

\* updateLastScannedHeight(): the scan has passed the block of t or, when t is in
\* no block yet, the ten blocks after its broadcast.
Advance(t) ==
    /\ up
    /\ scan[t] = IF chain[t] = "mined" THEN "seen" ELSE "todo"
    /\ send[t] # "idle"
    /\ scan' = [scan EXCEPT ![t] = "past"]
    /\ UNCHANGED <<up, send, chain, memory, stable, repair, crashes, forgets>>

\* checkPendingOutgoingConfirmations(): with nothing tracked it clears a counter
\* left behind; otherwise FIX #393 confirms what the history holds.  It asks for
\* the txid in display order, and a peer that still has it stops the question.
CheckPending ==
    /\ up
    /\ IF \A t \in Tx : actor[t] = "none"
         THEN /\ outgoing
              /\ outgoing' = FALSE
              /\ UNCHANGED confirm
         ELSE /\ confirm' = [t \in Tx |->
                    IF actor[t] # "none" /\ confirm[t] = "idle" /\ Recorded(t, "display")
                    THEN "spawned" ELSE confirm[t]]
              /\ UNCHANGED outgoing
    /\ UNCHANGED <<up, send, chain, pendingSet, actor, announce, taken, shown, blocked,
                   forgetting, stable, scan, repair, crashes, forgets>>

\* Mutant of Populate: INSERT OR REPLACE.
MutPopulateReplaces ==
    LET spent == {t \in Tx : note[t] = "spent"}
    IN /\ up
       /\ history' = {<<t, "wire", "rebuilt">> : t \in spent}
       /\ history' # history
       /\ UNCHANGED <<up, send, chain, memory, persisted, accepted, note, scan, repair,
                      crashes, forgets>>

\* populateHistoryFromNotes(), run by the history and balance screens: a row for
\* every spent note that has none (INSERT OR IGNORE).
Populate ==
    LET missing == {t \in Tx : note[t] = "spent" /\ ~Recorded(t, "wire")}
    IN /\ up
       /\ missing # {}
       /\ history' = history \cup {<<t, "wire", "rebuilt">> : t \in missing}
       /\ UNCHANGED <<up, send, chain, memory, persisted, accepted, note, scan, repair,
                      crashes, forgets>>

-----------------------------------------------------------------------------
(* The balance screen                                                        *)

\* Five minutes after the send (FIX #955), or when the balance rises as if by a
\* change output: clearPendingBroadcast() and clearAllPendingOutgoing(), whose
\* work is done by a spawned task.
GiveUp ==
    /\ up /\ forgets < MaxForget
    /\ shown # NoTx \/ outgoing
    /\ forgets' = forgets + 1
    /\ ClearShown
    /\ forgetting' = TRUE
    /\ UNCHANGED <<up, send, chain, pendingSet, actor, announce, confirm, taken, stable,
                   scan, repair, crashes>>

\* Mutant of ForgetAll: the pending set is emptied with the actor.
MutForgetAllEmptiesSet ==
    /\ up /\ forgetting
    /\ forgetting' = FALSE
    /\ actor' = [t \in Tx |-> "none"]
    /\ outgoing' = FALSE
    /\ pendingSet' = {}
    /\ UNCHANGED <<up, send, chain, announce, confirm, taken, shown, blocked,
                   stable, scan, repair, crashes, forgets>>

ForgetAll ==
    /\ up /\ forgetting
    /\ forgetting' = FALSE
    /\ actor' = [t \in Tx |-> "none"]
    /\ outgoing' = FALSE
    /\ UNCHANGED <<up, send, chain, pendingSet, announce, confirm, taken, shown, blocked,
                   stable, scan, repair, crashes, forgets>>

-----------------------------------------------------------------------------
(* The end of the process, the next start, and the start-up repair           *)

InFlight == {"registered", "announced", "verdict", "inserted", "saved", "tracked"}

Crash ==
    /\ up /\ crashes < MaxCrash
    /\ up' = FALSE
    /\ crashes' = crashes + 1
    /\ send' = [t \in Tx |-> IF send[t] \in InFlight THEN "lost" ELSE send[t]]
    /\ pendingSet' = {} /\ announce' = {}
    /\ actor' = [t \in Tx |-> "none"]
    /\ confirm' = [t \in Tx |-> "idle"]
    /\ taken' = [t \in Tx |-> "none"]
    /\ shown' = NoTx /\ blocked' = FALSE /\ outgoing' = FALSE /\ forgetting' = FALSE
    /\ scan' = [t \in Tx |-> IF scan[t] = "seen" THEN "todo" ELSE scan[t]]
    /\ startup' = [t \in Tx |-> "idle"] /\ blind' = {}
    /\ UNCHANGED <<chain, stable, forgets>>

\* Mutant of Restart: the send lock is not set again.
MutRestartUnblocked ==
    /\ ~up
    /\ up' = TRUE
    /\ pendingSet' = persisted
    /\ announce' = persisted
    /\ startup' = [t \in Tx |-> IF t \in persisted /\ ~Recorded(t, "wire") THEN "listed" ELSE "idle"]
    /\ UNCHANGED <<send, chain, actor, confirm, taken, shown, blocked, outgoing, forgetting,
                   stable, scan, blind, crashes, forgets>>

\* restorePersistedPendingTxids() (FIX #849) and, once the database is open,
\* detectMissingSentTransactionsAtStartup() (FIX #965): it lists the txids that
\* have no row, for the task that scanForMissingSentTransactions() is.
Restart ==
    /\ ~up
    /\ up' = TRUE
    /\ pendingSet' = persisted
    /\ blocked' = (persisted # {})
    /\ announce' = persisted
    /\ startup' = [t \in Tx |-> IF t \in persisted /\ ~Recorded(t, "wire") THEN "listed" ELSE "idle"]
    /\ UNCHANGED <<send, chain, actor, confirm, taken, shown, outgoing, forgetting, stable,
                   scan, blind, crashes, forgets>>

\* resetLastScannedHeightForRecovery()
Rescan(t) == scan' = [scan EXCEPT ![t] = IF @ = "past" THEN "todo" ELSE @]

\* scanForMissingSentTransactions(): the txid is pending again and the last
\* scanned height is lowered to where it was broadcast, or by 100 blocks when no
\* height is known any more.
Lower(t) ==
    /\ up /\ startup[t] = "listed"
    /\ startup' = [startup EXCEPT ![t] = IF t \in persisted THEN "lowered" ELSE "legacy"]
    /\ pendingSet' = pendingSet \cup {t}
    /\ Rescan(t)
    /\ UNCHANGED <<up, send, chain, actor, announce, confirm, taken, shown, blocked, outgoing,
                   forgetting, stable, blind, crashes, forgets>>

\* The scanner is past the ten blocks again while the task was waiting, or no
\* height is known: cleanOrphanedPendingTxids() begins, for every txid of the
\* list, which is from before the rescan.  Otherwise the task ends (FIX #1550 v3).
\* Without a connection the chain height stays unknown.
CheckWindow(t) ==
    /\ up
    /\ \/ /\ startup[t] = "lowered" /\ scan[t] # "past"
          /\ startup' = [startup EXCEPT ![t] = "idle"]
          /\ UNCHANGED blind
       \/ /\ startup[t] = "legacy" \/ (startup[t] = "lowered" /\ \E u \in Tx : scan[u] = "past")
          /\ startup' = [startup EXCEPT ![t] = "cleaning"]
          /\ blind' = blind \/ blind' = blind \cup {t}
    /\ UNCHANGED <<up, send, chain, memory, stable, scan, crashes, forgets>>

\* A step of the repair that only moves on.
Decides(t, from, next) ==
    /\ up /\ startup[t] = from
    /\ startup' = [startup EXCEPT ![t] = next]
    /\ UNCHANGED <<up, send, chain, memory, stable, blind, crashes, forgets>>

\* Step 1: a row was written in the meantime?
CheckRow(t) ==
    /\ Decides(t, "cleaning", IF Recorded(t, "wire") THEN "settled" ELSE "missing")
    /\ UNCHANGED scan

\* Mutant of CheckMempool: the acceptance is not looked at.
MutCheckMempoolSkipped(t) ==
    /\ Decides(t, "missing", "unproven")
    /\ UNCHANGED scan

\* Step 2, on the main actor: a transaction that entered a mempool is kept, if
\* the chain height is known.
CheckMempool(t) ==
    /\ Decides(t, "missing", IF t \notin accepted THEN "unproven"
                             ELSE IF t \in blind THEN "asking" ELSE "ending")
    /\ UNCHANGED scan

\* Step 2 goes on: the broadcast height, which is known while the txid is
\* persisted.  Ten blocks and never seen in a mempool (FIX #1550 v3) is rejected.
Classify(t) ==
    /\ \/ t \in persisted \ blind /\ Decides(t, "unproven", "ending")
       \/ t \in persisted \ blind /\ scan[t] = "past" /\ Decides(t, "unproven", "phantom")
       \/ t \notin persisted \ blind /\ Decides(t, "unproven", "asking")
    /\ UNCHANGED scan

\* Step 3, verifyTxConfirmedOnChain(): the row is looked for again, and then the
\* peers are asked.
Ask(t) ==
    \/ Recorded(t, "wire") /\ Decides(t, "asking", "ending") /\ (Rescan(t) \/ UNCHANGED scan)
    \/ ~Recorded(t, "wire") /\ Decides(t, "asking", "asked") /\ UNCHANGED scan

\* Seconds later: the peers have it, nobody knows, or (FIX #970) they do not have
\* it, which they also say of a transaction that is in a block.
Answer(t) ==
    \/ Decides(t, "asked", "ending") /\ (Rescan(t) \/ UNCHANGED scan)
    \/ Decides(t, "asked", "phantom") /\ UNCHANGED scan

\* restoreNotesSpentByPhantomTx()
Free(t) ==
    /\ up /\ startup[t] = "phantom"
    /\ startup' = [startup EXCEPT ![t] = "freed"]
    /\ note' = [note EXCEPT ![t] = "unspent"]
    /\ UNCHANGED <<up, send, chain, memory, persisted, accepted, history, scan, blind, crashes, forgets>>

\* deletePhantomTransaction()
DeleteRows(t) ==
    /\ up /\ startup[t] = "freed"
    /\ startup' = [startup EXCEPT ![t] = "settled"]
    /\ history' = history \ RowsOf(t)
    /\ UNCHANGED <<up, send, chain, memory, persisted, accepted, note, scan, blind, crashes, forgets>>

\* The removals: on the main actor UserDefaults and the set, then the actor.
Forget(t) ==
    /\ up /\ startup[t] = "settled"
    /\ startup' = [startup EXCEPT ![t] = "forgotten"]
    /\ pendingSet' = pendingSet \ {t}
    /\ persisted' = persisted \ {t}
    /\ accepted' = accepted \ {t}
    /\ UNCHANGED <<up, send, chain, actor, announce, confirm, taken, shown, blocked, outgoing,
                   forgetting, note, history, scan, blind, crashes, forgets>>

Untrack(t) ==
    /\ up /\ startup[t] = "forgotten"
    /\ startup' = [startup EXCEPT ![t] = "ending"]
    /\ pendingSet' = pendingSet \ {t}
    /\ actor' = [actor EXCEPT ![t] = "none"]
    /\ UNCHANGED <<up, send, chain, announce, confirm, taken, shown, blocked, outgoing,
                   forgetting, stable, scan, blind, crashes, forgets>>

\* clearPendingFlags(), when no txid is left in UserDefaults.
EndRepair(t) ==
    /\ up /\ startup[t] = "ending"
    /\ startup' = [startup EXCEPT ![t] = "idle"]
    /\ blind' = blind \ {t}
    /\ blocked' = (blocked /\ persisted # {})
    /\ UNCHANGED <<up, send, chain, pendingSet, actor, announce, confirm, taken, shown, outgoing,
                   forgetting, stable, scan, crashes, forgets>>

-----------------------------------------------------------------------------
(* The environment                                                           *)

Relay(t) ==
    /\ chain[t] = "unsent" /\ send[t] \in {"registered", "announced"}
    /\ chain' = [chain EXCEPT ![t] = "relayed"]
    /\ UNCHANGED <<up, send, memory, stable, scan, repair, crashes, forgets>>

\* The block is new: the scanner has not passed it.
Mine(t) ==
    /\ chain[t] = "relayed"
    /\ chain' = [chain EXCEPT ![t] = "mined"]
    /\ scan' = [scan EXCEPT ![t] = "todo"]
    /\ UNCHANGED <<up, send, memory, stable, repair, crashes, forgets>>

SendStep(t) == \/ Announce(t) \/ Succeed(t) \/ Abort(t) \/ Reject(t) \/ Unreachable(t)
               \/ TrackInsert(t) \/ TrackSave(t) \/ TrackFull(t)
ConfirmStep(t) == ConfirmGuard(t) \/ ConfirmUnsave(t) \/ ConfirmTake(t) \/ ConfirmWrite(t)
ScanStep(t) == Scan(t) \/ Advance(t)
StartupStep(t) == \/ Lower(t) \/ CheckWindow(t) \/ CheckRow(t) \/ CheckMempool(t) \/ Classify(t)
                  \/ Ask(t) \/ Answer(t) \/ Free(t) \/ DeleteRows(t)
                  \/ Forget(t) \/ Untrack(t) \/ EndRepair(t)

Next ==
    \/ \E t \in Tx : \/ Register(t) \/ SendStep(t) \/ TrackSimple(t) \/ ConfirmStep(t)
                     \/ ScanStep(t) \/ StartupStep(t) \/ Relay(t) \/ Mine(t)
    \/ CheckPending \/ Populate \/ GiveUp \/ ForgetAll \/ Crash \/ Restart

Spec == Init /\ [][Next]_vars

\* Tasks that are runnable run, a send that was begun comes to an end, and while
\* the wallet is open the scanner follows the chain, the timer of
\* checkPendingOutgoingConfirmations() fires and the history is refreshed.
Fairness ==
    /\ \A t \in Tx : /\ WF_vars(SendStep(t)) /\ WF_vars(TrackSimple(t)) /\ WF_vars(ConfirmStep(t))
                     /\ WF_vars(ScanStep(t)) /\ WF_vars(StartupStep(t))
    /\ WF_vars(CheckPending) /\ WF_vars(Populate) /\ WF_vars(ForgetAll) /\ WF_vars(Restart)

FairSpec == Spec /\ Fairness

-----------------------------------------------------------------------------
(* Properties                                                                *)

\* The database speaks of a transaction only when a block holds it: FIX #350
\* defers every write to the confirmation, whatever fails before.
RecordedOnlyIfMined ==
    /\ \A row \in history : chain[row[1]] = "mined"
    /\ \A t \in Tx : note[t] = "spent" => chain[t] = "mined"

\* Once the scanner is past the block of a transaction the note it spends is
\* spent in the database.  It does not come back there: nothing scans the block
\* again, so a note set free would be offered for a second spend.
SpendNotForgotten ==
    \A t \in Tx : chain[t] = "mined" /\ scan[t] = "past" => note[t] = "spent"

\* A row or a spent note is undone by nothing but the start-up repair, for a
\* transaction whose sender died or failed in an earlier life, and that has no
\* acceptance height at that moment, although the repair read the heights several
\* awaits before; only without the chain height the repair goes that far with an
\* accepted one.
Undone(t) ==
    \/ note[t] = "spent" /\ note'[t] = "unspent"
    \/ Recorded(t, "wire") /\ ~Recorded(t, "wire")'

UndoneByRepair ==
    [][\A t \in Tx : Undone(t) =>
          /\ startup[t] \in {"phantom", "freed"} /\ send[t] \in {"lost", "failed"} /\ crashes > 0
          /\ t \in blind \/ t \notin accepted]_vars

\* When the scanner reaches the block of a transaction whose send has not failed,
\* the txid is in the pending set: its change output is not taken for income
\* (FIX #366) and the confirmation runs.
ChangeIsRecognised ==
    \A t \in Tx : send[t] \in InFlight /\ scan[t] = "todo" => t \in pendingSet

\* A row written with all that the sender knew is never lost to a row rebuilt
\* from notes or recorded as a spend of another wallet.  Only the repair deletes
\* it, when it took the transaction for rejected before the row was written.
FullRowStays ==
    [][\A t \in Tx : <<t, "wire", "full">> \in history
          => <<t, "wire", "full">> \in history' \/ startup[t] = "freed"]_vars

\* No other transaction has been sent.
Sole(t) == \A u \in Tx \ {t} : send[u] = "idle"

\* While the only transaction that was sent is accepted or tracked and in no
\* block, also after a restart, the user cannot send another one (FIX #301,
\* FIX #847, FIX #849), unless the balance screen gave up waiting and forgot it.
\* The lock knows no owner: the late end of an earlier transaction resets it.
PendingBlocksSends ==
    \A t \in Tx :
        /\ up /\ chain[t] = "relayed" /\ t \in persisted
        /\ send[t] \in {"announced", "tracked", "lost"} /\ forgets = 0 /\ Sole(t)
        => blocked \/ outgoing

\* A transaction that entered a mempool is not given up before a block holds it
\* (FIX #1550 v3: "NEVER auto-delete"), unless the repair does not know the chain
\* height: it then takes the transaction for one without heights.
AcceptedIsKept ==
    [][\A t \in accepted : t \notin accepted' => chain[t] = "mined" \/ t \in blind]_vars

\* A mined transaction comes to have a row in the history, whether or not its
\* confirmation wrote one, while the process lives.
MinedIsRecorded ==
    \A t \in Tx : chain[t] = "mined" ~> Recorded(t, "wire") \/ crashes > 0

\* The user can send again after a transaction is mined, whatever was shown,
\* given up or confirmed twice meanwhile, provided that its sender had tracked
\* it before its block was scanned: only a confirmation that runs between the
\* steps of trackPendingOutgoingFull() may leave the send lock set.
MinedIsReleased ==
    \A t \in Tx :
        chain[t] = "mined" /\ scan[t] = "todo" /\ send[t] = "tracked" /\ t \notin announce
            ~> (~blocked /\ ~outgoing) \/ crashes > 0
=============================================================================
