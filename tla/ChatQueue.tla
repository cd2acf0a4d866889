------------------------------ MODULE ChatQueue ------------------------------
(***************************************************************************)
(* The offline message queue of the chat (ChatManager.swift), for one      *)
(* contact.  A message is sent directly while nothing is queued; it is     *)
(* queued, and the queue saved, when the contact turns out to be offline;  *)
(* a flush sends what is queued whenever the contact comes online, and the *)
(* maintenance loop flushes again every 15 s.                              *)
(*                                                                         *)
(* ChatManager is @MainActor: its code is atomic between two awaits.  The  *)
(* awaits are what the actions are cut at: a task waiting to begin a send, *)
(* in connect(), in the key exchange, in the send, and after it (the hop   *)
(* of updateActivity()).  Tasks are the direct sends, one per message, and *)
(* the flushes: those spawned by updateContactOnlineStatus() and the one   *)
(* of the maintenance loop.                                                *)
(***************************************************************************)
EXTENDS Naturals, Sequences

CONSTANTS
    Messages,    \* the text messages the user writes to the contact
    Spawned,     \* the flush tasks that may be alive at the same time
    Loop,        \* the maintenance loop, which dials and flushes
    Nobody,      \* no task
    MaxFaults,   \* bound: connections that fail, break, say goodbye or are
                 \* removed by a send on an older one
    MaxCrashes   \* bound: times the app is killed

ASSUME TasksAssumption ==
    /\ Messages \cap Spawned = {}
    /\ Loop \notin Messages \cup Spawned
    /\ Nobody \notin Messages \cup Spawned \cup {Loop}

ASSUME BoundsAssumption == MaxFaults \in Nat /\ MaxCrashes \in Nat

Flushers == Spawned \cup {Loop}
Tasks == Messages \cup Flushers

VARIABLES
    shown,    \* status of each message in conversations
    stored,   \* its row in the chat_messages table
    queue,    \* messageQueue[contact]
    saved,    \* the queue as saved in the database
    link,     \* peers[contact]: none, in key exchange, connected
    dialer,   \* the task in connectionsInFlight
    online,   \* contact.isOnline
    pc,       \* where each task waits
    todo,     \* what a flush has left of its copy of the queue
    rest,     \* remainingMessages of a flush
    written,  \* messages a connection has taken (external: the network)
    faults,   \* faults so far
    crashes   \* crashes so far

messageVars == <<shown, stored>>
queueVars == <<queue, saved>>
flushVars == <<todo, rest>>
netVars == <<link, dialer, online>>
vars == <<shown, stored, queue, saved, link, dialer, online, pc, todo, rest,
          written, faults, crashes>>

Shown == {"none", "sending", "queued", "sent", "delivered", "failed", "gone"}
Stored == {"none", "unsent", "sent", "delivered"}

\* The messages of a sequence.
Elems(s) == {s[i] : i \in DOMAIN s}

\* What a running flush still holds: its copy and what it could not send.
Held(f) == Elems(todo[f]) \cup Elems(rest[f])

\* The message a task is sending; the loop may also dial for none.
HasMessage(t) == t \notin {f \in Flushers : todo[f] = <<>>}
Current(t) == IF t \in Messages THEN t ELSE Head(todo[t])

-----------------------------------------------------------------------------
\* A bug: the changed queue is not saved.
MutSaveQueueForgets(q) == queue' = q /\ UNCHANGED saved

\* The queue is saved whenever it is changed.
SaveQueue(q) == queue' = q /\ saved' = q

\* Where a task goes when the send of its message has ended.
After(t) == IF t \in Messages \/ Len(todo[t]) = 1 THEN "idle" ELSE "begin"

\* The values of pc once the contact is marked online: a flush is spawned if
\* it was offline (and fewer than Spawned are alive).
Online(p) ==
    LET spare == {f \in Spawned : p[f] = "idle"} IN
    IF online \/ spare = {} THEN {p}
    ELSE {[p EXCEPT ![f] = "ready"] : f \in spare}

\* A bug: what could not be sent is dropped at the end of the flush.
MutFlushStepDrops(f, kept) ==
    IF Len(todo[f]) = 1
    THEN /\ SaveQueue(<<>>)
         /\ todo' = [todo EXCEPT ![f] = <<>>]
         /\ rest' = [rest EXCEPT ![f] = <<>>]
    ELSE /\ UNCHANGED queueVars
         /\ todo' = [todo EXCEPT ![f] = Tail(@)]
         /\ rest' = [rest EXCEPT ![f] = kept]

\* A flush is done with the head of its copy; after the last one the queue
\* becomes what remains.
FlushStep(f, kept) ==
    IF Len(todo[f]) = 1
    THEN /\ SaveQueue(kept)
         /\ todo' = [todo EXCEPT ![f] = <<>>]
         /\ rest' = [rest EXCEPT ![f] = <<>>]
    ELSE /\ UNCHANGED queueVars
         /\ todo' = [todo EXCEPT ![f] = Tail(@)]
         /\ rest' = [rest EXCEPT ![f] = kept]

\* sendMessage() threw: a direct send queues the message if the error says
\* that the contact is offline, a flush keeps it for later.
SendFailed(t, offline) ==
    /\ pc' = [pc EXCEPT ![t] = After(t)]
    /\ \/ /\ t \in Messages
          /\ shown' = [shown EXCEPT ![t] = IF offline THEN "queued" ELSE "failed"]
          /\ stored' = [stored EXCEPT ![t] = "unsent"]
          /\ IF offline THEN SaveQueue(Append(queue, t)) ELSE UNCHANGED queueVars
          /\ UNCHANGED flushVars
       \/ /\ t \in Flushers
          /\ FlushStep(t, Append(rest[t], Head(todo[t])))
          /\ UNCHANGED messageVars

-----------------------------------------------------------------------------
Init ==
    /\ shown = [m \in Messages |-> "none"]
    /\ stored = [m \in Messages |-> "none"]
    /\ queue = <<>> /\ saved = <<>>
    /\ link = "none" /\ dialer = Nobody /\ online = FALSE
    /\ pc = [t \in Tasks |-> "idle"]
    /\ todo = [f \in Flushers |-> <<>>]
    /\ rest = [f \in Flushers |-> <<>>]
    /\ written = {}
    /\ faults = 0 /\ crashes = 0

\* sendTextMessage(): behind a queue the message is queued, otherwise it is
\* shown and its send begins; only the queued one is stored at once.
Compose(m) ==
    /\ shown[m] = "none"
    /\ \/ /\ queue # <<>>
          /\ shown' = [shown EXCEPT ![m] = "queued"]
          /\ stored' = [stored EXCEPT ![m] = "unsent"]
          /\ SaveQueue(Append(queue, m))
          /\ UNCHANGED pc
       \/ /\ queue = <<>>
          /\ shown' = [shown EXCEPT ![m] = "sending"]
          /\ pc' = [pc EXCEPT ![m] = "begin"]
          /\ UNCHANGED <<stored, queueVars>>
    /\ UNCHANGED <<netVars, flushVars, written, faults, crashes>>

\* A bug: connect() does not look at connectionsInFlight.
MutBeginUnguarded(t) ==
    /\ pc[t] = "begin"
    /\ pc' = [pc EXCEPT ![t] = IF link = "up" THEN "write" ELSE "dial"]
    /\ dialer' = IF link = "up" THEN dialer ELSE t
    /\ UNCHANGED <<messageVars, queueVars, flushVars, link, online, written,
                   faults, crashes>>

\* sendMessage() with a connection, or as the one who dials, or while another
\* task dials: connect() then returns at once and the send fails, as offline
\* without a peer and as an encryption error with a peer in key exchange.
Begin(t) ==
    /\ pc[t] = "begin"
    /\ \/ /\ link = "up"
          /\ pc' = [pc EXCEPT ![t] = "write"]
          /\ UNCHANGED <<messageVars, queueVars, flushVars, dialer>>
       \/ /\ link # "up" /\ dialer = Nobody
          /\ dialer' = t
          /\ pc' = [pc EXCEPT ![t] = "dial"]
          /\ UNCHANGED <<messageVars, queueVars, flushVars>>
       \/ /\ link # "up" /\ dialer # Nobody
          /\ SendFailed(t, link = "none")
          /\ UNCHANGED dialer
    /\ UNCHANGED <<link, online, written, faults, crashes>>

\* connect(): the tunnel stands, the new peer replaces any other.
DialReady(t) ==
    /\ pc[t] = "dial"
    /\ link' = "exchange"
    /\ pc' = [pc EXCEPT ![t] = "exchange"]
    /\ UNCHANGED <<messageVars, queueVars, flushVars, dialer, online, written,
                   faults, crashes>>

\* connect(): the keys are exchanged and the contact is online, also when the
\* new peer has been removed meanwhile.
DialOk(t) ==
    /\ pc[t] = "exchange"
    /\ link' = IF link = "none" THEN "none" ELSE "up"
    /\ dialer' = Nobody /\ online' = TRUE
    /\ pc' \in Online([pc EXCEPT ![t] = IF HasMessage(t) THEN "write" ELSE "idle"])
    /\ UNCHANGED <<messageVars, queueVars, flushVars, written, faults, crashes>>

\* connect() throws, before or in the key exchange; the loop marks the
\* contact offline itself.
DialFail(t) ==
    /\ pc[t] \in {"dial", "exchange"}
    /\ faults < MaxFaults
    /\ faults' = faults + 1
    /\ dialer' = Nobody
    /\ link' = IF pc[t] = "exchange" THEN "none" ELSE link
    /\ online' = (online /\ pc[t] = "dial" /\ HasMessage(t))
    /\ \/ /\ HasMessage(t)
          /\ \E offline \in BOOLEAN : SendFailed(t, offline)
       \/ /\ ~HasMessage(t)
          /\ pc' = [pc EXCEPT ![t] = "idle"]
          /\ UNCHANGED <<messageVars, queueVars, flushVars>>
    /\ UNCHANGED <<written, crashes>>

\* The connection takes the message.
WriteOk(t) ==
    /\ pc[t] = "write" /\ link = "up"
    /\ written' = written \cup {Current(t)}
    /\ pc' = [pc EXCEPT ![t] = "wrote"]
    /\ UNCHANGED <<messageVars, queueVars, flushVars, netVars, faults, crashes>>

\* The send fails and removes the peer, whichever it is by now.
WriteFail(t) ==
    /\ pc[t] = "write" /\ link = "up"
    /\ faults < MaxFaults
    /\ faults' = faults + 1
    /\ link' = "none" /\ online' = FALSE
    /\ \E offline \in BOOLEAN : SendFailed(t, offline)
    /\ UNCHANGED <<dialer, written, crashes>>

\* The peer went away while the task waited: no peer, a peer without a key,
\* or the send on the old connection fails and removes the new peer.
WriteLost(t) ==
    /\ pc[t] = "write" /\ link # "up"
    /\ \/ UNCHANGED <<link, online, faults>>
       \/ /\ faults < MaxFaults
          /\ faults' = faults + 1
          /\ link' = "none" /\ online' = FALSE
    /\ \E offline \in BOOLEAN : SendFailed(t, offline)
    /\ UNCHANGED <<dialer, written, crashes>>

\* sendMessage() returns: the contact is online, the message is marked as
\* sent, stored, and a flush goes on with its next one.
Finish(t) ==
    /\ pc[t] = "wrote"
    /\ online' = TRUE
    /\ pc' \in Online([pc EXCEPT ![t] = After(t)])
    /\ shown' = [shown EXCEPT ![Current(t)] = "sent"]
    /\ stored' = [stored EXCEPT ![Current(t)] = "sent"]
    /\ \/ t \in Messages /\ UNCHANGED <<queueVars, flushVars>>
       \/ t \in Flushers /\ FlushStep(t, rest[t])
    /\ UNCHANGED <<link, dialer, written, faults, crashes>>

\* A spawned flush runs: it copies the queue, or has nothing to do.
RunFlush(f) ==
    /\ pc[f] = "ready"
    /\ todo' = [todo EXCEPT ![f] = queue]
    /\ pc' = [pc EXCEPT ![f] = IF queue = <<>> THEN "idle" ELSE "begin"]
    /\ UNCHANGED <<messageVars, queueVars, netVars, rest, written, faults, crashes>>

\* The maintenance loop connects to a contact without a connection (unless
\* somebody does), and flushes the queue of one that has a connection.
LoopDial ==
    /\ pc[Loop] = "idle" /\ link # "up" /\ dialer = Nobody
    /\ dialer' = Loop
    /\ pc' = [pc EXCEPT ![Loop] = "dial"]
    /\ UNCHANGED <<messageVars, queueVars, flushVars, link, online, written,
                   faults, crashes>>


LoopRetry ==
    /\ pc[Loop] = "idle" /\ link = "up" /\ queue # <<>>
    /\ todo' = [todo EXCEPT ![Loop] = queue]
    /\ pc' = [pc EXCEPT ![Loop] = "begin"]
    /\ UNCHANGED <<messageVars, queueVars, netVars, rest, written, faults, crashes>>

-----------------------------------------------------------------------------
\* The contact connects to us; refused while a connection stands.
Incoming ==
    /\ link # "up"
    /\ link' = "up" /\ online' = TRUE
    /\ pc' \in Online(pc)
    /\ UNCHANGED <<messageVars, queueVars, flushVars, dialer, written, faults, crashes>>

\* A ping or a pong arrives; a contact with a connection is found offline.
Ping ==
    /\ link = "up"
    /\ online' = TRUE
    /\ pc' \in Online(pc)
    /\ UNCHANGED <<messageVars, queueVars, flushVars, link, dialer, written,
                   faults, crashes>>

\* A connection fails, is cancelled, or is found stale: the contact's peer is
\* removed, whichever it is by now.
Break ==
    /\ link # "none" /\ faults < MaxFaults
    /\ faults' = faults + 1
    /\ link' = "none" /\ online' = FALSE
    /\ UNCHANGED <<messageVars, queueVars, flushVars, dialer, pc, written, crashes>>

\* The contact says goodbye: it is offline, its connection is left alone.
Goodbye ==
    /\ link = "up" /\ online /\ faults < MaxFaults
    /\ faults' = faults + 1
    /\ online' = FALSE
    /\ UNCHANGED <<messageVars, queueVars, flushVars, link, dialer, pc, written, crashes>>

\* The contact acknowledges a message it received.
Ack(m) ==
    /\ m \in written /\ shown[m] \notin {"none", "gone"}
    /\ shown' = [shown EXCEPT ![m] = "delivered"]
    /\ stored' = [stored EXCEPT ![m] = "delivered"]
    /\ UNCHANGED <<queueVars, flushVars, netVars, pc, written, faults, crashes>>

\* A bug: the status is shown as it is stored.
MutRestoredAsStored(m) == IF shown[m] = "none" THEN "none" ELSE stored[m]

\* The app is killed and starts again: conversations and the queue are what
\* the database has, and an unsent message is shown as being sent.
Restored(m) ==
    CASE shown[m] = "none" -> "none"
      [] shown[m] # "none" /\ stored[m] = "none" -> "gone"
      [] shown[m] # "none" /\ stored[m] = "unsent" -> "sending"
      [] OTHER -> stored[m]

Crash ==
    /\ crashes < MaxCrashes
    /\ crashes' = crashes + 1
    /\ shown' = [m \in Messages |-> Restored(m)]
    /\ queue' = saved
    /\ link' = "none" /\ dialer' = Nobody /\ online' = FALSE
    /\ pc' = [t \in Tasks |-> "idle"]
    /\ todo' = [f \in Flushers |-> <<>>]
    /\ rest' = [f \in Flushers |-> <<>>]
    /\ UNCHANGED <<stored, saved, written, faults>>

-----------------------------------------------------------------------------
SendStep(t) == Begin(t) \/ WriteOk(t) \/ WriteLost(t) \/ Finish(t)
DialStep(t) == DialReady(t) \/ DialOk(t)

Next ==
    \/ \E m \in Messages : Compose(m) \/ Ack(m)
    \/ \E t \in Tasks : SendStep(t) \/ DialStep(t) \/ DialFail(t) \/ WriteFail(t)
    \/ \E f \in Spawned : RunFlush(f)
    \/ LoopDial \/ LoopRetry
    \/ Incoming \/ Ping \/ Break \/ Goodbye \/ Crash

Spec == Init /\ [][Next]_vars

\* A task whose await returns goes on, the network stack takes a message or
\* refuses it, and the loop comes round every 15 s.  Nothing is assumed of a
\* dial: neither receiveRawData() nor the receive of the key exchange has a
\* timeout, so that connect() may wait for ever for a contact that is silent.
Fairness ==
    /\ \A t \in Tasks : WF_vars(SendStep(t))
    /\ \A f \in Spawned : WF_vars(RunFlush(f))
    /\ WF_vars(LoopDial) /\ WF_vars(LoopRetry)

FairSpec == Spec /\ Fairness

-----------------------------------------------------------------------------
TypeOK ==
    /\ shown \in [Messages -> Shown]
    /\ stored \in [Messages -> Stored]
    /\ queue \in Seq(Messages) /\ saved \in Seq(Messages)
    /\ link \in {"none", "exchange", "up"}
    /\ dialer \in Tasks \cup {Nobody}
    /\ online \in BOOLEAN
    /\ pc \in [Tasks -> {"idle", "ready", "begin", "dial", "exchange", "write", "wrote"}]
    /\ todo \in [Flushers -> Seq(Messages)]
    /\ rest \in [Flushers -> Seq(Messages)]
    /\ written \subseteq Messages
    /\ faults \in 0..MaxFaults /\ crashes \in 0..MaxCrashes

\* connect() is run by one task at a time, and the task that holds the
\* connectionsInFlight entry is in connect(): no entry is left behind that
\* would keep the contact from being dialled (FIX #1476 and its defer).
OneDialer ==
    \A t \in Tasks : pc[t] \in {"dial", "exchange"} <=> dialer = t

\* A message shown or stored as sent or delivered was taken by a connection.
SentIsWritten ==
    \A m \in Messages :
        ({shown[m], stored[m]} \cap {"sent", "delivered"} # {}) => m \in written

\* A message leaves the queue only when it was sent, or when a flush that
\* copied the queue before the message was in it ends: that is the only way
\* a queued message is lost, two flushes at once and a crash included.
LeavesQueueSent ==
    [][\A m \in Elems(queue) \ Elems(queue') :
           \/ m \in written
           \/ \E f \in Flushers : pc[f] # "idle" /\ m \notin Held(f)]_vars

\* A crash loses no message except one whose direct send is still running:
\* a queued one is queued again, any other is still in its conversation.
CrashKeeps ==
    [][crashes' # crashes =>
        \A m \in Messages :
            /\ m \in Elems(queue) => m \in Elems(queue')
            /\ shown'[m] = "gone" => shown[m] = "gone" \/ pc[m] # "idle"]_vars


\* sendTextMessage() says of a queued message that it "will be sent when
\* online": it stays in the queue, or in a flush that is sending it, until a
\* connection has taken it.
QueuedIsKept ==
    \A m \in Messages : shown[m] = "queued" =>
        m \in Elems(queue) \/ m \in written
=============================================================================
