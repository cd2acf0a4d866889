-------------------------- MODULE MessageDispatcher --------------------------
(* The PeerMessageDispatcher of one peer (Peer.swift): the requests that wait  *)
(* in it, the block listener that dispatches what the peer sends, and the      *)
(* timers of withReliableTimeout().                                            *)
(*                                                                             *)
(* The dispatcher is an actor: what a method does between two suspensions is a *)
(* step.  The peer answers requests in the order in which they were sent.  A   *)
(* request begins only while the dispatcher is active; what starts and ends    *)
(* the listener is the subject of BlockListener.  Payloads are left out: a     *)
(* message is its command and the request that it answers, and what the peer   *)
(* says is chosen when the listener dispatches it.                             *)
EXTENDS Naturals, Sequences, FiniteSets

CONSTANTS
    Request,         \* calls that use the dispatcher
    NoRequest,       \* what an unsolicited message answers
    BatchSize,       \* blocks asked for by one getBlocksByHashes()
    MaxUpsets        \* bound: unsolicited messages and lost connections

ASSUME RequestAssumption == NoRequest \notin Request
ASSUME BatchAssumption == BatchSize \in Nat \ {0}
ASSUME BoundsAssumption == MaxUpsets \in Nat

VARIABLES
    kind,        \* which call each request is, "none" before it waits
    caller,      \* how far the caller has come
    stage,       \* the wait it is in: getAddresses() has two
    op,          \* the operation that withReliableTimeout() runs, per wait
    got,         \* the message that an operation was resumed with
    queue,       \* pendingHandlers
    expected,    \* the commands with an entry in earlyResponses
    early,       \* the messages in earlyResponses
    broadcasts,  \* broadcastHandlers, by the request that has the txid
    batches,     \* commandToBatchIds["block"], with batchCollectors
    collected,   \* blocks that a collector has
    crashed,     \* a continuation was resumed twice
    asked,       \* requests that the peer has still to answer
    sent,        \* blocks that it has sent for the first of them
    upsets       \* unsolicited messages and lost connections so far

calls == <<kind, caller, stage>>
early_ == <<expected, early>>
collectors == <<batches, collected>>
remote == <<asked, sent>>
vars == <<calls, op, got, queue, early_, broadcasts, collectors, crashed, remote, upsets>>

\* sendAndWaitViaDispatcher, sendPing, getMempoolTransactions,
\* requestTransaction and getMempoolTransaction, getAddresses,
\* broadcastTransaction, getBlocksByHashes
Kinds == {"headers", "ping", "mempool", "getdata", "addr", "broadcast", "batch"}

\* The commands that have handlers in pendingHandlers.
Queued == {"headers", "pong", "inv", "tx", "notfound", "addr", "addrv2"}
AddrCommands == {"addr", "addrv2"}
Command == Queued \cup {"reject", "block"}
Msg == [cmd : Command, to : Request \cup {NoRequest}]
NoMsg == [cmd |-> "none", to |-> NoRequest]

\* A wait of a request; its continuation is known by the same name.
Wait == Request \X {1, 2}
First(r) == <<r, 1>>
Current(r) == <<r, stage[r]>>

\* The commands under which wait s of a call of kind k is registered.
Awaits(k, s) ==
    CASE k = "headers" -> {"headers"}
      [] k = "ping" -> {"pong"}
      [] k = "mempool" -> {"inv"}
      [] k = "getdata" -> {"tx", "notfound"}
      [] k = "addr" /\ s = 1 -> {"addr"}
      [] k = "addr" /\ s = 2 -> {"addrv2"}
      [] OTHER -> {}

Wanted(h) == Awaits(kind[h[1]], h[2])

\* The calls that take handlers out of the queues when they are done.
Cleans(k) == k \in {"headers", "getdata"}

Ended(r) == caller[r] \in {"answered", "gaveUp", "failed"}

TypeOK ==
    /\ kind \in [Request -> Kinds \cup {"none"}]
    /\ caller \in [Request -> {"new", "waiting", "cleaning", "sweeping", "signalling",
                               "answered", "gaveUp", "failed"}]
    /\ stage \in [Request -> {1, 2}]
    /\ op \in [Wait -> {"none", "spawned", "waiting", "resumed", "cancelled"}]
    /\ got \in [Wait -> Msg \cup {NoMsg}]
    /\ queue \in [Queued -> Seq(Wait)]
    /\ expected \subseteq AddrCommands
    /\ early \in [AddrCommands -> Seq(Msg)]
    /\ broadcasts \subseteq Request
    /\ batches \in Seq(Request)
    /\ collected \in [Request -> 0..BatchSize]
    /\ crashed \in BOOLEAN
    /\ asked \in Seq(Request)
    /\ sent \in 0..BatchSize
    /\ upsets \in 0..MaxUpsets

Init ==
    /\ kind = [r \in Request |-> "none"]
    /\ caller = [r \in Request |-> "new"]
    /\ stage = [r \in Request |-> 1]
    /\ op = [h \in Wait |-> "none"]
    /\ got = [h \in Wait |-> NoMsg]
    /\ queue = [c \in Queued |-> <<>>]
    /\ expected = {}
    /\ early = [c \in AddrCommands |-> <<>>]
    /\ broadcasts = {}
    /\ batches = <<>>
    /\ collected = [r \in Request |-> 0]
    /\ crashed = FALSE
    /\ asked = <<>> /\ sent = 0
    /\ upsets = 0

-----------------------------------------------------------------------------
(* Continuations.                                                              *)

\* Mutant: handlers without the wrapper of FIX #1528.
MutResumeBare(h, how, m) ==
    IF op[h] = "waiting"
    THEN /\ op' = [op EXCEPT ![h] = how] /\ got' = [got EXCEPT ![h] = m]
         /\ UNCHANGED crashed
    ELSE crashed' = TRUE /\ UNCHANGED <<op, got>>

\* OneShotContinuation.resume: only the first one counts.
Resume(h, how, m) ==
    /\ UNCHANGED crashed
    /\ IF op[h] = "waiting"
       THEN op' = [op EXCEPT ![h] = how] /\ got' = [got EXCEPT ![h] = m]
       ELSE UNCHANGED <<op, got>>

\* A CheckedContinuation that is not wrapped: the second resume is fatal.
ResumeBare(h, m) ==
    IF op[h] = "waiting"
    THEN /\ op' = [op EXCEPT ![h] = "resumed"] /\ got' = [got EXCEPT ![h] = m]
         /\ UNCHANGED crashed
    ELSE crashed' = TRUE /\ UNCHANGED <<op, got>>

-----------------------------------------------------------------------------
(* The callers.                                                                *)

\* Mutant: getaddr is sent without expectCommands, as before FIX #1521.
MutExpectNothing(k) == k \in Kinds /\ UNCHANGED early_

\* expectCommands: an entry that is there already is kept.
Expect(k) ==
    /\ expected' = IF k = "addr" THEN AddrCommands ELSE expected
    /\ UNCHANGED early

\* clearExpectedCommands
ClearExpected == expected' = {} /\ early' = [c \in AddrCommands |-> <<>>]

\* The call sends its message and starts the wait and its timer.
Send(r, k) ==
    /\ caller[r] = "new"
    /\ kind' = [kind EXCEPT ![r] = k]
    /\ caller' = [caller EXCEPT ![r] = "waiting"]
    /\ op' = [op EXCEPT ![First(r)] = "spawned"]
    /\ asked' = Append(asked, r)
    /\ Expect(k)
    /\ UNCHANGED <<stage, got, queue, broadcasts, collectors, crashed, sent, upsets>>

\* sendMessage() throws: the expected commands stay.
SendFails(r, k) ==
    /\ caller[r] = "new"
    /\ caller' = [caller EXCEPT ![r] = "failed"]
    /\ Expect(k)
    /\ UNCHANGED <<kind, stage, op, got, queue, broadcasts, collectors, crashed, remote, upsets>>

\* waitForResponse finds an early response and does not register.
TakeEarly(h) ==
    /\ op[h] = "spawned" /\ kind[h[1]] = "addr"
    /\ \E c \in Wanted(h) :
        /\ early[c] # <<>>
        /\ op' = [op EXCEPT ![h] = "resumed"]
        /\ got' = [got EXCEPT ![h] = Head(early[c])]
        /\ early' = [early EXCEPT ![c] = Tail(@)]
        /\ expected' = IF Len(early[c]) = 1 THEN expected \ {c} ELSE expected
    /\ UNCHANGED <<calls, queue, broadcasts, collectors, crashed, remote, upsets>>

\* waitForResponse, waitForAnyResponse, waitForBroadcastResult, waitForBatch:
\* the operation registers, which may be after its timer has fired.
Register(h) ==
    LET r == h[1]
    IN  /\ op[h] = "spawned"
        /\ kind[r] = "addr" => \A c \in Wanted(h) : early[c] = <<>>
        /\ op' = [op EXCEPT ![h] = "waiting"]
        /\ queue' = [c \in Queued |-> IF c \in Wanted(h) THEN Append(queue[c], h) ELSE queue[c]]
        /\ broadcasts' = IF kind[r] = "broadcast" THEN broadcasts \cup {r} ELSE broadcasts
        /\ batches' = IF kind[r] = "batch" THEN Append(batches, r) ELSE batches
        /\ UNCHANGED <<calls, got, early_, collected, crashed, remote, upsets>>

\* The operation was resumed with a message, and the timer has not fired.
Answered(r) ==
    /\ caller[r] = "waiting" /\ op[Current(r)] = "resumed"
    /\ caller' = [caller EXCEPT ![r] = IF kind[r] = "getdata" THEN "sweeping" ELSE "answered"]
    /\ IF kind[r] = "addr" THEN ClearExpected ELSE UNCHANGED early_
    /\ UNCHANGED <<kind, stage, op, got, queue, broadcasts, collectors, crashed, remote, upsets>>

\* The wait returns nil: sendPing, getMempoolTransactions end here.
NoAnswer(r) ==
    /\ kind[r] \notin {"addr", "broadcast", "batch"}
    /\ caller' = [caller EXCEPT ![r] = IF Cleans(kind[r]) THEN "cleaning" ELSE "gaveUp"]
    /\ UNCHANGED <<kind, stage, op, got, queue, early_, broadcasts, collectors, crashed, remote,
                   upsets>>

\* getAddresses waits for addr first and then for addrv2.
NoAddr(r) ==
    /\ kind[r] = "addr"
    /\ \/ /\ stage[r] = 1
          /\ stage' = [stage EXCEPT ![r] = 2]
          /\ op' = [op EXCEPT ![<<r, 2>>] = "spawned"]
          /\ UNCHANGED <<caller, early_>>
       \/ /\ stage[r] = 2
          /\ caller' = [caller EXCEPT ![r] = "gaveUp"]
          /\ ClearExpected
          /\ UNCHANGED <<stage, op>>
    /\ UNCHANGED <<kind, got, queue, broadcasts, collectors, crashed, remote, upsets>>

\* The timer of withReliableTimeout() fires before the operation has returned.
Timeout(r) ==
    /\ caller[r] = "waiting"
    /\ NoAnswer(r) \/ NoAddr(r)

\* The handler was resumed with CancellationError: the operation returns nil.
Cancelled(r) ==
    /\ caller[r] = "waiting" /\ op[Current(r)] = "cancelled"
    /\ NoAnswer(r)

\* An identifier occurs once in commandToBatchIds.
WithoutBatch(i) ==
    [j \in 1..Len(batches) - 1 |-> IF j < i THEN batches[j] ELSE batches[j + 1]]

\* Mutant: the collector is removed and its caller not resumed.
MutBatchTimeoutLeaks(r) ==
    /\ \E i \in 1..Len(batches) : batches[i] = r /\ batches' = WithoutBatch(i)
    /\ UNCHANGED <<calls, op, got, crashed, queue, early_, broadcasts, collected, remote, upsets>>

\* handleBatchTimeout, unless the batch was completed
BatchTimeout(r) ==
    /\ \E i \in 1..Len(batches) : batches[i] = r /\ batches' = WithoutBatch(i)
    /\ ResumeBare(First(r), NoMsg)
    /\ UNCHANGED <<calls, queue, early_, broadcasts, collected, remote, upsets>>

\* onTimeout of a broadcast runs on the queue of the timer and not in the
\* actor: it looks the handler up while dispatch() may do the same.
BroadcastTimeout(r) ==
    /\ caller[r] = "waiting" /\ kind[r] = "broadcast"
    /\ caller' = [caller EXCEPT ![r] = IF r \in broadcasts THEN "signalling" ELSE "gaveUp"]
    /\ UNCHANGED <<kind, stage, op, got, queue, early_, broadcasts, collectors, crashed, remote,
                   upsets>>

\* signalBroadcastTimeout: the handler that was found is resumed, or dispatch()
\* has removed it before.
SignalTimeout(r) ==
    /\ caller[r] = "signalling"
    /\ caller' = [caller EXCEPT ![r] = "gaveUp"]
    /\ broadcasts' = broadcasts \ {r}
    /\ \/ ResumeBare(First(r), NoMsg)
       \/ r \notin broadcasts /\ UNCHANGED <<op, got, crashed>>
    /\ UNCHANGED <<kind, stage, queue, early_, collectors, remote, upsets>>

\* After a timeout all commands are cleaned, after an answer the other ones.
ToClean(r) ==
    Awaits(kind[r], 1) \ (IF caller[r] = "sweeping" THEN {got[First(r)].cmd} ELSE {})

\* Mutant: the handler is dropped and not resumed, as before FIX #1519.
MutCleanDrops(r) ==
    LET cmds == {c \in ToClean(r) : queue[c] # <<>>}
    IN  /\ caller[r] \in {"cleaning", "sweeping"}
        /\ caller' = [caller EXCEPT ![r] = IF @ = "sweeping" THEN "answered" ELSE "gaveUp"]
        /\ queue' = [c \in Queued |-> IF c \in cmds THEN Tail(queue[c]) ELSE queue[c]]
        /\ UNCHANGED <<kind, stage, op, got, early_, broadcasts, collectors, crashed, remote, upsets>>

\* cancelWaitingHandler for each of these commands takes the first handler,
\* whoever it belongs to.
Clean(r) ==
    LET cmds == {c \in ToClean(r) : queue[c] # <<>>}
        firsts == {Head(queue[c]) : c \in cmds}
    IN  /\ caller[r] \in {"cleaning", "sweeping"}
        /\ caller' = [caller EXCEPT ![r] = IF @ = "sweeping" THEN "answered" ELSE "gaveUp"]
        /\ queue' = [c \in Queued |-> IF c \in cmds THEN Tail(queue[c]) ELSE queue[c]]
        /\ op' = [h \in Wait |-> IF h \in firsts /\ op[h] = "waiting" THEN "cancelled" ELSE op[h]]
        /\ UNCHANGED <<kind, stage, got, early_, broadcasts, collectors, crashed, remote, upsets>>

-----------------------------------------------------------------------------
(* dispatch(), which the listener calls for every message.                     *)

\* Mutant: a batch is complete one block too late.
MutToCollectorLate(m) ==
    LET r == Head(batches)
    IN  /\ m.cmd = "block" /\ batches # <<>>
        /\ collected' = [collected EXCEPT ![r] = @ + 1]
        /\ IF collected[r] + 1 > BatchSize
           THEN batches' = Tail(batches) /\ ResumeBare(First(r), m)
           ELSE UNCHANGED <<batches, op, got, crashed>>
        /\ UNCHANGED <<queue, early_, broadcasts>>

\* dispatchToBatchCollector: the first collector gets the block.
ToCollector(m) ==
    LET r == Head(batches)
    IN  /\ m.cmd = "block" /\ batches # <<>>
        /\ collected' = [collected EXCEPT ![r] = @ + 1]
        /\ IF collected[r] + 1 >= BatchSize
           THEN batches' = Tail(batches) /\ ResumeBare(First(r), m)
           ELSE UNCHANGED <<batches, op, got, crashed>>
        /\ UNCHANGED <<queue, early_, broadcasts>>

\* The first handler of the command gets the message, also if it is consumed.
ToHandler(m) ==
    /\ m.cmd \in Queued /\ queue[m.cmd] # <<>>
    /\ queue' = [queue EXCEPT ![m.cmd] = Tail(@)]
    /\ Resume(Head(queue[m.cmd]), "resumed", m)
    /\ UNCHANGED <<early_, broadcasts, collectors>>

\* FIX #1521: an expected response is kept until its handler registers.
ToEarly(m) ==
    /\ m.cmd \in expected /\ queue[m.cmd] = <<>>
    /\ early' = [early EXCEPT ![m.cmd] = Append(@, m)]
    /\ UNCHANGED <<op, got, queue, expected, broadcasts, collectors, crashed>>

\* Mutant: an unmatched reject goes to any broadcast, as before FIX #1360.
MutToBroadcastAny(m) ==
    /\ m.cmd = "reject"
    /\ \E r \in broadcasts :
        /\ broadcasts' = broadcasts \ {r}
        /\ ResumeBare(First(r), m)
    /\ UNCHANGED <<queue, early_, collectors>>

\* FIX #1360: a reject goes to the broadcast of its transaction or to nobody.
ToBroadcast(m) ==
    /\ m.cmd = "reject" /\ m.to \in broadcasts
    /\ broadcasts' = broadcasts \ {m.to}
    /\ ResumeBare(First(m.to), m)
    /\ UNCHANGED <<queue, early_, collectors>>

Taken(m) ==
    \/ m.cmd = "block" /\ batches # <<>>
    \/ m.cmd \in Queued /\ queue[m.cmd] # <<>>
    \/ m.cmd \in expected
    \/ m.cmd = "reject" /\ m.to \in broadcasts

\* Nobody waits for it: handleBackgroundMessage goes on with the message.
ToListener(m) ==
    /\ ~Taken(m)
    /\ UNCHANGED <<op, got, queue, early_, broadcasts, collectors, crashed>>

Dispatch(m) ==
    /\ ToCollector(m) \/ ToHandler(m) \/ ToEarly(m) \/ ToBroadcast(m) \/ ToListener(m)
    /\ UNCHANGED calls

-----------------------------------------------------------------------------
(* The peer and the connection.                                                *)

\* What the peer may answer; it may also stay silent.
Answers(k) ==
    CASE k = "headers" -> {"headers"}
      [] k = "ping" -> {"pong"}
      [] k = "mempool" -> {"inv"}
      [] k = "getdata" -> {"tx", "notfound"}
      [] k = "addr" -> AddrCommands
      [] k = "broadcast" -> {"reject"}
      [] OTHER -> {"block"}

\* A request for blocks is answered by one message for each block.
Answer ==
    LET r == Head(asked)
    IN  /\ asked # <<>>
        /\ \E c \in Answers(kind[r]) : Dispatch([cmd |-> c, to |-> r])
        /\ IF kind[r] = "batch" /\ sent + 1 < BatchSize
           THEN sent' = sent + 1 /\ UNCHANGED asked
           ELSE sent' = 0 /\ asked' = Tail(asked)
        /\ UNCHANGED upsets

\* Nothing more comes for this request.
Ignore ==
    /\ asked # <<>>
    /\ asked' = Tail(asked) /\ sent' = 0
    /\ UNCHANGED <<calls, op, got, queue, early_, broadcasts, collectors, crashed, upsets>>

\* Announcements, answers to the listener's own getdata, shared addresses.
Unsolicited(c) ==
    /\ upsets < MaxUpsets
    /\ upsets' = upsets + 1
    /\ Dispatch([cmd |-> c, to |-> NoRequest])
    /\ UNCHANGED remote

\* disconnect() and the connection after it: what was on its way is lost.  The
\* handlers stay, because cancelAll(error:) has no caller.
Drop ==
    /\ upsets < MaxUpsets
    /\ upsets' = upsets + 1
    /\ asked' = <<>> /\ sent' = 0
    /\ UNCHANGED <<calls, op, got, queue, early_, broadcasts, collectors, crashed>>

Peer ==
    \/ Answer \/ Ignore \/ Drop
    \/ \E c \in {"inv", "tx", "headers", "addr"} : Unsolicited(c)

\* What the runtime will run in the end: operations, timers, resumed callers.
Step(r) ==
    \/ \E h \in Wait : h[1] = r /\ (TakeEarly(h) \/ Register(h))
    \/ Answered(r) \/ Timeout(r) \/ Cancelled(r) \/ BatchTimeout(r)
    \/ BroadcastTimeout(r) \/ SignalTimeout(r) \/ Clean(r)

Next ==
    /\ ~crashed
    /\ \/ \E r \in Request : Step(r) \/ \E k \in Kinds : Send(r, k) \/ SendFails(r, k)
       \/ Peer

Spec == Init /\ [][Next]_vars

\* Tasks are run and timers fire; nothing is asked of the peer or the listener.
FairSpec == Spec /\ \A r \in Request : WF_vars(~crashed /\ Step(r))

-----------------------------------------------------------------------------
(* Properties.                                                                 *)

\* An operation that waits can be reached: its handler is in the queue of every
\* command it waits for, in broadcastHandlers or among the batch collectors.
\* Who takes a handler out must resume it (FIX #1519), or its task leaks.
WaiterIsReachable ==
    \A h \in Wait : op[h] = "waiting" =>
        /\ \A c \in Wanted(h) : \E i \in 1..Len(queue[c]) : queue[c][i] = h
        /\ kind[h[1]] = "broadcast" => h[1] \in broadcasts
        /\ kind[h[1]] = "batch" => \E i \in 1..Len(batches) : batches[i] = h[1]

\* A continuation that is resumed twice ends the process.  With the wrapper of
\* FIX #1528 that cannot come from a handler registered for two commands, nor from
\* the timer of a batch.  One race is left: a broadcast's own timer has found its
\* handler, from outside of the actor, and signals after dispatch() has resumed it
\* with the reject of that broadcast.
OnlySignalCrashes ==
    [][crashed' /\ ~crashed =>
          \E r \in Request :
            /\ caller[r] = "signalling" /\ caller'[r] = "gaveUp"
            /\ r \notin broadcasts
            /\ got[First(r)] = [cmd |-> "reject", to |-> r]]_vars

\* FIX #1360: a broadcast is never told of the reject of another transaction.
RejectIsOwn ==
    \A r \in Request : kind[r] = "broadcast" /\ got[First(r)] # NoMsg => got[First(r)].to = r

\* FIX #1521: while a single getAddresses() uses the peer, what it waits for is
\* taken, also before its handler registers, so that addresses are not lost.
StillToTake(r) == IF stage[r] = 1 THEN AddrCommands ELSE {"addrv2"}
SoleAddr(r) == kind[r] = "addr" /\ \A q \in Request \ {r} : kind[q] # "addr"
AddrIsNotLost ==
    \A r \in Request :
        SoleAddr(r) /\ caller[r] = "waiting" /\ op[Current(r)] \in {"spawned", "waiting"}
        => \A c \in StillToTake(r) : Taken([cmd |-> c, to |-> r])

\* Every call returns: it is answered, or a timer ends it.
CallsEnd == \A r \in Request : caller[r] = "waiting" ~> Ended(r) \/ crashed

\* sendPing() succeeds when "Peer responded with valid pong": a ping that waits
\* when its own pong is dispatched is resumed with it, if the other pings have
\* ended and the peer owes no other answer.
OnlyPing(r) == kind[r] = "ping" /\ \A q \in Request \ {r} : kind[q] = "ping" => Ended(q)
PingIsAnswered ==
    [][\A r \in Request :
        /\ Answer /\ asked = <<r>>
        /\ OnlyPing(r) /\ caller[r] = "waiting" /\ op[First(r)] = "waiting"
        => op'[First(r)] = "resumed"]_vars
=============================================================================
