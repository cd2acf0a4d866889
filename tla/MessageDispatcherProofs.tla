----------------------- MODULE MessageDispatcherProofs -----------------------
(* Proofs about MessageDispatcher.  The invariant ties the three registries of *)
(* the dispatcher to the operations: what is registered is registered under    *)
(* the commands of its own call, a collector belongs to an operation that      *)
(* still waits, and nothing was given to an operation that has not registered. *)
EXTENDS MessageDispatcher, SequenceTheorems, TLAPS

\* A request that has not begun has no operation; only getAddresses() has two.
Unstarted ==
    \A h \in Wait :
        /\ caller[h[1]] \in {"new", "failed"}
           => kind[h[1]] = "none" /\ stage[h[1]] = 1 /\ op[h] = "none"
        /\ op[h] # "none" /\ h[2] = 2 => stage[h[1]] = 2 /\ kind[h[1]] = "addr"

SignalsAreBroadcasts == \A r \in Request : caller[r] = "signalling" => kind[r] = "broadcast"

NothingGiven ==
    \A h \in Wait : op[h] \in {"none", "spawned"}
        => got[h] = NoMsg /\ (h[2] = 1 => collected[h[1]] = 0)

QueuedAsAwaited ==
    \A c \in Queued : \A i \in 1..Len(queue[c]) : c \in Wanted(queue[c][i])

BatchesWait ==
    \A i \in 1..Len(batches) :
        /\ kind[batches[i]] = "batch"
        /\ op[First(batches[i])] = "waiting"
        /\ collected[batches[i]] < BatchSize
        /\ \A j \in 1..Len(batches) : batches[i] = batches[j] => i = j

BroadcastsRegistered == \A r \in broadcasts : kind[r] = "broadcast"

AddrExpected ==
    \A r \in Request : SoleAddr(r) /\ caller[r] = "waiting" =>
        /\ stage[r] = 1 => "addrv2" \in expected
        /\ stage[r] = 1 /\ op[<<r, 1>>] \in {"spawned", "waiting"} => "addr" \in expected
        /\ stage[r] = 2 /\ op[<<r, 2>>] \in {"spawned", "waiting"} => "addrv2" \in expected

IInv ==
    /\ TypeOK /\ Unstarted /\ SignalsAreBroadcasts /\ NothingGiven /\ QueuedAsAwaited
    /\ BatchesWait /\ BroadcastsRegistered /\ AddrExpected
    /\ WaiterIsReachable /\ RejectIsOwn

-----------------------------------------------------------------------------
(* Facts about the definitions.                                               *)

\* A wait is registered under commands that have a queue.
LEMMA AwaitsFacts ==
    /\ \A k, s : Awaits(k, s) \subseteq Queued
    /\ \A s : Awaits("none", s) = {} /\ Awaits("broadcast", s) = {} /\ Awaits("batch", s) = {}
    /\ Awaits("addr", 1) = {"addr"} /\ Awaits("addr", 2) = {"addrv2"}
BY DEF Awaits, Queued

\* The two waits that a request can have.
LEMMA Waits == \A r \in Request : <<r, 1>> \in Wait /\ <<r, 2>> \in Wait
BY DEF Wait

\* Only getAddresses() has a second wait.
LEMMA OneWait ==
    ASSUME Unstarted, NEW h \in Wait, op[h] # "none", kind[h[1]] # "addr"
    PROVE  h = <<h[1], 1>>
BY DEF Unstarted, Wait

\* What is in the registries are waits and requests.
LEMMA Registered ==
    ASSUME TypeOK
    PROVE  /\ \A c \in Queued : queue[c] \in Seq(Wait) /\ Len(queue[c]) \in Nat
           /\ \A c \in Queued : \A i \in 1..Len(queue[c]) : queue[c][i] \in Wait
           /\ batches \in Seq(Request) /\ Len(batches) \in Nat
           /\ \A i \in 1..Len(batches) : batches[i] \in Request
           /\ broadcasts \subseteq Request
BY DEF TypeOK

\* ResumeBare() resumes an operation that waits, and is fatal to another.
LEMMA ResumeBareFacts ==
    ASSUME TypeOK, NEW h \in Wait, NEW m \in Msg \cup {NoMsg}, ResumeBare(h, m)
    PROVE  /\ op' \in [Wait -> {"none", "spawned", "waiting", "resumed", "cancelled"}]
           /\ got' \in [Wait -> Msg \cup {NoMsg}]
           /\ crashed' \in BOOLEAN
           /\ \A g \in Wait : g # h => op'[g] = op[g] /\ got'[g] = got[g]
           /\ op[h] = "waiting" => op'[h] = "resumed" /\ got'[h] = m /\ crashed' = crashed
           /\ op[h] # "waiting" => op' = op /\ got' = got
<1>1. CASE op[h] = "waiting"
    <2>1. op' = [op EXCEPT ![h] = "resumed"] /\ got' = [got EXCEPT ![h] = m] /\ crashed' = crashed
        BY <1>1 DEF ResumeBare
    <2>2. /\ op' \in [Wait -> {"none", "spawned", "waiting", "resumed", "cancelled"}]
          /\ op'[h] = "resumed" /\ \A g \in Wait : g # h => op'[g] = op[g]
        BY <2>1 DEF TypeOK
    <2>3. /\ got' \in [Wait -> Msg \cup {NoMsg}]
          /\ got'[h] = m /\ \A g \in Wait : g # h => got'[g] = got[g]
        BY <2>1 DEF TypeOK
    <2>. QED  BY <1>1, <2>1, <2>2, <2>3 DEF TypeOK
<1>2. CASE op[h] # "waiting"
    BY <1>2 DEF ResumeBare, TypeOK
<1>. QED  BY <1>1, <1>2

\* The tail of a queue has what the queue had after its head.
LEMMA TailFacts ==
    ASSUME NEW S, NEW q \in Seq(S), q # <<>>
    PROVE  /\ Tail(q) \in Seq(S)
           /\ \A i \in 1..Len(Tail(q)) : i + 1 \in 1..Len(q) /\ Tail(q)[i] = q[i + 1]
           /\ \A i \in 1..Len(q) : q[i] # Head(q) =>
                  \E j \in 1..Len(Tail(q)) : Tail(q)[j] = q[i]
<1>1. /\ Len(q) \in Nat /\ Len(Tail(q)) = Len(q) - 1 /\ Tail(q) \in Seq(S)
      /\ \A i \in 1..Len(Tail(q)) : Tail(q)[i] = q[i + 1]
      /\ Head(q) = q[1]
    BY HeadTailProperties
<1>2. ASSUME NEW i \in 1..Len(q), q[i] # Head(q)
      PROVE  \E j \in 1..Len(Tail(q)) : Tail(q)[j] = q[i]
    <2>1. i - 1 \in 1..Len(Tail(q)) /\ (i - 1) + 1 = i
        BY <1>1, <1>2
    <2>. QED  BY <1>1, <2>1
<1>3. \A i \in 1..Len(Tail(q)) : i + 1 \in 1..Len(q)
    BY <1>1
<1>. QED  BY <1>1, <1>2, <1>3

\* Taking the heads of some queues leaves the other handlers where they can be found.
LEMMA HeadsTaken ==
    ASSUME TypeOK, NEW cmds \in SUBSET Queued, \A c \in cmds : queue[c] # <<>>,
           queue' = [c \in Queued |-> IF c \in cmds THEN Tail(queue[c]) ELSE queue[c]]
    PROVE  /\ queue' \in [Queued -> Seq(Wait)]
           /\ \A c \in Queued : \A i \in 1..Len(queue'[c]) :
                  \E j \in 1..Len(queue[c]) : queue'[c][i] = queue[c][j]
           /\ \A c \in Queued : \A i \in 1..Len(queue[c]) :
                  (c \in cmds => queue[c][i] # Head(queue[c])) =>
                      \E j \in 1..Len(queue'[c]) : queue'[c][j] = queue[c][i]
<1>1. \A c \in Queued : queue[c] \in Seq(Wait)
    BY DEF TypeOK
<1>2. \A c \in cmds : queue'[c] = Tail(queue[c]) /\ queue'[c] \in Seq(Wait)
    BY <1>1, TailFacts
<1>3. \A c \in Queued \ cmds : queue'[c] = queue[c]
    OBVIOUS
<1>4. \A c \in Queued : queue'[c] \in Seq(Wait)
    BY <1>1, <1>2, <1>3
<1>5. queue' \in [Queued -> Seq(Wait)]
    BY <1>4
<1>6. ASSUME NEW c \in Queued
      PROVE  /\ \A i \in 1..Len(queue'[c]) : \E j \in 1..Len(queue[c]) : queue'[c][i] = queue[c][j]
             /\ \A i \in 1..Len(queue[c]) : (c \in cmds => queue[c][i] # Head(queue[c])) =>
                    \E j \in 1..Len(queue'[c]) : queue'[c][j] = queue[c][i]
    <2>1. CASE c \in cmds
        BY <1>1, <1>2, <2>1, TailFacts
    <2>2. CASE c \notin cmds
        BY <1>3, <2>2
    <2>. QED  BY <2>1, <2>2
<1>. QED  BY <1>5, <1>6

\* The first handler of a command waits for it, and so is no broadcast and no batch.
LEMMA HeadFacts ==
    ASSUME TypeOK, QueuedAsAwaited, NEW c \in Queued, queue[c] # <<>>
    PROVE  /\ Head(queue[c]) \in Wait /\ c \in Wanted(Head(queue[c]))
           /\ kind[Head(queue[c])[1]] \notin {"broadcast", "batch"}
<1>1. queue[c] \in Seq(Wait) /\ Len(queue[c]) \in Nat /\ Head(queue[c]) = queue[c][1]
    BY Registered, HeadTailProperties
<1>2. 1 \in 1..Len(queue[c])
    BY <1>1, EmptySeq
<1>3. queue[c][1] \in Wait /\ c \in Wanted(queue[c][1])
    BY <1>2, Registered DEF QueuedAsAwaited
<1>. QED  BY <1>1, <1>3, AwaitsFacts DEF Wanted

\* Taking out one collector leaves the others.
LEMMA CollectorTaken ==
    ASSUME TypeOK, BatchesWait, NEW i \in 1..Len(batches), batches' = WithoutBatch(i)
    PROVE  /\ batches' \in Seq(Request) /\ Len(batches') \in Nat
           /\ \A j \in 1..Len(batches') : batches'[j] # batches[i]
           /\ \A j \in 1..Len(batches') : \E k \in 1..Len(batches) : batches'[j] = batches[k]
           /\ \A j, k \in 1..Len(batches') : batches'[j] = batches'[k] => j = k
           /\ \A k \in 1..Len(batches) : k # i => \E j \in 1..Len(batches') : batches'[j] = batches[k]
<1>. DEFINE at(j) == IF j < i THEN j ELSE j + 1
<1>1. Len(batches) \in Nat /\ \A j \in 1..Len(batches) : batches[j] \in Request
    BY DEF TypeOK
<1>2. \A j \in 1..Len(batches) - 1 : at(j) \in 1..Len(batches) /\ at(j) # i
    BY <1>1
<1>3. batches' = [j \in 1..Len(batches) - 1 |-> batches[at(j)]]
    BY DEF WithoutBatch
<1>4. \A j \in 1..Len(batches) - 1 : batches[at(j)] \in Request
    BY <1>1, <1>2
<1>5. Len(batches) - 1 \in Nat
    BY <1>1
<1>6. batches' \in Seq(Request) /\ Len(batches') = Len(batches) - 1
    BY <1>3, <1>4, <1>5
<1>7. \A j \in 1..Len(batches') : batches'[j] = batches[at(j)]
    BY <1>3, <1>6
<1>8. \A j \in 1..Len(batches') : batches'[j] # batches[i]
    BY <1>2, <1>6, <1>7 DEF BatchesWait
<1>9. \A j, k \in 1..Len(batches') : batches'[j] = batches'[k] => j = k
    <2>1. \A j, k \in 1..Len(batches') : batches'[j] = batches'[k] => at(j) = at(k)
        BY <1>2, <1>6, <1>7 DEF BatchesWait
    <2>2. \A j, k \in 1..Len(batches') : at(j) = at(k) => j = k
        BY <1>1, <1>6
    <2>. QED  BY <2>1, <2>2
<1>10. ASSUME NEW k \in 1..Len(batches), k # i
       PROVE  \E j \in 1..Len(batches') : batches'[j] = batches[k]
    <2>1. CASE k < i
        <3>1. k \in 1..Len(batches') /\ at(k) = k
            BY <1>1, <1>6, <2>1
        <3>. QED  BY <1>7, <3>1
    <2>2. CASE k > i
        <3>1. k - 1 \in 1..Len(batches') /\ at(k - 1) = k
            BY <1>1, <1>6, <2>2
        <3>. QED  BY <1>7, <3>1
    <2>. QED  BY <1>1, <1>10, <2>1, <2>2
<1>11. \A j \in 1..Len(batches') : \E k \in 1..Len(batches) : batches'[j] = batches[k]
    BY <1>2, <1>6, <1>7
<1>12. Len(batches') \in Nat
    BY <1>5, <1>6
<1>. HIDE DEF at
<1>. QED  BY <1>6, <1>8, <1>9, <1>10, <1>11, <1>12

-----------------------------------------------------------------------------
(* Each action preserves the invariant.                                       *)

\* A request that begins has nothing in the registries yet.
LEMMA SendPreserves ==
    ASSUME IInv, NEW r \in Request, NEW k \in Kinds, Send(r, k)
    PROVE  IInv'
<1>1. UNCHANGED <<stage, got, queue, early, broadcasts, batches, collected, crashed, sent,
       upsets>>
    BY DEF Send, Expect, calls, early_, collectors, remote
<1>2. /\ kind[r] = "none" /\ caller[r] = "new" /\ stage[r] = 1
      /\ op[<<r, 1>>] = "none" /\ op[<<r, 2>>] = "none"
    BY DEF Send, IInv, Unstarted, Wait
<1>3. /\ \A q \in Request : kind'[q] = IF q = r THEN k ELSE kind[q]
      /\ \A q \in Request : caller'[q] = IF q = r THEN "waiting" ELSE caller[q]
    BY DEF Send, IInv, TypeOK
<1>4. \A g \in Wait : op'[g] = IF g = <<r, 1>> THEN "spawned" ELSE op[g]
    BY DEF Send, IInv, TypeOK, First
<1>5. expected' = IF k = "addr" THEN AddrCommands ELSE expected
    BY DEF Send, Expect
<1>6. \A h \in Wait : h[1] # r => kind'[h[1]] = kind[h[1]]
    BY <1>3 DEF Wait
<1>7. TypeOK'
    <2>1. kind' \in [Request -> Kinds \cup {"none"}]
        BY DEF Send, IInv, TypeOK
    <2>2. caller' \in [Request -> {"new", "waiting", "cleaning", "sweeping", "signalling",
                               "answered", "gaveUp", "failed"}]
        BY DEF Send, IInv, TypeOK
    <2>3. op' \in [Wait -> {"none", "spawned", "waiting", "resumed", "cancelled"}]
        BY DEF Send, IInv, TypeOK
    <2>4. asked' \in Seq(Request)
        BY DEF Send, IInv, TypeOK
    <2>5. expected' \subseteq AddrCommands
        BY <1>5 DEF IInv, TypeOK
    <2>. QED  BY <1>1, <2>1, <2>2, <2>3, <2>4, <2>5 DEF IInv, TypeOK
<1>8. Unstarted'
    BY <1>1, <1>2, <1>3, <1>4, <1>5, <1>6 DEF IInv, Unstarted, Wait
<1>9. SignalsAreBroadcasts'
    BY <1>1, <1>2, <1>3, <1>4, <1>5, <1>6 DEF IInv, SignalsAreBroadcasts, Wait
<1>10. NothingGiven'
    BY <1>1, <1>2, <1>3, <1>4, <1>5, <1>6 DEF IInv, NothingGiven, Wait
<1>11. QueuedAsAwaited'
    BY <1>1, <1>2, <1>3, <1>4, <1>5, <1>6, Registered, AwaitsFacts DEF IInv, QueuedAsAwaited,
           Wanted, Wait
<1>12. BatchesWait'
    BY <1>1, <1>2, <1>3, <1>4, <1>5, <1>6, Registered DEF IInv, BatchesWait, First, Wait
<1>13. BroadcastsRegistered'
    BY <1>1, <1>2, <1>3, <1>4, <1>5, <1>6, Registered DEF IInv, BroadcastsRegistered, Wait
<1>14. AddrExpected'
    BY <1>1, <1>2, <1>3, <1>4, <1>5, <1>6 DEF IInv, AddrExpected, SoleAddr, AddrCommands, Wait
<1>15. WaiterIsReachable'
    BY <1>1, <1>2, <1>3, <1>4, <1>5, <1>6, AwaitsFacts DEF IInv, WaiterIsReachable, Wanted,
           Wait
<1>16. RejectIsOwn'
    BY <1>1, <1>2, <1>3, <1>4, <1>5, <1>6 DEF IInv, RejectIsOwn, First, NothingGiven, Wait
<1>. QED  BY <1>7, <1>8, <1>9, <1>10, <1>11, <1>12, <1>13, <1>14, <1>15, <1>16 DEF IInv

\* A request that cannot be sent leaves the expected commands larger.
LEMMA SendFailsPreserves ==
    ASSUME IInv, NEW r \in Request, NEW k \in Kinds, SendFails(r, k)
    PROVE  IInv'
<1>1. UNCHANGED <<kind, stage, op, got, queue, early, broadcasts, batches, collected, crashed,
       asked, sent, upsets>>
    BY DEF SendFails, Expect, calls, early_, collectors, remote
<1>2. \A q \in Request : caller'[q] = IF q = r THEN "failed" ELSE caller[q]
    BY DEF SendFails, IInv, TypeOK
<1>3. expected \subseteq expected' /\ caller[r] = "new"
    BY DEF SendFails, Expect, IInv, TypeOK
<1>4. TypeOK'
    <2>1. caller' \in [Request -> {"new", "waiting", "cleaning", "sweeping", "signalling",
                               "answered", "gaveUp", "failed"}]
        BY DEF SendFails, IInv, TypeOK
    <2>2. expected' \subseteq AddrCommands
        BY DEF SendFails, Expect, IInv, TypeOK
    <2>. QED  BY <1>1, <2>1, <2>2 DEF IInv, TypeOK
<1>5. Unstarted'
    BY <1>1, <1>2, <1>3 DEF IInv, Unstarted, Wait
<1>6. SignalsAreBroadcasts'
    BY <1>1, <1>2, <1>3 DEF IInv, SignalsAreBroadcasts, Wait
<1>7. NothingGiven'
    BY <1>1 DEF IInv, NothingGiven
<1>8. QueuedAsAwaited'
    BY <1>1 DEF IInv, QueuedAsAwaited, Wanted
<1>9. BatchesWait'
    BY <1>1 DEF IInv, BatchesWait, First
<1>10. BroadcastsRegistered'
    BY <1>1 DEF IInv, BroadcastsRegistered
<1>11. AddrExpected'
    BY <1>1, <1>2, <1>3 DEF IInv, AddrExpected, SoleAddr, Wait
<1>12. WaiterIsReachable'
    BY <1>1 DEF IInv, WaiterIsReachable, Wanted
<1>13. RejectIsOwn'
    BY <1>1 DEF IInv, RejectIsOwn, First
<1>. QED  BY <1>4, <1>5, <1>6, <1>7, <1>8, <1>9, <1>10, <1>11, <1>12, <1>13 DEF IInv

\* An early response ends the wait for its command, and no other.
LEMMA TakeEarlyPreserves ==
    ASSUME IInv, NEW h \in Wait, TakeEarly(h)
    PROVE  IInv'
<1>1. UNCHANGED <<kind, caller, stage, queue, broadcasts, batches, collected, crashed, asked,
       sent, upsets>>
    BY DEF TakeEarly, calls, early_, collectors, remote
<1>2. /\ op[h] = "spawned" /\ kind[h[1]] = "addr" /\ h[1] \in Request
      /\ h[2] = 2 => stage[h[1]] = 2
    BY DEF TakeEarly, Wait, IInv, Unstarted
<1>3. PICK c \in AddrCommands :
        /\ c \in Wanted(h) /\ early[c] # <<>>
        /\ op' = [op EXCEPT ![h] = "resumed"]
        /\ got' = [got EXCEPT ![h] = Head(early[c])]
        /\ early' = [early EXCEPT ![c] = Tail(@)]
        /\ expected' = IF Len(early[c]) = 1 THEN expected \ {c} ELSE expected
    BY <1>2, AwaitsFacts DEF TakeEarly, Wanted, AddrCommands, Wait
<1>4. early[c] \in Seq(Msg) /\ Head(early[c]) \in Msg /\ Tail(early[c]) \in Seq(Msg)
    BY <1>3 DEF IInv, TypeOK
<1>5. /\ \A g \in Wait : op'[g] = IF g = h THEN "resumed" ELSE op[g]
      /\ \A g \in Wait : g # h => got'[g] = got[g]
    BY <1>3 DEF IInv, TypeOK
<1>6. /\ h[2] = 1 => c = "addr"
      /\ expected \ {c} \subseteq expected'
    BY <1>2, <1>3, AwaitsFacts DEF Wanted
<1>7. TypeOK'
    <2>1. op' \in [Wait -> {"none", "spawned", "waiting", "resumed", "cancelled"}]
        BY <1>3 DEF IInv, TypeOK
    <2>2. got' \in [Wait -> Msg \cup {NoMsg}]
        BY <1>3, <1>4 DEF IInv, TypeOK
    <2>3. early' \in [AddrCommands -> Seq(Msg)]
        BY <1>3, <1>4 DEF IInv, TypeOK
    <2>4. expected' \subseteq AddrCommands
        BY <1>3 DEF IInv, TypeOK
    <2>. QED  BY <1>1, <2>1, <2>2, <2>3, <2>4 DEF IInv, TypeOK
<1>8. Unstarted'
    BY <1>1, <1>2, <1>3, <1>4, <1>5, <1>6 DEF IInv, Unstarted, Wait
<1>9. SignalsAreBroadcasts'
    BY <1>1 DEF IInv, SignalsAreBroadcasts
<1>10. NothingGiven'
    BY <1>1, <1>2, <1>3, <1>4, <1>5, <1>6 DEF IInv, NothingGiven, Wait
<1>11. QueuedAsAwaited'
    BY <1>1 DEF IInv, QueuedAsAwaited, Wanted
<1>12. BatchesWait'
    BY <1>1, <1>2, <1>3, <1>4, <1>5, <1>6, Registered DEF IInv, BatchesWait, First, Wait
<1>13. BroadcastsRegistered'
    BY <1>1 DEF IInv, BroadcastsRegistered
<1>14. AddrExpected'
    BY <1>1, <1>2, <1>3, <1>4, <1>5, <1>6 DEF IInv, AddrExpected, SoleAddr, Wait
<1>15. WaiterIsReachable'
    BY <1>1, <1>2, <1>3, <1>4, <1>5, <1>6, AwaitsFacts DEF IInv, WaiterIsReachable, Wanted,
           Wait
<1>16. RejectIsOwn'
    BY <1>1, <1>2, <1>3, <1>4, <1>5, <1>6 DEF IInv, RejectIsOwn, First, Wait
<1>. QED  BY <1>7, <1>8, <1>9, <1>10, <1>11, <1>12, <1>13, <1>14, <1>15, <1>16 DEF IInv

\* A handler that registers can be found where its operation waits.
LEMMA RegisterPreserves ==
    ASSUME IInv, NEW h \in Wait, Register(h)
    PROVE  IInv'
<1>1. UNCHANGED <<kind, caller, stage, got, expected, early, collected, crashed, asked, sent,
       upsets>>
    BY DEF Register, calls, early_, collectors, remote
<1>2. /\ op[h] = "spawned" /\ h[1] \in Request
      /\ h[2] = 2 => stage[h[1]] = 2 /\ kind[h[1]] = "addr"
    BY DEF Register, Wait, IInv, Unstarted
<1>3. \A g \in Wait : op'[g] = IF g = h THEN "waiting" ELSE op[g]
    BY DEF Register, IInv, TypeOK
<1>4. \A c \in Queued : queue'[c] = IF c \in Wanted(h) THEN Append(queue[c], h) ELSE queue[c]
    BY DEF Register
<1>5. \A c \in Queued :
        /\ queue[c] \in Seq(Wait)
        /\ c \in Wanted(h) =>
              /\ queue'[c] \in Seq(Wait) /\ Len(queue'[c]) = Len(queue[c]) + 1
              /\ queue'[c][Len(queue[c]) + 1] = h
              /\ \A i \in 1..Len(queue[c]) : queue'[c][i] = queue[c][i]
        /\ c \notin Wanted(h) => queue'[c] = queue[c]
    <2>. TAKE c \in Queued
    <2>1. queue[c] \in Seq(Wait)
        BY Registered DEF IInv
    <2>2. ASSUME c \in Wanted(h)
          PROVE  /\ queue'[c] \in Seq(Wait) /\ Len(queue'[c]) = Len(queue[c]) + 1
                 /\ queue'[c][Len(queue[c]) + 1] = h
                 /\ \A i \in 1..Len(queue[c]) : queue'[c][i] = queue[c][i]
        <3>1. queue'[c] = Append(queue[c], h)
            BY <1>4, <2>2
        <3>. QED  BY <2>1, <3>1, AppendProperties
    <2>3. c \notin Wanted(h) => queue'[c] = queue[c]
        BY <1>4
    <2>. QED  BY <2>1, <2>2, <2>3
<1>6. /\ kind[h[1]] = "broadcast" => broadcasts' = broadcasts \cup {h[1]}
      /\ kind[h[1]] # "broadcast" => broadcasts' = broadcasts
    BY DEF Register
<1>7. kind[h[1]] = "batch" =>
        /\ batches' \in Seq(Request) /\ Len(batches') = Len(batches) + 1
        /\ batches'[Len(batches) + 1] = h[1] /\ h = <<h[1], 1>>
        /\ \A i \in 1..Len(batches) : batches'[i] = batches[i]
    BY <1>2, Registered, AppendProperties DEF Register, IInv, Wait
<1>8. kind[h[1]] # "batch" => batches' = batches
    BY DEF Register
<1>9. TypeOK'
    <2>1. op' \in [Wait -> {"none", "spawned", "waiting", "resumed", "cancelled"}]
        BY DEF Register, IInv, TypeOK
    <2>2. queue' \in [Queued -> Seq(Wait)]
        BY <1>4, <1>5 DEF Register, IInv, TypeOK
    <2>3. broadcasts' \subseteq Request
        BY <1>2, <1>6 DEF IInv, TypeOK
    <2>4. batches' \in Seq(Request)
        BY <1>7, <1>8 DEF IInv, TypeOK
    <2>. QED  BY <1>1, <2>1, <2>2, <2>3, <2>4 DEF IInv, TypeOK
<1>10. Unstarted'
    BY <1>1, <1>2, <1>3, <1>4, <1>5, <1>6, <1>7, <1>8 DEF IInv, Unstarted, Wait
<1>11. SignalsAreBroadcasts'
    BY <1>1 DEF IInv, SignalsAreBroadcasts
<1>12. NothingGiven'
    BY <1>1, <1>2, <1>3, <1>4, <1>5, <1>6, <1>7, <1>8 DEF IInv, NothingGiven, Wait
<1>13. QueuedAsAwaited'
    <2>1. ASSUME NEW c \in Queued, NEW i \in 1..Len(queue'[c])
          PROVE  c \in Wanted(queue'[c][i])
        <3>1. queue[c] \in Seq(Wait) /\ Len(queue[c]) \in Nat
            BY <1>5
        <3>2. CASE i \in 1..Len(queue[c])
            <4>1. queue'[c][i] = queue[c][i]
                BY <1>5, <3>2
            <4>. QED  BY <3>2, <4>1 DEF IInv, QueuedAsAwaited
        <3>3. CASE i \notin 1..Len(queue[c])
            <4>1. c \in Wanted(h) /\ i = Len(queue[c]) + 1
                BY <1>5, <2>1, <3>1, <3>3
            <4>. QED  BY <1>5, <4>1
        <3>. QED  BY <3>2, <3>3
    <2>. QED  BY <1>1, <2>1 DEF QueuedAsAwaited, Wanted
<1>14. BatchesWait'
    <2>1. CASE kind[h[1]] # "batch"
        BY <1>1, <1>2, <1>3, <1>8, <2>1, Registered DEF IInv, BatchesWait, First, Wait
    <2>2. CASE kind[h[1]] = "batch"
        <3>1. collected[h[1]] = 0 /\ 0 < BatchSize /\ h = <<h[1], 1>>
            BY <1>2, <1>7, <2>2, BatchAssumption DEF IInv, NothingGiven
        <3>2. \A i \in 1..Len(batches) : batches[i] \in Request /\ batches[i] # h[1]
            BY <1>2, <3>1, Registered DEF IInv, BatchesWait, First
        <3>3. op'[<<h[1], 1>>] = "waiting" /\ \A q \in Request : q # h[1] => op'[<<q, 1>>] = op[<<q, 1>>]
            BY <1>3, <3>1 DEF Wait
        <3>4. Len(batches) \in Nat /\ \A i \in 1..Len(batches)' :
                  \/ i \in 1..Len(batches) /\ batches'[i] = batches[i]
                  \/ i = Len(batches) + 1 /\ batches'[i] = h[1]
            <4>1. Len(batches) \in Nat /\ Len(batches)' = Len(batches) + 1
                BY <1>7, <2>2, Registered DEF IInv
            <4>2. \A i \in 1..Len(batches)' : i \in 1..Len(batches) \/ i = Len(batches) + 1
                BY <4>1
            <4>. QED  BY <1>7, <2>2, <4>1, <4>2
        <3>5. \A i \in 1..Len(batches)' : kind'[batches'[i]] = "batch" /\ collected'[batches'[i]] < BatchSize
            BY <1>1, <2>2, <3>1, <3>4 DEF IInv, BatchesWait
        <3>6. \A i \in 1..Len(batches)' : op'[<<batches'[i], 1>>] = "waiting"
            BY <3>2, <3>3, <3>4 DEF IInv, BatchesWait, First
        <3>7. \A i, j \in 1..Len(batches)' : batches'[i] = batches'[j] => i = j
            BY <3>2, <3>4 DEF IInv, BatchesWait
        <3>. QED  BY <3>5, <3>6, <3>7 DEF BatchesWait, First
    <2>. QED  BY <2>1, <2>2
<1>15. BroadcastsRegistered'
    BY <1>1, <1>2, <1>3, <1>4, <1>5, <1>6, <1>7, <1>8, Registered DEF IInv,
           BroadcastsRegistered, Wait
<1>16. AddrExpected'
    BY <1>1, <1>2, <1>3, <1>4, <1>5, <1>6, <1>7, <1>8 DEF IInv, AddrExpected, SoleAddr, Wait
<1>17. WaiterIsReachable'
    <2>1. ASSUME NEW g \in Wait, op'[g] = "waiting", NEW c \in Wanted(g)
          PROVE  \E i \in 1..Len(queue'[c]) : queue'[c][i] = g
        <3>1. c \in Queued /\ queue[c] \in Seq(Wait) /\ Len(queue[c]) \in Nat
            BY <1>5, AwaitsFacts DEF Wanted
        <3>2. CASE g = h
            <4>1. Len(queue[c]) + 1 \in 1..Len(queue'[c]) /\ queue'[c][Len(queue[c]) + 1] = g
                BY <1>5, <3>1, <3>2
            <4>. QED  BY <4>1
        <3>3. CASE g # h
            <4>1. PICK i \in 1..Len(queue[c]) : queue[c][i] = g
                BY <1>3, <2>1, <3>3 DEF IInv, WaiterIsReachable
            <4>2. i \in 1..Len(queue'[c]) /\ queue'[c][i] = g
                BY <1>5, <3>1, <4>1
            <4>. QED  BY <4>2
        <3>. QED  BY <3>2, <3>3
    <2>2. ASSUME NEW g \in Wait, op'[g] = "waiting"
          PROVE  kind[g[1]] = "broadcast" => g[1] \in broadcasts'
        BY <1>3, <1>6, <2>2 DEF IInv, WaiterIsReachable
    <2>3. ASSUME NEW g \in Wait, op'[g] = "waiting", kind[g[1]] = "batch"
          PROVE  \E i \in 1..Len(batches') : batches'[i] = g[1]
        <3>1. Len(batches) \in Nat
            BY Registered DEF IInv
        <3>2. CASE g = h
            <4>1. Len(batches) + 1 \in 1..Len(batches') /\ batches'[Len(batches) + 1] = g[1]
                BY <1>7, <2>3, <3>1, <3>2
            <4>. QED  BY <4>1
        <3>3. CASE g # h
            <4>1. PICK i \in 1..Len(batches) : batches[i] = g[1]
                BY <1>3, <2>3, <3>3 DEF IInv, WaiterIsReachable
            <4>2. i \in 1..Len(batches') /\ batches'[i] = g[1]
                BY <1>7, <1>8, <3>1, <4>1
            <4>. QED  BY <4>2
        <3>. QED  BY <3>2, <3>3
    <2>. QED  BY <1>1, <2>1, <2>2, <2>3 DEF WaiterIsReachable, Wanted
<1>18. RejectIsOwn'
    BY <1>1 DEF IInv, RejectIsOwn, First
<1>. QED  BY <1>9, <1>10, <1>11, <1>12, <1>13, <1>14, <1>15, <1>16, <1>17, <1>18 DEF
       IInv

\* The commands are cleared by a getAddresses() that waits no longer.
LEMMA AnsweredPreserves ==
    ASSUME IInv, NEW r \in Request, Answered(r)
    PROVE  IInv'
<1>1. UNCHANGED <<kind, stage, op, got, queue, broadcasts, batches, collected, crashed, asked,
       sent, upsets>>
    BY DEF Answered, ClearExpected, calls, early_, collectors, remote
<1>2. /\ caller[r] = "waiting"
      /\ \A q \in Request : q # r => caller'[q] = caller[q]
      /\ caller'[r] \in {"sweeping", "answered"}
    BY DEF Answered, IInv, TypeOK
<1>3. kind[r] # "addr" => expected' = expected /\ early' = early
    BY DEF Answered, early_
<1>4. kind[r] = "addr" => expected' = {} /\ early' = [c \in AddrCommands |-> <<>>]
    BY DEF Answered, ClearExpected
<1>5. TypeOK'
    <2>1. caller' \in [Request -> {"new", "waiting", "cleaning", "sweeping", "signalling",
                               "answered", "gaveUp", "failed"}]
        BY DEF Answered, IInv, TypeOK
    <2>2. expected' \subseteq AddrCommands
        BY <1>3, <1>4 DEF IInv, TypeOK
    <2>3. early' \in [AddrCommands -> Seq(Msg)]
        <3>1. <<>> \in Seq(Msg)
            OBVIOUS
        <3>. QED  BY <1>3, <1>4, <3>1 DEF IInv, TypeOK
    <2>. QED  BY <1>1, <2>1, <2>2, <2>3 DEF IInv, TypeOK
<1>6. Unstarted'
    BY <1>1, <1>2, <1>3, <1>4 DEF IInv, Unstarted, Wait
<1>7. SignalsAreBroadcasts'
    BY <1>1, <1>2, <1>3, <1>4 DEF IInv, SignalsAreBroadcasts, Wait
<1>8. NothingGiven'
    BY <1>1 DEF IInv, NothingGiven
<1>9. QueuedAsAwaited'
    BY <1>1 DEF IInv, QueuedAsAwaited, Wanted
<1>10. BatchesWait'
    BY <1>1 DEF IInv, BatchesWait, First
<1>11. BroadcastsRegistered'
    BY <1>1 DEF IInv, BroadcastsRegistered
<1>12. AddrExpected'
    BY <1>1, <1>2, <1>3, <1>4 DEF IInv, AddrExpected, SoleAddr, Wait
<1>13. WaiterIsReachable'
    BY <1>1 DEF IInv, WaiterIsReachable, Wanted
<1>14. RejectIsOwn'
    BY <1>1 DEF IInv, RejectIsOwn, First
<1>. QED  BY <1>5, <1>6, <1>7, <1>8, <1>9, <1>10, <1>11, <1>12, <1>13, <1>14 DEF IInv

\* A caller that gives up leaves its handler where it is.
LEMMA NoAnswerPreserves ==
    ASSUME IInv, NEW r \in Request, caller[r] = "waiting", NoAnswer(r)
    PROVE  IInv'
<1>1. UNCHANGED <<kind, stage, op, got, queue, expected, early, broadcasts, batches,
       collected, crashed, asked, sent, upsets>>
    BY DEF NoAnswer, calls, early_, collectors, remote
<1>2. /\ \A q \in Request : q # r => caller'[q] = caller[q]
      /\ caller'[r] \in {"cleaning", "gaveUp"}
    BY DEF NoAnswer, IInv, TypeOK
<1>3. TypeOK'
    <2>1. caller' \in [Request -> {"new", "waiting", "cleaning", "sweeping", "signalling",
                               "answered", "gaveUp", "failed"}]
        BY DEF NoAnswer, IInv, TypeOK
    <2>. QED  BY <1>1, <2>1 DEF IInv, TypeOK
<1>4. Unstarted'
    BY <1>1, <1>2 DEF IInv, Unstarted, Wait
<1>5. SignalsAreBroadcasts'
    BY <1>1, <1>2 DEF IInv, SignalsAreBroadcasts, Wait
<1>6. NothingGiven'
    BY <1>1 DEF IInv, NothingGiven
<1>7. QueuedAsAwaited'
    BY <1>1 DEF IInv, QueuedAsAwaited, Wanted
<1>8. BatchesWait'
    BY <1>1 DEF IInv, BatchesWait, First
<1>9. BroadcastsRegistered'
    BY <1>1 DEF IInv, BroadcastsRegistered
<1>10. AddrExpected'
    BY <1>1, <1>2 DEF IInv, AddrExpected, SoleAddr, Wait
<1>11. WaiterIsReachable'
    BY <1>1 DEF IInv, WaiterIsReachable, Wanted
<1>12. RejectIsOwn'
    BY <1>1 DEF IInv, RejectIsOwn, First
<1>. QED  BY <1>3, <1>4, <1>5, <1>6, <1>7, <1>8, <1>9, <1>10, <1>11, <1>12 DEF IInv

\* The second wait of getAddresses() expects addrv2 still.
LEMMA NoAddrPreserves ==
    ASSUME IInv, NEW r \in Request, caller[r] = "waiting", NoAddr(r)
    PROVE  IInv'
<1>1. UNCHANGED <<kind, got, queue, broadcasts, batches, collected, crashed, asked, sent,
       upsets>>
    BY DEF NoAddr, ClearExpected, calls, early_, collectors, remote
<1>2. kind[r] = "addr" /\ stage[r] \in {1, 2}
    BY DEF NoAddr, IInv, TypeOK
<1>3. stage[r] = 1 => op[<<r, 2>>] = "none"
    <2>1. <<r, 2>> \in Wait /\ <<r, 2>>[1] = r /\ <<r, 2>>[2] = 2
        BY Waits
    <2>2. \A h \in Wait : op[h] # "none" /\ h[2] = 2 => stage[h[1]] = 2
        BY DEF IInv, Unstarted
    <2>. QED  BY <2>1, <2>2
<1>4. \A q \in Request : q # r => caller'[q] = caller[q] /\ stage'[q] = stage[q]
    BY DEF NoAddr, IInv, TypeOK
<1>5. stage[r] = 1 => stage'[r] = 2 /\ caller' = caller
    BY DEF NoAddr, IInv, TypeOK
<1>6. stage[r] = 1 => expected' = expected /\ early' = early
    BY DEF NoAddr, early_
<1>7. stage[r] = 1 => \A g \in Wait : op'[g] = IF g = <<r, 2>> THEN "spawned" ELSE op[g]
    <2>1. CASE stage[r] = 1
        <3>1. op' = [op EXCEPT ![<<r, 2>>] = "spawned"]
            BY <2>1 DEF NoAddr
        <3>. QED  BY <3>1 DEF IInv, TypeOK
    <2>. QED  BY <2>1
<1>8. stage[r] = 2 => stage' = stage /\ caller'[r] = "gaveUp" /\ op' = op
    BY DEF NoAddr, IInv, TypeOK
<1>9. stage[r] = 2 => expected' = {} /\ early' = [c \in AddrCommands |-> <<>>]
    BY DEF NoAddr, ClearExpected
<1>10. TypeOK'
    <2>1. caller' \in [Request -> {"new", "waiting", "cleaning", "sweeping", "signalling",
                               "answered", "gaveUp", "failed"}]
        BY DEF NoAddr, IInv, TypeOK
    <2>2. stage' \in [Request -> {1, 2}]
        BY DEF NoAddr, IInv, TypeOK
    <2>3. op' \in [Wait -> {"none", "spawned", "waiting", "resumed", "cancelled"}]
        BY DEF NoAddr, IInv, TypeOK
    <2>4. expected' \subseteq AddrCommands
        BY <1>2, <1>6, <1>9 DEF IInv, TypeOK
    <2>5. early' \in [AddrCommands -> Seq(Msg)]
        <3>1. <<>> \in Seq(Msg)
            OBVIOUS
        <3>. QED  BY <1>2, <1>6, <1>9, <3>1 DEF IInv, TypeOK
    <2>. QED  BY <1>1, <2>1, <2>2, <2>3, <2>4, <2>5 DEF IInv, TypeOK
<1>11. Unstarted'
    BY <1>1, <1>2, <1>3, <1>4, <1>5, <1>6, <1>7, <1>8, <1>9 DEF IInv, Unstarted, Wait
<1>12. SignalsAreBroadcasts'
    BY <1>1, <1>2, <1>3, <1>4, <1>5, <1>6, <1>7, <1>8, <1>9 DEF IInv, SignalsAreBroadcasts,
           Wait
<1>13. NothingGiven'
    BY <1>1, <1>2, <1>3, <1>4, <1>5, <1>6, <1>7, <1>8, <1>9 DEF IInv, NothingGiven, Wait
<1>14. QueuedAsAwaited'
    BY <1>1 DEF IInv, QueuedAsAwaited, Wanted
<1>15. BatchesWait'
    BY <1>1, <1>2, <1>3, <1>4, <1>5, <1>6, <1>7, <1>8, <1>9, Registered DEF IInv, BatchesWait,
           First, Wait
<1>16. BroadcastsRegistered'
    BY <1>1 DEF IInv, BroadcastsRegistered
<1>17. AddrExpected'
    BY <1>1, <1>2, <1>3, <1>4, <1>5, <1>6, <1>7, <1>8, <1>9 DEF IInv, AddrExpected, SoleAddr,
           Wait
<1>18. WaiterIsReachable'
    BY <1>1, <1>2, <1>3, <1>4, <1>5, <1>6, <1>7, <1>8, <1>9, AwaitsFacts DEF IInv,
           WaiterIsReachable, Wanted, Wait
<1>19. RejectIsOwn'
    BY <1>1 DEF IInv, RejectIsOwn, First
<1>. QED  BY <1>10, <1>11, <1>12, <1>13, <1>14, <1>15, <1>16, <1>17, <1>18, <1>19 DEF
       IInv

\* Only a broadcast gets to signal its own timeout.
LEMMA BroadcastTimeoutPreserves ==
    ASSUME IInv, NEW r \in Request, BroadcastTimeout(r)
    PROVE  IInv'
<1>1. UNCHANGED <<kind, stage, op, got, queue, expected, early, broadcasts, batches,
       collected, crashed, asked, sent, upsets>>
    BY DEF BroadcastTimeout, calls, early_, collectors, remote
<1>2. /\ \A q \in Request : q # r => caller'[q] = caller[q]
      /\ caller'[r] \in {"signalling", "gaveUp"} /\ kind[r] = "broadcast"
    BY DEF BroadcastTimeout, IInv, TypeOK
<1>3. TypeOK'
    <2>1. caller' \in [Request -> {"new", "waiting", "cleaning", "sweeping", "signalling",
                               "answered", "gaveUp", "failed"}]
        BY DEF BroadcastTimeout, IInv, TypeOK
    <2>. QED  BY <1>1, <2>1 DEF IInv, TypeOK
<1>4. Unstarted'
    BY <1>1, <1>2 DEF IInv, Unstarted, Wait
<1>5. SignalsAreBroadcasts'
    BY <1>1, <1>2 DEF IInv, SignalsAreBroadcasts, Wait
<1>6. NothingGiven'
    BY <1>1 DEF IInv, NothingGiven
<1>7. QueuedAsAwaited'
    BY <1>1 DEF IInv, QueuedAsAwaited, Wanted
<1>8. BatchesWait'
    BY <1>1 DEF IInv, BatchesWait, First
<1>9. BroadcastsRegistered'
    BY <1>1 DEF IInv, BroadcastsRegistered
<1>10. AddrExpected'
    BY <1>1, <1>2 DEF IInv, AddrExpected, SoleAddr, Wait
<1>11. WaiterIsReachable'
    BY <1>1 DEF IInv, WaiterIsReachable, Wanted
<1>12. RejectIsOwn'
    BY <1>1 DEF IInv, RejectIsOwn, First
<1>. QED  BY <1>3, <1>4, <1>5, <1>6, <1>7, <1>8, <1>9, <1>10, <1>11, <1>12 DEF IInv

\* The collector that a timer finds belongs to an operation that waits.
LEMMA BatchTimeoutPreserves ==
    ASSUME IInv, NEW r \in Request, BatchTimeout(r)
    PROVE  IInv'
<1>1. UNCHANGED <<kind, caller, stage, queue, expected, early, broadcasts, collected, asked,
       sent, upsets>>
    BY DEF BatchTimeout, calls, early_, collectors, remote
<1>2. PICK i \in 1..Len(batches) : batches[i] = r /\ batches' = WithoutBatch(i)
    BY DEF BatchTimeout
<1>3. <<r, 1>> \in Wait /\ op[<<r, 1>>] = "waiting" /\ kind[r] = "batch"
    BY <1>2, Waits DEF IInv, BatchesWait, First
<1>4. /\ op' \in [Wait -> {"none", "spawned", "waiting", "resumed", "cancelled"}] /\ got' \in [Wait -> Msg \cup {NoMsg}]
      /\ crashed' = crashed /\ op'[<<r, 1>>] = "resumed"
      /\ \A g \in Wait : g # <<r, 1>> => op'[g] = op[g] /\ got'[g] = got[g]
    BY <1>3, ResumeBareFacts DEF BatchTimeout, First, IInv
<1>5. \A g \in Wait : op'[g] = IF g = <<r, 1>> THEN "resumed" ELSE op[g]
    BY <1>3, <1>4
<1>6. /\ batches' \in Seq(Request) /\ Len(batches') \in Nat
      /\ \A j \in 1..Len(batches') : batches'[j] # r
      /\ \A j \in 1..Len(batches') : \E k \in 1..Len(batches) : batches'[j] = batches[k]
      /\ \A j, k \in 1..Len(batches') : batches'[j] = batches'[k] => j = k
      /\ \A k \in 1..Len(batches) : batches[k] # r => \E j \in 1..Len(batches') : batches'[j] = batches[k]
    BY <1>2, CollectorTaken DEF IInv
<1>7. TypeOK'
    <2>1. op' \in [Wait -> {"none", "spawned", "waiting", "resumed", "cancelled"}]
        BY <1>4
    <2>2. got' \in [Wait -> Msg \cup {NoMsg}]
        BY <1>4
    <2>3. crashed' \in BOOLEAN
        BY <1>4 DEF IInv, TypeOK
    <2>4. batches' \in Seq(Request)
        BY <1>6
    <2>. QED  BY <1>1, <2>1, <2>2, <2>3, <2>4 DEF IInv, TypeOK
<1>8. Unstarted'
    BY <1>1, <1>2, <1>3, <1>4, <1>5, <1>6 DEF IInv, Unstarted, Wait
<1>9. SignalsAreBroadcasts'
    BY <1>1 DEF IInv, SignalsAreBroadcasts
<1>10. NothingGiven'
    BY <1>1, <1>4, <1>5 DEF IInv, NothingGiven
<1>11. QueuedAsAwaited'
    BY <1>1 DEF IInv, QueuedAsAwaited, Wanted
<1>12. BatchesWait'
    <2>1. ASSUME NEW j \in 1..Len(batches')
          PROVE  /\ kind[batches'[j]] = "batch" /\ op'[<<batches'[j], 1>>] = "waiting"
                 /\ collected[batches'[j]] < BatchSize
        <3>1. PICK k \in 1..Len(batches) : batches'[j] = batches[k]
            BY <1>6
        <3>2. batches[k] \in Request /\ batches[k] # r
            BY <1>6, <3>1, Registered DEF IInv
        <3>3. <<batches[k], 1>> \in Wait /\ <<batches[k], 1>> # <<r, 1>>
            BY <3>2, Waits
        <3>4. op'[<<batches[k], 1>>] = op[<<batches[k], 1>>]
            BY <1>5, <3>3
        <3>. QED  BY <3>1, <3>4 DEF IInv, BatchesWait, First
    <2>. QED  BY <1>1, <1>6, <2>1 DEF BatchesWait, First
<1>13. BroadcastsRegistered'
    BY <1>1 DEF IInv, BroadcastsRegistered
<1>14. AddrExpected'
    BY <1>1, <1>5, Waits DEF IInv, AddrExpected, SoleAddr
<1>15. WaiterIsReachable'
    <2>1. ASSUME NEW h \in Wait, op'[h] = "waiting"
          PROVE  /\ \A c \in Wanted(h) : \E k \in 1..Len(queue[c]) : queue[c][k] = h
                 /\ kind[h[1]] = "broadcast" => h[1] \in broadcasts
                 /\ kind[h[1]] = "batch" => \E j \in 1..Len(batches') : batches'[j] = h[1]
        <3>1. op[h] = "waiting" /\ h # <<r, 1>>
            BY <1>4, <1>5, <2>1
        <3>2. kind[h[1]] = "batch" => h[1] # r
            BY <3>1, OneWait DEF IInv
        <3>. QED  BY <1>6, <3>1, <3>2 DEF IInv, WaiterIsReachable
    <2>. QED  BY <1>1, <2>1 DEF WaiterIsReachable, Wanted
<1>16. RejectIsOwn'
    BY <1>1, <1>2, <1>3, <1>4, <1>5, <1>6 DEF IInv, RejectIsOwn, First, Wait
<1>. QED  BY <1>7, <1>8, <1>9, <1>10, <1>11, <1>12, <1>13, <1>14, <1>15, <1>16 DEF IInv

\* A broadcast that waits is registered, so that its timer resumes it.
LEMMA SignalTimeoutPreserves ==
    ASSUME IInv, NEW r \in Request, SignalTimeout(r)
    PROVE  IInv'
<1>1. UNCHANGED <<kind, stage, queue, expected, early, batches, collected, asked, sent,
       upsets>>
    BY DEF SignalTimeout, calls, early_, collectors, remote
<1>2. /\ kind[r] = "broadcast" /\ caller[r] = "signalling"
      /\ broadcasts' = broadcasts \ {r}
      /\ caller'[r] = "gaveUp"
      /\ \A q \in Request : q # r => caller'[q] = caller[q]
    BY DEF SignalTimeout, IInv, TypeOK, SignalsAreBroadcasts
<1>3. <<r, 1>> \in Wait /\ <<r, 1>>[1] = r /\ (op[<<r, 1>>] = "waiting" => r \in broadcasts)
    BY <1>2, Waits DEF IInv, WaiterIsReachable
<1>4. /\ op' \in [Wait -> {"none", "spawned", "waiting", "resumed", "cancelled"}] /\ got' \in [Wait -> Msg \cup {NoMsg}] /\ crashed' \in BOOLEAN
      /\ op'[<<r, 1>>] # "waiting"
      /\ op'[<<r, 1>>] # op[<<r, 1>>] => op[<<r, 1>>] = "waiting" /\ op'[<<r, 1>>] = "resumed"
      /\ got'[<<r, 1>>] # got[<<r, 1>>] => got'[<<r, 1>>] = NoMsg /\ op'[<<r, 1>>] = "resumed"
      /\ \A g \in Wait : g # <<r, 1>> => op'[g] = op[g] /\ got'[g] = got[g]
    <2>1. CASE ResumeBare(First(r), NoMsg)
        BY <1>3, <2>1, ResumeBareFacts DEF First, IInv
    <2>2. CASE r \notin broadcasts /\ UNCHANGED <<op, got, crashed>>
        BY <1>3, <2>2 DEF IInv, TypeOK
    <2>. QED  BY <2>1, <2>2 DEF SignalTimeout
<1>5. TypeOK'
    <2>1. caller' \in [Request -> {"new", "waiting", "cleaning", "sweeping", "signalling",
                               "answered", "gaveUp", "failed"}]
        BY DEF SignalTimeout, IInv, TypeOK
    <2>2. broadcasts' \subseteq Request
        BY <1>2 DEF IInv, TypeOK
    <2>3. op' \in [Wait -> {"none", "spawned", "waiting", "resumed", "cancelled"}]
        BY <1>4
    <2>4. got' \in [Wait -> Msg \cup {NoMsg}]
        BY <1>4
    <2>5. crashed' \in BOOLEAN
        BY <1>4
    <2>. QED  BY <1>1, <2>1, <2>2, <2>3, <2>4, <2>5 DEF IInv, TypeOK
<1>6. Unstarted'
    BY <1>1, <1>2, <1>3, <1>4 DEF IInv, Unstarted, Wait
<1>7. SignalsAreBroadcasts'
    BY <1>1, <1>2, <1>3, <1>4 DEF IInv, SignalsAreBroadcasts, Wait
<1>8. NothingGiven'
    BY <1>1, <1>2, <1>3, <1>4 DEF IInv, NothingGiven, Wait
<1>9. QueuedAsAwaited'
    BY <1>1 DEF IInv, QueuedAsAwaited, Wanted
<1>10. BatchesWait'
    BY <1>1, <1>2, <1>3, <1>4, Registered DEF IInv, BatchesWait, First, Wait
<1>11. BroadcastsRegistered'
    BY <1>1, <1>2, <1>3, <1>4, Registered DEF IInv, BroadcastsRegistered, Wait
<1>12. AddrExpected'
    BY <1>1, <1>2, <1>3, <1>4 DEF IInv, AddrExpected, SoleAddr, Wait
<1>13. WaiterIsReachable'
    <2>1. ASSUME NEW h \in Wait, op'[h] = "waiting"
          PROVE  op[h] = "waiting" /\ (kind[h[1]] = "broadcast" => h[1] # r)
        <3>1. op[h] = "waiting" /\ h # <<r, 1>>
            BY <1>4, <2>1
        <3>. QED  BY <3>1, OneWait DEF IInv
    <2>. QED  BY <1>1, <1>2, <2>1 DEF IInv, WaiterIsReachable, Wanted
<1>14. RejectIsOwn'
    BY <1>1, <1>2, <1>3, <1>4 DEF IInv, RejectIsOwn, First, Wait
<1>. QED  BY <1>5, <1>6, <1>7, <1>8, <1>9, <1>10, <1>11, <1>12, <1>13, <1>14 DEF IInv

\* Each handler that a cleanup takes out is resumed.
LEMMA CleanPreserves ==
    ASSUME IInv, NEW r \in Request, Clean(r)
    PROVE  IInv'
<1>1. UNCHANGED <<kind, stage, got, expected, early, broadcasts, batches, collected, crashed,
       asked, sent, upsets>>
    BY DEF Clean, calls, early_, collectors, remote
<1>2. PICK cmds \in SUBSET Queued :
        /\ \A c \in cmds : queue[c] # <<>>
        /\ queue' = [c \in Queued |-> IF c \in cmds THEN Tail(queue[c]) ELSE queue[c]]
        /\ op' = [h \in Wait |-> IF h \in {Head(queue[c]) : c \in cmds} /\ op[h] = "waiting"
                                  THEN "cancelled" ELSE op[h]]
    <2>. DEFINE cs == {c \in ToClean(r) : queue[c] # <<>>}
    <2>1. cs \in SUBSET Queued
        BY AwaitsFacts DEF ToClean
    <2>2. /\ \A c \in cs : queue[c] # <<>>
          /\ queue' = [c \in Queued |-> IF c \in cs THEN Tail(queue[c]) ELSE queue[c]]
          /\ op' = [h \in Wait |-> IF h \in {Head(queue[c]) : c \in cs} /\ op[h] = "waiting"
                                    THEN "cancelled" ELSE op[h]]
        BY DEF Clean
    <2>. HIDE DEF cs
    <2>. QED  BY <2>1, <2>2
<1>3. /\ caller[r] \in {"cleaning", "sweeping"} /\ caller'[r] \in {"answered", "gaveUp"}
      /\ \A q \in Request : q # r => caller'[q] = caller[q]
    BY DEF Clean, IInv, TypeOK
<1>4. /\ queue' \in [Queued -> Seq(Wait)]
      /\ \A c \in Queued : \A i \in 1..Len(queue'[c]) :
             \E j \in 1..Len(queue[c]) : queue'[c][i] = queue[c][j]
      /\ \A c \in Queued : \A i \in 1..Len(queue[c]) :
             (c \in cmds => queue[c][i] # Head(queue[c])) =>
                 \E j \in 1..Len(queue'[c]) : queue'[c][j] = queue[c][i]
    BY <1>2, HeadsTaken DEF IInv
<1>5. /\ \A g \in Wait : op'[g] # op[g] => op[g] = "waiting" /\ op'[g] = "cancelled"
      /\ \A g \in Wait : op'[g] = "waiting" => \A c \in cmds : g # Head(queue[c])
    BY <1>2 DEF IInv, TypeOK
<1>6. \A q \in Request : kind[q] \in {"broadcast", "batch"} => op'[<<q, 1>>] = op[<<q, 1>>]
    <2>1. \A c \in cmds : kind[Head(queue[c])[1]] \notin {"broadcast", "batch"}
        BY <1>2, HeadFacts DEF IInv
    <2>2. ASSUME NEW q \in Request, kind[q] \in {"broadcast", "batch"}
          PROVE  <<q, 1>> \in Wait /\ <<q, 1>> \notin {Head(queue[c]) : c \in cmds}
        <3>1. <<q, 1>>[1] = q
            OBVIOUS
        <3>2. \A c \in cmds : Head(queue[c]) # <<q, 1>>
            BY <2>1, <2>2, <3>1
        <3>. QED  BY <3>2, Waits
    <2>. QED  BY <1>2, <2>2
<1>7. TypeOK'
    <2>1. caller' \in [Request -> {"new", "waiting", "cleaning", "sweeping", "signalling",
                               "answered", "gaveUp", "failed"}]
        BY DEF Clean, IInv, TypeOK
    <2>2. queue' \in [Queued -> Seq(Wait)]
        BY <1>4
    <2>3. op' \in [Wait -> {"none", "spawned", "waiting", "resumed", "cancelled"}]
        BY <1>2 DEF IInv, TypeOK
    <2>. QED  BY <1>1, <2>1, <2>2, <2>3 DEF IInv, TypeOK
<1>8. Unstarted'
    BY <1>1, <1>2, <1>3, <1>4, <1>5, <1>6 DEF IInv, Unstarted, Wait
<1>9. SignalsAreBroadcasts'
    BY <1>1, <1>2, <1>3, <1>4, <1>5, <1>6 DEF IInv, SignalsAreBroadcasts, Wait
<1>10. NothingGiven'
    BY <1>1, <1>2, <1>3, <1>4, <1>5, <1>6 DEF IInv, NothingGiven, Wait
<1>11. QueuedAsAwaited'
    BY <1>1, <1>2, <1>3, <1>4, <1>5, <1>6, Registered, AwaitsFacts DEF IInv, QueuedAsAwaited,
           Wanted, Wait
<1>12. BatchesWait'
    BY <1>1, <1>6, Registered DEF IInv, BatchesWait, First
<1>13. BroadcastsRegistered'
    BY <1>1 DEF IInv, BroadcastsRegistered
<1>14. AddrExpected'
    BY <1>1, <1>2, <1>3, <1>4, <1>5, <1>6 DEF IInv, AddrExpected, SoleAddr, Wait
<1>15. WaiterIsReachable'
    <2>1. ASSUME NEW h \in Wait, op'[h] = "waiting"
          PROVE  op[h] = "waiting" /\ \A c \in Wanted(h) : \E j \in 1..Len(queue'[c]) : queue'[c][j] = h
        <3>1. op[h] = "waiting" /\ \A c \in cmds : h # Head(queue[c])
            BY <1>5, <2>1
        <3>2. ASSUME NEW c \in Wanted(h)
              PROVE  \E j \in 1..Len(queue'[c]) : queue'[c][j] = h
            <4>1. c \in Queued
                BY AwaitsFacts DEF Wanted
            <4>2. PICK i \in 1..Len(queue[c]) : queue[c][i] = h
                BY <3>1 DEF IInv, WaiterIsReachable
            <4>. QED  BY <1>4, <3>1, <4>1, <4>2
        <3>. QED  BY <3>1, <3>2
    <2>. QED  BY <1>1, <2>1 DEF IInv, WaiterIsReachable, Wanted
<1>16. RejectIsOwn'
    BY <1>1 DEF IInv, RejectIsOwn, First
<1>. QED  BY <1>7, <1>8, <1>9, <1>10, <1>11, <1>12, <1>13, <1>14, <1>15, <1>16 DEF IInv

\* An early response is kept and changes nothing else.
LEMMA ToEarlyPreserves ==
    ASSUME IInv, NEW m \in Msg, ToEarly(m), UNCHANGED calls,
           asked' \in Seq(Request), sent' \in 0..BatchSize, upsets' \in 0..MaxUpsets
    PROVE  IInv'
<1>1. UNCHANGED <<kind, caller, stage, op, got, queue, expected, broadcasts, batches,
       collected, crashed>>
    BY DEF ToEarly, calls, early_, collectors, remote
<1>2. TypeOK'
    <2>1. early' \in [AddrCommands -> Seq(Msg)]
        BY DEF ToEarly, IInv, TypeOK
    <2>2. asked' \in Seq(Request)
        OBVIOUS
    <2>3. sent' \in 0..BatchSize
        OBVIOUS
    <2>4. upsets' \in 0..MaxUpsets
        OBVIOUS
    <2>. QED  BY <1>1, <2>1, <2>2, <2>3, <2>4 DEF IInv, TypeOK
<1>3. Unstarted'
    BY <1>1 DEF IInv, Unstarted
<1>4. SignalsAreBroadcasts'
    BY <1>1 DEF IInv, SignalsAreBroadcasts
<1>5. NothingGiven'
    BY <1>1 DEF IInv, NothingGiven
<1>6. QueuedAsAwaited'
    BY <1>1 DEF IInv, QueuedAsAwaited, Wanted
<1>7. BatchesWait'
    BY <1>1 DEF IInv, BatchesWait, First
<1>8. BroadcastsRegistered'
    BY <1>1 DEF IInv, BroadcastsRegistered
<1>9. AddrExpected'
    BY <1>1 DEF IInv, AddrExpected, SoleAddr
<1>10. WaiterIsReachable'
    BY <1>1 DEF IInv, WaiterIsReachable, Wanted
<1>11. RejectIsOwn'
    BY <1>1 DEF IInv, RejectIsOwn, First
<1>. QED  BY <1>2, <1>3, <1>4, <1>5, <1>6, <1>7, <1>8, <1>9, <1>10, <1>11 DEF IInv

\* A block that does not complete the first batch is counted.
LEMMA CountPreserves ==
    ASSUME IInv, NEW m \in Msg, ToCollector(m), ~(collected[Head(batches)] + 1 >= BatchSize), UNCHANGED calls,
           asked' \in Seq(Request), sent' \in 0..BatchSize, upsets' \in 0..MaxUpsets
    PROVE  IInv'
<1>1. UNCHANGED <<kind, caller, stage, op, got, queue, expected, early, broadcasts, batches,
       crashed>>
    BY DEF ToCollector, calls, early_, collectors, remote
<1>2. PICK r \in Request : r = Head(batches) /\ r = batches[1] /\ 1 \in 1..Len(batches)
    BY Registered, HeadTailProperties, EmptySeq DEF ToCollector, IInv
<1>3. /\ kind[r] = "batch" /\ op[<<r, 1>>] = "waiting"
      /\ collected' = [collected EXCEPT ![r] = @ + 1]
      /\ collected[r] \in Nat /\ collected[r] + 1 < BatchSize
    <2>1. kind[r] = "batch" /\ op[<<r, 1>>] = "waiting"
        BY <1>2 DEF IInv, BatchesWait, First
    <2>2. BatchSize \in Nat /\ collected[r] \in 0..BatchSize
        BY BatchAssumption DEF IInv, TypeOK
    <2>3. collected' = [collected EXCEPT ![r] = @ + 1] /\ ~(collected[r] + 1 >= BatchSize)
        BY <1>2 DEF ToCollector
    <2>. QED  BY <2>1, <2>2, <2>3
<1>4. \A q \in Request : collected'[q] \in 0..BatchSize /\ (q # r => collected'[q] = collected[q])
    BY <1>3, BatchAssumption DEF IInv, TypeOK
<1>5. collected'[r] < BatchSize
    BY <1>3 DEF IInv, TypeOK
<1>6. TypeOK'
    <2>1. collected' \in [Request -> 0..BatchSize]
        BY <1>3, <1>4 DEF IInv, TypeOK
    <2>2. asked' \in Seq(Request)
        OBVIOUS
    <2>3. sent' \in 0..BatchSize
        OBVIOUS
    <2>4. upsets' \in 0..MaxUpsets
        OBVIOUS
    <2>. QED  BY <1>1, <2>1, <2>2, <2>3, <2>4 DEF IInv, TypeOK
<1>7. Unstarted'
    BY <1>1 DEF IInv, Unstarted
<1>8. SignalsAreBroadcasts'
    BY <1>1 DEF IInv, SignalsAreBroadcasts
<1>9. NothingGiven'
    <2>1. ASSUME NEW h \in Wait, op[h] \in {"none", "spawned"}
          PROVE  got[h] = NoMsg /\ (h[2] = 1 => collected'[h[1]] = 0)
        <3>1. h[2] = 1 => h[1] # r /\ h[1] \in Request
            BY <1>3, <2>1 DEF Wait
        <3>. QED  BY <1>4, <2>1, <3>1 DEF IInv, NothingGiven
    <2>. QED  BY <1>1, <2>1 DEF NothingGiven
<1>10. QueuedAsAwaited'
    BY <1>1 DEF IInv, QueuedAsAwaited, Wanted
<1>11. BatchesWait'
    BY <1>1, <1>2, <1>3, <1>4, <1>5, Registered DEF IInv, BatchesWait, First, Wait
<1>12. BroadcastsRegistered'
    BY <1>1 DEF IInv, BroadcastsRegistered
<1>13. AddrExpected'
    BY <1>1 DEF IInv, AddrExpected, SoleAddr
<1>14. WaiterIsReachable'
    BY <1>1 DEF IInv, WaiterIsReachable, Wanted
<1>15. RejectIsOwn'
    BY <1>1 DEF IInv, RejectIsOwn, First
<1>. QED  BY <1>6, <1>7, <1>8, <1>9, <1>10, <1>11, <1>12, <1>13, <1>14, <1>15 DEF IInv

\* The last block of a batch takes its collector out and resumes its operation.
LEMMA CompletePreserves ==
    ASSUME IInv, NEW m \in Msg, ToCollector(m), collected[Head(batches)] + 1 >= BatchSize, UNCHANGED calls,
           asked' \in Seq(Request), sent' \in 0..BatchSize, upsets' \in 0..MaxUpsets
    PROVE  IInv'
<1>1. UNCHANGED <<kind, caller, stage, queue, expected, early, broadcasts>>
    BY DEF ToCollector, calls, early_, collectors, remote
<1>2. PICK r \in Request : r = Head(batches) /\ r = batches[1] /\ 1 \in 1..Len(batches)
    BY Registered, HeadTailProperties, EmptySeq DEF ToCollector, IInv
<1>3. /\ <<r, 1>> \in Wait /\ kind[r] = "batch" /\ op[<<r, 1>>] = "waiting"
      /\ collected[r] \in Nat /\ BatchSize \in Nat /\ collected[r] < BatchSize
    <2>1. BatchSize \in Nat /\ collected[r] \in 0..BatchSize
        BY <1>2, BatchAssumption DEF IInv, TypeOK
    <2>2. <<r, 1>> \in Wait /\ kind[r] = "batch" /\ op[<<r, 1>>] = "waiting" /\ collected[r] < BatchSize
        BY <1>2, Waits DEF IInv, BatchesWait, First
    <2>. QED  BY <2>1, <2>2
<1>4. /\ collected' = [collected EXCEPT ![r] = @ + 1]
      /\ batches' = Tail(batches) /\ ResumeBare(<<r, 1>>, m)
    BY <1>2, <1>3 DEF ToCollector, First
<1>5. /\ op' \in [Wait -> {"none", "spawned", "waiting", "resumed", "cancelled"}] /\ got' \in [Wait -> Msg \cup {NoMsg}]
      /\ crashed' = crashed /\ op'[<<r, 1>>] = "resumed"
      /\ \A g \in Wait : g # <<r, 1>> => op'[g] = op[g] /\ got'[g] = got[g]
    BY <1>3, <1>4, ResumeBareFacts DEF IInv
<1>6. \A g \in Wait : op'[g] = IF g = <<r, 1>> THEN "resumed" ELSE op[g]
    BY <1>3, <1>5
<1>7. /\ batches' \in Seq(Request) /\ Len(batches') \in Nat
      /\ \A j \in 1..Len(batches') : batches'[j] # r
      /\ \A j \in 1..Len(batches') : \E k \in 1..Len(batches) : batches'[j] = batches[k]
      /\ \A j, k \in 1..Len(batches') : batches'[j] = batches'[k] => j = k
      /\ \A k \in 1..Len(batches) : batches[k] # r => \E j \in 1..Len(batches') : batches'[j] = batches[k]
    <2>1. batches' = WithoutBatch(1)
        <3>1. /\ batches' \in Seq(Request) /\ Len(batches') = Len(batches) - 1
              /\ \A j \in 1..Len(batches') : batches'[j] = batches[j + 1]
            BY <1>2, <1>4, Registered, HeadTailProperties, EmptySeq DEF IInv
        <3>2. Len(batches) - 1 \in Nat /\ \A j \in 1..Len(batches) - 1 : ~(j < 1)
            BY <1>2, Registered DEF IInv
        <3>3. batches' = [j \in 1..Len(batches) - 1 |-> batches[j + 1]]
            BY <3>1, <3>2
        <3>. QED  BY <3>2, <3>3 DEF WithoutBatch
    <2>. QED  BY <1>2, <2>1, CollectorTaken DEF IInv
<1>8. \A q \in Request : q # r => collected'[q] = collected[q]
    BY <1>4 DEF IInv, TypeOK
<1>9. TypeOK'
    <2>1. op' \in [Wait -> {"none", "spawned", "waiting", "resumed", "cancelled"}]
        BY <1>5
    <2>2. got' \in [Wait -> Msg \cup {NoMsg}]
        BY <1>5
    <2>3. crashed' \in BOOLEAN
        BY <1>5 DEF IInv, TypeOK
    <2>4. batches' \in Seq(Request)
        BY <1>7
    <2>5. collected' \in [Request -> 0..BatchSize]
        BY <1>3, <1>4 DEF IInv, TypeOK
    <2>6. asked' \in Seq(Request)
        OBVIOUS
    <2>7. sent' \in 0..BatchSize
        OBVIOUS
    <2>8. upsets' \in 0..MaxUpsets
        OBVIOUS
    <2>. QED  BY <1>1, <2>1, <2>2, <2>3, <2>4, <2>5, <2>6, <2>7, <2>8 DEF IInv, TypeOK
<1>10. Unstarted'
    BY <1>1, <1>3, <1>6 DEF IInv, Unstarted, Wait
<1>11. SignalsAreBroadcasts'
    BY <1>1 DEF IInv, SignalsAreBroadcasts
<1>12. NothingGiven'
    <2>1. ASSUME NEW h \in Wait, op'[h] \in {"none", "spawned"}
          PROVE  got'[h] = NoMsg /\ (h[2] = 1 => collected'[h[1]] = 0)
        <3>1. h # <<r, 1>> /\ op[h] \in {"none", "spawned"} /\ got'[h] = got[h]
            BY <1>5, <1>6, <2>1
        <3>2. h[2] = 1 => h[1] # r /\ h[1] \in Request
            BY <3>1 DEF Wait
        <3>. QED  BY <1>8, <3>1, <3>2 DEF IInv, NothingGiven
    <2>. QED  BY <2>1 DEF NothingGiven
<1>13. QueuedAsAwaited'
    BY <1>1 DEF IInv, QueuedAsAwaited, Wanted
<1>14. BatchesWait'
    <2>1. ASSUME NEW j \in 1..Len(batches')
          PROVE  /\ kind[batches'[j]] = "batch" /\ op'[<<batches'[j], 1>>] = "waiting"
                 /\ collected'[batches'[j]] < BatchSize
        <3>1. PICK k \in 1..Len(batches) : batches'[j] = batches[k]
            BY <1>7
        <3>2. batches[k] \in Request /\ batches[k] # r
            BY <1>7, <3>1, Registered DEF IInv
        <3>3. <<batches[k], 1>> \in Wait /\ <<batches[k], 1>> # <<r, 1>>
            BY <3>2, Waits
        <3>4. op'[<<batches[k], 1>>] = op[<<batches[k], 1>>]
            BY <1>6, <3>3
        <3>. QED  BY <1>8, <3>1, <3>2, <3>4 DEF IInv, BatchesWait, First
    <2>. QED  BY <1>1, <1>7, <2>1 DEF BatchesWait, First
<1>15. BroadcastsRegistered'
    BY <1>1 DEF IInv, BroadcastsRegistered
<1>16. AddrExpected'
    BY <1>1, <1>6, Waits DEF IInv, AddrExpected, SoleAddr
<1>17. WaiterIsReachable'
    <2>1. ASSUME NEW h \in Wait, op'[h] = "waiting"
          PROVE  /\ \A c \in Wanted(h) : \E k \in 1..Len(queue[c]) : queue[c][k] = h
                 /\ kind[h[1]] = "broadcast" => h[1] \in broadcasts
                 /\ kind[h[1]] = "batch" => \E j \in 1..Len(batches') : batches'[j] = h[1]
        <3>1. op[h] = "waiting" /\ h # <<r, 1>>
            BY <1>5, <1>6, <2>1
        <3>2. kind[h[1]] = "batch" => h[1] # r
            BY <3>1, OneWait DEF IInv
        <3>3. kind[h[1]] = "batch" => \E k \in 1..Len(batches) : batches[k] = h[1]
            BY <3>1 DEF IInv, WaiterIsReachable
        <3>4. kind[h[1]] = "batch" => \E j \in 1..Len(batches') : batches'[j] = h[1]
            <4>1. ASSUME NEW k \in 1..Len(batches), batches[k] = h[1], h[1] # r
                  PROVE  \E j \in 1..Len(batches') : batches'[j] = h[1]
                BY <1>7, <4>1
            <4>. QED  BY <3>2, <3>3, <4>1
        <3>. QED  BY <3>1, <3>4 DEF IInv, WaiterIsReachable
    <2>. QED  BY <1>1, <2>1 DEF WaiterIsReachable, Wanted
<1>18. RejectIsOwn'
    BY <1>1, <1>3, <1>5 DEF IInv, RejectIsOwn, First, Wait
<1>. QED  BY <1>9, <1>10, <1>11, <1>12, <1>13, <1>14, <1>15, <1>16, <1>17, <1>18 DEF
       IInv

\* The handler that is taken out is resumed, and is no broadcast and no batch.
LEMMA ToHandlerPreserves ==
    ASSUME IInv, NEW m \in Msg, ToHandler(m), UNCHANGED calls,
           asked' \in Seq(Request), sent' \in 0..BatchSize, upsets' \in 0..MaxUpsets
    PROVE  IInv'
<1>1. UNCHANGED <<kind, caller, stage, expected, early, broadcasts, batches, collected,
       crashed>>
    BY DEF ToHandler, Resume, calls, early_, collectors, remote
<1>2. PICK w \in Wait : w = Head(queue[m.cmd]) /\ kind[w[1]] \notin {"broadcast", "batch"}
    BY HeadFacts DEF ToHandler, IInv
<1>3. /\ {m.cmd} \in SUBSET Queued /\ \A c \in {m.cmd} : queue[c] # <<>>
      /\ queue' = [c \in Queued |-> IF c \in {m.cmd} THEN Tail(queue[c]) ELSE queue[c]]
    <2>1. m.cmd \in Queued /\ queue[m.cmd] # <<>> /\ queue' = [queue EXCEPT ![m.cmd] = Tail(queue[m.cmd])]
        BY DEF ToHandler
    <2>. QED  BY <2>1 DEF IInv, TypeOK
<1>4. /\ queue' \in [Queued -> Seq(Wait)]
      /\ \A c \in Queued : \A i \in 1..Len(queue'[c]) :
             \E j \in 1..Len(queue[c]) : queue'[c][i] = queue[c][j]
      /\ \A c \in Queued : \A i \in 1..Len(queue[c]) :
             (c \in {m.cmd} => queue[c][i] # Head(queue[c])) =>
                 \E j \in 1..Len(queue'[c]) : queue'[c][j] = queue[c][i]
    BY <1>3, HeadsTaken DEF IInv
<1>5. /\ op' \in [Wait -> {"none", "spawned", "waiting", "resumed", "cancelled"}] /\ got' \in [Wait -> Msg \cup {NoMsg}]
      /\ \A g \in Wait : op[g] # "waiting" => op'[g] = op[g] /\ got'[g] = got[g]
      /\ \A g \in Wait : op[g] = "waiting" => op'[g] \in {"waiting", "resumed"}
      /\ \A g \in Wait : g # w => op'[g] = op[g] /\ got'[g] = got[g]
      /\ op'[w] # "waiting"
    <2>1. Resume(w, "resumed", m)
        BY <1>2 DEF ToHandler
    <2>2. CASE op[w] = "waiting"
        <3>1. op' = [op EXCEPT ![w] = "resumed"] /\ got' = [got EXCEPT ![w] = m]
            BY <2>1, <2>2 DEF Resume
        <3>2. /\ op' \in [Wait -> {"none", "spawned", "waiting", "resumed", "cancelled"}]
              /\ op'[w] = "resumed" /\ \A g \in Wait : g # w => op'[g] = op[g]
            BY <3>1 DEF IInv, TypeOK
        <3>3. got' \in [Wait -> Msg \cup {NoMsg}] /\ \A g \in Wait : g # w => got'[g] = got[g]
            BY <3>1 DEF IInv, TypeOK
        <3>. QED  BY <2>2, <3>2, <3>3
    <2>3. CASE op[w] # "waiting"
        BY <2>1, <2>3 DEF Resume, IInv, TypeOK
    <2>. QED  BY <2>2, <2>3
<1>6. \A q \in Request : kind[q] \in {"broadcast", "batch"} =>
         op'[<<q, 1>>] = op[<<q, 1>>] /\ got'[<<q, 1>>] = got[<<q, 1>>]
    <2>1. ASSUME NEW q \in Request, kind[q] \in {"broadcast", "batch"}
          PROVE  <<q, 1>> \in Wait /\ <<q, 1>> # w
        <3>1. <<q, 1>>[1] = q
            OBVIOUS
        <3>. QED  BY <1>2, <2>1, <3>1, Waits
    <2>. QED  BY <1>5, <2>1
<1>7. TypeOK'
    <2>1. queue' \in [Queued -> Seq(Wait)]
        BY <1>4
    <2>2. op' \in [Wait -> {"none", "spawned", "waiting", "resumed", "cancelled"}]
        BY <1>5
    <2>3. got' \in [Wait -> Msg \cup {NoMsg}]
        BY <1>5
    <2>4. asked' \in Seq(Request)
        OBVIOUS
    <2>5. sent' \in 0..BatchSize
        OBVIOUS
    <2>6. upsets' \in 0..MaxUpsets
        OBVIOUS
    <2>. QED  BY <1>1, <2>1, <2>2, <2>3, <2>4, <2>5, <2>6 DEF IInv, TypeOK
<1>8. Unstarted'
    BY <1>1, <1>5 DEF IInv, Unstarted, Wait
<1>9. SignalsAreBroadcasts'
    BY <1>1 DEF IInv, SignalsAreBroadcasts
<1>10. NothingGiven'
    BY <1>1, <1>5 DEF IInv, NothingGiven
<1>11. QueuedAsAwaited'
    BY <1>1, <1>2, <1>3, <1>4, <1>5, <1>6, Registered, AwaitsFacts DEF IInv, QueuedAsAwaited,
           Wanted, Wait
<1>12. BatchesWait'
    BY <1>1, <1>6, Registered DEF IInv, BatchesWait, First
<1>13. BroadcastsRegistered'
    BY <1>1 DEF IInv, BroadcastsRegistered
<1>14. AddrExpected'
    BY <1>1, <1>5 DEF IInv, AddrExpected, SoleAddr, Wait
<1>15. WaiterIsReachable'
    <2>1. ASSUME NEW h \in Wait, op'[h] = "waiting"
          PROVE  op[h] = "waiting" /\ \A c \in Wanted(h) : \E j \in 1..Len(queue'[c]) : queue'[c][j] = h
        <3>1. op[h] = "waiting" /\ \A c \in {m.cmd} : h # Head(queue[c])
            BY <1>2, <1>3, <1>5, <2>1
        <3>2. ASSUME NEW c \in Wanted(h)
              PROVE  \E j \in 1..Len(queue'[c]) : queue'[c][j] = h
            <4>1. c \in Queued
                BY AwaitsFacts DEF Wanted
            <4>2. PICK i \in 1..Len(queue[c]) : queue[c][i] = h
                BY <3>1 DEF IInv, WaiterIsReachable
            <4>. QED  BY <1>4, <3>1, <4>1, <4>2
        <3>. QED  BY <3>1, <3>2
    <2>. QED  BY <1>1, <2>1 DEF IInv, WaiterIsReachable, Wanted
<1>16. RejectIsOwn'
    BY <1>1, <1>6 DEF IInv, RejectIsOwn, First, Wait
<1>. QED  BY <1>7, <1>8, <1>9, <1>10, <1>11, <1>12, <1>13, <1>14, <1>15, <1>16 DEF IInv

\* A reject resumes the broadcast of its own transaction.
LEMMA ToBroadcastPreserves ==
    ASSUME IInv, NEW m \in Msg, ToBroadcast(m), UNCHANGED calls,
           asked' \in Seq(Request), sent' \in 0..BatchSize, upsets' \in 0..MaxUpsets
    PROVE  IInv'
<1>1. UNCHANGED <<kind, caller, stage, queue, expected, early, batches, collected>>
    BY DEF ToBroadcast, calls, early_, collectors, remote
<1>2. PICK r \in Request : r = m.to /\ r \in broadcasts /\ kind[r] = "broadcast"
    BY DEF ToBroadcast, IInv, TypeOK, BroadcastsRegistered
<1>3. /\ broadcasts' = broadcasts \ {r}
      /\ ResumeBare(<<r, 1>>, m) /\ <<r, 1>> \in Wait
    BY <1>2, Waits DEF ToBroadcast, First
<1>4. /\ op' \in [Wait -> {"none", "spawned", "waiting", "resumed", "cancelled"}] /\ got' \in [Wait -> Msg \cup {NoMsg}] /\ crashed' \in BOOLEAN
      /\ op'[<<r, 1>>] # "waiting"
      /\ op'[<<r, 1>>] # op[<<r, 1>>] => op[<<r, 1>>] = "waiting" /\ op'[<<r, 1>>] = "resumed"
      /\ got'[<<r, 1>>] # got[<<r, 1>>] => got'[<<r, 1>>] = m /\ op'[<<r, 1>>] = "resumed"
      /\ \A g \in Wait : g # <<r, 1>> => op'[g] = op[g] /\ got'[g] = got[g]
    <2>1. CASE op[<<r, 1>>] = "waiting"
        BY <1>3, <2>1, ResumeBareFacts DEF IInv
    <2>2. CASE op[<<r, 1>>] # "waiting"
        BY <1>3, <2>2, ResumeBareFacts DEF IInv
    <2>. QED  BY <2>1, <2>2
<1>5. TypeOK'
    <2>1. broadcasts' \subseteq Request
        BY <1>3 DEF IInv, TypeOK
    <2>2. op' \in [Wait -> {"none", "spawned", "waiting", "resumed", "cancelled"}]
        BY <1>4
    <2>3. got' \in [Wait -> Msg \cup {NoMsg}]
        BY <1>4
    <2>4. crashed' \in BOOLEAN
        BY <1>4
    <2>5. asked' \in Seq(Request)
        OBVIOUS
    <2>6. sent' \in 0..BatchSize
        OBVIOUS
    <2>7. upsets' \in 0..MaxUpsets
        OBVIOUS
    <2>. QED  BY <1>1, <2>1, <2>2, <2>3, <2>4, <2>5, <2>6, <2>7 DEF IInv, TypeOK
<1>6. Unstarted'
    BY <1>1, <1>2, <1>3, <1>4 DEF IInv, Unstarted, Wait
<1>7. SignalsAreBroadcasts'
    BY <1>1 DEF IInv, SignalsAreBroadcasts
<1>8. NothingGiven'
    BY <1>1, <1>2, <1>3, <1>4 DEF IInv, NothingGiven, Wait
<1>9. QueuedAsAwaited'
    BY <1>1 DEF IInv, QueuedAsAwaited, Wanted
<1>10. BatchesWait'
    BY <1>1, <1>2, <1>3, <1>4, Registered DEF IInv, BatchesWait, First, Wait
<1>11. BroadcastsRegistered'
    BY <1>1, <1>2, <1>3, <1>4, Registered DEF IInv, BroadcastsRegistered, Wait
<1>12. AddrExpected'
    BY <1>1, <1>2, <1>3, <1>4 DEF IInv, AddrExpected, SoleAddr, Wait
<1>13. WaiterIsReachable'
    <2>1. ASSUME NEW h \in Wait, op'[h] = "waiting"
          PROVE  op[h] = "waiting" /\ (kind[h[1]] = "broadcast" => h[1] # r)
        <3>1. op[h] = "waiting" /\ h # <<r, 1>>
            BY <1>4, <2>1
        <3>. QED  BY <3>1, OneWait DEF IInv
    <2>. QED  BY <1>1, <1>3, <2>1 DEF IInv, WaiterIsReachable, Wanted
<1>14. RejectIsOwn'
    <2>1. ASSUME NEW q \in Request, kind[q] = "broadcast", got'[<<q, 1>>] # NoMsg
          PROVE  got'[<<q, 1>>].to = q
        <3>1. CASE q = r
            BY <1>2, <1>4, <2>1, <3>1 DEF IInv, RejectIsOwn, First
        <3>2. CASE q # r
            <4>1. <<q, 1>> \in Wait /\ <<q, 1>> # <<r, 1>>
                BY <3>2, Waits
            <4>. QED  BY <1>4, <2>1, <4>1 DEF IInv, RejectIsOwn, First
        <3>. QED  BY <3>1, <3>2
    <2>. QED  BY <1>1, <2>1 DEF RejectIsOwn, First
<1>. QED  BY <1>5, <1>6, <1>7, <1>8, <1>9, <1>10, <1>11, <1>12, <1>13, <1>14 DEF IInv

\* What the peer still owes has no part in the invariant but its type.
LEMMA UnchangedPreserves ==
    ASSUME IInv, UNCHANGED <<calls, op, got, queue, early_, broadcasts, collectors, crashed>>,
           asked' \in Seq(Request), sent' \in 0..BatchSize, upsets' \in 0..MaxUpsets
    PROVE  IInv'
<1>1. UNCHANGED <<kind, caller, stage, op, got, queue, expected, early, broadcasts, batches,
       collected, crashed>>
    BY DEF calls, calls, early_, collectors, remote
<1>2. TypeOK'
    <2>1. asked' \in Seq(Request)
        OBVIOUS
    <2>2. sent' \in 0..BatchSize
        OBVIOUS
    <2>3. upsets' \in 0..MaxUpsets
        OBVIOUS
    <2>. QED  BY <1>1, <2>1, <2>2, <2>3 DEF IInv, TypeOK
<1>3. Unstarted'
    BY <1>1 DEF IInv, Unstarted
<1>4. SignalsAreBroadcasts'
    BY <1>1 DEF IInv, SignalsAreBroadcasts
<1>5. NothingGiven'
    BY <1>1 DEF IInv, NothingGiven
<1>6. QueuedAsAwaited'
    BY <1>1 DEF IInv, QueuedAsAwaited, Wanted
<1>7. BatchesWait'
    BY <1>1 DEF IInv, BatchesWait, First
<1>8. BroadcastsRegistered'
    BY <1>1 DEF IInv, BroadcastsRegistered
<1>9. AddrExpected'
    BY <1>1 DEF IInv, AddrExpected, SoleAddr
<1>10. WaiterIsReachable'
    BY <1>1 DEF IInv, WaiterIsReachable, Wanted
<1>11. RejectIsOwn'
    BY <1>1 DEF IInv, RejectIsOwn, First
<1>. QED  BY <1>2, <1>3, <1>4, <1>5, <1>6, <1>7, <1>8, <1>9, <1>10, <1>11 DEF IInv

\* Whoever takes a message, the invariant is kept.
LEMMA DispatchPreserves ==
    ASSUME IInv, NEW m \in Msg, Dispatch(m),
           asked' \in Seq(Request), sent' \in 0..BatchSize, upsets' \in 0..MaxUpsets
    PROVE  IInv'
<1>1. UNCHANGED calls
    BY DEF Dispatch
<1>2. CASE ToCollector(m)
    BY <1>1, <1>2, CountPreserves, CompletePreserves
<1>3. CASE ToHandler(m)
    BY <1>1, <1>3, ToHandlerPreserves
<1>4. CASE ToEarly(m)
    BY <1>1, <1>4, ToEarlyPreserves
<1>5. CASE ToBroadcast(m)
    BY <1>1, <1>5, ToBroadcastPreserves
<1>6. CASE ToListener(m)
    BY <1>1, <1>6, UnchangedPreserves DEF ToListener
<1>. QED  BY <1>2, <1>3, <1>4, <1>5, <1>6 DEF Dispatch

\* What the peer sends and the connection's end.
LEMMA PeerPreserves ==
    ASSUME IInv, Peer
    PROVE  IInv'
<1>1. /\ asked \in Seq(Request) /\ sent \in 0..BatchSize /\ upsets \in 0..MaxUpsets
      /\ BatchSize \in Nat \ {0} /\ MaxUpsets \in Nat
    BY BatchAssumption, BoundsAssumption DEF IInv, TypeOK
<1>2. asked # <<>> => Head(asked) \in Request /\ Tail(asked) \in Seq(Request)
    BY <1>1, HeadTailProperties
<1>3. <<>> \in Seq(Request) /\ 0 \in 0..BatchSize
    BY <1>1
<1>4. upsets < MaxUpsets => upsets + 1 \in 0..MaxUpsets
    BY <1>1
<1>5. CASE Answer
    <2>1. asked # <<>> /\ upsets' \in 0..MaxUpsets
        BY <1>1, <1>5 DEF Answer
    <2>2. PICK c \in Answers(kind[Head(asked)]) : Dispatch([cmd |-> c, to |-> Head(asked)])
        BY <1>5 DEF Answer
    <2>3. [cmd |-> c, to |-> Head(asked)] \in Msg
        <3>1. c \in Command
            BY DEF Answers, Command, Queued, AddrCommands
        <3>. QED  BY <1>2, <2>1, <3>1 DEF Msg
    <2>4. asked' \in Seq(Request) /\ sent' \in 0..BatchSize
        BY <1>1, <1>2, <1>3, <1>5, <2>1 DEF Answer
    <2>. QED  BY <2>1, <2>2, <2>3, <2>4, DispatchPreserves
<1>6. CASE Ignore
    <2>1. asked' \in Seq(Request) /\ sent' \in 0..BatchSize /\ upsets' \in 0..MaxUpsets
        BY <1>1, <1>2, <1>3, <1>6 DEF Ignore
    <2>. QED  BY <1>6, <2>1, UnchangedPreserves DEF Ignore, calls
<1>7. CASE Drop
    <2>1. asked' \in Seq(Request) /\ sent' \in 0..BatchSize /\ upsets' \in 0..MaxUpsets
        BY <1>3, <1>4, <1>7 DEF Drop
    <2>. QED  BY <1>7, <2>1, UnchangedPreserves DEF Drop, calls
<1>8. ASSUME NEW c \in {"inv", "tx", "headers", "addr"}, Unsolicited(c)
      PROVE  IInv'
    <2>1. [cmd |-> c, to |-> NoRequest] \in Msg
        BY DEF Msg, Command, Queued
    <2>2. asked' \in Seq(Request) /\ sent' \in 0..BatchSize /\ upsets' \in 0..MaxUpsets
        BY <1>1, <1>4, <1>8 DEF Unsolicited, remote
    <2>. QED  BY <1>8, <2>1, <2>2, DispatchPreserves DEF Unsolicited
<1>. QED  BY <1>5, <1>6, <1>7, <1>8 DEF Peer

\* A step of a request.
LEMMA StepPreserves ==
    ASSUME IInv, NEW r \in Request, Step(r)
    PROVE  IInv'
<1>1. ASSUME NEW h \in Wait, TakeEarly(h) \/ Register(h)
      PROVE  IInv'
    BY <1>1, TakeEarlyPreserves, RegisterPreserves
<1>2. CASE Answered(r) \/ BatchTimeout(r) \/ BroadcastTimeout(r)
    BY <1>2, AnsweredPreserves, BatchTimeoutPreserves, BroadcastTimeoutPreserves
<1>3. CASE SignalTimeout(r) \/ Clean(r)
    BY <1>3, SignalTimeoutPreserves, CleanPreserves
<1>4. CASE Timeout(r)
    BY <1>4, NoAnswerPreserves, NoAddrPreserves DEF Timeout
<1>5. CASE Cancelled(r)
    BY <1>5, NoAnswerPreserves DEF Cancelled
<1>. QED  BY <1>1, <1>2, <1>3, <1>4, <1>5 DEF Step

-----------------------------------------------------------------------------
(* The theorems.                                                              *)

\* In every reachable state the three registries of the dispatcher agree with
\* the operations that wait.
THEOREM InductiveInvariant == Spec => []IInv
<1>1. Init => IInv
    <2>. SUFFICES ASSUME Init  PROVE IInv
        OBVIOUS
    <2>1. TypeOK
        <3>1. <<>> \in Seq(Wait) /\ <<>> \in Seq(Msg) /\ <<>> \in Seq(Request)
            OBVIOUS
        <3>2. BatchSize \in Nat \ {0} /\ MaxUpsets \in Nat
            BY BatchAssumption, BoundsAssumption
        <3>3. /\ queue \in [Queued -> Seq(Wait)] /\ early \in [AddrCommands -> Seq(Msg)]
              /\ batches \in Seq(Request) /\ asked \in Seq(Request)
            BY <3>1 DEF Init
        <3>4. /\ collected \in [Request -> 0..BatchSize]
              /\ sent \in 0..BatchSize /\ upsets \in 0..MaxUpsets
            BY <3>2 DEF Init
        <3>. QED  BY <3>3, <3>4 DEF Init, TypeOK
    <2>2. Unstarted /\ SignalsAreBroadcasts /\ NothingGiven
        BY DEF Init, Unstarted, SignalsAreBroadcasts, NothingGiven, Wait
    <2>3. QueuedAsAwaited /\ BatchesWait
        BY DEF Init, QueuedAsAwaited, BatchesWait
    <2>4. BroadcastsRegistered /\ AddrExpected
        BY DEF Init, BroadcastsRegistered, AddrExpected
    <2>5. WaiterIsReachable /\ RejectIsOwn
        BY DEF Init, WaiterIsReachable, RejectIsOwn
    <2>. QED  BY <2>1, <2>2, <2>3, <2>4, <2>5 DEF IInv
<1>2. IInv /\ [Next]_vars => IInv'
    <2>. SUFFICES ASSUME IInv, [Next]_vars  PROVE IInv'
        OBVIOUS
    <2>1. ASSUME NEW r \in Request, Step(r)
          PROVE  IInv'
        BY <2>1, StepPreserves
    <2>2. ASSUME NEW r \in Request, NEW k \in Kinds, Send(r, k) \/ SendFails(r, k)
          PROVE  IInv'
        BY <2>2, SendPreserves, SendFailsPreserves
    <2>3. CASE Peer
        BY <2>3, PeerPreserves
    <2>4. CASE UNCHANGED vars
        <3>1. UNCHANGED <<calls, op, got, queue, early_, broadcasts, collectors, crashed>>
            BY <2>4 DEF vars
        <3>2. asked' \in Seq(Request) /\ sent' \in 0..BatchSize /\ upsets' \in 0..MaxUpsets
            BY <2>4 DEF vars, remote, IInv, TypeOK
        <3>. QED  BY <3>1, <3>2, UnchangedPreserves
    <2>. QED  BY <2>1, <2>2, <2>3, <2>4 DEF Next
<1>. QED  BY <1>1, <1>2, PTL DEF Spec

\* The variables keep their types.
THEOREM TypeCorrect == Spec => []TypeOK
BY InductiveInvariant, PTL DEF IInv

\* FIX #1519: an operation that waits is never left without a handler by which
\* it can be resumed, whichever calls share the queues of the dispatcher.
THEOREM Reachable == Spec => []WaiterIsReachable
BY InductiveInvariant, PTL DEF IInv

\* FIX #1360: a broadcast is told of the reject of its own transaction only.
THEOREM OwnReject == Spec => []RejectIsOwn
BY InductiveInvariant, PTL DEF IInv

\* FIX #1521: the addresses that the only getAddresses() waits for are taken,
\* also before its handler registers.
THEOREM AddrKept == Spec => []AddrIsNotLost
<1>1. IInv => AddrIsNotLost
    <2>. SUFFICES ASSUME IInv, NEW r \in Request, SoleAddr(r), caller[r] = "waiting",
                         op[Current(r)] \in {"spawned", "waiting"}, NEW c \in StillToTake(r)
                  PROVE  Taken([cmd |-> c, to |-> r])
        BY DEF AddrIsNotLost
    <2>1. stage[r] \in {1, 2}
        BY DEF IInv, TypeOK
    <2>2. CASE stage[r] = 1
        <3>1. op[<<r, 1>>] \in {"spawned", "waiting"} /\ c \in {"addr", "addrv2"}
            BY <2>2 DEF Current, StillToTake, AddrCommands
        <3>. QED  BY <2>2, <3>1 DEF IInv, AddrExpected, Taken
    <2>3. CASE stage[r] = 2
        <3>1. op[<<r, 2>>] \in {"spawned", "waiting"} /\ c = "addrv2"
            BY <2>3 DEF Current, StillToTake
        <3>. QED  BY <2>3, <3>1 DEF IInv, AddrExpected, Taken
    <2>. QED  BY <2>1, <2>2, <2>3
<1>. QED  BY <1>1, InductiveInvariant, PTL

-----------------------------------------------------------------------------
(* An operation is given only what its call asked for.                        *)

\* The commands that can end a wait.
Replies(k, s) ==
    CASE k = "broadcast" -> {"reject"}
      [] k = "batch" -> {"block"}
      [] OTHER -> Awaits(k, s)

\* The callers parse what they are given as the payload of the command they wait
\* for: they are given no other, whatever is shared, cleaned or kept early.
AnswerIsAwaited ==
    \A h \in Wait : got[h] # NoMsg => got[h].cmd \in Replies(kind[h[1]], h[2])

\* An early response is kept under its own command.
EarlyInPlace ==
    \A c \in AddrCommands : \A i \in 1..Len(early[c]) : early[c][i].cmd = c

\* What a handler is registered for can end its wait.
LEMMA AwaitedIsReply == \A k, s : Awaits(k, s) \subseteq Replies(k, s)
BY AwaitsFacts DEF Replies

\* Whoever resumes a waiting operation with an awaited command, or with nothing,
\* keeps the answers right.
LEMMA GivenAwaited ==
    ASSUME TypeOK, AnswerIsAwaited, NEW h \in Wait, NEW m \in Msg \cup {NoMsg},
           ResumeBare(h, m), UNCHANGED kind,
           op[h] = "waiting" /\ m # NoMsg => m.cmd \in Replies(kind[h[1]], h[2])
    PROVE  AnswerIsAwaited'
<1>1. CASE op[h] = "waiting"
    BY <1>1, ResumeBareFacts DEF AnswerIsAwaited
<1>2. CASE op[h] # "waiting"
    BY <1>2, ResumeBareFacts DEF AnswerIsAwaited
<1>. QED  BY <1>1, <1>2

\* An early response that is taken is one of the wait's own command.
LEMMA TakeEarlyAwaited ==
    ASSUME IInv, AnswerIsAwaited, EarlyInPlace, NEW h \in Wait, TakeEarly(h)
    PROVE  AnswerIsAwaited' /\ EarlyInPlace'
<1>1. kind[h[1]] = "addr" /\ UNCHANGED kind
    BY DEF TakeEarly, calls
<1>2. PICK c \in AddrCommands :
        /\ c \in Wanted(h) /\ early[c] # <<>>
        /\ got' = [got EXCEPT ![h] = Head(early[c])]
        /\ early' = [early EXCEPT ![c] = Tail(@)]
    BY <1>1, AwaitsFacts DEF TakeEarly, Wanted, AddrCommands, Wait
<1>3. early[c] \in Seq(Msg) /\ Len(early[c]) \in Nat \ {0} /\ Head(early[c]) = early[c][1]
    BY <1>2 DEF IInv, TypeOK
<1>4. Head(early[c]).cmd = c
    BY <1>2, <1>3 DEF EarlyInPlace
<1>5. c \in Replies(kind[h[1]], h[2])
    BY <1>2, AwaitedIsReply DEF Wanted
<1>6. AnswerIsAwaited'
    BY <1>1, <1>2, <1>4, <1>5 DEF AnswerIsAwaited, IInv, TypeOK
<1>7. ASSUME NEW d \in AddrCommands, NEW i \in 1..Len(early'[d])
      PROVE  early'[d][i].cmd = d
    <2>1. CASE d = c
        <3>1. early'[d] = Tail(early[c])
            BY <1>2, <2>1 DEF IInv, TypeOK
        <3>2. i + 1 \in 1..Len(early[c]) /\ Tail(early[c])[i] = early[c][i + 1]
            BY <1>2, <1>3, <1>7, <3>1, TailFacts
        <3>. QED  BY <2>1, <3>1, <3>2 DEF EarlyInPlace
    <2>2. CASE d # c
        BY <1>2, <1>7, <2>2 DEF EarlyInPlace, IInv, TypeOK
    <2>. QED  BY <2>1, <2>2
<1>. QED  BY <1>6, <1>7 DEF EarlyInPlace

\* dispatch() gives a message only to who is registered for its command.
LEMMA DispatchAwaited ==
    ASSUME IInv, AnswerIsAwaited, EarlyInPlace, NEW m \in Msg, Dispatch(m)
    PROVE  AnswerIsAwaited' /\ EarlyInPlace'
<1>1. UNCHANGED kind
    BY DEF Dispatch, calls
<1>2. CASE ToCollector(m)
    <2>1. m.cmd = "block" /\ batches # <<>> /\ UNCHANGED early
        BY <1>2 DEF ToCollector, early_
    <2>2. Head(batches) \in Request /\ kind[Head(batches)] = "batch"
        <3>1. batches \in Seq(Request) /\ 1 \in 1..Len(batches) /\ Head(batches) = batches[1]
            BY <2>1 DEF IInv, TypeOK
        <3>. QED  BY <3>1 DEF IInv, BatchesWait
    <2>3. First(Head(batches)) \in Wait /\ First(Head(batches))[1] = Head(batches)
        BY <2>2 DEF First, Wait
    <2>4. m.cmd \in Replies(kind[First(Head(batches))[1]], First(Head(batches))[2])
        BY <2>1, <2>2, <2>3 DEF Replies
    <2>5. AnswerIsAwaited'
        <3>1. CASE ResumeBare(First(Head(batches)), m)
            BY <1>1, <2>3, <2>4, <3>1, GivenAwaited DEF IInv
        <3>2. CASE UNCHANGED got
            BY <1>1, <3>2 DEF AnswerIsAwaited
        <3>. QED  BY <1>2, <3>1, <3>2 DEF ToCollector
    <2>. QED  BY <2>1, <2>5 DEF EarlyInPlace
<1>3. CASE ToHandler(m)
    <2> DEFINE h == Head(queue[m.cmd])
    <2>1. m.cmd \in Queued /\ queue[m.cmd] # <<>> /\ Resume(h, "resumed", m) /\ UNCHANGED early
        BY <1>3 DEF ToHandler, early_
    <2>2. queue[m.cmd] \in Seq(Wait) /\ 1 \in 1..Len(queue[m.cmd]) /\ h = queue[m.cmd][1]
        BY <2>1 DEF IInv, TypeOK
    <2>3. h \in Wait /\ m.cmd \in Wanted(h)
        BY <2>1, <2>2 DEF IInv, QueuedAsAwaited
    <2>4. m.cmd \in Replies(kind[h[1]], h[2])
        BY <2>3, AwaitedIsReply DEF Wanted
    <2>5. got' = [got EXCEPT ![h] = m] \/ UNCHANGED got
        BY <2>1 DEF Resume
    <2> HIDE DEF h
    <2>6. AnswerIsAwaited'
        BY <1>1, <2>3, <2>4, <2>5 DEF AnswerIsAwaited, IInv, TypeOK
    <2>. QED  BY <2>1, <2>6 DEF EarlyInPlace
<1>4. CASE ToEarly(m)
    <2>1. /\ m.cmd \in AddrCommands /\ UNCHANGED got
          /\ early' = [early EXCEPT ![m.cmd] = Append(@, m)]
        BY <1>4 DEF ToEarly, IInv, TypeOK
    <2>2. ASSUME NEW d \in AddrCommands, NEW i \in 1..Len(early'[d])
          PROVE  early'[d][i].cmd = d
        <3>1. early[d] \in Seq(Msg) /\ Len(early[d]) \in Nat
            BY DEF IInv, TypeOK
        <3>2. CASE d = m.cmd
            <4>1. early'[d] = Append(early[d], m)
                BY <2>1, <3>2 DEF IInv, TypeOK
            <4>2. CASE i = Len(early[d]) + 1
                BY <3>1, <3>2, <4>1, <4>2
            <4>3. CASE i # Len(early[d]) + 1
                <5>1. i \in 1..Len(early[d]) /\ early'[d][i] = early[d][i]
                    BY <2>2, <3>1, <4>1, <4>3
                <5>. QED  BY <5>1 DEF EarlyInPlace
            <4>. QED  BY <4>2, <4>3
        <3>3. CASE d # m.cmd
            BY <2>1, <2>2, <3>3 DEF EarlyInPlace, IInv, TypeOK
        <3>. QED  BY <3>2, <3>3
    <2>. QED  BY <1>1, <2>1, <2>2 DEF AnswerIsAwaited, EarlyInPlace
<1>5. CASE ToBroadcast(m)
    <2>1. /\ m.cmd = "reject" /\ m.to \in broadcasts
          /\ ResumeBare(First(m.to), m) /\ UNCHANGED early
        BY <1>5 DEF ToBroadcast, early_
    <2>2. m.to \in Request /\ kind[m.to] = "broadcast"
        BY <2>1 DEF IInv, TypeOK, BroadcastsRegistered
    <2>3. First(m.to) \in Wait /\ First(m.to)[1] = m.to
        BY <2>2 DEF First, Wait
    <2>4. m.cmd \in Replies(kind[First(m.to)[1]], First(m.to)[2])
        BY <2>1, <2>2, <2>3 DEF Replies
    <2>5. AnswerIsAwaited'
        BY <1>1, <2>1, <2>3, <2>4, GivenAwaited DEF IInv
    <2>. QED  BY <2>1, <2>5 DEF EarlyInPlace
<1>6. CASE ToListener(m)
    BY <1>1, <1>6 DEF ToListener, early_, AnswerIsAwaited, EarlyInPlace
<1>. QED  BY <1>2, <1>3, <1>4, <1>5, <1>6 DEF Dispatch

\* Clearing the expected commands forgets the early responses with them.
LEMMA ClearedInPlace ==
    ASSUME ClearExpected
    PROVE  EarlyInPlace'
BY DEF ClearExpected, EarlyInPlace

\* A step of a request gives its operation what was kept for it, or nothing.
LEMMA StepAwaited ==
    ASSUME IInv, AnswerIsAwaited, EarlyInPlace, NEW r \in Request, Step(r)
    PROVE  AnswerIsAwaited' /\ EarlyInPlace'
<1>1. ASSUME NEW h \in Wait, TakeEarly(h)
      PROVE  AnswerIsAwaited' /\ EarlyInPlace'
    BY <1>1, TakeEarlyAwaited
<1>2. ASSUME NEW h \in Wait, Register(h)
      PROVE  AnswerIsAwaited' /\ EarlyInPlace'
    BY <1>2 DEF Register, calls, early_, AnswerIsAwaited, EarlyInPlace
<1>3. First(r) \in Wait /\ NoMsg \in Msg \cup {NoMsg}
    BY DEF First, Wait
<1>4. CASE Answered(r)
    <2>1. UNCHANGED <<kind, got>>
        BY <1>4 DEF Answered
    <2>2. EarlyInPlace'
        BY <1>4, ClearedInPlace DEF Answered, early_, EarlyInPlace
    <2>. QED  BY <2>1, <2>2 DEF AnswerIsAwaited
<1>5. CASE BatchTimeout(r)
    <2>1. ResumeBare(First(r), NoMsg) /\ UNCHANGED <<kind, early>>
        BY <1>5 DEF BatchTimeout, calls, early_
    <2>. QED  BY <1>3, <2>1, GivenAwaited DEF IInv, EarlyInPlace
<1>6. CASE BroadcastTimeout(r)
    BY <1>6 DEF BroadcastTimeout, early_, AnswerIsAwaited, EarlyInPlace
<1>7. CASE SignalTimeout(r)
    <2>1. UNCHANGED <<kind, early>>
        BY <1>7 DEF SignalTimeout, early_
    <2>2. CASE ResumeBare(First(r), NoMsg)
        BY <1>3, <2>1, <2>2, GivenAwaited DEF IInv, EarlyInPlace
    <2>3. CASE UNCHANGED got
        BY <2>1, <2>3 DEF AnswerIsAwaited, EarlyInPlace
    <2>. QED  BY <1>7, <2>2, <2>3 DEF SignalTimeout
<1>8. CASE Clean(r)
    BY <1>8 DEF Clean, early_, AnswerIsAwaited, EarlyInPlace
<1>9. CASE NoAnswer(r)
    BY <1>9 DEF NoAnswer, early_, AnswerIsAwaited, EarlyInPlace
<1>10. CASE NoAddr(r)
    <2>1. UNCHANGED <<kind, got>>
        BY <1>10 DEF NoAddr
    <2>2. EarlyInPlace'
        BY <1>10, ClearedInPlace DEF NoAddr, early_, EarlyInPlace
    <2>. QED  BY <2>1, <2>2 DEF AnswerIsAwaited
<1>. QED  BY <1>1, <1>2, <1>4, <1>5, <1>6, <1>7, <1>8, <1>9, <1>10 DEF Step, Timeout, Cancelled

\* A request that begins was given nothing before.
LEMMA SendAwaited ==
    ASSUME IInv, AnswerIsAwaited, EarlyInPlace, NEW r \in Request, NEW k \in Kinds,
           Send(r, k) \/ SendFails(r, k)
    PROVE  AnswerIsAwaited' /\ EarlyInPlace'
<1>1. UNCHANGED <<got, early>>
    BY DEF Send, SendFails, Expect
<1>2. caller[r] = "new" /\ \A q \in Request \ {r} : kind'[q] = kind[q]
    BY DEF Send, SendFails, IInv, TypeOK
<1>3. ASSUME NEW h \in Wait, got[h] # NoMsg
      PROVE  h[1] \in Request \ {r}
    BY <1>2, <1>3 DEF IInv, Unstarted, NothingGiven, Wait
<1>. QED  BY <1>1, <1>2, <1>3 DEF AnswerIsAwaited, EarlyInPlace

\* Every call gets the command it waits for: queues shared by calls of the same
\* command, a cleanup that takes the handler of another call, and the responses
\* kept early (FIX #1521) never give a caller another payload to parse.
THEOREM AnswersAreAwaited == Spec => []AnswerIsAwaited
<1>1. Init => AnswerIsAwaited /\ EarlyInPlace
    BY DEF Init, AnswerIsAwaited, EarlyInPlace
<1>2. IInv /\ AnswerIsAwaited /\ EarlyInPlace /\ [Next]_vars => AnswerIsAwaited' /\ EarlyInPlace'
    <2>. SUFFICES ASSUME IInv, AnswerIsAwaited, EarlyInPlace, [Next]_vars
                  PROVE  AnswerIsAwaited' /\ EarlyInPlace'
        OBVIOUS
    <2>1. ASSUME NEW r \in Request, Step(r)
          PROVE  AnswerIsAwaited' /\ EarlyInPlace'
        BY <2>1, StepAwaited
    <2>2. ASSUME NEW r \in Request, NEW k \in Kinds, Send(r, k) \/ SendFails(r, k)
          PROVE  AnswerIsAwaited' /\ EarlyInPlace'
        BY <2>2, SendAwaited
    <2>3. CASE Answer
        <3>1. PICK c \in Answers(kind[Head(asked)]) : Dispatch([cmd |-> c, to |-> Head(asked)])
            BY <2>3 DEF Answer
        <3>2. c \in Command
            BY DEF Answers, Command, Queued, AddrCommands
        <3>3. Head(asked) \in Request
            BY <2>3 DEF Answer, IInv, TypeOK
        <3>4. [cmd |-> c, to |-> Head(asked)] \in Msg
            BY <3>2, <3>3 DEF Msg
        <3>. QED  BY <3>1, <3>4, DispatchAwaited
    <2>4. ASSUME NEW c \in {"inv", "tx", "headers", "addr"}, Unsolicited(c)
          PROVE  AnswerIsAwaited' /\ EarlyInPlace'
        <3>1. [cmd |-> c, to |-> NoRequest] \in Msg
            BY DEF Msg, Command, Queued
        <3>. QED  BY <2>4, <3>1, DispatchAwaited DEF Unsolicited
    <2>5. CASE Ignore \/ Drop
        BY <2>5 DEF Ignore, Drop, calls, early_, AnswerIsAwaited, EarlyInPlace
    <2>6. CASE UNCHANGED vars
        BY <2>6 DEF vars, calls, early_, AnswerIsAwaited, EarlyInPlace
    <2>. QED  BY <2>1, <2>2, <2>3, <2>4, <2>5, <2>6 DEF Next, Peer
<1>. QED  BY <1>1, <1>2, InductiveInvariant, PTL DEF Spec

-----------------------------------------------------------------------------
(* Who resumes a continuation a second time.                                  *)

\* A registered broadcast waits; and a broadcast whose timer has found its
\* handler waits still, or was given a message meanwhile.
RegisteredWaits == \A r \in broadcasts : op[First(r)] = "waiting"
SignalledOrMet ==
    \A r \in Request : caller[r] = "signalling" => op[First(r)] = "waiting" \/ got[First(r)] # NoMsg

\* Most steps leave the broadcasts alone and resume nothing twice.
SparesBroadcasts ==
    /\ crashed' = crashed /\ broadcasts' \subseteq broadcasts
    /\ \A r \in Request : caller'[r] = "signalling" => caller[r] = "signalling"
    /\ \A r \in Request : kind[r] = "broadcast" =>
          op'[First(r)] = op[First(r)] /\ got'[First(r)] = got[First(r)]

\* What such a step keeps.
LEMMA SparedIsKept ==
    ASSUME IInv, RegisteredWaits, SignalledOrMet, SparesBroadcasts
    PROVE  RegisteredWaits' /\ SignalledOrMet'
BY DEF IInv, TypeOK, BroadcastsRegistered, SignalsAreBroadcasts, RegisteredWaits,
       SignalledOrMet, SparesBroadcasts

\* Only the operations of other calls are in the queues.
LEMMA QueuedIsNoBroadcast ==
    ASSUME IInv, NEW c \in Queued, queue[c] # <<>>
    PROVE  Head(queue[c]) \in Wait /\ kind[Head(queue[c])[1]] # "broadcast"
<1>1. queue[c] \in Seq(Wait) /\ 1 \in 1..Len(queue[c]) /\ Head(queue[c]) = queue[c][1]
    BY DEF IInv, TypeOK
<1>2. c \in Awaits(kind[Head(queue[c])[1]], Head(queue[c])[2])
    BY <1>1 DEF IInv, QueuedAsAwaited, Wanted
<1>. QED  BY <1>1, <1>2, AwaitsFacts

\* What dispatch() does to broadcasts, apart from delivering a reject.
LEMMA DispatchSpares ==
    ASSUME IInv, NEW m \in Msg, UNCHANGED calls,
           ToCollector(m) \/ ToHandler(m) \/ ToEarly(m) \/ ToListener(m)
    PROVE  SparesBroadcasts
<1>1. UNCHANGED <<kind, caller, broadcasts>>
    BY DEF ToCollector, ToHandler, ToEarly, ToListener, calls
<1>2. CASE ToCollector(m)
    <2>1. CASE UNCHANGED <<op, got, crashed>>
        BY <1>1, <2>1 DEF SparesBroadcasts
    <2>2. CASE ResumeBare(First(Head(batches)), m)
        <3>1. batches \in Seq(Request) /\ 1 \in 1..Len(batches) /\ Head(batches) = batches[1]
            BY <1>2 DEF ToCollector, IInv, TypeOK
        <3>2. Head(batches) \in Request /\ kind[Head(batches)] = "batch"
              /\ op[First(Head(batches))] = "waiting"
            BY <3>1 DEF IInv, BatchesWait
        <3>3. First(Head(batches)) \in Wait
            BY <3>2 DEF First, Wait
        <3>4. /\ crashed' = crashed
              /\ \A g \in Wait : g # First(Head(batches)) => op'[g] = op[g] /\ got'[g] = got[g]
            BY <2>2, <3>2, <3>3, ResumeBareFacts DEF IInv
        <3>5. \A r \in Request : kind[r] = "broadcast" =>
                  First(r) \in Wait /\ First(r) # First(Head(batches))
            BY <3>2 DEF First, Wait
        <3>. QED  BY <1>1, <3>4, <3>5 DEF SparesBroadcasts
    <2>. QED  BY <1>2, <2>1, <2>2 DEF ToCollector
<1>3. CASE ToHandler(m)
    <2> DEFINE h == Head(queue[m.cmd])
    <2>1. h \in Wait /\ kind[h[1]] # "broadcast" /\ Resume(h, "resumed", m)
        BY <1>3, QueuedIsNoBroadcast DEF ToHandler
    <2> HIDE DEF h
    <2>2. /\ crashed' = crashed
          /\ \A g \in Wait : g # h => op'[g] = op[g] /\ got'[g] = got[g]
        BY <2>1 DEF Resume, IInv, TypeOK
    <2>3. \A r \in Request : kind[r] = "broadcast" => First(r) \in Wait /\ First(r) # h
        BY <2>1 DEF First, Wait
    <2>. QED  BY <1>1, <2>2, <2>3 DEF SparesBroadcasts
<1>4. CASE ToEarly(m) \/ ToListener(m)
    BY <1>1, <1>4 DEF ToEarly, ToListener, SparesBroadcasts
<1>. QED  BY <1>2, <1>3, <1>4

\* The steps of a call, apart from a broadcast's registration and its timer.
LEMMA CallSpares ==
    ASSUME IInv, NEW r \in Request,
           \/ \E h \in Wait : TakeEarly(h)
           \/ Answered(r) \/ NoAnswer(r) \/ NoAddr(r) \/ BatchTimeout(r) \/ Clean(r)
           \/ \E k \in Kinds : Send(r, k) \/ SendFails(r, k)
    PROVE  SparesBroadcasts
<1>0. \A q \in Request : First(q) \in Wait /\ First(q)[1] = q /\ First(q) # <<r, 2>>
    BY DEF First, Wait
<1>1. ASSUME NEW h \in Wait, TakeEarly(h) PROVE SparesBroadcasts
    BY <1>0, <1>1 DEF TakeEarly, calls, SparesBroadcasts, IInv, TypeOK
<1>2. CASE Answered(r)
    BY <1>2 DEF Answered, SparesBroadcasts, IInv, TypeOK
<1>3. CASE NoAnswer(r)
    BY <1>3 DEF NoAnswer, SparesBroadcasts, IInv, TypeOK
<1>4. CASE NoAddr(r)
    BY <1>0, <1>4 DEF NoAddr, SparesBroadcasts, IInv, TypeOK
<1>5. CASE BatchTimeout(r)
    <2>1. kind[r] = "batch" /\ op[First(r)] = "waiting" /\ UNCHANGED <<kind, caller, broadcasts>>
        BY <1>5 DEF BatchTimeout, calls, IInv, BatchesWait
    <2>2. /\ crashed' = crashed
          /\ \A g \in Wait : g # First(r) => op'[g] = op[g] /\ got'[g] = got[g]
        BY <1>0, <1>5, <2>1, ResumeBareFacts DEF BatchTimeout, IInv
    <2>3. \A q \in Request : kind[q] = "broadcast" => First(q) # First(r)
        BY <2>1 DEF First
    <2>. QED  BY <1>0, <2>1, <2>2, <2>3 DEF SparesBroadcasts
<1>6. CASE Clean(r)
    <2> DEFINE cmds == {c \in ToClean(r) : queue[c] # <<>>}
    <2> DEFINE firsts == {Head(queue[c]) : c \in cmds}
    <2>1. /\ op' = [h \in Wait |-> IF h \in firsts /\ op[h] = "waiting" THEN "cancelled" ELSE op[h]]
          /\ UNCHANGED <<kind, got, broadcasts, crashed>>
        BY <1>6 DEF Clean
    <2>2. \A c \in cmds : c \in Queued
        BY AwaitsFacts DEF ToClean
    <2>3. \A q \in Request : kind[q] = "broadcast" => First(q) \notin firsts
        BY <1>0, <2>2, QueuedIsNoBroadcast
    <2>4. \A q \in Request : caller'[q] = "signalling" => caller[q] = "signalling"
        BY <1>6 DEF Clean, IInv, TypeOK
    <2>. QED  BY <1>0, <2>1, <2>3, <2>4 DEF SparesBroadcasts
<1>7. ASSUME NEW k \in Kinds, Send(r, k) \/ SendFails(r, k) PROVE SparesBroadcasts
    <2>1. /\ caller[r] = "new" /\ UNCHANGED <<got, broadcasts, crashed>>
          /\ op' = [op EXCEPT ![First(r)] = "spawned"] \/ UNCHANGED op
          /\ \A q \in Request : caller'[q] = "signalling" => caller[q] = "signalling"
        BY <1>7 DEF Send, SendFails, collectors, IInv, TypeOK
    <2>2. kind[r] = "none"
        BY <1>0, <2>1 DEF IInv, Unstarted
    <2>3. \A q \in Request : kind[q] = "broadcast" => First(q) # First(r)
        BY <2>2 DEF First
    <2>4. \A q \in Request : kind[q] = "broadcast" => op'[First(q)] = op[First(q)]
        BY <1>0, <2>1, <2>3 DEF IInv, TypeOK
    <2>. QED  BY <2>1, <2>4 DEF SparesBroadcasts
<1>. QED  BY <1>1, <1>2, <1>3, <1>4, <1>5, <1>6, <1>7

\* The crash that OnlySignalCrashes allows.
SignalCrashes ==
    \E r \in Request :
        /\ caller[r] = "signalling" /\ caller'[r] = "gaveUp"
        /\ r \notin broadcasts
        /\ got[First(r)] = [cmd |-> "reject", to |-> r]

\* The steps that concern a broadcast: its registration, its reject, its timer.
LEMMA BroadcastSteps ==
    ASSUME IInv, AnswerIsAwaited, RegisteredWaits, SignalledOrMet, NEW r \in Request,
           \/ \E h \in Wait : h[1] = r /\ Register(h)
           \/ BroadcastTimeout(r) \/ SignalTimeout(r)
           \/ \E m \in Msg : ToBroadcast(m) /\ UNCHANGED calls
    PROVE  /\ RegisteredWaits' /\ SignalledOrMet'
           /\ crashed' = crashed \/ SignalCrashes
<1>0. \A q \in Request : First(q) \in Wait /\ First(q)[1] = q /\ (q # r => First(q) # First(r))
    BY DEF First, Wait
<1>1. ASSUME NEW h \in Wait, h[1] = r, Register(h)
      PROVE  RegisteredWaits' /\ SignalledOrMet' /\ crashed' = crashed
    <2>1. /\ op[h] = "spawned" /\ op' = [op EXCEPT ![h] = "waiting"]
          /\ broadcasts' = IF kind[r] = "broadcast" THEN broadcasts \cup {r} ELSE broadcasts
          /\ UNCHANGED <<caller, got, crashed>>
        BY <1>1 DEF Register, calls
    <2>2. kind[r] = "broadcast" => h = First(r)
        BY <1>1, <2>1, OneWait DEF IInv, First
    <2>3. RegisteredWaits'
        BY <1>0, <2>1, <2>2 DEF RegisteredWaits, IInv, TypeOK
    <2>4. SignalledOrMet'
        BY <1>0, <2>1 DEF SignalledOrMet, IInv, TypeOK
    <2>. QED  BY <2>1, <2>3, <2>4
<1>2. CASE BroadcastTimeout(r)
    <2>1. /\ caller' = [caller EXCEPT ![r] = IF r \in broadcasts THEN "signalling" ELSE "gaveUp"]
          /\ UNCHANGED <<op, got, broadcasts, crashed>>
        BY <1>2 DEF BroadcastTimeout
    <2>. QED  BY <2>1 DEF RegisteredWaits, SignalledOrMet, IInv, TypeOK
<1>3. CASE SignalTimeout(r)
    <2>1. /\ caller[r] = "signalling" /\ caller' = [caller EXCEPT ![r] = "gaveUp"]
          /\ broadcasts' = broadcasts \ {r}
        BY <1>3 DEF SignalTimeout
    <2>2. \A q \in Request \ {r} : op'[First(q)] = op[First(q)] /\ got'[First(q)] = got[First(q)]
        <3>1. CASE ResumeBare(First(r), NoMsg)
            BY <1>0, <3>1, ResumeBareFacts DEF IInv
        <3>2. CASE UNCHANGED <<op, got, crashed>>
            BY <3>2
        <3>. QED  BY <1>3, <3>1, <3>2 DEF SignalTimeout
    <2>3. RegisteredWaits'
        BY <2>1, <2>2 DEF RegisteredWaits, IInv, TypeOK
    <2>4. \A q \in Request : caller'[q] = "signalling" => q # r /\ caller[q] = "signalling"
        BY <2>1 DEF IInv, TypeOK
    <2>5. SignalledOrMet'
        BY <2>2, <2>4 DEF SignalledOrMet
    <2>6. CASE op[First(r)] = "waiting"
        <3>1. crashed' = crashed
            BY <1>0, <1>3, <2>6, ResumeBareFacts DEF SignalTimeout, IInv
        <3>. QED  BY <2>3, <2>5, <3>1
    <2>7. CASE op[First(r)] # "waiting"
        <3>1. r \notin broadcasts
            BY <2>7 DEF RegisteredWaits
        <3>2. got[First(r)] # NoMsg /\ kind[r] = "broadcast"
            BY <2>1, <2>7 DEF SignalledOrMet, IInv, SignalsAreBroadcasts
        <3>3. got[First(r)] \in Msg /\ got[First(r)].cmd = "reject" /\ got[First(r)].to = r
            BY <1>0, <3>2 DEF IInv, TypeOK, RejectIsOwn, AnswerIsAwaited, Replies
        <3>4. got[First(r)] = [cmd |-> "reject", to |-> r]
            BY <3>3 DEF Msg
        <3>5. caller'[r] = "gaveUp"
            BY <2>1 DEF IInv, TypeOK
        <3>. QED  BY <2>1, <2>3, <2>5, <3>1, <3>4, <3>5 DEF SignalCrashes
    <2>. QED  BY <2>6, <2>7
<1>4. ASSUME NEW m \in Msg, ToBroadcast(m), UNCHANGED calls
      PROVE  RegisteredWaits' /\ SignalledOrMet' /\ crashed' = crashed
    <2>1. /\ m.to \in Request /\ op[First(m.to)] = "waiting" /\ m # NoMsg
          /\ broadcasts' = broadcasts \ {m.to} /\ ResumeBare(First(m.to), m)
          /\ UNCHANGED caller
        BY <1>4 DEF ToBroadcast, RegisteredWaits, IInv, TypeOK, NoMsg, calls
    <2>2. First(m.to) \in Wait /\ \A q \in Request \ {m.to} : First(q) \in Wait /\ First(q) # First(m.to)
        BY <2>1 DEF First, Wait
    <2>3. /\ crashed' = crashed /\ got'[First(m.to)] = m
          /\ \A g \in Wait : g # First(m.to) => op'[g] = op[g] /\ got'[g] = got[g]
        BY <2>1, <2>2, ResumeBareFacts DEF IInv
    <2>4. RegisteredWaits'
        BY <2>1, <2>2, <2>3 DEF RegisteredWaits, IInv, TypeOK
    <2>5. SignalledOrMet'
        BY <2>1, <2>2, <2>3 DEF SignalledOrMet
    <2>. QED  BY <2>3, <2>4, <2>5
<1>. QED  BY <1>1, <1>2, <1>3, <1>4

\* A step keeps both, and crashes the process in one way only.
LEMMA CrashStep ==
    ASSUME IInv, AnswerIsAwaited, RegisteredWaits, SignalledOrMet, [Next]_vars
    PROVE  /\ RegisteredWaits' /\ SignalledOrMet'
           /\ crashed' = crashed \/ SignalCrashes
<1>1. CASE SparesBroadcasts
    BY <1>1, SparedIsKept DEF SparesBroadcasts
<1>2. ASSUME NEW m \in Msg, Dispatch(m)
      PROVE  /\ RegisteredWaits' /\ SignalledOrMet'
             /\ crashed' = crashed \/ SignalCrashes
    <2>1. CASE ToBroadcast(m)
        <3>1. PICK r \in Request : r = m.to
            BY <2>1 DEF ToBroadcast, IInv, TypeOK
        <3>. QED  BY <1>2, <2>1, <3>1, BroadcastSteps DEF Dispatch
    <2>2. CASE ~ToBroadcast(m)
        BY <1>1, <1>2, <2>2, DispatchSpares DEF Dispatch
    <2>. QED  BY <2>1, <2>2
<1>3. ASSUME NEW r \in Request, Step(r)
      PROVE  /\ RegisteredWaits' /\ SignalledOrMet'
             /\ crashed' = crashed \/ SignalCrashes
    <2>1. CASE (\E h \in Wait : h[1] = r /\ Register(h)) \/ BroadcastTimeout(r) \/ SignalTimeout(r)
        BY <2>1, BroadcastSteps
    <2>2. CASE \/ \E h \in Wait : TakeEarly(h)
               \/ Answered(r) \/ NoAnswer(r) \/ NoAddr(r) \/ BatchTimeout(r) \/ Clean(r)
        BY <1>1, <2>2, CallSpares
    <2>. QED  BY <1>3, <2>1, <2>2 DEF Step, Timeout, Cancelled
<1>4. ASSUME NEW r \in Request, NEW k \in Kinds, Send(r, k) \/ SendFails(r, k)
      PROVE  /\ RegisteredWaits' /\ SignalledOrMet'
             /\ crashed' = crashed \/ SignalCrashes
    BY <1>1, <1>4, CallSpares
<1>5. CASE Answer
    <2>1. PICK c \in Answers(kind[Head(asked)]) : Dispatch([cmd |-> c, to |-> Head(asked)])
        BY <1>5 DEF Answer
    <2>2. c \in Command
        BY DEF Answers, Command, Queued, AddrCommands
    <2>3. Head(asked) \in Request
        BY <1>5 DEF Answer, IInv, TypeOK
    <2>4. [cmd |-> c, to |-> Head(asked)] \in Msg
        BY <2>2, <2>3 DEF Msg
    <2>. QED  BY <1>2, <2>1, <2>4
<1>6. ASSUME NEW c \in {"inv", "tx", "headers", "addr"}, Unsolicited(c)
      PROVE  /\ RegisteredWaits' /\ SignalledOrMet'
             /\ crashed' = crashed \/ SignalCrashes
    <2>1. [cmd |-> c, to |-> NoRequest] \in Msg
        BY DEF Msg, Command, Queued
    <2>. QED  BY <1>2, <1>6, <2>1 DEF Unsolicited
<1>7. CASE Ignore \/ Drop
    BY <1>1, <1>7 DEF Ignore, Drop, calls, SparesBroadcasts
<1>8. CASE UNCHANGED vars
    BY <1>1, <1>8 DEF vars, calls, SparesBroadcasts
<1>. QED  BY <1>3, <1>4, <1>5, <1>6, <1>7, <1>8 DEF Next, Peer

\* FIX #1528: the one way in which a continuation is resumed twice is a broadcast's
\* timer that signals, from outside of the actor, a handler that dispatch() has
\* resumed with the reject of that broadcast: no shared handler, batch or cleanup.
THEOREM CrashIsASignal == Spec => OnlySignalCrashes
<1>1. Init => RegisteredWaits /\ SignalledOrMet
    BY DEF Init, RegisteredWaits, SignalledOrMet
<1>2. /\ IInv /\ AnswerIsAwaited /\ RegisteredWaits /\ SignalledOrMet /\ [Next]_vars
      => RegisteredWaits' /\ SignalledOrMet'
    BY CrashStep
<1>3. /\ IInv /\ AnswerIsAwaited /\ RegisteredWaits /\ SignalledOrMet /\ [Next]_vars
      => [crashed' /\ ~crashed =>
            \E r \in Request :
              /\ caller[r] = "signalling" /\ caller'[r] = "gaveUp"
              /\ r \notin broadcasts
              /\ got[First(r)] = [cmd |-> "reject", to |-> r]]_vars
    BY CrashStep DEF SignalCrashes
<1>. QED  BY <1>1, <1>2, <1>3, InductiveInvariant, AnswersAreAwaited, PTL
          DEF Spec, OnlySignalCrashes
=============================================================================
