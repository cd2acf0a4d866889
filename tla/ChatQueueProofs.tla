--------------------------- MODULE ChatQueueProofs ---------------------------
(* Proofs about ChatQueue.  The invariant follows a message through the places *)
(* it may be in: a new one is in none, one that is being sent directly is in   *)
(* no queue, and one that is shown is stored unless its send still runs.       *)
EXTENDS ChatQueue, SequenceTheorems, TLAPS

Places == {"idle", "ready", "begin", "dial", "exchange", "write", "wrote"}
Busy == {"begin", "write", "wrote"}

\* A task that sends has a message to send.
HasWork == \A f \in Flushers : pc[f] \in Busy => todo[f] # <<>>

\* Nothing was done yet with a message that was not written.
Fresh ==
    \A m \in Messages : shown[m] = "none" =>
        /\ pc[m] = "idle" /\ m \notin Elems(queue)
        /\ \A f \in Flushers : m \notin Held(f)

\* A message that is shown is stored, unless its direct send still runs.
StoredOrSending ==
    \A m \in Messages :
        shown[m] \notin {"none", "gone"} /\ stored[m] = "none" => pc[m] # "idle"

\* No message is sent by two ways: while its direct send runs it is neither
\* in the queue nor in a copy of it, whatever flushes are put back meanwhile
\* (sendTextMessage() queues a message only after its send has failed).
OneWay ==
    \A m \in Messages : pc[m] # "idle" =>
        m \notin Elems(queue) /\ \A f \in Flushers : m \notin Held(f)

MessageInv == saved = queue /\ HasWork /\ Fresh /\ StoredOrSending /\ OneWay

\* What a task has written was taken by a connection.
WroteIt == \A t \in Tasks : pc[t] = "wrote" => Current(t) \in written

IInv == TypeOK /\ MessageInv /\ WroteIt /\ OneDialer /\ SentIsWritten

-----------------------------------------------------------------------------
(* Facts about the definitions.                                              *)

\* Messages, flushes and the loop are different tasks.
LEMMA TaskFacts ==
    /\ \A m \in Messages : m \in Tasks /\ m \notin Flushers
    /\ \A f \in Flushers : f \in Tasks /\ f \notin Messages
    /\ \A t \in Tasks : t # Nobody /\ (t \in Messages \/ t \in Flushers)
    /\ Loop \in Flushers /\ Loop \notin Spawned /\ Spawned \subseteq Flushers
BY TasksAssumption DEF Tasks, Flushers

\* The messages of what Append, Tail and a sequence of one element hold.
LEMMA ElemsFacts ==
    ASSUME NEW s \in Seq(Messages)
    PROVE  /\ Elems(<<>>) = {}
           /\ \A m \in Messages : Append(s, m) \in Seq(Messages)
                                  /\ Elems(Append(s, m)) = Elems(s) \cup {m}
           /\ s # <<>> => /\ Head(s) \in Elems(s) /\ Head(s) \in Messages
                          /\ Tail(s) \in Seq(Messages)
                          /\ Elems(Tail(s)) \subseteq Elems(s)
                          /\ Len(s) = 1 => Elems(s) = {Head(s)}
                          /\ Len(s) # 1 => Tail(s) # <<>>
           /\ Elems(s) \subseteq Messages
<1>1. Elems(<<>>) = {}
    BY DEF Elems
<1>2. ASSUME NEW m \in Messages
      PROVE  Append(s, m) \in Seq(Messages) /\ Elems(Append(s, m)) = Elems(s) \cup {m}
    <2>. DEFINE a == Append(s, m)
    <2>1. /\ a \in Seq(Messages) /\ Len(a) = Len(s) + 1 /\ Len(s) \in Nat
          /\ \A i \in 1..Len(s) : a[i] = s[i]
          /\ a[Len(s) + 1] = m
        BY AppendProperties, LenProperties
    <2>2. DOMAIN a = 1..(Len(s) + 1) /\ DOMAIN s = 1..Len(s)
        BY <2>1, LenProperties
    <2>. HIDE DEF a
    <2>3. Elems(a) \subseteq Elems(s) \cup {m}
        <3>. SUFFICES ASSUME NEW i \in 1..(Len(s) + 1)
                      PROVE  a[i] \in Elems(s) \cup {m}
            BY <2>2 DEF Elems
        <3>1. CASE i = Len(s) + 1
            BY <3>1, <2>1
        <3>2. CASE i # Len(s) + 1
            <4>1. i \in 1..Len(s)
                BY <3>2, <2>1
            <4>. QED  BY <4>1, <2>1, <2>2 DEF Elems
        <3>. QED  BY <3>1, <3>2
    <2>4. m \in Elems(a)
        <3>1. Len(s) + 1 \in DOMAIN a
            BY <2>1, <2>2
        <3>. QED  BY <3>1, <2>1 DEF Elems
    <2>5. Elems(s) \subseteq Elems(a)
        <3>. SUFFICES ASSUME NEW i \in 1..Len(s)
                      PROVE  s[i] \in Elems(a)
            BY <2>2 DEF Elems
        <3>1. i \in DOMAIN a /\ a[i] = s[i]
            BY <2>1, <2>2
        <3>. QED  BY <3>1 DEF Elems
    <2>. QED  BY <2>1, <2>3, <2>4, <2>5 DEF a
<1>3. ASSUME s # <<>>
      PROVE  /\ Head(s) \in Elems(s) /\ Head(s) \in Messages
             /\ Tail(s) \in Seq(Messages)
             /\ Elems(Tail(s)) \subseteq Elems(s)
             /\ Len(s) = 1 => Elems(s) = {Head(s)}
             /\ Len(s) # 1 => Tail(s) # <<>>
    <2>1. /\ Head(s) \in Messages /\ Tail(s) \in Seq(Messages)
          /\ Len(Tail(s)) = Len(s) - 1 /\ Len(s) \in Nat \ {0}
          /\ \A i \in 1..Len(Tail(s)) : Tail(s)[i] = s[i + 1]
        BY <1>3, HeadTailProperties, EmptySeq
    <2>2. DOMAIN s = 1..Len(s) /\ DOMAIN Tail(s) = 1..(Len(s) - 1)
        BY <2>1, LenProperties
    <2>3. Head(s) = s[1] /\ 1 \in DOMAIN s
        BY <1>3, <2>1, <2>2
    <2>4. Elems(Tail(s)) \subseteq Elems(s)
        <3>. SUFFICES ASSUME NEW i \in 1..(Len(s) - 1)
                      PROVE  Tail(s)[i] \in Elems(s)
            BY <2>2 DEF Elems
        <3>1. i + 1 \in DOMAIN s /\ Tail(s)[i] = s[i + 1]
            BY <2>1, <2>2
        <3>. QED  BY <3>1 DEF Elems
    <2>5. Len(s) = 1 => Elems(s) = {Head(s)}
        <3>. SUFFICES ASSUME Len(s) = 1
                      PROVE  Elems(s) = {s[1]}
            BY <2>3
        <3>1. DOMAIN s = {1}
            BY <2>2
        <3>. QED  BY <3>1 DEF Elems
    <2>6. Len(s) # 1 => Tail(s) # <<>>
        <3>. DEFINE u == Tail(s)
        <3>1. Len(u) = Len(s) - 1 /\ Len(s) \in Nat
            BY <2>1
        <3>. HIDE DEF u
        <3>2. u = <<>> => Len(u) = 0
            OBVIOUS
        <3>3. Len(s) # 1 => u # <<>>
            BY <3>1, <3>2
        <3>. QED  BY <3>3 DEF u
    <2>. QED  BY <2>1, <2>3, <2>4, <2>5, <2>6 DEF Elems
<1>4. Elems(s) \subseteq Messages
    BY LenProperties, ElementOfSeq DEF Elems
<1>. QED  BY <1>1, <1>2, <1>3, <1>4

\* Marking the contact online changes nothing but an idle flush, to ready.
LEMMA OnlineFacts ==
    ASSUME NEW p \in [Tasks -> Places], NEW q \in Online(p)
    PROVE  /\ q \in [Tasks -> Places]
           /\ \A u \in Tasks :
                 q[u] = p[u] \/ (u \in Spawned /\ p[u] = "idle" /\ q[u] = "ready")
BY TaskFacts DEF Online, Places

\* A flush that is done with one message: what it holds and what is queued comes
\* from what it held.
LEMMA FlushFacts ==
    ASSUME TypeOK, saved = queue, NEW f \in Flushers, todo[f] # <<>>,
           NEW kept \in Seq(Messages), Elems(kept) \subseteq Held(f), FlushStep(f, kept)
    PROVE  /\ queue' \in Seq(Messages) /\ saved' = queue'
           /\ todo' \in [Flushers -> Seq(Messages)] /\ rest' \in [Flushers -> Seq(Messages)]
           /\ Elems(queue') \subseteq Elems(queue) \cup Held(f)
           /\ \A g \in Flushers : Held(g)' \subseteq Held(g)
           /\ \A g \in Flushers \ {f} : todo'[g] = todo[g]
           /\ Len(todo[f]) # 1 => todo'[f] # <<>>
           /\ \A m \in Elems(queue) \ Elems(queue') : m \notin Elems(kept)
<1>1. todo[f] \in Seq(Messages) /\ <<>> \in Seq(Messages)
    BY EmptySeq DEF TypeOK
<1>2. /\ Tail(todo[f]) \in Seq(Messages)
      /\ Elems(Tail(todo[f])) \subseteq Elems(todo[f])
      /\ Len(todo[f]) # 1 => Tail(todo[f]) # <<>>
      /\ Elems(<<>>) = {}
    BY <1>1, ElemsFacts
<1>3. CASE Len(todo[f]) = 1
    <2>1. /\ queue' = kept /\ saved' = kept
          /\ todo' = [todo EXCEPT ![f] = <<>>] /\ rest' = [rest EXCEPT ![f] = <<>>]
        BY <1>3 DEF FlushStep, SaveQueue
    <2>2. \A g \in Flushers : Held(g)' \subseteq Held(g)
        BY <2>1, <1>2 DEF Held, TypeOK
    <2>. QED  BY <2>1, <2>2, <1>1, <1>3 DEF TypeOK
<1>4. CASE Len(todo[f]) # 1
    <2>1. /\ queue' = queue /\ saved' = saved
          /\ todo' = [todo EXCEPT ![f] = Tail(@)] /\ rest' = [rest EXCEPT ![f] = kept]
        BY <1>4 DEF FlushStep, queueVars
    <2>2. ASSUME NEW g \in Flushers  PROVE  Held(g)' \subseteq Held(g)
        <3>1. CASE g = f
            <4>1. todo'[g] = Tail(todo[f]) /\ rest'[g] = kept
                BY <3>1, <2>1 DEF TypeOK
            <4>. QED  BY <4>1, <3>1, <1>2 DEF Held
        <3>2. CASE g # f
            BY <3>2, <2>1 DEF Held, TypeOK
        <3>. QED  BY <3>1, <3>2
    <2>. QED  BY <2>1, <2>2, <1>1, <1>2, <1>4 DEF TypeOK
<1>. QED  BY <1>3, <1>4

\* A send that failed: the task's message is queued, or kept by its flush, and
\* nothing else is told.
LEMMA FailedFacts ==
    ASSUME TypeOK, MessageInv, NEW t \in Tasks, NEW offline \in BOOLEAN, HasMessage(t),
           pc[t] # "idle", SendFailed(t, offline)
    PROVE  /\ pc' \in [Tasks -> Places]
           /\ \A u \in Tasks : pc'[u] = IF u = t THEN After(t) ELSE pc[u]
           /\ shown' \in [Messages -> Shown] /\ stored' \in [Messages -> Stored]
           /\ queue' \in Seq(Messages) /\ saved' = queue'
           /\ todo' \in [Flushers -> Seq(Messages)] /\ rest' \in [Flushers -> Seq(Messages)]
           /\ \A g \in Flushers : Held(g)' \subseteq Held(g)
           /\ \A g \in Flushers \ {t} : todo'[g] = todo[g]
           /\ t \in Flushers /\ Len(todo[t]) # 1 => todo'[t] # <<>>
           /\ \A m \in Messages : m # t => shown'[m] = shown[m] /\ stored'[m] = stored[m]
           /\ t \in Messages => shown'[t] \in {"queued", "failed"} /\ stored'[t] = "unsent"
           /\ t \in Messages => Elems(queue') \subseteq Elems(queue) \cup {t}
           /\ t \in Flushers => Elems(queue') \subseteq Elems(queue) \cup Held(t)
           /\ \A m \in Elems(queue) \ Elems(queue') : t \in Flushers /\ m \notin Held(t)
<1>1. /\ pc' = [pc EXCEPT ![t] = After(t)]
      /\ After(t) \in {"idle", "begin"}
    BY DEF SendFailed, After
<1>2. pc' \in [Tasks -> Places] /\ \A u \in Tasks : pc'[u] = IF u = t THEN After(t) ELSE pc[u]
    BY <1>1 DEF TypeOK, Places
<1>3. CASE t \in Messages
    <2>1. /\ t \notin Flushers
          /\ shown' = [shown EXCEPT ![t] = IF offline THEN "queued" ELSE "failed"]
          /\ stored' = [stored EXCEPT ![t] = "unsent"]
          /\ IF offline THEN SaveQueue(Append(queue, t)) ELSE UNCHANGED queueVars
          /\ todo' = todo /\ rest' = rest
        BY <1>3, TaskFacts DEF SendFailed, flushVars
    <2>2. Append(queue, t) \in Seq(Messages) /\ Elems(Append(queue, t)) = Elems(queue) \cup {t}
        BY <1>3, ElemsFacts DEF TypeOK
    <2>3. /\ queue' \in Seq(Messages) /\ saved' = queue'
          /\ Elems(queue) \subseteq Elems(queue')
          /\ Elems(queue') \subseteq Elems(queue) \cup {t}
        BY <2>1, <2>2 DEF SaveQueue, queueVars, TypeOK, MessageInv
    <2>4. /\ shown' \in [Messages -> Shown] /\ stored' \in [Messages -> Stored]
          /\ \A m \in Messages : m # t => shown'[m] = shown[m] /\ stored'[m] = stored[m]
          /\ shown'[t] \in {"queued", "failed"} /\ stored'[t] = "unsent"
        BY <2>1, <1>3 DEF TypeOK, Shown, Stored
    <2>5. \A g \in Flushers : Held(g)' = Held(g)
        BY <2>1 DEF Held
    <2>6. todo' \in [Flushers -> Seq(Messages)] /\ rest' \in [Flushers -> Seq(Messages)]
        BY <2>1 DEF TypeOK
    <2>. QED  BY <1>2, <2>1, <2>3, <2>4, <2>5, <2>6
<1>4. CASE t \in Flushers
    <2>1. /\ t \notin Messages /\ todo[t] # <<>>
          /\ FlushStep(t, Append(rest[t], Head(todo[t])))
          /\ shown' = shown /\ stored' = stored
        BY <1>4, TaskFacts DEF SendFailed, HasMessage, messageVars
    <2>2. todo[t] \in Seq(Messages) /\ rest[t] \in Seq(Messages)
        BY <1>4 DEF TypeOK
    <2>. DEFINE kept == Append(rest[t], Head(todo[t]))
    <2>3. Head(todo[t]) \in Elems(todo[t]) /\ Head(todo[t]) \in Messages
        BY <2>1, <2>2, ElemsFacts
    <2>4. kept \in Seq(Messages) /\ Elems(kept) = Elems(rest[t]) \cup {Head(todo[t])}
        BY <2>2, <2>3, ElemsFacts
    <2>5. Elems(kept) \subseteq Held(t)
        BY <2>3, <2>4 DEF Held
    <2>6. \A m \in Held(t) : Len(todo[t]) = 1 => m \in Elems(kept)
        BY <2>1, <2>2, <2>4, ElemsFacts DEF Held
    <2>7. FlushStep(t, kept)
        BY <2>1
    <2>. HIDE DEF kept
    <2>8. /\ queue' \in Seq(Messages) /\ saved' = queue'
          /\ todo' \in [Flushers -> Seq(Messages)] /\ rest' \in [Flushers -> Seq(Messages)]
          /\ Elems(queue') \subseteq Elems(queue) \cup Held(t)
          /\ \A g \in Flushers : Held(g)' \subseteq Held(g)
          /\ \A g \in Flushers \ {t} : todo'[g] = todo[g]
          /\ Len(todo[t]) # 1 => todo'[t] # <<>>
          /\ \A m \in Elems(queue) \ Elems(queue') : m \notin Elems(kept)
        BY <1>4, <2>1, <2>4, <2>5, <2>7, FlushFacts DEF MessageInv
    <2>9. \A m \in Elems(queue) \ Elems(queue') : m \notin Held(t)
        <3>1. Len(todo[t]) # 1 => queue' = queue
            BY <2>7 DEF FlushStep, queueVars
        <3>. QED  BY <3>1, <2>6, <2>8
    <2>. QED  BY <1>2, <1>4, <2>1, <2>8, <2>9 DEF TypeOK
<1>. QED  BY <1>3, <1>4, TaskFacts

-----------------------------------------------------------------------------
(* The invariant about the messages, step by step.                           *)

\* A step that moves tasks only, none of a message from or to idle.
LEMMA MoveKeeps ==
    ASSUME TypeOK, MessageInv, UNCHANGED <<messageVars, queueVars, flushVars>>,
           \A m \in Messages : pc'[m] = "idle" <=> pc[m] = "idle",
           \A f \in Flushers : pc'[f] \in Busy => todo[f] # <<>>
    PROVE  MessageInv'
<1>1. /\ shown' = shown /\ stored' = stored /\ queue' = queue /\ saved' = saved
      /\ todo' = todo /\ rest' = rest
    BY DEF messageVars, queueVars, flushVars
<1>2. \A f \in Flushers : Held(f)' = Held(f)
    BY <1>1 DEF Held
<1>. QED  BY <1>1, <1>2 DEF MessageInv, HasWork, Fresh, StoredOrSending, OneWay

\* A send that failed.
LEMMA FailedKeeps ==
    ASSUME TypeOK, MessageInv, NEW t \in Tasks, NEW offline \in BOOLEAN, HasMessage(t),
           pc[t] # "idle", SendFailed(t, offline)
    PROVE  MessageInv'
<1>1. /\ \A u \in Tasks : pc'[u] = IF u = t THEN After(t) ELSE pc[u]
      /\ saved' = queue'
      /\ \A g \in Flushers : Held(g)' \subseteq Held(g)
      /\ \A g \in Flushers \ {t} : todo'[g] = todo[g]
      /\ t \in Flushers /\ Len(todo[t]) # 1 => todo'[t] # <<>>
      /\ \A m \in Messages : m # t => shown'[m] = shown[m] /\ stored'[m] = stored[m]
      /\ t \in Messages => shown'[t] \in {"queued", "failed"} /\ stored'[t] = "unsent"
      /\ t \in Messages => Elems(queue') \subseteq Elems(queue) \cup {t}
      /\ t \in Flushers => Elems(queue') \subseteq Elems(queue) \cup Held(t)
    BY FailedFacts
<1>2. HasWork'
    <2>. SUFFICES ASSUME NEW f \in Flushers, pc'[f] \in Busy  PROVE  todo'[f] # <<>>
        BY DEF HasWork
    <2>1. CASE f = t
        <3>1. pc'[f] = After(t)
            BY <2>1, <1>1
        <3>2. Len(todo[t]) # 1
            BY <3>1, <2>1, TaskFacts DEF After, Busy
        <3>. QED  BY <3>2, <2>1, <1>1
    <2>2. CASE f # t
        BY <2>2, <1>1, TaskFacts DEF MessageInv, HasWork
    <2>. QED  BY <2>1, <2>2
<1>3. t \in Messages => After(t) = "idle"
    BY DEF After
<1>4. ASSUME NEW m \in Messages, m # t
      PROVE  /\ pc'[m] = pc[m]
             /\ m \in Elems(queue') => m \in Elems(queue) \/ \E f \in Flushers : m \in Held(f)
    BY <1>4, <1>1, TaskFacts
<1>5. ASSUME NEW m \in Messages, m = t  PROVE  pc'[m] = "idle" /\ m \in Messages
    BY <1>5, <1>1, <1>3
<1>6. Fresh'
    <2>. SUFFICES ASSUME NEW m \in Messages, shown'[m] = "none"
                  PROVE  /\ pc'[m] = "idle" /\ m \notin Elems(queue')
                         /\ \A f \in Flushers : m \notin Held(f)'
        BY DEF Fresh
    <2>1. m # t /\ shown[m] = "none"
        BY <1>1
    <2>. QED  BY <2>1, <1>1, <1>4 DEF MessageInv, Fresh
<1>7. StoredOrSending'
    BY <1>1, <1>4 DEF MessageInv, StoredOrSending
<1>8. OneWay'
    <2>. SUFFICES ASSUME NEW m \in Messages, pc'[m] # "idle"
                  PROVE  m \notin Elems(queue') /\ \A f \in Flushers : m \notin Held(f)'
        BY DEF OneWay
    <2>1. m # t
        BY <1>5
    <2>. QED  BY <2>1, <1>1, <1>4 DEF MessageInv, OneWay
<1>. QED  BY <1>1, <1>2, <1>6, <1>7, <1>8 DEF MessageInv

\* A task that sends has a message, and a message that is being sent directly is
\* not idle afterwards.
LEMMA SenderHasMessage ==
    ASSUME TypeOK, MessageInv, NEW t \in Tasks, pc[t] \in Busy
    PROVE  HasMessage(t)
BY TaskFacts DEF HasMessage, MessageInv, HasWork

\* sendTextMessage()
LEMMA ComposeKeeps ==
    ASSUME TypeOK, MessageInv, NEW m \in Messages, Compose(m)
    PROVE  MessageInv'
<1>1. /\ shown[m] = "none" /\ pc[m] = "idle" /\ m \notin Elems(queue)
      /\ \A f \in Flushers : m \notin Held(f)
      /\ m \in Tasks /\ m \notin Flushers
    BY TaskFacts DEF Compose, MessageInv, Fresh
<1>2. todo' = todo /\ rest' = rest /\ \A f \in Flushers : Held(f)' = Held(f)
    BY DEF Compose, flushVars, Held
<1>3. CASE queue # <<>> /\ stored' = [stored EXCEPT ![m] = "unsent"]
           /\ shown' = [shown EXCEPT ![m] = "queued"]
           /\ SaveQueue(Append(queue, m)) /\ UNCHANGED pc
    <2>1. Elems(Append(queue, m)) = Elems(queue) \cup {m}
        BY ElemsFacts DEF TypeOK
    <2>2. saved' = queue' /\ Elems(queue') = Elems(queue) \cup {m} /\ pc' = pc
        BY <1>3, <2>1 DEF SaveQueue
    <2>3. \A n \in Messages : /\ shown'[n] = IF n = m THEN "queued" ELSE shown[n]
                              /\ stored'[n] = IF n = m THEN "unsent" ELSE stored[n]
        BY <1>3 DEF TypeOK
    <2>4. HasWork'
        BY <1>2, <2>2 DEF MessageInv, HasWork
    <2>5. Fresh' /\ StoredOrSending'
        BY <1>2, <2>2, <2>3 DEF MessageInv, Fresh, StoredOrSending
    <2>6. OneWay'
        BY <1>1, <1>2, <2>2 DEF MessageInv, OneWay
    <2>. QED  BY <2>2, <2>4, <2>5, <2>6 DEF MessageInv
<1>4. CASE queue = <<>> /\ shown' = [shown EXCEPT ![m] = "sending"]
           /\ pc' = [pc EXCEPT ![m] = "begin"] /\ UNCHANGED <<stored, queueVars>>
    <2>1. saved' = saved /\ queue' = queue /\ stored' = stored
        BY <1>4 DEF queueVars
    <2>2. /\ \A n \in Messages : shown'[n] = IF n = m THEN "sending" ELSE shown[n]
          /\ \A t \in Tasks : pc'[t] = IF t = m THEN "begin" ELSE pc[t]
        BY <1>4, <1>1 DEF TypeOK
    <2>3. HasWork'
        BY <1>1, <1>2, <2>2, TaskFacts DEF MessageInv, HasWork
    <2>4. Fresh' /\ StoredOrSending'
        BY <1>2, <2>1, <2>2, TaskFacts DEF MessageInv, Fresh, StoredOrSending
    <2>5. OneWay'
        BY <1>1, <1>2, <2>1, <2>2, TaskFacts DEF MessageInv, OneWay
    <2>. QED  BY <2>1, <2>3, <2>4, <2>5 DEF MessageInv
<1>. QED  BY <1>3, <1>4 DEF Compose

\* sendMessage() returns.
LEMMA FinishKeeps ==
    ASSUME TypeOK, MessageInv, NEW t \in Tasks, Finish(t)
    PROVE  /\ MessageInv'
           /\ pc' \in [Tasks -> Places]
           /\ \A u \in Tasks : pc'[u] # "ready" =>
                 pc'[u] = IF u = t THEN After(t) ELSE pc[u]
           /\ shown' \in [Messages -> Shown] /\ stored' \in [Messages -> Stored]
           /\ queue' \in Seq(Messages)
           /\ todo' \in [Flushers -> Seq(Messages)] /\ rest' \in [Flushers -> Seq(Messages)]
           /\ \A g \in Flushers \ {t} : todo'[g] = todo[g]
           /\ \A m \in Messages : m # Current(t) => shown'[m] = shown[m] /\ stored'[m] = stored[m]
           /\ \A m \in Elems(queue) \ Elems(queue') :
                 t \in Flushers /\ (m = Current(t) \/ m \notin Held(t))
<1>1. pc[t] = "wrote" /\ HasMessage(t) /\ After(t) \in {"idle", "begin"}
    BY SenderHasMessage DEF Finish, Busy, After
<1>. DEFINE p == [pc EXCEPT ![t] = After(t)]
<1>2. p \in [Tasks -> Places] /\ pc' \in Online(p)
    BY <1>1 DEF Finish, TypeOK, Places
<1>3. \A u \in Tasks : p[u] = IF u = t THEN After(t) ELSE pc[u]
    BY DEF TypeOK
<1>. HIDE DEF p
<1>4. /\ pc' \in [Tasks -> Places]
      /\ \A u \in Tasks :
            pc'[u] = p[u] \/ (u \in Spawned /\ p[u] = "idle" /\ pc'[u] = "ready")
    BY <1>2, OnlineFacts
<1>5. \A m \in Messages : m \in Tasks /\ pc'[m] = p[m]
    BY <1>4, TasksAssumption, TaskFacts
<1>6. \A u \in Tasks : pc'[u] # "ready" => pc'[u] = IF u = t THEN After(t) ELSE pc[u]
    BY <1>3, <1>4
<1>7. Current(t) \in Messages /\ (t \in Flushers => Current(t) \in Held(t) /\ todo[t] # <<>>)
    <2>1. CASE t \in Messages
        BY <2>1, TaskFacts DEF Current
    <2>2. CASE t \in Flushers
        <3>1. t \notin Messages /\ todo[t] # <<>> /\ todo[t] \in Seq(Messages)
            BY <2>2, <1>1, TaskFacts DEF HasMessage, TypeOK
        <3>. QED  BY <3>1, ElemsFacts DEF Current, Held
    <2>. QED  BY <2>1, <2>2, TaskFacts
<1>8. \A m \in Messages : /\ shown'[m] = IF m = Current(t) THEN "sent" ELSE shown[m]
                          /\ stored'[m] = IF m = Current(t) THEN "sent" ELSE stored[m]
    BY <1>7 DEF Finish, TypeOK
<1>9. shown' \in [Messages -> Shown] /\ stored' \in [Messages -> Stored]
    BY <1>7 DEF Finish, TypeOK, Shown, Stored
<1>10. /\ queue' \in Seq(Messages) /\ saved' = queue'
       /\ todo' \in [Flushers -> Seq(Messages)] /\ rest' \in [Flushers -> Seq(Messages)]
       /\ \A g \in Flushers : Held(g)' \subseteq Held(g)
       /\ \A g \in Flushers \ {t} : todo'[g] = todo[g]
       /\ t \in Flushers /\ Len(todo[t]) # 1 => todo'[t] # <<>>
       /\ t \in Messages => queue' = queue
       /\ t \in Flushers => Elems(queue') \subseteq Elems(queue) \cup Held(t)
       /\ \A m \in Elems(queue) \ Elems(queue') :
             t \in Flushers /\ (m = Current(t) \/ m \notin Held(t))
    <2>1. CASE t \in Messages
        <3>1. t \notin Flushers /\ queue' = queue /\ saved' = saved /\ todo' = todo /\ rest' = rest
            BY <2>1, TaskFacts DEF Finish, queueVars, flushVars
        <3>2. \A g \in Flushers : Held(g)' = Held(g)
            BY <3>1 DEF Held
        <3>. QED  BY <3>1, <3>2 DEF TypeOK, MessageInv
    <2>2. CASE t \in Flushers
        <3>1. t \notin Messages /\ FlushStep(t, rest[t]) /\ rest[t] \in Seq(Messages)
            BY <2>2, TaskFacts DEF Finish, TypeOK
        <3>2. Elems(rest[t]) \subseteq Held(t)
            BY DEF Held
        <3>3. /\ queue' \in Seq(Messages) /\ saved' = queue'
              /\ todo' \in [Flushers -> Seq(Messages)] /\ rest' \in [Flushers -> Seq(Messages)]
              /\ Elems(queue') \subseteq Elems(queue) \cup Held(t)
              /\ \A g \in Flushers : Held(g)' \subseteq Held(g)
              /\ \A g \in Flushers \ {t} : todo'[g] = todo[g]
              /\ Len(todo[t]) # 1 => todo'[t] # <<>>
              /\ \A m \in Elems(queue) \ Elems(queue') : m \notin Elems(rest[t])
            BY <2>2, <3>1, <3>2, <1>7, FlushFacts DEF MessageInv
        <3>4. Len(todo[t]) # 1 => queue' = queue
            BY <3>1 DEF FlushStep, queueVars
        <3>5. Len(todo[t]) = 1 => Elems(todo[t]) = {Current(t)}
            BY <2>2, <3>1, <1>7, ElemsFacts DEF Current, TypeOK
        <3>6. \A m \in Elems(queue) \ Elems(queue') : m = Current(t) \/ m \notin Held(t)
            BY <3>3, <3>4, <3>5 DEF Held
        <3>. QED  BY <2>2, <3>1, <3>3, <3>6
    <2>. QED  BY <2>1, <2>2, TaskFacts
<1>11. t \in Messages => After(t) = "idle" /\ Current(t) = t
    BY DEF After, Current
<1>12. HasWork'
    <2>. SUFFICES ASSUME NEW f \in Flushers, pc'[f] \in Busy  PROVE  todo'[f] # <<>>
        BY DEF HasWork
    <2>1. f \in Tasks /\ f \notin Messages /\ pc'[f] = IF f = t THEN After(t) ELSE pc[f]
        BY <1>6, TaskFacts DEF Busy
    <2>2. CASE f = t
        <3>1. Len(todo[t]) # 1
            BY <2>1, <2>2 DEF After, Busy
        <3>. QED  BY <3>1, <2>2, <1>10
    <2>3. CASE f # t
        BY <2>1, <2>3, <1>10 DEF MessageInv, HasWork
    <2>. QED  BY <2>2, <2>3
<1>13. ASSUME NEW m \in Messages, m # t
       PROVE  /\ pc'[m] = pc[m]
              /\ m \in Elems(queue') => m \in Elems(queue) \/ \E f \in Flushers : m \in Held(f)
    BY <1>13, <1>3, <1>5, <1>10, TaskFacts
<1>14. ASSUME NEW m \in Messages, m = t  PROVE  pc'[m] = "idle" /\ shown'[m] = "sent" /\ stored'[m] = "sent"
    BY <1>14, <1>3, <1>5, <1>8, <1>11
<1>15. Fresh'
    <2>. SUFFICES ASSUME NEW m \in Messages, shown'[m] = "none"
                  PROVE  /\ pc'[m] = "idle" /\ m \notin Elems(queue')
                         /\ \A f \in Flushers : m \notin Held(f)'
        BY DEF Fresh
    <2>1. m # t /\ shown[m] = "none"
        BY <1>8, <1>14
    <2>. QED  BY <2>1, <1>10, <1>13 DEF MessageInv, Fresh
<1>16. StoredOrSending'
    BY <1>8, <1>13, <1>14 DEF MessageInv, StoredOrSending
<1>17. OneWay'
    <2>. SUFFICES ASSUME NEW m \in Messages, pc'[m] # "idle"
                  PROVE  m \notin Elems(queue') /\ \A f \in Flushers : m \notin Held(f)'
        BY DEF OneWay
    <2>1. m # t
        BY <1>14
    <2>. QED  BY <2>1, <1>10, <1>13 DEF MessageInv, OneWay
<1>. QED  BY <1>4, <1>6, <1>8, <1>9, <1>10, <1>12, <1>15, <1>16, <1>17 DEF MessageInv

\* A flush copies the queue: flushQueue(), or retryQueuedMessages().
LEMMA CopyKeeps ==
    ASSUME TypeOK, MessageInv, NEW f \in Flushers, RunFlush(f) \/ (LoopRetry /\ f = Loop)
    PROVE  MessageInv'
<1>1. /\ todo' = [todo EXCEPT ![f] = queue] /\ rest' = rest
      /\ queue' = queue /\ saved' = saved /\ shown' = shown /\ stored' = stored
      /\ pc' = [pc EXCEPT ![f] = IF queue = <<>> THEN "idle" ELSE "begin"]
    BY DEF RunFlush, LoopRetry, messageVars, queueVars
<1>2. \A u \in Tasks : pc'[u] = IF u = f THEN (IF queue = <<>> THEN "idle" ELSE "begin") ELSE pc[u]
    BY <1>1 DEF TypeOK
<1>3. \A m \in Messages : m # f /\ m \in Tasks /\ pc'[m] = pc[m]
    BY <1>2, TaskFacts
<1>4. /\ \A g \in Flushers : todo'[g] = IF g = f THEN queue ELSE todo[g]
      /\ \A g \in Flushers : \A m : m \in Held(g)' => m \in Held(g) \/ m \in Elems(queue)
    BY <1>1 DEF TypeOK, Held
<1>5. HasWork'
    BY <1>2, <1>4, TaskFacts DEF MessageInv, HasWork, Busy
<1>6. Fresh' /\ StoredOrSending' /\ OneWay'
    BY <1>1, <1>3, <1>4 DEF MessageInv, Fresh, StoredOrSending, OneWay
<1>. QED  BY <1>1, <1>5, <1>6 DEF MessageInv

\* markMessageDelivered()
LEMMA AckKeeps ==
    ASSUME TypeOK, MessageInv, NEW m \in Messages, Ack(m)
    PROVE  MessageInv'
<1>1. /\ saved' = saved /\ queue' = queue /\ todo' = todo /\ rest' = rest /\ pc' = pc
      /\ shown[m] \notin {"none", "gone"}
      /\ \A n \in Messages : shown'[n] = (IF n = m THEN "delivered" ELSE shown[n])
                             /\ stored'[n] = (IF n = m THEN "delivered" ELSE stored[n])
    BY DEF Ack, queueVars, flushVars, TypeOK
<1>2. \A f \in Flushers : Held(f)' = Held(f)
    BY <1>1 DEF Held
<1>. QED  BY <1>1, <1>2 DEF MessageInv, HasWork, Fresh, StoredOrSending, OneWay

\* What is restored is stored, and new messages stay new.
LEMMA RestoredFacts ==
    ASSUME TypeOK, NEW m \in Messages
    PROVE  /\ Restored(m) \in Shown
           /\ Restored(m) = "none" <=> shown[m] = "none"
           /\ Restored(m) = "gone" => shown[m] # "none" /\ stored[m] = "none"
           /\ Restored(m) \notin {"none", "gone"} => stored[m] # "none"
           /\ Restored(m) \in {"sent", "delivered"} => stored[m] \in {"sent", "delivered"}
<1>1. shown[m] \in Shown /\ stored[m] \in Stored
    BY DEF TypeOK
<1>2. CASE shown[m] = "none"
    BY <1>2 DEF Restored, Shown
<1>3. CASE shown[m] # "none" /\ stored[m] = "none"
    BY <1>3 DEF Restored, Shown
<1>4. CASE shown[m] # "none" /\ stored[m] = "unsent"
    BY <1>4 DEF Restored, Shown
<1>5. CASE shown[m] # "none" /\ stored[m] \in {"sent", "delivered"}
    <2>1. Restored(m) = stored[m]
        BY <1>5 DEF Restored
    <2>. QED  BY <2>1, <1>5 DEF Shown
<1>. QED  BY <1>1, <1>2, <1>3, <1>4, <1>5 DEF Stored

\* The app is killed and starts again.
LEMMA CrashKeepsMessages ==
    ASSUME TypeOK, MessageInv, Crash
    PROVE  MessageInv'
<1>1. /\ saved' = queue' /\ queue' = queue /\ stored' = stored
      /\ \A m \in Messages : shown'[m] = Restored(m)
      /\ \A t \in Tasks : pc'[t] = "idle"
      /\ \A f \in Flushers : todo'[f] = <<>> /\ rest'[f] = <<>>
    BY DEF Crash, MessageInv
<1>2. \A f \in Flushers : Held(f)' = {}
    BY <1>1 DEF Held, Elems
<1>3. HasWork' /\ OneWay'
    BY <1>1, TaskFacts DEF HasWork, Busy, OneWay
<1>4. Fresh' /\ StoredOrSending'
    BY <1>1, <1>2, RestoredFacts, TaskFacts DEF MessageInv, Fresh, StoredOrSending
<1>. QED  BY <1>1, <1>3, <1>4 DEF MessageInv

-----------------------------------------------------------------------------
(* The steps of a task that sends.                                           *)

\* The three outcomes of beginning a send.
LEMMA BeginCases ==
    ASSUME TypeOK, MessageInv, NEW t \in Tasks, Begin(t)
    PROVE  /\ HasMessage(t) /\ pc[t] = "begin" /\ link' = link
           /\ \/ /\ pc' = [pc EXCEPT ![t] = "write"] /\ dialer' = dialer
                 /\ UNCHANGED <<messageVars, queueVars, flushVars>>
              \/ /\ dialer = Nobody /\ dialer' = t
                 /\ pc' = [pc EXCEPT ![t] = "dial"]
                 /\ UNCHANGED <<messageVars, queueVars, flushVars>>
              \/ /\ dialer' = dialer
                 /\ \E offline \in BOOLEAN : SendFailed(t, offline)
<1>1. pc[t] \in Busy
    BY DEF Begin, Busy
<1>. QED  BY <1>1, SenderHasMessage DEF Begin

\* A dial that fails.
LEMMA DialFailCases ==
    ASSUME TypeOK, NEW t \in Tasks, DialFail(t)
    PROVE  /\ pc[t] \in {"dial", "exchange"} /\ dialer' = Nobody
           /\ \/ HasMessage(t) /\ \E offline \in BOOLEAN : SendFailed(t, offline)
              \/ /\ t \in Flushers
                 /\ pc' = [pc EXCEPT ![t] = "idle"]
                 /\ UNCHANGED <<messageVars, queueVars, flushVars>>
<1>1. ~HasMessage(t) => t \in Flushers
    BY DEF HasMessage
<1>. QED  BY <1>1 DEF DialFail

\* A send that fails, on its connection or on one that is gone.
LEMMA WriteCases ==
    ASSUME TypeOK, MessageInv, NEW t \in Tasks, WriteFail(t) \/ WriteLost(t)
    PROVE  /\ HasMessage(t) /\ pc[t] = "write" /\ dialer' = dialer
           /\ \E offline \in BOOLEAN : SendFailed(t, offline)
<1>1. pc[t] \in Busy
    BY DEF WriteFail, WriteLost, Busy
<1>. QED  BY <1>1, SenderHasMessage DEF WriteFail, WriteLost

\* A dial that succeeds: its task sends, if it has a message.
LEMMA DialOkFacts ==
    ASSUME TypeOK, NEW t \in Tasks, DialOk(t)
    PROVE  /\ pc[t] = "exchange" /\ pc' \in [Tasks -> Places]
           /\ pc'[t] \in {"idle", "ready", "write"}
           /\ pc'[t] = "write" \/ (t \in Flushers /\ ~HasMessage(t))
           /\ pc'[t] = "write" => HasMessage(t)
           /\ \A u \in Tasks \ {t} :
                 pc'[u] = pc[u] \/ (u \in Spawned /\ pc[u] = "idle" /\ pc'[u] = "ready")
<1>. DEFINE p == [pc EXCEPT ![t] = IF HasMessage(t) THEN "write" ELSE "idle"]
<1>1. p \in [Tasks -> Places] /\ pc' \in Online(p) /\ pc[t] = "exchange"
    BY DEF DialOk, TypeOK, Places
<1>2. \A u \in Tasks : p[u] = IF u = t THEN (IF HasMessage(t) THEN "write" ELSE "idle") ELSE pc[u]
    BY DEF TypeOK
<1>. HIDE DEF p
<1>3. /\ pc' \in [Tasks -> Places]
      /\ \A u \in Tasks :
            pc'[u] = p[u] \/ (u \in Spawned /\ p[u] = "idle" /\ pc'[u] = "ready")
    BY <1>1, OnlineFacts
<1>4. ~HasMessage(t) => t \in Flushers
    BY DEF HasMessage
<1>. QED  BY <1>1, <1>2, <1>3, <1>4

\* The contact comes online by itself.
LEMMA ContactFacts ==
    ASSUME TypeOK, Incoming \/ Ping
    PROVE  /\ pc' \in [Tasks -> Places]
           /\ \A u \in Tasks :
                 pc'[u] = pc[u] \/ (u \in Spawned /\ pc[u] = "idle" /\ pc'[u] = "ready")
<1>1. pc \in [Tasks -> Places] /\ pc' \in Online(pc)
    BY DEF Incoming, Ping, TypeOK, Places
<1>. QED  BY <1>1, OnlineFacts

-----------------------------------------------------------------------------
(* The invariant.                                                            *)

\* No step of the task t breaks the invariant about the messages.
LEMMA TaskKeepsMessages ==
    ASSUME TypeOK, MessageInv, NEW t \in Tasks,
           SendStep(t) \/ DialStep(t) \/ DialFail(t) \/ WriteFail(t)
    PROVE  MessageInv'
<1>1. CASE Begin(t)
    <2>1. HasMessage(t) /\ pc[t] = "begin"
        BY <1>1, BeginCases
    <2>2. CASE /\ pc' = [pc EXCEPT ![t] = "write"] \/ pc' = [pc EXCEPT ![t] = "dial"]
               /\ UNCHANGED <<messageVars, queueVars, flushVars>>
        <3>1. /\ \A m \in Messages : pc'[m] = "idle" <=> pc[m] = "idle"
              /\ \A f \in Flushers : pc'[f] \in Busy => pc[f] \in Busy
            BY <2>1, <2>2, TaskFacts DEF TypeOK, Busy
        <3>. QED  BY <2>2, <3>1, MoveKeeps DEF MessageInv, HasWork
    <2>3. CASE \E offline \in BOOLEAN : SendFailed(t, offline)
        BY <2>1, <2>3, FailedKeeps
    <2>. QED  BY <1>1, <2>2, <2>3, BeginCases
<1>2. CASE DialReady(t)
    <2>1. /\ pc[t] = "dial" /\ pc' = [pc EXCEPT ![t] = "exchange"]
          /\ UNCHANGED <<messageVars, queueVars, flushVars>>
        BY <1>2 DEF DialReady
    <2>2. /\ \A m \in Messages : pc'[m] = "idle" <=> pc[m] = "idle"
          /\ \A f \in Flushers : pc'[f] \in Busy => pc[f] \in Busy
        BY <2>1, TaskFacts DEF TypeOK, Busy
    <2>. QED  BY <2>1, <2>2, MoveKeeps DEF MessageInv, HasWork
<1>3. CASE DialOk(t)
    <2>1. UNCHANGED <<messageVars, queueVars, flushVars>>
        BY <1>3 DEF DialOk
    <2>2. \A m \in Messages : pc'[m] = "idle" <=> pc[m] = "idle"
        BY <1>3, DialOkFacts, TaskFacts
    <2>3. ASSUME NEW f \in Flushers, pc'[f] \in Busy  PROVE  todo[f] # <<>>
        <3>1. CASE f = t
            BY <1>3, <2>3, <3>1, DialOkFacts DEF Busy, HasMessage
        <3>2. CASE f # t
            <4>1. pc[f] \in Busy
                BY <1>3, <2>3, <3>2, DialOkFacts, TaskFacts DEF Busy
            <4>. QED  BY <4>1 DEF MessageInv, HasWork
        <3>. QED  BY <3>1, <3>2
    <2>. QED  BY <2>1, <2>2, <2>3, MoveKeeps
<1>4. CASE WriteOk(t)
    <2>1. /\ pc[t] = "write" /\ pc' = [pc EXCEPT ![t] = "wrote"]
          /\ UNCHANGED <<messageVars, queueVars, flushVars>>
        BY <1>4 DEF WriteOk
    <2>2. /\ \A m \in Messages : pc'[m] = "idle" <=> pc[m] = "idle"
          /\ \A f \in Flushers : pc'[f] \in Busy => pc[f] \in Busy
        BY <2>1, TaskFacts DEF TypeOK, Busy
    <2>. QED  BY <2>1, <2>2, MoveKeeps DEF MessageInv, HasWork
<1>5. CASE WriteFail(t) \/ WriteLost(t)
    BY <1>5, WriteCases, FailedKeeps
<1>6. CASE Finish(t)
    BY <1>6, FinishKeeps
<1>7. CASE DialFail(t)
    <2>1. pc[t] \in {"dial", "exchange"}
        BY <1>7, DialFailCases
    <2>2. CASE HasMessage(t) /\ \E offline \in BOOLEAN : SendFailed(t, offline)
        BY <2>1, <2>2, FailedKeeps
    <2>3. CASE /\ t \in Flushers /\ pc' = [pc EXCEPT ![t] = "idle"]
               /\ UNCHANGED <<messageVars, queueVars, flushVars>>
        <3>1. /\ \A m \in Messages : pc'[m] = "idle" <=> pc[m] = "idle"
              /\ \A f \in Flushers : pc'[f] \in Busy => pc[f] \in Busy
            BY <2>3, TaskFacts DEF TypeOK, Busy
        <3>. QED  BY <2>3, <3>1, MoveKeeps DEF MessageInv, HasWork
    <2>. QED  BY <1>7, <2>2, <2>3, DialFailCases
<1>. QED  BY <1>1, <1>2, <1>3, <1>4, <1>5, <1>6, <1>7 DEF SendStep, DialStep

\* No other step does.
LEMMA NextKeepsMessages == TypeOK /\ MessageInv /\ [Next]_vars => MessageInv'
<1>. SUFFICES ASSUME TypeOK, MessageInv, [Next]_vars  PROVE  MessageInv'
    OBVIOUS
<1>1. CASE \E m \in Messages : Compose(m) \/ Ack(m)
    BY <1>1, ComposeKeeps, AckKeeps
<1>2. CASE \E t \in Tasks : SendStep(t) \/ DialStep(t) \/ DialFail(t) \/ WriteFail(t)
    BY <1>2, TaskKeepsMessages
<1>3. CASE (\E f \in Spawned : RunFlush(f)) \/ LoopRetry
    BY <1>3, CopyKeeps, TaskFacts
<1>4. CASE LoopDial
    <2>1. /\ pc[Loop] = "idle" /\ pc' = [pc EXCEPT ![Loop] = "dial"]
          /\ UNCHANGED <<messageVars, queueVars, flushVars>>
        BY <1>4 DEF LoopDial
    <2>2. /\ \A m \in Messages : pc'[m] = "idle" <=> pc[m] = "idle"
          /\ \A f \in Flushers : pc'[f] \in Busy => pc[f] \in Busy
        BY <2>1, TaskFacts DEF TypeOK, Busy
    <2>. QED  BY <2>1, <2>2, MoveKeeps DEF MessageInv, HasWork
<1>5. CASE Incoming \/ Ping
    <2>1. UNCHANGED <<messageVars, queueVars, flushVars>>
        BY <1>5 DEF Incoming, Ping
    <2>2. /\ \A m \in Messages : pc'[m] = "idle" <=> pc[m] = "idle"
          /\ \A f \in Flushers : pc'[f] \in Busy => pc[f] \in Busy
        BY <1>5, ContactFacts, TaskFacts DEF Busy
    <2>. QED  BY <2>1, <2>2, MoveKeeps DEF MessageInv, HasWork
<1>6. CASE Break \/ Goodbye \/ UNCHANGED vars
    <2>1. pc' = pc /\ UNCHANGED <<messageVars, queueVars, flushVars>>
        BY <1>6 DEF Break, Goodbye, vars, messageVars, queueVars, flushVars
    <2>. QED  BY <2>1, MoveKeeps DEF MessageInv, HasWork
<1>7. CASE Crash
    BY <1>7, CrashKeepsMessages
<1>. QED  BY <1>1, <1>2, <1>3, <1>4, <1>5, <1>6, <1>7 DEF Next

\* The part of the state that a failed send leaves to its caller.
NetTypes ==
    /\ link \in {"none", "exchange", "up"} /\ dialer \in Tasks \cup {Nobody}
    /\ online \in BOOLEAN /\ written \subseteq Messages
    /\ faults \in 0..MaxFaults /\ crashes \in 0..MaxCrashes

MessageTypes ==
    /\ shown \in [Messages -> Shown] /\ stored \in [Messages -> Stored]
    /\ queue \in Seq(Messages) /\ saved \in Seq(Messages)
    /\ todo \in [Flushers -> Seq(Messages)] /\ rest \in [Flushers -> Seq(Messages)]

\* The type invariant in parts.
LEMMA TypeParts == TypeOK <=> NetTypes /\ MessageTypes /\ pc \in [Tasks -> Places]
BY DEF TypeOK, NetTypes, MessageTypes, Places

\* The message that a task sends.
LEMMA CurrentFacts ==
    ASSUME TypeOK, NEW t \in Tasks, HasMessage(t)
    PROVE  /\ Current(t) \in Messages
           /\ t \in Messages => Current(t) = t
           /\ t \in Flushers => Current(t) = Head(todo[t]) /\ Current(t) \in Held(t)
<1>1. CASE t \in Messages
    BY <1>1, TaskFacts DEF Current
<1>2. CASE t \in Flushers
    <2>1. t \notin Messages /\ todo[t] # <<>> /\ todo[t] \in Seq(Messages)
        BY <1>2, TaskFacts DEF HasMessage, TypeOK
    <2>. QED  BY <2>1, ElemsFacts DEF Current, Held
<1>. QED  BY <1>1, <1>2, TaskFacts

\* The network's part of the state keeps its types.
LEMMA NetStep == TypeOK /\ MessageInv /\ [Next]_vars => NetTypes'
<1>. SUFFICES ASSUME TypeOK, MessageInv, [Next]_vars  PROVE  NetTypes'
    OBVIOUS
<1>. USE BoundsAssumption
<1>0. NetTypes
    BY TypeParts
<1>1. CASE \E m \in Messages : Compose(m) \/ Ack(m)
    BY <1>0, <1>1 DEF Compose, Ack, netVars, NetTypes
<1>2. ASSUME NEW t \in Tasks, Begin(t)  PROVE  NetTypes'
    BY <1>0, <1>2, BeginCases DEF Begin, NetTypes
<1>3. ASSUME NEW t \in Tasks, DialReady(t) \/ DialOk(t)  PROVE  NetTypes'
    BY <1>0, <1>3 DEF DialReady, DialOk, NetTypes
<1>4. ASSUME NEW t \in Tasks, DialFail(t)  PROVE  NetTypes'
    <2>1. /\ link' \in {"none", link} /\ dialer' = Nobody /\ online' \in BOOLEAN
          /\ written' = written /\ crashes' = crashes
        BY <1>4 DEF DialFail
    <2>2. faults' \in 0..MaxFaults
        BY <1>0, <1>4 DEF DialFail, NetTypes
    <2>. QED  BY <1>0, <2>1, <2>2 DEF NetTypes
<1>5. ASSUME NEW t \in Tasks, WriteOk(t)  PROVE  NetTypes'
    <2>1. Current(t) \in Messages
        BY <1>5, SenderHasMessage, CurrentFacts DEF WriteOk, Busy
    <2>. QED  BY <1>0, <1>5, <2>1 DEF WriteOk, netVars, NetTypes
<1>6. ASSUME NEW t \in Tasks, WriteFail(t) \/ WriteLost(t)  PROVE  NetTypes'
    <2>1. /\ link' \in {"none", link} /\ dialer' = dialer /\ online' \in {FALSE, online}
          /\ written' = written /\ crashes' = crashes
        BY <1>6 DEF WriteFail, WriteLost
    <2>2. faults' \in 0..MaxFaults
        BY <1>0, <1>6 DEF WriteFail, WriteLost, NetTypes
    <2>. QED  BY <1>0, <2>1, <2>2 DEF NetTypes
<1>7. ASSUME NEW t \in Tasks, Finish(t)  PROVE  NetTypes'
    BY <1>0, <1>7 DEF Finish, NetTypes
<1>8. CASE (\E f \in Spawned : RunFlush(f)) \/ LoopRetry
    BY <1>0, <1>8 DEF RunFlush, LoopRetry, netVars, NetTypes
<1>9. CASE LoopDial
    BY <1>0, <1>9, TaskFacts DEF LoopDial, NetTypes
<1>10. CASE Incoming \/ Ping
    BY <1>0, <1>10 DEF Incoming, Ping, NetTypes
<1>11. CASE Break \/ Goodbye
    <2>1. faults' \in 0..MaxFaults
        BY <1>0, <1>11 DEF Break, Goodbye, NetTypes
    <2>2. /\ link' \in {"none", link} /\ dialer' = dialer /\ online' = FALSE
          /\ written' = written /\ crashes' = crashes
        BY <1>11 DEF Break, Goodbye
    <2>. QED  BY <1>0, <2>1, <2>2 DEF NetTypes
<1>12. CASE Crash
    <2>1. crashes' \in 0..MaxCrashes
        BY <1>0, <1>12 DEF Crash, NetTypes
    <2>2. /\ link' = "none" /\ dialer' = Nobody /\ online' = FALSE
          /\ written' = written /\ faults' = faults
        BY <1>12 DEF Crash
    <2>. QED  BY <1>0, <2>1, <2>2 DEF NetTypes
<1>13. CASE UNCHANGED vars
    BY <1>0, <1>13 DEF vars, NetTypes
<1>. QED  BY <1>1, <1>2, <1>3, <1>4, <1>5, <1>6, <1>7, <1>8, <1>9, <1>10, <1>11, <1>12, <1>13
          DEF Next, SendStep, DialStep

\* So do the messages, the queue, the flushes and the tasks.
LEMMA TypeStep == TypeOK /\ MessageInv /\ [Next]_vars => TypeOK'
<1>. SUFFICES ASSUME TypeOK, MessageInv, [Next]_vars
              PROVE  MessageTypes' /\ pc' \in [Tasks -> Places]
    <2>1. NetTypes' /\ MessageTypes' /\ pc' \in [Tasks -> Places] => TypeOK'
        BY DEF TypeOK, NetTypes, MessageTypes, Places
    <2>. QED  BY <2>1, NetStep
<1>. DEFINE Goal == MessageTypes' /\ pc' \in [Tasks -> Places]
<1>0. MessageTypes /\ pc \in [Tasks -> Places]
    BY TypeParts
<1>a. ASSUME NEW t \in Tasks, NEW offline \in BOOLEAN, HasMessage(t), pc[t] # "idle",
             SendFailed(t, offline)
      PROVE  Goal
    BY <1>a, FailedFacts DEF MessageTypes
<1>b. UNCHANGED <<messageVars, queueVars, flushVars>> => MessageTypes'
    BY <1>0 DEF messageVars, queueVars, flushVars, MessageTypes
<1>1. ASSUME NEW m \in Messages, Compose(m)  PROVE  Goal
    <2>1. Append(queue, m) \in Seq(Messages)
        BY ElemsFacts DEF TypeOK
    <2>2. shown' \in [Messages -> Shown] /\ stored' \in [Messages -> Stored]
        BY <1>0, <1>1 DEF Compose, MessageTypes, Shown, Stored
    <2>3. queue' \in Seq(Messages) /\ saved' \in Seq(Messages)
        BY <1>0, <1>1, <2>1 DEF Compose, SaveQueue, queueVars, MessageTypes
    <2>4. pc' \in [Tasks -> Places]
        BY <1>0, <1>1 DEF Compose, Places
    <2>. QED  BY <1>0, <1>1, <2>2, <2>3, <2>4 DEF Compose, flushVars, MessageTypes
<1>2. ASSUME NEW m \in Messages, Ack(m)  PROVE  Goal
    BY <1>0, <1>2 DEF Ack, queueVars, flushVars, MessageTypes, Shown, Stored
<1>3. ASSUME NEW t \in Tasks, Begin(t)  PROVE  Goal
    <2>1. CASE \E offline \in BOOLEAN : SendFailed(t, offline)
        BY <1>3, <1>a, <2>1, BeginCases
    <2>2. CASE /\ pc' = [pc EXCEPT ![t] = "write"] \/ pc' = [pc EXCEPT ![t] = "dial"]
               /\ UNCHANGED <<messageVars, queueVars, flushVars>>
        BY <1>0, <1>b, <2>2 DEF Places
    <2>. QED  BY <1>3, <2>1, <2>2, BeginCases
<1>4. ASSUME NEW t \in Tasks, DialReady(t) \/ WriteOk(t)  PROVE  Goal
    BY <1>0, <1>b, <1>4 DEF DialReady, WriteOk, Places
<1>5. ASSUME NEW t \in Tasks, DialOk(t)  PROVE  Goal
    BY <1>b, <1>5, DialOkFacts DEF DialOk
<1>6. ASSUME NEW t \in Tasks, DialFail(t)  PROVE  Goal
    <2>1. CASE HasMessage(t) /\ \E offline \in BOOLEAN : SendFailed(t, offline)
        BY <1>6, <1>a, <2>1, DialFailCases
    <2>2. CASE pc' = [pc EXCEPT ![t] = "idle"] /\ UNCHANGED <<messageVars, queueVars, flushVars>>
        BY <1>0, <1>b, <2>2 DEF Places
    <2>. QED  BY <1>6, <2>1, <2>2, DialFailCases
<1>7. ASSUME NEW t \in Tasks, WriteFail(t) \/ WriteLost(t)  PROVE  Goal
    BY <1>7, <1>a, WriteCases
<1>8. ASSUME NEW t \in Tasks, Finish(t)  PROVE  Goal
    <2>1. saved' = queue'
        BY <1>8, FinishKeeps DEF MessageInv
    <2>. QED  BY <1>8, <2>1, FinishKeeps DEF MessageTypes
<1>9. ASSUME NEW f \in Flushers, RunFlush(f) \/ (LoopRetry /\ f = Loop)  PROVE  Goal
    <2>1. /\ todo' = [todo EXCEPT ![f] = queue] /\ rest' = rest
          /\ UNCHANGED <<messageVars, queueVars>>
          /\ pc' = [pc EXCEPT ![f] = IF queue = <<>> THEN "idle" ELSE "begin"]
        BY <1>9 DEF RunFlush, LoopRetry
    <2>. QED  BY <1>0, <2>1 DEF messageVars, queueVars, MessageTypes, Places
<1>10. CASE LoopDial
    BY <1>0, <1>b, <1>10 DEF LoopDial, Places
<1>11. CASE Incoming \/ Ping
    BY <1>b, <1>11, ContactFacts DEF Incoming, Ping
<1>12. CASE Break \/ Goodbye \/ UNCHANGED vars
    BY <1>0, <1>b, <1>12 DEF Break, Goodbye, vars, messageVars, queueVars, flushVars
<1>13. CASE Crash
    <2>1. queue' = saved /\ saved' = saved /\ stored' = stored
          /\ shown' = [m \in Messages |-> Restored(m)]
          /\ todo' = [f \in Flushers |-> <<>>] /\ rest' = [f \in Flushers |-> <<>>]
          /\ pc' = [t \in Tasks |-> "idle"]
        BY <1>13 DEF Crash
    <2>2. <<>> \in Seq(Messages)
        BY EmptySeq
    <2>3. shown' \in [Messages -> Shown]
        BY <2>1, RestoredFacts
    <2>. QED  BY <1>0, <2>1, <2>2, <2>3 DEF MessageTypes, Places
<1>. QED  BY <1>1, <1>2, <1>3, <1>4, <1>5, <1>6, <1>7, <1>8, <1>9, <1>10, <1>11, <1>12, <1>13,
             TaskFacts
          DEF Next, SendStep, DialStep

\* connect() and its entry in connectionsInFlight.
LEMMA DialerStep == TypeOK /\ MessageInv /\ OneDialer /\ [Next]_vars => OneDialer'
<1>. SUFFICES ASSUME TypeOK, MessageInv, OneDialer, [Next]_vars  PROVE  OneDialer'
    OBVIOUS
<1>. DEFINE Dials(t) == pc[t] \in {"dial", "exchange"}
<1>0. \A t \in Tasks : Dials(t) <=> dialer = t
    BY DEF OneDialer
<1>a. ASSUME NEW t \in Tasks, NEW offline \in BOOLEAN, HasMessage(t), pc[t] # "idle",
             SendFailed(t, offline)
      PROVE  \A u \in Tasks : Dials(u)' <=> Dials(u) /\ u # t
    <2>1. After(t) \in {"idle", "begin"}
        BY DEF After
    <2>. QED  BY <1>a, <2>1, FailedFacts
<1>1. ASSUME NEW t \in Tasks, Begin(t)  PROVE  OneDialer'
    <2>1. pc[t] = "begin" /\ ~Dials(t) /\ dialer # t
        BY <1>0, <1>1, BeginCases
    <2>2. CASE dialer' = dialer /\ pc' = [pc EXCEPT ![t] = "write"]
        BY <1>0, <2>1, <2>2 DEF OneDialer, TypeOK
    <2>3. CASE dialer = Nobody /\ dialer' = t /\ pc' = [pc EXCEPT ![t] = "dial"]
        BY <1>0, <2>3, TaskFacts DEF OneDialer, TypeOK
    <2>4. CASE dialer' = dialer /\ \E offline \in BOOLEAN : SendFailed(t, offline)
        <3>1. \A u \in Tasks : Dials(u)' <=> Dials(u) /\ u # t
            BY <1>1, <1>a, <2>4, BeginCases
        <3>. QED  BY <1>0, <2>1, <2>4, <3>1 DEF OneDialer
    <2>. QED  BY <1>1, <2>2, <2>3, <2>4, BeginCases
<1>2. ASSUME NEW t \in Tasks, DialReady(t) \/ WriteOk(t)  PROVE  OneDialer'
    BY <1>0, <1>2 DEF DialReady, WriteOk, netVars, OneDialer, TypeOK
<1>3. ASSUME NEW t \in Tasks, DialOk(t)  PROVE  OneDialer'
    <2>1. dialer = t /\ dialer' = Nobody /\ ~Dials(t)'
        BY <1>0, <1>3, DialOkFacts DEF DialOk
    <2>2. \A u \in Tasks \ {t} : Dials(u)' <=> Dials(u)
        BY <1>3, DialOkFacts
    <2>. QED  BY <1>0, <2>1, <2>2, TaskFacts DEF OneDialer
<1>4. ASSUME NEW t \in Tasks, DialFail(t)  PROVE  OneDialer'
    <2>1. dialer = t /\ dialer' = Nobody /\ pc[t] # "idle"
        BY <1>0, <1>4, DialFailCases
    <2>2. \A u \in Tasks : Dials(u)' <=> Dials(u) /\ u # t
        <3>1. CASE HasMessage(t) /\ \E offline \in BOOLEAN : SendFailed(t, offline)
            BY <1>a, <2>1, <3>1
        <3>2. CASE pc' = [pc EXCEPT ![t] = "idle"]
            BY <3>2 DEF TypeOK
        <3>. QED  BY <1>4, <3>1, <3>2, DialFailCases
    <2>. QED  BY <1>0, <2>1, <2>2, TaskFacts DEF OneDialer
<1>5. ASSUME NEW t \in Tasks, WriteFail(t) \/ WriteLost(t)  PROVE  OneDialer'
    <2>1. pc[t] = "write" /\ dialer' = dialer
        BY <1>5, WriteCases
    <2>2. \A u \in Tasks : Dials(u)' <=> Dials(u) /\ u # t
        BY <1>5, <1>a, <2>1, WriteCases
    <2>. QED  BY <1>0, <2>1, <2>2 DEF OneDialer
<1>6. ASSUME NEW t \in Tasks, Finish(t)  PROVE  OneDialer'
    <2>1. pc[t] = "wrote" /\ dialer' = dialer /\ After(t) \in {"idle", "begin"}
        BY <1>6 DEF Finish, After
    <2>2. \A u \in Tasks : Dials(u)' => pc'[u] = pc[u] /\ u # t
        BY <1>6, <2>1, FinishKeeps
    <2>3. \A u \in Tasks : Dials(u) => Dials(u)'
        <3>. DEFINE p == [pc EXCEPT ![t] = After(t)]
        <3>1. p \in [Tasks -> Places] /\ pc' \in Online(p)
            BY <1>6, <2>1 DEF Finish, TypeOK, Places
        <3>2. \A u \in Tasks : p[u] = IF u = t THEN After(t) ELSE pc[u]
            BY DEF TypeOK
        <3>. HIDE DEF p
        <3>3. \A u \in Tasks : pc'[u] = p[u] \/ p[u] = "idle"
            BY <3>1, OnlineFacts
        <3>. QED  BY <2>1, <3>2, <3>3
    <2>. QED  BY <1>0, <2>1, <2>2, <2>3 DEF OneDialer
<1>7. ASSUME NEW f \in Flushers, RunFlush(f) \/ (LoopRetry /\ f = Loop)  PROVE  OneDialer'
    <2>1. /\ pc[f] \in {"ready", "idle"} /\ dialer' = dialer
          /\ pc' = [pc EXCEPT ![f] = IF queue = <<>> THEN "idle" ELSE "begin"]
        BY <1>7 DEF RunFlush, LoopRetry, netVars
    <2>2. \A u \in Tasks : Dials(u)' <=> Dials(u)
        BY <2>1 DEF TypeOK
    <2>. QED  BY <1>0, <2>1, <2>2 DEF OneDialer
<1>8. CASE LoopDial
    BY <1>0, <1>8, TaskFacts DEF LoopDial, OneDialer, TypeOK
<1>9. CASE Incoming \/ Ping
    <2>1. dialer' = dialer /\ \A u \in Tasks : Dials(u)' <=> Dials(u)
        BY <1>9, ContactFacts DEF Incoming, Ping
    <2>. QED  BY <1>0, <2>1 DEF OneDialer
<1>10. ASSUME NEW m \in Messages, Compose(m)  PROVE  OneDialer'
    <2>1. pc[m] = "idle" /\ m \in Tasks /\ dialer' = dialer
        BY <1>10, TaskFacts DEF Compose, netVars, MessageInv, Fresh
    <2>2. \A u \in Tasks : Dials(u)' <=> Dials(u)
        BY <1>10, <2>1 DEF Compose, TypeOK
    <2>. QED  BY <1>0, <2>1, <2>2 DEF OneDialer
<1>11. CASE (\E m \in Messages : Ack(m)) \/ Break \/ Goodbye \/ UNCHANGED vars
    <2>1. dialer' = dialer /\ pc' = pc
        BY <1>11 DEF Ack, Break, Goodbye, netVars, vars
    <2>. QED  BY <1>0, <2>1 DEF OneDialer
<1>12. CASE Crash
    <2>1. dialer' = Nobody /\ \A t \in Tasks : pc'[t] = "idle"
        BY <1>12 DEF Crash
    <2>. QED  BY <2>1, TaskFacts DEF OneDialer
<1>. QED  BY <1>1, <1>2, <1>3, <1>4, <1>5, <1>6, <1>7, <1>8, <1>9, <1>10, <1>11, <1>12, TaskFacts
          DEF Next, SendStep, DialStep

\* What a task has written stays written and stays its message until it ends.
LEMMA WrittenStep ==
    TypeOK /\ MessageInv /\ WroteIt /\ SentIsWritten /\ [Next]_vars
        => WroteIt' /\ SentIsWritten'
<1>. SUFFICES ASSUME TypeOK, MessageInv, WroteIt, SentIsWritten, [Next]_vars
              PROVE  WroteIt' /\ SentIsWritten'
    OBVIOUS
<1>. DEFINE SameWork(u) == pc'[u] = "wrote" =>
                               pc[u] = "wrote" /\ (u \in Flushers => todo'[u] = todo[u])
            Told(m) == {shown[m], stored[m]} \cap {"sent", "delivered"} # {}
<1>a. ASSUME NEW u \in Tasks, SameWork(u), written \subseteq written', pc'[u] = "wrote"
      PROVE  Current(u)' \in written'
    <2>1. CASE u \in Messages
        BY <1>a, <2>1 DEF Current, WroteIt
    <2>2. CASE u \in Flushers
        BY <1>a, <2>2, TaskFacts DEF Current, WroteIt
    <2>. QED  BY <2>1, <2>2, TaskFacts
<1>b. ASSUME written \subseteq written', \A u \in Tasks : SameWork(u)
      PROVE  WroteIt'
    BY <1>a, <1>b DEF WroteIt
<1>c. ASSUME written \subseteq written', \A m \in Messages : Told(m)' => Told(m) \/ m \in written
      PROVE  SentIsWritten'
    BY <1>c DEF SentIsWritten
<1>d. ASSUME NEW t \in Tasks, NEW offline \in BOOLEAN, HasMessage(t), pc[t] # "idle",
             SendFailed(t, offline), written' = written
      PROVE  WroteIt' /\ SentIsWritten'
    <2>1. /\ \A u \in Tasks : pc'[u] = IF u = t THEN After(t) ELSE pc[u]
          /\ \A g \in Flushers \ {t} : todo'[g] = todo[g]
          /\ \A m \in Messages : m # t => shown'[m] = shown[m] /\ stored'[m] = stored[m]
          /\ t \in Messages => shown'[t] \in {"queued", "failed"} /\ stored'[t] = "unsent"
        BY <1>d, FailedFacts
    <2>2. After(t) # "wrote"
        BY DEF After
    <2>3. \A u \in Tasks : SameWork(u)
        BY <2>1, <2>2
    <2>4. \A m \in Messages : Told(m)' => Told(m)
        BY <2>1
    <2>. QED  BY <1>b, <1>c, <1>d, <2>3, <2>4
<1>e. ASSUME UNCHANGED <<messageVars, todo, written>>,
             \A u \in Tasks : pc'[u] = "wrote" => pc[u] = "wrote"
      PROVE  WroteIt' /\ SentIsWritten'
    BY <1>b, <1>c, <1>e DEF messageVars
<1>1. ASSUME NEW t \in Tasks, Begin(t)  PROVE  WroteIt' /\ SentIsWritten'
    <2>1. written' = written
        BY <1>1 DEF Begin
    <2>2. CASE \E offline \in BOOLEAN : SendFailed(t, offline)
        BY <1>1, <1>d, <2>1, <2>2, BeginCases
    <2>3. CASE /\ pc' = [pc EXCEPT ![t] = "write"] \/ pc' = [pc EXCEPT ![t] = "dial"]
               /\ UNCHANGED <<messageVars, queueVars, flushVars>>
        BY <1>e, <2>1, <2>3 DEF flushVars, TypeOK
    <2>. QED  BY <1>1, <2>2, <2>3, BeginCases
<1>2. ASSUME NEW t \in Tasks, DialReady(t)  PROVE  WroteIt' /\ SentIsWritten'
    BY <1>e, <1>2 DEF DialReady, flushVars, TypeOK
<1>3. ASSUME NEW t \in Tasks, DialOk(t)  PROVE  WroteIt' /\ SentIsWritten'
    <2>1. \A u \in Tasks : pc'[u] = "wrote" => pc[u] = "wrote"
        BY <1>3, DialOkFacts
    <2>. QED  BY <1>e, <1>3, <2>1 DEF DialOk, flushVars
<1>4. ASSUME NEW t \in Tasks, DialFail(t)  PROVE  WroteIt' /\ SentIsWritten'
    <2>1. written' = written /\ pc[t] # "idle"
        BY <1>4 DEF DialFail
    <2>2. CASE HasMessage(t) /\ \E offline \in BOOLEAN : SendFailed(t, offline)
        BY <1>d, <2>1, <2>2
    <2>3. CASE pc' = [pc EXCEPT ![t] = "idle"] /\ UNCHANGED <<messageVars, queueVars, flushVars>>
        BY <1>e, <2>1, <2>3 DEF flushVars, TypeOK
    <2>. QED  BY <1>4, <2>2, <2>3, DialFailCases
<1>5. ASSUME NEW t \in Tasks, WriteOk(t)  PROVE  WroteIt' /\ SentIsWritten'
    <2>1. /\ written' = written \cup {Current(t)} /\ shown' = shown /\ stored' = stored
          /\ todo' = todo /\ pc' = [pc EXCEPT ![t] = "wrote"]
        BY <1>5 DEF WriteOk, messageVars, flushVars
    <2>2. ASSUME NEW u \in Tasks, pc'[u] = "wrote"  PROVE  Current(u)' \in written'
        <3>1. CASE u = t
            BY <2>1, <3>1 DEF Current
        <3>2. CASE u # t
            BY <1>a, <2>1, <2>2, <3>2 DEF TypeOK
        <3>. QED  BY <3>1, <3>2
    <2>. QED  BY <1>c, <2>1, <2>2 DEF WroteIt
<1>6. ASSUME NEW t \in Tasks, WriteFail(t) \/ WriteLost(t)  PROVE  WroteIt' /\ SentIsWritten'
    <2>1. written' = written
        BY <1>6 DEF WriteFail, WriteLost
    <2>. QED  BY <1>6, <1>d, <2>1, WriteCases
<1>7. ASSUME NEW t \in Tasks, Finish(t)  PROVE  WroteIt' /\ SentIsWritten'
    <2>1. written' = written /\ Current(t) \in written
        BY <1>7 DEF Finish, WroteIt
    <2>2. After(t) # "wrote"
        BY DEF After
    <2>3. \A u \in Tasks : SameWork(u)
        BY <1>7, <2>2, FinishKeeps
    <2>4. \A m \in Messages : Told(m)' => Told(m) \/ m \in written
        BY <1>7, <2>1, FinishKeeps
    <2>. QED  BY <1>b, <1>c, <2>1, <2>3, <2>4
<1>8. ASSUME NEW f \in Flushers, RunFlush(f) \/ (LoopRetry /\ f = Loop)
      PROVE  WroteIt' /\ SentIsWritten'
    <2>1. /\ todo' = [todo EXCEPT ![f] = queue] /\ written' = written /\ UNCHANGED messageVars
          /\ pc' = [pc EXCEPT ![f] = IF queue = <<>> THEN "idle" ELSE "begin"]
        BY <1>8 DEF RunFlush, LoopRetry
    <2>2. \A u \in Tasks : SameWork(u)
        BY <2>1 DEF TypeOK
    <2>. QED  BY <1>b, <1>c, <2>1, <2>2 DEF messageVars
<1>9. CASE LoopDial
    BY <1>e, <1>9, TaskFacts DEF LoopDial, flushVars, TypeOK
<1>10. CASE Incoming \/ Ping
    <2>1. \A u \in Tasks : pc'[u] = "wrote" => pc[u] = "wrote"
        BY <1>10, ContactFacts
    <2>. QED  BY <1>e, <1>10, <2>1 DEF Incoming, Ping, flushVars
<1>11. CASE Break \/ Goodbye \/ UNCHANGED vars
    BY <1>e, <1>11 DEF Break, Goodbye, flushVars, messageVars, vars
<1>12. ASSUME NEW m \in Messages, Compose(m)  PROVE  WroteIt' /\ SentIsWritten'
    <2>1. /\ written' = written /\ todo' = todo
          /\ shown' \in {[shown EXCEPT ![m] = "queued"], [shown EXCEPT ![m] = "sending"]}
          /\ stored' \in {stored, [stored EXCEPT ![m] = "unsent"]}
          /\ pc' \in {pc, [pc EXCEPT ![m] = "begin"]}
        BY <1>12 DEF Compose, flushVars
    <2>2. \A u \in Tasks : SameWork(u)
        BY <2>1 DEF TypeOK
    <2>3. \A n \in Messages : Told(n)' => Told(n)
        BY <2>1 DEF TypeOK
    <2>. QED  BY <1>b, <1>c, <2>1, <2>2, <2>3
<1>13. ASSUME NEW m \in Messages, Ack(m)  PROVE  WroteIt' /\ SentIsWritten'
    <2>1. /\ written' = written /\ todo' = todo /\ pc' = pc /\ m \in written
          /\ shown' = [shown EXCEPT ![m] = "delivered"]
          /\ stored' = [stored EXCEPT ![m] = "delivered"]
        BY <1>13 DEF Ack, flushVars
    <2>2. \A n \in Messages : Told(n)' => Told(n) \/ n \in written
        BY <2>1 DEF TypeOK
    <2>. QED  BY <1>b, <1>c, <2>1, <2>2
<1>14. CASE Crash
    <2>1. /\ written' = written /\ stored' = stored /\ \A t \in Tasks : pc'[t] = "idle"
          /\ \A m \in Messages : shown'[m] = Restored(m)
        BY <1>14 DEF Crash
    <2>2. \A m \in Messages : Told(m)' => Told(m)
        BY <2>1, RestoredFacts
    <2>. QED  BY <1>b, <1>c, <2>1, <2>2
<1>. QED  BY <1>1, <1>2, <1>3, <1>4, <1>5, <1>6, <1>7, <1>8, <1>9, <1>10, <1>11, <1>12, <1>13,
             <1>14, TaskFacts
          DEF Next, SendStep, DialStep

\* At the start nothing was written, queued or dialled.
LEMMA InitInv == Init => IInv
<1>. SUFFICES ASSUME Init  PROVE  IInv
    OBVIOUS
<1>1. <<>> \in Seq(Messages) /\ Elems(<<>>) = {}
    BY EmptySeq DEF Elems
<1>2. TypeOK
    <2>1. faults \in 0..MaxFaults /\ crashes \in 0..MaxCrashes
        BY BoundsAssumption DEF Init
    <2>. QED  BY <1>1, <2>1 DEF Init, TypeOK, Shown, Stored
<1>3. \A f \in Flushers : Held(f) = {}
    BY <1>1 DEF Init, Held
<1>4. MessageInv
    BY <1>1, <1>3, TaskFacts
    DEF Init, MessageInv, HasWork, Busy, Fresh, StoredOrSending, OneWay
<1>5. WroteIt /\ OneDialer /\ SentIsWritten
    BY TaskFacts DEF Init, WroteIt, OneDialer, SentIsWritten
<1>. QED  BY <1>2, <1>4, <1>5 DEF IInv

\* The invariant of the specification.
THEOREM InductiveInvariant == Spec => []IInv
<1>1. Init => IInv
    BY InitInv
<1>2. IInv /\ [Next]_vars => IInv'
    BY TypeStep, NextKeepsMessages, DialerStep, WrittenStep DEF IInv
<1>. QED  BY <1>1, <1>2, PTL DEF Spec

-----------------------------------------------------------------------------
(* The properties.                                                           *)

\* The variables keep their types.
THEOREM TypeCorrect == Spec => []TypeOK
BY InductiveInvariant, PTL DEF IInv

\* A message is not sent by two ways: while sendTextMessage() sends it, it is in
\* no queue and in no copy of a queue.
THEOREM NoDoubleSend == Spec => []OneWay
BY InductiveInvariant, PTL DEF IInv, MessageInv

\* FIX #1476: the entry of connectionsInFlight is that of the one task that is in
\* connect().
THEOREM DialIsExclusive == Spec => []OneDialer
BY InductiveInvariant, PTL DEF IInv

\* A message that is shown or stored as sent was taken by a connection.
THEOREM SentWasWritten == Spec => []SentIsWritten
BY InductiveInvariant, PTL DEF IInv

\* flushQueue(): what leaves the queue was sent, or is unknown to a flush.
THEOREM OnlySentLeave == Spec => LeavesQueueSent
<1>. DEFINE Excused(m) == \/ m \in written
                         \/ \E f \in Flushers : pc[f] # "idle" /\ m \notin Held(f)
<1>1. ASSUME IInv, [Next]_vars, NEW m \in Elems(queue) \ Elems(queue')  PROVE  Excused(m)
    <2>. USE <1>1 DEF IInv
    <2>1. ASSUME NEW t \in Tasks, NEW offline \in BOOLEAN, HasMessage(t), pc[t] # "idle",
                 SendFailed(t, offline)
          PROVE  Excused(m)
        BY <2>1, FailedFacts
    <2>2. ASSUME queue' = queue  PROVE  FALSE
        BY <2>2
    <2>3. ASSUME NEW n \in Messages, Compose(n)  PROVE  FALSE
        <3>1. Elems(queue) \subseteq Elems(Append(queue, n))
            BY ElemsFacts DEF TypeOK
        <3>. QED  BY <2>3, <3>1 DEF Compose, SaveQueue, queueVars
    <2>4. ASSUME NEW t \in Tasks, Begin(t)  PROVE  Excused(m)
        BY <2>1, <2>2, <2>4, BeginCases DEF queueVars
    <2>5. ASSUME NEW t \in Tasks, DialFail(t)  PROVE  Excused(m)
        BY <2>1, <2>2, <2>5, DialFailCases DEF queueVars
    <2>6. ASSUME NEW t \in Tasks, WriteFail(t) \/ WriteLost(t)  PROVE  Excused(m)
        BY <2>1, <2>6, WriteCases
    <2>7. ASSUME NEW t \in Tasks, Finish(t)  PROVE  Excused(m)
        <3>1. pc[t] = "wrote" /\ Current(t) \in written
            BY <2>7 DEF Finish, WroteIt
        <3>2. t \in Flushers /\ (m = Current(t) \/ m \notin Held(t))
            BY <2>7, FinishKeeps, ElemsFacts DEF TypeOK
        <3>. QED  BY <3>1, <3>2
    <2>8. ASSUME NEW t \in Tasks, DialReady(t) \/ DialOk(t) \/ WriteOk(t)  PROVE  FALSE
        BY <2>2, <2>8 DEF DialReady, DialOk, WriteOk, queueVars
    <2>9. CASE \/ (\E n \in Messages : Ack(n)) \/ (\E f \in Spawned : RunFlush(f))
               \/ LoopDial \/ LoopRetry \/ Incoming \/ Ping \/ Break \/ Goodbye
               \/ UNCHANGED vars
        BY <2>2, <2>9
        DEF Ack, RunFlush, LoopDial, LoopRetry, Incoming, Ping, Break, Goodbye, queueVars, vars
    <2>10. CASE Crash
        BY <2>2, <2>10 DEF Crash, MessageInv
    <2>. QED  BY <1>1, <2>3, <2>4, <2>5, <2>6, <2>7, <2>8, <2>9, <2>10 DEF Next, SendStep, DialStep
<1>2. IInv /\ [Next]_vars
        => [\A m \in Elems(queue) \ Elems(queue') :
               \/ m \in written
               \/ \E f \in Flushers : pc[f] # "idle" /\ m \notin Held(f)]_vars
    BY <1>1
<1>. QED  BY <1>2, InductiveInvariant, PTL DEF Spec, LeavesQueueSent

\* loadMessageQueue() and loadMessages(): a crash loses no message but one that is
\* being sent directly.
THEOREM CrashLosesNothing == Spec => CrashKeeps
<1>. DEFINE Kept(m) ==
                /\ m \in Elems(queue) => m \in Elems(queue')
                /\ shown'[m] = "gone" => shown[m] = "gone" \/ pc[m] # "idle"
<1>1. ASSUME IInv, [Next]_vars, crashes' # crashes, NEW m \in Messages  PROVE  Kept(m)
    <2>1. Crash
        <3>1. Crash \/ crashes' = crashes
            BY <1>1
            DEF Next, SendStep, DialStep, Compose, Ack, Begin, DialReady, DialOk, WriteOk, WriteLost, Finish,
                DialFail, WriteFail, RunFlush, LoopDial, LoopRetry, Incoming, Ping, Break,
                Goodbye, vars
        <3>. QED  BY <1>1, <3>1
    <2>2. queue' = queue /\ shown'[m] = Restored(m)
        BY <1>1, <2>1 DEF Crash, IInv, MessageInv
    <2>3. Restored(m) = "gone" => shown[m] # "none" /\ stored[m] = "none"
        BY <1>1, RestoredFacts DEF IInv
    <2>. QED  BY <1>1, <2>2, <2>3 DEF IInv, MessageInv, StoredOrSending
<1>2. IInv /\ [Next]_vars => [crashes' # crashes => \A m \in Messages : Kept(m)]_vars
    BY <1>1
<1>. QED  BY <1>2, InductiveInvariant, PTL DEF Spec, CrashKeeps
=============================================================================
