----------------------- MODULE PeerMessageLockProofs -----------------------
(* Proofs about PeerMessageLock, for any set of requests and any bound on the  *)
(* forced releases.  The invariant that carries them says who is in the queue: *)
(* exactly requests that wait, each at one position, so that the request that  *)
(* a release resumes was outside.                                              *)
EXTENDS PeerMessageLock, SequenceTheorems, FiniteSetTheorems, TLAPS

\* Only waiting requests are queued, and none of them twice.
QueueOK ==
    /\ \A i \in 1..Len(waiters) : pc[waiters[i]] = "waiting"
    /\ \A i, j \in 1..Len(waiters) : waiters[i] = waiters[j] => i = j

IInv == TypeOK /\ QueueOK /\ ExclusiveUntilForced

-----------------------------------------------------------------------------
\* What handing the lock on leaves behind: "back" are requests that hold it.
LEMMA PassOnKeepsQueue ==
    ASSUME TypeOK, QueueOK, NEW back \in SUBSET Inside, PassOn(back)
    PROVE  /\ waiters' \in Seq(Request)
           /\ pc' \in [Request -> PCs]
           /\ isLocked' \in BOOLEAN
           /\ QueueOK'
<1>1. \A r \in back : pc[r] # "waiting"
  BY DEF Inside
<1>2. CASE waiters # <<>>
  <2>1. /\ Head(waiters) = waiters[1]
        /\ Len(waiters) >= 1
        /\ Tail(waiters) \in Seq(Request)
        /\ Len(Tail(waiters)) = Len(waiters) - 1
        /\ \A i \in 1..Len(waiters) - 1 : Tail(waiters)[i] = waiters[i + 1]
    BY <1>2 DEF TypeOK
  <2>2. /\ waiters' = Tail(waiters)
        /\ pc' = [r \in Request |-> IF r = waiters[1] THEN "resumed"
                                    ELSE IF r \in back THEN "idle" ELSE pc[r]]
        /\ isLocked' = isLocked
    BY <1>2, <2>1 DEF PassOn
  <2>3. \A i \in 1..Len(waiters) : waiters[i] \in Request
    BY DEF TypeOK
  <2>4. \A i \in 1..Len(waiters') : pc'[waiters'[i]] = "waiting"
    <3> TAKE i \in 1..Len(waiters')
    <3>1. i + 1 \in 1..Len(waiters) /\ waiters'[i] = waiters[i + 1] /\ i + 1 # 1
      BY <2>1, <2>2 DEF TypeOK
    <3>2. pc[waiters[i + 1]] = "waiting" /\ waiters[i + 1] # waiters[1]
      BY <3>1, <2>1 DEF QueueOK
    <3> QED BY <3>1, <3>2, <2>2, <2>3, <1>1
  <2>5. \A i, j \in 1..Len(waiters') : waiters'[i] = waiters'[j] => i = j
    <3> TAKE i, j \in 1..Len(waiters')
    <3>1. /\ i + 1 \in 1..Len(waiters) /\ j + 1 \in 1..Len(waiters)
          /\ waiters'[i] = waiters[i + 1] /\ waiters'[j] = waiters[j + 1]
          /\ i \in Nat /\ j \in Nat
      BY <2>1, <2>2 DEF TypeOK
    <3> HAVE waiters'[i] = waiters'[j]
    <3>2. i + 1 = j + 1
      BY <3>1 DEF QueueOK
    <3> QED BY <3>1, <3>2
  <2> QED BY <2>1, <2>2, <2>4, <2>5 DEF TypeOK, PCs, QueueOK
<1>3. CASE waiters = <<>>
  <2>1. /\ waiters' = waiters
        /\ isLocked' = FALSE
        /\ pc' = [r \in Request |-> IF r \in back THEN "idle" ELSE pc[r]]
    BY <1>3 DEF PassOn
  <2>2. pc' \in [Request -> PCs] /\ isLocked' \in BOOLEAN
    BY <2>1 DEF TypeOK, PCs
  <2>3. Len(waiters') = 0
    BY <2>1, <1>3
  <2> QED BY <2>1, <2>2, <2>3 DEF TypeOK, QueueOK
<1> QED BY <1>2, <1>3

\* A request that alone gives the lock back leaves at most one inside, and
\* isLocked still tells whether somebody is.
LEMMA PassOnKeepsExclusion ==
    ASSUME TypeOK, QueueOK, NEW r \in Request, PassOn({r}),
           Inside = {r}, isLocked
    PROVE  /\ \A s, t \in Inside' : s = t
           /\ isLocked' <=> Inside' # {}
<1>1. \A s \in Request : pc[s] \in {"resumed", "holding", "stuck"} <=> s = r
  BY DEF Inside
<1>2. CASE waiters # <<>>
  <2>1. Head(waiters) = waiters[1] /\ Len(waiters) >= 1 /\ waiters[1] \in Request
    BY <1>2 DEF TypeOK
  <2>2. pc[waiters[1]] = "waiting" /\ isLocked' = isLocked
    BY <2>1, <1>2 DEF QueueOK, PassOn
  <2>3. Inside' = {waiters[1]}
    BY <1>1, <1>2, <2>1, <2>2 DEF PassOn, Inside
  <2> QED BY <2>2, <2>3
<1>3. CASE waiters = <<>>
  <2>1. Inside' = {} /\ isLocked' = FALSE
    BY <1>1, <1>3 DEF PassOn, Inside
  <2> QED BY <2>1
<1> QED BY <1>2, <1>3

-----------------------------------------------------------------------------
\* The lock begins free, with an empty queue.
LEMMA InitEstablishes == Init => IInv
<1> SUFFICES ASSUME Init PROVE IInv
  OBVIOUS
<1>1. TypeOK
  <2>1. <<>> \in Seq(Request)
    BY EmptySeq
  <2>2. 0 \in 0..MaxForce
    BY MaxForceAssumption
  <2> QED BY <2>1, <2>2 DEF Init, TypeOK, PCs
<1>2. Len(waiters) = 0
  BY DEF Init
<1>3. Inside = {}
  BY DEF Init, Inside
<1>4. QueueOK
  BY <1>2 DEF QueueOK
<1> QED BY <1>1, <1>3, <1>4
        DEF Init, IInv, ExclusiveUntilForced, FlagIsTruthful, MutualExclusion

\* A step that neither queues, nor lets anybody in or out.
LEMMA NextPreserves == IInv /\ [Next]_vars => IInv'
<1> SUFFICES ASSUME IInv, [Next]_vars PROVE IInv'
  OBVIOUS
<1> USE DEF IInv
<1>1. ASSUME NEW r \in Request, TakeFree(r) PROVE IInv'
  <2>1. TypeOK' /\ QueueOK'
    BY <1>1 DEF TakeFree, TypeOK, PCs, QueueOK
  <2>2. forced' = forced /\ (forced = 0 => Inside = {}) /\ Inside' = Inside \cup {r}
    BY <1>1 DEF TakeFree, ExclusiveUntilForced, FlagIsTruthful, Inside, TypeOK
  <2> QED BY <1>1, <2>1, <2>2
          DEF TakeFree, ExclusiveUntilForced, MutualExclusion, FlagIsTruthful
<1>2. ASSUME NEW r \in Request, Enqueue(r) \/ AddWaiter(r) PROVE IInv'
  <2>1. /\ waiters' = Append(waiters, r)
        /\ pc' = [pc EXCEPT ![r] = "waiting"]
        /\ pc[r] \in {"idle", "spawned"}
        /\ UNCHANGED <<isLocked, forced>>
    BY <1>2 DEF Enqueue, AddWaiter
  <2>2. TypeOK'
    <3>1. waiters' \in Seq(Request)
      BY <2>1, AppendProperties DEF TypeOK
    <3>2. pc' \in [Request -> PCs]
      BY <2>1 DEF TypeOK, PCs
    <3>3. timed' \in [Request -> BOOLEAN] /\ expired' \in [Request -> BOOLEAN]
      BY <1>2 DEF Enqueue, AddWaiter, TypeOK
    <3> QED BY <2>1, <3>1, <3>2, <3>3 DEF TypeOK
  <2>3. /\ Len(waiters') = Len(waiters) + 1
        /\ waiters'[Len(waiters) + 1] = r
        /\ \A i \in 1..Len(waiters) : waiters'[i] = waiters[i]
        /\ \A i \in 1..Len(waiters) : waiters[i] # r /\ waiters[i] \in Request
        /\ Len(waiters) \in Nat
    BY <2>1 DEF TypeOK, QueueOK
  <2>4. QueueOK'
    <3>1. \A i \in 1..Len(waiters') : pc'[waiters'[i]] = "waiting"
      BY <2>1, <2>3 DEF QueueOK, TypeOK
    <3>2. \A i, j \in 1..Len(waiters') : waiters'[i] = waiters'[j] => i = j
      BY <2>3 DEF QueueOK
    <3> QED BY <3>1, <3>2 DEF QueueOK
  <2>5. Inside' = Inside
    BY <2>1 DEF Inside, TypeOK
  <2> QED BY <2>1, <2>2, <2>4, <2>5
          DEF ExclusiveUntilForced, MutualExclusion, FlagIsTruthful
<1>3. ASSUME NEW r \in Request, SpawnWaiter(r) \/ Expire(r) \/ Enter(r) \/ Hang(r)
      PROVE  IInv'
  <2>1. TypeOK' /\ QueueOK'
    <3>1. CASE SpawnWaiter(r)
      BY <3>1 DEF SpawnWaiter, TypeOK, PCs, QueueOK
    <3>2. CASE Expire(r)
      BY <3>2 DEF Expire, TypeOK, PCs, QueueOK
    <3>3. CASE Enter(r)
      BY <3>3 DEF Enter, TypeOK, PCs, QueueOK
    <3>4. CASE Hang(r)
      BY <3>4 DEF Hang, TypeOK, PCs, QueueOK
    <3> QED BY <1>3, <3>1, <3>2, <3>3, <3>4
  <2>2. Inside' = Inside /\ UNCHANGED <<isLocked, forced>>
    BY <1>3 DEF SpawnWaiter, Expire, Enter, Hang, Inside, TypeOK
  <2> QED BY <2>1, <2>2 DEF ExclusiveUntilForced, MutualExclusion, FlagIsTruthful
<1>4. ASSUME NEW r \in Request, Release(r) \/ ReleaseExpired(r) PROVE IInv'
  <2>1. r \in Inside /\ PassOn({r}) /\ forced' = forced
    BY <1>4 DEF Release, ReleaseExpired, Inside
  <2>2. TypeOK' /\ QueueOK'
    BY <2>1, PassOnKeepsQueue DEF TypeOK, PassOn
  <2>3. ASSUME forced = 0
        PROVE  (\A s, t \in Inside' : s = t) /\ (isLocked' <=> Inside' # {})
    <3>1. Inside = {r} /\ isLocked
      BY <2>1, <2>3 DEF ExclusiveUntilForced, MutualExclusion, FlagIsTruthful
    <3> QED BY <2>1, <3>1, PassOnKeepsExclusion
  <2> QED BY <2>1, <2>2, <2>3 DEF ExclusiveUntilForced, MutualExclusion, FlagIsTruthful
<1>5. ASSUME ForceRelease PROVE IInv'
  <2>1. forced' = forced + 1 /\ forced' \in 0..MaxForce /\ forced' # 0
    BY <1>5, MaxForceAssumption DEF ForceRelease, TypeOK
  <2>2. TypeOK' /\ QueueOK'
    <3>1. PassOn({}) /\ UNCHANGED <<timed, expired>>
      BY <1>5 DEF ForceRelease, PassOn
    <3>2. {} \in SUBSET Inside
      OBVIOUS
    <3>3. /\ waiters' \in Seq(Request) /\ pc' \in [Request -> PCs]
          /\ isLocked' \in BOOLEAN /\ QueueOK'
      BY <3>1, <3>2, PassOnKeepsQueue
    <3> QED BY <2>1, <3>1, <3>3 DEF TypeOK
  <2> QED BY <2>1, <2>2 DEF ExclusiveUntilForced, FlagIsTruthful
<1>6. CASE UNCHANGED vars
  BY <1>6 DEF vars, TypeOK, QueueOK, ExclusiveUntilForced, FlagIsTruthful,
              MutualExclusion, Inside
<1> QED BY <1>1, <1>2, <1>3, <1>4, <1>5, <1>6 DEF Next

\* Every reachable state satisfies the inductive invariant.
LEMMA Inductive == Spec => []IInv
<1>1. Init => IInv
  BY InitEstablishes
<1>2. IInv /\ [Next]_vars => IInv'
  BY NextPreserves
<1> QED BY <1>1, <1>2, PTL DEF Spec

-----------------------------------------------------------------------------
\* The variables of the lock actor and of its callers keep their types.
THEOREM TypeCorrect == Spec => []TypeOK
<1>1. IInv => TypeOK
  BY DEF IInv
<1> QED BY <1>1, Inductive, PTL

\* As long as forceRelease() has not been called, the lock is never given to
\* two requests, and its flag neither leaks it nor frees it while it is in use,
\* whatever timeouts expire and whatever is queued.
THEOREM LockIsExclusive == Spec => []ExclusiveUntilForced
<1>1. IInv => ExclusiveUntilForced
  BY DEF IInv
<1> QED BY <1>1, Inductive, PTL

\* A step resumes no waiting request but the first of the queue.
THEOREM LockServesInOrder == Spec => ServedInOrder
<1> DEFINE Order == \A r \in Request :
                       pc[r] = "waiting" /\ pc'[r] # "waiting"
                           => waiters[1] = r /\ waiters' = Tail(waiters)
<1>1. IInv /\ [Next]_vars => [Order]_vars
  <2> SUFFICES ASSUME IInv, Next, NEW r \in Request,
                      pc[r] = "waiting", pc'[r] # "waiting"
               PROVE  waiters[1] = r /\ waiters' = Tail(waiters)
    BY DEF vars
  <2> USE DEF IInv, TypeOK
  <2>1. ASSUME NEW back \in SUBSET Inside, PassOn(back)
        PROVE  waiters[1] = r /\ waiters' = Tail(waiters)
    <3>1. r \notin back
      BY DEF Inside
    <3>2. waiters # <<>>
      BY <2>1, <3>1 DEF PassOn
    <3> QED BY <2>1, <3>1, <3>2 DEF PassOn
  <2>2. ASSUME NEW s \in Request, Release(s) \/ ReleaseExpired(s)
        PROVE  waiters[1] = r /\ waiters' = Tail(waiters)
    BY <2>1, <2>2 DEF Release, ReleaseExpired, Inside
  <2>3. ASSUME ForceRelease PROVE waiters[1] = r /\ waiters' = Tail(waiters)
    BY <2>1, <2>3 DEF ForceRelease
  <2>4. ASSUME NEW s \in Request,
               \/ TakeFree(s) \/ Enqueue(s) \/ SpawnWaiter(s)
               \/ AddWaiter(s) \/ Expire(s) \/ Enter(s) \/ Hang(s)
        PROVE  FALSE
    BY <2>4 DEF TakeFree, Enqueue, SpawnWaiter, AddWaiter, Expire, Enter, Hang
  <2> QED BY <2>2, <2>3, <2>4 DEF Next
<1> QED BY <1>1, Inductive, PTL DEF Spec, ServedInOrder
-----------------------------------------------------------------------------
(* What a forced release can do                                              *)

\* The number of requests inside, against the forced releases: while nobody is
\* inside beyond them, isLocked may be clear, and the next taker makes one more.
Excess == IF isLocked THEN forced + 1 ELSE forced
FewInside == IsFiniteSet(Inside) /\ Cardinality(Inside) <= Excess

\* Taking a request out of a finite set and putting another one in.
LEMMA SwapCardinality ==
    ASSUME NEW S, IsFiniteSet(S), NEW x \in S, NEW y
    PROVE  /\ IsFiniteSet((S \ {x}) \cup {y})
           /\ Cardinality((S \ {x}) \cup {y}) <= Cardinality(S)
<1>1. IsFiniteSet(S \ {x}) /\ Cardinality(S \ {x}) = Cardinality(S) - 1
  BY FS_RemoveElement
<1>2. Cardinality(S) \in Nat
  BY FS_CardinalityType
<1>3. /\ IsFiniteSet((S \ {x}) \cup {y})
      /\ \/ Cardinality((S \ {x}) \cup {y}) = Cardinality(S \ {x})
         \/ Cardinality((S \ {x}) \cup {y}) = Cardinality(S \ {x}) + 1
  BY <1>1, FS_AddElement
<1> QED BY <1>1, <1>2, <1>3

\* The request that gives the lock back leaves, the first waiter comes in, and
\* when there is none the flag is cleared.
LEMMA PassOnMoves ==
    ASSUME TypeOK, QueueOK, NEW back \in SUBSET Inside, PassOn(back)
    PROVE  \/ isLocked' = isLocked /\ \E w \in Request : Inside' = (Inside \ back) \cup {w}
           \/ isLocked' = FALSE /\ Inside' = Inside \ back
<1>1. CASE waiters # <<>>
  <2>1. Head(waiters) = waiters[1] /\ Len(waiters) >= 1 /\ waiters[1] \in Request
    BY <1>1 DEF TypeOK
  <2>2. pc[waiters[1]] = "waiting" /\ isLocked' = isLocked
    BY <2>1, <1>1 DEF QueueOK, PassOn
  <2>3. Inside' = (Inside \ back) \cup {waiters[1]}
    BY <1>1, <2>1, <2>2 DEF PassOn, Inside
  <2> QED BY <2>1, <2>2, <2>3
<1>2. CASE waiters = <<>>
  BY <1>2 DEF PassOn, Inside
<1> QED BY <1>1, <1>2

\* A step lets a request in only through the free lock, in place of the one that
\* gives it back, or by a forced release.
LEMMA FewInsideStep ==
    ASSUME TypeOK, QueueOK, FewInside, [Next]_vars
    PROVE  FewInside'
<1> DEFINE n == Cardinality(Inside)
<1>0. n \in Nat /\ n <= Excess /\ forced \in Nat
  BY FS_CardinalityType, MaxForceAssumption DEF FewInside, TypeOK
<1>1. ASSUME NEW r \in Request, TakeFree(r) PROVE FewInside'
  <2>1. Inside' = Inside \cup {r}
    BY <1>1 DEF TakeFree, Inside, TypeOK
  <2>2. isLocked = FALSE /\ isLocked' = TRUE /\ forced' = forced
    BY <1>1 DEF TakeFree, TypeOK
  <2>3. IsFiniteSet(Inside') /\ Cardinality(Inside') <= n + 1
    BY <2>1, <1>0, FS_AddElement DEF FewInside
  <2>4. Excess' = forced + 1 /\ Excess = forced
    BY <2>2 DEF Excess
  <2>5. Cardinality(Inside') \in Nat
    BY <2>3, FS_CardinalityType
  <2> QED BY <1>0, <2>3, <2>4, <2>5 DEF FewInside
<1>2. ASSUME NEW r \in Request,
             \/ Enqueue(r) \/ SpawnWaiter(r) \/ AddWaiter(r)
             \/ Expire(r) \/ Enter(r) \/ Hang(r)
      PROVE  FewInside'
  <2>1. Inside' = Inside /\ isLocked' = isLocked /\ forced' = forced
    BY <1>2 DEF Enqueue, SpawnWaiter, AddWaiter, Expire, Enter, Hang, Inside, TypeOK
  <2> QED BY <2>1 DEF FewInside, Excess
<1>3. ASSUME NEW r \in Request, Release(r) \/ ReleaseExpired(r) PROVE FewInside'
  <2>1. r \in Inside /\ PassOn({r}) /\ forced' = forced
    BY <1>3 DEF Release, ReleaseExpired, Inside
  <2>2. CASE isLocked' = isLocked /\ \E w \in Request : Inside' = (Inside \ {r}) \cup {w}
    <3>1. PICK w \in Request : Inside' = (Inside \ {r}) \cup {w}
      BY <2>2
    <3>2. IsFiniteSet(Inside') /\ Cardinality(Inside') <= n
      BY <2>1, <3>1, SwapCardinality DEF FewInside
    <3>3. Excess' = Excess /\ Cardinality(Inside') \in Nat /\ Excess \in Nat
      BY <1>0, <2>1, <2>2, <3>2, FS_CardinalityType DEF Excess
    <3> QED BY <1>0, <3>2, <3>3 DEF FewInside
  <2>3. CASE isLocked' = FALSE /\ Inside' = Inside \ {r}
    <3>1. IsFiniteSet(Inside') /\ Cardinality(Inside') = n - 1
      BY <2>1, <2>3, FS_RemoveElement DEF FewInside
    <3>2. Excess' = forced /\ Excess <= forced + 1 /\ Excess \in Nat
      BY <1>0, <2>1, <2>3 DEF Excess
    <3> QED BY <1>0, <3>1, <3>2 DEF FewInside
  <2> QED BY <2>1, <2>2, <2>3, PassOnMoves
<1>4. ASSUME ForceRelease PROVE FewInside'
  <2>1. PassOn({}) /\ forced' = forced + 1 /\ {} \in SUBSET Inside
    BY <1>4 DEF ForceRelease
  <2>2. CASE isLocked' = isLocked /\ \E w \in Request : Inside' = (Inside \ {}) \cup {w}
    <3>1. PICK w \in Request : Inside' = Inside \cup {w}
      BY <2>2
    <3>2. IsFiniteSet(Inside') /\ Cardinality(Inside') <= n + 1
      BY <3>1, <1>0, FS_AddElement DEF FewInside
    <3>3. Excess' = Excess + 1 /\ Excess \in Nat /\ Cardinality(Inside') \in Nat
      BY <1>0, <2>1, <2>2, <3>2, FS_CardinalityType DEF Excess
    <3> QED BY <1>0, <3>2, <3>3 DEF FewInside
  <2>3. CASE isLocked' = FALSE /\ Inside' = Inside \ {}
    <3>1. Inside' = Inside
      BY <2>3
    <3>2. Excess' = forced + 1 /\ Excess <= forced + 1 /\ Excess \in Nat
      BY <1>0, <2>1, <2>3 DEF Excess
    <3> QED BY <1>0, <3>1, <3>2 DEF FewInside
  <2> QED BY <2>1, <2>2, <2>3, PassOnMoves
<1>5. CASE UNCHANGED vars
  <2>1. Inside' = Inside /\ isLocked' = isLocked /\ forced' = forced
    BY <1>5 DEF vars, Inside
  <2> QED BY <2>1 DEF FewInside, Excess
<1> QED BY <1>1, <1>2, <1>3, <1>4, <1>5 DEF Next

\* Every forced release lets at most one more request in, for any number of
\* requests and whatever is handed on, times out or is queued in between.
THEOREM ForcedOverlapIsBounded == Spec => []OverlapBounded
<1>1. Init => FewInside
  <2> SUFFICES ASSUME Init PROVE FewInside
    OBVIOUS
  <2>1. Inside = {} /\ Excess = 0
    BY DEF Init, Inside, Excess
  <2> QED BY <2>1, FS_EmptySet DEF FewInside
<1>2. IInv /\ FewInside /\ [Next]_vars => FewInside'
  BY FewInsideStep DEF IInv
<1>3. IInv /\ FewInside => OverlapBounded
  <2> SUFFICES ASSUME IInv, FewInside PROVE OverlapBounded
    OBVIOUS
  <2>1. Cardinality(Inside) \in Nat /\ forced \in Nat
    BY FS_CardinalityType, MaxForceAssumption DEF FewInside, IInv, TypeOK
  <2>2. Cardinality(Inside) <= Excess
    BY DEF FewInside
  <2> QED BY <2>1, <2>2 DEF Excess, OverlapBounded
<1> QED BY <1>1, <1>2, <1>3, Inductive, PTL DEF Spec
-----------------------------------------------------------------------------
(* Nobody is left waiting for a lock that nobody will give back              *)

\* A request that waits is queued; the flag is set only for somebody; a request
\* of acquire() queued itself because the flag was set, and finds it set still.
AllQueued == \A r \in Request : pc[r] = "waiting" => \E i \in 1..Len(waiters) : waiters[i] = r
FlagHasHolder == isLocked => Inside # {}
SpawnedIsTimed == \A r \in Request : pc[r] = "spawned" => timed[r]
UntimedFindsFlag == \A r \in Request : pc[r] = "waiting" /\ ~timed[r] => isLocked

Guarded == AllQueued /\ FlagHasHolder /\ SpawnedIsTimed /\ UntimedFindsFlag

\* Handing the lock on clears the flag only when the queue is empty.
LEMMA PassOnKeepsGuard ==
    ASSUME TypeOK, QueueOK, Guarded, NEW back \in SUBSET Inside, PassOn(back)
    PROVE  Guarded'
<1>1. CASE waiters # <<>>
  <2>1. /\ Head(waiters) = waiters[1]
        /\ Len(waiters) >= 1 /\ Len(waiters) \in Nat
        /\ waiters[1] \in Request
        /\ Len(Tail(waiters)) = Len(waiters) - 1
        /\ \A i \in 1..Len(waiters) - 1 : Tail(waiters)[i] = waiters[i + 1]
    BY <1>1 DEF TypeOK
  <2>2. /\ waiters' = Tail(waiters)
        /\ pc' = [r \in Request |-> IF r = waiters[1] THEN "resumed"
                                    ELSE IF r \in back THEN "idle" ELSE pc[r]]
        /\ isLocked' = isLocked /\ timed' = timed
    BY <1>1, <2>1 DEF PassOn
  <2>3. /\ \A r \in Request : pc'[r] = "waiting" => pc[r] = "waiting" /\ r # waiters[1]
        /\ \A r \in Request : pc'[r] = "spawned" => pc[r] = "spawned"
    BY <2>2
  <2>4. AllQueued'
    <3> SUFFICES ASSUME NEW r \in Request, pc'[r] = "waiting"
                 PROVE  \E i \in 1..Len(waiters') : waiters'[i] = r
      BY DEF AllQueued
    <3>1. PICK i \in 1..Len(waiters) : waiters[i] = r
      BY <2>3 DEF Guarded, AllQueued
    <3>2. i - 1 \in 1..Len(waiters) - 1 /\ (i - 1) + 1 = i
      BY <3>1, <2>1, <2>3
    <3>3. waiters'[i - 1] = r /\ i - 1 \in 1..Len(waiters')
      BY <3>1, <3>2, <2>1, <2>2
    <3> QED BY <3>3
  <2>5. waiters[1] \in Inside'
    BY <2>1, <2>2 DEF Inside
  <2>6. UntimedFindsFlag' /\ SpawnedIsTimed'
    BY <2>2, <2>3 DEF Guarded, UntimedFindsFlag, SpawnedIsTimed
  <2> QED BY <2>4, <2>5, <2>6 DEF Guarded, FlagHasHolder
<1>2. CASE waiters = <<>>
  <2>1. Len(waiters) = 0
    BY <1>2
  <2>2. \A r \in Request : pc[r] # "waiting"
    BY <2>1 DEF Guarded, AllQueued
  <2>3. /\ isLocked' = FALSE /\ timed' = timed
        /\ \A r \in Request : pc'[r] # "waiting"
        /\ \A r \in Request : pc'[r] = "spawned" => pc[r] = "spawned"
    BY <1>2, <2>2 DEF PassOn
  <2> QED BY <2>3 DEF Guarded, AllQueued, FlagHasHolder, UntimedFindsFlag, SpawnedIsTimed
<1> QED BY <1>1, <1>2

\* A request that queues itself last: everybody who waits is queued.
LEMMA QueuingKeepsGuard ==
    ASSUME TypeOK, Guarded, NEW r \in Request, Enqueue(r) \/ AddWaiter(r)
    PROVE  Guarded'
<1>1. /\ waiters' = Append(waiters, r)
      /\ pc' = [pc EXCEPT ![r] = "waiting"]
      /\ pc[r] \in {"idle", "spawned"}
      /\ isLocked' = isLocked
  BY DEF Enqueue, AddWaiter
<1>2. Inside' = Inside
  BY <1>1 DEF Inside, TypeOK
<1>3. /\ Len(waiters) \in Nat /\ Len(waiters') = Len(waiters) + 1
      /\ waiters'[Len(waiters) + 1] = r
      /\ \A i \in 1..Len(waiters) : waiters'[i] = waiters[i]
  BY <1>1 DEF TypeOK
<1>4. AllQueued'
  <2> SUFFICES ASSUME NEW s \in Request, pc'[s] = "waiting"
               PROVE  \E i \in 1..Len(waiters') : waiters'[i] = s
    BY DEF AllQueued
  <2>1. CASE s = r
    <3>1. Len(waiters) + 1 \in 1..Len(waiters')
      BY <1>3
    <3> QED BY <2>1, <3>1, <1>3
  <2>2. CASE s # r
    <3>1. PICK i \in 1..Len(waiters) : waiters[i] = s
      BY <1>1, <2>2 DEF Guarded, AllQueued, TypeOK
    <3>2. i \in 1..Len(waiters') /\ waiters'[i] = s
      BY <3>1, <1>3
    <3> QED BY <3>2
  <2> QED BY <2>1, <2>2
<1>5. /\ \A s \in Request : pc'[s] = "waiting" => pc[s] = "waiting" \/ s = r
      /\ \A s \in Request : pc'[s] = "spawned" => pc[s] = "spawned" /\ s # r
  BY <1>1 DEF TypeOK
<1>6. CASE Enqueue(r)
  <2>1. /\ isLocked'
        /\ \A s \in Request \ {r} : timed'[s] = timed[s]
    BY <1>6 DEF Enqueue, TypeOK
  <2>2. UntimedFindsFlag' /\ SpawnedIsTimed'
    BY <2>1, <1>5 DEF UntimedFindsFlag, SpawnedIsTimed, Guarded
  <2> QED BY <1>1, <1>2, <1>4, <2>2 DEF Guarded, FlagHasHolder
<1>7. CASE AddWaiter(r)
  <2>1. timed' = timed /\ timed[r]
    BY <1>7 DEF AddWaiter, Guarded, SpawnedIsTimed
  <2>2. UntimedFindsFlag' /\ SpawnedIsTimed'
    BY <1>1, <1>5, <2>1 DEF UntimedFindsFlag, SpawnedIsTimed, Guarded
  <2> QED BY <1>1, <1>2, <1>4, <2>2 DEF Guarded, FlagHasHolder
<1> QED BY <1>6, <1>7

\* A request queues itself behind a set flag, and a taker sets the flag.
LEMMA GuardedStep ==
    ASSUME TypeOK, QueueOK, Guarded, [Next]_vars
    PROVE  Guarded'
<1>1. ASSUME NEW r \in Request, TakeFree(r) PROVE Guarded'
  <2>1. /\ \A s \in Request : pc'[s] \in {"waiting", "spawned"} => pc'[s] = pc[s] /\ s # r
        /\ \A s \in Request \ {r} : timed'[s] = timed[s]
        /\ r \in Inside' /\ waiters' = waiters /\ isLocked' = TRUE
    BY <1>1 DEF TakeFree, Inside, TypeOK
  <2> QED BY <2>1 DEF Guarded, AllQueued, FlagHasHolder, SpawnedIsTimed, UntimedFindsFlag
<1>2. ASSUME NEW r \in Request, Enqueue(r) \/ AddWaiter(r) PROVE Guarded'
  BY <1>2, QueuingKeepsGuard
<1>3. ASSUME NEW r \in Request, SpawnWaiter(r) PROVE Guarded'
  <2>1. /\ \A s \in Request : pc'[s] = "waiting" => pc[s] = "waiting" /\ s # r
        /\ \A s \in Request : pc'[s] = "spawned" => pc[s] = "spawned" \/ s = r
        /\ \A s \in Request \ {r} : timed'[s] = timed[s]
        /\ timed'[r] = TRUE
        /\ Inside' = Inside /\ waiters' = waiters /\ isLocked' = isLocked
    BY <1>3 DEF SpawnWaiter, Inside, TypeOK
  <2> QED BY <2>1 DEF Guarded, AllQueued, FlagHasHolder, SpawnedIsTimed, UntimedFindsFlag
<1>4. ASSUME NEW r \in Request, Expire(r) \/ Enter(r) \/ Hang(r) PROVE Guarded'
  <2>1. /\ \A s \in Request : pc'[s] \in {"waiting", "spawned"} => pc'[s] = pc[s]
        /\ Inside' = Inside /\ waiters' = waiters /\ isLocked' = isLocked /\ timed' = timed
    BY <1>4 DEF Expire, Enter, Hang, Inside, TypeOK
  <2> QED BY <2>1 DEF Guarded, AllQueued, FlagHasHolder, SpawnedIsTimed, UntimedFindsFlag
<1>5. ASSUME NEW r \in Request, Release(r) \/ ReleaseExpired(r) PROVE Guarded'
  <2>1. {r} \in SUBSET Inside /\ PassOn({r})
    BY <1>5 DEF Release, ReleaseExpired, Inside
  <2> QED BY <2>1, PassOnKeepsGuard
<1>6. ASSUME ForceRelease PROVE Guarded'
  <2>1. {} \in SUBSET Inside /\ PassOn({})
    BY <1>6 DEF ForceRelease
  <2> QED BY <2>1, PassOnKeepsGuard
<1>7. CASE UNCHANGED vars
  BY <1>7 DEF vars, Inside, Guarded, AllQueued, FlagHasHolder, SpawnedIsTimed, UntimedFindsFlag
<1> QED BY <1>1, <1>2, <1>3, <1>4, <1>5, <1>6, <1>7 DEF Next

\* The lock is never lost under a request of acquire(), which has no timeout:
\* while it waits somebody is inside, whatever was forced, expired or queued.
THEOREM NoWaiterIsStranded == Spec => []WaiterHasHolder
<1>1. Init => Guarded
  BY DEF Init, Guarded, AllQueued, FlagHasHolder, SpawnedIsTimed, UntimedFindsFlag
<1>2. IInv /\ Guarded /\ [Next]_vars => Guarded'
  BY GuardedStep DEF IInv
<1>3. Guarded => WaiterHasHolder
  BY DEF Guarded, FlagHasHolder, UntimedFindsFlag, WaiterHasHolder
<1> QED BY <1>1, <1>2, <1>3, Inductive, PTL DEF Spec
=============================================================================
