--------------------------- MODULE PeerMessageLock ---------------------------
(* The actor PeerMessageLock of Core/Network/Peer.swift: the asynchronous lock *)
(* every operation takes around its use of a peer's message stream.            *)
(*                                                                             *)
(* A request is one call of acquire(), acquireWithTimeout() or tryAcquire().   *)
(* The methods of an actor run one at a time, each up to its next suspension   *)
(* point, so an action is a method body, or the part of one between two        *)
(* suspension points.  acquireWithTimeout() spawns a task that enqueues the    *)
(* request later and races it against a GCD timer: a request that has expired  *)
(* has already answered FALSE to its caller while its task is still queued.    *)
EXTENDS Naturals, Sequences, FiniteSets

CONSTANTS
    Request,   \* lock requests that can be outstanding at the same time
    MaxForce   \* bound on the calls of forceRelease()

ASSUME MaxForceAssumption == MaxForce \in Nat

VARIABLES
    isLocked,  \* the actor's isLocked
    waiters,   \* the actor's waiters: requests parked on a continuation, FIFO
    pc,        \* where each request is
    timed,     \* the request came from acquireWithTimeout()
    expired,   \* its GCD timer fired first: the caller was answered FALSE
    forced     \* calls of forceRelease() so far

vars == <<isLocked, waiters, pc, timed, expired, forced>>

\* idle -> (spawned ->) waiting -> resumed -> holding -> idle, or idle -> holding;
\* a holder whose receive never returns is stuck
PCs == {"idle", "spawned", "waiting", "resumed", "holding", "stuck"}

TypeOK ==
    /\ isLocked \in BOOLEAN
    /\ waiters \in Seq(Request)
    /\ pc \in [Request -> PCs]
    /\ timed \in [Request -> BOOLEAN]
    /\ expired \in [Request -> BOOLEAN]
    /\ forced \in 0..MaxForce

\* The requests that were given the lock and have not given it back.
Inside == {r \in Request : pc[r] \in {"resumed", "holding", "stuck"}}

Init ==
    /\ isLocked = FALSE
    /\ waiters = <<>>
    /\ pc = [r \in Request |-> "idle"]
    /\ timed = [r \in Request |-> FALSE]
    /\ expired = [r \in Request |-> FALSE]
    /\ forced = 0

-----------------------------------------------------------------------------
(* Taking the lock                                                           *)

\* The first branch of acquire() and acquireWithTimeout(), and tryAcquire():
\* the lock is free and is taken without suspending.
TakeFree(r) ==
    /\ pc[r] = "idle"
    /\ ~isLocked
    /\ isLocked' = TRUE
    /\ pc' = [pc EXCEPT ![r] = "holding"]
    /\ timed' = [timed EXCEPT ![r] = FALSE]
    /\ expired' = [expired EXCEPT ![r] = FALSE]
    /\ UNCHANGED <<waiters, forced>>

\* acquire() on a held lock: the continuation is queued before the actor is left.
Enqueue(r) ==
    /\ pc[r] = "idle"
    /\ isLocked
    /\ waiters' = Append(waiters, r)
    /\ pc' = [pc EXCEPT ![r] = "waiting"]
    /\ timed' = [timed EXCEPT ![r] = FALSE]
    /\ expired' = [expired EXCEPT ![r] = FALSE]
    /\ UNCHANGED <<isLocked, forced>>

\* Mutant of SpawnWaiter: acquire() leaves the queueing to a spawned task, too.
MutSpawnUntimed(r) ==
    /\ pc[r] = "idle"
    /\ isLocked
    /\ pc' = [pc EXCEPT ![r] = "spawned"]
    /\ timed' = [timed EXCEPT ![r] = FALSE]
    /\ expired' = [expired EXCEPT ![r] = FALSE]
    /\ UNCHANGED <<isLocked, waiters, forced>>

\* acquireWithTimeout() on a held lock: it only spawns the task that will queue.
SpawnWaiter(r) ==
    /\ pc[r] = "idle"
    /\ isLocked
    /\ pc' = [pc EXCEPT ![r] = "spawned"]
    /\ timed' = [timed EXCEPT ![r] = TRUE]
    /\ expired' = [expired EXCEPT ![r] = FALSE]
    /\ UNCHANGED <<isLocked, waiters, forced>>

\* waitForLock() / addWaiter(): the spawned task reaches the actor.  It does not
\* look at isLocked again.
AddWaiter(r) ==
    /\ pc[r] = "spawned"
    /\ waiters' = Append(waiters, r)
    /\ pc' = [pc EXCEPT ![r] = "waiting"]
    /\ UNCHANGED <<isLocked, timed, expired, forced>>

\* The GCD timer wins the race for continuationResumed: the caller gets FALSE.
Expire(r) ==
    /\ timed[r]
    /\ pc[r] \in {"spawned", "waiting", "resumed"}
    /\ ~expired[r]
    /\ expired' = [expired EXCEPT ![r] = TRUE]
    /\ UNCHANGED <<isLocked, waiters, pc, timed, forced>>

\* Mutant of Enter: the caller is answered, and nobody records that it holds.
MutEnterLost(r) ==
    /\ pc[r] = "resumed"
    /\ pc' = [pc EXCEPT ![r] = "answered"]
    /\ UNCHANGED <<isLocked, waiters, timed, expired, forced>>

\* The resumed task answers its caller TRUE, before the timer could fire.
Enter(r) ==
    /\ pc[r] = "resumed"
    /\ ~expired[r]
    /\ pc' = [pc EXCEPT ![r] = "holding"]
    /\ UNCHANGED <<isLocked, waiters, timed, expired, forced>>

\* The holder begins a receive in a task that has already been cancelled: onCancel
\* finds no continuation to resume, and its flag keeps both the answer and the
\* timer from resuming the one that is stored after it.  The operation never ends.
Hang(r) ==
    /\ pc[r] = "holding"
    /\ pc' = [pc EXCEPT ![r] = "stuck"]
    /\ UNCHANGED <<isLocked, waiters, timed, expired, forced>>

-----------------------------------------------------------------------------
(* Giving it back                                                            *)

\* Mutant of PassOn: unlocks although the lock is handed on (before FIX #1088).
MutPassOnUnlocks(back) ==
    /\ isLocked' = FALSE
    /\ waiters' = IF waiters = <<>> THEN waiters ELSE Tail(waiters)
    /\ pc' = [r \in Request |-> IF waiters # <<>> /\ r = waiters[1] THEN "resumed"
                               ELSE IF r \in back THEN "idle" ELSE pc[r]]
    /\ UNCHANGED <<timed, expired>>

\* What release() and forceRelease() do: hand the lock to the first waiter,
\* isLocked staying as it is, or clear isLocked when nobody waits.  "back" are
\* the requests that give the lock back in the same step.
PassOn(back) ==
    /\ IF waiters # <<>>
         THEN /\ waiters' = Tail(waiters)
              /\ pc' = [r \in Request |-> IF r = Head(waiters) THEN "resumed"
                                          ELSE IF r \in back THEN "idle" ELSE pc[r]]
              /\ UNCHANGED isLocked
         ELSE /\ isLocked' = FALSE
              /\ pc' = [r \in Request |-> IF r \in back THEN "idle" ELSE pc[r]]
              /\ UNCHANGED waiters
    /\ UNCHANGED <<timed, expired>>

\* The end of withExclusiveAccess(), withExclusiveAccessTimeout() or of the
\* listener's receive: the operation returned or threw.
Release(r) ==
    /\ pc[r] = "holding"
    /\ PassOn({r})
    /\ UNCHANGED forced

\* Mutant of ReleaseExpired: the task ends without giving the lock back.
MutReleaseExpiredKeeps(r) ==
    /\ pc[r] = "resumed"
    /\ expired[r]
    /\ pc' = [pc EXCEPT ![r] = "idle"]
    /\ UNCHANGED <<isLocked, waiters, timed, expired, forced>>

\* The task of a request that timed out gives back the lock it has just got.
ReleaseExpired(r) ==
    /\ pc[r] = "resumed"
    /\ expired[r]
    /\ PassOn({r})
    /\ UNCHANGED forced

\* forceRelease(), called by whoever stops a listener: no check of who holds the
\* lock, nor of whether it is held.
ForceRelease ==
    /\ forced < MaxForce
    /\ forced' = forced + 1
    /\ PassOn({})

Next ==
    \/ \E r \in Request :
          \/ TakeFree(r) \/ Enqueue(r) \/ SpawnWaiter(r) \/ AddWaiter(r)
          \/ Expire(r) \/ Enter(r) \/ Hang(r) \/ Release(r) \/ ReleaseExpired(r)
    \/ ForceRelease

Spec == Init /\ [][Next]_vars

\* Tasks that are runnable run, and a receive ends by its timer unless it hangs:
\* nothing is assumed of a stuck holder.  No caller has to come, nobody has to
\* force the lock.
Fairness ==
    \A r \in Request :
        WF_vars(AddWaiter(r)) /\ WF_vars(Enter(r))
            /\ WF_vars(Release(r)) /\ WF_vars(ReleaseExpired(r))

FairSpec == Spec /\ Fairness

-----------------------------------------------------------------------------
(* Properties                                                                *)

\* "Prevents concurrent operations from interfering with each other's message
\* streams" (Peer.swift:486): the lock is never given to two requests at a time.
MutualExclusion == \A r, s \in Inside : r = s

\* isLocked says exactly that a request is inside.
FlagIsTruthful == isLocked <=> Inside # {}

\* The lock's guarantee as the code gives it: only if forceRelease() was called
\* before may two requests be inside, or the lock be leaked or free while in use.
ExclusiveUntilForced == forced = 0 => MutualExclusion /\ FlagIsTruthful

\* Each forceRelease() lets at most one more request in: the damage of a forced
\* release does not multiply through the hand-offs that follow it.
OverlapBounded == Cardinality(Inside) <= forced + 1

\* A continuation of acquire() is resumed by nobody but a holder that hands the
\* lock on: while one is queued somebody is inside, whatever was forced, expired
\* or queued.  acquire() tests the flag and queues in one step for that reason;
\* acquireWithTimeout() does not, and a request of its own may park on a free lock.
WaiterHasHolder == \A r \in Request : pc[r] = "waiting" /\ ~timed[r] => Inside # {}

\* The lock is held, and by nobody but receives that never return.
Stalled == isLocked /\ Inside # {} /\ \A r \in Inside : pc[r] = "stuck"

\* A request queued by acquire(), which has no timeout, is served in the end,
\* whatever expired requests are queued before it; unless the lock is held for
\* good by a receive that hangs, and nobody forces it any more.
UntimedIsServed ==
    \/ <>[]Stalled
    \/ \A r \in Request : (pc[r] = "waiting" /\ ~timed[r]) ~> (pc[r] = "holding")

\* Requests are served in the order they were queued: a step resumes no request
\* but the first waiter, and leaves the order of the others alone.
ServedInOrder ==
    [][\A r \in Request :
          pc[r] = "waiting" /\ pc'[r] # "waiting"
              => waiters[1] = r /\ waiters' = Tail(waiters)]_vars
=============================================================================
