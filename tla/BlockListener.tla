---------------------------- MODULE BlockListener ----------------------------
(* The block listener of one peer (Peer.swift): its state machine, the tasks   *)
(* that run its loop one after the other, stopBlockListener() and              *)
(* signalStopListener(), the connection they read and the isActive flag of the *)
(* dispatcher.                                                                 *)
(*                                                                             *)
(* Peer is a class and not an actor: a step is a section under stateLock or    *)
(* connectionLock, or what lies between two suspensions.  There is no clock.   *)
(* The message lock, which has its own module, only makes a task wait.         *)
EXTENDS Naturals

CONSTANTS
    Task,     \* the tasks that startBlockListener() may create
    NoTask,   \* no task
    Stopper,  \* the callers of stopBlockListener() and signalStopListener()
    MaxConn   \* bound: connections that are opened

ASSUME TaskAssumption == NoTask \notin Task
ASSUME ConnAssumption == MaxConn \in Nat

VARIABLES
    state,       \* listenerState
    owner,       \* the taskID in .running(taskID:)
    current,     \* blockListenerTask
    task,        \* how far each task has come
    cancelled,   \* the tasks that were cancelled
    started,     \* startConnection of each task, 0 for nil
    connection,  \* connection, 0 for nil
    opened,      \* connections opened so far
    active,      \* isActive of the dispatcher
    stop,        \* how far each call of stopBlockListener() has come
    target,      \* the task it waits for
    owed         \* callers whose spawned setActive(false) has not run yet

machine == <<state, owner>>
tasks == <<task, started>>
link == <<connection, opened>>
stops == <<stop, target, owed>>
vars == <<machine, current, tasks, cancelled, link, active, stops>>

\* The steps of a task.  Until it is "spawned" its Task does not exist.
Starting == {"created", "cleared", "spawned", "captured", "leaving"}
InLoop == {"looping", "receiving", "entering", "reading", "stuck", "handling"}
Activated == InLoop \cup {"killing", "exiting"}
Alive == Starting \cup {"settling", "activating"} \cup Activated \cup {"finishing"}

TypeOK ==
    /\ state \in {"stopped", "starting", "running", "stopping"}
    /\ IF state = "running" THEN owner \in Task ELSE owner = NoTask
    /\ current \in Task \cup {NoTask}
    /\ task \in [Task -> Alive \cup {"unused", "ended"}]
    /\ cancelled \subseteq Task
    /\ started \in [Task -> 0..MaxConn]
    /\ opened \in 0..MaxConn /\ connection \in {0, opened}
    /\ active \in BOOLEAN
    /\ stop \in [Stopper -> {"idle", "claiming", "cancelling", "waiting", "verifying",
                             "killing", "forcing", "polling", "pollKilling", "pollForcing",
                             "signalled"}]
    /\ target \in [Stopper -> Task \cup {NoTask}]
    /\ owed \subseteq Stopper

Init ==
    /\ state = "stopped" /\ owner = NoTask /\ current = NoTask
    /\ task = [i \in Task |-> "unused"] /\ started = [i \in Task |-> 0]
    /\ cancelled = {}
    /\ connection = 0 /\ opened = 0
    /\ active = FALSE
    /\ stop = [s \in Stopper |-> "idle"] /\ target = [s \in Stopper |-> NoTask] /\ owed = {}

Enters(new) == state' = new /\ owner' = NoTask

-----------------------------------------------------------------------------
(* startBlockListener()                                                      *)

\* transitionTo(.starting, from: [.stopped]), which a second caller passes too,
\* because .starting is already the state it asks for.
Start(i) ==
    /\ task[i] = "unused" /\ state \in {"stopped", "starting"}
    /\ Enters("starting")
    /\ task' = [task EXCEPT ![i] = "created"]
    /\ UNCHANGED <<current, started, cancelled, link, active, stops>>

\* The task before is cancelled and forgotten.
Clear(i) ==
    /\ task[i] = "created"
    /\ cancelled' = cancelled \cup ({current} \ {NoTask})
    /\ current' = NoTask
    /\ task' = [task EXCEPT ![i] = "cleared"]
    /\ UNCHANGED <<machine, started, link, active, stops>>

\* The new one is stored, without a lock: what a second start that came in between
\* has stored is forgotten and was not cancelled.
Store(i) ==
    /\ task[i] = "cleared"
    /\ current' = i
    /\ task' = [task EXCEPT ![i] = "spawned"]
    /\ UNCHANGED <<machine, started, cancelled, link, active, stops>>

-----------------------------------------------------------------------------
(* The task                                                                  *)

Goes(i, from, to) == task[i] = from /\ task' = [task EXCEPT ![i] = to]

\* FIX #1178: it remembers the connection that it starts on.
Capture(i) ==
    /\ Goes(i, "spawned", IF connection = 0 THEN "leaving" ELSE "captured")
    /\ started' = [started EXCEPT ![i] = connection]
    /\ UNCHANGED <<machine, current, cancelled, link, active, stops>>

\* Mutant of Run: the state does not say which task is running.
MutRunNameless(i) ==
    /\ \/ state = "starting" /\ Goes(i, "captured", "settling")
          /\ Enters("running")
       \/ state # "starting" /\ Goes(i, "captured", "leaving")
          /\ UNCHANGED machine
    /\ UNCHANGED <<current, started, cancelled, link, active, stops>>

\* transitionTo(.running(taskID:), from: [.starting])
Run(i) ==
    /\ \/ state = "starting" /\ Goes(i, "captured", "settling")
          /\ state' = "running" /\ owner' = i
       \/ state # "starting" /\ Goes(i, "captured", "leaving")
          /\ UNCHANGED machine
    /\ UNCHANGED <<current, started, cancelled, link, active, stops>>

\* transitionTo(.stopped, from: nil): whatever the state is, and whosever.
Leave(i) ==
    /\ Goes(i, "leaving", "ended")
    /\ Enters("stopped")
    /\ UNCHANGED <<current, started, cancelled, link, active, stops>>

\* The delay after the handshake; FIX #1179: a cancelled sleep throws.
Settle(i) ==
    /\ Goes(i, "settling", IF i \in cancelled THEN "leaving" ELSE "activating")
    /\ UNCHANGED <<machine, current, started, cancelled, link, active, stops>>

Activate(i) ==
    /\ Goes(i, "activating", "looping")
    /\ active' = TRUE
    /\ UNCHANGED <<machine, current, started, cancelled, link, stops>>

\* The condition of the loop asks for some running task, not for this one.
Loop(i) ==
    /\ Goes(i, "looping", IF state = "running" /\ connection # 0 /\ connection = started[i]
                          THEN "receiving" ELSE "exiting")
    /\ UNCHANGED <<machine, current, started, cancelled, link, active, stops>>

\* Mutant of Acquire: without the lock it tries again, cancelled or not.
MutAcquireAgain(i) ==
    /\ \/ Goes(i, "receiving", "looping")
       \/ Goes(i, "receiving", IF state # "running" THEN "killing"
                               ELSE IF connection = 0 THEN "exiting" ELSE "entering")
    /\ UNCHANGED <<machine, current, started, cancelled, link, active, stops>>

\* Five seconds without the lock (FIX #1495), or with the lock the check of the
\* state; a cancelled task notices only in the first case.
Acquire(i) ==
    /\ \/ Goes(i, "receiving", IF i \in cancelled THEN "killing" ELSE "looping")
       \/ Goes(i, "receiving", IF state # "running" THEN "killing"
                               ELSE IF connection = 0 THEN "exiting" ELSE "entering")
    /\ UNCHANGED <<machine, current, started, cancelled, link, active, stops>>

\* receive(count:): in a task that was cancelled before, onCancel runs first, marks
\* the flag and finds no continuation; the callback and the timer then find the
\* flag marked, and nothing resumes the continuation that is stored after it.
Enter(i) ==
    /\ Goes(i, "entering", IF i \in cancelled THEN "stuck" ELSE "reading")
    /\ UNCHANGED <<machine, current, started, cancelled, link, active, stops>>

\* A header, after which the payload is received, or the end of a message.
Receive(i) ==
    /\ Goes(i, "reading", "entering") \/ Goes(i, "reading", "handling")
    /\ UNCHANGED <<machine, current, started, cancelled, link, active, stops>>

\* FIX #1196: a cancellation during the receive resumes it.
Interrupt(i) ==
    /\ i \in cancelled /\ Goes(i, "reading", "killing")
    /\ UNCHANGED <<machine, current, started, cancelled, link, active, stops>>

\* The connection is closed, or corrupt (FIX #1175), or silent for 300 s: then
\* the timer drops whatever connection the peer has by then.
Break(i) ==
    /\ Goes(i, "reading", "exiting")
    /\ connection' \in {0, connection}
    /\ UNCHANGED <<machine, current, started, cancelled, opened, active, stops>>

\* handleBackgroundMessage(), which does not notice a cancellation.
Handle(i) ==
    /\ Goes(i, "handling", "looping")
    /\ UNCHANGED <<machine, current, started, cancelled, link, active, stops>>

\* Orphan prevention: again whatever connection the peer has by then.
Kill(i) ==
    /\ Goes(i, "killing", "exiting")
    /\ connection' = 0
    /\ UNCHANGED <<machine, current, started, cancelled, opened, active, stops>>

\* Mutant of Deactivate: the dispatcher is left active.
MutDeactivateForgets(i) ==
    /\ Goes(i, "exiting", "finishing")
    /\ UNCHANGED <<machine, current, started, cancelled, link, active, stops>>

Deactivate(i) ==
    /\ Goes(i, "exiting", "finishing")
    /\ active' = FALSE
    /\ UNCHANGED <<machine, current, started, cancelled, link, stops>>

\* Mutant of Finish: .stopping is not expected.
MutFinishOnlyRunning(i) ==
    /\ Goes(i, "finishing", "ended")
    /\ IF state = "running" /\ owner = i THEN Enters("stopped") ELSE UNCHANGED machine
    /\ UNCHANGED <<current, started, cancelled, link, active, stops>>

\* transitionTo(.stopped, from: [.running(taskID:), .stopping]), FIX #1451
Finish(i) ==
    /\ Goes(i, "finishing", "ended")
    /\ IF state = "stopping" \/ (state = "running" /\ owner = i)
       THEN Enters("stopped") ELSE UNCHANGED machine
    /\ UNCHANGED <<current, started, cancelled, link, active, stops>>

-----------------------------------------------------------------------------
(* stopBlockListener()                                                       *)

Moves(s, from, to) == stop[s] = from /\ stop' = [stop EXCEPT ![s] = to]
Forget(s) == target' = [target EXCEPT ![s] = NoTask]

\* FIX #1248: the dispatcher is deactivated at once.
Stop(s) ==
    /\ Moves(s, "idle", "claiming")
    /\ active' = FALSE
    /\ UNCHANGED <<machine, current, tasks, cancelled, link, target, owed>>

\* One section under stateLock.
Claim(s) ==
    /\ \/ state \in {"running", "starting"} /\ Moves(s, "claiming", "cancelling")
          /\ Enters("stopping") /\ target' = [target EXCEPT ![s] = current]
       \/ state = "stopping" /\ Moves(s, "claiming", "polling")
          /\ UNCHANGED machine /\ target' = [target EXCEPT ![s] = current]
       \/ state = "stopped" /\ Moves(s, "claiming", "idle") /\ UNCHANGED <<machine, target>>
    /\ UNCHANGED <<current, tasks, cancelled, link, active, owed>>

CancelTask(s) ==
    /\ Moves(s, "cancelling", IF target[s] = NoTask THEN "verifying" ELSE "waiting")
    /\ cancelled' = cancelled \cup ({target[s]} \ {NoTask})
    /\ UNCHANGED <<machine, current, tasks, link, active, target, owed>>

\* Mutant of Await: the stop waits for the task without a timeout.
MutAwaitUntimed(s) ==
    /\ Moves(s, "waiting", "verifying") /\ task[target[s]] = "ended"
    /\ UNCHANGED <<machine, current, tasks, cancelled, link, active, target, owed>>

\* The task has ended, or two seconds are over (FIX #814).
Await(s) ==
    /\ \/ Moves(s, "waiting", "verifying") /\ task[target[s]] = "ended"
       \/ Moves(s, "waiting", "killing")
    /\ UNCHANGED <<machine, current, tasks, cancelled, link, active, target, owed>>

\* A second stop: the state is stopped, or two seconds are over (FIX #1088).
Poll(s) ==
    /\ \/ state = "stopped" /\ Moves(s, "polling", "idle") /\ Forget(s) /\ UNCHANGED cancelled
       \/ /\ Moves(s, "polling", "pollKilling") /\ UNCHANGED target
          /\ cancelled' = cancelled \cup ({target[s]} \ {NoTask})
    /\ UNCHANGED <<machine, current, tasks, link, active, owed>>

\* FIX #1093: the connection is cancelled before the lock is forced.
KillFirst(s) ==
    /\ Moves(s, "killing", "forcing") \/ Moves(s, "pollKilling", "pollForcing")
    /\ connection' = 0
    /\ UNCHANGED <<machine, current, tasks, cancelled, opened, active, target, owed>>

\* forceRelease(), then transitionTo(.stopped, from: nil); the second stop is done.
ForceStop(s) ==
    /\ \/ Moves(s, "forcing", "verifying") /\ UNCHANGED target
       \/ Moves(s, "pollForcing", "idle") /\ Forget(s)
    /\ Enters("stopped")
    /\ UNCHANGED <<current, tasks, cancelled, link, active, owed>>

\* FIX #906: a lock that is still held is forced too, after its connection.
Verify(s) ==
    /\ Moves(s, "verifying", "idle") /\ Forget(s)
    /\ connection' \in {0, connection}
    /\ UNCHANGED <<machine, current, tasks, cancelled, opened, active, owed>>

-----------------------------------------------------------------------------
(* signalStopListener() and the connection                                   *)

\* A task that will deactivate the dispatcher is spawned, and the state changes.
Signal(s) ==
    /\ s \notin owed
    /\ Moves(s, "idle", "signalled")
    /\ owed' = owed \cup {s}
    /\ IF state = "running" THEN Enters("stopping") ELSE UNCHANGED machine
    /\ target' = [target EXCEPT ![s] = current]
    /\ UNCHANGED <<current, tasks, cancelled, link, active>>

SignalCancel(s) ==
    /\ Moves(s, "signalled", "idle") /\ Forget(s)
    /\ cancelled' = cancelled \cup ({target[s]} \ {NoTask})
    /\ UNCHANGED <<machine, current, tasks, link, active, owed>>

SignalDeactivate(s) ==
    /\ s \in owed
    /\ owed' = owed \ {s}
    /\ active' = FALSE
    /\ UNCHANGED <<machine, current, tasks, cancelled, link, stop, target>>

\* forceReleaseMessageLock(), which drops the connection next.
ForceReleaseMessageLock ==
    /\ active' = FALSE
    /\ UNCHANGED <<machine, current, tasks, cancelled, link, stops>>

\* disconnect() and forceReconnect(), or a receive of somebody else timed out.
Disconnect ==
    /\ connection # 0
    /\ connection' = 0
    /\ UNCHANGED <<machine, current, tasks, cancelled, opened, active, stops>>

\* connect() and performHandshake()
Connect ==
    /\ connection = 0 /\ opened < MaxConn
    /\ opened' = opened + 1 /\ connection' = opened + 1
    /\ UNCHANGED <<machine, current, tasks, cancelled, active, stops>>

-----------------------------------------------------------------------------
TaskStep(i) ==
    \/ Clear(i) \/ Store(i) \/ Capture(i) \/ Run(i) \/ Leave(i) \/ Settle(i)
    \/ Activate(i) \/ Loop(i)
    \/ Acquire(i) \/ Enter(i) \/ Receive(i) \/ Interrupt(i) \/ Break(i) \/ Handle(i)
    \/ Kill(i) \/ Deactivate(i) \/ Finish(i)

StopStep(s) ==
    \/ Claim(s) \/ CancelTask(s) \/ Await(s) \/ Poll(s) \/ KillFirst(s) \/ ForceStop(s)
    \/ Verify(s) \/ SignalCancel(s)

Next ==
    \/ \E i \in Task : Start(i) \/ TaskStep(i)
    \/ \E s \in Stopper : Stop(s) \/ Signal(s) \/ StopStep(s) \/ SignalDeactivate(s)
    \/ ForceReleaseMessageLock \/ Disconnect \/ Connect

Spec == Init /\ [][Next]_vars

\* Tasks that can go on do, each wait of a stop has a timer, and a connection is
\* not silent for ever.
Fairness ==
    /\ \A i \in Task : WF_vars(TaskStep(i))
    /\ \A s \in Stopper : WF_vars(StopStep(s)) /\ WF_vars(SignalDeactivate(s))

FairSpec == Spec /\ Fairness

-----------------------------------------------------------------------------
(* Properties                                                                *)

\* isListening says TRUE only while a task of the listener has not ended, and
\* .running(taskID:) names such a task: no interleaving of starts, stops, signals
\* and lost connections leaves behind a listener that nobody runs.
ListenerHasTask ==
    /\ state # "stopped" => \E i \in Task : task[i] \in Alive
    /\ state = "running" => task[owner] \in Alive

\* The dispatcher takes requests only while there is a task in the loop, or on its
\* way to deactivate it (FIX #1094).
ActiveHasListener == active => \E i \in Task : task[i] \in Activated

\* stopBlockListener() returns, also when the listener is stuck or slow.
StopReturns == \A s \in Stopper : stop[s] # "idle" ~> stop[s] = "idle"

\* A cancelled task ends, from wherever in its loop the cancellation finds it and
\* whoever holds the message lock, unless it is just about to set up a receive:
\* only there may it wait for ever (receive(count:), withTaskCancellationHandler).
CancelledStops == []<>(\A i \in cancelled : task[i] \in {"ended", "stuck"})
=============================================================================
