------------------------ MODULE BlockListenerProofs ------------------------
(* The listener's state machine is never left behind without a task, for any  *)
(* number of tasks, callers and connections.                                  *)
(*                                                                            *)
(* The invariant adds what each state of the machine rests on: a listener that*)
(* is starting has a task that has not yet tried to run, and one that is      *)
(* stopping a task that has not ended.                                        *)
EXTENDS BlockListener, TLAPS

StartingHasTask == state = "starting" => \E i \in Task : task[i] \in Starting

Owned == StartingHasTask /\ ListenerHasTask /\ ActiveHasListener

IInv == TypeOK /\ Owned

-----------------------------------------------------------------------------
\* Each step keeps the types.
LEMMA TypeStep ==
    ASSUME TypeOK, [Next]_vars
    PROVE  TypeOK'
  <1> USE TaskAssumption, ConnAssumption
      DEF TypeOK, Starting, InLoop, Activated, Alive, machine, tasks, link, stops
  <1>1. ASSUME NEW i \in Task, Start(i) PROVE TypeOK'
    BY <1>1 DEF Start, Enters
  <1>2. ASSUME NEW i \in Task, Clear(i) PROVE TypeOK'
    BY <1>2 DEF Clear
  <1>3. ASSUME NEW i \in Task, Store(i) PROVE TypeOK'
    BY <1>3 DEF Store
  <1>4. ASSUME NEW i \in Task, Capture(i) PROVE TypeOK'
    BY <1>4 DEF Capture, Goes
  <1>5. ASSUME NEW i \in Task, Run(i) PROVE TypeOK'
    BY <1>5 DEF Run, Goes
  <1>6. ASSUME NEW i \in Task, Leave(i) PROVE TypeOK'
    BY <1>6 DEF Leave, Goes, Enters
  <1>7. ASSUME NEW i \in Task, Settle(i) PROVE TypeOK'
    BY <1>7 DEF Settle, Goes
  <1>8. ASSUME NEW i \in Task, Activate(i) PROVE TypeOK'
    BY <1>8 DEF Activate, Goes
  <1>9. ASSUME NEW i \in Task, Loop(i) PROVE TypeOK'
    BY <1>9 DEF Loop, Goes
  <1>10. ASSUME NEW i \in Task, Acquire(i) PROVE TypeOK'
    BY <1>10 DEF Acquire, Goes
  <1>11. ASSUME NEW i \in Task, Enter(i) PROVE TypeOK'
    BY <1>11 DEF Enter, Goes
  <1>12. ASSUME NEW i \in Task, Receive(i) PROVE TypeOK'
    BY <1>12 DEF Receive, Goes
  <1>13. ASSUME NEW i \in Task, Interrupt(i) PROVE TypeOK'
    BY <1>13 DEF Interrupt, Goes
  <1>14. ASSUME NEW i \in Task, Break(i) PROVE TypeOK'
    BY <1>14 DEF Break, Goes
  <1>15. ASSUME NEW i \in Task, Handle(i) PROVE TypeOK'
    BY <1>15 DEF Handle, Goes
  <1>16. ASSUME NEW i \in Task, Kill(i) PROVE TypeOK'
    BY <1>16 DEF Kill, Goes
  <1>17. ASSUME NEW i \in Task, Deactivate(i) PROVE TypeOK'
    BY <1>17 DEF Deactivate, Goes
  <1>18. ASSUME NEW i \in Task, Finish(i) PROVE TypeOK'
    BY <1>18 DEF Finish, Goes, Enters
  <1>19. ASSUME NEW s \in Stopper, Stop(s) PROVE TypeOK'
    BY <1>19 DEF Stop, Moves
  <1>20. ASSUME NEW s \in Stopper, Claim(s) PROVE TypeOK'
    BY <1>20 DEF Claim, Moves, Enters
  <1>21. ASSUME NEW s \in Stopper, CancelTask(s) PROVE TypeOK'
    BY <1>21 DEF CancelTask, Moves
  <1>22. ASSUME NEW s \in Stopper, Await(s) PROVE TypeOK'
    BY <1>22 DEF Await, Moves
  <1>23. ASSUME NEW s \in Stopper, Poll(s) PROVE TypeOK'
    BY <1>23 DEF Poll, Moves, Forget
  <1>24. ASSUME NEW s \in Stopper, KillFirst(s) PROVE TypeOK'
    BY <1>24 DEF KillFirst, Moves
  <1>25. ASSUME NEW s \in Stopper, ForceStop(s) PROVE TypeOK'
    BY <1>25 DEF ForceStop, Moves, Enters, Forget
  <1>26. ASSUME NEW s \in Stopper, Verify(s) PROVE TypeOK'
    BY <1>26 DEF Verify, Moves, Forget
  <1>27. ASSUME NEW s \in Stopper, Signal(s) PROVE TypeOK'
    BY <1>27 DEF Signal, Moves, Enters
  <1>28. ASSUME NEW s \in Stopper, SignalCancel(s) PROVE TypeOK'
    BY <1>28 DEF SignalCancel, Moves, Forget
  <1>29. ASSUME NEW s \in Stopper, SignalDeactivate(s) PROVE TypeOK'
    BY <1>29 DEF SignalDeactivate
  <1>30. ASSUME Disconnect PROVE TypeOK'
    BY <1>30 DEF Disconnect
  <1>31. ASSUME Connect PROVE TypeOK'
    BY <1>31 DEF Connect
  <1>32. ASSUME ForceReleaseMessageLock PROVE TypeOK'
    BY <1>32 DEF ForceReleaseMessageLock
  <1>33. CASE UNCHANGED vars
    BY <1>33 DEF vars
  <1> QED
    BY <1>1, <1>2, <1>3, <1>4, <1>5, <1>6, <1>7, <1>8, <1>9, <1>10,
       <1>11, <1>12, <1>13, <1>14, <1>15, <1>16, <1>17, <1>18, <1>19, <1>20,
       <1>21, <1>22, <1>23, <1>24, <1>25, <1>26, <1>27, <1>28, <1>29, <1>30,
       <1>31, <1>32, <1>33
    DEF Next, TaskStep, StopStep

\* Each step keeps a task behind every state but stopped, and the activity that goes with it.
LEMMA OwnedStep ==
    ASSUME IInv, [Next]_vars
    PROVE  Owned'
  <1> USE TaskAssumption
      DEF IInv, Owned, TypeOK, StartingHasTask, ListenerHasTask, ActiveHasListener,
          Starting, InLoop, Activated, Alive, machine, tasks, link, stops
  <1>1. ASSUME NEW i \in Task, Start(i) PROVE Owned'
    BY <1>1 DEF Start, Enters
  <1>2. ASSUME NEW i \in Task, Clear(i) PROVE Owned'
    BY <1>2 DEF Clear
  <1>3. ASSUME NEW i \in Task, Store(i) PROVE Owned'
    BY <1>3 DEF Store
  <1>4. ASSUME NEW i \in Task, Capture(i) PROVE Owned'
    BY <1>4 DEF Capture, Goes
  <1>5. ASSUME NEW i \in Task, Run(i) PROVE Owned'
    BY <1>5 DEF Run, Goes
  <1>6. ASSUME NEW i \in Task, Leave(i) PROVE Owned'
    BY <1>6 DEF Leave, Goes, Enters
  <1>7. ASSUME NEW i \in Task, Settle(i) PROVE Owned'
    BY <1>7 DEF Settle, Goes
  <1>8. ASSUME NEW i \in Task, Activate(i) PROVE Owned'
    BY <1>8 DEF Activate, Goes
  <1>9. ASSUME NEW i \in Task, Loop(i) PROVE Owned'
    BY <1>9 DEF Loop, Goes
  <1>10. ASSUME NEW i \in Task, Acquire(i) PROVE Owned'
    BY <1>10 DEF Acquire, Goes
  <1>11. ASSUME NEW i \in Task, Enter(i) PROVE Owned'
    BY <1>11 DEF Enter, Goes
  <1>12. ASSUME NEW i \in Task, Receive(i) PROVE Owned'
    BY <1>12 DEF Receive, Goes
  <1>13. ASSUME NEW i \in Task, Interrupt(i) PROVE Owned'
    BY <1>13 DEF Interrupt, Goes
  <1>14. ASSUME NEW i \in Task, Break(i) PROVE Owned'
    BY <1>14 DEF Break, Goes
  <1>15. ASSUME NEW i \in Task, Handle(i) PROVE Owned'
    BY <1>15 DEF Handle, Goes
  <1>16. ASSUME NEW i \in Task, Kill(i) PROVE Owned'
    BY <1>16 DEF Kill, Goes
  <1>17. ASSUME NEW i \in Task, Deactivate(i) PROVE Owned'
    BY <1>17 DEF Deactivate, Goes
  <1>18. ASSUME NEW i \in Task, Finish(i) PROVE Owned'
    BY <1>18 DEF Finish, Goes, Enters
  <1>19. ASSUME NEW s \in Stopper, Stop(s) PROVE Owned'
    BY <1>19 DEF Stop, Moves
  <1>20. ASSUME NEW s \in Stopper, Claim(s) PROVE Owned'
    BY <1>20 DEF Claim, Moves, Enters
  <1>21. ASSUME NEW s \in Stopper, CancelTask(s) PROVE Owned'
    BY <1>21 DEF CancelTask, Moves
  <1>22. ASSUME NEW s \in Stopper, Await(s) PROVE Owned'
    BY <1>22 DEF Await, Moves
  <1>23. ASSUME NEW s \in Stopper, Poll(s) PROVE Owned'
    BY <1>23 DEF Poll, Moves, Forget
  <1>24. ASSUME NEW s \in Stopper, KillFirst(s) PROVE Owned'
    BY <1>24 DEF KillFirst, Moves
  <1>25. ASSUME NEW s \in Stopper, ForceStop(s) PROVE Owned'
    BY <1>25 DEF ForceStop, Moves, Enters, Forget
  <1>26. ASSUME NEW s \in Stopper, Verify(s) PROVE Owned'
    BY <1>26 DEF Verify, Moves, Forget
  <1>27. ASSUME NEW s \in Stopper, Signal(s) PROVE Owned'
    BY <1>27 DEF Signal, Moves, Enters
  <1>28. ASSUME NEW s \in Stopper, SignalCancel(s) PROVE Owned'
    BY <1>28 DEF SignalCancel, Moves, Forget
  <1>29. ASSUME NEW s \in Stopper, SignalDeactivate(s) PROVE Owned'
    BY <1>29 DEF SignalDeactivate
  <1>30. ASSUME Disconnect PROVE Owned'
    BY <1>30 DEF Disconnect
  <1>31. ASSUME Connect PROVE Owned'
    BY <1>31 DEF Connect
  <1>32. ASSUME ForceReleaseMessageLock PROVE Owned'
    BY <1>32 DEF ForceReleaseMessageLock
  <1>33. CASE UNCHANGED vars
    BY <1>33 DEF vars
  <1> QED
    BY <1>1, <1>2, <1>3, <1>4, <1>5, <1>6, <1>7, <1>8, <1>9, <1>10,
       <1>11, <1>12, <1>13, <1>14, <1>15, <1>16, <1>17, <1>18, <1>19, <1>20,
       <1>21, <1>22, <1>23, <1>24, <1>25, <1>26, <1>27, <1>28, <1>29, <1>30,
       <1>31, <1>32, <1>33
    DEF Next, TaskStep, StopStep

\* The invariant from which the theorems follow: every state of listenerState has
\* a task that has not ended.
THEOREM InductiveInvariant == Spec => []IInv
  <1>1. Init => IInv
    <2> SUFFICES ASSUME Init PROVE IInv
      OBVIOUS
    <2> USE TaskAssumption, ConnAssumption DEF Init
    <2>1. task \in [Task -> Alive \cup {"unused", "ended"}] /\ started \in [Task -> 0..MaxConn]
      OBVIOUS
    <2>2. stop \in [Stopper -> {"idle", "claiming", "cancelling", "waiting", "verifying",
                                "killing", "forcing", "polling", "pollKilling", "pollForcing",
                                "signalled"}]
      OBVIOUS
    <2>3. target \in [Stopper -> Task \cup {NoTask}]
      OBVIOUS
    <2>4. TypeOK
      <3>1. opened \in 0..MaxConn /\ connection \in {0, opened}
        OBVIOUS
      <3>2. state = "stopped" /\ owner = NoTask /\ current = NoTask /\ active = FALSE
        OBVIOUS
      <3>3. cancelled \subseteq Task /\ owed \subseteq Stopper
        OBVIOUS
      <3> QED BY <2>1, <2>2, <2>3, <3>1, <3>2, <3>3 DEF TypeOK
    <2>5. Owned
      BY DEF Owned, StartingHasTask, ListenerHasTask, ActiveHasListener
    <2> QED BY <2>4, <2>5 DEF IInv
  <1>2. IInv /\ [Next]_vars => IInv'
    BY TypeStep, OwnedStep DEF IInv
  <1> QED
    BY <1>1, <1>2, PTL DEF Spec

\* The variables of the listener keep their types, and the state carries a taskID
\* exactly when it is .running.
THEOREM TypeCorrect == Spec => []TypeOK
  <1>1. IInv => TypeOK
    BY DEF IInv, Owned
  <1> QED
    BY <1>1, InductiveInvariant, PTL

\* isListening is TRUE only while a task of startBlockListener() has not ended.
THEOREM ListenerIsNotLeftBehind == Spec => []ListenerHasTask
  <1>1. IInv => ListenerHasTask
    BY DEF IInv, Owned
  <1> QED
    BY <1>1, InductiveInvariant, PTL

\* The dispatcher is active only while a task is in the loop of the listener or
\* about to deactivate it.
THEOREM DispatcherHasListener == Spec => []ActiveHasListener
  <1>1. IInv => ActiveHasListener
    BY DEF IInv, Owned
  <1> QED
    BY <1>1, InductiveInvariant, PTL
=============================================================================
