-------------------------- MODULE MCBlockListener --------------------------
(* Model values for the runs of BlockListener.                               *)
EXTENDS BlockListener

CONSTANTS i1, i2, s1, none

TwoTasks == {i1, i2}
OneStopper == {s1}
============================================================================
