----------------------------- MODULE MCScheduler -----------------------------
(***************************************************************************)
(* Module SchedulerHistory with three tasks, for model checking.           *)
(***************************************************************************)
EXTENDS SchedulerHistory

CONSTANTS shell, other, spin

ThreeTasks == <<shell, other, spin>>
=============================================================================
