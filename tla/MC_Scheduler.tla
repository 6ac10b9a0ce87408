---------------------------- MODULE MC_Scheduler ----------------------------
(* An old process and its successor during a reload, and two schedules. *)
EXTENDS Scheduler

CONSTANTS p1, p2, early, late

MCProcs == {p1, p2}
MCDisabled == {}
MCSchedules == {early, late}
=============================================================================
