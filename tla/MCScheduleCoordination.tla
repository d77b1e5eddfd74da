----------------------- MODULE MCScheduleCoordination -----------------------
(***************************************************************************)
(* Instances of ScheduleCoordination for TLC.                              *)
(***************************************************************************)
EXTENDS ScheduleCoordination, TLC
=============================================================================
