---------------------------- MODULE MCShiftDesk -----------------------------
(* ShiftDesk for TLC.  A tick is four hours: the rollover is at 04:00 and the  *)
(* handovers are at 08:00, 16:00 and 00:00, as ops-day.ts has them by default. *)
EXTENDS ShiftDesk

CONSTANTS agent, manager, nobody

People == {agent, manager}
Bosses == {manager}
Handovers == <<1, 3, 5>>
=============================================================================
