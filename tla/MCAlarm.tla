------------------------------ MODULE MCAlarm ------------------------------
(* Alarm for TLC: two places in the program and two in the handler.          *)
EXTENDS Alarm

A0Values == {-1, 0, 7}
AlarmIntervals == {-1, 0, 1, 2}
=============================================================================
