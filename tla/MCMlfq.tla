------------------------------- MODULE MCMlfq -------------------------------
(* Mlfq for TLC.                                                             *)
EXTENDS Mlfq
=============================================================================
