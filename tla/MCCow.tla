------------------------------- MODULE MCCow -------------------------------
(* Cow with the numbers of processes, pages and frames fixed by the cfg.     *)
EXTENDS Cow
=============================================================================
