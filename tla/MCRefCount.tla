---------------------------- MODULE MCRefCount ----------------------------
(* RefCount for TLC.  Processes and pages are interchangeable.               *)
EXTENDS RefCount, TLC

Symmetry == Permutations(Proc) \cup Permutations(Frame)
=============================================================================
