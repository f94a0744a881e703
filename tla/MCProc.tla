------------------------------- MODULE MCProc -------------------------------
\* Small instances of Proc for TLC.
EXTENDS Proc, TLC

\* The harts run the same code.
CpuSymmetry == Permutations(CPU)
=============================================================================
