------------------------------ MODULE MCFiles ------------------------------
(***************************************************************************)
(* Inodes and file contents for TLC.  Files and FileData share no          *)
(* variables, so each is explored on its own: part, fixed at the start,    *)
(* says which one moves, and for Files which calls the processes make.     *)
(***************************************************************************)
EXTENDS Files, FileData, TLC

VARIABLE part

C(o, p) == [op |-> o, path |-> p, new |-> <<>>]

\* Directories inside directories, made in removed ones too, and looked up both ways.
DirCalls == {
  C("mkdir", <<"a">>), C("chdir", <<"a">>), C("unlink", <<"..", "a">>), C("unlink", <<"a", "..">>)}

\* Files that are made, opened, linked and unlinked, with a directory among them.
FileCalls == {
  C("mkdir", <<"/", "a">>), C("unlink", <<"/", "a">>), C("creat", <<"b">>),
  C("openw", <<"..", "a">>), [op |-> "link", path |-> <<"b">>, new |-> <<"/", "a">>]}

CallsDef == DirCalls \cup FileCalls

InoOfDef == [f \in Fd |-> IF f = "f1" THEN 1 ELSE 2]

\* Processes are not told apart.
Processes == Permutations(FProc) \cup Permutations(DProc)

allVars == <<part, filesVars, dataVars>>

AllInit == part \in {"dirs", "files", "data"} /\ FilesInit /\ DataInit

\* Every call that begins is one of S.
Begins(S) ==
  \A p \in FProc : k[p].pc = "user" /\ k'[p].pc = "namex" =>
    \E c \in S : /\ k'[p].op = c.op /\ k'[p].path = Elems(c.path)
                 /\ k'[p].ip = Start(p, c.path)

FilesMoves ==
  /\ part \in {"dirs", "files"} /\ FilesNext
  /\ Begins(IF part = "dirs" THEN DirCalls ELSE FileCalls)
  /\ UNCHANGED <<part, dataVars>>

DataMoves == part = "data" /\ DataNext /\ UNCHANGED <<part, filesVars>>

\* A panic, or a .. that leads nowhere, ends the model.
Halted == fpanic # "no" /\ UNCHANGED allVars

AllSpec == AllInit /\ [][FilesMoves \/ DataMoves \/ Halted]_allVars
=============================================================================
