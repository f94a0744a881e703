------------------------------- MODULE MCUser -------------------------------
(***************************************************************************)
(* What programs see of memory, pipes and the shell, for TLC.  Cow, Pipe,  *)
(* Shell, Parse and Malloc share no variables, so each is explored on its  *)
(* own: part, fixed at the start, says which one moves.                    *)
(***************************************************************************)
EXTENDS Cow, Pipe, Shell, Parse, Malloc

VARIABLE part

ex == <<"EXEC">>
SessionsDef == {
  <<6, {<<"PIPE", ex, <<"PIPE", ex, ex>>>>, <<"PIPE", <<"REDIR", ex, 0>>, <<"LIST", ex, ex>>>>}>>,
  <<4, {<<"LIST", <<"BACK", ex>>, ex>>, <<"PIPE", <<"REDIR", ex, 0>>, <<"REDIR", ex, 1>>>>}>>,
  <<1, {ex}>>}

allVars == <<part, vars, pipeVars, shellVars, line, mallocVars>>

\* A part that rests has one initial state.
AllInit ==
  /\ part \in {"cow", "pipe", "shell", "parse", "malloc"}
  /\ Init /\ PipeInit /\ ShellInit /\ ParseInit /\ MallocInit
  /\ part # "pipe" => \A i \in DOMAIN data : data[i] = Max(Byte)
  /\ part # "shell" => session[1] = 1

CowMoves   == part = "cow" /\ Next /\ UNCHANGED <<part, pipeVars, shellVars, line, mallocVars>>
PipeMoves  == part = "pipe" /\ PipeNext /\ UNCHANGED <<part, vars, shellVars, line, mallocVars>>
ShellMoves == part = "shell" /\ ShellNext /\ UNCHANGED <<part, vars, pipeVars, line, mallocVars>>
ParseMoves == part = "parse" /\ ParseNext /\ UNCHANGED <<part, vars, pipeVars, shellVars, mallocVars>>
MallocMoves == part = "malloc" /\ MallocNext /\ UNCHANGED <<part, vars, pipeVars, shellVars, line>>

\* All processes of Cow may have been killed; nobody may have the pipe any more.
Rests == part \in {"cow", "pipe"} /\ UNCHANGED allVars

AllNext == CowMoves \/ PipeMoves \/ ShellMoves \/ ParseMoves \/ MallocMoves \/ Rests

AllSpec == AllInit /\ [][AllNext]_allVars
=============================================================================
