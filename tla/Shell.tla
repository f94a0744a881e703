------------------------------- MODULE Shell -------------------------------
(***************************************************************************)
(* main and runcmd of user/sh.c: the processes a command line becomes, and *)
(* their file descriptors.                                                 *)
(*                                                                         *)
(* A process has the list of the system calls it still has to make; runcmd *)
(* puts those of its command there.  The programs that exec starts read    *)
(* standard input to its end when that is a pipe, and then end.  What is   *)
(* in the pipes is Pipe's subject.                                         *)
(***************************************************************************)
EXTENDS Integers, Sequences, FiniteSets, FiniteSetsExt

CONSTANTS
  NSH,         \* slots
  Sessions     \* <<processes there is room for, command trees that are typed>>

ASSUME ShellAssumption ==
  NSH \in Nat \ {0} /\ \A s \in Sessions : s[1] \in 1 .. NSH

Sh == 1 .. NSH         \* 1 is the shell itself
NFD == 5

VARIABLES
  session,     \* one of Sessions; it does not change
  script,      \* system calls to come; <<>> when the slot is free
  fds,         \* the open file behind each descriptor; "" when closed
  par,         \* parent, 0 for init
  ends,        \* the process's local p[2]
  want,        \* history: what its standard input and output should be
  loose        \* history: nobody is to wait for it, as for "w &"

shellVars == <<session, script, fds, par, ends, want, loose>>

shproc == <<session, par, want, loose>>
Closed == <<"closed", 0>>
Tty == <<"tty", 0>>
File == <<"file", 0>>
Zombie == <<<<"zombie">>>>
Terminal == [f \in 0 .. NFD - 1 |-> IF f < 3 THEN Tty ELSE Closed]
Prompt == <<<<"prompt">>>>

ShellInit ==
  /\ session \in Sessions
  /\ script = [p \in Sh |-> IF p = 1 THEN Prompt ELSE <<>>]
  /\ fds = [p \in Sh |-> IF p = 1 THEN Terminal ELSE [f \in 0 .. NFD - 1 |-> Closed]]
  /\ par = [p \in Sh |-> 0]
  /\ ends = [p \in Sh |-> <<0, 0>>]
  /\ want = [p \in Sh |-> <<Tty, Tty>>]
  /\ loose = [p \in Sh |-> FALSE]

Running(p) == script[p] # <<>> /\ script[p] # Zombie
Op(p)      == Head(script[p])
Does(p, o) == Running(p) /\ Op(p)[1] = o
Rest(p)    == [script EXCEPT ![p] = Tail(@)]

-----------------------------------------------------------------------------
(* runcmd: the calls of each type of command.                                *)

\* Mutation: the parent of a pipe waits for one of its two children.
WaitsOnce == <<<<"closeP", 1>>, <<"closeP", 2>>, <<"wait">>, <<"exit">>>>

PipeParent == <<<<"closeP", 1>>, <<"closeP", 2>>, <<"wait">>, <<"wait">>, <<"exit">>>>

\* Mutation: the child that writes keeps the end to read from.
KeepsReadEnd == <<<<"closeP", 2>>>>

\* The last closes of both children.
BothEnds == <<<<"closeP", 1>>, <<"closeP", 2>>>>

runcmd(c) ==
  CASE c[1] = "EXEC"  -> <<<<"program">>, <<"exit">>>>
    [] c[1] = "REDIR" -> <<<<"close", c[3]>>, <<"open", c[3]>>, <<"run", c[2]>>>>
    [] c[1] = "LIST"  -> <<<<"fork", <<<<"run", c[2]>>>>>>, <<"wait">>, <<"run", c[3]>>>>
    [] c[1] = "BACK"  -> <<<<"forkback", <<<<"run", c[2]>>>>>>, <<"exit">>>>
    [] c[1] = "PIPE"  ->
         <<<<"pipe">>,
           <<"forkout", <<<<"close", 1>>, <<"dupP", 2>>>> \o BothEnds \o <<<<"run", c[2]>>>>>>,
           <<"forkin",  <<<<"close", 0>>, <<"dupP", 1>>>> \o BothEnds \o <<<<"run", c[3]>>>>>>>>
         \o PipeParent

Run(p) ==
  /\ Does(p, "run")
  /\ script' = [script EXCEPT ![p] = runcmd(Op(p)[2])]
  /\ UNCHANGED <<fds, ends, shproc>>

\* main: a command is read, run in a child, and waited for.  (cd, which the shell
\* runs itself, leaves everything here as it is.)
ReadCommand(p, c) ==
  /\ Does(p, "prompt")
  /\ script' = [script EXCEPT ![p] = <<<<"fork", <<<<"run", c>>>>>>, <<"wait">>>> \o Prompt]
  /\ UNCHANGED <<fds, ends, shproc>>

-----------------------------------------------------------------------------
(* The system calls.                                                         *)

\* fdalloc
Lowest(f) == Min({i \in DOMAIN f : f[i] = Closed})
Opened(f, o) == [f EXCEPT ![Lowest(f)] = o]

CloseFd(p) ==
  LET f == IF Op(p)[1] = "close" THEN Op(p)[2] ELSE ends[p][Op(p)[2]] IN
  /\ Does(p, "close") \/ Does(p, "closeP")
  /\ fds' = [fds EXCEPT ![p][f] = Closed]
  /\ script' = Rest(p)
  /\ UNCHANGED <<ends, shproc>>

DupFd(p) ==
  /\ Does(p, "dupP")
  /\ fds' = [fds EXCEPT ![p] = Opened(@, @[ends[p][Op(p)[2]]])]
  /\ script' = Rest(p)
  /\ UNCHANGED <<ends, shproc>>

\* open of the file of a redirection; when it fails runcmd exits.
OpenFd(p) ==
  /\ Does(p, "open")
  /\ \/ /\ fds' = [fds EXCEPT ![p] = Opened(@, File)]
        /\ want' = [want EXCEPT ![p][Op(p)[2] + 1] = File]
        /\ script' = Rest(p)
     \/ script' = [script EXCEPT ![p] = <<<<"exit">>>>] /\ UNCHANGED <<fds, want>>
  /\ UNCHANGED <<session, ends, par, loose>>

\* A pipe's name is a number that no open pipe has.
PipeName == 1 .. NSH * NFD
InUse(o) == \E p \in Sh, f \in 0 .. NFD - 1 : fds[p][f] = o

\* pipe; when it fails, for want of memory or of files: panic("pipe").
PipeFd(p) ==
  LET n == Min({q \in PipeName : ~InUse(<<"r", q>>) /\ ~InUse(<<"w", q>>)})
      f == Opened(fds[p], <<"r", n>>) IN
  /\ Does(p, "pipe")
  /\ \/ /\ fds' = [fds EXCEPT ![p] = Opened(f, <<"w", n>>)]
        /\ ends' = [ends EXCEPT ![p] = <<Lowest(fds[p]), Lowest(f)>>]
        /\ script' = Rest(p)
     \/ script' = [script EXCEPT ![p] = <<<<"exit">>>>] /\ UNCHANGED <<fds, ends>>
  /\ UNCHANGED shproc

Forks(p) == \E o \in {"fork", "forkback", "forkout", "forkin"} : Does(p, o)
FreeSlots == {q \in 1 .. session[1] : script[q] = <<>>}

\* What the child's standard input and output should become.
Wanted(p) ==
  CASE Op(p)[1] = "forkout" -> <<want[p][1], fds[p][ends[p][2]]>>
    [] Op(p)[1] = "forkin"  -> <<fds[p][ends[p][1]], want[p][2]>>
    [] OTHER -> want[p]

fork1(p) ==
  LET q == Min(FreeSlots) IN
  /\ Forks(p) /\ FreeSlots # {}
  /\ script' = [Rest(p) EXCEPT ![q] = Op(p)[2]]
  /\ fds' = [fds EXCEPT ![q] = fds[p]]
  /\ par' = [par EXCEPT ![q] = p]
  /\ ends' = [ends EXCEPT ![q] = ends[p]]
  /\ want' = [want EXCEPT ![q] = Wanted(p)]
  /\ loose' = [loose EXCEPT ![q] = loose[p] \/ Op(p)[1] = "forkback"]
  /\ UNCHANGED session

\* exit: descriptors closed, children left to init, which reaps those that ended.
Finishes(p, abandons) ==
  LET kids == {q \in Sh : Running(q) /\ par[q] = p}
      gone == {q \in Sh : script[q] = Zombie /\ par[q] = p} \cup (IF par[p] = 0 THEN {p} ELSE {}) IN
  /\ script' = [q \in Sh |-> IF q \in gone THEN <<>> ELSE IF q = p THEN Zombie ELSE script[q]]
  /\ fds' = [fds EXCEPT ![p] = [f \in 0 .. NFD - 1 |-> Closed]]
  /\ par' = [q \in Sh |-> IF q \in kids \cup gone THEN 0 ELSE par[q]]
  /\ loose' = [q \in Sh |-> IF q \in gone \cup {p} THEN FALSE ELSE loose[q] \/ (abandons /\ q \in kids)]
  /\ ends' = [ends EXCEPT ![p] = <<0, 0>>]
  /\ want' = [want EXCEPT ![p] = <<Tty, Tty>>]
  /\ UNCHANGED session

\* fork fails: panic("fork").  The children already started are left alone.
ForkPanics(p) == Forks(p) /\ FreeSlots = {} /\ p # 1 /\ Finishes(p, TRUE)

\* The shell itself ends, so or at the end of its input: init, its parent, starts
\* another one.
ShellEnds ==
  LET kids == {q \in Sh : par[q] = 1} IN
  /\ Does(1, "prompt") \/ (Forks(1) /\ FreeSlots = {})
  /\ script' = [script EXCEPT ![1] = Prompt]
  /\ par' = [q \in Sh |-> IF q \in kids THEN 0 ELSE par[q]]
  /\ loose' = [q \in Sh |-> loose[q] \/ q \in kids]
  /\ UNCHANGED <<session, fds, ends, want>>

Exit(p) == Does(p, "exit") /\ Finishes(p, FALSE)

\* The program ends once a pipe on its standard input is at its end.
Program(p) ==
  LET in == fds[p][0] IN
  /\ Does(p, "program")
  /\ in[1] = "r" => ~InUse(<<"w", in[2]>>)
  /\ script' = Rest(p)
  /\ UNCHANGED <<fds, ends, shproc>>

\* wait: some child that has ended.  There is one for every wait, since fork1
\* does not return when it fails.
Wait(p) ==
  /\ Does(p, "wait")
  /\ \E q \in Sh : /\ par[q] = p /\ script[q] = Zombie
                   /\ script' = [Rest(p) EXCEPT ![q] = <<>>]
                   /\ par' = [par EXCEPT ![q] = 0]
  /\ UNCHANGED <<session, fds, ends, want, loose>>

Steps(p) ==
  \/ Run(p) \/ CloseFd(p) \/ DupFd(p) \/ OpenFd(p) \/ PipeFd(p) \/ fork1(p) \/ ForkPanics(p)
  \/ Exit(p) \/ Program(p) \/ Wait(p) \/ \E c \in session[2] : ReadCommand(p, c)

ShellNext == ShellEnds \/ \E p \in Sh : Steps(p)

-----------------------------------------------------------------------------
\* A program starts with the standard input and output its place in the command
\* asks for, and neither it nor a process that waits holds anything else open: a
\* stray end of a pipe would keep a reader from ever seeing the end of its input,
\* and the prompt from coming back.
Plumbing ==
  \A p \in Sh : Does(p, "program") \/ Does(p, "wait") =>
    /\ fds[p][0] = want[p][1] /\ fds[p][1] = want[p][2] /\ fds[p][2] = Tty
    /\ \A f \in 3 .. NFD - 1 : fds[p][f] = Closed

\* What runs in the foreground has ended when the prompt comes back, or when the
\* next command of a list starts: "wait" counts children, and a background job is
\* never one of them.
ForegroundDone ==
  \A q \in Sh : Running(q) /\ q # 1 /\ ~loose[q] =>
    par[q] # 0 /\ ~Does(par[q], "prompt") /\ ~Does(par[q], "run") /\ Running(par[q])
=============================================================================
