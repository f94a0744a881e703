------------------------------- MODULE Parse -------------------------------
(***************************************************************************)
(* The parser of user/sh.c: gettoken, peek and the recursive-descent       *)
(* functions, on a line of characters that grows by one at a time.         *)
(*                                                                         *)
(* A parsing function takes a position and returns <<tree, position>>; the *)
(* tree is Syntax when the function panics.  argv and eargv, file and      *)
(* efile are pairs of positions.                                           *)
(***************************************************************************)
EXTENDS Grammar, FiniteSetsExt

CONSTANTS
  TypedChars,     \* what is typed: symbols, a blank, and "w" for any other character
  MaxLine

ASSUME ParseAssumption == MaxLine \in Nat /\ MAXARGS \in Nat \ {0}

VARIABLE line

Nul == "0"
Syntax == <<"Syntax">>

execcmd == <<"EXEC", <<>>>>
redircmd(subcmd, mode, file) == <<"REDIR", subcmd, mode, file>>
pipecmd(left, right) == <<"PIPE", left, right>>
listcmd(left, right) == <<"LIST", left, right>>
backcmd(subcmd) == <<"BACK", subcmd>>

Ch(s) == IF s <= Len(line) THEN line[s] ELSE Nul

Skip(s)    == Min({i \in s .. Len(line) + 1 : Ch(i) \notin Blank})
WordEnd(s) == Min({i \in s .. Len(line) + 1 : Ch(i) \in Blank \cup Symbol \cup {Nul}})

TokenKind(q) ==
  IF Ch(q) = ">" /\ Ch(q + 1) = ">" THEN "+" ELSE IF Ch(q) \in Symbol \cup {Nul} THEN Ch(q) ELSE "a"

TokenEnd(ret, q) ==
  CASE ret = Nul -> q [] ret = "a" -> WordEnd(q) [] ret = "+" -> q + 2 [] OTHER -> q + 1

Token(ret, q, eq) == <<ret, q, eq, Skip(eq)>>

TokenAt(q) == Token(TokenKind(q), q, TokenEnd(TokenKind(q), q))

\* gettoken: <<kind, start, end, position after the blanks that follow>>.
gettoken(s) == TokenAt(Skip(s))

peek(s, toks) == Ch(Skip(s)) \in toks

After(s) == gettoken(s)[4]

\* The redirections at s, applied to cmd in turn.
RECURSIVE parseredirs(_, _)
RedirTo(cmd, mode, file) ==
  IF file[1] # "a" THEN <<Syntax, file[2]>>
  ELSE parseredirs(redircmd(cmd, mode, <<file[2], file[3]>>), file[4])

RedirAt(cmd, tok) == RedirTo(cmd, tok[1], gettoken(tok[4]))

parseredirs(cmd, s) ==
  IF peek(s, {"<", ">"}) THEN RedirAt(cmd, gettoken(s)) ELSE <<cmd, Skip(s)>>

\* cmd->argv[argc++] = q: cmd is the EXEC inside the redirections of ret.
RECURSIVE SetArgv(_, _)
SetArgv(ret, q) ==
  IF ret[1] = "EXEC" THEN <<"EXEC", Append(ret[2], q)>> ELSE [ret EXCEPT ![2] = SetArgv(@, q)]

TooMany(argc) == argc >= MAXARGS

\* The loop of parseexec; r is the command so far and the position.
RECURSIVE ParseArgs(_, _)
ParseArg(r, tok, argc) ==
  IF peek(r[2], {"|", ")", "&", ";"}) \/ tok[1] = Nul THEN <<r[1], Skip(r[2])>>
  ELSE IF tok[1] # "a" \/ TooMany(argc + 1) THEN <<Syntax, r[2]>>
  ELSE ParseArgs(parseredirs(SetArgv(r[1], <<tok[2], tok[3]>>), tok[4]), argc + 1)

ParseArgs(r, argc) == IF r[1] = Syntax THEN r ELSE ParseArg(r, gettoken(r[2]), argc)

RECURSIVE parseline(_)
RECURSIVE parsepipe(_)
RECURSIVE ParseBacks(_)

BlockEnd(inner) ==
  IF inner[1] = Syntax \/ ~peek(inner[2], {")"}) THEN <<Syntax, inner[2]>>
  ELSE parseredirs(inner[1], After(inner[2]))

parseblock(s) == BlockEnd(parseline(After(s)))

parseexec(s) == IF peek(s, {"("}) THEN parseblock(s) ELSE ParseArgs(parseredirs(execcmd, s), 0)

PipeRest(cmd) ==
  IF cmd[1] = Syntax \/ ~peek(cmd[2], {"|"}) THEN cmd
  ELSE LET right == parsepipe(After(cmd[2])) IN
       IF right[1] = Syntax THEN right ELSE <<pipecmd(cmd[1], right[1]), right[2]>>

parsepipe(s) == PipeRest(parseexec(s))

ParseBacks(cmd) ==
  IF cmd[1] # Syntax /\ peek(cmd[2], {"&"}) THEN ParseBacks(<<backcmd(cmd[1]), After(cmd[2])>>)
  ELSE <<cmd[1], Skip(cmd[2])>>

\* Mutation: the list is continued with a pipe instead of a line.
ListOfTwo(s) == parsepipe(s)

RestOfLine(s) == parseline(s)

LineRest(cmd) ==
  IF cmd[1] = Syntax \/ ~peek(cmd[2], {";"}) THEN cmd
  ELSE LET right == RestOfLine(After(cmd[2])) IN
       IF right[1] = Syntax THEN right ELSE <<listcmd(cmd[1], right[1]), right[2]>>

parseline(s) == LineRest(ParseBacks(parsepipe(s)))

Whole(cmd) == IF Skip(cmd[2]) # Len(line) + 1 THEN Syntax ELSE cmd[1]

parsecmd == Whole(parseline(1))

\* The positions where nulterminate stores a 0, and the words it ends.
RECURSIVE Words(_)
Words(tree) ==
  CASE tree[1] = "EXEC"  -> ToSet(tree[2])
    [] tree[1] = "REDIR" -> Words(tree[2]) \cup {tree[4]}
    [] tree[1] = "BACK"  -> Words(tree[2])
    [] tree[1] \in {"PIPE", "LIST"} -> Words(tree[2]) \cup Words(tree[3])

nulterminate(tree) == {w[2] : w \in Words(tree)}

ParseInit == line = <<>>

\* One more character of the line that gets() reads.
Type(c) == Len(line) < MaxLine /\ line' = Append(line, c)

\* The line ends and getcmd clears the buffer for the next one.
Enter == line # <<>> /\ line' = <<>>

ParseNext == Enter \/ \E c \in TypedChars : Type(c)

-----------------------------------------------------------------------------
\* The parser accepts exactly the lines of the language and builds their one tree;
\* every other line is refused as a syntax error, none half parsed.
ParserExact ==
  Line(Tokens(line)) = IF parsecmd = Syntax THEN {} ELSE {parsecmd}

\* nulterminate, which writes into the line, cuts every argument and file name at
\* its end and none in the middle, though the words share one buffer.
WordsIntact ==
  parsecmd # Syntax =>
    LET cut == nulterminate(parsecmd)
        Text(i) == IF i \in cut THEN Nul ELSE Ch(i) IN
    \A w \in Words(parsecmd) : /\ \A i \in w[1] .. w[2] - 1 : Text(i) \notin Blank \cup Symbol \cup {Nul}
                               /\ Text(w[2]) = Nul /\ w[1] < w[2]

\* Parser and nulterminate together: one tree for each line of the language, with
\* its words intact, and an error for every other line.
LinesParsed == ParserExact /\ WordsIntact
=============================================================================
