------------------------------ MODULE Grammar ------------------------------
(***************************************************************************)
(* The command language of user/sh.c, as sets of parse trees: what its     *)
(* recursive-descent parser is compared with.                              *)
(*                                                                         *)
(*   line ::= amps | amps ";" line        amps ::= pipe | amps "&"         *)
(*   pipe ::= exec | exec "|" pipe        exec ::= simple | block          *)
(*   block ::= "(" line ")" redir*        simple ::= (redir | word)*       *)
(*   redir ::= "<" word | ">" word | ">>" word                             *)
(***************************************************************************)
EXTENDS Integers, Sequences, SequencesExt

CONSTANT MAXARGS

Blank  == {" "}
Symbol == {"<", "|", ">", "&", ";", "(", ")"}

\* A token is <<kind, first position, position after it>>; ">>" has kind "+".
Kind(ts, i) == ts[i][1]

\* The lexer, character by character: a character joins the token it touches when
\* both are of a word, or when they make ">>".
Tokens(line) ==
  LET Add(ts, i) ==
        LET c == line[i]  n == Len(ts)
            touches == n > 0 /\ ts[n][3] = i IN
        IF c \in Blank THEN ts
        ELSE IF c \in Symbol
        THEN IF c = ">" /\ touches /\ Kind(ts, n) = ">" THEN [ts EXCEPT ![n] = <<"+", i - 1, i + 1>>]
             ELSE Append(ts, <<c, i, i + 1>>)
        ELSE IF touches /\ Kind(ts, n) = "a" THEN [ts EXCEPT ![n][3] = i + 1]
        ELSE Append(ts, <<"a", i, i + 1>>)
  IN FoldLeft(Add, <<>>, [i \in 1 .. Len(line) |-> i])

Word(t) == <<t[2], t[3]>>

RECURSIVE AddArg(_, _)
AddArg(tree, w) ==
  IF tree[1] = "EXEC" THEN <<"EXEC", Append(tree[2], w)>>
                      ELSE [tree EXCEPT ![2] = AddArg(@, w)]

RECURSIVE Args(_)
Args(tree) == IF tree[1] = "EXEC" THEN Len(tree[2]) ELSE Args(tree[2])

EndsInRedir(ts) ==
  Len(ts) >= 2 /\ Kind(ts, Len(ts)) = "a" /\ Kind(ts, Len(ts) - 1) \in {"<", ">", "+"}

Redir(tree, ts) == <<"REDIR", tree, Kind(ts, Len(ts) - 1), Word(Last(ts))>>

RECURSIVE Simple(_)
Simple(ts) ==
  IF ts = <<>> THEN {<<"EXEC", <<>>>>}
  ELSE IF EndsInRedir(ts) THEN {Redir(t, ts) : t \in Simple(Front(Front(ts)))}
  ELSE IF Kind(ts, Len(ts)) = "a"
  THEN {AddArg(t, Word(Last(ts))) : t \in {x \in Simple(Front(ts)) : Args(x) < MAXARGS - 1}}
  ELSE {}

RECURSIVE Line(_)
RECURSIVE Amps(_)
RECURSIVE Pipes(_)
RECURSIVE Block(_)

Block(ts) ==
  IF ts = <<>> THEN {}
  ELSE IF Kind(ts, 1) = "(" /\ Kind(ts, Len(ts)) = ")" THEN Line(Tail(Front(ts)))
  ELSE IF EndsInRedir(ts) THEN {Redir(t, ts) : t \in Block(Front(Front(ts)))}
  ELSE {}

\* Both sides of every occurrence of a symbol.
Splits(ts, k) ==
  {<<SubSeq(ts, 1, i - 1), SubSeq(ts, i + 1, Len(ts))>> : i \in {j \in 1 .. Len(ts) : Kind(ts, j) = k}}

Pipes(ts) ==
  Simple(ts) \cup Block(ts) \cup
  UNION {{<<"PIPE", x, y>> : x \in Simple(s[1]) \cup Block(s[1]), y \in Pipes(s[2])} : s \in Splits(ts, "|")}

Amps(ts) ==
  Pipes(ts) \cup
  (IF ts # <<>> /\ Kind(ts, Len(ts)) = "&" THEN {<<"BACK", x>> : x \in Amps(Front(ts))} ELSE {})

Line(ts) ==
  Amps(ts) \cup UNION {{<<"LIST", x, y>> : x \in Amps(s[1]), y \in Line(s[2])} : s \in Splits(ts, ";")}
=============================================================================
