------------------------------- MODULE Basics --------------------------------
(***************************************************************************)
(* What the modules of the observation half share: slices and texts are    *)
(* sequences, a character is a one-character string, and these are the     *)
(* operators and words of the filter language as they are spelled.         *)
(***************************************************************************)
EXTENDS Integers, Sequences, FiniteSets, TLC
S == INSTANCE SequencesExt
FS == INSTANCE FiniteSetsExt

\* An expression that is not given.
NoExpr == [node |-> "none"]

Elems(s) == {s[i] : i \in 1..Len(s)}
AddOnce(s, x) == IF x \in Elems(s) THEN s ELSE Append(s, x)
Occurs(t, s) == \E i \in 0..(Len(s) - Len(t)) : SubSeq(s, i + 1, i + Len(t)) = t

Spaces == {" "}
Quotes == {"'", "\""}
OpText(op) == CASE op = "==" -> <<"=", "=">> [] op = "!=" -> <<"!", "=">> [] op = "<" -> <<"<">>
                [] op = "<=" -> <<"<", "=">> [] op = ">" -> <<">">> [] op = ">=" -> <<">", "=">>
                [] op = "~=" -> <<"~", "=">> [] op = "!~" -> <<"!", "~">>
\* The words the parser knows, as the lexer spells them.
In == <<"i", "n">>
NotWord == <<"n", "o", "t">>
ContainsWord == <<"c", "o", "n", "t", "a", "i", "n", "s">>
Exists == <<"e", "x", "i", "s", "t", "s">>
MissingWord == <<"m", "i", "s", "s", "i", "n", "g">>
TrueWord == <<"t", "r", "u", "e">>
FalseWord == <<"f", "a", "l", "s", "e">>
\* "(?i)" ignores case, of which there is one here.
AnyCase == <<"(", "?", "i", ")">>
==============================================================================
