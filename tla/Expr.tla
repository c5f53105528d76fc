-------------------------------- MODULE Expr --------------------------------
(***************************************************************************)
(* The selector and filter language of internal/expr: its lexer, its       *)
(* recursive-descent parser and its evaluator, with the properties its two *)
(* users (select/having, and the selectors of managed rules) rely on.      *)
(*                                                                         *)
(* A character is a one-character string.  The text of a string literal    *)
(* and a field's string value are sequences of characters; a regular       *)
(* expression is a literal text that matches wherever it occurs, and       *)
(* BadRegex is the set of those that do not compile.                       *)
(***************************************************************************)
EXTENDS Basics

CONSTANTS Letters,   \* the letters of the alphabet
          Bytes,     \* the characters that names are made of, in byte order
          BadRegex   \* the patterns regexp.Compile rejects

IsDigit(c) == c = "1"
IsLetter(c) == c \in Letters
IsIdentPart(c) == IsLetter(c) \/ IsDigit(c) \/ c \in {"_", "-", "."}
Pairs == {<<"=", "=">>, <<"!", "=">>, <<"<", "=">>, <<"&", "&">>, <<"|", "|">>,
          <<">", "=">>, <<"~", "=">>, <<"!", "~">>}
Singles == {<<"<">>, <<">">>, <<"!">>}
Brackets == {"(", ")", "[", "]", ","}
-----------------------------------------------------------------------------
(* Values.                                                                 *)

Missing == [kind |-> "missing", val |-> 0]
Num(n) == [kind |-> "number", val |-> n]
Str(s) == [kind |-> "string", val |-> s]
Bool(b) == [kind |-> "bool", val |-> b]
List(l) == [kind |-> "list", val |-> l]

Truthy(v) == v.kind = "bool" /\ v.val

Rank(c) == CHOOSE i \in 1..Len(Bytes) : Bytes[i] = c
StrLess(s, t) ==
  \E n \in 0..Len(s) :
    /\ n <= Len(t)
    /\ SubSeq(s, 1, n) = SubSeq(t, 1, n)
    /\ \/ n = Len(s) /\ n < Len(t)
       \/ n < Len(s) /\ n < Len(t) /\ Rank(s[n + 1]) < Rank(t[n + 1])
EqualVal(a, b) == /\ a.kind = b.kind
                  /\ a.kind \in {"number", "string", "bool"}
                  /\ a.val = b.val
ValLess(a, b) == IF a.kind = "number" THEN a.val < b.val ELSE StrLess(a.val, b.val)
CompareOrder(op, a, b) ==
  /\ a.kind = b.kind /\ a.kind \in {"number", "string"}
  /\ CASE op = "<"  -> ValLess(a, b)
       [] op = "<=" -> ~ValLess(b, a)
       [] op = ">"  -> ValLess(b, a)
       [] op = ">=" -> ~ValLess(a, b)
EvalIn(x, list) == list.kind = "list" /\ \E i \in 1..Len(list.val) : EqualVal(x, list.val[i])
EvalContains(c, x) ==
  \/ c.kind = "string" /\ x.kind = "string" /\ Occurs(x.val, c.val)
  \/ c.kind = "list" /\ EvalIn(x, c)
MatchRegex(x, re) == x.kind = "string" /\ Occurs(re.val, x.val)
-----------------------------------------------------------------------------
(* Syntax trees and their evaluation.                                      *)

Lit(v) == [node |-> "lit", v |-> v]
ListOf(es) == [node |-> "list", elems |-> es]
Field(f) == [node |-> "field", name |-> f]
Not(x) == [node |-> "not", x |-> x]
And(l, r) == [node |-> "and", l |-> l, r |-> r]
Or(l, r) == [node |-> "or", l |-> l, r |-> r]
Bare(x) == [node |-> "bool", x |-> x]
Cmp(op, l, r) == [node |-> "cmp", op |-> op, l |-> l, r |-> r]
Func(f, field) == [node |-> "func", name |-> f, field |-> field]

\* env maps a field to its value; a field it does not have is missing.
Lookup(env, f) == IF f \in DOMAIN env THEN env[f] ELSE Missing

CmpVals(op, l, r) ==
  CASE op = "in"     -> EvalIn(l, r)
    [] op = "not in" -> ~EvalIn(l, r)
    [] OTHER ->
         /\ l.kind # "missing" /\ r.kind # "missing"
         /\ CASE op = "=="       -> EqualVal(l, r)
              [] op = "!="       -> ~EqualVal(l, r)
              [] op = "~="       -> MatchRegex(l, r)
              [] op = "!~"       -> ~MatchRegex(l, r)
              [] op = "contains" -> EvalContains(l, r)
              [] OTHER           -> CompareOrder(op, l, r)

RECURSIVE Value(_, _)
Value(n, env) ==
  CASE n.node = "lit"   -> n.v
    [] n.node = "list"  -> List([i \in 1..Len(n.elems) |-> Value(n.elems[i], env)])
    [] n.node = "field" -> Lookup(env, n.name)
    [] n.node = "not"   -> Bool(~Truthy(Value(n.x, env)))
    [] n.node = "and"   -> Bool(Truthy(Value(n.l, env)) /\ Truthy(Value(n.r, env)))
    [] n.node = "or"    -> Bool(Truthy(Value(n.l, env)) \/ Truthy(Value(n.r, env)))
    [] n.node = "bool"  -> Bool(Truthy(Value(n.x, env)))
    [] n.node = "cmp"   -> Bool(CmpVals(n.op, Value(n.l, env), Value(n.r, env)))
    [] n.node = "func"  -> Bool((Lookup(env, n.field) = Missing) = (n.name = "missing"))

Eval(n, env) == Truthy(Value(n, env))

RECURSIVE Fields(_)
\* Mutant: the argument of exists and missing is not counted.
FieldsCompared(n) ==
  CASE n.node = "field"                -> {n.name}
    [] n.node \in {"bool", "not"}      -> Fields(n.x)
    [] n.node \in {"and", "or", "cmp"} -> Fields(n.l) \cup Fields(n.r)
    [] n.node = "list"                 -> UNION {Fields(n.elems[i]) : i \in 1..Len(n.elems)}
    [] OTHER                           -> {}
Fields(n) ==
  CASE n.node = "field"             -> {n.name}
    [] n.node = "func"              -> {n.field}
    [] n.node \in {"bool", "not"}   -> Fields(n.x)
    [] n.node \in {"and", "or", "cmp"} -> Fields(n.l) \cup Fields(n.r)
    [] n.node = "list"              -> UNION {Fields(n.elems[i]) : i \in 1..Len(n.elems)}
    [] OTHER                        -> {}

Validate(n, allowed) == Fields(n) \subseteq allowed
-----------------------------------------------------------------------------
(* The lexer.  A token carries its kind and its text or value.             *)

Token(k, v) == [kind |-> k, val |-> v]
EOF == Token("eof", << >>)

\* The first position from i on whose character is outside the class.
Skip(cs, i, Class(_)) ==
  CHOOSE j \in i..(Len(cs) + 1) : /\ \A k \in i..(j - 1) : Class(cs[k])
                                  /\ j <= Len(cs) => ~Class(cs[j])

Multipliers == {"K", "M", "G", "T", "P"}
Suffixes == {<< >>, <<"m", "s">>, <<"s">>, <<"m">>, <<"h">>}
            \cup UNION {{<<p>>, <<p, "B">>, <<p, "i", "B">>} : p \in Multipliers}
\* strconv.ParseFloat accepts digits with at most one point.
IsNumber(cs) == Cardinality({i \in 1..Len(cs) : cs[i] = "."}) <= 1
\* A number as its mantissa and its scale: seconds, or powers of 1000 or 1024.
ApplySuffix(suffix) ==
  IF suffix = << >> \/ suffix[1] \notin Multipliers THEN suffix
  ELSE <<IF Len(suffix) = 3 THEN "1024" ELSE "1000", suffix[1]>>
Unescape(c) == CASE c = "n" -> "newline" [] c = "t" -> "tab" [] c = "r" -> "return" [] OTHER -> c

\* A token, the position behind it, or the failure of the whole text.
Lexed(t, i) == [ok |-> TRUE, tok |-> t, at |-> i]
LexError == [ok |-> FALSE, tok |-> EOF, at |-> 0]

RECURSIVE LexString(_, _, _, _)
LexString(cs, i, quote, text) ==
  IF i > Len(cs) THEN LexError
  ELSE IF cs[i] = "\\" /\ i < Len(cs) THEN LexString(cs, i + 2, quote, Append(text, Unescape(cs[i + 1])))
  ELSE IF cs[i] = quote THEN Lexed(Token("string", text), i + 1)
  ELSE LexString(cs, i + 1, quote, Append(text, cs[i]))

LexNumber(cs, i) ==
  LET j == Skip(cs, i, LAMBDA c : IsDigit(c) \/ c = ".")
      k == Skip(cs, j, IsLetter)
      mantissa == SubSeq(cs, i, j - 1)
      suffix == SubSeq(cs, j, k - 1)
  IN  IF IsNumber(mantissa) /\ suffix \in Suffixes
      THEN Lexed(Token("number", <<mantissa, ApplySuffix(suffix)>>), k) ELSE LexError

LexIdent(cs, i) ==
  LET j == Skip(cs, i, IsIdentPart) IN Lexed(Token("ident", SubSeq(cs, i, j - 1)), j)

LexOp(cs, i) ==
  IF i < Len(cs) /\ SubSeq(cs, i, i + 1) \in Pairs THEN Lexed(Token("op", SubSeq(cs, i, i + 1)), i + 2)
  ELSE IF <<cs[i]>> \in Singles THEN Lexed(Token("op", <<cs[i]>>), i + 1)
  ELSE LexError

LexNext(cs, i) ==
  CASE cs[i] \in Quotes   -> LexString(cs, i + 1, cs[i], << >>)
    [] cs[i] \in Brackets -> Lexed(Token(cs[i], <<cs[i]>>), i + 1)
    [] IsDigit(cs[i])     -> LexNumber(cs, i)
    [] IsLetter(cs[i]) \/ cs[i] = "_" -> LexIdent(cs, i)
    [] OTHER              -> LexOp(cs, i)

RECURSIVE LexFrom(_, _, _)
LexFrom(cs, i, toks) ==
  LET j == Skip(cs, i, LAMBDA c : c \in Spaces)
  IN  IF j > Len(cs) THEN [ok |-> TRUE, toks |-> Append(toks, EOF)]
      ELSE LET t == LexNext(cs, j)
           IN  IF t.ok THEN LexFrom(cs, t.at, Append(toks, t.tok))
               ELSE [ok |-> FALSE, toks |-> << >>]
Lex(cs) == LexFrom(cs, 1, << >>)
-----------------------------------------------------------------------------
(* The parser: each operator returns the tree and the position behind it.  *)

Parsed(n, i) == [ok |-> TRUE, node |-> n, at |-> i]
ParseError == [ok |-> FALSE, node |-> Lit(Missing), at |-> 0]
\* What comes after r, if r was there.
Then(r, Rest(_)) == IF r.ok THEN Rest(r) ELSE ParseError

\* advance never moves past the end-of-input token.
Advance(ts, i) == IF i < Len(ts) THEN i + 1 ELSE i
IsOp(t, v) == t.kind = "op" /\ t.val = v
IsWord(t, v) == t.kind = "ident" /\ t.val = v
Comparisons == {"==", "!=", "<", "<=", ">", ">=", "~=", "!~"}

RECURSIVE ParseValue(_, _), ParseElems(_, _, _)
ParseValue(ts, i) ==
  LET t == ts[i]
      j == Advance(ts, i)
  IN  CASE t.kind = "string" -> Parsed(Lit(Str(t.val)), j)
        [] t.kind = "number" -> Parsed(Lit(Num(t.val)), j)
        [] t.kind = "["      -> ParseElems(ts, j, << >>)
        [] t.kind = "ident"  -> Parsed(IF t.val = TrueWord THEN Lit(Bool(TRUE))
                                       ELSE IF t.val = FalseWord THEN Lit(Bool(FALSE))
                                       ELSE Field(t.val), j)
        [] OTHER             -> ParseError

\* The elements of a list up to its ']'; a trailing comma is accepted.
ParseElems(ts, i, es) ==
  IF ts[i].kind = "]" THEN Parsed(ListOf(es), Advance(ts, i))
  ELSE Then(ParseValue(ts, i), LAMBDA e :
         CASE ts[e.at].kind = "," -> ParseElems(ts, Advance(ts, e.at), Append(es, e.node))
           [] ts[e.at].kind = "]" -> Parsed(ListOf(Append(es, e.node)), Advance(ts, e.at))
           [] OTHER -> ParseError)

\* The comparison operator at i and the position behind it; "" if none.
ComparisonOp(ts, i) ==
  LET t == ts[i]
      j == Advance(ts, i)
      symbols == {o \in Comparisons : IsOp(t, OpText(o))}
  IN  IF symbols # {} THEN [op |-> CHOOSE o \in symbols : TRUE, at |-> j]
      ELSE IF IsWord(t, In) THEN [op |-> "in", at |-> j]
      ELSE IF IsWord(t, ContainsWord) THEN [op |-> "contains", at |-> j]
      ELSE IF IsWord(t, NotWord) /\ IsWord(ts[i + 1], In) THEN [op |-> "not in", at |-> Advance(ts, j)]
      ELSE [op |-> "", at |-> i]

IsPattern(n) == n.node = "lit" /\ n.v.kind = "string" /\ n.v.val \notin BadRegex
Comparison(ts, left, c) ==
  IF c.op = "" THEN Parsed(Bare(left.node), left.at)
  ELSE Then(ParseValue(ts, c.at), LAMBDA right :
         IF c.op \in {"~=", "!~"} /\ ~IsPattern(right.node) THEN ParseError
         ELSE Parsed(Cmp(c.op, left.node, right.node), right.at))
MaybeComparison(ts, left) == Comparison(ts, left, ComparisonOp(ts, left.at))

ParseFunc(ts, i) ==
  LET arg == i + 2
      name == CASE ts[i].val = Exists -> "exists" [] ts[i].val = MissingWord -> "missing" [] OTHER -> ""
  IN  IF name # "" /\ ts[arg].kind = "ident" /\ ts[arg + 1].kind = ")"
      THEN Parsed(Func(name, ts[arg].val), Advance(ts, arg + 1)) ELSE ParseError

RECURSIVE ParseOr(_, _), OrTail(_, _), ParseAnd(_, _), AndTail(_, _), ParseUnary(_, _), ParsePrimary(_, _)
ParsePrimary(ts, i) ==
  IF ts[i].kind = "("
  THEN Then(ParseOr(ts, Advance(ts, i)), LAMBDA inner :
         IF ts[inner.at].kind = ")" THEN Parsed(inner.node, Advance(ts, inner.at)) ELSE ParseError)
  ELSE IF ts[i].kind = "ident" /\ ts[i + 1].kind = "(" THEN ParseFunc(ts, i)
  ELSE Then(ParseValue(ts, i), LAMBDA left : MaybeComparison(ts, left))

\* Mutant: a negation reaches over the conjunction behind it.
ParseUnaryWide(ts, i) ==
  IF IsOp(ts[i], <<"!">>)
  THEN Then(ParseAnd(ts, Advance(ts, i)), LAMBDA x : Parsed(Not(x.node), x.at))
  ELSE ParsePrimary(ts, i)
ParseUnary(ts, i) ==
  IF IsOp(ts[i], <<"!">>)
  THEN Then(ParseUnary(ts, Advance(ts, i)), LAMBDA x : Parsed(Not(x.node), x.at))
  ELSE ParsePrimary(ts, i)

AndTail(ts, left) ==
  IF ~left.ok \/ ~IsOp(ts[left.at], <<"&", "&">>) THEN left
  ELSE Then(ParseUnary(ts, Advance(ts, left.at)), LAMBDA right :
         AndTail(ts, Parsed(And(left.node, right.node), right.at)))
ParseAnd(ts, i) == AndTail(ts, ParseUnary(ts, i))

OrTail(ts, left) ==
  IF ~left.ok \/ ~IsOp(ts[left.at], <<"|", "|">>) THEN left
  ELSE Then(ParseAnd(ts, Advance(ts, left.at)), LAMBDA right :
         OrTail(ts, Parsed(Or(left.node, right.node), right.at)))
ParseOr(ts, i) == OrTail(ts, ParseAnd(ts, i))

\* Compile after lexing: the whole input must be one expression.
Parse(ts) == Then(ParseOr(ts, 1), LAMBDA p : IF ts[p.at].kind = "eof" THEN p ELSE ParseError)
Compile(cs) == Then(Lex(cs), LAMBDA l : Parse(l.toks))
==============================================================================
