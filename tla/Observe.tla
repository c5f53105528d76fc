------------------------------- MODULE Observe -------------------------------
(***************************************************************************)
(* What the read-only half of procfit computes, one task at a time: the    *)
(* text of an expression is lexed, a tree of it compiled, a snapshot       *)
(* queried, a configuration loaded, a view setting resolved, a             *)
(* configuration file looked for, a screen used.  A task is chosen once,   *)
(* from the bounded sets below; all but the screen take one step.          *)
(***************************************************************************)
EXTENDS Config, Screen

CONSTANTS Texts,      \* texts, as sequences of characters
          Trees,      \* syntax trees over the fields of Envs
          Envs,       \* environments to evaluate them in
          Snapshots,  \* snapshots, as sequences of processes in listing order
          FlagSets,   \* the flags of a command
          RateMetrics \* ids of the metrics that are rates

vars == <<task, answer, screen>>

\* What the configuration asks about metrics and queries, for the constants of Config.
InRegistry(name) == name \in MetricNames
IsDimension(name) == name \in Dimensions
IsProfile(name) == name \in DOMAIN Profiles \cup DerivedProfiles
IsRate(name) == ResolveID(name) \cap RateMetrics # {}

Closed == /\ ui = [run |-> "off"] /\ world = << >> /\ targets = << >> /\ sitting = [keys |-> {}] /\ left = 0
          /\ applied = Nothing /\ chosen = Nothing
OneStep ==
  /\ \/ \E x \in Texts      : task = Task("text", x)
     \/ \E x \in Trees      : task = Task("tree", x)
     \/ \E x \in [snapshot : Snapshots, flags : FlagSets] : task = Task("query", x)
     \/ Read
  /\ Closed
Init == answer = Pending /\ \/ OneStep
                            \/ task = Task("screen", << >>) /\ Opened

Answer(kind, a) == Answers(kind, a) /\ UNCHANGED screen

-----------------------------------------------------------------------------
(* A tree written down as tokens, with the parentheses it needs.           *)

Op(o) == <<Token("op", OpText(o))>>
AndOp == <<Token("op", <<"&", "&">>)>>
OrOp == <<Token("op", <<"|", "|">>)>>
NotOp == <<Token("op", <<"!">>)>>
Word(w) == <<Token("ident", w)>>
Bracket(b) == <<Token(b, <<b>>)>>
LitTokens(v) == IF v.kind = "bool" THEN Word(IF v.val THEN TrueWord ELSE FalseWord) ELSE <<Token(v.kind, v.val)>>
OpTokens(op) == CASE op = "in"       -> Word(In)
                  [] op = "not in"   -> Word(NotWord) \o Word(In)
                  [] op = "contains" -> Word(ContainsWord)
                  [] OTHER           -> Op(op)

RECURSIVE Written(_, _)
Written(n, level) ==
  LET own == CASE n.node = "or" -> 1 [] n.node = "and" -> 2 [] n.node = "not" -> 3 [] OTHER -> 4
      text ==
        CASE n.node = "or"    -> Written(n.l, 1) \o OrOp \o Written(n.r, 2)
          [] n.node = "and"   -> Written(n.l, 2) \o AndOp \o Written(n.r, 3)
          [] n.node = "not"   -> NotOp \o Written(n.x, 3)
          [] n.node = "bool"  -> Written(n.x, 4)
          [] n.node = "cmp"   -> Written(n.l, 4) \o OpTokens(n.op) \o Written(n.r, 4)
          [] n.node = "func"  -> Word(IF n.name = "exists" THEN Exists ELSE MissingWord)
                                 \o Bracket("(") \o Word(n.field) \o Bracket(")")
          [] n.node = "field" -> Word(n.name)
          [] n.node = "lit"   -> LitTokens(n.v)
          [] n.node = "list"  ->
               Bracket("[") \o S!FlattenSeq([i \in 1..Len(n.elems) |->
                 (IF i = 1 THEN << >> ELSE Bracket(",")) \o Written(n.elems[i], 4)]) \o Bracket("]")
  IN  IF own < level THEN Bracket("(") \o text \o Bracket(")") ELSE text
TreeTokens(n) == Append(Written(n, 1), EOF)

\* A token as text: a string quoted and escaped, a size by its multiplier.
TokenText(t) ==
  CASE t.kind = "string" ->
         <<"\"">> \o S!FlattenSeq([i \in 1..Len(t.val) |->
                      IF t.val[i] \in {"\"", "\\"} THEN <<"\\", t.val[i]>> ELSE <<t.val[i]>>]) \o <<"\"">>
    [] t.kind = "number" ->
         LET scale == t.val[2]
         IN  t.val[1] \o CASE scale # << >> /\ scale[1] = "1000" -> <<scale[2]>>
                           [] scale # << >> /\ scale[1] = "1024" -> <<scale[2], "i", "B">>
                           [] OTHER -> scale
    [] OTHER -> t.val
Spaced(toks) == S!FlattenSeq([i \in 1..Len(toks) |-> TokenText(toks[i]) \o <<" ">>])
-----------------------------------------------------------------------------
SpecOf(q) == Spec(q.flags)
LexText == Answer("text", Lex(task.args))
CompileTree == Answer("tree", Parse(TreeTokens(task.args)))
RunQuery == Answer("query", IF FlagsError(task.args.flags) \/ GroupError(SpecOf(task.args).group)
                            THEN << >> ELSE Build(task.args.snapshot, SpecOf(task.args)))
Configure == (Load \/ Settle \/ Locate) /\ UNCHANGED screen

\* A task once answered stays answered.
UseScreen == task.kind = "screen" /\ Turn /\ UNCHANGED <<task, answer>>
Next == LexText \/ CompileTree \/ RunQuery \/ Configure \/ UseScreen
Behaviour == Init /\ [][Next]_vars
-----------------------------------------------------------------------------
(* What the answers must satisfy.                                          *)

(* A tree is what the parser reads from its text, with as few parentheses  *)
(* as the grammar's precedence and left association allow; and a text the  *)
(* lexer accepts is the same tokens when each is written on its own: no    *)
(* token depends on what it happens to stand next to.                      *)
TextReadsBack ==
  /\ Answered("tree") => answer.is.ok /\ answer.is.node = task.args
  /\ Answered("text") /\ answer.is.ok => Lex(Spaced(answer.is.toks)) = answer.is

(* An expression depends on no field outside Fields, the list by which the *)
(* program decides what to collect and whether a selector may be stored.   *)
FieldsSuffice ==
  Answered("tree") =>
    LET tree == answer.is.node
        val == [e \in Envs |-> Eval(tree, e)]
    IN  \A d, e \in Envs :
          (\A f \in Fields(tree) : Lookup(d, f) = Lookup(e, f)) => val[d] = val[e]

\* An answered query, its spec, and the rows below a list of rows with their paths.
Ran == Answered("query") /\ ~FlagsError(task.args.flags) /\ ~GroupError(SpecOf(task.args).group)
Asked == SpecOf(task.args)
Whole == Asked.having = NoExpr /\ Asked.limit = 0
RECURSIVE RowsBelow(_, _)
RowsBelow(rows, path) ==
  UNION {LET here == Append(path, rows[i].key)
         IN  {[path |-> here, row |-> rows[i]]} \cup RowsBelow(rows[i].sub, here) : i \in 1..Len(rows)}
RECURSIVE LeafKeys(_)
LeafKeys(rows) ==
  S!FlattenSeq([i \in 1..Len(rows) |->
    IF rows[i].kind \in {"process", "thread"} THEN <<rows[i].key>> ELSE LeafKeys(rows[i].sub)])
RECURSIVE Outline(_)
Outline(rows) == [i \in 1..Len(rows) |-> <<rows[i].key, Outline(rows[i].sub)>>]

\* Every selected process, or every thread of one, is exactly one leaf.
EveryLeafOnce ==
  LET procs == Selected(task.args.snapshot, Asked)
      keys == LeafKeys(answer.is)
  IN  Asked.leaf # "none" =>
        /\ S!IsInjective(keys)
        /\ Elems(keys) = IF Asked.leaf = "process" THEN {p.key : p \in Elems(procs)}
                         ELSE UNION {{t.key : t \in Elems(p.threads)} : p \in Elems(procs)}
\* The counts and additive metrics of a group are the sums of those of its rows.
AddsUp(r) ==
  LET Known(id) == SelectSeq(r.sub, LAMBDA s : s.metrics[id].ok)
  IN  /\ \A c \in {"procs", "threads", "leaves"} : r.counts[c] = SumSeq([i \in 1..Len(r.sub) |-> r.sub[i].counts[c]])
      /\ \A id \in {i \in DOMAIN r.metrics : Descriptor(i).agg = "sum"} :
           LET given == Known(id)
           IN  r.metrics[id] = IF given = << >> THEN NA ELSE Avail(SumSeq([i \in 1..Len(given) |-> given[i].metrics[id].v]))

(* Whatever the grouping, and whether or not its dimensions can be read,   *)
(* no selected process or thread is lost or shown twice, and every group's *)
(* processes, threads and additive metrics are the sums of those of the    *)
(* rows right below it, over the values there are.                         *)
GroupsHoldEverything ==
  Ran /\ Whole =>
    /\ EveryLeafOnce
    /\ \A n \in RowsBelow(answer.is, << >>) :
         n.row.kind = "group" /\ n.row.sub # << >> /\ n.row.sub[1].kind # "thread" => AddsUp(n.row)

(* A having filter keeps a row when the row or a row below it passes, and  *)
(* drops every other one: no match disappears with a group that fails.     *)
HavingKeepsMatches ==
  Ran /\ Asked.having # NoExpr /\ Asked.limit = 0 =>
    LET all == RowsBelow(Rows(Selected(task.args.snapshot, Asked), Asked), << >>)
        matches == {n.path : n \in {m \in all : Eval(Asked.having, RowEnv(m.row))}}
    IN  {n.path : n \in RowsBelow(answer.is, << >>)} =
          {n.path : n \in {m \in all : \E p \in matches : S!IsPrefix(m.path, p)}}

\* Row a belongs in front of row b: the better value, or the only value.
Better(a, b, k) ==
  LET x == NumField(a, k.field)
      y == NumField(b, k.field)
  IN  x.ok /\ (y.ok => IF k.desc THEN x.v > y.v ELSE x.v < y.v)

(* At every level the rows are ordered by the first sort key, a row that   *)
(* has no value last in either direction, and a row that the limit drops   *)
(* belongs in front of none that is shown.                                 *)
TopRowsShown ==
  Ran /\ Asked.sort # << >> /\ Asked.sort[1].field \notin Names =>
    LET k == Asked.sort[1]
        candidates == Elems(Filtered(Rows(Selected(task.args.snapshot, Asked), Asked), Asked))
        shown == {r.key : r \in Elems(answer.is)}
        Ordered(rows) == \A i, j \in 1..Len(rows) : i < j => ~Better(rows[j], rows[i], k)
    IN  /\ Ordered(answer.is)
        /\ \A n \in RowsBelow(answer.is, << >>) : Ordered(n.row.sub)
        /\ \A r \in candidates : r.key \notin shown => \A i \in 1..Len(answer.is) : ~Better(r, answer.is[i], k)

MixedIn(names) == \E id \in UNION {ResolveID(n) : n \in names} : Descriptor(id).agg = "mixed"

(* The order in which /proc lists the processes decides neither which rows *)
(* are shown nor in which order.  Sorting or filtering groups by a "mixed" *)
(* metric is left out: it shows whichever value was listed first.          *)
ListingOrderIrrelevant ==
  Ran /\ ~MixedIn(ExprFields(Asked.having) \cup {Asked.sort[i].field : i \in 1..Len(Asked.sort)}) =>
    Outline(Build(S!Reverse(task.args.snapshot), Asked)) = Outline(answer.is)

\* What the sampler delivers of a process for a list of metrics.
Sampled(p, ids) == [p EXCEPT !.metrics = [id \in DOMAIN @ |-> IF id \in Elems(ids) THEN @[id] ELSE NA]]

(* Collecting only the metrics the query says it needs answers it as well  *)
(* as collecting every one: no filter, sort key or column reads a metric   *)
(* that nothing asked for.                                                 *)
CollectedSuffices ==
  Ran => LET snapshot == task.args.snapshot
             needed == [i \in 1..Len(snapshot) |-> Sampled(snapshot[i], Asked.metrics)]
             everything == [Asked EXCEPT !.metrics = IDs(MetricIDs)]
         IN  Outline(Build(needed, Asked)) = Outline(Build(snapshot, everything))
==============================================================================
