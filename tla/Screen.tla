------------------------------- MODULE Screen --------------------------------
(***************************************************************************)
(* The explorer over the query engine: what Explorer has as parameters, by *)
(* Query and Expr.  The configuration of a run gives each parameter the    *)
(* operator here that stands for it.                                       *)
(***************************************************************************)
EXTENDS Query, Explorer
-----------------------------------------------------------------------------
(* Columns.                                                                *)

SortableColumns == {"target", "procs", "threads", "pid", "tid", "comm", "name", "pstate", "wchan", "hostname"} \cup MetricIDs
FilterableColumns == {"target", "procs", "threads", "comm", "name", "pstate", "kind", "wchan", "hostname"} \cup MetricIDs
GroupableColumns == {"ppid", "comm", "name", "uid", "user", "pstate", "wchan", "hostname"}
Columns == SortableColumns \cup FilterableColumns \cup GroupableColumns \cup {"pt", "cmdline"}
ProcessColumns(cols) == SelectSeq(cols, LAMBDA c : c \notin HostMetrics)
NumericFields == MetricIDs \cup {"pid", "tid", "ppid", "uid", "gid", "nice", "procs", "threads", "children", "leaves"}
-----------------------------------------------------------------------------
\* The rows of a tree and its folds, and what is folded.
IsCollapsed(m, path) == IF path \in DOMAIN m.folds THEN m.folds[path] ELSE m.foldDefault
RECURSIVE Flatten(_, _, _, _)
Flatten(m, rows, depth, parent) ==
  S!FlattenSeq([i \in 1..Len(rows) |->
    LET path == Append(parent, rows[i].key)
        kids == rows[i].sub # << >>
        folded == kids /\ IsCollapsed(m, path)
    IN  <<[row |-> rows[i], depth |-> depth, path |-> path, kids |-> kids]>>
        \o IF kids /\ ~folded THEN Flatten(m, rows[i].sub, depth + 1, path) ELSE << >>])
Unfolded(m) == Flatten(m, m.tree, 0, << >>)
-----------------------------------------------------------------------------
\* The tree of a filter, with the names it spells, and a pattern for what it matches.
NameOf(cs) == IF \E n \in DOMAIN Spelling : Spelling[n] = cs THEN CHOOSE n \in DOMAIN Spelling : Spelling[n] = cs ELSE "?"
Pattern(x) == IF S!IsPrefix(AnyCase, x.v.val) THEN Lit(Str(SubSeq(x.v.val, 5, Len(x.v.val)))) ELSE x
RECURSIVE Named(_)
Named(n) ==
  CASE n.node = "field"            -> Field(NameOf(n.name))
    [] n.node = "func"             -> Func(n.name, NameOf(n.field))
    [] n.node \in {"bool", "not"}  -> [n EXCEPT !.x = Named(@)]
    [] n.node \in {"and", "or"}    -> [n EXCEPT !.l = Named(@), !.r = Named(@)]
    [] n.node = "cmp"              -> [n EXCEPT !.l = Named(@), !.r = IF n.op \in {"~=", "!~"} THEN Pattern(@) ELSE Named(@)]
    [] n.node = "list"             -> [n EXCEPT !.elems = [i \in DOMAIN @ |-> Named(@[i])]]
    [] OTHER                       -> n
Accepted(m, text) ==
  LET tree == Compile(text) IN tree.ok /\ Validate(Named(tree.node), Elems(m.cols) \cap FilterableColumns)
-----------------------------------------------------------------------------
RECURSIVE PidsUnder(_)
PidsUnder(r) ==
  (CASE r.kind = "process" -> {r.leaf.nums.pid} [] r.kind = "thread" -> {r.leaf.pid} [] OTHER -> {})
  \cup UNION {PidsUnder(r.sub[i]) : i \in 1..Len(r.sub)}
-----------------------------------------------------------------------------
(* The managed targets, as the callbacks of internal/app see them.         *)

Orphan(b) ==
  Leaf("process", <<"orphan", ToString(b.pid)>>, b.name, 1, 0, << >>, [key |-> b.key, nums |-> [pid |-> b.pid]])
OrphanGroup(tgs, pids) ==
  LET rows == SortRows(S!SetToSeq({Orphan(Want(tgs, p)) : p \in pids}), << >>)
  IN  IF pids = {} THEN << >> ELSE <<Group("group", "", <<"orphans">>, <<"orphans">>, << >>, rows, << >>)>>
ManagedTree(procs, tgs, s) ==
  LET live == SelectSeq(procs, LAMBDA p : /\ p.nums.pid \in ManagedPIDs(tgs)
                                          /\ p.key = Want(tgs, p.nums.pid).key)
  IN  Build(live, s) \o OrphanGroup(tgs, ManagedPIDs(tgs) \ {p.nums.pid : p \in Elems(live)})
-----------------------------------------------------------------------------
FlagsOf(m) == [m.flags EXCEPT !.having = IF m.filter = << >> THEN NoExpr ELSE Named(Compile(m.filter).node)]
Rejected(f) == FlagsError(f) \/ GroupError(f.group) \/ \E c \in Elems(ProcessColumns(Spec(f).columns)) : c \notin Columns
Refuses(m) == Rejected(FlagsOf(m))
Found(m, procs, tgs) ==
  LET s == Spec(FlagsOf(m))
  IN  [tree |-> IF m.panel = "managed" THEN ManagedTree(procs, tgs, s) ELSE Build(procs, s),
       cols |-> ProcessColumns(s.columns), host |-> HostMetrics \cap Elems(s.metrics)]
-----------------------------------------------------------------------------
(* From flags the query accepts no keys lead to flags it refuses: the      *)
(* screen always shows the view it says it shows.                          *)
KeysMakeGoodQueries == ui.run = "on" => ~Refuses(ui)
==============================================================================
