-------------------------------- MODULE Query --------------------------------
(***************************************************************************)
(* The observation pipeline of internal/queryspec and internal/query: raw  *)
(* flags become a query, and the query turns one snapshot into a tree of   *)
(* rows: select, group, aggregate, having, sort, limit.                    *)
(*                                                                         *)
(* A name or label is a sequence of characters; an empty one stands for a  *)
(* field that could not be read.  A comma-separated flag is the sequence   *)
(* of its trimmed, non-empty parts, and a predicate is a tree of Expr.     *)
(* Numbers are integers: rounding is not modelled.                         *)
(***************************************************************************)
EXTENDS Expr

CONSTANTS Registry,    \* descriptors [id, aliases, agg, light], in the order of their ids
          Profiles,    \* explicit profiles: name -> [metrics, columns, sort, group, having]
          Dimensions   \* the group-by dimensions

Avail(n) == [ok |-> TRUE, v |-> n]
NA == [ok |-> FALSE, v |-> 0]
SumSeq(s) == S!FoldLeft(LAMBDA a, x : a + x, 0, s)
-----------------------------------------------------------------------------
(* The metric registry.                                                    *)

MetricIDs == {d.id : d \in Elems(Registry)}
Descriptor(id) == CHOOSE d \in Elems(Registry) : d.id = id
\* The canonical id of a name, as a set of at most one: an alias, or the id itself.
ResolveID(name) == {d.id : d \in {e \in Elems(Registry) : name = e.id \/ name \in e.aliases}}
\* Ids in the order of the registry.
IDs(ids) == S!FoldLeft(LAMBDA out, d : IF d.id \in ids THEN Append(out, d.id) ELSE out, << >>, Registry)

DerivedProfiles == {"none", "all", "light"}
Resolve(profile) ==
  CASE profile = "none"  -> << >>
    [] profile = "all"   -> IDs(MetricIDs)
    [] profile = "light" -> IDs({d.id : d \in {e \in Elems(Registry) : e.light}})
    [] OTHER             -> IDs(Elems(Profiles[profile].metrics))

Overridden(s, ov) ==
  LET id == CHOOSE i \in ResolveID(ov.id) : TRUE
  IN  IF ov.add THEN AddOnce(s, id) ELSE SelectSeq(s, LAMBDA x : x # id)
ResolveSelection(profile, overrides) == S!FoldLeft(Overridden, Resolve(profile), overrides)
-----------------------------------------------------------------------------
(* From flags to a query.                                                  *)

ApplyProfileDefaults(f) ==
  IF f.profile \notin DOMAIN Profiles THEN f
  ELSE LET p == Profiles[f.profile]
       IN  [f EXCEPT !.sort   = IF @ = << >> THEN p.sort ELSE @,
                     !.group  = IF @ = << >> THEN p.group ELSE @,
                     !.having = IF @ = NoExpr THEN p.having ELSE @]

DefaultColumns == <<"target", "pid", "pt", "cpu", "rss", "disk-rbps", "disk-wbps", "pstate">>
WideColumns == <<"target", "pt", "user", "pid", "cpu", "cpu-user", "cpu-system", "rss", "vsz",
                 "minor-faults", "major-faults", "disk-rbps", "disk-wbps", "pstate", "pnice">>

InsertAfter(s, x, new) ==
  S!FoldLeft(LAMBDA out, c : IF c = x THEN out \o <<c, new>> ELSE Append(out, c), << >>, s)
WithGroupSize(cols) ==
  IF "pt" \in Elems(cols) THEN cols
  ELSE IF "target" \in Elems(cols) THEN InsertAfter(cols, "target", "pt")
  ELSE <<"pt">> \o cols
LeafIdentifiers(leaf, cols) ==
  <<"target", "pid">> \o (IF leaf = "thread" THEN <<"tid">> ELSE << >>) \o cols

ChooseColumns(f) ==
  IF f.columns # << >> THEN f.columns
  ELSE IF f.wide THEN WideColumns
  ELSE IF f.profile \in DOMAIN Profiles /\ Profiles[f.profile].columns # << >>
  THEN WithGroupSize(Profiles[f.profile].columns)
  ELSE IF f.profile \in DOMAIN Profiles /\ Resolve(f.profile) # << >>
  THEN WithGroupSize(LeafIdentifiers(f.leaf, Resolve(f.profile)))
  ELSE IF f.leaf = "thread" THEN InsertAfter(DefaultColumns, "pid", "tid")
  ELSE DefaultColumns

EntityNums == {"pid", "uid"}
EntityStrs == {"comm", "name", "user", "state", "pstate", "wchan", "hostname", "container"}
MetricNames == UNION {{d.id} \cup d.aliases : d \in Elems(Registry)}
AllowedEntityFields == EntityNums \cup EntityStrs \cup {"nice", "netns"} \cup MetricNames
AllowedRowFields ==
  {"procs", "threads", "children", "leaves", "target", "label", "comm", "name", "kind",
   "state", "pstate", "wchan", "hostname"} \cup MetricNames

ExprFields(e) == IF e = NoExpr THEN {} ELSE Fields(e)

\* Mutant: a metric that only a sort key names is not collected.
NeededMetricsShown(selection, names, sort) ==
  LET byName == UNION {ResolveID(n) : n \in names}
  IN  selection \o IDs(byName \ Elems(selection))
\* The metrics a query asks the collectors for: the selection, then what the
\* columns, the predicates and the sort keys name.
NeededMetrics(selection, names, sort) ==
  LET byName == UNION {ResolveID(n) : n \in names \cup {sort[i].field : i \in 1..Len(sort)}}
  IN  selection \o IDs(byName \ Elems(selection))

GroupError(group) ==
  group # <<"none">> /\ \/ \E d \in Elems(group) : d \notin Dimensions
                        \/ ~S!IsInjective(group)
FlagsError(f) ==
  \/ f.profile \notin DOMAIN Profiles \cup DerivedProfiles \cup {""}
  \/ \E ov \in Elems(f.overrides) : ResolveID(ov.id) = {}
  \/ f.select # NoExpr /\ ~Validate(f.select, AllowedEntityFields)
  \/ f.having # NoExpr /\ ~Validate(f.having, AllowedRowFields)

Spec(flags) ==
  LET f == ApplyProfileDefaults(flags)
      cols == ChooseColumns(f)
      selection == ResolveSelection(IF f.profile = "" THEN "light" ELSE f.profile, f.overrides)
  IN  [group   |-> IF f.group = <<"none">> THEN << >> ELSE f.group,
       leaf    |-> IF f.leaf = "" THEN "process" ELSE f.leaf,
       select  |-> f.select, having |-> f.having, sort |-> f.sort,
       columns |-> cols, limit |-> f.number,
       metrics |-> NeededMetrics(selection, Elems(cols) \cup ExprFields(f.select) \cup ExprFields(f.having), f.sort)]
-----------------------------------------------------------------------------
(* Fields of a process and of a row.                                       *)

EntityField(p, f) ==
  CASE f \in DOMAIN p.nums -> Num(p.nums[f])
    [] f \in DOMAIN p.strs -> Str(p.strs[f])
    [] f = "nice"          -> IF p.nice.ok THEN Num(p.nice.v) ELSE Missing
    [] f = "netns"         -> IF p.netns.ok THEN Num(p.netns.v) ELSE Missing
    [] OTHER               -> Missing
MetricField(metrics, f) == IF metrics[f].ok THEN Num(metrics[f].v) ELSE Missing
EntityEnv(p) == [f \in AllowedEntityFields |->
                   IF f \in DOMAIN p.metrics THEN MetricField(p.metrics, f) ELSE EntityField(p, f)]

Counts == {"procs", "threads", "children", "leaves"}
Names == {"target", "label", "comm", "name"}
RowAggField(r, f) ==
  CASE f \in Counts -> Num(r.counts[f])
    [] f \in Names  -> Str(r.label)
    [] f = "kind"   -> Str(r.kind)
RowLeafField(r, f) ==
  CASE r.kind = "process" /\ f \in {"state", "pstate", "wchan", "hostname"} -> Str(r.leaf.strs[f])
    [] r.kind = "thread" /\ f \in {"state", "pstate"} -> Str(r.leaf.state)
    [] OTHER -> Missing
RowEnv(r) == [f \in AllowedRowFields |->
                IF f \in DOMAIN r.metrics THEN MetricField(r.metrics, f)
                ELSE IF f \in Counts \cup Names \cup {"kind"} THEN RowAggField(r, f)
                ELSE RowLeafField(r, f)]

SelectProcesses(procs, e) == SelectSeq(procs, LAMBDA p : e = NoExpr \/ Eval(e, EntityEnv(p)))
-----------------------------------------------------------------------------
(* Grouping and aggregation.                                               *)

UnknownKey == <<"0">>
KeyOf(p, dim) == IF p.strs[dim] = << >> THEN UnknownKey ELSE p.strs[dim]
BucketLabel(dim, key) == IF key = UnknownKey THEN <<dim, "?">> ELSE key
BucketKeys(procs, dim) == S!FoldLeft(LAMBDA keys, p : AddOnce(keys, KeyOf(p, dim)), << >>, procs)
\* Mutant: a process whose dimension is unreadable matches no bucket.
BucketKnown(procs, dim, key) == SelectSeq(procs, LAMBDA p : p.strs[dim] = key)
Bucket(procs, dim, key) == SelectSeq(procs, LAMBDA p : KeyOf(p, dim) = key)

ThreadCount(p) == IF p.threads # << >> THEN Len(p.threads) ELSE p.numThreads
Projected(metrics, ids) ==
  [id \in Elems(ids) |-> IF id \in DOMAIN metrics THEN metrics[id] ELSE NA]

PresentValues(procs, id) ==
  LET ps == SelectSeq(procs, LAMBDA p : id \in DOMAIN p.metrics /\ p.metrics[id].ok)
  IN  [i \in 1..Len(ps) |-> ps[i].metrics[id].v]
\* "mixed" shows the first value; min, max and sum are those of the values present.
Aggregate(agg, vals) ==
  IF vals = << >> THEN NA
  ELSE CASE agg = "min"   -> Avail(FS!Min(Elems(vals)))
         [] agg = "max"   -> Avail(FS!Max(Elems(vals)))
         [] agg = "mixed" -> Avail(vals[1])
         [] OTHER         -> Avail(SumSeq(vals))
AggregateMetrics(procs, ids) ==
  [id \in Elems(ids) |-> Aggregate(Descriptor(id).agg, PresentValues(procs, id))]

CountLeaves(sub) == SumSeq([i \in 1..Len(sub) |-> sub[i].counts.leaves])
Group(kind, dim, key, label, procs, sub, ids) ==
  [kind |-> kind, dim |-> dim, key |-> key, label |-> label, leaf |-> NoExpr, sub |-> sub,
   counts |-> [children |-> Len(sub), procs |-> Len(procs), leaves |-> CountLeaves(sub),
               threads |-> SumSeq([i \in 1..Len(procs) |-> ThreadCount(procs[i])])],
   metrics |-> AggregateMetrics(procs, ids)]
Leaf(kind, key, label, procs, threads, metrics, x) ==
  [kind |-> kind, dim |-> "", key |-> key, label |-> label, leaf |-> x, sub |-> << >>,
   counts |-> [children |-> 0, procs |-> procs, leaves |-> 1, threads |-> threads],
   metrics |-> metrics]
ProcessLeaf(p, ids) ==
  Leaf("process", p.key, p.strs.comm, 1, ThreadCount(p), Projected(p.metrics, ids), p)
ThreadLeaf(t, ids) == Leaf("thread", t.key, t.comm, 0, 1, Projected(t.metrics, ids), t)

MakeLeaves(procs, leaf, ids) ==
  CASE leaf = "none"   -> << >>
    [] leaf = "thread" ->
         LET ts == S!FlattenSeq([i \in 1..Len(procs) |-> procs[i].threads])
         IN  [i \in 1..Len(ts) |-> ThreadLeaf(ts[i], ids)]
    [] OTHER           -> [i \in 1..Len(procs) |-> ProcessLeaf(procs[i], ids)]

RECURSIVE BuildRows(_, _, _, _)
BuildRows(procs, dims, leaf, ids) ==
  IF dims = << >> THEN MakeLeaves(procs, leaf, ids)
  ELSE LET keys == BucketKeys(procs, dims[1])
           GroupOf(key) ==
             LET b == Bucket(procs, dims[1], key)
             IN  Group("group", dims[1], key, BucketLabel(dims[1], key), b,
                       BuildRows(b, Tail(dims), leaf, ids), ids)
       IN  [i \in 1..Len(keys) |-> GroupOf(keys[i])]

HostTotal(procs, ids) == Group("host", "", <<"h">>, <<"h">>, procs, << >>, ids)
-----------------------------------------------------------------------------
(* Having, sorting and the limit.                                          *)

RECURSIVE ApplyHaving(_, _)
\* Mutant: a group that fails takes its rows with it.
ApplyHavingFromTop(rows, e) ==
  LET passing == SelectSeq(rows, LAMBDA r : Eval(e, RowEnv(r)))
  IN  [i \in 1..Len(passing) |-> [passing[i] EXCEPT !.sub = ApplyHaving(@, e)]]
ApplyHaving(rows, e) ==
  LET pruned == [i \in 1..Len(rows) |-> [rows[i] EXCEPT !.sub = ApplyHaving(@, e)]]
  IN  SelectSeq(pruned, LAMBDA r : Eval(e, RowEnv(r)) \/ r.sub # << >>)

NumField(r, f) ==
  CASE f \in Counts -> Avail(r.counts[f])
    [] f = "pid"    -> IF r.kind = "process" THEN Avail(r.leaf.nums.pid) ELSE NA
    [] OTHER        -> IF f \in DOMAIN r.metrics THEN r.metrics[f] ELSE NA
\* Mutant: descending is ascending reversed, unavailable values included.
BeforeByKeyReversed(a, b, k) ==
  LET x == NumField(IF k.desc THEN b ELSE a, k.field)
      y == NumField(IF k.desc THEN a ELSE b, k.field)
  IN  x.ok /\ (y.ok => x.v < y.v)
\* a is before b by key k; an unavailable number is last in both directions.
BeforeByKey(a, b, k) ==
  IF k.field \in Names
  THEN IF k.desc THEN StrLess(b.label, a.label) ELSE StrLess(a.label, b.label)
  ELSE LET x == NumField(a, k.field)
           y == NumField(b, k.field)
       IN  \/ x.ok /\ ~y.ok
           \/ x.ok /\ y.ok /\ (IF k.desc THEN x.v > y.v ELSE x.v < y.v)
Kinds == <<"group", "host", "process", "thread">>
KindRank(r) == CHOOSE i \in 1..4 : Kinds[i] = r.kind
\* Mutant: rows with the same label are left as they come.
TieBreakByLabel(a, b) == KindRank(a) < KindRank(b) \/ (a.kind = b.kind /\ StrLess(a.label, b.label))
TieBreak(a, b) ==
  \/ KindRank(a) < KindRank(b)
  \/ a.kind = b.kind /\ \/ StrLess(a.label, b.label)
                        \/ a.label = b.label /\ StrLess(a.key, b.key)
RowBefore(a, b, keys) ==
  LET deciding == {i \in 1..Len(keys) : BeforeByKey(a, b, keys[i]) \/ BeforeByKey(b, a, keys[i])}
  IN  IF deciding = {} THEN TieBreak(a, b) ELSE BeforeByKey(a, b, keys[FS!Min(deciding)])

\* The stable sort: the place of row i is the number of rows that come before it.
SortRows(rows, keys) ==
  LET Place(i) == Cardinality({j \in 1..Len(rows) :
                                 \/ RowBefore(rows[j], rows[i], keys)
                                 \/ j <= i /\ ~RowBefore(rows[i], rows[j], keys)})
  IN  [n \in 1..Len(rows) |-> rows[CHOOSE i \in 1..Len(rows) : Place(i) = n]]
RECURSIVE SortTree(_, _)
SortTree(rows, keys) ==
  SortRows([i \in 1..Len(rows) |-> [rows[i] EXCEPT !.sub = SortTree(@, keys)]], keys)

Rows(procs, s) ==
  IF s.group = << >> /\ s.leaf = "none" THEN <<HostTotal(procs, s.metrics)>>
  ELSE BuildRows(procs, s.group, s.leaf, s.metrics)
Limited(rows, n) == IF n > 0 /\ Len(rows) > n THEN SubSeq(rows, 1, n) ELSE rows
Selected(snapshot, s) == SelectProcesses(snapshot, s.select)
Filtered(rows, s) == IF s.having = NoExpr THEN rows ELSE ApplyHaving(rows, s.having)
Build(snapshot, s) ==
  Limited(SortTree(Filtered(Rows(Selected(snapshot, s), s), s), s.sort), s.limit)
==============================================================================
