------------------------------- MODULE Config -------------------------------
(***************************************************************************)
(* The configuration file of internal/config (decode, normalise, validate, *)
(* encode, discover) and the layers a view setting is resolved through in  *)
(* internal/app.                                                           *)
(*                                                                         *)
(* A raw block, as decoded, is a function on the keys the file gives; the  *)
(* strict decoders have refused unknown and duplicate keys and wrong types *)
(* before.  A duration is its number of seconds, negative when it is       *)
(* negative or does not parse.  A selector or a having expression is a     *)
(* tree of Expr, NoExpr when empty and BadExpr when it does not compile.   *)
(*                                                                         *)
(* The package knows nothing of metrics and queries: what it asks about    *)
(* them are the functions of its Validator, parameters here as there.      *)
(***************************************************************************)
EXTENDS Basics

CONSTANTS HasMetric(_), HasDimension(_), KnownProfile(_), IsRateField(_),
          EntityFields,  \* the fields a selector may read
          FieldsOf(_),   \* the fields an expression reads
          Layers,        \* the layers a setting can come from, lowest first, without "default"
          Raws,          \* [raw, order]: a decoded file and the order its presets are visited in
          Settings,      \* [setting, file, raw, env, args, default, tokens, parses]
          Lookups        \* [no, explicit, env, defaults]

VARIABLES task, answer

BadExpr == [node |-> "bad"]
NoRaw == [k \in {} |-> 0]
Get(raw, key, default) == IF key \in DOMAIN raw THEN raw[key] ELSE default
Listed(s) == s \in Seq(Elems(s))

\* What is decoded has its type, every preset is visited, and no other layer is named.
ASSUME ConfigAssumption ==
  /\ \A x \in Raws :
       LET presets == Get(x.raw, "presets", NoRaw)
           intervals == Get(x.raw, "intervals", NoRaw)
       IN  /\ Listed(Get(x.raw, "sort", << >>)) /\ Listed(Get(x.raw, "managed", << >>))
           /\ intervals \in [DOMAIN intervals -> Int] /\ Get(x.raw, "collapse", FALSE) \in BOOLEAN
           /\ \A n \in DOMAIN presets : Listed(Get(presets[n], "sort", << >>))
           /\ Listed(x.order) /\ Elems(x.order) = DOMAIN presets
  /\ Layers \in Seq({"config", "env", "args"})
  /\ \A x \in Settings : /\ DOMAIN x = {"setting", "file", "raw", "env", "args", "default", "tokens", "parses"}
                         /\ x.file \in BOOLEAN /\ x.tokens \in Seq({"default", "config", "env", "args"})
OptDuration(raw) == "interval" \in DOMAIN raw => raw.interval >= 0
-----------------------------------------------------------------------------
(* Normalisation: defaults for absent keys.                                *)

\* Mutant: the profile, too, is filled in.
NormalizeMetricsProfile(m) ==
  [profile |-> Get(m, "profile", "process"), enable |-> Get(m, "enable", << >>), disable |-> Get(m, "disable", << >>)]
NormalizeMetrics(m) ==
  [profile |-> Get(m, "profile", ""), enable |-> Get(m, "enable", << >>), disable |-> Get(m, "disable", << >>)]
NormalizeSort(keys) ==
  [i \in 1..Len(keys) |-> [field |-> keys[i].field,
                           dir   |-> IF keys[i].dir = "" THEN "asc" ELSE keys[i].dir]]
NormalizePreset(p) ==
  [extends |-> Get(p, "extends", ""), interval |-> Get(p, "interval", 0),
   group |-> Get(p, "group", << >>), leaf |-> Get(p, "leaf", ""), columns |-> Get(p, "columns", << >>),
   having |-> Get(p, "having", NoExpr), metrics |-> NormalizeMetrics(Get(p, "metrics", NoRaw)),
   sort |-> NormalizeSort(Get(p, "sort", << >>))]
NormalizeManaged(m) ==
  [name |-> m.name, selector |-> m.selector, drift |-> Get(m, "drift", "report"),
   view |-> Get(m, "view", NoRaw), hasControl |-> "control" \in DOMAIN m, control |-> Get(m, "control", NoRaw)]

DurationsOK(raw) ==
  /\ OptDuration(raw)
  /\ LET ps == Get(raw, "presets", NoRaw) IN \A n \in DOMAIN ps : OptDuration(ps[n])
  /\ LET is == Get(raw, "intervals", NoRaw) IN \A n \in DOMAIN is : is[n] >= 0

Normalize(raw) ==
  LET presets == Get(raw, "presets", NoRaw)
      managed == Get(raw, "managed", << >>)
  IN  [version |-> Get(raw, "version", 1), interval |-> Get(raw, "interval", 0),
       group |-> Get(raw, "group", << >>), leaf |-> Get(raw, "leaf", "process"),
       columns |-> Get(raw, "columns", << >>), intervals |-> Get(raw, "intervals", NoRaw),
       metrics |-> NormalizeMetrics(Get(raw, "metrics", NoRaw)), sort |-> NormalizeSort(Get(raw, "sort", << >>)),
       dir |-> Get(raw, "dir", ""), history |-> Get(raw, "history", FALSE),
       use |-> Get(raw, "use", "auto"), socket |-> Get(raw, "socket", ""),
       presets |-> [n \in DOMAIN presets |-> NormalizePreset(presets[n])],
       managed |-> [i \in 1..Len(managed) |-> NormalizeManaged(managed[i])],
       width |-> Get(raw, "width", 0), collapse |-> Get(raw, "collapse", FALSE),
       override |-> Get(raw, "override", FALSE)]
-----------------------------------------------------------------------------
(* Validation.                                                             *)

ValidLeaf == {"process", "thread", "none"}
ValidDrift == {"report", "reapply", "adopt", "ignore"}
ValidUse == {"auto", "require", "never"}

ValidGroupBy(group) ==
  \/ group \in {<< >>, <<"none">>}
  \/ S!IsInjective(group) /\ \A d \in Elems(group) : d # "none" /\ HasDimension(d)
ValidMetrics(m) ==
  /\ m.profile = "" \/ KnownProfile(m.profile)
  /\ \A id \in Elems(m.enable) \cup Elems(m.disable) : HasMetric(id)
ValidSort(keys) == \A k \in Elems(keys) : k.field # "" /\ k.dir \in {"asc", "desc"}

Colors == {"white", "gray", "black"}
Unseen(presets) == [n \in DOMAIN presets |-> "white"]
\* The depth-first search of the preset graph: a parent still open is a cycle.
Visit(presets) ==
  LET visit[s \in [at : DOMAIN presets, color : [DOMAIN presets -> Colors]]] ==
        LET parent == presets[s.at].extends
            open == [s.color EXCEPT ![s.at] = "gray"]
            closed == [ok |-> TRUE, color |-> [open EXCEPT ![s.at] = "black"]]
            refused == [ok |-> FALSE, color |-> s.color]
        IN  IF parent = "" THEN closed
            ELSE IF parent \notin DOMAIN presets \/ open[parent] = "gray" THEN refused
            ELSE IF open[parent] = "black" THEN closed
            ELSE LET up == visit[[at |-> parent, color |-> open]]
                 IN  IF up.ok THEN [up EXCEPT !.color[s.at] = "black"] ELSE refused
  IN  visit
\* Mutant: one search, from the first preset.
PresetGraphOKFirst(presets, order) ==
  order = << >> \/ Visit(presets)[[at |-> order[1], color |-> Unseen(presets)]].ok
\* The search starts from the presets in the order the map yields them.
PresetGraphOK(presets, order) ==
  S!FoldLeft(LAMBDA s, n : IF s.ok /\ s.color[n] = "white" THEN Visit(presets)[[at |-> n, color |-> s.color]] ELSE s,
             [ok |-> TRUE, color |-> Unseen(presets)], order).ok

ValidPresets(presets, order) ==
  /\ \A n \in DOMAIN presets :
       /\ presets[n].leaf \in ValidLeaf \cup {""}
       /\ ValidGroupBy(presets[n].group)
       /\ ValidMetrics(presets[n].metrics)
       /\ presets[n].having # BadExpr
  /\ PresetGraphOK(presets, order)

ValidSelector(e) ==
  /\ e \notin {NoExpr, BadExpr}
  /\ \A f \in FieldsOf(e) : ~IsRateField(f) /\ f \in EntityFields
ValidManaged(rules) ==
  /\ \A i, j \in 1..Len(rules) : rules[i].name = rules[j].name => i = j
  /\ \A r \in Elems(rules) : /\ r.name # ""
                             /\ r.drift \in ValidDrift \cup {""}
                             /\ ValidSelector(r.selector)

ValidConfig(c, order) ==
  /\ c.version = 1 /\ c.leaf \in ValidLeaf /\ c.width >= 0 /\ c.use \in ValidUse
  /\ ValidGroupBy(c.group)
  /\ ValidMetrics(c.metrics) /\ ValidSort(c.sort)
  /\ ValidPresets(c.presets, order) /\ ValidManaged(c.managed)

\* Load: the configuration, or refusal.
Loads(raw, order) == DurationsOK(raw) /\ ValidConfig(Normalize(raw), order)
-----------------------------------------------------------------------------
(* Encoding: empty values are left out.                                    *)

EncodeMetrics(m) == m.profile # "" \/ m.enable # << >> \/ m.disable # << >>
Encoded(r, given) == [k \in given |-> r[k]]
Given(r, strings, seqs, ints) ==
  {k \in strings : r[k] # ""} \cup {k \in seqs : r[k] # << >>} \cup {k \in ints : r[k] # 0}

\* Mutant: the metrics of a preset are not written.
EncodePresetView(p) ==
  Encoded(p, Given(p, {"extends", "leaf"}, {"group", "columns", "sort"}, {"interval"})
             \cup (IF p.having = NoExpr THEN {} ELSE {"having"}))
EncodePreset(p) ==
  Encoded(p, Given(p, {"extends", "leaf"}, {"group", "columns", "sort"}, {"interval"})
             \cup (IF p.having = NoExpr THEN {} ELSE {"having"})
             \cup (IF EncodeMetrics(p.metrics) THEN {"metrics"} ELSE {}))
EncodeManaged(m) ==
  Encoded(m, {"name", "selector"} \cup (IF m.drift = "" THEN {} ELSE {"drift"})
             \cup (IF m.hasControl THEN {"control"} ELSE {}))
ToOut(c) ==
  LET whole == {"version", "history"}
      given == whole \cup Given(c, {"leaf", "dir", "use", "socket"}, {"group", "columns", "sort"}, {"interval", "width"})
               \cup (IF EncodeMetrics(c.metrics) THEN {"metrics"} ELSE {})
               \cup (IF DOMAIN c.intervals = {} THEN {} ELSE {"intervals"})
               \cup (IF DOMAIN c.presets = {} THEN {} ELSE {"presets"})
               \cup (IF c.managed = << >> THEN {} ELSE {"managed"})
               \cup (IF c.collapse THEN {"collapse"} ELSE {})
  IN  [k \in given |->
         CASE k = "presets" -> [n \in DOMAIN c.presets |-> EncodePreset(c.presets[n])]
           [] k = "managed" -> [i \in 1..Len(c.managed) |-> EncodeManaged(c.managed[i])]
           [] OTHER         -> c[k]]
-----------------------------------------------------------------------------
(* Which file, and which layer.                                            *)

\* A command's answer to --config PATH, $PROCFIT_CONFIG and the default files.
NoFile == ""
Refused == "refused"
Discover(noConfig, explicit, envValue, defaults) ==
  IF noConfig THEN NoFile
  ELSE IF explicit # "" THEN explicit
  ELSE IF envValue # "" THEN envValue
  ELSE CASE defaults = {}               -> NoFile
         [] Cardinality(defaults) = 1   -> CHOOSE f \in defaults : TRUE
         [] OTHER                       -> Refused
\* ps, stat, tui and config dump; config check; the daemon.
ViewFile(noConfig, explicit, envValue, defaults) == Discover(noConfig, explicit, envValue, defaults)
CheckFile(explicit, defaults) == Discover(FALSE, explicit, "", defaults)
DaemonFile(defaults) == Discover(FALSE, "", "", defaults)

\* --config-precedence: known tokens once each, above the default; empty means all layers.
Precedence(tokens) ==
  IF tokens = << >> THEN Layers
  ELSE S!FoldLeft(LAMBDA out, t : IF t = "default" THEN out ELSE AddOnce(out, t), << >>, tokens)

\* What the catalog reads from a loaded file: normalisation has filled the
\* leaf in, so a file that does not give it provides one all the same.
FromConfig(setting, c) ==
  CASE setting = "group-by" -> [given |-> c.group # << >>, value |-> c.group]
    [] setting = "columns"  -> [given |-> c.columns # << >>, value |-> c.columns]
    [] setting = "leaf"     -> [given |-> c.leaf # "", value |-> c.leaf]
    [] setting = "sort"     -> [given |-> c.sort # << >>, value |-> c.sort]
    [] setting = "profile"  -> [given |-> c.metrics.profile # "", value |-> c.metrics.profile]
    [] setting = "width"    -> [given |-> c.width > 0, value |-> c.width]
    [] setting = "collapse" -> [given |-> c.collapse, value |-> TRUE]
    [] OTHER                -> [given |-> FALSE, value |-> ""]

\* What each layer says of a setting; x holds the layers other than the file.
\* Without a file, none found or --no-config, the zero configuration is read,
\* whose leaf is empty.
Unsaid == [given |-> FALSE, value |-> ""]
LayersOf(x) == [default |-> [given |-> TRUE, value |-> x.default], env |-> x.env, args |-> x.args,
                config |-> IF x.file THEN FromConfig(x.setting, Normalize(x.raw)) ELSE Unsaid]
\* layers maps each layer to [given, value].  fs.Set leaves the zero value, the
\* default of every typed flag, when the text does not parse; its error is ignored.
Winner(layers, order) ==
  LET givers == {i \in 1..Len(order) : layers[order[i]].given}
  IN  IF givers = {} THEN "default" ELSE order[FS!Max(givers)]
Effective(layers, order, parses) ==
  LET w == Winner(layers, order)
      parsed == IF layers["args"].given THEN "args" ELSE "default"
  IN  IF w \notin {"config", "env"} THEN layers[parsed].value
      ELSE IF layers[w].value \in parses THEN layers[w].value
      ELSE layers["default"].value
Resolved(x) ==
  LET order == Precedence(x.tokens)
      layers == LayersOf(x)
  IN  [source |-> Winner(layers, order), value |-> Effective(layers, order, x.parses)]
-----------------------------------------------------------------------------
(* A task is a configuration to load, a setting to resolve or a file to    *)
(* look for; it is answered once.                                          *)

Task(kind, args) == [kind |-> kind, args |-> args]
Pending == [done |-> FALSE]
Done(a) == [done |-> TRUE, is |-> a]
Answers(kind, a) == /\ task.kind = kind
                    /\ answer = Pending
                    /\ answer' = Done(a)
                    /\ UNCHANGED task

Read == \/ \E x \in Raws     : task = Task("config", x)
        \/ \E x \in Settings : task = Task("setting", x)
        \/ \E x \in Lookups  : task = Task("lookup", x)
Load == Answers("config", Loads(task.args.raw, task.args.order))
Settle == Answers("setting", Resolved(task.args))
Locate == Answers("lookup", ViewFile(task.args.no, task.args.explicit, task.args.env, task.args.defaults))
Configured == Read /\ answer = Pending /\ [][Load \/ Settle \/ Locate]_<<task, answer>>
-----------------------------------------------------------------------------
Answered(kind) == task.kind = kind /\ answer.done

\* What the output format holds of a configuration: the view of a managed rule
\* and allow_builtin_preset_override are not written, an empty drift is the default.
WritableRule(m) == [m EXCEPT !.view = NoRaw, !.drift = IF @ = "" THEN "report" ELSE @]
Writable(c) ==
  [k \in DOMAIN c |->
     CASE k = "override" -> FALSE
       [] k = "managed"  -> [i \in 1..Len(c.managed) |-> WritableRule(c.managed[i])]
       [] OTHER          -> c[k]]

(* A configuration written out by convert or dump loads again, and to the  *)
(* same values but for what the output format has no place for.            *)
ConvertReloads ==
  Answered("config") /\ answer.is =>
    LET c == Normalize(task.args.raw)
    IN  Loads(ToOut(c), task.args.order) /\ Normalize(ToOut(c)) = Writable(c)

(* Whatever the order the map yields the presets in, they are refused when *)
(* a parent does not exist or a chain of parents comes back, and only then:*)
(* a chain that comes back is a set of presets with all their parents.     *)
PresetCyclesRefused ==
  Answered("config") =>
    LET presets == Normalize(task.args.raw).presets
        names == DOMAIN presets
        Parent(n) == {presets[n].extends} \ {""}
    IN  PresetGraphOK(presets, task.args.order) <=>
          /\ \A n \in names : Parent(n) \subseteq names
          /\ \A round \in (SUBSET names) \ {{}} : \E n \in round : Parent(n) \cap round = {}

\* Whether a file mentions a setting.
Mentions(raw, setting) ==
  CASE setting = "group-by" -> "group" \in DOMAIN raw
    [] setting = "profile"  -> "profile" \in DOMAIN Get(raw, "metrics", NoRaw)
    [] OTHER                -> setting \in DOMAIN raw

(* Loading a file that does not mention a setting changes neither the      *)
(* value of the setting nor the source --show-config names for it, however *)
(* the layers are ordered: what normalisation fills in is not taken for    *)
(* something the file says.  The leaf is left out: the code departs there. *)
SilentFileUnheard ==
  Answered("setting") =>
    LET x == task.args
    IN  x.setting # "leaf" /\ ~Mentions(x.raw, x.setting) => answer.is = Resolved([x EXCEPT !.file = FALSE])
==============================================================================
