------------------------------ MODULE MCObserve ------------------------------
(* Values for the constants of Observe. *)
EXTENDS Observe, TLC

MCLetters == {"K", "a", "b", "i", "n", "t", "o", "c", "s", "e", "x", "m", "g", "r", "u", "f", "l", "B"}
MCBytes == <<"\"", "0", "1", "2", "3", "?", "B", "K", "\\", "a", "app", "b", "comm", "h", "hostname", "namespace-set",
             "orphan", "pstate", "user">>
MCBadRegex == {<<"(">>}
Seqs(chars, n) == UNION {[1..k -> chars] : k \in 0..n}

\* Every text of up to four characters, and of up to five around a quote.
MCTexts == Seqs({"a", "1", "K", "B", "-", ".", "\"", "=", "!", "&", " "}, 3)
           \cup Seqs({"a", "1", "\"", "\\", "n", " "}, 5) \cup Seqs({"1", "K", "i", "B", "."}, 4)

a == <<"a">>
b == <<"b">>
Atoms == {Bare(Field(a)), Cmp("==", Field(a), Lit(Str(b))), Func("missing", b), Cmp("in", Field(a), ListOf(<<Field(b)>>))}
MoreAtoms ==
  Atoms \cup {Bare(Lit(Bool(TRUE))), Func("exists", a), Cmp("<", Field(b), Lit(Str(b))),
              Cmp("not in", Field(b), ListOf(<<Lit(Str(a)), Lit(Num(<<<<"1">>, <<"1000", "K">>>>))>>)),
              Cmp("~=", Field(a), Lit(Str(b))), Cmp("contains", ListOf(<<Field(a)>>), Field(b)),
              Cmp("!=", Field(b), Lit(Num(<<<<"1">>, << >>>>))), Cmp(">=", Lit(Str(a)), Field(b))}
Over(ts) == {Not(t) : t \in ts} \cup {And(l, r) : l \in ts, r \in ts} \cup {Or(l, r) : l \in ts, r \in ts}
MCTrees == MoreAtoms \cup Over(MoreAtoms) \cup Over(Atoms \cup Over(Atoms))
MCValues == {Str(a), Str(b), Num(<<<<"1">>, << >>>>), Bool(TRUE)}
MCEnvs == UNION {[fs -> MCValues] : fs \in SUBSET {a, b}}

-----------------------------------------------------------------------------
MCRegistry ==
  <<[id |-> "age",       aliases |-> {},                  agg |-> "max",   light |-> FALSE],
    [id |-> "cpu",       aliases |-> {},                  agg |-> "sum",   light |-> TRUE],
    [id |-> "disk-rbps", aliases |-> {"disk-read-bytes"}, agg |-> "sum",   light |-> FALSE],
    [id |-> "load1",     aliases |-> {},                  agg |-> "max",   light |-> FALSE],
    [id |-> "pnice",     aliases |-> {},                  agg |-> "mixed", light |-> TRUE]>>
MCProfiles == ("process" :> [metrics |-> <<"cpu", "age">>, columns |-> <<"target", "pid", "age">>,
                             sort |-> << >>, group |-> << >>, having |-> NoExpr])
              @@ ("io" :> [metrics |-> <<"disk-rbps">>, columns |-> << >>, sort |-> << [field |-> "disk-rbps", desc |-> TRUE] >>,
                           group |-> <<"user">>, having |-> NoExpr])
MCDimensions == {"user", "pstate", "comm", "name", "app", "namespace-set", "wchan", "hostname"}
MCRates == {"cpu", "disk-rbps"}
MCLayers == <<"config", "env", "args">>

Reading(m) == [ok |-> m # 0, v |-> m]
Proc(n, user, state, cpu, disk, age, threads) ==
  [key |-> n, nums |-> [pid |-> IF n = a THEN 1 ELSE 2, uid |-> 1],
   strs |-> [comm |-> a, name |-> a, user |-> user, state |-> state, pstate |-> state,
             wchan |-> << >>, hostname |-> << >>, container |-> << >>, app |-> << >>] @@ ("namespace-set" :> a),
   nice |-> Avail(1), netns |-> NA, numThreads |-> 1,
   metrics |-> [age |-> Reading(age), cpu |-> Reading(cpu), pnice |-> Reading(cpu)] @@ ("disk-rbps" :> Reading(disk)),
   threads |-> threads]
Thread(n, cpu) == [key |-> n, pid |-> 1, comm |-> b, state |-> b, metrics |-> [cpu |-> Reading(cpu)]]

\* Up to three processes: users that differ, repeat and are unknown, equal and
\* missing readings, one process with threads.
MCSnapshots ==
  {<< >>} \cup
  {<<Proc(a, u, a, c, 1, 2, <<Thread(<<"a", "a">>, 1), Thread(<<"a", "b">>, c)>>), Proc(b, v, s, 1, d, 0, << >>),
     Proc(<<"b", "b">>, a, s, 2, 2, 1, << >>)>> :
     u \in {a, << >>}, v \in {a, b, << >>}, s \in {a, b}, c \in {0, 2}, d \in {0, 2}}

Plain == [profile |-> "", overrides |-> << >>, columns |-> << >>, wide |-> FALSE, select |-> NoExpr, having |-> NoExpr,
          sort |-> << >>, group |-> << >>, leaf |-> "", number |-> 0]
By(f, d) == <<[field |-> f, desc |-> d]>>
Groups == {<< >>, <<"none">>, <<"user">>, <<"user", "pstate">>}
Sorts == {<< >>, By("cpu", TRUE), By("cpu", FALSE), By("age", TRUE), By("pnice", TRUE), By("target", FALSE) \o By("procs", TRUE),
          By("disk-rbps", TRUE) \o By("pid", TRUE)}
Havings == {NoExpr, Cmp(">", Field("cpu"), Lit(Num(1))), Cmp("==", Field("age"), Lit(Num(2))),
            And(Cmp("==", Field("kind"), Lit(Str("process"))), Cmp("<", Field("disk-rbps"), Lit(Num(2)))),
            Cmp("==", Field("user"), Lit(Str(a)))}
Selects == {NoExpr, Cmp("==", Field("user"), Lit(Str(a))), Cmp(">", Field("disk-rbps"), Lit(Num(1)))}
MCFlags ==
  {[Plain EXCEPT !.group = g, !.sort = s, !.having = h, !.leaf = l, !.number = n] :
     g \in Groups, s \in Sorts, h \in Havings, l \in {"", "none"}, n \in {0, 1}}
  \cup {[Plain EXCEPT !.group = g, !.select = e, !.leaf = l, !.profile = p] :
          g \in Groups \cup {<<"comm", "comm">>, <<"none", "user">>}, e \in Selects, l \in {"", "thread", "none"},
          p \in {"", "none", "process", "io"}}
  \cup {[Plain EXCEPT !.wide = w, !.columns = cs, !.overrides = o, !.leaf = "thread"] :
          w \in BOOLEAN, cs \in {<< >>, <<"age">>}, o \in {<< >>, <<[add |-> TRUE, id |-> "nosuch"]>>}}
-----------------------------------------------------------------------------
Preset(up) == IF up = "" THEN [group |-> <<"user">>] ELSE [extends |-> up, interval |-> 5]
Graphs3 == {[n \in {"p", "q", "r"} |-> Preset(g[n])] : g \in [{"p", "q", "r"} -> {"", "p", "q", "r", "gone"}]}
Orders == {<<"p", "q", "r">>, <<"r", "q", "p">>, <<"q", "p", "r">>}
Rule(e, rest) == <<[name |-> "web", selector |-> e] @@ rest>>
Rules ==
  {Rule(e, rest) : e \in Selects \cup {BadExpr, Not(Cmp(">", Field("cpu"), Lit(Num(1)))), Func("exists", "disk-read-bytes"),
                                       Cmp("==", Field("nice"), Lit(Num(1)))},
                   rest \in {[drift |-> ""], [drift |-> "adopt", control |-> [nice |-> 5]], [drift |-> "keep"], [view |-> [leaf |-> "none"]]}}
Blocks ==
  {NoRaw, [leaf |-> "thread", interval |-> 2], [leaf |-> "fiber"], [group |-> <<"user", "comm">>, collapse |-> TRUE, width |-> 9],
   [group |-> <<"user", "user">>], [interval |-> -1], [intervals |-> [cpu |-> 3]], [intervals |-> [cpu |-> -1]], [version |-> 2],
   [sort |-> <<[field |-> "cpu", dir |-> ""], [field |-> "age", dir |-> "desc"]>>, override |-> TRUE],
   [sort |-> <<[field |-> "cpu", dir |-> "up"]>>], [columns |-> <<"pid">>, history |-> TRUE, use |-> "never", dir |-> "d", socket |-> "s"],
   [metrics |-> [profile |-> "io", enable |-> <<"age">>]], [metrics |-> [disable |-> <<"gone">>]],
   [presets |-> [p |-> [leaf |-> "none", having |-> BadExpr]]],
   [presets |-> [p |-> [leaf |-> "none", columns |-> <<"pid">>, metrics |-> [profile |-> "all"], sort |-> <<[field |-> "cpu", dir |-> ""]>>,
                        having |-> Cmp(">", Field("procs"), Lit(Num(1)))]]]}
OrderOf(raw, o) == IF "presets" \in DOMAIN raw THEN SelectSeq(o, LAMBDA n : n \in DOMAIN raw.presets) ELSE << >>
MCRaws ==
  {[raw |-> r, order |-> OrderOf(r, <<"p", "q", "r">>)] :
     r \in Blocks \cup {[managed |-> m] @@ x : m \in Rules \cup {r1 \o r2 : r1, r2 \in Rules}, x \in {NoRaw, [leaf |-> "none"]}}}
  \cup {[raw |-> [presets |-> g], order |-> o] : g \in Graphs3, o \in Orders}
-----------------------------------------------------------------------------
Given1(vs) == {[given |-> FALSE, value |-> ""]} \cup {[given |-> TRUE, value |-> v] : v \in vs}
Tokens == {<< >>, <<"args">>, <<"args", "env">>, <<"env", "default", "args">>, <<"config", "env">>, <<"env", "env", "args", "config">>}
MCSettings ==
  UNION {[setting : {x[1]}, default : {x[2]}, file : BOOLEAN, raw : x[3], env : Given1(x[4]), args : Given1(x[4]), tokens : Tokens, parses : {x[5]}] :
    x \in {<<"leaf", "process", {NoRaw, [leaf |-> "none"]}, {"thread", "none"}, {"process", "thread", "none"}>>,
           <<"profile", "", {NoRaw, [metrics |-> [enable |-> <<"age">>]], [metrics |-> [profile |-> "io"]]}, {"all"}, {"", "io", "all"}>>,
           <<"format", "tree", {NoRaw}, {"wide", "odd"}, {"tree", "wide"}>>}}
  \cup [setting : {"width"}, default : {0}, file : BOOLEAN, raw : {NoRaw, [width |-> 7]}, env : {[given |-> FALSE, value |-> 0], [given |-> TRUE, value |-> 9]},
        args : {[given |-> FALSE, value |-> 0]}, tokens : Tokens, parses : {{0, 7}}]
MCLookups == [no : BOOLEAN, explicit : {"", "x"}, env : {"", "e"}, defaults : SUBSET {"home", "etc"}]
-----------------------------------------------------------------------------
MCHostMetrics == {"load1"}
MCCatalog == <<"age", "cpu", "hostname", "load1", "pstate", "target">>
\* What nobody types here is spelled with one character.
MCSpelling == ("age" :> <<"a">>) @@ ("cpu" :> <<"c", "u">>) @@ ("hostname" :> <<"n">>) @@ ("load1" :> <<"l">>)
              @@ ("pstate" :> <<"s", "t">>) @@ ("target" :> <<"t", "a">>)
              @@ [n \in FilterableColumns |-> <<n>>]

\* Five processes of two users, pid 3 twice: the second is another process.
Proc1(pid, key, comm, user, cpu, threads) ==
  [Proc(key, user, a, cpu, 0, 1, threads) EXCEPT !.nums.pid = pid, !.strs.comm = comm]
Full == <<Proc1(1, <<"1">>, a, a, 1, <<Thread(<<"1", "1">>, 1), Thread(<<"1", "2">>, 0)>>), Proc1(2, <<"2">>, b, b, 2, << >>),
          Proc1(3, <<"3">>, a, b, 0, << >>)>>
Other == <<Full[2], Proc1(3, <<"3", "0">>, b, b, 1, << >>)>>
Bind(p, n) == [pid |-> p.nums.pid, key |-> p.key, name |-> n]
Targets2 == <<[name |-> <<a, {3}>>, bind |-> {Bind(Full[3], a)}], [name |-> <<b, {}>>, bind |-> {Bind(Full[2], b), Bind(Full[3], b)}]>>

Sit(keys, events, flags, worlds) ==
  [keys |-> keys, events |-> events, flags |-> flags, filter |-> << >>, folded |-> FALSE, height |-> 6, worlds |-> worlds, targets |-> << >>]
Shown3 == [Plain EXCEPT !.columns = <<"target", "cpu", "pstate">>]
ByUser == [Shown3 EXCEPT !.group = <<"user">>]
MCSittings ==
  {Sit({"down", "pgdn", "up", "left", "right", "enter", "c", "p"}, 5, [ByUser EXCEPT !.leaf = l], {Full, Other, << >>}) : l \in {"", "thread"}}
  \cup {Sit({"g", "t", "s", "S", "-", "+", "down", "pgdn", "enter", "esc", "a", "backspace"}, 5, [Shown3 EXCEPT !.group = g], {Full}) :
          g \in {<< >>, <<"namespace-set", "comm">>}}
  \cup {[Sit({"/", "tab", "enter", "1", "left", "ctrl-left", "ctrl-right", "up", "esc", "delete", "c", "&"}, 6, Shown3, {Full})
           EXCEPT !.filter = <<"s", "t", "=", "=", "\"", "a", "\"">>],
        Sit({"?", "pgdn", "i", "up", "tab", "q", "u"}, 4, ByUser, {Other})}
  \cup {[Sit({"down", "n", "x", "1", "enter", "y", "v", "esc", "tab", "d"}, 6, [ByUser EXCEPT !.leaf = x[1]], {Full, Other}) EXCEPT !.targets = x[2]] :
          x \in {<<"thread", << >>>>, <<"", Targets2>>}}
==============================================================================
