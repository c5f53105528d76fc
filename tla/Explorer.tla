------------------------------- MODULE Explorer ------------------------------
(***************************************************************************)
(* The interactive explorer: internal/tui with the callbacks internal/app  *)
(* gives it.  One loop takes a key, a tick of the refresh timer or a       *)
(* resize, hands the key to the Model, and queries again when the key made *)
(* the screen dirty.                                                       *)
(*                                                                         *)
(* ui is the Model; cursors and offsets count from 0 as in the code.  The  *)
(* code's flags for its overlays and prompts are the one field modal (the  *)
(* preview is only there while a confirmation is).  Left out: the status   *)
(* texts, column widths, units and the length of the refresh interval.     *)
(*                                                                         *)
(* What a query answers, the rows a tree has when some are folded, and     *)
(* what the filter language accepts are parameters; Screen has the ones    *)
(* the program uses.  Nothing here depends on how they compute.            *)
(***************************************************************************)
EXTENDS Targets

CONSTANTS HostMetrics, \* the ids of Registry that are host-scoped
          Catalog,     \* what the column picker offers, in order
          Spelling,    \* the characters of every name that can be typed
          HelpLines,   \* how long the key map is
          Sittings,    \* [keys, events, flags, filter, folded, height, worlds, targets]: bounds
          Sortable, Filterable, Groupable, \* the columns one can sort, filter and group by
          Numeric,            \* the fields that are compared as numbers
          Folded(_, _),       \* of the folds and a path: is the node there folded
          RowsToSee(_),       \* of a tree and its folds: the rows there are to see, in order
          PidsBelow(_),       \* the pids of the processes at and below a row
          Compiles(_, _),     \* of a model and a text: is it a filter of the columns shown
          RefusesFlags(_),    \* does the query refuse the flags of a model
          Queried(_, _, _)    \* of a model, the processes and the targets: [tree, cols, host]
ASSUME ExplorerAssumption ==
  /\ \A s \in Sittings : s.keys \subseteq STRING /\ s.filter \in Seq(STRING) /\ s.height \in Int
  /\ HelpLines \in Nat /\ Catalog \in Seq(STRING)
  /\ Filterable \cup {"target"} \subseteq DOMAIN Spelling
  /\ \A n \in DOMAIN Spelling : Spelling[n] \in Seq(STRING)

VARIABLES ui,       \* the Model
          world,    \* the processes there are
          targets,  \* the targets of the state file, in order: [name, bind]
          sitting,  \* what may happen in this session
          left,     \* how many keys and other events are still to come
          applied,  \* history: the last control action that was not a dry run, on which pids
          chosen    \* history: the selection and the screen when an action was asked for
screen == <<ui, world, targets, sitting, left, applied, chosen>>

Runes(m) == m \notin {"up", "down", "left", "right", "pgup", "pgdn", "home", "end", "enter", "esc", "tab",
                      "backspace", "delete", "ctrl-c", "ctrl-left", "ctrl-right"}
\* Into lo..hi, and lo when there is nothing between the two.
Clamp(v, lo, hi) == IF v > hi THEN IF hi < lo THEN lo ELSE hi ELSE IF v < lo THEN lo ELSE v
TrimSpace(s) ==
  LET solid == {i \in 1..Len(s) : s[i] \notin Spaces}
  IN  IF solid = {} THEN << >> ELSE SubSeq(s, FS!Min(solid), FS!Max(solid))
-----------------------------------------------------------------------------
(* The rows there are to see, and the cursor among them.                   *)

Visible(m) == RowsToSee([tree |-> m.tree, folds |-> m.folds, foldDefault |-> m.foldDefault])
HasGroups(m) == \E r \in Elems(m.tree) : r.kind \in {"group", "host"}
AtRow(m) == m.cursor < Len(Visible(m))
Current(m) == Visible(m)[m.cursor + 1]

\* Host metrics take a line (they fit on one here) and a blank one.
BodyHeight(m) == FS!Max({1, m.height - 3 - (IF m.host = {} THEN 0 ELSE 2)})
Follow(cursor, scroll, body) ==
  IF cursor < scroll THEN cursor ELSE IF cursor >= scroll + body THEN cursor - body + 1 ELSE scroll
ClampScroll(m) == [m EXCEPT !.scroll = Follow(m.cursor, @, BodyHeight(m))]
MoveCursor(m, by) == ClampScroll([m EXCEPT !.cursor = Clamp(@ + by, 0, Len(Visible(m)) - 1)])
RebuildRows(m) == MoveCursor(m, 0)

SetCollapsed(m, path, v) == RebuildRows([m EXCEPT !.folds = (path :> v) @@ @])
FoldAll(m, v) == IF HasGroups(m) THEN RebuildRows([m EXCEPT !.foldDefault = v, !.folds = << >>]) ELSE m
ToggleCollapse(m) ==
  IF AtRow(m) /\ Current(m).kids THEN SetCollapsed(m, Current(m).path, ~Folded(m, Current(m).path)) ELSE m
\* Mutant: the cursor moves and the offset does not follow.
MoveToParentUnseen(m) ==
  LET above == {i \in 1..m.cursor : Visible(m)[i].depth < Current(m).depth}
  IN  IF above = {} THEN m ELSE [m EXCEPT !.cursor = FS!Max(above) - 1]
MoveToParent(m) ==
  LET above == {i \in 1..m.cursor : Visible(m)[i].depth < Current(m).depth}
  IN  IF above = {} THEN m ELSE ClampScroll([m EXCEPT !.cursor = FS!Max(above) - 1])
CollapseOrParent(m) ==
  IF ~AtRow(m) THEN m
  ELSE IF Current(m).kids /\ ~Folded(m, Current(m).path) THEN SetCollapsed(m, Current(m).path, TRUE)
  ELSE MoveToParent(m)
ExpandOrChild(m) ==
  IF ~AtRow(m) \/ ~Current(m).kids THEN m
  ELSE IF Folded(m, Current(m).path) THEN SetCollapsed(m, Current(m).path, FALSE)
  ELSE MoveCursor(m, 1)
-----------------------------------------------------------------------------
(* Grouping, sorting and the columns shown: each change asks for a query.  *)

Dirty(m) == [m EXCEPT !.dirty = TRUE]
ToTop(m) == [m EXCEPT !.cursor = 0, !.scroll = 0]
GroupPresets == <<<<"none">>, <<"comm">>, <<"name">>, <<"user">>, <<"app">>, <<"namespace-set", "comm">>>>
\* Mutant: offers to group by what can be filtered by.
GroupCycleFiltered(m) ==
  S!FoldLeft(LAMBDA out, c : IF c \in Filterable THEN AddOnce(out, <<c>>) ELSE out, GroupPresets, m.cols)
GroupCycle(m) ==
  S!FoldLeft(LAMBDA out, c : IF c \in Groupable THEN AddOnce(out, <<c>>) ELSE out, GroupPresets, m.cols)
CycleGroup(m) ==
  LET cycle == GroupCycle(m)
      at == {i \in 1..Len(cycle) : cycle[i] = m.flags.group}
      cur == IF at = {} THEN 1 ELSE FS!Min(at)
  IN  Dirty(ToTop([m EXCEPT !.flags.group = cycle[(cur % Len(cycle)) + 1]]))
LeafModes == <<"process", "thread", "none">>
CycleLeaf(m) ==
  LET ix == (m.leafIx + 1) % 3 IN Dirty(ToTop([m EXCEPT !.leafIx = ix, !.flags.leaf = LeafModes[ix + 1]]))

\* Go panics on an index out of range.
ApplySort(m) ==
  IF m.cols = << >> THEN m
  ELSE IF m.sortIx >= Len(m.cols) THEN [m EXCEPT !.run = "panicked"]
  ELSE Dirty([m EXCEPT !.flags.sort = <<[field |-> m.cols[m.sortIx + 1], desc |-> m.sortDsc]>>])
CycleSort(m) ==
  LET n == Len(m.cols)
      next == {i \in 1..n : m.cols[((m.sortIx + i) % n) + 1] \in Sortable}
  IN  IF next = {} THEN m ELSE ApplySort([m EXCEPT !.sortIx = (@ + FS!Min(next)) % n])
ToggleSortDir(m) == ApplySort([m EXCEPT !.sortDsc = ~@])

RemoveColumn(m, id) ==
  LET rest == SelectSeq(m.cols, LAMBDA c : c # id)
  IN  IF id = "target" \/ rest = << >> THEN m ELSE Dirty([m EXCEPT !.flags.columns = rest])
RemoveLastColumn(m) == IF m.cols = << >> THEN m ELSE RemoveColumn(m, m.cols[Len(m.cols)])
AppendColumn(m, id) == Dirty([m EXCEPT !.flags.columns = Append(m.cols, id)])
Shown(m) == Elems(m.cols) \cup m.host
ToggleSystemMetric(m, id) ==
  Dirty([m EXCEPT !.flags.overrides =
    Append(SelectSeq(@, LAMBDA o : o.id # id), [add |-> id \notin Shown(m), id |-> id])])

\* The picker: the catalog narrowed by what is typed.
Choices(m) == {i \in 1..Len(Catalog) : Occurs(TrimSpace(m.picker.filter), Spelling[Catalog[i]])}
Highlighted(m) == CHOOSE i \in Choices(m) : Cardinality({j \in Choices(m) : j < i}) = m.picker.cursor
PickerHeight(m) == FS!Max({1, m.height - 2})
MovePicker(m, by) ==
  LET c == Clamp(m.picker.cursor + by, 0, Cardinality(Choices(m)) - 1)
  IN  [m EXCEPT !.picker.cursor = c, !.picker.scroll = Follow(c, @, PickerHeight(m))]
Narrow(m, filter) == [m EXCEPT !.picker = [filter |-> filter, cursor |-> 0, scroll |-> 0]]
ToggleColumn(m) ==
  IF m.picker.cursor >= Cardinality(Choices(m)) THEN m
  ELSE LET id == Catalog[Highlighted(m)]
       IN  IF id \in HostMetrics THEN ToggleSystemMetric(m, id)
           ELSE IF id \in Shown(m) THEN RemoveColumn(m, id) ELSE AppendColumn(m, id)
ColKey(m, k) ==
  CASE k \in {"esc", "ctrl-c"} -> [m EXCEPT !.modal = "none"]
    [] k = "enter" -> ToggleColumn(m)
    [] k = "up"    -> MovePicker(m, -1)
    [] k = "down"  -> MovePicker(m, 1)
    [] k = "pgup"  -> MovePicker(m, -PickerHeight(m))
    [] k = "pgdn"  -> MovePicker(m, PickerHeight(m))
    [] k = "backspace" -> IF m.picker.filter = << >> THEN m ELSE Narrow(m, S!Front(m.picker.filter))
    [] Runes(k)    -> Narrow(m, Append(m.picker.filter, k))
    [] OTHER       -> m
-----------------------------------------------------------------------------
(* The filter line: an editor with a history and suggestions.              *)

WordAt(s, i) == i \in 1..Len(s) /\ s[i] \notin Spaces
\* The starts and the ends of the words of a line.
WordStarts(s) == {i \in 1..Len(s) : WordAt(s, i) /\ ~WordAt(s, i - 1)}
WordEnds(s) == {i \in 1..Len(s) : WordAt(s, i) /\ ~WordAt(s, i + 1)}
WordLeft(s, pos) == FS!Max({0} \cup {i - 1 : i \in {j \in WordStarts(s) : j <= pos}})
WordRight(s, pos) == FS!Min({Len(s)} \cup {i \in WordEnds(s) : i > pos})

Operators(field) ==
  IF field \in {Spelling[n] : n \in Numeric \cap DOMAIN Spelling}
  THEN <<OpText("=="), OpText("!="), OpText(">"), OpText("<"), OpText(">="), OpText("<="), In>>
  ELSE <<OpText("=="), OpText("!="), OpText("~="), ContainsWord, In>>

Buffer(m, text, pos) == [m EXCEPT !.edit = text, !.pos = pos]
Before(m) == SubSeq(m.edit, 1, m.pos)
Behind(m) == SubSeq(m.edit, m.pos + 1, Len(m.edit))
\* Past the newest entry is an empty line.
HistoryMove(m, by) ==
  LET ix == Clamp(m.histIx + by, 0, Len(m.hist))
      text == IF ix = Len(m.hist) THEN << >> ELSE m.hist[ix + 1]
  IN  Buffer([m EXCEPT !.histIx = ix], text, Len(text))

\* What is being typed: the clause since the last && or ||, the words of it that are
\* complete, and the one at the cursor.
Completion(m) ==
  LET head == Before(m)
      joints == {i \in 2..Len(head) : SubSeq(head, i - 1, i) \in {<<"&", "&">>, <<"|", "|">>}}
      clause == FS!Max({0} \cup joints)
      start == FS!Max({clause} \cup {i \in (clause + 1)..Len(head) : head[i] = " "})
      prior == SubSeq(head, clause + 1, start)
      first == FS!Min({Len(prior) + 1} \cup WordStarts(prior))
      field == SubSeq(prior, first, FS!Min({Len(prior)} \cup WordEnds(prior)))
      offered ==
        CASE WordStarts(prior) = {} -> [i \in {j \in 1..Len(m.cols) : m.cols[j] \in Filterable} |-> Spelling[m.cols[i]]]
          [] Cardinality(WordStarts(prior)) = 1 -> Operators(field)
          [] OTHER -> << >>
      fits == {i \in DOMAIN offered : S!IsPrefix(SubSeq(head, start + 1, Len(head)), offered[i])}
  IN  [start   |-> start,
       suggest |-> {offered[i] : i \in {j \in fits : \A k \in fits : j <= k}}, \* the first that fits, if any does
       fills   |-> joints # {} \/ WordStarts(prior) # {}]
ApplySuggestion(m, c) ==
  LET word == CHOOSE w \in c.suggest : TRUE
      text == SubSeq(m.edit, 1, c.start) \o word \o <<" ">>
  IN  Buffer(m, text \o Behind(m), Len(text))

\* One word is a search of the target.
BareSearch(s) ==
  IF \/ \E i \in 1..Len(s) : s[i] \in Spaces \cup Quotes \cup {"=", "<", ">", "~", "!", "(", ")", "[", "]"}
     \/ \E i \in 2..Len(s) : SubSeq(s, i - 1, i) \in {<<"&", "&">>, <<"|", "|">>}
  THEN s
  ELSE Spelling["target"] \o <<" ", "~", "=", " ", "\"">> \o AnyCase \o s \o <<"\"">>

StartFilter(m) == Buffer([m EXCEPT !.modal = "edit", !.histIx = Len(m.hist)], m.filter, Len(m.filter))
PushHistory(m, s) ==
  LET hist == IF m.hist # << >> /\ S!Last(m.hist) = s THEN m.hist ELSE Append(m.hist, s)
  IN  [m EXCEPT !.hist = hist, !.histIx = Len(hist)]
FilterBy(m, s) ==
  IF s = << >> THEN Dirty([m EXCEPT !.modal = "none", !.filter = << >>])
  ELSE IF Compiles(m, BareSearch(s))
  THEN PushHistory(Dirty([m EXCEPT !.modal = "none", !.filter = BareSearch(s)]), s)
  ELSE m
ApplyFilter(m) == FilterBy(m, TrimSpace(m.edit))
EditKey(m, k) ==
  CASE k = "left"       -> Buffer(m, m.edit, Clamp(m.pos - 1, 0, m.pos))
    [] k = "right"      -> Buffer(m, m.edit, Clamp(m.pos + 1, 0, Len(m.edit)))
    [] k = "home"       -> Buffer(m, m.edit, 0)
    [] k = "end"        -> Buffer(m, m.edit, Len(m.edit))
    [] k = "ctrl-left"  -> Buffer(m, m.edit, WordLeft(m.edit, m.pos))
    [] k = "ctrl-right" -> Buffer(m, m.edit, WordRight(m.edit, m.pos))
    [] k = "up"         -> HistoryMove(m, -1)
    [] k = "down"       -> HistoryMove(m, 1)
    [] k = "enter"      -> LET c == Completion(m) IN IF c.fills /\ c.suggest # {} THEN ApplySuggestion(m, c) ELSE ApplyFilter(m)
    [] k = "tab"        -> LET c == Completion(m) IN IF c.suggest # {} THEN ApplySuggestion(m, c) ELSE m
    [] k \in {"esc", "ctrl-c"} -> [m EXCEPT !.modal = "none"]
    [] k = "backspace"  -> IF m.pos = 0 THEN m ELSE Buffer(m, S!Front(Before(m)) \o Behind(m), m.pos - 1)
    [] k = "delete"     -> IF Behind(m) = << >> THEN m ELSE Buffer(m, Before(m) \o Tail(Behind(m)), m.pos)
    [] Runes(k)         -> Buffer(m, Append(Before(m), k) \o Behind(m), m.pos + 1)
    [] OTHER            -> m
-----------------------------------------------------------------------------
(* Control: a selection, a value, a preview, a confirmation.               *)

ControlKeys == [k \in {"n", "N", "x", "X", "z", "Z"} |->
                  CASE k = "n" -> "nice" [] k = "N" -> "restore-nice" [] k = "x" -> "stop"
                    [] k = "X" -> "continue" [] k = "z" -> "freeze" [] k = "Z" -> "thaw"]
BeginConfirm(m) == IF CanControl(targets, world, m.pending.pids) THEN [m EXCEPT !.modal = "confirm"] ELSE m
StartControl(m, kind) ==
  LET pids == PidsBelow(Current(m).row)
      asked == [m EXCEPT !.pending = [pids |-> pids, label |-> Current(m).row.label, kind |-> kind, nice |-> 0]]
  IN  IF ~AtRow(m) \/ pids = {} THEN m
      ELSE IF kind = "nice" THEN [asked EXCEPT !.modal = "nice", !.number = << >>]
      ELSE IF CanControl(targets, world, pids) THEN BeginConfirm(asked) ELSE m

Digits == <<"0", "1", "2", "3", "4", "5", "6", "7", "8", "9">>
\* strconv.Atoi, as a set of at most one number.
Atoi(cs) ==
  LET minus == cs # << >> /\ cs[1] = "-"
      ds == IF minus THEN Tail(cs) ELSE cs
      n == S!FoldLeft(LAMBDA acc, d : 10 * acc + (CHOOSE i \in 0..9 : Digits[i + 1] = d), 0, ds)
  IN  IF ds = << >> \/ \E i \in 1..Len(ds) : ds[i] = "-" THEN {} ELSE {IF minus THEN -n ELSE n}
\* Mutant: the prompt has no way to be left by Ctrl-C.
NiceKeyNoEsc(m, k) ==
  CASE k = "enter" /\ Atoi(m.number) # {} ->
         BeginConfirm([m EXCEPT !.modal = "none", !.pending.nice = CHOOSE n \in Atoi(m.number) : TRUE])
    [] k = "esc" -> [m EXCEPT !.modal = "none"]
    [] k = "backspace" /\ m.number # << >> -> [m EXCEPT !.number = S!Front(@)]
    [] k \in Elems(Digits) \cup {"-"} -> [m EXCEPT !.number = Append(@, k)]
    [] OTHER -> m
NiceKey(m, k) ==
  CASE k = "enter" /\ Atoi(m.number) # {} ->
         BeginConfirm([m EXCEPT !.modal = "none", !.pending.nice = CHOOSE n \in Atoi(m.number) : TRUE])
    [] k \in {"esc", "ctrl-c"} -> [m EXCEPT !.modal = "none"]
    [] k = "backspace" /\ m.number # << >> -> [m EXCEPT !.number = S!Front(@)]
    [] k \in Elems(Digits) \cup {"-"} -> [m EXCEPT !.number = Append(@, k)]
    [] OTHER -> m
Confirmed(m, k) == m.modal = "confirm" /\ k \in {"y", "Y"}
ConfirmKey(m, k) ==
  CASE k \in {"y", "Y"} -> [m EXCEPT !.modal = "none", !.dirty = @ \/ CanControl(targets, world, m.pending.pids)]
    [] k \in {"v", "V"} -> [m EXCEPT !.modal = "preview"]
    [] k \in {"esc", "ctrl-c", "n", "N", "q"} -> [m EXCEPT !.modal = "none"]
    [] OTHER -> m

\* The managed panel drops what is under the cursor without a preview.
Drops(m, k) == /\ m.modal = "none" /\ k = "d" /\ m.panel = "managed" /\ AtRow(m)
               /\ PidsBelow(Current(m).row) # {}
TogglePanel(m) == Dirty(ToTop([m EXCEPT !.panel = IF @ = "browser" THEN "managed" ELSE "browser"]))
-----------------------------------------------------------------------------
(* Keys.                                                                   *)

HelpKey(m, k) ==
  LET by == CASE k \in {"down", "j"} -> 1 [] k \in {"up", "k"} -> -1
              [] k = "pgdn" -> BodyHeight(m) [] k = "pgup" -> -BodyHeight(m) [] OTHER -> 0
      close == k \in {"?", "q", "esc", "ctrl-c"}
  IN  [m EXCEPT !.modal = IF close THEN "none" ELSE @, !.help = Clamp(@ + by, 0, HelpLines - BodyHeight(m))]
DetailKey(m, k) == IF k \in {"i", "q", "esc", "ctrl-c"} THEN [m EXCEPT !.modal = "none"] ELSE m
TogglePause(m) == [m EXCEPT !.paused = ~@, !.dirty = @ \/ m.paused]

Command(m, k) ==
  CASE k \in {"q", "ctrl-c"} -> [m EXCEPT !.run = "quit"]
    [] k \in {"up", "k"}     -> MoveCursor(m, -1)
    [] k \in {"down", "j"}   -> MoveCursor(m, 1)
    [] k = "pgup"            -> MoveCursor(m, -BodyHeight(m))
    [] k = "pgdn"            -> MoveCursor(m, BodyHeight(m))
    [] k = "enter"           -> ToggleCollapse(m)
    [] k = "left"            -> CollapseOrParent(m)
    [] k = "right"           -> ExpandOrChild(m)
    [] k \in {"c", "C"}      -> FoldAll(m, k = "c")
    [] k = "g"               -> CycleGroup(m)
    [] k = "t"               -> CycleLeaf(m)
    [] k = "s"               -> CycleSort(m)
    [] k = "S"               -> ToggleSortDir(m)
    [] k = "-"               -> RemoveLastColumn(m)
    [] k = "+"               -> Narrow([m EXCEPT !.modal = "columns"], << >>)
    [] k \in {"/", "f"}      -> StartFilter(m)
    [] k \in {"r", "u"}      -> Dirty(m)
    [] k \in {"p", " "}      -> TogglePause(m)
    [] k = "i"               -> IF AtRow(m) THEN [m EXCEPT !.modal = "detail"] ELSE m
    [] k = "?"               -> [m EXCEPT !.modal = "help", !.help = 0]
    [] k = "tab"             -> TogglePanel(m)
    [] k \in DOMAIN ControlKeys -> StartControl(m, ControlKeys[k])
    [] Drops(m, k)           -> Dirty(m)
    [] OTHER                 -> m

Update(m, k) ==
  CASE m.modal = "preview" -> [m EXCEPT !.modal = "confirm"]
    [] m.modal = "confirm" -> ConfirmKey(m, k)
    [] m.modal = "nice"    -> NiceKey(m, k)
    [] m.modal = "edit"    -> EditKey(m, k)
    [] m.modal = "columns" -> ColKey(m, k)
    [] m.modal = "help"    -> HelpKey(m, k)
    [] m.modal = "detail"  -> DetailKey(m, k)
    [] OTHER               -> Command(m, k)
-----------------------------------------------------------------------------
(* Queries: what the screen shows.                                         *)

\* The sort key moves when a column that cannot be sorted by is in its place.
SetResult(m, tree, cols, host) ==
  LET at == IF m.sortIx < Len(cols) THEN m.sortIx ELSE 0
      sortable == {i \in 1..Len(cols) : cols[i] \in Sortable}
      ix == IF cols = << >> \/ at + 1 \in sortable THEN m.sortIx ELSE IF sortable = {} THEN 0 ELSE FS!Min(sortable) - 1
  IN  RebuildRows([m EXCEPT !.tree = tree, !.cols = cols, !.host = host, !.sortIx = ix])

Shows(m, procs, tgs) ==
  LET found == Queried(m, procs, tgs) IN SetResult(m, found.tree, found.cols, found.host)

\* One query, which may fail; the managed panel saves the names it learns.
Requery(m, tgs) ==
  \/ ui' = m /\ targets' = tgs
  \/ /\ ~RefusesFlags(m)
     /\ targets' = IF m.panel = "managed" THEN Backfilled(tgs, world) ELSE tgs
     /\ ui' = Shows(m, world, targets')
-----------------------------------------------------------------------------
(* The loop.                                                               *)

Nothing == [kind |-> "nothing"]
NewModel(s) ==
  [flags |-> s.flags, filter |-> s.filter, tree |-> << >>, host |-> {}, cols |-> << >>, cursor |-> 0, scroll |-> 0,
   height |-> s.height, foldDefault |-> s.folded, folds |-> << >>,
   leafIx |-> IF s.flags.leaf \in Elems(LeafModes) THEN (CHOOSE i \in 1..3 : LeafModes[i] = s.flags.leaf) - 1 ELSE 0,
   sortIx |-> 0, sortDsc |-> FALSE, paused |-> FALSE, modal |-> "none", edit |-> << >>, pos |-> 0, hist |-> << >>, histIx |-> 0,
   picker |-> [filter |-> << >>, cursor |-> 0, scroll |-> 0], help |-> 0, number |-> << >>,
   pending |-> [pids |-> {}, label |-> << >>, kind |-> "none", nice |-> 0],
   panel |-> "browser", dirty |-> FALSE, run |-> "on"]
Opened ==
  \E s \in Sittings :
    /\ sitting = s /\ left = s.events /\ targets = s.targets /\ world \in s.worlds
    /\ ui = Shows(NewModel(s), world, targets)
    /\ applied = Nothing /\ chosen = Nothing

\* Mutant: the nice prompt does not hold the refresh.
RefreshSuspendedBut(m) == m.paused \/ m.modal \notin {"none", "nice"}
RefreshSuspended(m) == m.paused \/ m.modal # "none"

Event == ui.run = "on" /\ left > 0 /\ left' = left - 1 /\ UNCHANGED sitting
Acts(k) == Confirmed(ui, k) /\ CanControl(targets, world, ui.pending.pids)
Saved(k) ==
  IF Acts(k) THEN Controlled(targets, world, ui.pending)
  ELSE IF Drops(ui, k) THEN Dropped(targets, PidsBelow(Current(ui).row)) ELSE targets
Press(k) ==
  /\ Event /\ UNCHANGED world
  /\ \E m \in {Update(ui, k)}, saved \in {Saved(k), targets} : \* the state file may not be writable
       /\ IF m.dirty /\ (Acts(k) => saved = Saved(k)) THEN Requery([m EXCEPT !.dirty = FALSE], saved)
          ELSE ui' = [m EXCEPT !.dirty = FALSE] /\ targets' = saved
       /\ applied' = IF Acts(k) THEN [ui.pending EXCEPT !.pids = {b.pid : b \in Reached(targets, world, ui.pending)}]
                     ELSE Nothing
       /\ chosen' = IF m.modal = "none" THEN Nothing
                    ELSE IF ui.modal = "none" /\ k \in DOMAIN ControlKeys
                    THEN [kind |-> ControlKeys[k], pids |-> PidsBelow(Current(ui).row), seen |-> ui.tree]
                    ELSE chosen
Type == \E k \in sitting.keys : Press(k)
Tick == ~RefreshSuspended(ui) /\ Event /\ Requery(ui, targets) /\ applied' = Nothing /\ UNCHANGED <<world, chosen>>
\* The rows stay where they are until the next key or query.
Resize == /\ Event /\ applied' = Nothing /\ UNCHANGED <<world, targets, chosen>>
          /\ \E h \in {4, 6} : ui' = [ui EXCEPT !.height = h]
\* Processes come and go without the screen noticing.
WorldMoves == world' \in sitting.worlds /\ Event /\ applied' = Nothing /\ UNCHANGED <<ui, targets, chosen>>

Turn == Type \/ Tick \/ Resize \/ WorldMoves
Explored == Opened /\ [][Turn]_screen
-----------------------------------------------------------------------------
(* What the screen must keep.                                              *)

(* An action that is confirmed is of the kind that was asked for, with the *)
(* number typed, and the rows have not moved under the question since.  It *)
(* reaches a pid that was not under the cursor at that moment only if one  *)
(* managed target, and no other, has pids that were, and has this one too: *)
(* the callback then acts on all that the target has.  If no target has    *)
(* any of them, it reaches the pids under the cursor that still exist.     *)
ActsOnWhatWasAsked ==
  [][applied' # Nothing =>
       LET owners == Owners(targets, chosen.pids)
       IN  /\ applied'.kind = chosen.kind
           /\ applied'.kind = "nice" => applied'.nice \in Atoi(ui.number)
           /\ ui.tree = chosen.seen
           /\ \A p \in applied'.pids \ chosen.pids :
                Cardinality(owners) = 1 /\ \E i \in owners : i \in Owners(targets, {p})
           /\ owners = {} => applied'.pids = chosen.pids \cap {p.nums.pid : p \in Elems(world)}]_screen

Table(m) == <<m.tree, m.folds, m.foldDefault, m.cursor, m.scroll>>
InView(cursor, scroll, rows, body) ==
  IF rows = 0 THEN cursor = 0 ELSE cursor < rows /\ scroll <= cursor /\ cursor < scroll + body

(* Whenever rows, folds or a cursor change, the cursors of the table and   *)
(* of the column picker are on a row that is shown, the text cursor is in  *)
(* the line, and the key map is not scrolled past its end.  (A resize does *)
(* not scroll: the next key does.)                                         *)
CursorsOnScreen ==
  [][ui.run = "on" =>
       /\ Table(ui') # Table(ui) => InView(ui'.cursor, ui'.scroll, Len(Visible(ui')), BodyHeight(ui'))
       /\ ui'.picker # ui.picker => InView(ui'.picker.cursor, ui'.picker.scroll, Cardinality(Choices(ui')), PickerHeight(ui'))
       /\ ui'.pos \in 0..Len(ui'.edit)
       /\ ui'.help # ui.help => ui'.help \in 0..FS!Max({0, HelpLines - BodyHeight(ui')})]_screen

(* From every prompt and overlay, however it was reached, Ctrl-C leads out *)
(* of the program: back from a preview, out of the prompt, out.            *)
AlwaysAWayOut ==
  ui.run = "on" => Update(Update(Update(ui, "ctrl-c"), "ctrl-c"), "ctrl-c").run = "quit"
==============================================================================
