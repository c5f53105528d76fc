--------------------------- MODULE ExplorerProofs ----------------------------
(***************************************************************************)
(* Theorems about the explorer: what is confirmed is what was asked for,   *)
(* and whom it reaches; Ctrl-C leads out; a cursor that moves is on        *)
(* something shown.  They hold whatever a query answers, whichever         *)
(* processes there are and however the filter language is defined.  The    *)
(* first two need nothing of what Screen supplies; the last needs          *)
(* ExplorerAssumption and that the rows to see of an answer are a list.    *)
(***************************************************************************)
EXTENDS Explorer, SequenceTheorems, FiniteSetTheorems, WellFoundedInduction, TLAPS

(* The fields of the Model the arguments are about.                        *)
Fields == {"modal", "pending", "number", "tree", "dirty", "run"}
HasFields(m) == Fields \subseteq DOMAIN m

(* A question about a control action is on the screen, or nothing asks.    *)
Asking == {"confirm", "nice", "preview"}
Quiet == {"none", "edit", "columns", "help", "detail"}
Calm(m) == HasFields(m) /\ m.modal \in Quiet

(* The question is the one that was asked: of the same kind, about the     *)
(* processes then under the cursor, over the same rows, and once the       *)
(* number is given it is the one in the prompt.                            *)
AsksFor(m, c) ==
  /\ HasFields(m)
  /\ m.modal \in Asking
  /\ {"kind", "pids", "nice"} \subseteq DOMAIN m.pending
  /\ m.pending.kind = c.kind /\ m.pending.pids = c.pids
  /\ m.tree = c.seen
  /\ m.modal # "nice" /\ m.pending.kind = "nice" => m.pending.nice \in Atoi(m.number)

(* The inductive invariant.                                                *)
Asked == ui.dirty = FALSE /\ (Calm(ui) \/ AsksFor(ui, chosen))

-----------------------------------------------------------------------------
(* Keys that do not ask for an action leave a model that asks nothing.     *)

(* Moving the cursor and folding touch neither the mode nor what is to be  *)
(* queried.                                                                *)
LEMMA MoveCursorCalm ==
  ASSUME NEW m, NEW by, Calm(m)
  PROVE  Calm(MoveCursor(m, by)) /\ MoveCursor(m, by).dirty = m.dirty
BY DEF Calm, HasFields, Fields, MoveCursor, ClampScroll

LEMMA RebuildRowsCalm ==
  ASSUME NEW m, Calm(m) PROVE Calm(RebuildRows(m)) /\ RebuildRows(m).dirty = m.dirty
BY MoveCursorCalm DEF RebuildRows

LEMMA SetCollapsedCalm == ASSUME NEW m, NEW path, NEW v, Calm(m) PROVE Calm(SetCollapsed(m, path, v))
<1>1. Calm([m EXCEPT !.folds = (path :> v) @@ @]) BY DEF Calm, HasFields, Fields
<1>2. QED BY <1>1, RebuildRowsCalm DEF SetCollapsed

LEMMA FoldAllCalm == ASSUME NEW m, NEW v, Calm(m) PROVE Calm(FoldAll(m, v))
<1>1. Calm([m EXCEPT !.foldDefault = v, !.folds = << >>]) BY DEF Calm, HasFields, Fields
<1>2. QED BY <1>1, RebuildRowsCalm DEF FoldAll

LEMMA TreeKeysCalm ==
  ASSUME NEW m, Calm(m)
  PROVE  Calm(ToggleCollapse(m)) /\ Calm(CollapseOrParent(m)) /\ Calm(ExpandOrChild(m))
<1>1. Calm(MoveToParent(m)) BY DEF MoveToParent, ClampScroll, Calm, HasFields, Fields
<1>2. Calm(ToggleCollapse(m)) BY SetCollapsedCalm DEF ToggleCollapse
<1>3. Calm(CollapseOrParent(m)) BY SetCollapsedCalm, <1>1 DEF CollapseOrParent
<1>4. Calm(ExpandOrChild(m)) BY SetCollapsedCalm, MoveCursorCalm DEF ExpandOrChild
<1>5. QED BY <1>2, <1>3, <1>4

LEMMA DirtyCalm == ASSUME NEW m, Calm(m) PROVE Calm(Dirty(m)) /\ Calm(ToTop(m))
BY DEF Dirty, ToTop, Calm, HasFields, Fields

LEMMA ViewKeysCalm ==
  ASSUME NEW m, Calm(m)
  PROVE  Calm(CycleGroup(m)) /\ Calm(CycleLeaf(m)) /\ Calm(TogglePanel(m)) /\ Calm(TogglePause(m))
<1>1. ASSUME NEW g PROVE Calm([m EXCEPT !.flags.group = g]) BY DEF Calm, HasFields, Fields
<1>2. ASSUME NEW i, NEW l PROVE Calm([m EXCEPT !.leafIx = i, !.flags.leaf = l]) BY DEF Calm, HasFields, Fields
<1>3. Calm([m EXCEPT !.panel = IF @ = "browser" THEN "managed" ELSE "browser"]) BY DEF Calm, HasFields, Fields
<1>4. Calm(CycleGroup(m)) BY <1>1, DirtyCalm DEF CycleGroup
<1>5. Calm(CycleLeaf(m)) BY <1>2, DirtyCalm DEF CycleLeaf
<1>6. Calm(TogglePanel(m)) BY <1>3, DirtyCalm DEF TogglePanel
<1>7. Calm(TogglePause(m)) BY DEF TogglePause, Calm, HasFields, Fields
<1>8. QED BY <1>4, <1>5, <1>6, <1>7

LEMMA SortKeysCalm == ASSUME NEW m, Calm(m) PROVE Calm(CycleSort(m)) /\ Calm(ToggleSortDir(m))
<1>1. ASSUME NEW n, Calm(n) PROVE Calm(ApplySort(n))
  <2>1. Calm([n EXCEPT !.run = "panicked"]) BY <1>1 DEF Calm, HasFields, Fields
  <2>2. ASSUME NEW s PROVE Calm([n EXCEPT !.flags.sort = s]) BY <1>1 DEF Calm, HasFields, Fields
  <2>3. QED BY <1>1, <2>1, <2>2, DirtyCalm DEF ApplySort
<1>2. ASSUME NEW i PROVE Calm([m EXCEPT !.sortIx = i]) BY DEF Calm, HasFields, Fields
<1>3. Calm([m EXCEPT !.sortDsc = ~@]) BY DEF Calm, HasFields, Fields
<1>4. Calm(CycleSort(m)) BY <1>1, <1>2 DEF CycleSort
<1>5. Calm(ToggleSortDir(m)) BY <1>1, <1>3 DEF ToggleSortDir
<1>6. QED BY <1>4, <1>5

LEMMA ColumnKeysCalm ==
  ASSUME NEW m, Calm(m)
  PROVE  /\ Calm(RemoveLastColumn(m))
         /\ \A id : Calm(RemoveColumn(m, id)) /\ Calm(AppendColumn(m, id)) /\ Calm(ToggleSystemMetric(m, id))
<1>1. ASSUME NEW c PROVE Calm([m EXCEPT !.flags.columns = c]) BY DEF Calm, HasFields, Fields
<1>2. ASSUME NEW o PROVE Calm([m EXCEPT !.flags.overrides = o]) BY DEF Calm, HasFields, Fields
<1>3. ASSUME NEW id PROVE Calm(RemoveColumn(m, id)) BY <1>1, DirtyCalm DEF RemoveColumn
<1>4. ASSUME NEW id PROVE Calm(AppendColumn(m, id)) BY <1>1, DirtyCalm DEF AppendColumn
<1>5. ASSUME NEW id PROVE Calm(ToggleSystemMetric(m, id)) BY <1>2, DirtyCalm DEF ToggleSystemMetric
<1>6. Calm(RemoveLastColumn(m)) BY <1>3 DEF RemoveLastColumn
<1>7. QED BY <1>3, <1>4, <1>5, <1>6

(* The column picker stays open or closes.                                 *)
LEMMA ColKeyCalm == ASSUME NEW m, NEW k, Calm(m) PROVE Calm(ColKey(m, k))
<1>1. ASSUME NEW by PROVE Calm(MovePicker(m, by)) BY DEF MovePicker, Calm, HasFields, Fields
<1>2. ASSUME NEW f PROVE Calm(Narrow(m, f)) BY DEF Narrow, Calm, HasFields, Fields
<1>3. Calm(ToggleColumn(m)) BY ColumnKeysCalm DEF ToggleColumn
<1>4. Calm([m EXCEPT !.modal = "none"]) BY DEF Calm, HasFields, Fields, Quiet
<1>5. QED BY <1>1, <1>2, <1>3, <1>4 DEF ColKey

(* The filter line stays open, or closes when its filter is accepted.      *)
LEMMA EditKeyCalm == ASSUME NEW m, NEW k, Calm(m) PROVE Calm(EditKey(m, k))
<1>1. ASSUME NEW text, NEW pos, NEW n, Calm(n) PROVE Calm(Buffer(n, text, pos))
  BY <1>1 DEF Buffer, Calm, HasFields, Fields
<1>2. ASSUME NEW by PROVE Calm(HistoryMove(m, by))
  <2>1. ASSUME NEW ix PROVE Calm([m EXCEPT !.histIx = ix]) BY DEF Calm, HasFields, Fields
  <2>2. QED BY <1>1, <2>1 DEF HistoryMove
<1>3. ASSUME NEW s PROVE Calm(FilterBy(m, s))
  <2>1. ASSUME NEW f PROVE Calm([m EXCEPT !.modal = "none", !.filter = f]) BY DEF Calm, HasFields, Fields, Quiet
  <2>2. ASSUME NEW n, Calm(n), NEW t PROVE Calm(PushHistory(n, t)) BY <2>2 DEF PushHistory, Calm, HasFields, Fields
  <2>3. QED BY <2>1, <2>2, DirtyCalm DEF FilterBy
<1>4. ASSUME NEW c PROVE Calm(ApplySuggestion(m, c)) BY <1>1 DEF ApplySuggestion
<1>5. Calm([m EXCEPT !.modal = "none"]) BY DEF Calm, HasFields, Fields, Quiet
<1>6. QED BY <1>1, <1>2, <1>3, <1>4, <1>5 DEF EditKey, ApplyFilter

LEMMA OverlayKeysCalm ==
  ASSUME NEW m, NEW k, Calm(m)
  PROVE  Calm(HelpKey(m, k)) /\ Calm(DetailKey(m, k))
<1>1. ASSUME NEW v \in Quiet, NEW h PROVE Calm([m EXCEPT !.modal = v, !.help = h]) BY DEF Calm, HasFields, Fields
<1>2. \A v \in {"none", m.modal} : v \in Quiet BY DEF Calm, Quiet
<1>3. Calm(HelpKey(m, k)) BY <1>1, <1>2 DEF HelpKey
<1>4. Calm(DetailKey(m, k)) BY DEF DetailKey, Calm, HasFields, Fields, Quiet
<1>5. QED BY <1>3, <1>4

LEMMA ControlKeysAre == DOMAIN ControlKeys = {"n", "N", "x", "X", "z", "Z"}
BY DEF ControlKeys

LEMMA ControlCommand ==
  ASSUME NEW m, NEW k \in DOMAIN ControlKeys PROVE Command(m, k) = StartControl(m, ControlKeys[k])
<1>1. k \in {"n", "N", "x", "X", "z", "Z"} BY ControlKeysAre
<1>2. ~Drops(m, k) BY <1>1 DEF Drops
<1>3. QED BY <1>1, <1>2 DEF Command

(* A key of the browser that asks for no action.                           *)
LEMMA CommandCalm ==
  ASSUME NEW m, NEW k, Calm(m), k \notin DOMAIN ControlKeys
  PROVE  Calm(Command(m, k))
<1>1. Calm([m EXCEPT !.run = "quit"]) BY DEF Calm, HasFields, Fields
<1>2. Calm(Narrow([m EXCEPT !.modal = "columns"], << >>)) BY DEF Narrow, Calm, HasFields, Fields, Quiet
<1>3. Calm(StartFilter(m)) BY DEF StartFilter, Buffer, Calm, HasFields, Fields, Quiet
<1>4. Calm([m EXCEPT !.modal = "detail"]) /\ Calm([m EXCEPT !.modal = "help", !.help = 0])
  BY DEF Calm, HasFields, Fields, Quiet
<1>5. QED
  BY <1>1, <1>2, <1>3, <1>4, MoveCursorCalm, FoldAllCalm, TreeKeysCalm, DirtyCalm, ViewKeysCalm, SortKeysCalm, ColumnKeysCalm
  DEF Command

LEMMA UpdateCalm ==
  ASSUME NEW m, NEW k, Calm(m), m.modal # "none" \/ k \notin DOMAIN ControlKeys
  PROVE  Calm(Update(m, k))
<1>1. m.modal \in Quiet BY DEF Calm
<1>2. CASE m.modal = "none" BY <1>2, CommandCalm DEF Update
<1>3. CASE m.modal = "edit" BY <1>3, EditKeyCalm DEF Update
<1>4. CASE m.modal = "columns" BY <1>4, ColKeyCalm DEF Update
<1>5. CASE m.modal = "help" BY <1>5, OverlayKeysCalm DEF Update
<1>6. CASE m.modal = "detail" BY <1>6, OverlayKeysCalm DEF Update
<1>7. QED BY <1>1, <1>2, <1>3, <1>4, <1>5, <1>6 DEF Quiet

-----------------------------------------------------------------------------
(* The keys of a question.                                                 *)

(* Asking for an action either asks about the row under the cursor, or     *)
(* leaves the model as it is.                                              *)
LEMMA StartControlAsks ==
  ASSUME NEW m, NEW kind, Calm(m)
  PROVE  LET asked == StartControl(m, kind)
         IN  \/ Calm(asked) /\ asked.modal = m.modal
             \/ AsksFor(asked, [kind |-> kind, pids |-> PidsBelow(Current(m).row), seen |-> m.tree])
         /\ StartControl(m, kind).dirty = m.dirty
<1> DEFINE pids == PidsBelow(Current(m).row)
           p == [pids |-> pids, label |-> Current(m).row.label, kind |-> kind, nice |-> 0]
           asked == [m EXCEPT !.pending = p]
           c == [kind |-> kind, pids |-> pids, seen |-> m.tree]
<1>1. CASE ~AtRow(m) \/ pids = {} BY <1>1 DEF StartControl
<1>2. CASE ~(~AtRow(m) \/ pids = {}) /\ kind = "nice"
  <2>1. StartControl(m, kind) = [asked EXCEPT !.modal = "nice", !.number = << >>] BY <1>2 DEF StartControl
  <2>2. AsksFor([asked EXCEPT !.modal = "nice", !.number = << >>], c) BY DEF AsksFor, Calm, HasFields, Fields, Asking
  <2>3. [asked EXCEPT !.modal = "nice", !.number = << >>].dirty = m.dirty BY DEF Calm, HasFields, Fields
  <2>4. QED BY <2>1, <2>2, <2>3
<1>3. CASE ~(~AtRow(m) \/ pids = {}) /\ kind # "nice"
  <2>1. asked.pending = p BY DEF Calm, HasFields, Fields
  <2>2. CASE CanControl(targets, world, pids)
    <3>1. StartControl(m, kind) = [asked EXCEPT !.modal = "confirm"] BY <1>3, <2>1, <2>2 DEF StartControl, BeginConfirm
    <3>2. AsksFor([asked EXCEPT !.modal = "confirm"], c) BY <1>3 DEF AsksFor, Calm, HasFields, Fields, Asking
    <3>3. [asked EXCEPT !.modal = "confirm"].dirty = m.dirty BY DEF Calm, HasFields, Fields
    <3>4. QED BY <3>1, <3>2, <3>3
  <2>3. CASE ~CanControl(targets, world, pids) BY <1>3, <2>3 DEF StartControl
  <2>4. QED BY <2>2, <2>3
<1>4. QED BY <1>1, <1>2, <1>3

(* In the prompt, the confirmation and the preview a key keeps the         *)
(* question or ends it.                                                    *)
LEMMA QuestionKept ==
  ASSUME NEW m, NEW k, NEW c, AsksFor(m, c), m.dirty = FALSE
  PROVE  \/ AsksFor(Update(m, k), c) /\ Update(m, k).dirty = FALSE
         \/ Calm(Update(m, k)) /\ Update(m, k).modal = "none"
<1>1. Calm([m EXCEPT !.modal = "none"]) /\ [m EXCEPT !.modal = "none"].modal = "none"
  BY DEF AsksFor, Calm, HasFields, Fields, Quiet
<1>2. CASE m.modal = "preview"
  <2>1. Update(m, k) = [m EXCEPT !.modal = "confirm"] BY <1>2 DEF Update
  <2>2. QED BY <1>2, <2>1 DEF AsksFor, HasFields, Fields, Asking
<1>3. CASE m.modal = "confirm"
  <2>1. Update(m, k) = ConfirmKey(m, k) BY <1>3 DEF Update
  <2>2. ASSUME NEW d PROVE Calm([m EXCEPT !.modal = "none", !.dirty = d]) /\ [m EXCEPT !.modal = "none", !.dirty = d].modal = "none"
    BY DEF AsksFor, Calm, HasFields, Fields, Quiet
  <2>3. AsksFor([m EXCEPT !.modal = "preview"], c) /\ [m EXCEPT !.modal = "preview"].dirty = FALSE
    BY <1>3 DEF AsksFor, HasFields, Fields, Asking
  <2>4. CASE k \in {"y", "Y"}
    <3>. DEFINE d == m.dirty \/ CanControl(targets, world, m.pending.pids)
    <3>1. ConfirmKey(m, k) = [m EXCEPT !.modal = "none", !.dirty = d]
      BY <2>4 DEF ConfirmKey
    <3>2. Calm([m EXCEPT !.modal = "none", !.dirty = d])
          /\ [m EXCEPT !.modal = "none", !.dirty = d].modal = "none"
      BY <2>2
    <3>. HIDE DEF d
    <3>3. QED BY <2>1, <3>1, <3>2
  <2>5. CASE k \in {"v", "V"}
    <3>1. ConfirmKey(m, k) = [m EXCEPT !.modal = "preview"] BY <2>5 DEF ConfirmKey
    <3>2. QED BY <2>1, <2>3, <3>1
  <2>6. CASE k \in {"esc", "ctrl-c", "n", "N", "q"}
    <3>1. ConfirmKey(m, k) = [m EXCEPT !.modal = "none"] BY <2>6 DEF ConfirmKey
    <3>2. QED BY <1>1, <2>1, <3>1
  <2>7. CASE k \notin {"y", "Y", "v", "V", "esc", "ctrl-c", "n", "N", "q"}
    <3>1. ConfirmKey(m, k) = m BY <2>7 DEF ConfirmKey
    <3>2. QED BY <2>1, <3>1
  <2>8. QED BY <2>4, <2>5, <2>6, <2>7
<1>4. CASE m.modal = "nice"
  <2>1. Update(m, k) = NiceKey(m, k) BY <1>4 DEF Update
  <2>2. ASSUME NEW n \in Atoi(m.number)
        PROVE  LET given == [m EXCEPT !.modal = "none", !.pending.nice = n]
               IN  \/ AsksFor(BeginConfirm(given), c) /\ BeginConfirm(given).dirty = FALSE
                   \/ Calm(BeginConfirm(given)) /\ BeginConfirm(given).modal = "none"
    <3> DEFINE given == [m EXCEPT !.modal = "none", !.pending.nice = n]
    <3>1. Calm(given) /\ given.modal = "none" BY DEF AsksFor, Calm, HasFields, Fields, Quiet
    <3>2. AsksFor([given EXCEPT !.modal = "confirm"], c) /\ [given EXCEPT !.modal = "confirm"].dirty = FALSE
      BY <1>4 DEF AsksFor, HasFields, Fields, Asking
    <3>3. QED BY <3>1, <3>2 DEF BeginConfirm
  <2>3. ASSUME NEW s PROVE AsksFor([m EXCEPT !.number = s], c) /\ [m EXCEPT !.number = s].dirty = FALSE
    BY <1>4 DEF AsksFor, HasFields, Fields
  <2>4. CASE k = "enter" /\ Atoi(m.number) # {}
    <3> DEFINE n == CHOOSE i \in Atoi(m.number) : TRUE
    <3>1. n \in Atoi(m.number) BY <2>4
    <3>2. "enter" \notin Elems(Digits) \cup {"-"} BY DEF Elems, Digits
    <3>3. NiceKey(m, k) = BeginConfirm([m EXCEPT !.modal = "none", !.pending.nice = n]) BY <2>4, <3>2 DEF NiceKey
    <3>4. QED BY <2>1, <2>2, <3>1, <3>3
  <2>5. CASE ~(k = "enter" /\ Atoi(m.number) # {}) BY <1>1, <2>1, <2>3, <2>5 DEF NiceKey
  <2>6. QED BY <2>4, <2>5
<1>5. QED BY <1>2, <1>3, <1>4 DEF AsksFor, Asking

-----------------------------------------------------------------------------
(* The steps.                                                              *)

LEMMA SetResultCalm ==
  ASSUME NEW m, NEW tree, NEW cols, NEW host, Calm(m), m.dirty = FALSE
  PROVE  Calm(SetResult(m, tree, cols, host)) /\ SetResult(m, tree, cols, host).dirty = FALSE
<1>1. ASSUME NEW ix
      PROVE  LET n == [m EXCEPT !.tree = tree, !.cols = cols, !.host = host, !.sortIx = ix] IN Calm(n) /\ n.dirty = FALSE
  BY DEF Calm, HasFields, Fields
<1>2. QED BY <1>1, RebuildRowsCalm DEF SetResult

LEMMA ShowsCalm ==
  ASSUME NEW m, NEW procs, NEW tgs, Calm(m), m.dirty = FALSE
  PROVE  Calm(Shows(m, procs, tgs)) /\ Shows(m, procs, tgs).dirty = FALSE
BY SetResultCalm DEF Shows

LEMMA RequeryCalm ==
  ASSUME NEW m, NEW tgs, Calm(m), m.dirty = FALSE, Requery(m, tgs)
  PROVE  Calm(ui') /\ ui'.dirty = FALSE
<1>1. ui' = m \/ \E saved : ui' = Shows(m, world, saved) BY DEF Requery
<1>2. QED BY <1>1, ShowsCalm

LEMMA Cleaned ==
  ASSUME NEW m, NEW c, HasFields(m)
  PROVE  LET n == [m EXCEPT !.dirty = FALSE]
         IN  n.dirty = FALSE /\ (Calm(m) => Calm(n)) /\ (AsksFor(m, c) => AsksFor(n, c))
BY DEF Calm, AsksFor, HasFields, Fields

LEMMA OpenedAsked == Opened => Asked
<1> SUFFICES ASSUME NEW s \in Sittings, ui = Shows(NewModel(s), world, targets) PROVE Asked
  BY DEF Opened
<1>1. Calm(NewModel(s)) /\ NewModel(s).dirty = FALSE BY DEF NewModel, Calm, HasFields, Fields, Quiet
<1>2. QED BY <1>1, ShowsCalm DEF Asked

LEMMA PressAsked == ASSUME Asked, NEW k, Press(k) PROVE Asked'
<1> DEFINE m == Update(ui, k)
           n == [m EXCEPT !.dirty = FALSE]
<1>1. ASSUME Calm(m) PROVE Calm(ui') /\ ui'.dirty = FALSE
  <2>1. Calm(n) /\ n.dirty = FALSE BY <1>1, Cleaned DEF Calm
  <2>2. \/ \E saved : Requery(n, saved)
        \/ ui' = n
    BY DEF Press
  <2>3. QED BY <2>1, <2>2, RequeryCalm
<1>2. ASSUME NEW c, AsksFor(m, c), m.dirty = FALSE, chosen' = c PROVE Asked'
  <2>1. ui' = n BY <1>2 DEF Press
  <2>2. n.dirty = FALSE /\ AsksFor(n, c) BY <1>2, Cleaned DEF AsksFor
  <2>3. QED BY <1>2, <2>1, <2>2 DEF Asked
<1>3. CASE Calm(ui) /\ (ui.modal # "none" \/ k \notin DOMAIN ControlKeys)
  BY <1>1, <1>3, UpdateCalm DEF Asked
<1>4. CASE Calm(ui) /\ ui.modal = "none" /\ k \in DOMAIN ControlKeys
  <2> DEFINE c == [kind |-> ControlKeys[k], pids |-> PidsBelow(Current(ui).row), seen |-> ui.tree]
  <2>1. m = StartControl(ui, ControlKeys[k]) BY <1>4, ControlCommand DEF Update
  <2>2. m.dirty = FALSE /\ (Calm(m) \/ AsksFor(m, c)) BY <1>4, <2>1, StartControlAsks DEF Asked
  <2>3. CASE Calm(m) BY <1>1, <2>3 DEF Asked
  <2>4. CASE AsksFor(m, c)
    <3>1. m.modal # "none" BY <2>4 DEF AsksFor, Asking
    <3>2. chosen' = c BY <1>4, <3>1 DEF Press
    <3>3. QED BY <1>2, <2>2, <2>4, <3>2
  <2>5. QED BY <2>2, <2>3, <2>4
<1>5. CASE AsksFor(ui, chosen)
  <2>1. \/ AsksFor(m, chosen) /\ m.dirty = FALSE
        \/ Calm(m)
    BY <1>5, QuestionKept DEF Asked
  <2>2. CASE Calm(m) BY <1>1, <2>2 DEF Asked
  <2>3. CASE AsksFor(m, chosen) /\ m.dirty = FALSE
    <3>1. m.modal # "none" /\ ui.modal # "none" BY <1>5, <2>3 DEF AsksFor, Asking
    <3>2. chosen' = chosen BY <3>1 DEF Press
    <3>3. QED BY <1>2, <2>3, <3>2
  <2>4. QED BY <2>1, <2>2, <2>3
<1>6. QED BY <1>3, <1>4, <1>5 DEF Asked

LEMMA TurnAsked == ASSUME Asked, [Turn]_screen PROVE Asked'
<1>1. CASE Type BY <1>1, PressAsked DEF Type
<1>2. CASE Tick
  <2>1. Calm(ui) BY <1>2 DEF Tick, RefreshSuspended, Asked, AsksFor, Asking
  <2>2. QED BY <1>2, <2>1, RequeryCalm DEF Tick, Asked
<1>3. CASE Resize
  <2>1. PICK h : ui' = [ui EXCEPT !.height = h] /\ chosen' = chosen BY <1>3 DEF Resize
  <2>2. ASSUME NEW c PROVE (Calm(ui) => Calm(ui')) /\ (AsksFor(ui, c) => AsksFor(ui', c)) /\ (HasFields(ui) => ui'.dirty = ui.dirty)
    BY <2>1 DEF Calm, AsksFor, HasFields, Fields
  <2>3. QED BY <2>1, <2>2 DEF Asked, Calm, AsksFor
<1>4. CASE WorldMoves BY <1>4 DEF WorldMoves, Asked
<1>5. CASE UNCHANGED screen BY <1>5 DEF screen, Asked
<1>6. QED BY <1>1, <1>2, <1>3, <1>4, <1>5 DEF Turn

(* In every state, either nothing is asked, or the question on the screen  *)
(* is the one the keys asked, over the rows they saw.                      *)
THEOREM ExplorerInvariant == Explored => []Asked
BY OpenedAsked, TurnAsked, PTL DEF Explored

(* What a request reaches: of a single target that has some of its pids,   *)
(* all the target has; if no target has any, the pids there are.           *)
LEMMA ReachedPids ==
  ASSUME NEW tgs, NEW procs, NEW req
  PROVE  LET pids == {b.pid : b \in Reached(tgs, procs, req)}
             owners == Owners(tgs, req.pids)
         IN  /\ \A p \in pids \ req.pids : Cardinality(owners) = 1 /\ \E i \in owners : i \in Owners(tgs, {p})
             /\ owners = {} => pids = req.pids \cap {p.nums.pid : p \in Elems(procs)}
<1> DEFINE pids == {b.pid : b \in Reached(tgs, procs, req)}
           owners == Owners(tgs, req.pids)
           new == InstancesFor(procs, req.pids, req.label)
<1>1. {b.pid : b \in new} = req.pids \cap {p.nums.pid : p \in Elems(procs)}
  <2> DEFINE those == {q \in Elems(procs) : q.nums.pid \in req.pids}
             Bound(p) == [pid |-> p.nums.pid, key |-> p.key, name |-> req.label]
  <2>1. {b.pid : b \in {Bound(p) : p \in those}} = {p.nums.pid : p \in those}
    <3>1. \A p : Bound(p).pid = p.nums.pid OBVIOUS
    <3> HIDE DEF those, Bound
    <3>2. QED BY <3>1
  <2>2. ASSUME NEW n PROVE n \in {p.nums.pid : p \in those} <=> n \in req.pids /\ n \in {p.nums.pid : p \in Elems(procs)}
    OBVIOUS
  <2>3. QED BY <2>1, <2>2 DEF InstancesFor
<1>2. CASE Cardinality(owners) = 1
  <2>1. Reached(tgs, procs, req) = UNION {tgs[i].bind : i \in owners} BY <1>2 DEF Reached
  <2>2. owners # {} BY <1>2, FS_EmptySet
  <2>3. ASSUME NEW p \in pids PROVE \E i \in owners : i \in Owners(tgs, {p})
    <3>1. PICK i \in owners : \E b \in tgs[i].bind : b.pid = p BY <2>1
    <3>2. QED BY <3>1 DEF Owners
  <2>4. QED BY <1>2, <2>2, <2>3
<1>3. CASE Cardinality(owners) # 1
  <2>1. Reached(tgs, procs, req) = new BY <1>3 DEF Reached
  <2>2. QED BY <1>1, <2>1
<1>4. QED BY <1>2, <1>3

(* A confirmed action is of the kind that was asked for, with the number   *)
(* typed, over rows that have not moved; and it reaches the pids that were *)
(* under the cursor, or those of the one managed target that has any.      *)
THEOREM ConfirmedIsAsked == Explored => ActsOnWhatWasAsked
<1> DEFINE owners == Owners(targets, chosen.pids)
<1>1. ASSUME Asked, Turn, applied' # Nothing
      PROVE  /\ applied'.kind = chosen.kind
             /\ applied'.kind = "nice" => applied'.nice \in Atoi(ui.number)
             /\ ui.tree = chosen.seen
             /\ \A p \in applied'.pids \ chosen.pids :
                  Cardinality(owners) = 1 /\ \E i \in owners : i \in Owners(targets, {p})
             /\ owners = {} => applied'.pids = chosen.pids \cap {p.nums.pid : p \in Elems(world)}
  <2> DEFINE on == {b.pid : b \in Reached(targets, world, ui.pending)}
  <2>1. PICK k : Press(k) BY <1>1 DEF Turn, Type, Tick, Resize, WorldMoves
  <2>2. applied' = [ui.pending EXCEPT !.pids = on] /\ ui.modal = "confirm" BY <1>1, <2>1 DEF Press, Acts, Confirmed
  <2>3. AsksFor(ui, chosen) BY <1>1, <2>2 DEF Asked, Calm, Quiet
  <2>4. applied'.kind = chosen.kind /\ applied'.nice = ui.pending.nice /\ applied'.pids = on
    <3> HIDE DEF on
    <3>1. QED BY <2>2, <2>3 DEF AsksFor
  <2>5. chosen.pids = ui.pending.pids /\ ui.tree = chosen.seen BY <2>3 DEF AsksFor
  <2>6. applied'.kind = "nice" => applied'.nice \in Atoi(ui.number) BY <2>2, <2>3, <2>4 DEF AsksFor
  <2>7. /\ \A p \in on \ chosen.pids : Cardinality(owners) = 1 /\ \E i \in owners : i \in Owners(targets, {p})
        /\ owners = {} => on = chosen.pids \cap {p.nums.pid : p \in Elems(world)}
    <3>1. Owners(targets, ui.pending.pids) = owners BY <2>5
    <3>2. /\ \A p \in on \ ui.pending.pids : Cardinality(owners) = 1 /\ \E i \in owners : i \in Owners(targets, {p})
          /\ owners = {} => on = ui.pending.pids \cap {p.nums.pid : p \in Elems(world)}
      <4> DEFINE own == Owners(targets, ui.pending.pids)
      <4>1. /\ \A p \in on \ ui.pending.pids : Cardinality(own) = 1 /\ \E i \in own : i \in Owners(targets, {p})
            /\ own = {} => on = ui.pending.pids \cap {p.nums.pid : p \in Elems(world)}
        BY ReachedPids
      <4> HIDE DEF own, owners, on
      <4>2. own = owners BY <3>1 DEF own
      <4>3. QED BY <4>1, <4>2
    <3> HIDE DEF owners, on
    <3>3. QED BY <2>5, <3>2
  <2>8. QED BY <2>4, <2>5, <2>6, <2>7
<1>2. QED BY <1>1, ExplorerInvariant, PTL DEF Explored, ActsOnWhatWasAsked

-----------------------------------------------------------------------------
(* The way out.                                                            *)

LEMMA CtrlCQuits ==
  ASSUME NEW m, HasFields(m), m.modal = "none"
  PROVE  LET n == Update(m, "ctrl-c") IN HasFields(n) /\ n.modal = "none" /\ n.run = "quit"
<1>1. Command(m, "ctrl-c") = [m EXCEPT !.run = "quit"] BY ControlKeysAre DEF Command, Drops
<1>2. QED BY <1>1 DEF Update, HasFields, Fields

LEMMA CtrlCCloses ==
  ASSUME NEW m, HasFields(m), m.modal \in (Quiet \cup {"confirm", "nice"}) \ {"none"}
  PROVE  LET n == Update(m, "ctrl-c") IN HasFields(n) /\ n.modal = "none"
<1>1. HasFields([m EXCEPT !.modal = "none"]) /\ [m EXCEPT !.modal = "none"].modal = "none" BY DEF HasFields, Fields
<1>2. EditKey(m, "ctrl-c") = [m EXCEPT !.modal = "none"] BY DEF EditKey, Runes
<1>3. ColKey(m, "ctrl-c") = [m EXCEPT !.modal = "none"] BY DEF ColKey, Runes
<1>4. DetailKey(m, "ctrl-c") = [m EXCEPT !.modal = "none"] BY DEF DetailKey
<1>5. ConfirmKey(m, "ctrl-c") = [m EXCEPT !.modal = "none"] BY DEF ConfirmKey
<1>6. NiceKey(m, "ctrl-c") = [m EXCEPT !.modal = "none"]
  <2>1. "ctrl-c" \notin Elems(Digits) \cup {"-"} BY DEF Elems, Digits
  <2>2. QED BY <2>1 DEF NiceKey
<1>7. HasFields(HelpKey(m, "ctrl-c")) /\ HelpKey(m, "ctrl-c").modal = "none" BY DEF HelpKey, HasFields, Fields
<1>8. QED BY <1>1, <1>2, <1>3, <1>4, <1>5, <1>6, <1>7 DEF Update, Quiet

(* From every prompt and overlay, however it was reached, Ctrl-C leads out *)
(* of the program.                                                         *)
THEOREM WayOut == Explored => []AlwaysAWayOut
<1>1. ASSUME Asked PROVE AlwaysAWayOut
  <2> DEFINE one == Update(ui, "ctrl-c")
             two == Update(one, "ctrl-c")
             three == Update(two, "ctrl-c")
  <2>1. CASE ui.modal = "none"
    <3>1. HasFields(ui) BY <1>1 DEF Asked, Calm, AsksFor
    <3>2. HasFields(one) /\ one.modal = "none" BY <2>1, <3>1, CtrlCQuits
    <3>3. HasFields(two) /\ two.modal = "none" BY <3>2, CtrlCQuits
    <3>4. QED BY <3>3, CtrlCQuits DEF AlwaysAWayOut
  <2>2. CASE ui.modal = "preview"
    <3>1. one = [ui EXCEPT !.modal = "confirm"] BY <2>2 DEF Update
    <3>2. HasFields(one) /\ one.modal = "confirm" BY <1>1, <3>1 DEF Asked, Calm, AsksFor, HasFields, Fields
    <3>3. HasFields(two) /\ two.modal = "none" BY <3>2, CtrlCCloses DEF Quiet
    <3>4. QED BY <3>3, CtrlCQuits DEF AlwaysAWayOut
  <2>3. CASE ui.modal \notin {"none", "preview"}
    <3>1. HasFields(ui) /\ ui.modal \in (Quiet \cup {"confirm", "nice"}) \ {"none"}
      BY <1>1, <2>3 DEF Asked, Calm, AsksFor, Asking
    <3>2. HasFields(one) /\ one.modal = "none" BY <3>1, CtrlCCloses
    <3>3. HasFields(two) /\ two.modal = "none" BY <3>2, CtrlCQuits
    <3>4. QED BY <3>3, CtrlCQuits DEF AlwaysAWayOut
  <2>4. QED BY <2>1, <2>2, <2>3
<1>2. QED BY <1>1, ExplorerInvariant, PTL

-----------------------------------------------------------------------------
(* Bounds.                                                                 *)

(* A set of integers with bounds has a greatest and a least element.       *)
LEMMA MaxMinIn ==
  ASSUME NEW T \in SUBSET Int, T # {}, NEW lo \in Int, NEW hi \in Int, \A x \in T : lo <= x /\ x <= hi
  PROVE  FS!Max(T) \in T /\ FS!Min(T) \in T
<1>1. \E x \in T : \A y \in T : x >= y
  <2> DEFINE D == {n \in Nat : hi - n \in T}
  <2>1. PICK a \in T : TRUE OBVIOUS
  <2>2. hi - a \in D
    <3>1. hi - a \in Nat /\ hi - (hi - a) = a OBVIOUS
    <3>2. QED BY <3>1
  <2>3. PICK m \in D : \A k \in D : ~(<<k, m>> \in OpToRel(<, Nat)) BY <2>2, NatLessThanWellFounded, WFMin, Zenon
  <2>4. ASSUME NEW y \in T PROVE hi - m >= y
    <3>1. hi - y \in Nat /\ hi - (hi - y) = y OBVIOUS
    <3>2. hi - y \in D BY <3>1
    <3>3. ~(hi - y < m) BY <2>3, <3>1, <3>2 DEF OpToRel
    <3>4. QED BY <3>3
  <2>5. QED BY <2>4
<1>2. \E x \in T : \A y \in T : x <= y
  <2> DEFINE D == {n \in Nat : lo + n \in T}
  <2>1. PICK a \in T : TRUE OBVIOUS
  <2>2. a - lo \in D
    <3>1. a - lo \in Nat /\ lo + (a - lo) = a OBVIOUS
    <3>2. QED BY <3>1
  <2>3. PICK m \in D : \A k \in D : ~(<<k, m>> \in OpToRel(<, Nat)) BY <2>2, NatLessThanWellFounded, WFMin, Zenon
  <2>4. ASSUME NEW y \in T PROVE lo + m <= y
    <3>1. y - lo \in Nat /\ lo + (y - lo) = y OBVIOUS
    <3>2. y - lo \in D BY <3>1
    <3>3. ~(y - lo < m) BY <2>3, <3>1, <3>2 DEF OpToRel
    <3>4. QED BY <3>3
  <2>5. QED BY <2>4
<1>3. QED BY <1>1, <1>2 DEF FS!Max, FS!Min

LEMMA ExtremesIn ==
  ASSUME NEW lo \in Int, NEW hi \in Int, NEW T \in SUBSET (lo..hi), T # {}
  PROVE  FS!Max(T) \in T /\ FS!Min(T) \in T
<1>1. T \in SUBSET Int /\ \A x \in T : lo <= x /\ x <= hi OBVIOUS
<1>2. QED BY <1>1, MaxMinIn

LEMMA MaxOfTwo ==
  ASSUME NEW a \in Int, NEW b \in Int
  PROVE  FS!Max({a, b}) \in Int /\ FS!Max({a, b}) >= a /\ FS!Max({a, b}) >= b
<1>1. \E x \in {a, b} : \A y \in {a, b} : x >= y OBVIOUS
<1>2. QED BY <1>1 DEF FS!Max

LEMMA ClampIn ==
  ASSUME NEW v \in Int, NEW lo \in Int, NEW hi \in Int
  PROVE  /\ Clamp(v, lo, hi) \in Int
         /\ lo <= Clamp(v, lo, hi)
         /\ lo <= hi => Clamp(v, lo, hi) <= hi
         /\ hi < lo => Clamp(v, lo, hi) = lo
BY DEF Clamp

LEMMA CursorClamped ==
  ASSUME NEW v \in Int, NEW r \in Nat
  PROVE  LET c == Clamp(v, 0, r - 1) IN c \in Int /\ 0 <= c /\ (r > 0 => c < r) /\ (r = 0 => c = 0)
BY DEF Clamp

(* The offset that follows a cursor shows it.                              *)
LEMMA FollowShows ==
  ASSUME NEW cursor \in Int, NEW scroll \in Int, NEW body \in Int, body >= 1
  PROVE  LET to == Follow(cursor, scroll, body) IN to \in Int /\ to <= cursor /\ cursor < to + body
BY DEF Follow

LEMMA BodyHeightPositive ==
  ASSUME NEW m, m.height \in Int
  PROVE  BodyHeight(m) \in Int /\ BodyHeight(m) >= 1 /\ PickerHeight(m) \in Int /\ PickerHeight(m) >= 1
<1>1. ASSUME NEW b \in Int PROVE FS!Max({1, b}) \in Int /\ FS!Max({1, b}) >= 1 BY MaxOfTwo
<1>2. m.height - 3 - (IF m.host = {} THEN 0 ELSE 2) \in Int /\ m.height - 2 \in Int OBVIOUS
<1>3. BodyHeight(m) \in Int /\ BodyHeight(m) >= 1 BY <1>1, <1>2, Zenon DEF BodyHeight
<1>4. PickerHeight(m) \in Int /\ PickerHeight(m) >= 1 BY <1>1, <1>2, Zenon DEF PickerHeight
<1>5. QED BY <1>3, <1>4

-----------------------------------------------------------------------------
(* Where the cursors are.                                                  *)

(* The characters of a line: the ones that are typed or spelled, and the   *)
(* ones the explorer writes itself.                                        *)
Chars == STRING \cup {" ", "\"", "(", ")", "?", "=", "!", "<", ">", "~", "a", "c", "i", "n", "o", "s", "t"}

LEMMA TypedChars == \A s : s \in Seq(STRING) => s \in Seq(Chars)
BY SeqMonotonic DEF Chars

LEMMA Words ==
  /\ \A a \in Chars : <<a>> \in Seq(Chars)
  /\ \A a, b \in Chars : <<a, b>> \in Seq(Chars)
  /\ \A a, b, c, d \in Chars : <<a, b, c, d>> \in Seq(Chars)
  /\ \A a, b, c, d, e \in Chars : <<a, b, c, d, e>> \in Seq(Chars)
  /\ \A a, b, c, d, e, f, g, h \in Chars : <<a, b, c, d, e, f, g, h>> \in Seq(Chars)
<1>1. \A a \in Chars : <<a>> \in Seq(Chars) OBVIOUS
<1>2. \A a, b \in Chars : <<a, b>> \in Seq(Chars) OBVIOUS
<1>3. \A a, b, c, d \in Chars : <<a, b, c, d>> \in Seq(Chars) OBVIOUS
<1>4. \A a, b, c, d, e \in Chars : <<a, b, c, d, e>> \in Seq(Chars) OBVIOUS
<1>5. \A a, b, c, d, e, f, g, h \in Chars : <<a, b, c, d, e, f, g, h>> \in Seq(Chars) OBVIOUS
<1>6. QED BY <1>1, <1>2, <1>3, <1>4, <1>5

PlacedFields == {"tree", "folds", "foldDefault", "cursor", "scroll", "height", "host", "edit", "pos", "hist", "histIx",
                 "picker", "help", "filter"}
ViewFields == PlacedFields \cup {"modal", "pending", "number", "dirty", "run", "flags", "panel", "cols", "leafIx", "sortIx",
                                 "sortDsc", "paused"}

(* Cursors and offsets are numbers, texts are sequences of characters, and *)
(* the text cursor is in the line.                                         *)
Placed(m) ==
  /\ ViewFields \subseteq DOMAIN m
  /\ m.height \in Int /\ m.cursor \in Int /\ m.scroll \in Int /\ m.help \in Int
  /\ {"filter", "cursor", "scroll"} \subseteq DOMAIN m.picker
  /\ m.picker.cursor \in Int /\ m.picker.scroll \in Int
  /\ m.filter \in Seq(Chars) /\ m.edit \in Seq(Chars) /\ m.pos \in 0..Len(m.edit)
  /\ m.hist \in Seq(Seq(Chars)) /\ m.histIx \in Int

(* The rows there are to see are a list, as they are in the program.       *)
Listed(m) == Len(Visible(m)) \in Nat

(* What a key does to the cursors: those that move are on something shown. *)
Settled(m, n) ==
  /\ Table(n) # Table(m) => InView(n.cursor, n.scroll, Len(Visible(n)), BodyHeight(n))
  /\ n.picker # m.picker => InView(n.picker.cursor, n.picker.scroll, Cardinality(Choices(n)), PickerHeight(n))
  /\ n.help # m.help => n.help \in 0..FS!Max({0, HelpLines - BodyHeight(n)})

(* A key that asks for a query neither folds nor moves the key map.        *)
Turned(m, n) ==
  /\ DOMAIN n = DOMAIN m /\ n.tree = m.tree /\ n.host = m.host
  /\ n.dirty # m.dirty => n.folds = m.folds /\ n.foldDefault = m.foldDefault /\ n.help = m.help
  /\ Listed(n) => Placed(n) /\ Settled(m, n)

(* Nothing that places a cursor is touched.                                *)
Alike(m, n) == DOMAIN n = DOMAIN m /\ \A f \in PlacedFields : n[f] = m[f]

LEMMA AlikeTurned == ASSUME NEW m, NEW n, Placed(m), Alike(m, n) PROVE Turned(m, n)
<1>1. /\ n.tree = m.tree /\ n.folds = m.folds /\ n.foldDefault = m.foldDefault /\ n.cursor = m.cursor /\ n.scroll = m.scroll
      /\ n.height = m.height /\ n.edit = m.edit /\ n.pos = m.pos /\ n.hist = m.hist /\ n.histIx = m.histIx
      /\ n.picker = m.picker /\ n.help = m.help /\ n.filter = m.filter /\ n.host = m.host
  BY DEF Alike, PlacedFields
<1>2. Placed(n) BY <1>1 DEF Placed, Alike
<1>3. Settled(m, n) BY <1>1 DEF Settled, Table
<1>4. QED BY <1>1, <1>2, <1>3 DEF Turned, Alike

(* Moving the cursor by some rows changes it and the offset only ...       *)
LEMMA MoveCursorSpares ==
  ASSUME NEW m, NEW by, Placed(m)
  PROVE  LET n == MoveCursor(m, by)
         IN  /\ n.tree = m.tree /\ n.folds = m.folds /\ n.foldDefault = m.foldDefault /\ n.host = m.host
             /\ n.height = m.height /\ n.picker = m.picker /\ n.help = m.help /\ n.dirty = m.dirty
             /\ Visible(n) = Visible(m) /\ BodyHeight(n) = BodyHeight(m) /\ DOMAIN n = DOMAIN m
<1> DEFINE c == Clamp(m.cursor + by, 0, Len(Visible(m)) - 1)
           x == [m EXCEPT !.cursor = c]
           n == [x EXCEPT !.scroll = Follow(x.cursor, @, BodyHeight(x))]
<1>1. MoveCursor(m, by) = n BY DEF MoveCursor, ClampScroll
<1>2. /\ n.tree = m.tree /\ n.folds = m.folds /\ n.foldDefault = m.foldDefault /\ n.host = m.host
      /\ n.height = m.height /\ n.picker = m.picker /\ n.help = m.help /\ n.dirty = m.dirty /\ DOMAIN n = DOMAIN m
  BY DEF Placed, ViewFields, PlacedFields
<1>3. QED BY <1>1, <1>2 DEF Visible, BodyHeight

(* ... to a row that is shown, or to none when there is none.              *)
LEMMA MoveCursorShows ==
  ASSUME NEW m, NEW by \in Int, Placed(m), Listed(m)
  PROVE  LET n == MoveCursor(m, by)
         IN  Placed(n) /\ InView(n.cursor, n.scroll, Len(Visible(n)), BodyHeight(n))
<1> DEFINE rows == Len(Visible(m))
           c == Clamp(m.cursor + by, 0, rows - 1)
           to == Follow(c, m.scroll, BodyHeight(m))
           x == [m EXCEPT !.cursor = c]
           n == [x EXCEPT !.scroll = to]
<1>1. rows \in Nat BY DEF Listed
<1>2. c \in Int /\ 0 <= c /\ (rows > 0 => c < rows) /\ (rows = 0 => c = 0)
  <2>1. m.cursor + by \in Int BY <1>1 DEF Placed
  <2>2. QED BY <1>1, <2>1, CursorClamped
<1>3. BodyHeight(m) \in Int /\ BodyHeight(m) >= 1 BY BodyHeightPositive DEF Placed
<1>4. to \in Int /\ to <= c /\ c < to + BodyHeight(m) BY <1>2, <1>3, FollowShows DEF Placed
<1>5. MoveCursor(m, by) = n
  <2>1. x.cursor = c /\ x.scroll = m.scroll /\ BodyHeight(x) = BodyHeight(m) BY DEF Placed, ViewFields, PlacedFields, BodyHeight
  <2>2. MoveCursor(m, by) = ClampScroll(x) BY DEF MoveCursor
  <2>3. QED BY <2>1, <2>2 DEF ClampScroll
<1>6. n.cursor = c /\ n.scroll = to /\ Visible(n) = Visible(m) /\ BodyHeight(n) = BodyHeight(m)
  BY DEF Placed, ViewFields, PlacedFields, Visible, BodyHeight
<1>7. Placed(n) BY <1>2, <1>4 DEF Placed, ViewFields, PlacedFields
<1>8. InView(n.cursor, n.scroll, Len(Visible(n)), BodyHeight(n)) BY <1>1, <1>2, <1>4, <1>6 DEF InView
<1>9. QED BY <1>5, <1>7, <1>8

LEMMA MoveCursorTurned ==
  ASSUME NEW m, NEW by \in Int, Placed(m) PROVE Turned(m, MoveCursor(m, by))
<1>1. ASSUME Listed(MoveCursor(m, by)) PROVE Listed(m) BY <1>1, MoveCursorSpares DEF Listed
<1>2. QED BY <1>1, MoveCursorSpares, MoveCursorShows DEF Turned, Settled

(* Folding and unfolding.                                                  *)
LEMMA RefoldTurned ==
  ASSUME NEW m, Placed(m), NEW f, NEW d
  PROVE  Turned(m, RebuildRows([m EXCEPT !.folds = f, !.foldDefault = d])) /\ Turned(m, RebuildRows([m EXCEPT !.folds = f]))
<1>1. ASSUME NEW x, Placed(x), DOMAIN x = DOMAIN m, x.tree = m.tree, x.host = m.host, x.picker = m.picker, x.help = m.help, x.dirty = m.dirty
      PROVE  Turned(m, RebuildRows(x))
  <2>1. Listed(MoveCursor(x, 0)) => Listed(x) BY <1>1, MoveCursorSpares DEF Listed
  <2>2. QED BY <1>1, <2>1, MoveCursorSpares, MoveCursorShows DEF Turned, Settled, RebuildRows
<1>2. QED BY <1>1 DEF Placed, ViewFields, PlacedFields

LEMMA FoldKeysTurned ==
  ASSUME NEW m, Placed(m)
  PROVE  \A path, v : Turned(m, SetCollapsed(m, path, v)) /\ Turned(m, FoldAll(m, v)) /\ Turned(m, ToggleCollapse(m))
<1>1. Turned(m, m) BY AlikeTurned DEF Alike
<1>2. ASSUME NEW path, NEW v PROVE Turned(m, SetCollapsed(m, path, v)) BY RefoldTurned DEF SetCollapsed
<1>3. ASSUME NEW v PROVE Turned(m, FoldAll(m, v))
  <2>1. [m EXCEPT !.foldDefault = v, !.folds = << >>] = [m EXCEPT !.folds = << >>, !.foldDefault = v] OBVIOUS
  <2>2. QED BY <1>1, <2>1, RefoldTurned DEF FoldAll
<1>4. Turned(m, ToggleCollapse(m)) BY <1>1, <1>2 DEF ToggleCollapse
<1>5. QED BY <1>2, <1>3, <1>4

LEMMA MoveToParentTurned ==
  ASSUME NEW m, Placed(m), AtRow(m) PROVE Turned(m, MoveToParent(m))
<1> DEFINE above == {i \in 1..m.cursor : Visible(m)[i].depth < Current(m).depth}
           c == FS!Max(above) - 1
           to == Follow(c, m.scroll, BodyHeight(m))
           x == [m EXCEPT !.cursor = c]
           n == [x EXCEPT !.scroll = to]
<1>1. CASE above = {}
  <2>1. MoveToParent(m) = m BY <1>1 DEF MoveToParent
  <2>2. QED BY <2>1, AlikeTurned DEF Alike
<1>2. CASE above # {}
  <2>1. above \in SUBSET Int /\ \A i \in above : 1 <= i /\ i <= m.cursor BY DEF Placed
  <2>2. FS!Max(above) \in above
    <3>1. m.cursor \in Int /\ above \in SUBSET (1..m.cursor) BY DEF Placed
    <3>2. 1 \in Int OBVIOUS
    <3> HIDE DEF above
    <3>3. QED BY <1>2, <3>1, <3>2, ExtremesIn, Zenon
  <2>3. c \in Int /\ 0 <= c /\ c < m.cursor BY <2>1, <2>2 DEF Placed
  <2>4. BodyHeight(m) \in Int /\ BodyHeight(m) >= 1 BY BodyHeightPositive DEF Placed
  <2> HIDE DEF c
  <2>5. to \in Int /\ to <= c /\ c < to + BodyHeight(m) BY <2>3, <2>4, FollowShows DEF Placed
  <2>6. MoveToParent(m) = n
    <3>1. x.cursor = c /\ x.scroll = m.scroll /\ BodyHeight(x) = BodyHeight(m) BY DEF Placed, ViewFields, PlacedFields, BodyHeight
    <3>2. MoveToParent(m) = ClampScroll(x) BY <1>2 DEF MoveToParent, c
    <3>3. QED BY <3>1, <3>2 DEF ClampScroll
  <2> HIDE DEF to
  <2>7. /\ n.tree = m.tree /\ n.folds = m.folds /\ n.foldDefault = m.foldDefault /\ n.host = m.host
        /\ n.height = m.height /\ n.picker = m.picker /\ n.help = m.help /\ n.dirty = m.dirty
        /\ n.cursor = c /\ n.scroll = to /\ DOMAIN n = DOMAIN m
    BY DEF Placed, ViewFields, PlacedFields
  <2>8. Visible(n) = Visible(m) /\ BodyHeight(n) = BodyHeight(m) BY <2>7 DEF Visible, BodyHeight
  <2>9. Placed(n) BY <2>3, <2>5 DEF Placed, ViewFields, PlacedFields
  <2>10. Listed(n) => InView(n.cursor, n.scroll, Len(Visible(n)), BodyHeight(n))
    <3>1. Listed(n) => Len(Visible(m)) \in Nat /\ m.cursor < Len(Visible(m)) BY <2>8 DEF Listed, AtRow
    <3>2. QED BY <2>3, <2>5, <2>7, <2>8, <3>1 DEF InView, Placed
  <2>11. QED BY <2>6, <2>7, <2>9, <2>10 DEF Turned, Settled
<1>3. QED BY <1>1, <1>2

LEMMA TreeKeysTurned ==
  ASSUME NEW m, Placed(m) PROVE Turned(m, CollapseOrParent(m)) /\ Turned(m, ExpandOrChild(m))
<1>1. Turned(m, m) BY AlikeTurned DEF Alike
<1>2. Turned(m, CollapseOrParent(m)) BY <1>1, FoldKeysTurned, MoveToParentTurned DEF CollapseOrParent
<1>3. Turned(m, ExpandOrChild(m))
  <2>1. Turned(m, MoveCursor(m, 1)) BY MoveCursorTurned
  <2>2. QED BY <1>1, <2>1, FoldKeysTurned DEF ExpandOrChild
<1>4. QED BY <1>2, <1>3

(* Changing another field touches nothing that places a cursor.            *)
LEMMA AlikeWith ==
  ASSUME NEW m, NEW x, Placed(m), Alike(m, x), NEW v
  PROVE  /\ Placed(x)
         /\ Alike(m, [x EXCEPT !.modal = v]) /\ Alike(m, [x EXCEPT !.pending = v]) /\ Alike(m, [x EXCEPT !.number = v])
         /\ Alike(m, [x EXCEPT !.dirty = v]) /\ Alike(m, [x EXCEPT !.run = v]) /\ Alike(m, [x EXCEPT !.flags = v])
         /\ Alike(m, [x EXCEPT !.panel = v]) /\ Alike(m, [x EXCEPT !.leafIx = v]) /\ Alike(m, [x EXCEPT !.sortIx = v])
         /\ Alike(m, [x EXCEPT !.sortDsc = v]) /\ Alike(m, [x EXCEPT !.paused = v])
<1>1. Placed(x) BY AlikeTurned DEF Turned, Alike, PlacedFields, Placed
<1>2. ViewFields \subseteq DOMAIN x BY <1>1 DEF Placed
<1>3. ASSUME NEW n, DOMAIN n = DOMAIN x, \A f \in PlacedFields : n[f] = x[f] PROVE Alike(m, n)
  BY <1>3 DEF Alike
<1>4. /\ Alike(m, [x EXCEPT !.modal = v]) /\ Alike(m, [x EXCEPT !.pending = v]) /\ Alike(m, [x EXCEPT !.number = v])
  BY <1>2, <1>3 DEF PlacedFields, ViewFields
<1>5. /\ Alike(m, [x EXCEPT !.dirty = v]) /\ Alike(m, [x EXCEPT !.run = v]) /\ Alike(m, [x EXCEPT !.flags = v])
  BY <1>2, <1>3 DEF PlacedFields, ViewFields
<1>6. /\ Alike(m, [x EXCEPT !.panel = v]) /\ Alike(m, [x EXCEPT !.leafIx = v]) /\ Alike(m, [x EXCEPT !.sortIx = v])
  BY <1>2, <1>3 DEF PlacedFields, ViewFields
<1>7. Alike(m, [x EXCEPT !.sortDsc = v]) /\ Alike(m, [x EXCEPT !.paused = v])
  BY <1>2, <1>3 DEF PlacedFields, ViewFields
<1>8. QED BY <1>1, <1>4, <1>5, <1>6, <1>7

LEMMA DirtyAlike == ASSUME NEW m, NEW x, Placed(m), Alike(m, x) PROVE Alike(m, Dirty(x))
BY AlikeWith DEF Dirty

LEMMA SortAlike ==
  ASSUME NEW m, Placed(m) PROVE Alike(m, CycleSort(m)) /\ Alike(m, ToggleSortDir(m))
<1>1. Alike(m, m) BY DEF Alike
<1>2. ASSUME NEW x, Alike(m, x) PROVE Alike(m, ApplySort(x))
  <2>1. ASSUME NEW v PROVE Alike(m, [x EXCEPT !.flags.sort = v])
    BY <1>2, AlikeWith
  <2>2. QED BY <1>2, <2>1, AlikeWith, DirtyAlike DEF ApplySort
<1>3. ASSUME NEW v PROVE Alike(m, ApplySort([m EXCEPT !.sortIx = v])) /\ Alike(m, ApplySort([m EXCEPT !.sortDsc = v]))
  BY <1>1, <1>2, AlikeWith
<1>4. Alike(m, CycleSort(m)) BY <1>1, <1>3 DEF CycleSort
<1>5. Alike(m, ToggleSortDir(m)) BY <1>3 DEF ToggleSortDir
<1>6. QED BY <1>4, <1>5

LEMMA ColumnAlike ==
  ASSUME NEW m, Placed(m)
  PROVE  Alike(m, RemoveLastColumn(m)) /\ Alike(m, ToggleColumn(m))
<1>1. Alike(m, m) BY DEF Alike
<1>2. ASSUME NEW v PROVE Alike(m, [m EXCEPT !.flags.columns = v]) /\ Alike(m, [m EXCEPT !.flags.overrides = v]) BY <1>1, AlikeWith
<1>3. ASSUME NEW id PROVE Alike(m, RemoveColumn(m, id)) BY <1>1, <1>2, DirtyAlike DEF RemoveColumn
<1>4. ASSUME NEW id PROVE Alike(m, AppendColumn(m, id)) BY <1>2, DirtyAlike DEF AppendColumn
<1>5. ASSUME NEW id PROVE Alike(m, ToggleSystemMetric(m, id)) BY <1>2, DirtyAlike DEF ToggleSystemMetric
<1>6. QED BY <1>1, <1>3, <1>4, <1>5 DEF RemoveLastColumn, ToggleColumn

LEMMA ControlAlike ==
  ASSUME NEW m, Placed(m)
  PROVE  /\ \A kind : Alike(m, StartControl(m, kind))
         /\ \A k : Alike(m, NiceKey(m, k)) /\ Alike(m, ConfirmKey(m, k)) /\ Alike(m, DetailKey(m, k))
<1>1. Alike(m, m) BY DEF Alike
<1>2. ASSUME NEW v PROVE Alike(m, [m EXCEPT !.modal = v]) BY <1>1, AlikeWith
<1>3. ASSUME NEW x, Alike(m, x) PROVE Alike(m, BeginConfirm(x)) BY <1>3, AlikeWith DEF BeginConfirm
<1>4. ASSUME NEW v, NEW w, NEW n PROVE Alike(m, [[m EXCEPT !.pending = v] EXCEPT !.modal = w, !.number = n])
  BY <1>1, AlikeWith
<1>5. ASSUME NEW v PROVE Alike(m, [m EXCEPT !.pending = v]) BY <1>1, AlikeWith
<1>6. ASSUME NEW kind PROVE Alike(m, StartControl(m, kind)) BY <1>1, <1>3, <1>4, <1>5 DEF StartControl
<1>7. ASSUME NEW v, NEW n PROVE Alike(m, BeginConfirm([m EXCEPT !.modal = v, !.pending.nice = n]))
  <2>1. Alike(m, [m EXCEPT !.modal = v, !.pending.nice = n]) BY <1>1, AlikeWith
  <2>2. QED BY <2>1, <1>3
<1>8. ASSUME NEW v PROVE Alike(m, [m EXCEPT !.number = v]) BY <1>1, AlikeWith
<1>9. ASSUME NEW v, NEW d PROVE Alike(m, [m EXCEPT !.modal = v, !.dirty = d]) BY <1>1, AlikeWith
<1>10. ASSUME NEW k PROVE Alike(m, NiceKey(m, k)) BY <1>1, <1>2, <1>7, <1>8 DEF NiceKey
<1>11. ASSUME NEW k PROVE Alike(m, ConfirmKey(m, k)) BY <1>1, <1>2, <1>9 DEF ConfirmKey
<1>12. ASSUME NEW k PROVE Alike(m, DetailKey(m, k)) BY <1>1, <1>2 DEF DetailKey
<1>13. QED BY <1>6, <1>10, <1>11, <1>12

(* Another view starts at its top.                                         *)
LEMMA ToTopTurned ==
  ASSUME NEW m, NEW x, Placed(m), Alike(m, x) PROVE Turned(m, Dirty(ToTop(x)))
<1> DEFINE n == Dirty(ToTop(x))
<1>1. /\ n.tree = m.tree /\ n.folds = m.folds /\ n.foldDefault = m.foldDefault /\ n.host = m.host
      /\ n.height = m.height /\ n.picker = m.picker /\ n.help = m.help /\ n.cursor = 0 /\ n.scroll = 0 /\ DOMAIN n = DOMAIN m
  BY AlikeWith DEF Alike, PlacedFields, Placed, ViewFields, Dirty, ToTop
<1>2. Placed(n)
  <2>1. Placed(x) BY AlikeWith
  <2>2. QED BY <2>1 DEF Placed, ViewFields, PlacedFields, Dirty, ToTop
<1>3. BodyHeight(n) \in Int /\ BodyHeight(n) >= 1 BY <1>2, BodyHeightPositive DEF Placed
<1>4. Listed(n) => InView(n.cursor, n.scroll, Len(Visible(n)), BodyHeight(n)) BY <1>1, <1>3 DEF Listed, InView
<1>5. QED BY <1>1, <1>2, <1>4 DEF Turned, Settled

LEMMA ViewKeysTurned ==
  ASSUME NEW m, Placed(m)
  PROVE  Turned(m, CycleGroup(m)) /\ Turned(m, CycleLeaf(m)) /\ Turned(m, TogglePanel(m)) /\ Turned(m, TogglePause(m))
<1>1. Alike(m, m) BY DEF Alike
<1>2. ASSUME NEW v PROVE Alike(m, [m EXCEPT !.flags.group = v]) BY <1>1, AlikeWith
<1>3. ASSUME NEW v, NEW w PROVE Alike(m, [m EXCEPT !.leafIx = v, !.flags.leaf = w]) BY <1>1, AlikeWith
<1>4. ASSUME NEW v PROVE Alike(m, [m EXCEPT !.panel = v]) BY <1>1, AlikeWith
<1>5. ASSUME NEW v, NEW w PROVE Turned(m, [m EXCEPT !.paused = v, !.dirty = w]) BY <1>1, AlikeWith, AlikeTurned
<1>6. Turned(m, CycleGroup(m)) BY <1>2, ToTopTurned DEF CycleGroup
<1>7. Turned(m, CycleLeaf(m)) BY <1>3, ToTopTurned DEF CycleLeaf
<1>8. Turned(m, TogglePanel(m)) BY <1>4, ToTopTurned DEF TogglePanel
<1>9. Turned(m, TogglePause(m)) BY <1>5 DEF TogglePause
<1>10. QED BY <1>6, <1>7, <1>8, <1>9

-----------------------------------------------------------------------------
(* The column picker and the key map.                                      *)

LEMMA ChoicesAreFew == ASSUME NEW m PROVE Cardinality(Choices(m)) \in Nat
<1>1. IsFiniteSet(1..Len(Catalog)) BY ExplorerAssumption, FS_Interval
<1>2. Choices(m) \subseteq 1..Len(Catalog) BY DEF Choices
<1>3. QED BY <1>1, <1>2, FS_Subset, FS_CardinalityType

(* What is typed and where the picker is moved to, from a model alike.     *)
LEMMA PickerTurned ==
  ASSUME NEW m, NEW x, Placed(m), Alike(m, x)
  PROVE  /\ \A f : Turned(m, Narrow(x, f))
         /\ \A by \in Int : Turned(m, MovePicker(x, by))
<1>1. ASSUME NEW p, {"filter", "cursor", "scroll"} \subseteq DOMAIN p, p.cursor \in Int, p.scroll \in Int,
             LET n == [x EXCEPT !.picker = p]
             IN  InView(p.cursor, p.scroll, Cardinality(Choices(n)), PickerHeight(n))
      PROVE  Turned(m, [x EXCEPT !.picker = p])
  <2> DEFINE n == [x EXCEPT !.picker = p]
  <2>1. /\ n.tree = m.tree /\ n.folds = m.folds /\ n.foldDefault = m.foldDefault /\ n.host = m.host
        /\ n.cursor = m.cursor /\ n.scroll = m.scroll /\ n.help = m.help /\ n.picker = p /\ DOMAIN n = DOMAIN m
    BY DEF Alike, PlacedFields, Placed, ViewFields
  <2>2. Placed(n)
    <3>1. Placed(x) BY AlikeWith
    <3>2. QED BY <1>1, <3>1 DEF Placed, ViewFields, PlacedFields
  <2>3. QED BY <1>1, <2>1, <2>2 DEF Turned, Settled, Table
<1>2. PickerHeight(x) \in Int /\ PickerHeight(x) >= 1 /\ x.picker.cursor \in Int /\ x.picker.scroll \in Int
  BY AlikeWith, BodyHeightPositive DEF Placed
<1>3. ASSUME NEW p PROVE PickerHeight([x EXCEPT !.picker = p]) = PickerHeight(x) BY DEF PickerHeight
<1>4. ASSUME NEW f PROVE Turned(m, Narrow(x, f))
  <2> DEFINE p == [filter |-> f, cursor |-> 0, scroll |-> 0]
             n == [x EXCEPT !.picker = p]
  <2>1. Cardinality(Choices(n)) \in Nat BY ChoicesAreFew
  <2>2. InView(0, 0, Cardinality(Choices(n)), PickerHeight(n)) BY <1>2, <1>3, <2>1 DEF InView
  <2>3. {"filter", "cursor", "scroll"} \subseteq DOMAIN p /\ p.cursor = 0 /\ p.scroll = 0 OBVIOUS
  <2>4. Narrow(x, f) = n BY DEF Narrow
  <2> HIDE DEF p
  <2>5. QED BY <1>1, <2>2, <2>3, <2>4
<1>5. ASSUME NEW by \in Int PROVE Turned(m, MovePicker(x, by))
  <2> DEFINE rows == Cardinality(Choices(x))
             c == Clamp(x.picker.cursor + by, 0, rows - 1)
             to == Follow(c, x.picker.scroll, PickerHeight(x))
             p == [[x.picker EXCEPT !.cursor = c] EXCEPT !.scroll = to]
             n == [x EXCEPT !.picker = p]
  <2>1. rows \in Nat BY ChoicesAreFew
  <2>2. c \in Int /\ 0 <= c /\ (rows > 0 => c < rows) /\ (rows = 0 => c = 0)
    <3>1. x.picker.cursor + by \in Int BY <1>2
    <3>2. QED BY <2>1, <3>1, CursorClamped
  <2>3. to \in Int /\ to <= c /\ c < to + PickerHeight(x) BY <1>2, <2>2, FollowShows
  <2>4. {"filter", "cursor", "scroll"} \subseteq DOMAIN x.picker /\ "picker" \in DOMAIN x
    BY AlikeWith DEF Placed, ViewFields, PlacedFields
  <2>5. MovePicker(x, by) = n
    <3> HIDE DEF c
    <3>1. MovePicker(x, by) = [x EXCEPT !.picker.cursor = c, !.picker.scroll = Follow(c, @, PickerHeight(x))] BY DEF MovePicker, c
    <3>2. QED BY <2>4, <3>1
  <2> HIDE DEF c, to
  <2>6. p.cursor = c /\ p.scroll = to /\ p.filter = x.picker.filter /\ n.picker = p /\ DOMAIN p = DOMAIN x.picker BY <2>4
  <2>7. Choices(n) = Choices(x) BY <2>6 DEF Choices
  <2>8. InView(p.cursor, p.scroll, Cardinality(Choices(n)), PickerHeight(n))
    <3>1. PickerHeight(n) = PickerHeight(x) BY <1>3
    <3>2. InView(c, to, rows, PickerHeight(x)) BY <2>1, <2>2, <2>3 DEF InView
    <3> HIDE DEF n, p
    <3>3. QED BY <2>6, <2>7, <3>1, <3>2
  <2>9. QED BY <1>1, <2>2, <2>3, <2>4, <2>5, <2>6, <2>8
<1>6. QED BY <1>4, <1>5

LEMMA ColKeyTurned == ASSUME NEW m, NEW k, Placed(m) PROVE Turned(m, ColKey(m, k))
<1>1. Alike(m, m) BY DEF Alike
<1>2. Turned(m, m) /\ Turned(m, ToggleColumn(m)) /\ Turned(m, [m EXCEPT !.modal = "none"])
  BY <1>1, AlikeTurned, AlikeWith, ColumnAlike
<1>3. PickerHeight(m) \in Int /\ -PickerHeight(m) \in Int BY BodyHeightPositive DEF Placed
<1>4. \A by \in {-1, 1, PickerHeight(m), -PickerHeight(m)} : Turned(m, MovePicker(m, by)) BY <1>1, <1>3, PickerTurned
<1>5. \A f : Turned(m, Narrow(m, f)) BY <1>1, PickerTurned
<1>6. QED BY <1>2, <1>4, <1>5 DEF ColKey

(* The key map is scrolled as far as it goes.                              *)
LEMMA HelpTurned ==
  ASSUME NEW m, NEW v, NEW h \in Int, Placed(m),
         h \in 0..FS!Max({0, HelpLines - BodyHeight(m)})
  PROVE  Turned(m, [m EXCEPT !.modal = v, !.help = h])
<1> DEFINE n == [m EXCEPT !.modal = v, !.help = h]
<1>1. /\ n.tree = m.tree /\ n.folds = m.folds /\ n.foldDefault = m.foldDefault /\ n.host = m.host /\ n.height = m.height
      /\ n.cursor = m.cursor /\ n.scroll = m.scroll /\ n.help = h /\ n.picker = m.picker /\ n.dirty = m.dirty
      /\ DOMAIN n = DOMAIN m
  BY DEF PlacedFields, Placed, ViewFields
<1>2. Placed(n) BY DEF Placed, ViewFields, PlacedFields
<1>3. BodyHeight(n) = BodyHeight(m) BY <1>1 DEF BodyHeight
<1>4. QED BY <1>1, <1>2, <1>3 DEF Turned, Settled, Table

LEMMA HelpKeyTurned ==
  ASSUME NEW m, NEW k, Placed(m)
  PROVE  Turned(m, HelpKey(m, k)) /\ Turned(m, [m EXCEPT !.modal = "help", !.help = 0])
<1> DEFINE last == HelpLines - BodyHeight(m)
<1>1. BodyHeight(m) \in Int /\ m.help \in Int /\ "help" \in DOMAIN m BY BodyHeightPositive DEF Placed, ViewFields, PlacedFields
<1>2. last \in Int BY <1>1, ExplorerAssumption
<1>3. FS!Max({0, last}) \in Int /\ FS!Max({0, last}) >= 0 /\ FS!Max({0, last}) >= last BY <1>2, MaxOfTwo
<1> HIDE DEF last
<1>4. ASSUME NEW v \in Int PROVE Clamp(v, 0, last) \in Int /\ Clamp(v, 0, last) \in 0..FS!Max({0, last})
  <2>1. /\ Clamp(v, 0, last) \in Int /\ 0 <= Clamp(v, 0, last)
        /\ 0 <= last => Clamp(v, 0, last) <= last
        /\ last < 0 => Clamp(v, 0, last) = 0
    BY <1>2, ClampIn
  <2>2. QED BY <1>2, <1>3, <2>1
<1>5. Turned(m, HelpKey(m, k))
  <2> DEFINE by == CASE k \in {"down", "j"} -> 1 [] k \in {"up", "k"} -> -1
                     [] k = "pgdn" -> BodyHeight(m) [] k = "pgup" -> -BodyHeight(m) [] OTHER -> 0
             v == IF k \in {"?", "q", "esc", "ctrl-c"} THEN "none" ELSE m.modal
             h == Clamp(m.help + by, 0, last)
  <2>1. by \in Int BY <1>1
  <2>2. m.help + by \in Int BY <1>1, <2>1
  <2> HIDE DEF by
  <2>3. h \in Int /\ h \in 0..FS!Max({0, last}) BY <1>4, <2>2
  <2>4. HelpKey(m, k) = [m EXCEPT !.modal = v, !.help = h] BY DEF HelpKey, by, last
  <2> HIDE DEF h, v
  <2>5. Turned(m, [m EXCEPT !.modal = v, !.help = h]) BY <2>3, HelpTurned, Zenon DEF last
  <2>6. QED BY <2>4, <2>5
<1>6. Turned(m, [m EXCEPT !.modal = "help", !.help = 0])
  <2>1. 0 \in 0..FS!Max({0, last}) BY <1>3
  <2>2. 0 \in Int OBVIOUS
  <2>3. QED BY <2>1, <2>2, HelpTurned, Zenon DEF last
<1>7. QED BY <1>5, <1>6

-----------------------------------------------------------------------------
(* The filter line.                                                        *)

LineFields == {"edit", "pos", "hist", "histIx", "filter"}
\* Nothing but the line and its history is touched, and they are texts.
Beside(m, n) == DOMAIN n = DOMAIN m /\ \A f \in PlacedFields \ LineFields : n[f] = m[f]
Typed(m) ==
  /\ m.filter \in Seq(Chars) /\ m.edit \in Seq(Chars) /\ m.pos \in 0..Len(m.edit)
  /\ m.hist \in Seq(Seq(Chars)) /\ m.histIx \in Int
Edits(m, n) == Beside(m, n) /\ Typed(n)

LEMMA EditsTurned == ASSUME NEW m, NEW n, Placed(m), Edits(m, n) PROVE Turned(m, n)
<1>1. /\ n.tree = m.tree /\ n.folds = m.folds /\ n.foldDefault = m.foldDefault /\ n.cursor = m.cursor /\ n.scroll = m.scroll
      /\ n.height = m.height /\ n.picker = m.picker /\ n.help = m.help /\ n.host = m.host
  BY DEF Edits, Beside, PlacedFields, LineFields
<1>2. Placed(n) BY <1>1 DEF Placed, Edits, Beside, Typed
<1>3. Settled(m, n) BY <1>1 DEF Settled, Table
<1>4. QED BY <1>1, <1>2, <1>3 DEF Turned, Edits, Beside

LEMMA EditsWith ==
  ASSUME NEW m, NEW x, Placed(m), Edits(m, x)
  PROVE  /\ \A v : Edits(m, [x EXCEPT !.modal = v]) /\ Edits(m, [x EXCEPT !.dirty = v])
         /\ \A f \in Seq(Chars) : Edits(m, [x EXCEPT !.filter = f])
         /\ \A ix \in Int : Edits(m, [x EXCEPT !.histIx = ix])
         /\ \A h \in Seq(Seq(Chars)) : Edits(m, [x EXCEPT !.hist = h])
         /\ \A text \in Seq(Chars) : \A pos \in 0..Len(text) : Edits(m, Buffer(x, text, pos))
<1>1. ViewFields \subseteq DOMAIN x BY DEF Edits, Beside, Placed
<1>2. \A v : Edits(m, [x EXCEPT !.modal = v]) /\ Edits(m, [x EXCEPT !.dirty = v])
  BY <1>1 DEF Edits, Beside, Typed, PlacedFields, LineFields, ViewFields
<1>3. \A f \in Seq(Chars) : Edits(m, [x EXCEPT !.filter = f])
  BY <1>1 DEF Edits, Beside, Typed, PlacedFields, LineFields, ViewFields
<1>4. \A ix \in Int : Edits(m, [x EXCEPT !.histIx = ix])
  BY <1>1 DEF Edits, Beside, Typed, PlacedFields, LineFields, ViewFields
<1>5. \A h \in Seq(Seq(Chars)) : Edits(m, [x EXCEPT !.hist = h])
  BY <1>1 DEF Edits, Beside, Typed, PlacedFields, LineFields, ViewFields
<1>6. ASSUME NEW text \in Seq(Chars), NEW pos \in 0..Len(text) PROVE Edits(m, Buffer(x, text, pos))
  BY <1>1, <1>6 DEF Edits, Beside, Typed, PlacedFields, LineFields, ViewFields, Buffer
<1>7. QED BY <1>2, <1>3, <1>4, <1>5, <1>6

(* Positions in a line.                                                    *)
LEMMA WithinLine ==
  ASSUME NEW hi \in Nat, NEW b \in 0..hi, NEW T \in SUBSET (0..hi)
  PROVE  FS!Max({b} \cup T) \in 0..hi /\ FS!Min({b} \cup T) \in 0..hi
<1>1. {b} \cup T \in SUBSET (0..hi) /\ {b} \cup T # {} /\ 0 \in Int /\ hi \in Int OBVIOUS
<1>2. QED BY <1>1, ExtremesIn, Zenon

LEMMA Piece ==
  ASSUME NEW s \in Seq(Chars), NEW a \in Int, NEW b \in Int, 1 <= a, b <= Len(s)
  PROVE  SubSeq(s, a, b) \in Seq(Chars) /\ Len(SubSeq(s, a, b)) = IF a <= b THEN b - a + 1 ELSE 0
<1>1. \A i \in a..b : s[i] \in Chars OBVIOUS
<1>2. QED BY <1>1, SubSeqProperties

LEMMA WordsWithin ==
  ASSUME NEW s \in Seq(Chars), NEW pos \in 0..Len(s)
  PROVE  WordLeft(s, pos) \in 0..Len(s) /\ WordRight(s, pos) \in 0..Len(s)
<1>1. Len(s) \in Nat /\ 0 \in 0..Len(s) /\ Len(s) \in 0..Len(s) OBVIOUS
<1>2. {i - 1 : i \in {j \in WordStarts(s) : j <= pos}} \in SUBSET (0..Len(s)) BY <1>1 DEF WordStarts
<1>3. {i \in WordEnds(s) : i > pos} \in SUBSET (0..Len(s)) BY <1>1 DEF WordEnds
<1>4. QED BY <1>1, <1>2, <1>3, WithinLine, Zenon DEF WordLeft, WordRight

LEMMA TrimmedIsText == ASSUME NEW s \in Seq(Chars) PROVE TrimSpace(s) \in Seq(Chars)
<1> DEFINE solid == {i \in 1..Len(s) : s[i] \notin Spaces}
<1>1. CASE solid = {}
  <2>1. TrimSpace(s) = << >> BY <1>1, Zenon DEF TrimSpace
  <2>2. QED BY <2>1
<1>2. CASE solid # {}
  <2>1. solid \in SUBSET (1..Len(s)) /\ 1 \in Int /\ Len(s) \in Int OBVIOUS
  <2>2. TrimSpace(s) = SubSeq(s, FS!Min(solid), FS!Max(solid)) BY <1>2, Zenon DEF TrimSpace
  <2>3. \A i \in solid : i \in Int /\ 1 <= i /\ i <= Len(s) OBVIOUS
  <2> HIDE DEF solid
  <2>4. FS!Min(solid) \in solid /\ FS!Max(solid) \in solid BY <1>2, <2>1, ExtremesIn, Zenon
  <2>5. FS!Min(solid) \in Int /\ FS!Max(solid) \in Int /\ 1 <= FS!Min(solid) /\ FS!Max(solid) <= Len(s) BY <2>4, <2>3, Zenon
  <2>6. QED BY <2>2, <2>5, Piece
<1>3. QED BY <1>1, <1>2

LEMMA OperatorsAreTexts == ASSUME NEW field PROVE \A i \in DOMAIN Operators(field) : Operators(field)[i] \in Seq(Chars)
<1>1. \A o \in {"==", "!=", ">", "<", ">=", "<=", "~="} : OpText(o) \in Seq(Chars)
  <2>1. \A x \in {<<"=", "=">>, <<"!", "=">>, <<"<">>, <<"<", "=">>, <<">">>, <<">", "=">>, <<"~", "=">>} : x \in Seq(Chars)
    BY Words, Zenon DEF Chars
  <2>2. /\ OpText("==") = <<"=", "=">> /\ OpText("!=") = <<"!", "=">> /\ OpText("<") = <<"<">> /\ OpText("<=") = <<"<", "=">>
        /\ OpText(">") = <<">">> /\ OpText(">=") = <<">", "=">> /\ OpText("~=") = <<"~", "=">>
    BY DEF OpText
  <2>3. QED BY <2>1, <2>2, Zenon
<1>2. In \in Seq(Chars) /\ ContainsWord \in Seq(Chars) BY Words, Zenon DEF In, ContainsWord, Chars
<1> DEFINE nums == <<OpText("=="), OpText("!="), OpText(">"), OpText("<"), OpText(">="), OpText("<="), In>>
           strs == <<OpText("=="), OpText("!="), OpText("~="), ContainsWord, In>>
<1>3. Operators(field) \in {nums, strs} BY Zenon DEF Operators
<1>4. nums \in Seq(Seq(Chars)) BY <1>1, <1>2
<1>5. strs \in Seq(Seq(Chars)) BY <1>1, <1>2
<1> HIDE DEF nums, strs
<1>6. QED BY <1>3, <1>4, <1>5

(* What is suggested is a text, for a place in what was typed.             *)
LEMMA CompletionFits ==
  ASSUME NEW m, Placed(m)
  PROVE  Completion(m).start \in 0..m.pos /\ \A w \in Completion(m).suggest : w \in Seq(Chars)
<1> DEFINE head == Before(m)
           joints == {i \in 2..Len(head) : SubSeq(head, i - 1, i) \in {<<"&", "&">>, <<"|", "|">>}}
           clause == FS!Max({0} \cup joints)
           gaps == {i \in (clause + 1)..Len(head) : head[i] = " "}
           start == FS!Max({clause} \cup gaps)
           prior == SubSeq(head, clause + 1, start)
           first == FS!Min({Len(prior) + 1} \cup WordStarts(prior))
           field == SubSeq(prior, first, FS!Min({Len(prior)} \cup WordEnds(prior)))
           known == [i \in {j \in 1..Len(m.cols) : m.cols[j] \in Filterable} |-> Spelling[m.cols[i]]]
           offered == CASE WordStarts(prior) = {} -> known
                        [] Cardinality(WordStarts(prior)) = 1 -> Operators(field)
                        [] OTHER -> << >>
           fits == {i \in DOMAIN offered : S!IsPrefix(SubSeq(head, start + 1, Len(head)), offered[i])}
<1>1. Completion(m).start = start /\ Completion(m).suggest = {offered[i] : i \in {j \in fits : \A k \in fits : j <= k}}
  BY DEF Completion
<1>2. Len(head) = m.pos /\ m.pos \in Nat
  <2>1. m.pos \in 0..Len(m.edit) /\ m.edit \in Seq(Chars) BY DEF Placed
  <2>2. m.pos \in Int /\ m.pos <= Len(m.edit) /\ 1 \in Int BY <2>1
  <2>3. QED BY <2>1, <2>2, Piece DEF Before
<1>3. start \in 0..m.pos
  <2> HIDE DEF head
  <2>1. joints \in SUBSET (0..m.pos) /\ 0 \in 0..m.pos BY <1>2
  <2> HIDE DEF joints
  <2>2. clause \in 0..m.pos BY <1>2, <2>1, WithinLine, Zenon
  <2> HIDE DEF clause
  <2>3. gaps \in SUBSET (0..m.pos)
    <3>1. (clause + 1)..Len(head) \subseteq 0..m.pos BY <1>2, <2>2
    <3>2. QED BY <3>1, Zenon
  <2> HIDE DEF gaps
  <2>4. QED BY <1>2, <2>2, <2>3, WithinLine, Zenon
<1>4. \A i \in DOMAIN known : known[i] \in Seq(Chars) BY ExplorerAssumption, TypedChars
<1> HIDE DEF head, known
<1>5. \A i \in DOMAIN offered : offered[i] \in Seq(Chars)
  <2> DEFINE given == Operators(field)
  <2>1. \A i \in DOMAIN given : given[i] \in Seq(Chars) BY OperatorsAreTexts, Zenon
  <2>2. DOMAIN << >> = {} OBVIOUS
  <2>3. offered = known \/ offered = given \/ offered = << >>
    <3> HIDE DEF given, prior
    <3>1. offered = CASE WordStarts(prior) = {} -> known [] Cardinality(WordStarts(prior)) = 1 -> given [] OTHER -> << >>
      BY Zenon DEF given
    <3> HIDE DEF offered
    <3>2. QED BY <3>1
  <2> HIDE DEF given, offered
  <2>4. QED BY <1>4, <2>1, <2>2, <2>3, Zenon
<1> HIDE DEF offered, start
<1>6. \A w \in Completion(m).suggest : w \in Seq(Chars) BY <1>1, <1>5
<1>7. QED BY <1>1, <1>3, <1>6

LEMMA SuggestionEdits ==
  ASSUME NEW m, Placed(m), Completion(m).suggest # {}
  PROVE  Edits(m, ApplySuggestion(m, Completion(m)))
<1> DEFINE c == Completion(m)
           word == CHOOSE w \in c.suggest : TRUE
           text == SubSeq(m.edit, 1, c.start) \o word \o <<" ">>
<1>1. word \in Seq(Chars) BY CompletionFits
<1>2. c.start \in Int /\ c.start <= Len(m.edit) /\ m.pos \in Int /\ m.pos <= Len(m.edit) /\ 0 <= m.pos /\ m.edit \in Seq(Chars)
  <2>1. c.start \in 0..m.pos /\ m.pos \in 0..Len(m.edit) /\ m.edit \in Seq(Chars) BY CompletionFits DEF Placed
  <2> HIDE DEF c
  <2>2. QED BY <2>1
<1>3. ApplySuggestion(m, c) = Buffer(m, text \o Behind(m), Len(text)) BY DEF ApplySuggestion
<1>4. SubSeq(m.edit, 1, c.start) \in Seq(Chars) /\ Behind(m) \in Seq(Chars) BY <1>2, Piece DEF Behind
<1>5. text \in Seq(Chars)
  <2> HIDE DEF word, c
  <2>1. <<" ">> \in Seq(Chars) BY Words, Zenon DEF Chars
  <2>2. \A a, b, d \in Seq(Chars) : a \o b \o d \in Seq(Chars) BY ConcatProperties
  <2>3. QED BY <1>1, <1>4, <2>1, <2>2, Zenon
<1> HIDE DEF text, c
<1>6. text \o Behind(m) \in Seq(Chars) /\ Len(text) \in 0..Len(text \o Behind(m)) BY <1>4, <1>5, ConcatProperties
<1>7. Edits(m, m) BY DEF Edits, Beside, Typed, Placed
<1>8. Edits(m, Buffer(m, text \o Behind(m), Len(text))) BY <1>6, <1>7, EditsWith, Zenon
<1>9. QED BY <1>3, <1>8 DEF c

(* A filter that is accepted goes into force and to the end of the history. *)
LEMMA FilterEdits == ASSUME NEW m, Placed(m), NEW s \in Seq(Chars) PROVE Edits(m, FilterBy(m, s))
<1>1. Edits(m, m) BY DEF Edits, Beside, Typed, Placed
<1>2. BareSearch(s) \in Seq(Chars)
  <2> DEFINE joined == Spelling["target"] \o <<" ", "~", "=", " ", "\"">> \o AnyCase \o s \o <<"\"">>
  <2>1. Spelling["target"] \in Seq(Chars) BY ExplorerAssumption, TypedChars
  <2>2. AnyCase \in Seq(Chars) BY Words, Zenon DEF AnyCase, Chars
  <2>3. <<" ", "~", "=", " ", "\"">> \in Seq(Chars) BY Words, Zenon DEF Chars
  <2>4. <<"\"">> \in Seq(Chars) BY Words, Zenon DEF Chars
  <2>5. \A a, b, c, d, e \in Seq(Chars) : a \o b \o c \o d \o e \in Seq(Chars) BY ConcatProperties
  <2>6. joined \in Seq(Chars) BY <2>1, <2>2, <2>3, <2>4, <2>5, Zenon
  <2>7. BareSearch(s) \in {s, joined} BY Zenon DEF BareSearch
  <2> HIDE DEF joined
  <2>8. QED BY <2>6, <2>7
<1>3. ASSUME NEW x, Edits(m, x) PROVE Edits(m, PushHistory(x, s))
  <2> DEFINE hist == IF x.hist # << >> /\ S!Last(x.hist) = s THEN x.hist ELSE Append(x.hist, s)
  <2>1. x.hist \in Seq(Seq(Chars)) BY <1>3 DEF Edits, Typed
  <2>2. hist \in Seq(Seq(Chars)) /\ Len(hist) \in Int BY <2>1
  <2> HIDE DEF hist
  <2>3. Edits(m, [x EXCEPT !.hist = hist]) BY <1>3, <2>2, EditsWith
  <2>4. Edits(m, [[x EXCEPT !.hist = hist] EXCEPT !.histIx = Len(hist)]) BY <2>2, <2>3, EditsWith
  <2>5. PushHistory(x, s) = [[x EXCEPT !.hist = hist] EXCEPT !.histIx = Len(hist)] BY DEF PushHistory, hist
  <2>6. QED BY <2>4, <2>5
<1>4. ASSUME NEW f \in Seq(Chars) PROVE Edits(m, Dirty([m EXCEPT !.modal = "none", !.filter = f]))
  BY <1>1, EditsWith DEF Dirty
<1>5. << >> \in Seq(Chars) OBVIOUS
<1>6. QED BY <1>1, <1>2, <1>3, <1>4, <1>5 DEF FilterBy

LEMMA HistoryEdits == ASSUME NEW m, Placed(m), NEW by \in Int PROVE Edits(m, HistoryMove(m, by))
<1> DEFINE ix == Clamp(m.histIx + by, 0, Len(m.hist))
           text == IF ix = Len(m.hist) THEN << >> ELSE m.hist[ix + 1]
<1>1. Edits(m, m) BY DEF Edits, Beside, Typed, Placed
<1>2. m.hist \in Seq(Seq(Chars)) /\ Len(m.hist) \in Nat /\ m.histIx + by \in Int BY DEF Placed
<1>3. ix \in Int /\ 0 <= ix /\ ix <= Len(m.hist)
  <2>1. 0 \in Int /\ Len(m.hist) \in Int /\ 0 <= Len(m.hist) BY <1>2
  <2>2. QED BY <1>2, <2>1, ClampIn, Zenon
<1>4. HistoryMove(m, by) = Buffer([m EXCEPT !.histIx = ix], text, Len(text)) BY DEF HistoryMove
<1> HIDE DEF ix
<1>5. text \in Seq(Chars) /\ Len(text) \in 0..Len(text)
  <2>1. ix # Len(m.hist) => m.hist[ix + 1] \in Seq(Chars) BY <1>2, <1>3
  <2>2. << >> \in Seq(Chars) OBVIOUS
  <2>3. text \in Seq(Chars) BY <2>1, <2>2, Zenon
  <2> HIDE DEF text
  <2>4. QED BY <2>3
<1> HIDE DEF text
<1>6. Edits(m, [m EXCEPT !.histIx = ix]) BY <1>1, <1>3, EditsWith, Zenon
<1>7. Edits(m, Buffer([m EXCEPT !.histIx = ix], text, Len(text))) BY <1>5, <1>6, EditsWith, Zenon
<1>8. QED BY <1>4, <1>7

(* The pieces of a line around the cursor.                                 *)
LEMMA AroundCursor ==
  ASSUME NEW m, Placed(m)
  PROVE  /\ m.edit \in Seq(Chars) /\ m.pos \in Int /\ 0 <= m.pos /\ m.pos <= Len(m.edit) /\ Len(m.edit) \in Nat
         /\ Before(m) \in Seq(Chars) /\ Len(Before(m)) = m.pos
         /\ Behind(m) \in Seq(Chars) /\ Len(Behind(m)) = Len(m.edit) - m.pos
<1>1. m.edit \in Seq(Chars) /\ m.pos \in Int /\ 0 <= m.pos /\ m.pos <= Len(m.edit) /\ Len(m.edit) \in Nat
  <2>1. m.edit \in Seq(Chars) /\ m.pos \in 0..Len(m.edit) BY DEF Placed
  <2>2. QED BY <2>1
<1>2. Before(m) \in Seq(Chars) /\ Len(Before(m)) = m.pos BY <1>1, Piece DEF Before
<1>3. Behind(m) \in Seq(Chars) /\ Len(Behind(m)) = Len(m.edit) - m.pos BY <1>1, Piece DEF Behind
<1>4. QED BY <1>1, <1>2, <1>3

LEMMA TypingEdits ==
  ASSUME NEW m, Placed(m), NEW k \in Chars
  PROVE  /\ m.pos # 0 => Edits(m, Buffer(m, S!Front(Before(m)) \o Behind(m), m.pos - 1))
         /\ Behind(m) # << >> => Edits(m, Buffer(m, Before(m) \o Tail(Behind(m)), m.pos))
         /\ Edits(m, Buffer(m, Append(Before(m), k) \o Behind(m), m.pos + 1))
<1> DEFINE head == Before(m)
           rest == Behind(m)
<1>1. Edits(m, m) BY DEF Edits, Beside, Typed, Placed
<1>2. /\ head \in Seq(Chars) /\ Len(head) = m.pos /\ m.pos \in Int /\ 0 <= m.pos
      /\ rest \in Seq(Chars) /\ Len(rest) \in Nat
  BY AroundCursor
<1> HIDE DEF head, rest
<1>3. ASSUME NEW a \in Seq(Chars), NEW b \in Seq(Chars), NEW p \in Int, 0 <= p, p <= Len(a)
      PROVE  Edits(m, Buffer(m, a \o b, p))
  <2>1. a \o b \in Seq(Chars) /\ p \in 0..Len(a \o b) BY <1>3, ConcatProperties
  <2>2. QED BY <1>1, <2>1, EditsWith, Zenon
<1>4. ASSUME m.pos # 0 PROVE Edits(m, Buffer(m, S!Front(head) \o rest, m.pos - 1))
  <2>1. 1 \in Int /\ Len(head) - 1 \in Int /\ Len(head) - 1 <= Len(head) BY <1>2
  <2>2. S!Front(head) \in Seq(Chars) /\ Len(S!Front(head)) = m.pos - 1 BY <1>2, <1>4, <2>1, Piece DEF S!Front
  <2>3. QED BY <1>2, <1>3, <1>4, <2>2
<1>5. ASSUME rest # << >> PROVE Edits(m, Buffer(m, head \o Tail(rest), m.pos))
  <2>1. Tail(rest) \in Seq(Chars) BY <1>2, <1>5, HeadTailProperties
  <2>2. m.pos <= Len(head) BY <1>2
  <2>3. QED BY <1>2, <1>3, <2>1, <2>2, Zenon
<1>6. Edits(m, Buffer(m, Append(head, k) \o rest, m.pos + 1))
  <2>1. Append(head, k) \in Seq(Chars) /\ Len(Append(head, k)) = m.pos + 1 BY <1>2, AppendProperties
  <2>2. m.pos + 1 \in Int /\ 0 <= m.pos + 1 /\ m.pos + 1 <= Len(Append(head, k)) BY <1>2, <2>1
  <2>3. QED BY <1>2, <1>3, <2>1, <2>2, Zenon
<1>7. QED BY <1>4, <1>5, <1>6 DEF head, rest

LEMMA EditKeyTurned == ASSUME NEW m, NEW k \in Chars, Placed(m) PROVE Turned(m, EditKey(m, k))
<1>1. Edits(m, m) BY DEF Edits, Beside, Typed, Placed
<1>2. ASSUME NEW p \in 0..Len(m.edit) PROVE Edits(m, Buffer(m, m.edit, p)) BY <1>1, AroundCursor, EditsWith, Zenon
<1>3. Clamp(m.pos - 1, 0, m.pos) \in 0..Len(m.edit) /\ Clamp(m.pos + 1, 0, Len(m.edit)) \in 0..Len(m.edit)
  BY AroundCursor DEF Clamp
<1>4. 0 \in 0..Len(m.edit) /\ Len(m.edit) \in 0..Len(m.edit) BY AroundCursor
<1>5. WordLeft(m.edit, m.pos) \in 0..Len(m.edit) /\ WordRight(m.edit, m.pos) \in 0..Len(m.edit)
  BY WordsWithin DEF Placed
<1>6. Edits(m, HistoryMove(m, -1)) /\ Edits(m, HistoryMove(m, 1)) BY HistoryEdits
<1>7. Edits(m, ApplyFilter(m)) BY AroundCursor, TrimmedIsText, FilterEdits DEF ApplyFilter
<1>8. Edits(m, [m EXCEPT !.modal = "none"]) BY <1>1, EditsWith
<1>9. Completion(m).suggest # {} => Edits(m, ApplySuggestion(m, Completion(m))) BY SuggestionEdits
<1>10. /\ m.pos # 0 => Edits(m, Buffer(m, S!Front(Before(m)) \o Behind(m), m.pos - 1))
       /\ Behind(m) # << >> => Edits(m, Buffer(m, Before(m) \o Tail(Behind(m)), m.pos))
       /\ Edits(m, Buffer(m, Append(Before(m), k) \o Behind(m), m.pos + 1))
  BY TypingEdits
<1>11. Edits(m, EditKey(m, k))
  BY <1>1, <1>2, <1>3, <1>4, <1>5, <1>6, <1>7, <1>8, <1>9, <1>10 DEF EditKey
<1>12. QED BY <1>11, EditsTurned

LEMMA StartFilterTurned == ASSUME NEW m, Placed(m) PROVE Turned(m, StartFilter(m))
<1>1. Edits(m, m) BY DEF Edits, Beside, Typed, Placed
<1>2. Len(m.hist) \in Int /\ m.filter \in Seq(Chars) BY DEF Placed
<1>3. Len(m.filter) \in 0..Len(m.filter) BY <1>2
<1>4. Edits(m, [m EXCEPT !.modal = "edit"]) BY <1>1, EditsWith
<1>5. Edits(m, [[m EXCEPT !.modal = "edit"] EXCEPT !.histIx = Len(m.hist)]) BY <1>2, <1>4, EditsWith, Zenon
<1>6. Edits(m, Buffer([[m EXCEPT !.modal = "edit"] EXCEPT !.histIx = Len(m.hist)], m.filter, Len(m.filter)))
  BY <1>2, <1>3, <1>5, EditsWith, Zenon
<1>7. StartFilter(m) = Buffer([[m EXCEPT !.modal = "edit"] EXCEPT !.histIx = Len(m.hist)], m.filter, Len(m.filter)) BY DEF StartFilter
<1>8. QED BY <1>6, <1>7, EditsTurned

-----------------------------------------------------------------------------
(* The steps.                                                              *)

LEMMA CommandTurned == ASSUME NEW m, NEW k, Placed(m) PROVE Turned(m, Command(m, k))
<1>1. Alike(m, m) BY DEF Alike
<1>2. Turned(m, m) BY <1>1, AlikeTurned
<1>3. ASSUME NEW v PROVE Turned(m, [m EXCEPT !.run = v]) /\ Turned(m, [m EXCEPT !.modal = v]) BY <1>1, AlikeWith, AlikeTurned
<1>4. Turned(m, Dirty(m)) BY <1>1, DirtyAlike, AlikeTurned
<1>5. Turned(m, CycleSort(m)) /\ Turned(m, ToggleSortDir(m)) /\ Turned(m, RemoveLastColumn(m))
  BY SortAlike, ColumnAlike, AlikeTurned
<1>6. \A kind : Turned(m, StartControl(m, kind)) BY ControlAlike, AlikeTurned
<1>7. Turned(m, MoveCursor(m, -1)) /\ Turned(m, MoveCursor(m, 1))
  <2>1. -1 \in Int /\ 1 \in Int OBVIOUS
  <2>2. QED BY <2>1, MoveCursorTurned, Zenon
<1>8. Turned(m, MoveCursor(m, BodyHeight(m))) /\ Turned(m, MoveCursor(m, -BodyHeight(m)))
  <2>1. BodyHeight(m) \in Int /\ -BodyHeight(m) \in Int BY BodyHeightPositive DEF Placed
  <2>2. QED BY <2>1, MoveCursorTurned, Zenon
<1>9. Turned(m, ToggleCollapse(m)) /\ \A v : Turned(m, FoldAll(m, v)) BY FoldKeysTurned, Zenon
<1>10. Turned(m, CollapseOrParent(m)) /\ Turned(m, ExpandOrChild(m)) BY TreeKeysTurned
<1>11. Turned(m, CycleGroup(m)) /\ Turned(m, CycleLeaf(m)) /\ Turned(m, TogglePanel(m)) /\ Turned(m, TogglePause(m))
  BY ViewKeysTurned
<1>12. Turned(m, Narrow([m EXCEPT !.modal = "columns"], << >>)) BY <1>1, AlikeWith, PickerTurned
<1>13. Turned(m, StartFilter(m)) BY StartFilterTurned
<1>14. Turned(m, [m EXCEPT !.modal = "help", !.help = 0]) BY HelpKeyTurned
<1>15. QED
  BY <1>2, <1>3, <1>4, <1>5, <1>6, <1>7, <1>8, <1>9, <1>10, <1>11, <1>12, <1>13, <1>14 DEF Command

LEMMA UpdateTurned == ASSUME NEW m, NEW k \in Chars, Placed(m) PROVE Turned(m, Update(m, k))
<1>1. Alike(m, m) BY DEF Alike
<1>2. Turned(m, [m EXCEPT !.modal = "confirm"]) BY <1>1, AlikeWith, AlikeTurned
<1>3. Turned(m, NiceKey(m, k)) /\ Turned(m, ConfirmKey(m, k)) /\ Turned(m, DetailKey(m, k)) BY ControlAlike, AlikeTurned
<1>4. QED BY <1>2, <1>3, ColKeyTurned, EditKeyTurned, HelpKeyTurned, CommandTurned DEF Update

(* A result puts the cursor on one of its rows.                            *)
LEMMA ShowsPlaced ==
  ASSUME NEW m, NEW procs, NEW tgs, Placed(m), Listed(Shows(m, procs, tgs))
  PROVE  LET n == Shows(m, procs, tgs)
         IN  /\ Placed(n) /\ InView(n.cursor, n.scroll, Len(Visible(n)), BodyHeight(n))
             /\ n.picker = m.picker /\ n.help = m.help /\ n.height = m.height
<1>1. PICK t, c, h, ix : Shows(m, procs, tgs) = RebuildRows([m EXCEPT !.tree = t, !.cols = c, !.host = h, !.sortIx = ix])
  BY Zenon DEF Shows, SetResult
<1> DEFINE x == [m EXCEPT !.tree = t, !.cols = c, !.host = h, !.sortIx = ix]
<1>2. Placed(x) /\ x.picker = m.picker /\ x.help = m.help /\ x.height = m.height
  BY DEF Placed, ViewFields, PlacedFields
<1>3. Shows(m, procs, tgs) = MoveCursor(x, 0) BY <1>1 DEF RebuildRows
<1> HIDE DEF x
<1>4. 0 \in Int OBVIOUS
<1>5. Listed(x) BY <1>2, <1>3, <1>4, MoveCursorSpares DEF Listed
<1>6. QED BY <1>2, <1>3, <1>4, <1>5, MoveCursorShows, MoveCursorSpares

LEMMA PickerSame ==
  ASSUME NEW m, NEW n, n.picker = m.picker, n.height = m.height
  PROVE  Choices(n) = Choices(m) /\ PickerHeight(n) = PickerHeight(m)
BY DEF Choices, PickerHeight

(* What CursorsOnScreen asks of a step.                                    *)
OnScreen(m, n) == Settled(m, n) /\ n.pos \in 0..Len(n.edit)

(* A query after a key: the key left the offset of the key map where it    *)
(* was, and the result leaves the picker where it is.                      *)
LEMMA RequeryOnScreen ==
  ASSUME NEW m, NEW x, NEW tgs, Settled(m, x), Placed(x), x.help = m.help, Requery(x, tgs), Listed(ui')
  PROVE  Placed(ui') /\ OnScreen(m, ui')
<1>1. CASE ui' = x BY <1>1 DEF OnScreen, Placed
<1>2. CASE ui' = Shows(x, world, targets')
  <2>1. /\ Placed(ui') /\ InView(ui'.cursor, ui'.scroll, Len(Visible(ui')), BodyHeight(ui'))
        /\ ui'.picker = x.picker /\ ui'.help = x.help /\ ui'.height = x.height
    BY <1>2, ShowsPlaced
  <2>2. Choices(ui') = Choices(x) /\ PickerHeight(ui') = PickerHeight(x) BY <2>1, PickerSame, Zenon
  <2>3. QED BY <2>1, <2>2 DEF OnScreen, Placed, Settled
<1>3. QED BY <1>1, <1>2 DEF Requery

LEMMA CleanPlaced ==
  ASSUME NEW m, ViewFields \subseteq DOMAIN m
  PROVE  LET n == [m EXCEPT !.dirty = FALSE]
         IN  /\ Visible(n) = Visible(m) /\ n.help = m.help
             /\ Placed(m) => Placed(n)
             /\ \A x : Settled(x, m) => Settled(x, n)
<1> DEFINE n == [m EXCEPT !.dirty = FALSE]
<1>1. /\ n.tree = m.tree /\ n.folds = m.folds /\ n.foldDefault = m.foldDefault /\ n.host = m.host /\ n.cursor = m.cursor
      /\ n.scroll = m.scroll /\ n.height = m.height /\ n.picker = m.picker /\ n.help = m.help /\ n.edit = m.edit
      /\ n.pos = m.pos /\ n.hist = m.hist /\ n.histIx = m.histIx /\ n.filter = m.filter /\ DOMAIN n = DOMAIN m
  BY DEF ViewFields, PlacedFields
<1> HIDE DEF n
<1>2. Visible(n) = Visible(m) /\ BodyHeight(n) = BodyHeight(m) BY <1>1 DEF Visible, BodyHeight
<1>3. Choices(n) = Choices(m) /\ PickerHeight(n) = PickerHeight(m) BY <1>1, PickerSame, Zenon
<1>4. Placed(m) => Placed(n) BY <1>1 DEF Placed
<1>5. \A x : Settled(x, m) => Settled(x, n) BY <1>1, <1>2, <1>3 DEF Settled, Table
<1>6. QED BY <1>1, <1>2, <1>4, <1>5 DEF n

LEMMA PressOnScreen ==
  ASSUME NEW k \in Chars, ui.dirty = FALSE, Placed(ui), Listed(ui), Listed(ui'), Press(k)
  PROVE  Placed(ui') /\ OnScreen(ui, ui')
<1> DEFINE m == Update(ui, k)
           n == [m EXCEPT !.dirty = FALSE]
<1>1. Turned(ui, m) BY UpdateTurned
<1>2. ViewFields \subseteq DOMAIN m BY <1>1 DEF Turned, Placed
<1>3. \/ m.dirty # FALSE /\ \E saved : Requery(n, saved)
      \/ ui' = n
  BY DEF Press
<1> HIDE DEF m
<1>4. Visible(n) = Visible(m) /\ n.help = m.help /\ (Placed(m) => Placed(n)) /\ (Settled(ui, m) => Settled(ui, n))
  BY <1>2, CleanPlaced
<1> HIDE DEF n
<1>5. CASE m.dirty # FALSE
  <2>1. m.folds = ui.folds /\ m.foldDefault = ui.foldDefault /\ m.tree = ui.tree /\ m.help = ui.help BY <1>1, <1>5 DEF Turned
  <2>2. Listed(m) BY <2>1 DEF Listed, Visible
  <2>3. Placed(n) /\ Settled(ui, n) /\ n.help = ui.help BY <1>1, <1>4, <2>1, <2>2 DEF Turned
  <2>4. CASE ui' = n BY <2>3, <2>4 DEF OnScreen, Placed
  <2>5. QED BY <1>3, <2>3, <2>4, RequeryOnScreen
<1>6. CASE m.dirty = FALSE
  <2>1. ui' = n BY <1>3, <1>6
  <2>2. Listed(m) BY <1>4, <2>1 DEF Listed
  <2>3. Placed(n) /\ Settled(ui, n) BY <1>1, <1>4, <2>2 DEF Turned
  <2>4. QED BY <2>1, <2>3 DEF OnScreen, Placed
<1>7. QED BY <1>5, <1>6

(* The inductive invariant: the cursors are placed, and the session is one *)
(* of those there are.                                                     *)
Sited == Placed(ui) /\ sitting \in Sittings
(* The rows to see of the answer on the screen are a list.                 *)
RowsListed == Listed(ui)

LEMMA OpenedSited == ASSUME Opened, RowsListed PROVE Sited
<1> SUFFICES ASSUME NEW s \in Sittings, sitting = s, ui = Shows(NewModel(s), world, targets) PROVE Sited BY DEF Opened
<1>1. s.filter \in Seq(Chars) /\ s.height \in Int BY ExplorerAssumption, TypedChars
<1>2. Placed(NewModel(s))
  <2>1. << >> \in Seq(Chars) /\ << >> \in Seq(Seq(Chars)) /\ 0 \in 0..Len(<< >>) OBVIOUS
  <2>2. QED BY <1>1, <2>1 DEF NewModel, Placed, ViewFields, PlacedFields
<1>3. QED BY <1>2, ShowsPlaced DEF Sited, RowsListed

LEMMA TurnSited ==
  ASSUME Asked, Sited, RowsListed, RowsListed', [Turn]_screen
  PROVE  Sited' /\ OnScreen(ui, ui')
<1>1. Listed(ui) /\ Listed(ui') BY DEF RowsListed
<1>2. CASE Type
  <2>1. PICK k \in sitting.keys : Press(k) BY <1>2 DEF Type
  <2>2. k \in Chars /\ sitting' = sitting BY <2>1, ExplorerAssumption DEF Sited, Chars, Press, Event
  <2>3. QED BY <1>1, <2>1, <2>2, PressOnScreen DEF Sited, Asked
<1>3. CASE Tick
  <2>1. Requery(ui, targets) /\ sitting' = sitting BY <1>3 DEF Tick, Event
  <2>2. Settled(ui, ui) BY DEF Settled
  <2>3. QED BY <1>1, <2>1, <2>2, RequeryOnScreen DEF Sited
<1>4. CASE Resize
  <2>1. PICK h \in {4, 6} : ui' = [ui EXCEPT !.height = h] BY <1>4 DEF Resize
  <2>2. sitting' = sitting BY <1>4 DEF Resize, Event
  <2>3. Placed([ui EXCEPT !.height = h]) /\ Settled(ui, [ui EXCEPT !.height = h])
    BY DEF Sited, Placed, ViewFields, PlacedFields, Settled, Table
  <2>4. QED BY <2>1, <2>2, <2>3 DEF Sited, OnScreen, Placed
<1>5. CASE WorldMoves \/ UNCHANGED screen
  <2>1. ui' = ui /\ sitting' = sitting BY <1>5 DEF WorldMoves, Event, screen
  <2>2. QED BY <2>1 DEF Sited, OnScreen, Placed, Settled
<1>6. QED BY <1>2, <1>3, <1>4, <1>5 DEF Turn

(* Whenever rows, folds or a cursor change, the cursors of the table and   *)
(* of the column picker are on a row that is shown, the text cursor is in  *)
(* the line, and the key map is not scrolled past its end: whatever a      *)
(* query answers, as long as the rows to see of an answer are a list.      *)
THEOREM CursorsStay == Explored /\ []RowsListed => CursorsOnScreen
<1>1. Opened /\ RowsListed => Sited BY OpenedSited
<1>2. Asked /\ Sited /\ RowsListed /\ RowsListed' /\ [Turn]_screen => Sited' BY TurnSited
<1>3. ASSUME Asked, Sited, RowsListed, RowsListed', [Turn]_screen
      PROVE  /\ Table(ui') # Table(ui) => InView(ui'.cursor, ui'.scroll, Len(Visible(ui')), BodyHeight(ui'))
             /\ ui'.picker # ui.picker => InView(ui'.picker.cursor, ui'.picker.scroll, Cardinality(Choices(ui')), PickerHeight(ui'))
             /\ ui'.pos \in 0..Len(ui'.edit)
             /\ ui'.help # ui.help => ui'.help \in 0..FS!Max({0, HelpLines - BodyHeight(ui')})
  BY <1>3, TurnSited DEF OnScreen, Settled
<1>4. QED BY <1>1, <1>2, <1>3, ExplorerInvariant, PTL DEF Explored, CursorsOnScreen
==============================================================================
