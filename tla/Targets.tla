------------------------------- MODULE Targets -------------------------------
(***************************************************************************)
(* The managed targets as the callbacks that internal/app gives the        *)
(* explorer see them: the targets of the state file, in order, each        *)
(* [name, bind], and a binding [pid, key, name].                           *)
(***************************************************************************)
EXTENDS Basics

Owners(tgs, pids) == {i \in 1..Len(tgs) : \E b \in tgs[i].bind : b.pid \in pids}
InstancesFor(procs, pids, name) ==
  {[pid |-> p.nums.pid, key |-> p.key, name |-> name] : p \in {q \in Elems(procs) : q.nums.pid \in pids}}
\* The action's target: the one that has the pids, or a new one, or none.
CanControl(tgs, procs, pids) == Cardinality(Owners(tgs, pids)) = 1 \/ InstancesFor(procs, pids, << >>) # {}
TargetName(req) == <<req.label, IF Cardinality(req.pids) = 1 THEN req.pids ELSE {}>>
Controlled(tgs, procs, req) ==
  LET name == TargetName(req)
      bind == InstancesFor(procs, req.pids, req.label)
  IN  IF Cardinality(Owners(tgs, req.pids)) = 1 THEN tgs
      ELSE IF \E i \in 1..Len(tgs) : tgs[i].name = name
      THEN [i \in 1..Len(tgs) |-> IF tgs[i].name = name THEN [tgs[i] EXCEPT !.bind = bind] ELSE tgs[i]]
      ELSE Append(tgs, [name |-> name, bind |-> bind])
\* The bindings a request acts on: all those of the target that has its pids, or the new ones.
Reached(tgs, procs, req) ==
  LET own == Owners(tgs, req.pids)
  IN  IF Cardinality(own) = 1 THEN UNION {tgs[i].bind : i \in own} ELSE InstancesFor(procs, req.pids, req.label)
Dropped(tgs, pids) == SelectSeq(tgs, LAMBDA t : \A b \in t.bind : b.pid \notin pids)

\* The binding a managed pid is looked up under: the last one that has it.
Want(tgs, pid) == LET t == tgs[FS!Max(Owners(tgs, {pid}))] IN CHOOSE b \in t.bind : b.pid = pid
ManagedPIDs(tgs) == {b.pid : b \in UNION {t.bind : t \in Elems(tgs)}}
\* A binding whose process is alive takes its name, for when it is an orphan.
Backfilled(tgs, procs) ==
  LET Alive(b) == {p \in Elems(procs) : p.nums.pid = b.pid /\ p.key = b.key /\ p.strs.comm # << >>}
      Renamed(b) == IF Alive(b) = {} THEN b ELSE [b EXCEPT !.name = (CHOOSE p \in Alive(b) : TRUE).strs.comm]
  IN  [i \in 1..Len(tgs) |-> [tgs[i] EXCEPT !.bind = {Renamed(b) : b \in @}]]
==============================================================================
