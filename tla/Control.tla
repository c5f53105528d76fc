------------------------------- MODULE Control -------------------------------
(***************************************************************************)
(* The state-free part of internal/control: what a binding, a target and a *)
(* safeguard are, and what one operation does to one binding and to the    *)
(* process behind it.  Manager.tla and Session.tla build on these          *)
(* operators.                                                              *)
(*                                                                         *)
(* A process identity (model.ProcessInstanceID: boot id, pid namespace,    *)
(* pid, start time) is abstracted to the pid and the incarnation number of *)
(* that pid: the n-th process that ever had the pid.  Two identities are   *)
(* the SameProcess exactly when both agree.                                *)
(***************************************************************************)
EXTENDS Integers, Sequences, FiniteSets, Functions

CONSTANTS
  Pids,           \* the process ids of the instance
  SelfPid,        \* Safeguards.SelfPID
  SelfPPid,       \* Safeguards.SelfPPID, 0 when unknown
  Nices,          \* nice values
  Cgroups,        \* cgroup v2 paths, each a sequence of path components
  SelfCgroup,     \* the cgroup procfit itself runs in
  SessionNames,   \* components naming a login session or user slice
  Names,          \* target names
  MaxBirths,      \* bound: incarnations per pid
  None            \* a nil pointer

ASSUME ConstantsAssumption ==
  /\ Pids \subseteq Int
  /\ SelfPid \in Int /\ SelfPPid \in Int
  /\ Nices \subseteq Int /\ None \notin Nices /\ None \notin BOOLEAN
  /\ SelfCgroup \in Cgroups
  /\ MaxBirths \in Nat \ {0}

(***************************************************************************)
(* Values.                                                                 *)
(***************************************************************************)
Origins == {"runtime", "config"}
Targets == Origins \X Names          \* Target.ID: "runtime:<name>", "config:<name>"
Origin(t) == t[1]
NameOf(t) == t[2]

Modes == {"follow", "snapshot"}
DriftModes == {"report", "reapply", "adopt", "ignore"}
StopStates == {"running", "procfit", "other"}   \* running, or who stopped it
Incarnations == 0 .. MaxBirths                  \* 0: the pid was never used

Partial(S, T) == UNION {[D -> T] : D \in SUBSET S}

\* What the kernel knows of the process now or last holding a pid.
Process == [alive : BOOLEAN, inc : Incarnations, nice : Nices,
            stop : StopStates, cg : Cgroups]

\* b.Nice == nil is orig = None; `want' is Nice.Desired; `stop' is Stop.DesiredStop.
Binding == [inc : Incarnations, orig : Nices \cup {None},
            want : Nices \cup {None}, stop : BOOLEAN]

Bindings(f) == DOMAIN f \subseteq Pids /\ f \in [DOMAIN f -> Binding]

Target(tg) ==
  /\ tg \in [mode : Modes, nice : Nices \cup {None}, stop : BOOLEAN \cup {None},
             freeze : BOOLEAN \cup {None}, drift : DriftModes,
             active : BOOLEAN, bind : {tg.bind}]
  /\ Bindings(tg.bind)

PolicySpec == [nice : Nices \cup {None}, stop : BOOLEAN \cup {None}, drift : DriftModes]

NewBinding(i) == [inc |-> i, orig |-> None, want |-> None, stop |-> FALSE]

NewTarget(mode) == [mode |-> mode, nice |-> None, stop |-> None, freeze |-> None,
                    drift |-> "report", active |-> FALSE, bind |-> << >>]

\* Sets of resolved instances: a pid with the incarnation it had when it was
\* resolved, which may be older than the one it has now.
Instances(proc) ==
  {f \in Partial(Pids, 1 .. MaxBirths) : \A p \in DOMAIN f : f[p] <= proc[p].inc}

(***************************************************************************)
(* Safeguards.                                                             *)
(***************************************************************************)
CheckPID(p) == p > 1 /\ p # SelfPid /\ (SelfPPid # 0 => p # SelfPPid)

AncestorOrEqual(a, c) == Len(a) <= Len(c) /\ SubSeq(c, 1, Len(a)) = a
SessionCgroup(c) == c # << >> /\ c[Len(c)] \in SessionNames
FreezeSafety(c, self) == c # << >> /\ ~AncestorOrEqual(c, self) /\ ~SessionCgroup(c)

(***************************************************************************)
(* One binding b of pid p, and the process k now behind p.                 *)
(***************************************************************************)
Revalidate(b, k) == k.alive /\ k.inc = b.inc

\* Mutant: bindings matched by pid instead of by identity.
BindByPid(old, insts) ==
  [p \in DOMAIN insts |-> IF p \in DOMAIN old THEN [old[p] EXCEPT !.inc = insts[p]]
                          ELSE NewBinding(insts[p])]
\* Mutant: captured fields not carried over.
BindAfresh(old, insts) == [p \in DOMAIN insts |-> NewBinding(insts[p])]

BindInstances(old, insts) ==
  [p \in DOMAIN insts |-> IF p \in DOMAIN old /\ old[p].inc = insts[p]
                          THEN old[p] ELSE NewBinding(insts[p])]

\* Mutant: a dry run acts.
Regardless(dry, S) == S
\* What is acted on: nothing in a dry run.
Unless(dry, S) == IF dry THEN {} ELSE S

\* Mutants: no safeguard; no revalidation.
NiceAllowedAnyPid(p, b, k) == Revalidate(b, k)
NiceAllowedUnchecked(p, b, k) == CheckPID(p) /\ k.alive

\* applyNiceBinding gets as far as the SetNice call.
NiceAllowed(p, b, k) == CheckPID(p) /\ Revalidate(b, k)
\* Mutants: the getpriority-mapped value captured; the desired value of an already
\* captured field left as it was.
CapturedRaw(b, k, n) == [b EXCEPT !.orig = IF b.orig = None THEN 20 - k.nice ELSE b.orig,
                                  !.want = n]
CapturedOnce(b, k, n) == IF b.orig = None THEN [b EXCEPT !.orig = k.nice, !.want = n] ELSE b

\* The record written before that call, whatever the kernel then answers.
Captured(b, k, n) == [b EXCEPT !.orig = IF b.orig = None THEN k.nice ELSE b.orig,
                               !.want = n]

\* Mutant: the drift check forgotten.
NiceRestorableDrifted(b, k, force) == b.orig # None /\ Revalidate(b, k)

\* restoreNiceBinding gets as far as the SetNice call.
NiceRestorable(b, k, force) ==
  b.orig # None /\ Revalidate(b, k) /\ (k.nice = b.want \/ force)

\* Mutant: continue honoured for every stop.
StopAllowedAny(p, b, k, stop) == CheckPID(p) /\ Revalidate(b, k)

\* applyStopBinding gets as far as the SendSignal call.
StopAllowed(p, b, k, stop) == CheckPID(p) /\ Revalidate(b, k) /\ (~stop => b.stop)

\* SIGSTOP does not change who stopped a task that is already stopped.
Stopped(k, by) == [k EXCEPT !.stop = IF @ = "running" THEN by ELSE @]
Continued(k) == [k EXCEPT !.stop = "running"]

\* Mutant: the record compared instead of the kernel's value.
OffTargetRecorded(b, k, n) == Revalidate(b, k) /\ b.want # n

\* reconcileDrift reaches its switch: identity holds, the value is off target.
OffTarget(b, k, n) == Revalidate(b, k) /\ k.nice # n
\* Mutant: a value re-applied without being recorded.
ReappliedSilently(b, n) == b
\* The records after a successful re-application and after an adoption.
Reapplied(b, n) == [b EXCEPT !.want = n]
Adopted(b, k) == [b EXCEPT !.want = k.nice]

\* The cgroups freezeBinding acts on for the bindings of a target.  The cgroup is
\* that of whichever process has the pid now: the identity is not compared.
FreezeScope(bind, proc, freeze, force) ==
  {c \in {proc[p].cg : p \in {q \in DOMAIN bind : CheckPID(q) /\ proc[q].alive}} :
     freeze /\ ~force => FreezeSafety(c, SelfCgroup)}
==============================================================================
