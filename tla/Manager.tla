------------------------------- MODULE Manager -------------------------------
(***************************************************************************)
(* control.Manager of one process run: the targets it keeps, every         *)
(* operation on them, and the kernel's process table they act on.          *)
(*                                                                         *)
(* A call is one step.  A process that exits in the middle of a call is    *)
(* the call followed or preceded by Exit, and a call the kernel refuses is *)
(* the choice of the sets `denied' (SetNice), `unsent' (SendSignal) and    *)
(* `unwritable' (FreezeCgroup).  A pid that is REUSED in the middle of a   *)
(* call is not covered.                                                    *)
(*                                                                         *)
(* Left out: LastSeen, UpdatedAt, Generation, SnapshotIDs, PreStopped,     *)
(* Observed, the per-field Status and the ApplyResult, none of which any   *)
(* operation reads back; names shown to the user; the audit record.        *)
(***************************************************************************)
EXTENDS Control

CONSTANTS            \* the requests the environment makes
  ManageModes,       \* binding modes asked for, {}: no new target
  NiceRequests,      \* nice values asked for
  StopRequests,      \* {TRUE}: stop, {FALSE}: continue, BOOLEAN: both
  FreezeRequests,    \* the same for freeze and thaw
  SignalRequests,    \* signals sent by the signal operation
  PolicySets,        \* what SetPolicies may be given: names to PolicySpec
  OutsideNices,      \* nice values set by somebody else
  OutsideStops,      \* {} or {"stop", "cont"}: signals sent by somebody else
  Forces,            \* values of the force flag that are used
  Loads              \* what LoadState may bring: targets that another run of procfit,
                     \* with pids of its own to protect, left earlier in this boot

ASSUME RequestsAssumption ==
  /\ ManageModes \subseteq Modes
  /\ NiceRequests \subseteq Nices /\ OutsideNices \subseteq Nices
  /\ StopRequests \subseteq BOOLEAN /\ FreezeRequests \subseteq BOOLEAN
  /\ SignalRequests \subseteq {"STOP", "CONT", "KILL"}
  /\ PolicySets \subseteq Partial(Names, PolicySpec)
  /\ OutsideStops \subseteq {"stop", "cont"}
  /\ Forces \subseteq BOOLEAN

ASSUME LoadsAssumption ==
  \A tgs \in Loads :
    /\ DOMAIN tgs \subseteq Targets /\ tgs = [t \in DOMAIN tgs |-> tgs[t]]
    /\ \A t \in DOMAIN tgs : /\ Target(tgs[t])
                             /\ \A p \in DOMAIN tgs[t].bind : tgs[t].bind[p].inc = 1

VARIABLES
  proc,      \* the kernel: pid to Process
  frozen,    \* the kernel: cgroups whose cgroup.freeze is 1
  targets,   \* State.Targets: target id to Target
  past,      \* history: what was done to the process now behind each pid
  last       \* history: the kind of the step just taken

vars == <<proc, frozen, targets, past, last>>

(***************************************************************************)
(* Of the process now behind p: past[p].outside, somebody else set its     *)
(* nice after procfit's last write; past[p].refused, the kernel refused    *)
(* procfit's last write; past[p].shared, procfit wrote it while another    *)
(* target held a captured original of it; past[p].stopSent, the stop       *)
(* operation's SIGSTOP reached it; past[p].inherited, the targets that had *)
(* it captured or stopped when this run loaded the state.                  *)
(***************************************************************************)
History == [outside : BOOLEAN, refused : BOOLEAN, shared : BOOLEAN, stopSent : BOOLEAN,
            inherited : SUBSET Targets]
NoHistory == [outside |-> FALSE, refused |-> FALSE, shared |-> FALSE, stopSent |-> FALSE,
              inherited |-> {}]

Steps == {"kernel", "reboot", "manage", "dryrun", "set", "stop", "continue", "freeze",
          "restore", "forced", "signal", "policy", "reconcile"}

TypeOK ==
  /\ proc \in [Pids -> Process]
  /\ frozen \subseteq Cgroups
  /\ DOMAIN targets \subseteq Targets /\ targets = [t \in DOMAIN targets |-> targets[t]]
  /\ \A t \in DOMAIN targets : Target(targets[t])
  /\ past \in [Pids -> History]
  /\ last \in Steps

Captures(t, p) == p \in DOMAIN targets[t].bind /\ targets[t].bind[p].orig # None
Stops(t, p) == p \in DOMAIN targets[t].bind /\ targets[t].bind[p].stop

\* The state loaded, and the processes as the run that saved it left them.
LoadedHistory(p) ==
  [NoHistory EXCEPT !.stopSent = \E t \in DOMAIN targets : Stops(t, p),
                    !.inherited = {t \in DOMAIN targets : Captures(t, p) \/ Stops(t, p)}]

Init ==
  /\ targets \in Loads
  /\ past = [p \in Pids |-> LoadedHistory(p)]
  /\ proc \in [Pids -> {k \in Process : k.alive /\ k.inc = 1}]
  /\ \A p \in Pids :
       /\ proc[p].stop = (IF past[p].stopSent THEN "procfit" ELSE "running")
       /\ \A t \in DOMAIN targets : Captures(t, p) => proc[p].nice = targets[t].bind[p].want
       /\ proc[p].nice \in OutsideNices \/ \E t \in DOMAIN targets : Captures(t, p)
  /\ frozen = {}
  /\ last = "kernel"

(***************************************************************************)
(* The kernel and the other users of the machine (external).               *)
(***************************************************************************)
Spawn(p, n, c) ==
  /\ ~proc[p].alive /\ proc[p].inc < MaxBirths
  /\ proc' = [proc EXCEPT ![p] = [alive |-> TRUE, inc |-> proc[p].inc + 1, nice |-> n,
                                  stop |-> "running", cg |-> c]]
  /\ past' = [past EXCEPT ![p] = NoHistory]
  /\ last' = "kernel" /\ UNCHANGED <<frozen, targets>>

Exit(p) ==
  /\ proc[p].alive
  /\ proc' = [proc EXCEPT ![p].alive = FALSE]
  /\ last' = "kernel" /\ UNCHANGED <<frozen, targets, past>>

OutsideRenice(p, n) ==
  /\ proc[p].alive /\ proc[p].nice # n
  /\ proc' = [proc EXCEPT ![p].nice = n]
  /\ past' = [past EXCEPT ![p].outside = TRUE]
  /\ last' = "kernel" /\ UNCHANGED <<frozen, targets>>

OutsideSignal(p, s) ==
  /\ proc[p].alive
  /\ proc' = [proc EXCEPT ![p] = IF s = "stop" THEN Stopped(@, "other") ELSE Continued(@)]
  /\ last' = "kernel" /\ UNCHANGED <<frozen, targets, past>>

\* A reboot, and the LoadState of the next run with a boot id that differs:
\* concrete bindings are discarded, the logical targets stay.
Reboot ==
  /\ \E p \in Pids : proc[p].alive
  /\ proc' = [p \in Pids |-> [proc[p] EXCEPT !.alive = FALSE]]
  /\ frozen' = {}
  /\ targets' = [t \in DOMAIN targets |->
                   [targets[t] EXCEPT !.bind = << >>, !.active = FALSE]]
  /\ last' = "reboot" /\ UNCHANGED past

(***************************************************************************)
(* Membership.                                                             *)
(***************************************************************************)
Bound(tg, insts) == [tg EXCEPT !.bind = BindInstances(tg.bind, insts),
                               !.active = (DOMAIN insts # {})]

\* Find(name) looks for the name under either origin before a runtime target is
\* created; an existing target is also found by its id.
Manage(t, mode, insts) ==
  /\ t \in DOMAIN targets \/ (Origin(t) = "runtime" /\ <<"config", NameOf(t)>> \notin DOMAIN targets)
  /\ LET tg == IF t \in DOMAIN targets THEN [targets[t] EXCEPT !.mode = mode]
               ELSE NewTarget(mode)
     IN  targets' = [u \in DOMAIN targets \cup {t} |->
                       IF u = t THEN Bound(tg, insts) ELSE targets[u]]
  /\ last' = "manage" /\ UNCHANGED <<proc, frozen, past>>

\* Rebind is a no-op on a snapshot target.
Rebind(t, insts) ==
  /\ t \in DOMAIN targets /\ targets[t].mode = "follow"
  /\ targets' = [targets EXCEPT ![t] = Bound(@, insts)]
  /\ last' = "manage" /\ UNCHANGED <<proc, frozen, past>>

Unmanage(t) ==
  /\ t \in DOMAIN targets
  /\ targets' = Restrict(targets, DOMAIN targets \ {t})
  /\ last' = "manage" /\ UNCHANGED <<proc, frozen, past>>

(***************************************************************************)
(* Nice.                                                                   *)
(***************************************************************************)
HeldElsewhere(t, p) ==
  \E u \in DOMAIN targets \ {t} :
    /\ p \in DOMAIN targets[u].bind
    /\ targets[u].bind[p].orig # None /\ targets[u].bind[p].inc = proc[p].inc

\* The history of a call for target t that wrote the nice of `written' and was
\* refused on `refused'.
NiceHistory(t, written, refused) ==
  [p \in Pids |-> CASE p \in written ->
                         [past[p] EXCEPT !.outside = FALSE, !.refused = FALSE,
                                         !.shared = @ \/ HeldElsewhere(t, p)]
                    [] p \notin written /\ p \in refused -> [past[p] EXCEPT !.refused = TRUE]
                    [] OTHER -> past[p]]

Reniced(written, n) ==
  [p \in Pids |-> IF p \in written THEN [proc[p] EXCEPT !.nice = n] ELSE proc[p]]

\* DesiredNice is recorded in a dry run too.
SetNice(t, n, dry, denied) ==
  /\ t \in DOMAIN targets
  /\ LET b == targets[t].bind
         hit == Unless(dry, {p \in DOMAIN b : NiceAllowed(p, b[p], proc[p])})
     IN  /\ targets' = [targets EXCEPT ![t].nice = n,
                          ![t].bind = [p \in DOMAIN b |->
                             IF p \in hit THEN Captured(b[p], proc[p], n) ELSE b[p]]]
         /\ proc' = Reniced(hit \ denied, n)
         /\ past' = NiceHistory(t, hit \ denied, hit)
  /\ last' = (IF dry THEN "dryrun" ELSE "set")
  /\ UNCHANGED frozen

(***************************************************************************)
(* Stop and continue.                                                      *)
(***************************************************************************)
SetStop(t, stop, dry, unsent) ==
  /\ t \in DOMAIN targets
  /\ LET b == targets[t].bind
         sent == Unless(dry, {p \in DOMAIN b : StopAllowed(p, b[p], proc[p], stop)} \ unsent)
     IN  /\ targets' = [targets EXCEPT ![t].stop = (IF dry THEN @ ELSE stop),
                          ![t].bind = [p \in DOMAIN b |->
                             IF p \in sent THEN [b[p] EXCEPT !.stop = stop] ELSE b[p]]]
         /\ proc' = [p \in Pids |-> CASE p \notin sent -> proc[p]
                                      [] p \in sent /\ stop -> Stopped(proc[p], "procfit")
                                      [] p \in sent /\ ~stop -> Continued(proc[p])]
         /\ past' = [p \in Pids |-> IF stop /\ p \in sent
                                    THEN [past[p] EXCEPT !.stopSent = TRUE] ELSE past[p]]
  /\ last' = (CASE dry -> "dryrun" [] ~dry /\ stop -> "stop" [] ~dry /\ ~stop -> "continue")
  /\ UNCHANGED frozen

\* The signal operation acts on resolved instances, not on a target's bindings.
Signal(insts, s, dry, unsent) ==
  /\ LET sent == Unless(dry, {p \in DOMAIN insts :
                               CheckPID(p) /\ Revalidate(NewBinding(insts[p]), proc[p])} \ unsent)
     IN  proc' = [p \in Pids |-> CASE p \notin sent -> proc[p]
                                   [] p \in sent /\ s = "STOP" -> Stopped(proc[p], "other")
                                   [] p \in sent /\ s = "CONT" -> Continued(proc[p])
                                   [] p \in sent /\ s = "KILL" -> [proc[p] EXCEPT !.alive = FALSE]]
  /\ last' = (IF dry THEN "dryrun" ELSE "signal")
  /\ UNCHANGED <<frozen, targets, past>>

(***************************************************************************)
(* Freeze and thaw.                                                        *)
(***************************************************************************)
Frozen(freeze, scope) == IF freeze THEN frozen \cup scope ELSE frozen \ scope

SetFreeze(t, freeze, force, dry, unwritable) ==
  /\ t \in DOMAIN targets
  /\ targets' = IF dry THEN targets ELSE [targets EXCEPT ![t].freeze = freeze]
  /\ frozen' = IF dry THEN frozen
               ELSE Frozen(freeze, FreezeScope(targets[t].bind, proc, freeze, force) \ unwritable)
  /\ last' = (IF dry THEN "dryrun" ELSE IF force THEN "forced" ELSE "freeze")
  /\ UNCHANGED <<proc, past>>

(***************************************************************************)
(* Restore: thaw what the target froze, then per binding put back the      *)
(* captured nice and continue what procfit stopped.  The intents are       *)
(* cleared whatever the outcome.                                           *)
(***************************************************************************)
Restore(t, force, dry, denied, unsent, unwritable) ==
  /\ t \in DOMAIN targets
  /\ LET b == targets[t].bind
         niced == {p \in DOMAIN b : NiceRestorable(b[p], proc[p], force)} \ denied
         conted == {p \in DOMAIN b : b[p].stop /\ Revalidate(b[p], proc[p])} \ unsent
         thawed == IF targets[t].freeze = TRUE
                   THEN FreezeScope(b, proc, FALSE, FALSE) \ unwritable ELSE {}
         niceBack(q) == IF q \in niced THEN [b[q] EXCEPT !.want = b[q].orig] ELSE b[q]
     IN  IF dry THEN UNCHANGED <<proc, frozen, targets, past>>
         ELSE /\ targets' = [targets EXCEPT ![t].nice = None, ![t].stop = None, ![t].freeze = None,
                               ![t].bind = [p \in DOMAIN b |->
                                  IF p \in conted THEN [niceBack(p) EXCEPT !.stop = FALSE]
                                  ELSE niceBack(p)]]
              /\ proc' = [p \in Pids |->
                            [proc[p] EXCEPT !.nice = IF p \in niced THEN b[p].orig ELSE @,
                                            !.stop = IF p \in conted THEN "running" ELSE @]]
              /\ past' = NiceHistory(t, niced, {})
              /\ frozen' = Frozen(FALSE, thawed)
  /\ last' = (IF dry THEN "dryrun" ELSE IF force THEN "forced" ELSE "restore")

\* The nice half of Restore alone, never forced.
RestoreNice(t, dry, denied) ==
  /\ t \in DOMAIN targets
  /\ LET b == targets[t].bind
         niced == Unless(dry, {p \in DOMAIN b : NiceRestorable(b[p], proc[p], FALSE)} \ denied)
     IN  /\ targets' = [targets EXCEPT ![t].nice = (IF dry THEN @ ELSE None),
                          ![t].bind = [p \in DOMAIN b |->
                             IF p \in niced THEN [b[p] EXCEPT !.want = b[p].orig] ELSE b[p]]]
         /\ proc' = [p \in Pids |-> IF p \in niced THEN [proc[p] EXCEPT !.nice = b[p].orig]
                                   ELSE proc[p]]
         /\ past' = NiceHistory(t, niced, {})
  /\ last' = (IF dry THEN "dryrun" ELSE "restore")
  /\ UNCHANGED frozen

(***************************************************************************)
(* Policies.                                                               *)
(***************************************************************************)
\* A config target is rebuilt from its rule and keeps only its old bindings.
PoliciesInstalled(tgs, specs) ==
  [t \in {u \in DOMAIN tgs : Origin(u) = "runtime"} \cup ({"config"} \X DOMAIN specs) |->
     IF Origin(t) = "runtime" THEN tgs[t]
     ELSE LET s == specs[NameOf(t)]
          IN  [NewTarget("follow") EXCEPT !.nice = s.nice, !.stop = s.stop, !.drift = s.drift,
                 !.bind = IF t \in DOMAIN tgs THEN tgs[t].bind ELSE << >>]]

SetPolicies(specs) ==
  /\ targets' = PoliciesInstalled(targets, specs)
  /\ last' = "policy" /\ UNCHANGED <<proc, frozen, past>>

\* The body of Reconcile's loop for one config target.  Letting other calls come
\* between two targets is more than one goroutine does, and what the daemon does.
ReconcileTarget(t, insts, denied) ==
  /\ t \in DOMAIN targets /\ Origin(t) = "config"
  /\ LET tg == Bound(targets[t], insts)
         n == tg.nice
         b == tg.bind
         fresh == {p \in DOMAIN b : n # None /\ b[p].orig = None /\ NiceAllowed(p, b[p], proc[p])}
         off == {p \in DOMAIN b : n # None /\ b[p].orig # None /\ OffTarget(b[p], proc[p], n)}
         again == IF tg.drift = "reapply" THEN off \ denied ELSE {}
         next(q) == CASE q \in fresh -> Captured(b[q], proc[q], n)
                      [] q \in again -> Reapplied(b[q], n)
                      [] q \in off /\ tg.drift = "adopt" -> Adopted(b[q], proc[q])
                      [] OTHER -> b[q]
     IN  /\ targets' = [targets EXCEPT ![t] = [tg EXCEPT !.bind = [p \in DOMAIN b |-> next(p)]]]
         /\ proc' = Reniced((fresh \ denied) \cup again, n)
         /\ past' = NiceHistory(t, (fresh \ denied) \cup again, fresh)
  /\ last' = "reconcile"
  /\ UNCHANGED frozen

(***************************************************************************)
(* The specification.                                                      *)
(***************************************************************************)
KernelStep ==
  \/ \E p \in Pids, n \in OutsideNices, c \in Cgroups : Spawn(p, n, c)
  \/ \E p \in Pids : Exit(p)
  \/ \E p \in Pids, n \in OutsideNices : OutsideRenice(p, n)
  \/ \E p \in Pids, s \in OutsideStops : OutsideSignal(p, s)
  \/ Reboot

MembershipStep ==
  \/ \E t \in Targets, mode \in ManageModes, insts \in Instances(proc) : Manage(t, mode, insts)
  \/ \E t \in Targets, insts \in Instances(proc) : Rebind(t, insts)
  \/ \E t \in Targets : Unmanage(t)

ControlStep ==
  \/ \E t \in Targets, n \in NiceRequests, dry \in BOOLEAN, denied \in SUBSET Pids :
       SetNice(t, n, dry, denied)
  \/ \E t \in Targets, stop \in StopRequests, dry \in BOOLEAN, unsent \in SUBSET Pids :
       SetStop(t, stop, dry, unsent)
  \/ \E insts \in Instances(proc), s \in SignalRequests, dry \in BOOLEAN, unsent \in SUBSET Pids :
       Signal(insts, s, dry, unsent)
  \/ \E t \in Targets, freeze \in FreezeRequests, force \in Forces, dry \in BOOLEAN,
        unwritable \in SUBSET Cgroups : SetFreeze(t, freeze, force, dry, unwritable)
  \/ \E t \in Targets, force \in Forces, dry \in BOOLEAN, denied \in SUBSET Pids,
        unsent \in SUBSET Pids, unwritable \in SUBSET Cgroups :
          Restore(t, force, dry, denied, unsent, unwritable)
  \/ \E t \in Targets, dry \in BOOLEAN, denied \in SUBSET Pids : RestoreNice(t, dry, denied)

PolicyStep ==
  \/ \E specs \in PolicySets : SetPolicies(specs)
  \/ \E t \in Targets, insts \in Instances(proc), denied \in SUBSET Pids :
       ReconcileTarget(t, insts, denied)

Next == KernelStep \/ MembershipStep \/ ControlStep \/ PolicyStep

Spec == Init /\ [][Next]_vars

(***************************************************************************)
(* Properties.                                                             *)
(***************************************************************************)
BoundNow(t, p) == p \in DOMAIN targets[t].bind /\ Revalidate(targets[t].bind[p], proc[p])

\* Restore and drift handling do not ask CheckPID; what they act on is what the
\* other calls recorded.  Whatever sequence of calls was made, a binding of init, of
\* procfit or of its parent has a nice captured or a stop recorded, of the process
\* now behind the pid, only when the state this run loaded had it so for the same
\* target: an earlier run, which protected other pids, took control of it, and this
\* run will let restore and drift handling act on it.
ProtectedOnlyInherited ==
  \A t \in DOMAIN targets : \A p \in DOMAIN targets[t].bind :
    ~CheckPID(p) /\ targets[t].bind[p].inc = proc[p].inc /\ (Captures(t, p) \/ Stops(t, p))
      => t \in past[p].inherited

\* The captured original of a binding is written once: no call changes it while
\* the same process stays bound to the same target.
OriginalStable ==
  [][\A t \in DOMAIN targets \cap DOMAIN targets' :
       \A p \in DOMAIN targets[t].bind \cap DOMAIN targets'[t].bind :
         LET b == targets[t].bind[p]
             c == targets'[t].bind[p]
         IN  b.inc = c.inc /\ b.orig # None => c.orig = b.orig]_vars

\* A binding that claims a stop, of the process now behind the pid, is one whose
\* SIGSTOP really reached that process.
StopOwned ==
  \A t \in DOMAIN targets : \A p \in DOMAIN targets[t].bind :
    targets[t].bind[p].stop /\ targets[t].bind[p].inc = proc[p].inc => past[p].stopSent

\* Continue and restore deliver SIGCONT only to a process procfit once stopped.
ContinueOnlyOwnStop ==
  [][last' \in {"continue", "restore", "forced"} =>
       \A p \in Pids : proc[p].stop # "running" /\ proc'[p].stop = "running"
                       => past[p].stopSent]_vars

\* A nice value changed by procfit belongs to a live process that is bound, as that
\* very process, by a target that has its original; and it is not init, procfit or
\* procfit's parent unless that target was loaded with it captured or stopped.
OnlyBoundReniced ==
  [][last' \notin {"kernel", "reboot"} =>
       \A p \in Pids : proc'[p].nice # proc[p].nice =>
         /\ proc[p].alive
         /\ \E t \in DOMAIN targets' : /\ Captures(t, p)' /\ BoundNow(t, p)'
                                       /\ CheckPID(p) \/ t \in past[p].inherited]_vars

\* An unforced restore moves a nice value only from what the record says procfit
\* wanted to the original in the same record.
RestoreRespectsDrift ==
  [][last' = "restore" =>
       \A p \in Pids : proc'[p].nice # proc[p].nice =>
         \E t \in DOMAIN targets :
           /\ Captures(t, p) /\ BoundNow(t, p)
           /\ targets[t].bind[p].want = proc[p].nice
           /\ targets[t].bind[p].orig = proc'[p].nice]_vars

\* When a live process' nice is not what its record wanted, and an unforced
\* restore will therefore refuse it as drifted, then somebody else changed it, or
\* the kernel refused procfit's write, or a second target wrote it as well.
DriftExplained ==
  \A t \in DOMAIN targets : \A p \in DOMAIN targets[t].bind :
    Captures(t, p) /\ BoundNow(t, p) /\ targets[t].bind[p].want # proc[p].nice
      => past[p].outside \/ past[p].refused \/ past[p].shared

\* A dry run touches neither the kernel nor any binding.
DryRunActsOnNothing ==
  [][last' = "dryrun" =>
       /\ proc' = proc /\ frozen' = frozen
       /\ \A t \in DOMAIN targets : targets'[t].bind = targets[t].bind]_vars

(***************************************************************************)
(* What comments and documents say and the code does not do.               *)
(***************************************************************************)
\* SetStop: a pre-stopped task is never blindly continued on restore.
PreStoppedStaysStopped ==
  [][last' = "restore" =>
       \A p \in Pids : proc[p].stop = "other" => proc'[p].stop = "other"]_vars

\* The package comment: identity is revalidated before acting.  A cgroup newly
\* frozen is that of a process the target is bound to.
FreezeHitsBoundProcess ==
  [][last' = "freeze" =>
       \A c \in frozen' \ frozen :
         \E t \in DOMAIN targets : \E p \in DOMAIN targets[t].bind :
           BoundNow(t, p) /\ proc[p].cg = c]_vars
==============================================================================
