---------------------------- MODULE ManagerProofs ----------------------------
(***************************************************************************)
(* Theorems about Manager, for every set of pids, targets, nice values and *)
(* cgroups, every policy set and every choice of requests.                 *)
(***************************************************************************)
EXTENDS Manager, TLAPS

USE DEF Unless, Reapplied, Adopted

TargetsOK(f) ==
  /\ DOMAIN f \subseteq Targets /\ f = [t \in DOMAIN f |-> f[t]]
  /\ \A t \in DOMAIN f : Target(f[t])

LEMMA NewBindingType == \A i \in Incarnations : NewBinding(i) \in Binding
  BY DEF NewBinding, Binding

LEMMA EmptyBindings == Bindings(<< >>)
  BY DEF Bindings

LEMMA NewTargetType == \A mode \in Modes : Target(NewTarget(mode))
  BY DEF NewTarget, Target, Bindings, DriftModes

LEMMA ModeType ==
  ASSUME NEW tg, Target(tg), NEW mode \in Modes
  PROVE  Target([tg EXCEPT !.mode = mode])
  BY DEF Target

\* Re-binding yields bindings of the resolved pids, of the incarnations resolved.
LEMMA BindInstancesType ==
  ASSUME NEW old, Bindings(old), NEW insts \in Instances(proc)
  PROVE  /\ Bindings(BindInstances(old, insts))
         /\ DOMAIN BindInstances(old, insts) = DOMAIN insts
         /\ \A p \in DOMAIN insts : /\ insts[p] \in 1 .. MaxBirths /\ p \in Pids
                                    /\ insts[p] <= proc[p].inc
                                    /\ BindInstances(old, insts)[p].inc = insts[p]
  <1>1. /\ DOMAIN insts \subseteq Pids /\ insts \in [DOMAIN insts -> 1 .. MaxBirths]
        /\ \A p \in DOMAIN insts : insts[p] <= proc[p].inc
    BY DEF Instances, Partial
  <1>2. \A p \in DOMAIN insts : insts[p] \in Incarnations /\ NewBinding(insts[p]) \in Binding
    BY <1>1, NewBindingType, ConstantsAssumption DEF Incarnations
  <1>. QED BY <1>1, <1>2 DEF BindInstances, Bindings, NewBinding

LEMMA BoundType ==
  ASSUME NEW tg, Target(tg), NEW insts \in Instances(proc)
  PROVE  /\ Target(Bound(tg, insts))
         /\ Bound(tg, insts).bind = BindInstances(tg.bind, insts)
         /\ Bound(tg, insts).nice = tg.nice
         /\ Bound(tg, insts).drift = tg.drift
  <1>1. Bindings(BindInstances(tg.bind, insts)) BY BindInstancesType DEF Target
  <1>. QED BY <1>1 DEF Bound, Target
\* The record a nice call leaves in a binding.
LEMMA CapturedType ==
  ASSUME NEW b \in Binding, NEW k \in Process, NEW n \in Nices
  PROVE  /\ Captured(b, k, n) \in Binding
         /\ Captured(b, k, n).inc = b.inc /\ Captured(b, k, n).stop = b.stop
         /\ Captured(b, k, n).want = n
         /\ b.orig # None => Captured(b, k, n).orig = b.orig
  BY ConstantsAssumption DEF Captured, Binding, Process

\* Replacing the record of one target, new or existing.
LEMMA TargetReplaced ==
  ASSUME TargetsOK(targets), NEW t \in Targets, NEW tg, Target(tg), NEW f,
         f = [u \in DOMAIN targets \cup {t} |-> IF u = t THEN tg ELSE targets[u]]
  PROVE  TargetsOK(f)
  BY DEF TargetsOK

LEMMA TargetUpdated ==
  ASSUME TargetsOK(targets), NEW t \in DOMAIN targets, NEW tg, Target(tg), NEW f,
         f = [targets EXCEPT ![t] = tg]
  PROVE  TargetsOK(f)
  BY DEF TargetsOK

LEMMA NiceHistoryType ==
  ASSUME past \in [Pids -> History], NEW t, NEW written, NEW refused
  PROVE  NiceHistory(t, written, refused) \in [Pids -> History]
  <1>1. \A p \in Pids : HeldElsewhere(t, p) \in BOOLEAN
    BY DEF HeldElsewhere
  <1>. QED BY <1>1 DEF NiceHistory, History

LEMMA RenicedType ==
  ASSUME proc \in [Pids -> Process], NEW written, NEW n \in Nices
  PROVE  Reniced(written, n) \in [Pids -> Process]
  BY DEF Reniced, Process

LEMMA InitType ==
  ASSUME Init PROVE TypeOK
  <1>1. targets \in Loads BY DEF Init
  <1>2. TargetsOK(targets) BY <1>1, LoadsAssumption DEF TargetsOK
  <1>3. ASSUME NEW p \in Pids PROVE LoadedHistory(p) \in History
    <2>1. {t \in DOMAIN targets : Captures(t, p) \/ Stops(t, p)} \in SUBSET Targets
      BY <1>2 DEF TargetsOK
    <2>2. (\E t \in DOMAIN targets : Stops(t, p)) \in BOOLEAN OBVIOUS
    <2>. QED BY <2>1, <2>2 DEF LoadedHistory, NoHistory, History
  <1>4. past \in [Pids -> History] BY <1>3 DEF Init
  <1>5. proc \in [Pids -> Process] BY DEF Init
  <1>. QED BY <1>2, <1>4, <1>5 DEF Init, TargetsOK, TypeOK, Steps

LEMMA KernelType ==
  ASSUME TypeOK, KernelStep PROVE TypeOK'
  <1>. USE DEF TypeOK
  <1>1. ASSUME NEW p \in Pids, NEW n \in OutsideNices, NEW c \in Cgroups, Spawn(p, n, c)
        PROVE  TypeOK'
    BY <1>1, ConstantsAssumption, RequestsAssumption
       DEF Spawn, Process, Incarnations, StopStates, NoHistory, History, Steps
  <1>2. ASSUME NEW p \in Pids, Exit(p) PROVE TypeOK'
    BY <1>2 DEF Exit, Process, Steps
  <1>3. ASSUME NEW p \in Pids, NEW n \in OutsideNices, OutsideRenice(p, n) PROVE TypeOK'
    <2>1. [proc[p] EXCEPT !.nice = n] \in Process BY RequestsAssumption DEF Process
    <2>2. [past[p] EXCEPT !.outside = TRUE] \in History BY DEF History
    <2>3. proc' \in [Pids -> Process] BY <1>3, <2>1 DEF OutsideRenice
    <2>4. past' \in [Pids -> History] BY <1>3, <2>2 DEF OutsideRenice
    <2>. QED BY <1>3, <2>3, <2>4 DEF OutsideRenice, Steps
  <1>4. ASSUME NEW p \in Pids, NEW s \in OutsideStops, OutsideSignal(p, s) PROVE TypeOK'
    <2>1. Stopped(proc[p], "other") \in Process /\ Continued(proc[p]) \in Process
      BY DEF Stopped, Continued, Process, StopStates
    <2>2. proc' \in [Pids -> Process] BY <1>4, <2>1 DEF OutsideSignal
    <2>. QED BY <1>4, <2>2 DEF OutsideSignal, Steps
  <1>5. ASSUME Reboot PROVE TypeOK'
    <2>1. proc' \in [Pids -> Process]
      <3>1. \A p \in Pids : [proc[p] EXCEPT !.alive = FALSE] \in Process BY DEF Process
      <3>. QED BY <1>5, <3>1 DEF Reboot
    <2>2. ASSUME NEW t \in DOMAIN targets
          PROVE  Target([targets[t] EXCEPT !.bind = << >>, !.active = FALSE])
      BY EmptyBindings DEF Target
    <2>. QED BY <1>5, <2>1, <2>2 DEF Reboot, Steps
  <1>. QED BY <1>1, <1>2, <1>3, <1>4, <1>5 DEF KernelStep

LEMMA MembershipType ==
  ASSUME TypeOK, MembershipStep PROVE TypeOK'
  <1>. USE DEF TypeOK
  <1>0. TargetsOK(targets) BY DEF TargetsOK
  <1>1. ASSUME NEW t \in Targets, NEW mode \in ManageModes, NEW insts \in Instances(proc),
               Manage(t, mode, insts)
        PROVE  TypeOK'
    <2>. DEFINE tg == IF t \in DOMAIN targets THEN [targets[t] EXCEPT !.mode = mode]
                      ELSE NewTarget(mode)
    <2>1. Target(tg)
      <3>1. CASE t \in DOMAIN targets
        BY <3>1, RequestsAssumption, ModeType
      <3>2. CASE t \notin DOMAIN targets
        BY <3>2, RequestsAssumption, NewTargetType
      <3>. QED BY <3>1, <3>2
    <2>2. Target(Bound(tg, insts)) BY <2>1, BoundType
    <2>3. targets' = [u \in DOMAIN targets \cup {t} |->
                        IF u = t THEN Bound(tg, insts) ELSE targets[u]]
      BY <1>1 DEF Manage
    <2>4. TargetsOK(targets') BY <1>0, <2>2, <2>3, TargetReplaced
    <2>. QED BY <1>1, <2>4 DEF Manage, TargetsOK, Steps
  <1>2. ASSUME NEW t \in Targets, NEW insts \in Instances(proc), Rebind(t, insts)
        PROVE  TypeOK'
    <2>1. Target(Bound(targets[t], insts)) BY <1>2, BoundType DEF Rebind
    <2>2. TargetsOK(targets') BY <1>0, <1>2, <2>1, TargetUpdated DEF Rebind
    <2>. QED BY <1>2, <2>2 DEF Rebind, TargetsOK, Steps
  <1>3. ASSUME NEW t \in Targets, Unmanage(t) PROVE TypeOK'
    BY <1>3 DEF Unmanage, Restrict, Steps
  <1>. QED BY <1>1, <1>2, <1>3 DEF MembershipStep

\* A target whose bindings are rewritten pid by pid, each to a well-typed one, and
\* whose intents the call sets.
LEMMA RewrittenType ==
  ASSUME NEW tg, Target(tg), NEW nice \in Nices \cup {None}, NEW stop \in BOOLEAN \cup {None},
         NEW freeze \in BOOLEAN \cup {None}, NEW new \in [DOMAIN tg.bind -> Binding]
  PROVE  Target([tg EXCEPT !.nice = nice, !.stop = stop, !.freeze = freeze, !.bind = new])
  BY DEF Target, Bindings

LEMMA TargetParts ==
  ASSUME NEW tg, Target(tg)
  PROVE  /\ DOMAIN tg.bind \subseteq Pids /\ tg.bind \in [DOMAIN tg.bind -> Binding]
         /\ tg.nice \in Nices \cup {None} /\ tg.stop \in BOOLEAN \cup {None}
         /\ tg.freeze \in BOOLEAN \cup {None} /\ tg.drift \in DriftModes
  BY DEF Target, Bindings

\* A target may be given any intent and any bindings.
LEMMA NiceIntentType ==
  ASSUME NEW tg, Target(tg), NEW b, Bindings(b), NEW n \in Nices \cup {None}
  PROVE  Target([tg EXCEPT !.nice = n, !.bind = b])
  BY DEF Target

LEMMA StopIntentType ==
  ASSUME NEW tg, Target(tg), NEW b, Bindings(b), NEW stop \in BOOLEAN \cup {None}
  PROVE  Target([tg EXCEPT !.stop = stop, !.bind = b])
  BY DEF Target

LEMMA RuleType ==
  ASSUME NEW tg, Target(tg), NEW b, Bindings(b), NEW n \in Nices \cup {None},
         NEW stop \in BOOLEAN \cup {None}, NEW drift \in DriftModes
  PROVE  Target([tg EXCEPT !.nice = n, !.stop = stop, !.drift = drift, !.bind = b])
  <1>. DEFINE old == [tg EXCEPT !.nice = n, !.stop = stop, !.drift = drift]
  <1>1. old \in [mode : Modes, nice : Nices \cup {None}, stop : BOOLEAN \cup {None},
                 freeze : BOOLEAN \cup {None}, drift : DriftModes,
                 active : BOOLEAN, bind : {tg.bind}]
    BY DEF Target
  <1>2. Target([old EXCEPT !.bind = b])
    <2>. HIDE DEF old
    <2>. QED BY <1>1 DEF Target
  <1>. QED BY <1>2

LEMMA SetNiceType ==
  ASSUME TypeOK, NEW t \in Targets, NEW n \in NiceRequests, NEW dry \in BOOLEAN,
         NEW denied \in SUBSET Pids, SetNice(t, n, dry, denied)
  PROVE  TypeOK'
  <1>. USE DEF TypeOK
  <1>. DEFINE b == targets[t].bind
              hit == IF dry THEN {} ELSE {p \in DOMAIN b : NiceAllowed(p, b[p], proc[p])}
              new == [p \in DOMAIN b |-> IF p \in hit THEN Captured(b[p], proc[p], n) ELSE b[p]]
              tg == [targets[t] EXCEPT !.nice = n, !.bind = new]
  <1>1. n \in Nices /\ t \in DOMAIN targets /\ Target(targets[t])
    BY RequestsAssumption DEF SetNice
  <1>2. DOMAIN b \subseteq Pids /\ b \in [DOMAIN b -> Binding]
    BY <1>1 DEF Target, Bindings
  <1>3. new \in [DOMAIN b -> Binding]
    BY <1>1, <1>2, CapturedType
  <1>4. Target(tg)
    <2>. HIDE DEF new
    <2>. QED BY <1>1, <1>2, <1>3 DEF Target, Bindings
  <1>5. targets' = [targets EXCEPT ![t] = tg]
    BY DEF SetNice
  <1>6. TargetsOK(targets')
    BY <1>1, <1>4, <1>5, TargetUpdated DEF TargetsOK
  <1>7. proc' = Reniced(hit \ denied, n) /\ past' = NiceHistory(t, hit \ denied, hit)
    BY DEF SetNice
  <1>8. proc' \in [Pids -> Process] BY <1>1, <1>7, RenicedType
  <1>9. past' \in [Pids -> History] BY <1>7, NiceHistoryType
  <1>. QED BY <1>6, <1>8, <1>9 DEF SetNice, TargetsOK, Steps

LEMMA SetStopType ==
  ASSUME TypeOK, NEW t \in Targets, NEW stop \in StopRequests, NEW dry \in BOOLEAN,
         NEW unsent \in SUBSET Pids, SetStop(t, stop, dry, unsent)
  PROVE  TypeOK'
  <1>. USE DEF TypeOK
  <1>. DEFINE b == targets[t].bind
              sent == IF dry THEN {}
                      ELSE {p \in DOMAIN b : StopAllowed(p, b[p], proc[p], stop)} \ unsent
              new == [p \in DOMAIN b |-> IF p \in sent THEN [b[p] EXCEPT !.stop = stop] ELSE b[p]]
              tg == [targets[t] EXCEPT !.stop = (IF dry THEN targets[t].stop ELSE stop),
                                       !.bind = new]
  <1>1. stop \in BOOLEAN /\ t \in DOMAIN targets /\ Target(targets[t])
    BY RequestsAssumption DEF SetStop
  <1>2. DOMAIN b \subseteq Pids /\ b \in [DOMAIN b -> Binding]
    BY <1>1, TargetParts
  <1>3. new \in [DOMAIN b -> Binding]
    BY <1>1, <1>2 DEF Binding
  <1>4. Target(tg)
    <2>1. Bindings(new) BY <1>2, <1>3 DEF Bindings
    <2>2. (IF dry THEN targets[t].stop ELSE stop) \in BOOLEAN \cup {None} BY <1>1, TargetParts
    <2>. HIDE DEF new
    <2>. QED BY <1>1, <2>1, <2>2, StopIntentType
  <1>5. targets' = [targets EXCEPT ![t] = tg]
    BY DEF SetStop
  <1>6. TargetsOK(targets')
    <2>. HIDE DEF tg
    <2>. QED BY <1>1, <1>4, <1>5, TargetUpdated DEF TargetsOK
  <1>7. proc' \in [Pids -> Process]
    <2>1. \A p \in Pids : Stopped(proc[p], "procfit") \in Process /\ Continued(proc[p]) \in Process
      BY DEF Stopped, Continued, Process, StopStates
    <2>. QED BY <1>1, <2>1 DEF SetStop
  <1>8. past' \in [Pids -> History]
    <2>1. \A p \in Pids : past[p] \in History /\ [past[p] EXCEPT !.stopSent = TRUE] \in History
      BY DEF History
    <2>2. \E S : past' = [p \in Pids |-> IF p \in S THEN [past[p] EXCEPT !.stopSent = TRUE]
                                        ELSE past[p]]
      <3>1. past' = [p \in Pids |-> IF p \in {q \in Pids : stop /\ q \in sent}
                                    THEN [past[p] EXCEPT !.stopSent = TRUE] ELSE past[p]]
        BY DEF SetStop
      <3>. QED BY <3>1
    <2>. QED BY <2>1, <2>2
  <1>. QED BY <1>1, <1>6, <1>7, <1>8 DEF SetStop, TargetsOK, Steps

LEMMA SignalType ==
  ASSUME TypeOK, NEW insts, NEW s \in SignalRequests, NEW dry \in BOOLEAN,
         NEW unsent \in SUBSET Pids, Signal(insts, s, dry, unsent)
  PROVE  TypeOK'
  <1>. USE DEF TypeOK
  <1>1. s \in {"STOP", "CONT", "KILL"} BY RequestsAssumption
  <1>2. \A p \in Pids : /\ Stopped(proc[p], "other") \in Process
                        /\ Continued(proc[p]) \in Process
                        /\ [proc[p] EXCEPT !.alive = FALSE] \in Process
    BY DEF Stopped, Continued, Process, StopStates
  <1>3. proc' \in [Pids -> Process] BY <1>1, <1>2 DEF Signal
  <1>. QED BY <1>3 DEF Signal, Steps

LEMMA SetFreezeType ==
  ASSUME TypeOK, NEW t \in Targets, NEW freeze \in FreezeRequests, NEW force \in Forces,
         NEW dry \in BOOLEAN, NEW unwritable \in SUBSET Cgroups,
         SetFreeze(t, freeze, force, dry, unwritable)
  PROVE  TypeOK'
  <1>. USE DEF TypeOK
  <1>1. freeze \in BOOLEAN /\ t \in DOMAIN targets /\ Target(targets[t])
    BY RequestsAssumption DEF SetFreeze
  <1>2. Target([targets[t] EXCEPT !.freeze = freeze])
    BY <1>1, TargetParts DEF Target
  <1>3. TargetsOK(targets')
    BY <1>1, <1>2, TargetUpdated DEF SetFreeze, TargetsOK
  <1>4. FreezeScope(targets[t].bind, proc, freeze, force) \subseteq Cgroups
    BY <1>1, TargetParts DEF FreezeScope, Process
  <1>5. frozen' \subseteq Cgroups BY <1>4 DEF SetFreeze, Frozen
  <1>. QED BY <1>3, <1>5 DEF SetFreeze, TargetsOK, Steps

LEMMA RestoreType ==
  ASSUME TypeOK, NEW t \in Targets, NEW force \in BOOLEAN, NEW dry \in BOOLEAN,
         NEW denied \in SUBSET Pids, NEW unsent \in SUBSET Pids, NEW unwritable \in SUBSET Cgroups,
         Restore(t, force, dry, denied, unsent, unwritable)
  PROVE  TypeOK'
  <1>. USE DEF TypeOK
  <1>. DEFINE b == targets[t].bind
              niced == {p \in DOMAIN b : NiceRestorable(b[p], proc[p], force)} \ denied
              conted == {p \in DOMAIN b : b[p].stop /\ Revalidate(b[p], proc[p])} \ unsent
              niceBack(q) == IF q \in niced THEN [b[q] EXCEPT !.want = b[q].orig] ELSE b[q]
              new == [p \in DOMAIN b |-> IF p \in conted THEN [niceBack(p) EXCEPT !.stop = FALSE]
                                        ELSE niceBack(p)]
              tg == [targets[t] EXCEPT !.nice = None, !.stop = None, !.freeze = None, !.bind = new]
  <1>1. t \in DOMAIN targets /\ Target(targets[t])
    BY DEF Restore
  <1>2. DOMAIN b \subseteq Pids /\ b \in [DOMAIN b -> Binding]
    BY <1>1, TargetParts
  <1>3. \A p \in niced : p \in DOMAIN b /\ b[p].orig \in Nices
    BY <1>2 DEF NiceRestorable, Binding
  <1>4. CASE dry
    BY <1>4 DEF Restore, Steps
  <1>5. CASE ~dry
    <2>1. \A p \in DOMAIN b : niceBack(p) \in Binding
      BY <1>2 DEF Binding
    <2>2. new \in [DOMAIN b -> Binding]
      <3>. HIDE DEF niceBack
      <3>. QED BY <2>1 DEF Binding
    <2>3. Target(tg)
      <3>. HIDE DEF new
      <3>. QED BY <1>1, <2>2, RewrittenType
    <2>4. targets' = [targets EXCEPT ![t] = tg]
      BY <1>5 DEF Restore
    <2>5. TargetsOK(targets')
      <3>. HIDE DEF tg
      <3>. QED BY <1>1, <2>3, <2>4, TargetUpdated DEF TargetsOK
    <2>6. proc' = [p \in Pids |->
                     [proc[p] EXCEPT !.nice = IF p \in niced THEN b[p].orig ELSE @,
                                     !.stop = IF p \in conted THEN "running" ELSE @]]
      BY <1>5 DEF Restore
    <2>7. proc' \in [Pids -> Process]
      <3>. DEFINE nice(p) == IF p \in niced THEN b[p].orig ELSE proc[p].nice
                  stop(p) == IF p \in conted THEN "running" ELSE proc[p].stop
                  after(p) == [proc[p] EXCEPT !.nice = nice(p), !.stop = stop(p)]
      <3>1. ASSUME NEW p \in Pids PROVE after(p) \in Process
        <4>1. proc[p] \in Process
          OBVIOUS
        <4>2. nice(p) \in Nices
          <5>. HIDE DEF niced
          <5>. QED BY <1>3, <4>1 DEF Process
        <4>3. stop(p) \in StopStates
          <5>. HIDE DEF conted
          <5>. QED BY <4>1 DEF Process, StopStates
        <4>. HIDE DEF nice, stop
        <4>. QED BY <4>1, <4>2, <4>3 DEF Process
      <3>2. proc' = [p \in Pids |-> after(p)]
        <4>. HIDE DEF niced, conted
        <4>. QED BY <2>6
      <3>. HIDE DEF after
      <3>. QED BY <3>1, <3>2
    <2>8. past' = NiceHistory(t, niced, {})
      BY <1>5 DEF Restore
    <2>9. past' \in [Pids -> History]
      <3>. HIDE DEF niced
      <3>. QED BY <2>8, NiceHistoryType
    <2>10. frozen' \subseteq Cgroups
      BY <1>5 DEF Restore, Frozen
    <2>. QED BY <2>5, <2>7, <2>9, <2>10, <1>5 DEF Restore, TargetsOK, Steps
  <1>. QED BY <1>4, <1>5

LEMMA RestoreNiceType ==
  ASSUME TypeOK, NEW t \in Targets, NEW dry \in BOOLEAN, NEW denied \in SUBSET Pids,
         RestoreNice(t, dry, denied)
  PROVE  TypeOK'
  <1>. USE DEF TypeOK
  <1>. DEFINE b == targets[t].bind
              niced == IF dry THEN {}
                       ELSE {p \in DOMAIN b : NiceRestorable(b[p], proc[p], FALSE)} \ denied
              new == [p \in DOMAIN b |-> IF p \in niced THEN [b[p] EXCEPT !.want = b[p].orig]
                                        ELSE b[p]]
              tg == [targets[t] EXCEPT !.nice = (IF dry THEN targets[t].nice ELSE None), !.bind = new]
  <1>1. t \in DOMAIN targets /\ Target(targets[t])
    BY DEF RestoreNice
  <1>2. DOMAIN b \subseteq Pids /\ b \in [DOMAIN b -> Binding]
    BY <1>1, TargetParts
  <1>3. \A p \in niced : p \in DOMAIN b /\ b[p].orig \in Nices
    BY <1>2 DEF NiceRestorable, Binding
  <1>4. new \in [DOMAIN b -> Binding]
    <2>1. \A p \in niced : [b[p] EXCEPT !.want = b[p].orig] \in Binding
      <3>. HIDE DEF niced, b
      <3>. QED BY <1>2, <1>3 DEF Binding
    <2>. HIDE DEF niced, b
    <2>. QED BY <1>2, <2>1
  <1>5. Target(tg)
    <2>1. Bindings(new) BY <1>2, <1>4 DEF Bindings
    <2>2. (IF dry THEN targets[t].nice ELSE None) \in Nices \cup {None} BY <1>1, TargetParts
    <2>. HIDE DEF new
    <2>. QED BY <1>1, <2>1, <2>2, NiceIntentType
  <1>6. targets' = [targets EXCEPT ![t] = tg]
    BY DEF RestoreNice
  <1>7. TargetsOK(targets')
    <2>. HIDE DEF tg
    <2>. QED BY <1>1, <1>5, <1>6, TargetUpdated DEF TargetsOK
  <1>8. proc' \in [Pids -> Process]
    <2>1. proc' = [p \in Pids |-> IF p \in niced THEN [proc[p] EXCEPT !.nice = b[p].orig]
                                  ELSE proc[p]]
      BY DEF RestoreNice
    <2>2. \A p \in Pids : p \in niced => [proc[p] EXCEPT !.nice = b[p].orig] \in Process
      <3>. HIDE DEF niced, b
      <3>. QED BY <1>3 DEF Process
    <2>. HIDE DEF niced, b
    <2>. QED BY <2>1, <2>2
  <1>9. past' \in [Pids -> History]
    BY NiceHistoryType DEF RestoreNice
  <1>. QED BY <1>7, <1>8, <1>9 DEF RestoreNice, TargetsOK, Steps

LEMMA SetPoliciesType ==
  ASSUME TypeOK, NEW specs \in PolicySets, SetPolicies(specs)
  PROVE  TypeOK'
  <1>. USE DEF TypeOK
  <1>. DEFINE ids == {u \in DOMAIN targets : Origin(u) = "runtime"} \cup ({"config"} \X DOMAIN specs)
              rule(t) == [NewTarget("follow") EXCEPT
                            !.nice = specs[NameOf(t)].nice, !.stop = specs[NameOf(t)].stop,
                            !.drift = specs[NameOf(t)].drift,
                            !.bind = IF t \in DOMAIN targets THEN targets[t].bind ELSE << >>]
  <1>1. DOMAIN specs \subseteq Names /\ specs \in [DOMAIN specs -> PolicySpec]
    BY RequestsAssumption DEF Partial
  <1>2. ids \subseteq Targets
    BY <1>1 DEF Targets, Origins
  <1>3. ASSUME NEW t \in ids, Origin(t) # "runtime"
        PROVE  Target(rule(t))
    <2>1. specs[NameOf(t)] \in PolicySpec
      BY <1>1, <1>3 DEF Origin, NameOf
    <2>2. Bindings(IF t \in DOMAIN targets THEN targets[t].bind ELSE << >>)
      BY EmptyBindings DEF Target
    <2>3. /\ specs[NameOf(t)].nice \in Nices \cup {None}
          /\ specs[NameOf(t)].stop \in BOOLEAN \cup {None}
          /\ specs[NameOf(t)].drift \in DriftModes
      BY <2>1 DEF PolicySpec
    <2>4. Target(NewTarget("follow")) BY NewTargetType DEF Modes
    <2>. QED BY <2>2, <2>3, <2>4, RuleType
  <1>4. targets' = [t \in ids |-> IF Origin(t) = "runtime" THEN targets[t] ELSE rule(t)]
    BY DEF SetPolicies, PoliciesInstalled
  <1>5. \A t \in ids : Origin(t) = "runtime" => t \in DOMAIN targets
    BY DEF Origin
  <1>6. TargetsOK(targets')
    <2>. HIDE DEF rule, ids
    <2>. QED BY <1>2, <1>3, <1>4, <1>5 DEF TargetsOK
  <1>. QED BY <1>6 DEF SetPolicies, PoliciesInstalled, TargetsOK, Steps

LEMMA ReconcileTargetType ==
  ASSUME TypeOK, NEW t \in Targets, NEW insts \in Instances(proc), NEW denied \in SUBSET Pids,
         ReconcileTarget(t, insts, denied)
  PROVE  TypeOK'
  <1>. USE DEF TypeOK
  <1>. DEFINE tg == Bound(targets[t], insts)
              n == tg.nice
              b == tg.bind
              fresh == {p \in DOMAIN b : /\ n # None /\ b[p].orig = None
                                         /\ NiceAllowed(p, b[p], proc[p])}
              off == {p \in DOMAIN b : n # None /\ b[p].orig # None /\ OffTarget(b[p], proc[p], n)}
              again == IF tg.drift = "reapply" THEN off \ denied ELSE {}
              next(q) == CASE q \in fresh -> Captured(b[q], proc[q], n)
                           [] q \in again -> [b[q] EXCEPT !.want = n]
                           [] q \in off /\ tg.drift = "adopt" -> [b[q] EXCEPT !.want = proc[q].nice]
                           [] OTHER -> b[q]
              new == [p \in DOMAIN b |-> next(p)]
              written == (fresh \ denied) \cup again
  <1>1. t \in DOMAIN targets /\ Target(targets[t]) /\ Target(tg)
    BY BoundType DEF ReconcileTarget
  <1>2. /\ DOMAIN b \subseteq Pids /\ b \in [DOMAIN b -> Binding] /\ n \in Nices \cup {None}
    <2>. HIDE DEF tg
    <2>. QED BY <1>1, TargetParts
  <1>3. /\ targets' = [targets EXCEPT ![t] = [tg EXCEPT !.bind = new]]
        /\ proc' = Reniced(written, n)
        /\ past' = NiceHistory(t, written, fresh)
        /\ last' = "reconcile" /\ UNCHANGED frozen
    BY DEF ReconcileTarget
  <1>4. \A q \in fresh \cup off : n \in Nices /\ q \in DOMAIN b
    <2>. HIDE DEF tg
    <2>. QED BY <1>2
  <1>. HIDE DEF tg
  <1>5. \A q \in DOMAIN b : next(q) \in Binding
    <2>. SUFFICES ASSUME NEW q \in DOMAIN b PROVE next(q) \in Binding OBVIOUS
    <2>1. b[q] \in Binding /\ proc[q] \in Process BY <1>2
    <2>2. CASE q \in fresh BY <2>1, <2>2, <1>4, CapturedType
    <2>3. CASE q \notin fresh /\ q \in off
      BY <2>1, <2>3, <1>4 DEF Binding, Process
    <2>4. CASE q \notin fresh /\ q \notin off BY <2>1, <2>4
    <2>. QED BY <2>2, <2>3, <2>4
  <1>6. Target([tg EXCEPT !.bind = new])
    <2>. HIDE DEF next
    <2>1. new \in [DOMAIN b -> Binding] BY <1>5
    <2>. HIDE DEF new
    <2>. QED BY <1>1, <1>2, <2>1 DEF Target, Bindings
  <1>7. TargetsOK(targets')
    <2>. HIDE DEF new
    <2>. QED BY <1>1, <1>3, <1>6, TargetUpdated DEF TargetsOK
  <1>8. proc' \in [Pids -> Process]
    <2>1. CASE written = {} BY <2>1, <1>3 DEF Reniced
    <2>2. CASE written # {}
      <3>1. n \in Nices BY <2>2, <1>4
      <3>. HIDE DEF written, n
      <3>. QED BY <1>3, <3>1, RenicedType
    <2>. QED BY <2>1, <2>2
  <1>9. past' \in [Pids -> History]
    <2>. HIDE DEF written, fresh
    <2>. QED BY <1>3, NiceHistoryType
  <1>. QED BY <1>3, <1>7, <1>8, <1>9 DEF TargetsOK, Steps

LEMMA TypeStep ==
  ASSUME TypeOK, [Next]_vars PROVE TypeOK'
  <1>1. CASE KernelStep BY <1>1, KernelType
  <1>2. CASE MembershipStep BY <1>2, MembershipType
  <1>3. CASE ControlStep
    BY <1>3, SetNiceType, SetStopType, SignalType, SetFreezeType, RestoreType, RestoreNiceType,
       RequestsAssumption DEF ControlStep
  <1>4. CASE PolicyStep
    BY <1>4, SetPoliciesType, ReconcileTargetType DEF PolicyStep
  <1>5. CASE UNCHANGED vars BY <1>5 DEF TypeOK, vars
  <1>. QED BY <1>1, <1>2, <1>3, <1>4, <1>5 DEF Next

\* The state of the manager and of the process table stays well formed: every field
\* is of its type, and every binding is of a pid and a nice value that exist.
THEOREM TypeCorrect == Spec => []TypeOK
  <1>1. TypeOK /\ [Next]_vars => TypeOK' BY TypeStep
  <1>2. Init => TypeOK BY InitType
  <1>. QED BY <1>1, <1>2, PTL DEF Spec

(***************************************************************************)
(* How a step may change a binding and the process behind it.              *)
(***************************************************************************)
\* The binding was there before the step, of the same process.
Held(t, p) ==
  /\ t \in DOMAIN targets /\ p \in DOMAIN targets[t].bind
  /\ targets'[t].bind[p].inc = targets[t].bind[p].inc

Evolves(t, p) ==
  LET b == targets[t].bind[p]
      c == targets'[t].bind[p]
  IN  /\ Held(t, p) \/ c.inc <= proc[p].inc
      /\ c.orig # None => CheckPID(p) \/ (Held(t, p) /\ b.orig # None)
      /\ Held(t, p) /\ b.orig # None => c.orig = b.orig
      /\ c.stop => (Held(t, p) /\ b.stop) \/ (CheckPID(p) /\ past'[p].stopSent)

BindingsEvolve ==
  \A t \in DOMAIN targets' : \A p \in DOMAIN targets'[t].bind : Evolves(t, p)

\* Incarnations only grow, and a process keeps the record of its SIGSTOP and of the
\* targets it was loaded with.
KeepsRecord(p) ==
  /\ past[p].stopSent => past'[p].stopSent
  /\ past'[p].inherited = past[p].inherited

ProcessesEvolve ==
  \A p \in Pids : /\ proc'[p].inc >= proc[p].inc
                  /\ proc'[p].inc = proc[p].inc => KeepsRecord(p)

LEMMA SameIncarnations ==
  ASSUME TypeOK,
         \A p \in Pids : proc'[p].inc = proc[p].inc,
         \A p \in Pids : KeepsRecord(p)
  PROVE  ProcessesEvolve
  <1>1. \A p \in Pids : proc[p].inc \in Nat
    BY ConstantsAssumption DEF TypeOK, Process, Incarnations
  <1>. QED BY <1>1 DEF ProcessesEvolve

LEMMA SameBindingsEvolve == UNCHANGED targets => BindingsEvolve
  BY DEF BindingsEvolve, Evolves, Held

\* A step that rewrites the bindings of one existing target, pid by pid.
LEMMA RewriteEvolves ==
  ASSUME NEW t \in DOMAIN targets,
         DOMAIN targets' = DOMAIN targets,
         \A u \in DOMAIN targets \ {t} : targets'[u] = targets[u],
         DOMAIN targets'[t].bind = DOMAIN targets[t].bind,
         \A p \in DOMAIN targets[t].bind : Evolves(t, p)
  PROVE  BindingsEvolve
  BY DEF BindingsEvolve, Evolves, Held

LEMMA KernelEvolves ==
  ASSUME TypeOK, KernelStep PROVE BindingsEvolve /\ ProcessesEvolve
  <1>1. ASSUME NEW p \in Pids, NEW n \in OutsideNices, NEW c \in Cgroups, Spawn(p, n, c)
        PROVE  BindingsEvolve /\ ProcessesEvolve
    BY <1>1, SameBindingsEvolve, ConstantsAssumption
       DEF Spawn, TypeOK, Process, Incarnations, ProcessesEvolve, KeepsRecord
  <1>2. ASSUME NEW p \in Pids, Exit(p) PROVE BindingsEvolve /\ ProcessesEvolve
    BY <1>2, SameBindingsEvolve, ConstantsAssumption
       DEF Exit, TypeOK, Process, Incarnations, ProcessesEvolve, KeepsRecord
  <1>3. ASSUME NEW p \in Pids, NEW n \in OutsideNices, OutsideRenice(p, n)
        PROVE  BindingsEvolve /\ ProcessesEvolve
    BY <1>3, SameBindingsEvolve, ConstantsAssumption
       DEF OutsideRenice, TypeOK, Process, Incarnations, History, ProcessesEvolve, KeepsRecord
  <1>4. ASSUME NEW p \in Pids, NEW s \in OutsideStops, OutsideSignal(p, s)
        PROVE  BindingsEvolve /\ ProcessesEvolve
    BY <1>4, SameBindingsEvolve, ConstantsAssumption
       DEF OutsideSignal, Stopped, Continued, TypeOK, Process, Incarnations, ProcessesEvolve, KeepsRecord
  <1>5. ASSUME Reboot PROVE BindingsEvolve /\ ProcessesEvolve
    <2>1. \A t \in DOMAIN targets' : targets'[t].bind = << >>
      BY <1>5 DEF Reboot, TypeOK, Target
    <2>2. BindingsEvolve BY <2>1 DEF BindingsEvolve
    <2>3. /\ \A p \in Pids : proc'[p].inc = proc[p].inc
          /\ \A p \in Pids : KeepsRecord(p)
      BY <1>5 DEF Reboot, TypeOK, Process, KeepsRecord
    <2>4. ProcessesEvolve BY <2>3, SameIncarnations
    <2>. QED BY <2>2, <2>4
  <1>. QED BY <1>1, <1>2, <1>3, <1>4, <1>5 DEF KernelStep

\* Re-binding target t keeps the record of a process that stays and starts an empty
\* one otherwise.
LEMMA BindInstancesEvolves ==
  ASSUME NEW t, NEW insts, NEW p \in DOMAIN insts, insts[p] <= proc[p].inc,
         targets'[t].bind = BindInstances(IF t \in DOMAIN targets THEN targets[t].bind ELSE << >>,
                                          insts)
  PROVE  Evolves(t, p)
  <1>. DEFINE kept == /\ t \in DOMAIN targets /\ p \in DOMAIN targets[t].bind
                      /\ targets[t].bind[p].inc = insts[p]
  <1>1. CASE kept
    <2>1. targets'[t].bind[p] = targets[t].bind[p] BY <1>1 DEF BindInstances
    <2>. QED BY <1>1, <2>1 DEF Evolves, Held
  <1>2. CASE ~kept
    <2>1. targets'[t].bind[p] = NewBinding(insts[p])
      <3>1. p \notin DOMAIN << >> OBVIOUS
      <3>. QED BY <1>2, <3>1 DEF BindInstances
    <2>2. /\ targets'[t].bind[p].inc = insts[p] /\ targets'[t].bind[p].orig = None
          /\ ~targets'[t].bind[p].stop
      BY <2>1 DEF NewBinding
    <2>3. ~Held(t, p) BY <1>2, <2>2 DEF Held
    <2>. QED BY <2>2, <2>3 DEF Evolves
  <1>. QED BY <1>1, <1>2

LEMMA SameProcessesEvolve ==
  ASSUME TypeOK, UNCHANGED <<proc, past>> PROVE ProcessesEvolve
  BY ConstantsAssumption DEF ProcessesEvolve, KeepsRecord, TypeOK, Process, Incarnations

LEMMA MembershipEvolves ==
  ASSUME TypeOK, MembershipStep PROVE BindingsEvolve /\ ProcessesEvolve
  <1>1. ASSUME NEW t \in Targets, NEW mode \in ManageModes, NEW insts \in Instances(proc),
               Manage(t, mode, insts)
        PROVE  BindingsEvolve
    <2>. DEFINE old == IF t \in DOMAIN targets THEN targets[t].bind ELSE << >>
    <2>0. Bindings(old)
      BY EmptyBindings DEF TypeOK, Target
    <2>1. /\ DOMAIN targets' = DOMAIN targets \cup {t}
          /\ \A u \in DOMAIN targets \ {t} : targets'[u] = targets[u]
          /\ targets'[t].bind = BindInstances(old, insts)
      <3>1. CASE t \in DOMAIN targets
        <4>1. Target([targets[t] EXCEPT !.mode = mode])
          BY <3>1, ModeType, RequestsAssumption DEF TypeOK
        <4>2. [targets[t] EXCEPT !.mode = mode].bind = targets[t].bind
          BY <3>1 DEF TypeOK, Target
        <4>3. Bound([targets[t] EXCEPT !.mode = mode], insts).bind = BindInstances(old, insts)
          <5>1. \A x : Target(x) => Bound(x, insts).bind = BindInstances(x.bind, insts)
            BY BoundType
          <5>2. targets[t].bind = old BY <3>1
          <5>. HIDE DEF old
          <5>. QED BY <4>1, <4>2, <5>1, <5>2
        <4>. QED BY <1>1, <3>1, <4>3 DEF Manage
      <3>2. CASE t \notin DOMAIN targets
        <4>1. Target(NewTarget(mode)) /\ NewTarget(mode).bind = << >>
          BY NewTargetType, RequestsAssumption DEF NewTarget
        <4>. QED BY <1>1, <3>2, <4>1, BoundType DEF Manage
      <3>. QED BY <3>1, <3>2
    <2>2. /\ DOMAIN targets'[t].bind = DOMAIN insts
          /\ \A p \in DOMAIN insts : insts[p] <= proc[p].inc
      BY <2>0, <2>1, BindInstancesType
    <2>3. \A p \in DOMAIN insts : Evolves(t, p)
      BY <2>1, <2>2, BindInstancesEvolves
    <2>4. \A u \in DOMAIN targets \ {t} : \A p \in DOMAIN targets[u].bind : Evolves(u, p)
      BY <2>1 DEF Evolves, Held
    <2>. QED BY <2>1, <2>2, <2>3, <2>4 DEF BindingsEvolve
  <1>2. ASSUME NEW t \in Targets, NEW insts \in Instances(proc), Rebind(t, insts)
        PROVE  BindingsEvolve
    <2>1. t \in DOMAIN targets /\ Target(targets[t])
      BY <1>2 DEF Rebind, TypeOK
    <2>2. /\ DOMAIN targets' = DOMAIN targets
          /\ \A u \in DOMAIN targets \ {t} : targets'[u] = targets[u]
          /\ targets'[t].bind = BindInstances(targets[t].bind, insts)
      BY <1>2, <2>1, BoundType DEF Rebind
    <2>3. /\ DOMAIN targets'[t].bind = DOMAIN insts
          /\ \A p \in DOMAIN insts : insts[p] <= proc[p].inc
      BY <2>1, <2>2, BindInstancesType, TargetParts DEF Target
    <2>4. \A p \in DOMAIN insts : Evolves(t, p)
      BY <2>1, <2>2, <2>3, BindInstancesEvolves
    <2>5. \A u \in DOMAIN targets \ {t} : \A p \in DOMAIN targets[u].bind : Evolves(u, p)
      BY <2>2 DEF Evolves, Held
    <2>. QED BY <2>1, <2>2, <2>3, <2>4, <2>5 DEF BindingsEvolve
  <1>3. ASSUME NEW t \in Targets, Unmanage(t) PROVE BindingsEvolve
    BY <1>3 DEF Unmanage, Restrict, BindingsEvolve, Evolves, Held
  <1>4. UNCHANGED <<proc, past>>
    BY DEF MembershipStep, Manage, Rebind, Unmanage
  <1>. QED BY <1>1, <1>2, <1>3, <1>4, SameProcessesEvolve DEF MembershipStep

\* A binding a nice call wrote: captured once, only if the safeguards allow it.
LEMMA NiceEvolves ==
  ASSUME TypeOK, NEW t \in DOMAIN targets, NEW p \in DOMAIN targets[t].bind, NEW n \in Nices,
         \/ targets'[t].bind[p] = targets[t].bind[p]
         \/ /\ NiceAllowed(p, targets[t].bind[p], proc[p])
            /\ targets'[t].bind[p] = Captured(targets[t].bind[p], proc[p], n)
         \/ targets'[t].bind[p] = [targets[t].bind[p] EXCEPT !.want = n]
  PROVE  Evolves(t, p)
  <1>1. /\ targets[t].bind[p] \in Binding /\ p \in Pids /\ proc[p] \in Process
    BY TargetParts DEF TypeOK
  <1>2. CASE targets'[t].bind[p] = targets[t].bind[p]
    BY <1>2 DEF Evolves, Held
  <1>3. CASE /\ NiceAllowed(p, targets[t].bind[p], proc[p])
             /\ targets'[t].bind[p] = Captured(targets[t].bind[p], proc[p], n)
    BY <1>1, <1>3, CapturedType DEF Evolves, Held, NiceAllowed
  <1>4. CASE targets'[t].bind[p] = [targets[t].bind[p] EXCEPT !.want = n]
    BY <1>1, <1>4 DEF Evolves, Held, Binding
  <1>. QED BY <1>2, <1>3, <1>4

LEMMA NiceProcessesEvolve ==
  ASSUME TypeOK, NEW t, NEW written, NEW refused, past' = NiceHistory(t, written, refused),
         \A p \in Pids : proc'[p].inc = proc[p].inc
  PROVE  ProcessesEvolve
  <1>1. \A p \in Pids : KeepsRecord(p)
    BY DEF NiceHistory, TypeOK, History, KeepsRecord
  <1>. QED BY <1>1, SameIncarnations

LEMMA SetNiceEvolves ==
  ASSUME TypeOK, NEW t \in Targets, NEW n \in NiceRequests, NEW dry \in BOOLEAN,
         NEW denied \in SUBSET Pids, SetNice(t, n, dry, denied)
  PROVE  BindingsEvolve /\ ProcessesEvolve
  <1>. DEFINE b == targets[t].bind
              hit == IF dry THEN {} ELSE {p \in DOMAIN b : NiceAllowed(p, b[p], proc[p])}
              new == [p \in DOMAIN b |-> IF p \in hit THEN Captured(b[p], proc[p], n) ELSE b[p]]
  <1>1. n \in Nices /\ t \in DOMAIN targets /\ Target(targets[t])
    BY RequestsAssumption DEF SetNice, TypeOK
  <1>2. /\ DOMAIN targets' = DOMAIN targets
        /\ \A u \in DOMAIN targets \ {t} : targets'[u] = targets[u]
        /\ targets'[t].bind = new
    BY <1>1 DEF SetNice, Target
  <1>3. ASSUME NEW p \in DOMAIN b PROVE Evolves(t, p)
    <2>1. targets'[t].bind[p] = b[p]
          \/ (NiceAllowed(p, b[p], proc[p]) /\ targets'[t].bind[p] = Captured(b[p], proc[p], n))
      BY <1>2
    <2>. QED BY <1>1, <2>1, NiceEvolves
  <1>4. BindingsEvolve
    BY <1>1, <1>2, <1>3, RewriteEvolves
  <1>5. past' = NiceHistory(t, hit \ denied, hit) /\ proc' = Reniced(hit \ denied, n)
    BY DEF SetNice
  <1>6. \A p \in Pids : proc'[p].inc = proc[p].inc
    BY <1>5 DEF Reniced, TypeOK, Process
  <1>. QED BY <1>4, <1>5, <1>6, NiceProcessesEvolve

LEMMA SetStopEvolves ==
  ASSUME TypeOK, NEW t \in Targets, NEW stop \in StopRequests, NEW dry \in BOOLEAN,
         NEW unsent \in SUBSET Pids, SetStop(t, stop, dry, unsent)
  PROVE  BindingsEvolve /\ ProcessesEvolve
  <1>. DEFINE b == targets[t].bind
              sent == IF dry THEN {}
                      ELSE {p \in DOMAIN b : StopAllowed(p, b[p], proc[p], stop)} \ unsent
              new == [p \in DOMAIN b |-> IF p \in sent THEN [b[p] EXCEPT !.stop = stop] ELSE b[p]]
  <1>1. stop \in BOOLEAN /\ t \in DOMAIN targets /\ Target(targets[t])
    BY RequestsAssumption DEF SetStop, TypeOK
  <1>2. /\ DOMAIN targets' = DOMAIN targets
        /\ \A u \in DOMAIN targets \ {t} : targets'[u] = targets[u]
        /\ targets'[t].bind = new
    BY <1>1 DEF SetStop, Target
  <1>3. past' = [p \in Pids |-> IF stop /\ p \in sent
                               THEN [past[p] EXCEPT !.stopSent = TRUE] ELSE past[p]]
    BY DEF SetStop
  <1>4. ASSUME NEW p \in DOMAIN b PROVE Evolves(t, p)
    <2>1. b[p] \in Binding /\ p \in Pids BY <1>1, TargetParts
    <2>2. CASE p \notin sent
      BY <1>1, <1>2, <2>2 DEF Evolves, Held
    <2>3. CASE p \in sent
      <3>1. /\ targets'[t].bind[p].inc = b[p].inc /\ targets'[t].bind[p].orig = b[p].orig
            /\ targets'[t].bind[p].stop = stop
        BY <1>2, <2>1, <2>3 DEF Binding
      <3>2. CheckPID(p) BY <2>3 DEF StopAllowed
      <3>3. stop => past'[p].stopSent BY <1>3, <2>1, <2>3 DEF TypeOK, History
      <3>. QED BY <1>1, <3>1, <3>2, <3>3 DEF Evolves, Held
    <2>. QED BY <2>2, <2>3
  <1>5. BindingsEvolve
    BY <1>1, <1>2, <1>4, RewriteEvolves
  <1>6. \A p \in Pids : proc'[p].inc = proc[p].inc
    BY <1>1 DEF SetStop, Stopped, Continued, TypeOK, Process
  <1>7. \A p \in Pids : KeepsRecord(p)
    BY <1>3 DEF TypeOK, History, KeepsRecord
  <1>8. ProcessesEvolve BY <1>6, <1>7, SameIncarnations
  <1>. QED BY <1>5, <1>8

LEMMA SignalEvolves ==
  ASSUME TypeOK, NEW insts, NEW s \in SignalRequests, NEW dry \in BOOLEAN,
         NEW unsent \in SUBSET Pids, Signal(insts, s, dry, unsent)
  PROVE  BindingsEvolve /\ ProcessesEvolve
  <1>1. s \in {"STOP", "CONT", "KILL"} BY RequestsAssumption
  <1>2. \A p \in Pids : proc'[p].inc = proc[p].inc
    BY <1>1 DEF Signal, Stopped, Continued, TypeOK, Process
  <1>3. \A p \in Pids : KeepsRecord(p) BY DEF Signal, KeepsRecord
  <1>4. ProcessesEvolve BY <1>2, <1>3, SameIncarnations
  <1>. QED BY <1>4, SameBindingsEvolve DEF Signal

LEMMA SetFreezeEvolves ==
  ASSUME TypeOK, NEW t \in Targets, NEW freeze \in FreezeRequests, NEW force \in Forces,
         NEW dry \in BOOLEAN, NEW unwritable \in SUBSET Cgroups,
         SetFreeze(t, freeze, force, dry, unwritable)
  PROVE  BindingsEvolve /\ ProcessesEvolve
  <1>1. DOMAIN targets' = DOMAIN targets
    BY DEF SetFreeze
  <1>2. \A u \in DOMAIN targets : targets'[u].bind = targets[u].bind
    BY DEF SetFreeze, TypeOK, Target
  <1>3. BindingsEvolve BY <1>1, <1>2 DEF BindingsEvolve, Evolves, Held
  <1>. QED BY <1>3, SameProcessesEvolve DEF SetFreeze

\* What restoring does to a binding: the wanted value and the stop may be reset.
LEMMA RestoredEvolves ==
  ASSUME TypeOK, NEW t \in DOMAIN targets, NEW p \in DOMAIN targets[t].bind,
         LET b == targets[t].bind[p]
             c == targets'[t].bind[p]
         IN  c.inc = b.inc /\ c.orig = b.orig /\ (c.stop => b.stop)
  PROVE  Evolves(t, p)
  BY DEF Evolves, Held

LEMMA RestoreEvolves ==
  ASSUME TypeOK, NEW t \in Targets, NEW force \in BOOLEAN, NEW dry \in BOOLEAN,
         NEW denied \in SUBSET Pids, NEW unsent \in SUBSET Pids, NEW unwritable \in SUBSET Cgroups,
         Restore(t, force, dry, denied, unsent, unwritable)
  PROVE  BindingsEvolve /\ ProcessesEvolve
  <1>. DEFINE b == targets[t].bind
              niced == {p \in DOMAIN b : NiceRestorable(b[p], proc[p], force)} \ denied
              conted == {p \in DOMAIN b : b[p].stop /\ Revalidate(b[p], proc[p])} \ unsent
              niceBack(q) == IF q \in niced THEN [b[q] EXCEPT !.want = b[q].orig] ELSE b[q]
              new == [p \in DOMAIN b |-> IF p \in conted THEN [niceBack(p) EXCEPT !.stop = FALSE]
                                        ELSE niceBack(p)]
  <1>1. t \in DOMAIN targets /\ Target(targets[t])
    BY DEF Restore, TypeOK
  <1>2. CASE dry
    BY <1>2, SameBindingsEvolve, SameProcessesEvolve DEF Restore
  <1>3. CASE ~dry
    <2>1. /\ DOMAIN targets' = DOMAIN targets
          /\ \A u \in DOMAIN targets \ {t} : targets'[u] = targets[u]
          /\ targets'[t].bind = new
      <3>1. targets' = [targets EXCEPT ![t] =
                          [targets[t] EXCEPT !.nice = None, !.stop = None, !.freeze = None,
                                             !.bind = new]]
        BY <1>3 DEF Restore
      <3>. HIDE DEF new
      <3>. QED BY <1>1, <3>1 DEF Target
    <2>2. ASSUME NEW p \in DOMAIN b PROVE Evolves(t, p)
      <3>1. b[p] \in Binding BY <1>1, TargetParts
      <3>2. /\ niceBack(p).inc = b[p].inc /\ niceBack(p).orig = b[p].orig
            /\ niceBack(p).stop = b[p].stop /\ niceBack(p) \in [inc : Incarnations, orig : {b[p].orig},
                                                                want : {niceBack(p).want}, stop : BOOLEAN]
        BY <3>1 DEF Binding
      <3>3. /\ new[p].inc = b[p].inc /\ new[p].orig = b[p].orig /\ (new[p].stop => b[p].stop)
        <4>. HIDE DEF niceBack
        <4>1. CASE p \in conted BY <3>2, <4>1
        <4>2. CASE p \notin conted BY <3>2, <4>2
        <4>. QED BY <4>1, <4>2
      <3>. QED
        <4>. HIDE DEF new
        <4>. QED BY <1>1, <2>1, <3>3, RestoredEvolves
    <2>3. BindingsEvolve
      BY <1>1, <2>1, <2>2, RewriteEvolves
    <2>4. past' = NiceHistory(t, niced, {})
      BY <1>3 DEF Restore
    <2>5. \A p \in Pids : proc'[p].inc = proc[p].inc
      <3>1. proc' = [p \in Pids |->
                       [proc[p] EXCEPT !.nice = IF p \in niced THEN b[p].orig ELSE @,
                                       !.stop = IF p \in conted THEN "running" ELSE @]]
        BY <1>3 DEF Restore
      <3>. HIDE DEF niced, conted
      <3>. QED BY <3>1 DEF TypeOK, Process
    <2>. QED BY <2>3, <2>4, <2>5, NiceProcessesEvolve
  <1>. QED BY <1>2, <1>3

LEMMA RestoreNiceEvolves ==
  ASSUME TypeOK, NEW t \in Targets, NEW dry \in BOOLEAN, NEW denied \in SUBSET Pids,
         RestoreNice(t, dry, denied)
  PROVE  BindingsEvolve /\ ProcessesEvolve
  <1>. DEFINE b == targets[t].bind
              niced == IF dry THEN {}
                       ELSE {p \in DOMAIN b : NiceRestorable(b[p], proc[p], FALSE)} \ denied
              new == [p \in DOMAIN b |-> IF p \in niced THEN [b[p] EXCEPT !.want = b[p].orig]
                                        ELSE b[p]]
  <1>1. t \in DOMAIN targets /\ Target(targets[t])
    BY DEF RestoreNice, TypeOK
  <1>2. /\ DOMAIN targets' = DOMAIN targets
        /\ \A u \in DOMAIN targets \ {t} : targets'[u] = targets[u]
        /\ targets'[t].bind = new
    BY <1>1 DEF RestoreNice, Target
  <1>3. ASSUME NEW p \in DOMAIN b PROVE Evolves(t, p)
    <2>1. b[p] \in Binding BY <1>1, TargetParts
    <2>2. new[p].inc = b[p].inc /\ new[p].orig = b[p].orig /\ (new[p].stop => b[p].stop)
      <3>. HIDE DEF niced
      <3>. QED BY <2>1 DEF Binding
    <2>. QED
      <3>. HIDE DEF new
      <3>. QED BY <1>1, <1>2, <2>2, RestoredEvolves
  <1>4. BindingsEvolve
    BY <1>1, <1>2, <1>3, RewriteEvolves
  <1>5. past' = NiceHistory(t, niced, {})
    BY DEF RestoreNice
  <1>6. \A p \in Pids : proc'[p].inc = proc[p].inc
    BY DEF RestoreNice, TypeOK, Process
  <1>. QED BY <1>4, <1>5, <1>6, NiceProcessesEvolve

LEMMA SetPoliciesEvolves ==
  ASSUME TypeOK, NEW specs \in PolicySets, SetPolicies(specs)
  PROVE  BindingsEvolve /\ ProcessesEvolve
  <1>. DEFINE rule(t) == [NewTarget("follow") EXCEPT
                            !.nice = specs[NameOf(t)].nice, !.stop = specs[NameOf(t)].stop,
                            !.drift = specs[NameOf(t)].drift,
                            !.bind = IF t \in DOMAIN targets THEN targets[t].bind ELSE << >>]
  <1>0. \A t : rule(t).bind = (IF t \in DOMAIN targets THEN targets[t].bind ELSE << >>)
    BY DEF NewTarget
  <1>1. \A t \in DOMAIN targets' :
          \/ t \in DOMAIN targets /\ targets'[t].bind = targets[t].bind
          \/ DOMAIN targets'[t].bind = {}
    <2>1. \A t \in DOMAIN targets' :
            \/ t \in DOMAIN targets /\ targets'[t] = targets[t]
            \/ targets'[t] = rule(t)
      BY DEF SetPolicies, PoliciesInstalled, Origin
    <2>2. DOMAIN << >> = {} OBVIOUS
    <2>. HIDE DEF rule
    <2>. QED BY <1>0, <2>1, <2>2
  <1>2. BindingsEvolve BY <1>1 DEF BindingsEvolve, Evolves, Held
  <1>. QED BY <1>2, SameProcessesEvolve DEF SetPolicies, PoliciesInstalled

LEMMA ReconcileTargetEvolves ==
  ASSUME TypeOK, NEW t \in Targets, NEW insts \in Instances(proc), NEW denied \in SUBSET Pids,
         ReconcileTarget(t, insts, denied)
  PROVE  BindingsEvolve /\ ProcessesEvolve
  <1>. DEFINE tg == Bound(targets[t], insts)
              n == tg.nice
              b == tg.bind
              fresh == {p \in DOMAIN b : /\ n # None /\ b[p].orig = None
                                         /\ NiceAllowed(p, b[p], proc[p])}
              off == {p \in DOMAIN b : n # None /\ b[p].orig # None /\ OffTarget(b[p], proc[p], n)}
              again == IF tg.drift = "reapply" THEN off \ denied ELSE {}
              next(q) == CASE q \in fresh -> Captured(b[q], proc[q], n)
                           [] q \in again -> [b[q] EXCEPT !.want = n]
                           [] q \in off /\ tg.drift = "adopt" -> [b[q] EXCEPT !.want = proc[q].nice]
                           [] OTHER -> b[q]
              new == [p \in DOMAIN b |-> next(p)]
              written == (fresh \ denied) \cup again
              old == targets[t].bind
  <1>1. /\ t \in DOMAIN targets /\ Target(targets[t]) /\ Bindings(old) /\ Target(tg)
        /\ b = BindInstances(old, insts)
    BY BoundType DEF ReconcileTarget, TypeOK, Target
  <1>2. /\ targets' = [targets EXCEPT ![t] = [tg EXCEPT !.bind = new]]
        /\ proc' = Reniced(written, n) /\ past' = NiceHistory(t, written, fresh)
    BY DEF ReconcileTarget
  <1>3. /\ DOMAIN b = DOMAIN insts
        /\ \A p \in DOMAIN b : /\ b[p] \in Binding /\ p \in Pids /\ insts[p] <= proc[p].inc
                             /\ b[p].inc = insts[p]
    BY <1>1, BindInstancesType DEF Bindings
  <1>. HIDE DEF tg
  <1>4. /\ DOMAIN targets' = DOMAIN targets
        /\ \A u \in DOMAIN targets \ {t} : targets'[u] = targets[u]
        /\ targets'[t].bind = new
    <2>. HIDE DEF new
    <2>. QED BY <1>1, <1>2 DEF Target
  <1>5. ASSUME NEW p \in DOMAIN b PROVE Evolves(t, p)
    <2>1. n \in Nices \cup {None} /\ proc[p] \in Process /\ b[p] \in Binding
      BY <1>1, <1>3, TargetParts DEF TypeOK
    <2>2. /\ next(p).inc = b[p].inc /\ next(p).stop = b[p].stop
          /\ b[p].orig # None => next(p).orig = b[p].orig
          /\ next(p).orig # None => b[p].orig # None \/ CheckPID(p)
      <3>1. CASE p \in fresh
        <4>1. n \in Nices /\ CheckPID(p) BY <2>1, <3>1 DEF NiceAllowed
        <4>. QED BY <2>1, <3>1, <4>1, CapturedType
      <3>2. CASE p \notin fresh
        <4>. HIDE DEF fresh, off
        <4>. QED BY <2>1, <3>2 DEF Binding
      <3>. QED BY <3>1, <3>2
    <2>3. \/ p \in DOMAIN old /\ b[p] = old[p] /\ old[p].inc = insts[p]
          \/ /\ b[p] = NewBinding(insts[p])
             /\ p \in DOMAIN old => old[p].inc # insts[p]
      BY <1>1, <1>3 DEF BindInstances
    <2>4. new[p] = next(p) OBVIOUS
    <2>. HIDE DEF next, new
    <2>5. CASE p \in DOMAIN old /\ b[p] = old[p] /\ old[p].inc = insts[p]
      BY <1>1, <1>4, <2>2, <2>4, <2>5 DEF Evolves, Held
    <2>6. CASE /\ b[p] = NewBinding(insts[p])
               /\ p \in DOMAIN old => old[p].inc # insts[p]
      <3>1. b[p].orig = None /\ ~b[p].stop /\ b[p].inc = insts[p] BY <2>6 DEF NewBinding
      <3>2. ~Held(t, p) BY <1>4, <2>2, <2>4, <2>6, <3>1 DEF Held
      <3>. QED BY <1>3, <1>4, <2>2, <2>4, <3>1, <3>2 DEF Evolves
    <2>. QED BY <2>3, <2>5, <2>6
  <1>6. BindingsEvolve
    <2>1. DOMAIN targets'[t].bind = DOMAIN b BY <1>4
    <2>2. \A u \in DOMAIN targets \ {t} : \A p \in DOMAIN targets[u].bind : Evolves(u, p)
      BY <1>4 DEF Evolves, Held
    <2>. HIDE DEF new
    <2>. QED BY <1>4, <1>5, <2>1, <2>2 DEF BindingsEvolve
  <1>7. \A p \in Pids : proc'[p].inc = proc[p].inc
    <2>. HIDE DEF written, n
    <2>. QED BY <1>2 DEF Reniced, TypeOK, Process
  <1>. QED BY <1>2, <1>6, <1>7, NiceProcessesEvolve

LEMMA StepEvolves ==
  ASSUME TypeOK, [Next]_vars PROVE BindingsEvolve /\ ProcessesEvolve
  <1>1. CASE KernelStep BY <1>1, KernelEvolves
  <1>2. CASE MembershipStep BY <1>2, MembershipEvolves
  <1>3. CASE ControlStep
    BY <1>3, SetNiceEvolves, SetStopEvolves, SignalEvolves, SetFreezeEvolves, RestoreEvolves,
       RestoreNiceEvolves, RequestsAssumption DEF ControlStep
  <1>4. CASE PolicyStep
    BY <1>4, SetPoliciesEvolves, ReconcileTargetEvolves DEF PolicyStep
  <1>5. CASE UNCHANGED vars
    BY <1>5, SameBindingsEvolve, SameProcessesEvolve DEF vars
  <1>. QED BY <1>1, <1>2, <1>3, <1>4, <1>5 DEF Next

(***************************************************************************)
(* The inductive invariant.  StopOwned alone is not inductive: it speaks   *)
(* of bindings of the current process only, so it also needs that no       *)
(* binding is of a process still to come (KnownIncarnations).              *)
(***************************************************************************)
KnownIncarnations ==
  \A t \in DOMAIN targets : \A p \in DOMAIN targets[t].bind :
    targets[t].bind[p].inc <= proc[p].inc

IInv == TypeOK /\ ProtectedOnlyInherited /\ KnownIncarnations /\ StopOwned

LEMMA IInvInit ==
  ASSUME Init PROVE IInv
  <1>1. TypeOK BY InitType
  <1>2. ASSUME NEW t \in DOMAIN targets, NEW p \in DOMAIN targets[t].bind
        PROVE  /\ targets[t].bind[p].inc = 1 /\ proc[p].inc = 1 /\ p \in Pids
               /\ past[p] = LoadedHistory(p)
    <2>1. p \in Pids BY <1>1, TargetParts DEF TypeOK
    <2>2. targets[t].bind[p].inc = 1 BY LoadsAssumption DEF Init
    <2>. QED BY <2>1, <2>2 DEF Init
  <1>3. \A t \in DOMAIN targets, p \in Pids : Captures(t, p) \/ Stops(t, p) => t \in LoadedHistory(p).inherited
    BY DEF LoadedHistory, NoHistory
  <1>4. \A t \in DOMAIN targets, p \in Pids : Stops(t, p) => LoadedHistory(p).stopSent
    BY DEF LoadedHistory, NoHistory
  <1>5. KnownIncarnations BY <1>2 DEF KnownIncarnations
  <1>6. StopOwned BY <1>2, <1>4 DEF StopOwned, Stops
  <1>7. ProtectedOnlyInherited BY <1>2, <1>3 DEF ProtectedOnlyInherited
  <1>. QED BY <1>1, <1>5, <1>6, <1>7 DEF IInv

LEMMA IInvStep ==
  ASSUME IInv, [Next]_vars PROVE IInv'
  <1>1. TypeOK' BY TypeStep DEF IInv
  <1>2. BindingsEvolve /\ ProcessesEvolve BY StepEvolves DEF IInv
  <1>3. ASSUME NEW t \in DOMAIN targets', NEW p \in DOMAIN targets'[t].bind
        PROVE  LET c == targets'[t].bind[p]
               IN  /\ c.inc <= proc'[p].inc
                   /\ c.stop /\ c.inc = proc'[p].inc => past'[p].stopSent
                   /\ ~CheckPID(p) /\ c.inc = proc'[p].inc /\ (c.orig # None \/ c.stop)
                      => t \in past'[p].inherited
    <2>. DEFINE b == targets[t].bind[p]
                c == targets'[t].bind[p]
    <2>1. Evolves(t, p) BY <1>2 DEF BindingsEvolve
    <2>2. /\ p \in Pids /\ c.inc \in Nat /\ proc[p].inc \in Nat /\ proc'[p].inc \in Nat
      BY <1>1, TargetParts, ConstantsAssumption DEF IInv, TypeOK, Target, Bindings, Binding, Process, Incarnations
    <2>3. /\ proc'[p].inc >= proc[p].inc
          /\ proc'[p].inc = proc[p].inc => KeepsRecord(p)
      BY <1>2, <2>2 DEF ProcessesEvolve
    <2>4. Held(t, p) => /\ b.inc = c.inc /\ b.inc <= proc[p].inc
                        /\ b.stop /\ b.inc = proc[p].inc => past[p].stopSent
                        /\ ~CheckPID(p) /\ b.inc = proc[p].inc /\ (b.orig # None \/ b.stop)
                           => t \in past[p].inherited
      BY DEF Held, IInv, ProtectedOnlyInherited, Captures, Stops, KnownIncarnations, StopOwned
    <2>5. c.inc <= proc'[p].inc BY <2>1, <2>2, <2>3, <2>4 DEF Evolves
    <2>6. ASSUME Held(t, p), c.inc = proc'[p].inc
          PROVE  b.inc = proc[p].inc /\ KeepsRecord(p)
      BY <2>2, <2>3, <2>4, <2>6
    <2>7. c.stop /\ c.inc = proc'[p].inc => past'[p].stopSent
      BY <2>1, <2>4, <2>6 DEF Evolves, KeepsRecord
    <2>8. ~CheckPID(p) /\ c.inc = proc'[p].inc /\ (c.orig # None \/ c.stop)
          => t \in past'[p].inherited
      BY <2>1, <2>4, <2>6 DEF Evolves, KeepsRecord
    <2>. QED BY <2>5, <2>7, <2>8
  <1>4. ProtectedOnlyInherited' BY <1>3 DEF ProtectedOnlyInherited, Captures, Stops
  <1>. QED BY <1>1, <1>3, <1>4 DEF IInv, KnownIncarnations, StopOwned

THEOREM InductiveInvariant == Spec => []IInv
  <1>1. IInv /\ [Next]_vars => IInv' BY IInvStep
  <1>2. Init => IInv BY IInvInit
  <1>. QED BY <1>1, <1>2, PTL DEF Spec

\* No sequence of calls captures the nice of, or records a stop for, the process behind
\* a pid the safeguards protect: where a binding has such a record, the state this run
\* loaded had the same target control that process already.
THEOREM ProtectedPids == Spec => []ProtectedOnlyInherited
  BY InductiveInvariant, PTL DEF IInv

\* A recorded stop of the process now behind a pid was really delivered to it.
THEOREM StopsAreOwn == Spec => []StopOwned
  BY InductiveInvariant, PTL DEF IInv

\* The captured original of a binding never changes while the process stays bound.
THEOREM OriginalsAreStable == Spec => OriginalStable
  <1>. DEFINE Stable == \A t \in DOMAIN targets \cap DOMAIN targets' :
                \A p \in DOMAIN targets[t].bind \cap DOMAIN targets'[t].bind :
                  LET b == targets[t].bind[p]
                      c == targets'[t].bind[p]
                  IN  b.inc = c.inc /\ b.orig # None => c.orig = b.orig
  <1>1. TypeOK /\ [Next]_vars => [Stable]_vars
    <2>. SUFFICES ASSUME TypeOK, [Next]_vars PROVE Stable OBVIOUS
    <2>1. BindingsEvolve BY StepEvolves
    <2>. QED BY <2>1 DEF BindingsEvolve, Evolves, Held
  <1>2. OriginalStable <=> [][Stable]_vars BY DEF OriginalStable
  <1>. QED BY <1>1, <1>2, TypeCorrect, PTL DEF Spec

(***************************************************************************)
(* Continuing.                                                             *)
(***************************************************************************)
ContinuesOwn ==
  last' \in {"continue", "restore", "forced"} =>
    \A p \in Pids : proc[p].stop # "running" /\ proc'[p].stop = "running" => past[p].stopSent

LEMMA ContinueStep ==
  ASSUME IInv, [Next]_vars PROVE ContinuesOwn
  <1>. USE DEF ContinuesOwn
  <1>. DEFINE Owned(t, p) == /\ t \in DOMAIN targets /\ p \in DOMAIN targets[t].bind
                             /\ targets[t].bind[p].stop
                             /\ Revalidate(targets[t].bind[p], proc[p])
  <1>1. \A t, p : Owned(t, p) => past[p].stopSent BY DEF IInv, StopOwned, Revalidate
  <1>2. CASE KernelStep
    BY <1>2 DEF KernelStep, Spawn, Exit, OutsideRenice, OutsideSignal, Reboot
  <1>3. CASE MembershipStep BY <1>3 DEF MembershipStep, Manage, Rebind, Unmanage
  <1>4. CASE PolicyStep
    <2>1. ASSUME NEW t, NEW insts, NEW denied, ReconcileTarget(t, insts, denied)
          PROVE  last' = "reconcile"
      BY <2>1, Zenon DEF ReconcileTarget
    <2>. QED BY <1>4, <2>1 DEF PolicyStep, SetPolicies, PoliciesInstalled
  <1>5. CASE UNCHANGED vars BY <1>5 DEF vars
  <1>6. ASSUME NEW t \in Targets, NEW stop \in StopRequests, NEW dry \in BOOLEAN,
               NEW unsent \in SUBSET Pids, SetStop(t, stop, dry, unsent)
        PROVE  ContinuesOwn
    <2>. SUFFICES ASSUME last' \in {"continue", "restore", "forced"}, NEW p \in Pids,
                         proc[p].stop # "running", proc'[p].stop = "running"
                  PROVE  past[p].stopSent
      OBVIOUS
    <2>. DEFINE b == targets[t].bind
                sent == IF dry THEN {}
                        ELSE {q \in DOMAIN b : StopAllowed(q, b[q], proc[q], stop)} \ unsent
    <2>1. /\ t \in DOMAIN targets
          /\ proc'[p] = CASE p \notin sent -> proc[p]
                           [] p \in sent /\ stop -> Stopped(proc[p], "procfit")
                           [] p \in sent /\ ~stop -> Continued(proc[p])
      BY <1>6 DEF SetStop
    <2>2. stop \in BOOLEAN BY RequestsAssumption
    <2>3. last' = (CASE dry -> "dryrun" [] ~dry /\ stop -> "stop" [] ~dry /\ ~stop -> "continue")
      BY <1>6 DEF SetStop
    <2>4. ~stop BY <2>2, <2>3
    <2>5. p \in sent BY <2>1
    <2>6. Owned(t, p) BY <2>1, <2>4, <2>5 DEF StopAllowed
    <2>. QED BY <1>1, <2>6
  <1>7. ASSUME NEW t \in Targets, NEW force \in Forces, NEW dry \in BOOLEAN,
               NEW denied \in SUBSET Pids, NEW unsent \in SUBSET Pids,
               NEW unwritable \in SUBSET Cgroups,
               Restore(t, force, dry, denied, unsent, unwritable)
        PROVE  ContinuesOwn
    <2>. SUFFICES ASSUME NEW p \in Pids,
                         proc[p].stop # "running", proc'[p].stop = "running"
                  PROVE  past[p].stopSent
      OBVIOUS
    <2>. DEFINE b == targets[t].bind
                niced == {q \in DOMAIN b : NiceRestorable(b[q], proc[q], force)} \ denied
                conted == {q \in DOMAIN b : b[q].stop /\ Revalidate(b[q], proc[q])} \ unsent
    <2>1. proc[p] \in Process BY DEF IInv, TypeOK
    <2>2. ~dry BY <1>7 DEF Restore
    <2>3. /\ t \in DOMAIN targets
          /\ proc' = [q \in Pids |->
                        [proc[q] EXCEPT !.nice = IF q \in niced THEN b[q].orig ELSE @,
                                        !.stop = IF q \in conted THEN "running" ELSE @]]
      BY <1>7, <2>2 DEF Restore
    <2>4. p \in conted
      <3>. HIDE DEF niced, conted, b
      <3>. QED BY <2>1, <2>3 DEF Process
    <2>5. Owned(t, p) BY <2>3, <2>4
    <2>. QED BY <1>1, <2>5
  <1>8. CASE ControlStep
    <2>1. ASSUME NEW t, NEW n, NEW dry, NEW denied, SetNice(t, n, dry, denied)
          PROVE  last' \in {"dryrun", "set"}
      BY <2>1, Zenon DEF SetNice
    <2>2. ASSUME NEW insts, NEW s, NEW dry, NEW unsent, Signal(insts, s, dry, unsent)
          PROVE  last' \in {"dryrun", "signal"}
      BY <2>2, Zenon DEF Signal
    <2>3. ASSUME NEW t, NEW freeze, NEW force, NEW dry, NEW unwritable,
                 SetFreeze(t, freeze, force, dry, unwritable)
          PROVE  proc' = proc
      BY <2>3, Zenon DEF SetFreeze
    <2>4. ASSUME NEW t \in Targets, NEW dry \in BOOLEAN, NEW denied \in SUBSET Pids,
                 RestoreNice(t, dry, denied)
          PROVE  \A p \in Pids : proc'[p].stop = proc[p].stop
      BY <2>4 DEF RestoreNice, IInv, TypeOK, Process
    <2>5. ASSUME NEW t \in Targets, NEW dry \in BOOLEAN, NEW denied \in SUBSET Pids,
                 RestoreNice(t, dry, denied)
          PROVE  ContinuesOwn
      BY <2>4, <2>5
    <2>. QED BY <1>6, <1>7, <1>8, <2>1, <2>2, <2>3, <2>5 DEF ControlStep
  <1>. QED BY <1>2, <1>3, <1>4, <1>5, <1>8 DEF Next

\* Whatever was stopped, rebound, reloaded or reused before, continue and restore wake
\* only processes that procfit's own SIGSTOP had reached.
THEOREM ContinuesAreOwn == Spec => ContinueOnlyOwnStop
  <1>1. IInv /\ [Next]_vars => [ContinuesOwn]_vars BY ContinueStep
  <1>2. ContinueOnlyOwnStop <=> [][ContinuesOwn]_vars
    BY DEF ContinueOnlyOwnStop, ContinuesOwn
  <1>. QED BY <1>1, <1>2, InductiveInvariant, PTL DEF Spec

(***************************************************************************)
(* What Manager does to nice values.  Every operation that writes one is   *)
(* first shown to be a NiceCall: one target's bindings rewritten, each     *)
(* process it wrote bound there with its original.                         *)
(***************************************************************************)

\* A call for target t that wrote the nice value of the pids in `written' and was
\* refused for some of `refused'.
NiceCall(t, written, refused) ==
  /\ t \in DOMAIN targets /\ DOMAIN targets' = DOMAIN targets
  /\ \A u \in DOMAIN targets \ {t} : targets'[u] = targets[u]
  /\ past' = NiceHistory(t, written, refused)
  /\ \A p \in Pids : /\ proc'[p].inc = proc[p].inc /\ proc'[p].alive = proc[p].alive
                     /\ p \notin written => proc'[p].nice = proc[p].nice
  /\ \A p \in written : /\ p \in DOMAIN targets'[t].bind
                        /\ targets'[t].bind[p].orig # None
                        /\ Revalidate(targets'[t].bind[p], proc[p])
  /\ \A p \in DOMAIN targets'[t].bind :
       LET b == targets[t].bind[p]
           c == targets'[t].bind[p]
       IN  \/ c.orig = None
           \/ c.want = proc'[p].nice
           \/ p \in refused \ written
           \/ /\ p \in DOMAIN targets[t].bind \ (written \cup refused)
              /\ c.inc = b.inc /\ c.orig = b.orig /\ c.want = b.want

\* Some call for t, with the processes it wrote.
WritesNice(t) == \E written, refused : NiceCall(t, written, refused)

LEMMA SetNiceCall ==
  ASSUME IInv, NEW t \in Targets, NEW n \in NiceRequests, NEW dry \in BOOLEAN,
         NEW denied \in SUBSET Pids, SetNice(t, n, dry, denied)
  PROVE  WritesNice(t)
  <1>. USE DEF IInv
  <1>. DEFINE b == targets[t].bind
              hit == IF dry THEN {} ELSE {p \in DOMAIN b : NiceAllowed(p, b[p], proc[p])}
              new == [p \in DOMAIN b |-> IF p \in hit THEN Captured(b[p], proc[p], n) ELSE b[p]]
              written == hit \ denied
  <1>1. n \in Nices /\ t \in DOMAIN targets /\ Target(targets[t])
    BY RequestsAssumption DEF SetNice, TypeOK
  <1>2. /\ DOMAIN targets' = DOMAIN targets
        /\ \A u \in DOMAIN targets \ {t} : targets'[u] = targets[u]
        /\ targets'[t].bind = new
    BY <1>1 DEF SetNice, Target
  <1>3. past' = NiceHistory(t, written, hit) /\ proc' = Reniced(written, n)
    BY DEF SetNice
  <1>4. \A p \in Pids : /\ proc'[p].inc = proc[p].inc /\ proc'[p].alive = proc[p].alive
                        /\ proc'[p].nice = IF p \in written THEN n ELSE proc[p].nice
    <2>. HIDE DEF written
    <2>. QED BY <1>3 DEF Reniced, TypeOK, Process
  <1>5. \A p \in DOMAIN b : p \in Pids /\ b[p] \in Binding /\ proc[p] \in Process
    BY <1>1, TargetParts DEF TypeOK
  <1>6. ASSUME NEW p \in hit
        PROVE  /\ p \in DOMAIN b /\ p \in Pids /\ new[p].inc = b[p].inc /\ new[p].want = n
               /\ new[p].orig # None /\ Revalidate(b[p], proc[p])
    <2>1. p \in DOMAIN b /\ NiceAllowed(p, b[p], proc[p]) BY <1>6
    <2>2. new[p] = Captured(b[p], proc[p], n) BY <1>6, <2>1
    <2>3. Captured(b[p], proc[p], n).orig # None
      BY <1>5, <2>1, ConstantsAssumption DEF Captured, Binding, Process
    <2>. HIDE DEF new
    <2>. QED BY <1>1, <1>5, <2>1, <2>2, <2>3, CapturedType DEF NiceAllowed
  <1>7. DOMAIN new = DOMAIN b /\ \A p \in DOMAIN b \ hit : new[p] = b[p] OBVIOUS
  <1>8. NiceCall(t, written, hit)
    <2>1. written \subseteq hit BY DEF written
    <2>. HIDE DEF new, hit, written
    <2>2. ASSUME NEW p \in written
          PROVE  /\ p \in DOMAIN new /\ new[p].orig # None
                 /\ Revalidate(new[p], proc[p])
      BY <1>6, <1>7, <2>1, <2>2 DEF Revalidate
    <2>3. ASSUME NEW p \in DOMAIN new
          PROVE  \/ new[p].want = proc'[p].nice
                 \/ p \in hit \ written
                 \/ p \in DOMAIN b \ (written \cup hit) /\ new[p] = b[p]
      BY <1>4, <1>6, <1>7, <2>1
    <2>. QED BY <1>1, <1>2, <1>3, <1>4, <2>2, <2>3 DEF NiceCall
  <1>. QED BY <1>8 DEF WritesNice

LEMMA RestoreCall ==
  ASSUME IInv, NEW t \in Targets, NEW force \in BOOLEAN, NEW dry \in BOOLEAN,
         NEW denied \in SUBSET Pids, NEW unsent \in SUBSET Pids, NEW unwritable \in SUBSET Cgroups,
         Restore(t, force, dry, denied, unsent, unwritable), ~dry
  PROVE  WritesNice(t)
  <1>. USE DEF IInv
  <1>. DEFINE b == targets[t].bind
              niced == {p \in DOMAIN b : NiceRestorable(b[p], proc[p], force)} \ denied
              conted == {p \in DOMAIN b : b[p].stop /\ Revalidate(b[p], proc[p])} \ unsent
              niceBack(q) == IF q \in niced THEN [b[q] EXCEPT !.want = b[q].orig] ELSE b[q]
              new == [p \in DOMAIN b |-> IF p \in conted THEN [niceBack(p) EXCEPT !.stop = FALSE]
                                        ELSE niceBack(p)]
  <1>1. t \in DOMAIN targets /\ Target(targets[t])
    BY DEF Restore, TypeOK
  <1>2. /\ targets' = [targets EXCEPT ![t] =
                         [targets[t] EXCEPT !.nice = None, !.stop = None, !.freeze = None,
                                            !.bind = new]]
        /\ proc' = [p \in Pids |->
                      [proc[p] EXCEPT !.nice = IF p \in niced THEN b[p].orig ELSE @,
                                      !.stop = IF p \in conted THEN "running" ELSE @]]
        /\ past' = NiceHistory(t, niced, {})
    BY DEF Restore
  <1>3. /\ DOMAIN targets' = DOMAIN targets
        /\ \A u \in DOMAIN targets \ {t} : targets'[u] = targets[u]
        /\ targets'[t].bind = new
    <2>. HIDE DEF new
    <2>. QED BY <1>1, <1>2 DEF Target
  <1>4. \A p \in DOMAIN b : p \in Pids /\ b[p] \in Binding /\ proc[p] \in Process
    BY <1>1, TargetParts DEF TypeOK
  <1>5. \A p \in Pids : /\ proc'[p].inc = proc[p].inc /\ proc'[p].alive = proc[p].alive
                        /\ proc'[p].nice = IF p \in niced THEN b[p].orig ELSE proc[p].nice
    <2>. HIDE DEF niced, conted
    <2>. QED BY <1>2 DEF TypeOK, Process
  <1>6. ASSUME NEW p \in DOMAIN b
        PROVE  /\ new[p].inc = b[p].inc /\ new[p].orig = b[p].orig
               /\ new[p].want = IF p \in niced THEN b[p].orig ELSE b[p].want
    <2>1. /\ niceBack(p).inc = b[p].inc /\ niceBack(p).orig = b[p].orig
          /\ niceBack(p).want = (IF p \in niced THEN b[p].orig ELSE b[p].want)
          /\ niceBack(p) \in [inc : Incarnations, orig : {b[p].orig},
                              want : {niceBack(p).want}, stop : BOOLEAN]
      <3>. HIDE DEF niced
      <3>. QED BY <1>4 DEF Binding
    <2>2. new[p] = IF p \in conted THEN [niceBack(p) EXCEPT !.stop = FALSE] ELSE niceBack(p)
      OBVIOUS
    <2>. HIDE DEF niceBack, new, conted, niced
    <2>. QED BY <2>1, <2>2
  <1>7. ASSUME NEW p \in niced
        PROVE  p \in DOMAIN b /\ b[p].orig # None /\ Revalidate(b[p], proc[p])
    BY DEF NiceRestorable
  <1>8. DOMAIN new = DOMAIN b OBVIOUS
  <1>9. past' = NiceHistory(t, niced, {}) BY <1>2
  <1>10. NiceCall(t, niced, {})
    <2>. HIDE DEF new, niced
    <2>. QED BY <1>1, <1>3, <1>4, <1>5, <1>6, <1>7, <1>8, <1>9 DEF NiceCall, Revalidate
  <1>. QED BY <1>10 DEF WritesNice

LEMMA RestoreNiceCall ==
  ASSUME IInv, NEW t \in Targets, NEW dry \in BOOLEAN, NEW denied \in SUBSET Pids,
         RestoreNice(t, dry, denied)
  PROVE  WritesNice(t)
  <1>. USE DEF IInv
  <1>. DEFINE b == targets[t].bind
              niced == IF dry THEN {}
                       ELSE {p \in DOMAIN b : NiceRestorable(b[p], proc[p], FALSE)} \ denied
              new == [p \in DOMAIN b |-> IF p \in niced THEN [b[p] EXCEPT !.want = b[p].orig]
                                        ELSE b[p]]
  <1>1. t \in DOMAIN targets /\ Target(targets[t])
    BY DEF RestoreNice, TypeOK
  <1>2. /\ DOMAIN targets' = DOMAIN targets
        /\ \A u \in DOMAIN targets \ {t} : targets'[u] = targets[u]
        /\ targets'[t].bind = new
    BY <1>1 DEF RestoreNice, Target
  <1>3. /\ proc' = [p \in Pids |-> IF p \in niced THEN [proc[p] EXCEPT !.nice = b[p].orig]
                                   ELSE proc[p]]
        /\ past' = NiceHistory(t, niced, {})
    BY DEF RestoreNice
  <1>4. \A p \in DOMAIN b : p \in Pids /\ b[p] \in Binding /\ proc[p] \in Process
    BY <1>1, TargetParts DEF TypeOK
  <1>5. \A p \in Pids : /\ proc'[p].inc = proc[p].inc /\ proc'[p].alive = proc[p].alive
                        /\ proc'[p].nice = IF p \in niced THEN b[p].orig ELSE proc[p].nice
    <2>. HIDE DEF niced
    <2>. QED BY <1>3 DEF TypeOK, Process
  <1>6. \A p \in DOMAIN b : /\ new[p].inc = b[p].inc /\ new[p].orig = b[p].orig
                            /\ new[p].want = IF p \in niced THEN b[p].orig ELSE b[p].want
    <2>. HIDE DEF niced
    <2>. QED BY <1>4 DEF Binding
  <1>7. ASSUME NEW p \in niced
        PROVE  p \in DOMAIN b /\ b[p].orig # None /\ Revalidate(b[p], proc[p])
    BY DEF NiceRestorable
  <1>8. DOMAIN new = DOMAIN b OBVIOUS
  <1>9. NiceCall(t, niced, {})
    <2>. HIDE DEF new, niced
    <2>. QED BY <1>1, <1>2, <1>3, <1>4, <1>5, <1>6, <1>7, <1>8 DEF NiceCall, Revalidate
  <1>. QED BY <1>9 DEF WritesNice

LEMMA ReconcileTargetCall ==
  ASSUME IInv, NEW t \in Targets, NEW insts \in Instances(proc), NEW denied \in SUBSET Pids,
         ReconcileTarget(t, insts, denied)
  PROVE  WritesNice(t)
  <1>. USE DEF IInv
  <1>. DEFINE tg == Bound(targets[t], insts)
              n == tg.nice
              b == tg.bind
              fresh == {p \in DOMAIN b : /\ n # None /\ b[p].orig = None
                                         /\ NiceAllowed(p, b[p], proc[p])}
              off == {p \in DOMAIN b : n # None /\ b[p].orig # None /\ OffTarget(b[p], proc[p], n)}
              again == IF tg.drift = "reapply" THEN off \ denied ELSE {}
              next(q) == CASE q \in fresh -> Captured(b[q], proc[q], n)
                           [] q \in again -> [b[q] EXCEPT !.want = n]
                           [] q \in off /\ tg.drift = "adopt" -> [b[q] EXCEPT !.want = proc[q].nice]
                           [] OTHER -> b[q]
              new == [p \in DOMAIN b |-> next(p)]
              written == (fresh \ denied) \cup again
              old == targets[t].bind
  <1>1. /\ t \in DOMAIN targets /\ Target(targets[t]) /\ Bindings(old) /\ Target(tg)
        /\ b = BindInstances(old, insts)
    BY BoundType DEF ReconcileTarget, TypeOK, Target
  <1>2. /\ targets' = [targets EXCEPT ![t] = [tg EXCEPT !.bind = new]]
        /\ proc' = Reniced(written, n) /\ past' = NiceHistory(t, written, fresh)
    BY DEF ReconcileTarget
  <1>3. n \in Nices \cup {None} /\ DOMAIN b = DOMAIN insts
        /\ \A p \in DOMAIN b : b[p] \in Binding /\ p \in Pids /\ proc[p] \in Process
    BY <1>1, BindInstancesType, TargetParts DEF Bindings, TypeOK
  \* A binding that has an original was there before.
  <1>4. ASSUME NEW p \in DOMAIN b, b[p].orig # None
        PROVE  p \in DOMAIN old /\ b[p] = old[p]
    BY <1>1, <1>3, <1>4 DEF BindInstances, NewBinding
  <1>. HIDE DEF tg
  <1>5. /\ DOMAIN targets' = DOMAIN targets
        /\ \A u \in DOMAIN targets \ {t} : targets'[u] = targets[u]
        /\ targets'[t].bind = new
    <2>. HIDE DEF new
    <2>. QED BY <1>1, <1>2 DEF Target
  <1>6. \A p \in Pids : /\ proc'[p].inc = proc[p].inc /\ proc'[p].alive = proc[p].alive
                        /\ proc'[p].nice = IF p \in written THEN n ELSE proc[p].nice
    <2>. HIDE DEF written, n
    <2>. QED BY <1>2 DEF Reniced, TypeOK, Process
  <1>7. ASSUME NEW p \in DOMAIN b
        PROVE  /\ new[p].inc = b[p].inc
               /\ p \in fresh \cup again => /\ n \in Nices /\ new[p].orig # None
                                            /\ new[p].want = n
                                            /\ Revalidate(b[p], proc[p])
               /\ p \notin fresh \cup again =>
                    /\ new[p].orig = b[p].orig
                    /\ new[p].want = b[p].want \/ new[p].want = proc[p].nice
    <2>1. new[p] = next(p) /\ b[p] \in Binding /\ proc[p] \in Process BY <1>3
    <2>2. CASE p \in fresh
      <3>1. n \in Nices /\ Revalidate(b[p], proc[p])
        BY <1>3, <2>2 DEF NiceAllowed
      <3>2. next(p) = Captured(b[p], proc[p], n) BY <2>2
      <3>3. Captured(b[p], proc[p], n).orig # None
        BY <2>1, ConstantsAssumption DEF Captured, Binding, Process
      <3>. HIDE DEF new, next, fresh, again
      <3>. QED BY <2>1, <2>2, <3>1, <3>2, <3>3, CapturedType
    <2>3. CASE p \notin fresh /\ p \in again
      <3>1. n \in Nices /\ b[p].orig # None /\ Revalidate(b[p], proc[p])
        BY <1>3, <2>3 DEF OffTarget
      <3>2. next(p) = [b[p] EXCEPT !.want = n] BY <2>3
      <3>. HIDE DEF new, next, fresh, again
      <3>. QED BY <1>4, <2>1, <2>3, <3>1, <3>2 DEF Binding
    <2>4. CASE p \notin fresh /\ p \notin again
      <3>1. next(p) = b[p] \/ next(p) = [b[p] EXCEPT !.want = proc[p].nice] BY <2>4
      <3>. HIDE DEF new, next, fresh, again
      <3>. QED BY <2>1, <2>4, <3>1 DEF Binding
    <2>. QED BY <2>2, <2>3, <2>4
  <1>8. DOMAIN new = DOMAIN b /\ written \subseteq DOMAIN b /\ written \subseteq fresh \cup again
        /\ fresh \cup again \subseteq written \cup fresh
    OBVIOUS
  <1>9. past' = NiceHistory(t, written, fresh) BY <1>2
  <1>10. NiceCall(t, written, fresh)
    <2>. HIDE DEF new, written, fresh, again, n
    <2>1. ASSUME NEW p \in written
          PROVE  /\ p \in DOMAIN targets'[t].bind
                 /\ targets'[t].bind[p].orig # None
                 /\ Revalidate(targets'[t].bind[p], proc[p])
      BY <1>5, <1>7, <1>8, <2>1 DEF Revalidate
    <2>2. ASSUME NEW p \in DOMAIN targets'[t].bind
          PROVE  LET c == targets'[t].bind[p]
                 IN  \/ c.orig = None
                     \/ c.want = proc'[p].nice
                     \/ p \in fresh \ written
                     \/ /\ p \in DOMAIN old \ (written \cup fresh)
                        /\ c.inc = old[p].inc /\ c.orig = old[p].orig /\ c.want = old[p].want
      <3>1. p \in DOMAIN b /\ targets'[t].bind[p] = new[p] /\ p \in Pids BY <1>3, <1>5, <1>8, <2>2
      <3>2. CASE p \in written BY <1>6, <1>7, <1>8, <3>1, <3>2
      <3>3. CASE p \notin written /\ p \in fresh BY <3>3
      <3>4. CASE p \notin written /\ p \notin fresh
        <4>1. /\ new[p].inc = b[p].inc /\ new[p].orig = b[p].orig
              /\ new[p].want = b[p].want \/ new[p].want = proc'[p].nice
          BY <1>6, <1>7, <1>8, <3>1, <3>4
        <4>. QED BY <1>4, <3>1, <3>4, <4>1
      <3>. QED BY <3>2, <3>3, <3>4
    <2>. QED BY <1>1, <1>5, <1>6, <1>9, <2>1, <2>2 DEF NiceCall
  <1>. QED BY <1>10 DEF WritesNice

(***************************************************************************)
(* DriftExplained is inductive together with IInv: a nice call leaves each *)
(* binding it touched either on target or accounted for, and every other   *)
(* step keeps what a binding wanted and what the kernel holds.             *)
(***************************************************************************)
LEMMA NiceCallExplains ==
  ASSUME TypeOK, TypeOK', DriftExplained, NEW t \in Targets, WritesNice(t)
  PROVE  DriftExplained'
  <1>1. PICK written, refused : NiceCall(t, written, refused) BY DEF WritesNice
  <1>2. SUFFICES ASSUME NEW u \in DOMAIN targets', NEW p \in DOMAIN targets'[u].bind,
                        Captures(u, p)', BoundNow(u, p)', targets'[u].bind[p].want # proc'[p].nice
                 PROVE  past'[p].outside \/ past'[p].refused \/ past'[p].shared
    BY DEF DriftExplained
  <1>3. u \in DOMAIN targets /\ (u = t \/ targets'[u] = targets[u])
    BY <1>1 DEF NiceCall
  <1>4. p \in Pids BY TargetParts DEF TypeOK
  <1>5. /\ past[p] \in History
        /\ past'[p] = CASE p \in written ->
                             [past[p] EXCEPT !.outside = FALSE, !.refused = FALSE,
                                             !.shared = @ \/ HeldElsewhere(t, p)]
                        [] p \notin written /\ p \in refused -> [past[p] EXCEPT !.refused = TRUE]
                        [] OTHER -> past[p]
    BY <1>1, <1>4 DEF NiceCall, NiceHistory, TypeOK
  <1>6. /\ proc'[p].inc = proc[p].inc /\ proc'[p].alive = proc[p].alive
        /\ p \notin written => proc'[p].nice = proc[p].nice
    BY <1>1, <1>4 DEF NiceCall
  <1>7. CASE u # t
    <2>1. CASE p \in written
      <3>1. HeldElsewhere(t, p)
        BY <1>2, <1>3, <1>6, <1>7 DEF HeldElsewhere, Captures, BoundNow, Revalidate
      <3>. QED BY <1>5, <2>1, <3>1 DEF History
    <2>2. CASE p \notin written
      <3>1. past[p].outside \/ past[p].refused \/ past[p].shared
        BY <1>2, <1>3, <1>6, <1>7, <2>2 DEF DriftExplained, Captures, BoundNow, Revalidate
      <3>. QED BY <1>5, <2>2, <3>1 DEF History
    <2>. QED BY <2>1, <2>2
  <1>8. CASE u = t
    <2>1. CASE p \in refused \ written
      BY <1>5, <2>1 DEF History
    <2>2. CASE p \notin refused \ written
      <3>1. /\ p \in DOMAIN targets[t].bind \ (written \cup refused)
            /\ targets'[t].bind[p].inc = targets[t].bind[p].inc
            /\ targets'[t].bind[p].orig = targets[t].bind[p].orig
            /\ targets'[t].bind[p].want = targets[t].bind[p].want
        BY <1>1, <1>2, <1>8, <2>2 DEF NiceCall, Captures
      <3>2. past[p].outside \/ past[p].refused \/ past[p].shared
        BY <1>2, <1>3, <1>6, <1>8, <3>1 DEF DriftExplained, Captures, BoundNow, Revalidate
      <3>. QED BY <1>5, <3>1, <3>2
    <2>. QED BY <2>1, <2>2
  <1>. QED BY <1>7, <1>8

\* The binding is the one that was there, as far as the nice value goes.
SameNice(t, p) ==
  /\ t \in DOMAIN targets /\ p \in DOMAIN targets[t].bind
  /\ LET b == targets[t].bind[p]
         c == targets'[t].bind[p]
     IN  c.inc = b.inc /\ c.orig = b.orig /\ c.want = b.want

\* The process is the one that was there, with its nice value and its history of it.
SameProcessNice(p) ==
  /\ proc[p].alive /\ proc'[p].inc = proc[p].inc /\ proc'[p].nice = proc[p].nice
  /\ past'[p].outside = past[p].outside /\ past'[p].refused = past[p].refused
  /\ past'[p].shared = past[p].shared

\* What a step that is no nice call may do to a binding.
Undisturbed(t, p) ==
  \/ targets'[t].bind[p].orig = None
  \/ ~Revalidate(targets'[t].bind[p], proc'[p])
  \/ past'[p].outside
  \/ SameNice(t, p) /\ SameProcessNice(p)

AllUndisturbed ==
  \A t \in DOMAIN targets' : \A p \in DOMAIN targets'[t].bind : Undisturbed(t, p)

LEMMA UndisturbedExplains ==
  ASSUME DriftExplained, AllUndisturbed PROVE DriftExplained'
  <1>1. SUFFICES ASSUME NEW t \in DOMAIN targets', NEW p \in DOMAIN targets'[t].bind,
                        Captures(t, p)', BoundNow(t, p)', targets'[t].bind[p].want # proc'[p].nice,
                        ~past'[p].outside
                 PROVE  past'[p].refused \/ past'[p].shared
    BY DEF DriftExplained
  <1>2. SameNice(t, p) /\ SameProcessNice(p)
    BY <1>1 DEF AllUndisturbed, Undisturbed, Captures, BoundNow
  <1>. QED
    BY <1>1, <1>2 DEF DriftExplained, Captures, BoundNow, Revalidate, SameNice, SameProcessNice

LEMMA KernelUndisturbed ==
  ASSUME IInv, KernelStep PROVE AllUndisturbed
  <1>. USE DEF IInv
  <1>0. \A t \in DOMAIN targets : \A p \in DOMAIN targets[t].bind :
          p \in Pids /\ targets[t].bind[p] \in Binding /\ proc[p] \in Process
    BY TargetParts DEF TypeOK
  <1>1. ASSUME NEW q \in Pids, NEW n \in OutsideNices, NEW c \in Cgroups, Spawn(q, n, c)
        PROVE  AllUndisturbed
    <2>1. SUFFICES ASSUME NEW t \in DOMAIN targets, NEW p \in DOMAIN targets[t].bind
                   PROVE  Undisturbed(t, p)
      BY <1>1 DEF AllUndisturbed, Spawn
    <2>2. /\ targets' = targets
          /\ p # q => proc'[p] = proc[p] /\ past'[p] = past[p]
          /\ p = q => proc'[p].inc = proc[p].inc + 1
      BY <1>0, <1>1 DEF Spawn, TypeOK
    <2>3. CASE p = q
      <3>1. targets[t].bind[p].inc <= proc[p].inc /\ proc[p].inc \in Int
            /\ targets[t].bind[p].inc \in Int
        BY <1>0, ConstantsAssumption DEF KnownIncarnations, Binding, Process, Incarnations
      <3>. QED BY <2>2, <2>3, <3>1 DEF Undisturbed, Revalidate
    <2>. QED BY <2>2, <2>3 DEF Undisturbed, SameNice, SameProcessNice, Revalidate
  <1>2. ASSUME NEW q \in Pids, Exit(q) PROVE AllUndisturbed
    BY <1>0, <1>2
       DEF Exit, AllUndisturbed, Undisturbed, SameNice, SameProcessNice, Revalidate, TypeOK, Process
  <1>3. ASSUME NEW q \in Pids, NEW n \in OutsideNices, OutsideRenice(q, n) PROVE AllUndisturbed
    <2>1. SUFFICES ASSUME NEW t \in DOMAIN targets, NEW p \in DOMAIN targets[t].bind
                   PROVE  Undisturbed(t, p)
      BY <1>3 DEF AllUndisturbed, OutsideRenice
    <2>2. /\ targets' = targets
          /\ p # q => proc'[p] = proc[p] /\ past'[p] = past[p]
          /\ p = q => past'[p].outside
      BY <1>0, <1>3 DEF OutsideRenice, TypeOK, History
    <2>. QED BY <2>2 DEF Undisturbed, SameNice, SameProcessNice, Revalidate
  <1>4. ASSUME NEW q \in Pids, NEW s \in OutsideStops, OutsideSignal(q, s) PROVE AllUndisturbed
    BY <1>0, <1>4
       DEF OutsideSignal, Stopped, Continued, AllUndisturbed, Undisturbed, SameNice, SameProcessNice,
           Revalidate, TypeOK, Process
  <1>5. ASSUME Reboot PROVE AllUndisturbed
    <2>1. \A t \in DOMAIN targets' : targets'[t].bind = << >>
      BY <1>5 DEF Reboot, TypeOK, Target
    <2>. QED BY <2>1 DEF AllUndisturbed
  <1>. QED BY <1>1, <1>2, <1>3, <1>4, <1>5 DEF KernelStep

\* Re-binding keeps the record of a process that stays and starts the others afresh.
LEMMA BindUndisturbed ==
  ASSUME TypeOK, NEW t \in Targets, NEW insts \in Instances(proc), UNCHANGED <<proc, past>>,
         t \in DOMAIN targets',
         \/ /\ t \in DOMAIN targets
            /\ targets'[t].bind = BindInstances(targets[t].bind, insts)
         \/ targets'[t].bind = BindInstances(<< >>, insts)
  PROVE  \A p \in DOMAIN targets'[t].bind : Undisturbed(t, p)
  <1>. SUFFICES ASSUME NEW p \in DOMAIN targets'[t].bind PROVE Undisturbed(t, p) OBVIOUS
  <1>1. CASE /\ t \in DOMAIN targets
             /\ targets'[t].bind = BindInstances(targets[t].bind, insts)
    <2>1. p \in DOMAIN insts BY <1>1 DEF BindInstances
    <2>2. CASE p \in DOMAIN targets[t].bind /\ targets[t].bind[p].inc = insts[p]
      <3>1. targets'[t].bind[p] = targets[t].bind[p] BY <1>1, <2>1, <2>2 DEF BindInstances
      <3>. QED BY <1>1, <2>2, <3>1 DEF Undisturbed, SameNice, SameProcessNice, Revalidate
    <2>3. CASE ~(p \in DOMAIN targets[t].bind /\ targets[t].bind[p].inc = insts[p])
      <3>1. targets'[t].bind[p] = NewBinding(insts[p])
        BY <1>1, <2>1, <2>3 DEF BindInstances
      <3>. QED BY <3>1 DEF Undisturbed, NewBinding
    <2>. QED BY <2>2, <2>3
  <1>2. CASE targets'[t].bind = BindInstances(<< >>, insts)
    <2>1. targets'[t].bind[p] = NewBinding(insts[p])
      BY <1>2 DEF BindInstances
    <2>. QED BY <2>1 DEF Undisturbed, NewBinding
  <1>. QED BY <1>1, <1>2

LEMMA SameUndisturbed ==
  ASSUME NEW t \in DOMAIN targets, targets'[t].bind = targets[t].bind,
         UNCHANGED <<proc, past>>
  PROVE  \A p \in DOMAIN targets'[t].bind : Undisturbed(t, p)
  BY DEF Undisturbed, SameNice, SameProcessNice, Revalidate

LEMMA MembershipUndisturbed ==
  ASSUME TypeOK, MembershipStep PROVE AllUndisturbed
  <1>1. ASSUME NEW t \in Targets, NEW mode \in ManageModes, NEW insts \in Instances(proc),
               Manage(t, mode, insts)
        PROVE  AllUndisturbed
    <2>1. /\ DOMAIN targets' = DOMAIN targets \cup {t}
          /\ \A u \in DOMAIN targets' : u # t => u \in DOMAIN targets /\ targets'[u] = targets[u]
          /\ UNCHANGED <<proc, past>>
      BY <1>1 DEF Manage
    <2>2. \/ /\ t \in DOMAIN targets
             /\ targets'[t].bind = BindInstances(targets[t].bind, insts)
          \/ targets'[t].bind = BindInstances(<< >>, insts)
      <3>. DEFINE tg == IF t \in DOMAIN targets THEN [targets[t] EXCEPT !.mode = mode]
                        ELSE NewTarget(mode)
      <3>1. targets'[t] = Bound(tg, insts) BY <1>1 DEF Manage
      <3>2. CASE t \in DOMAIN targets
        <4>1. Target(targets[t]) /\ mode \in Modes BY <3>2, RequestsAssumption DEF TypeOK
        <4>2. Target(tg) /\ tg.bind = targets[t].bind
          BY <3>2, <4>1, ModeType DEF Target
        <4>. HIDE DEF tg
        <4>. QED BY <3>1, <3>2, <4>2, BoundType
      <3>3. CASE t \notin DOMAIN targets
        <4>1. Target(tg) /\ tg.bind = << >>
          BY <3>3, RequestsAssumption, NewTargetType DEF NewTarget
        <4>. HIDE DEF tg
        <4>. QED BY <3>1, <4>1, BoundType
      <3>. QED BY <3>2, <3>3
    <2>3. \A p \in DOMAIN targets'[t].bind : Undisturbed(t, p)
      BY <2>1, <2>2, BindUndisturbed
    <2>. QED BY <2>1, <2>3, SameUndisturbed DEF AllUndisturbed
  <1>2. ASSUME NEW t \in Targets, NEW insts \in Instances(proc), Rebind(t, insts)
        PROVE  AllUndisturbed
    <2>1. /\ DOMAIN targets' = DOMAIN targets /\ t \in DOMAIN targets
          /\ \A u \in DOMAIN targets : u # t => targets'[u] = targets[u]
          /\ targets'[t] = Bound(targets[t], insts) /\ Target(targets[t])
          /\ UNCHANGED <<proc, past>>
      BY <1>2 DEF Rebind, TypeOK
    <2>2. targets'[t].bind = BindInstances(targets[t].bind, insts)
      BY <2>1, BoundType
    <2>3. \A p \in DOMAIN targets'[t].bind : Undisturbed(t, p)
      BY <2>1, <2>2, BindUndisturbed
    <2>. QED BY <2>1, <2>3, SameUndisturbed DEF AllUndisturbed
  <1>3. ASSUME NEW t \in Targets, Unmanage(t) PROVE AllUndisturbed
    <2>1. /\ DOMAIN targets' \subseteq DOMAIN targets
          /\ \A u \in DOMAIN targets' : targets'[u] = targets[u]
          /\ UNCHANGED <<proc, past>>
      BY <1>3 DEF Unmanage, Restrict
    <2>. QED BY <2>1, SameUndisturbed DEF AllUndisturbed
  <1>. QED BY <1>1, <1>2, <1>3 DEF MembershipStep

LEMMA SetStopUndisturbed ==
  ASSUME TypeOK, NEW t \in Targets, NEW stop \in StopRequests, NEW dry \in BOOLEAN,
         NEW unsent \in SUBSET Pids, SetStop(t, stop, dry, unsent)
  PROVE  /\ AllUndisturbed
         /\ \A p \in Pids : proc'[p].nice = proc[p].nice
         /\ dry => /\ proc' = proc
                   /\ \A u \in DOMAIN targets : targets'[u].bind = targets[u].bind
  <1>. DEFINE b == targets[t].bind
              sent == IF dry THEN {}
                      ELSE {p \in DOMAIN b : StopAllowed(p, b[p], proc[p], stop)} \ unsent
              new == [p \in DOMAIN b |-> IF p \in sent THEN [b[p] EXCEPT !.stop = stop] ELSE b[p]]
  <1>1. stop \in BOOLEAN /\ t \in DOMAIN targets /\ Target(targets[t])
    BY RequestsAssumption DEF SetStop, TypeOK
  <1>2. /\ DOMAIN targets' = DOMAIN targets
        /\ \A u \in DOMAIN targets \ {t} : targets'[u] = targets[u]
        /\ targets'[t].bind = new
    BY <1>1 DEF SetStop, Target
  <1>3. \A p \in DOMAIN b : p \in Pids /\ b[p] \in Binding
    BY <1>1, TargetParts
  <1>4. \A p \in DOMAIN b : /\ new[p].inc = b[p].inc /\ new[p].orig = b[p].orig
                            /\ new[p].want = b[p].want
    <2>. HIDE DEF sent
    <2>. QED BY <1>3 DEF Binding
  <1>5. \A p \in Pids : /\ proc'[p].inc = proc[p].inc /\ proc'[p].alive = proc[p].alive
                        /\ proc'[p].nice = proc[p].nice
    <2>1. proc' = [p \in Pids |-> CASE p \notin sent -> proc[p]
                                    [] p \in sent /\ stop -> Stopped(proc[p], "procfit")
                                    [] p \in sent /\ ~stop -> Continued(proc[p])]
      BY DEF SetStop
    <2>. HIDE DEF sent
    <2>. QED BY <1>1, <2>1 DEF Stopped, Continued, TypeOK, Process
  <1>6. \A p \in Pids : /\ past'[p].outside = past[p].outside
                        /\ past'[p].refused = past[p].refused /\ past'[p].shared = past[p].shared
    <2>1. past' = [p \in Pids |-> IF stop /\ p \in sent
                                  THEN [past[p] EXCEPT !.stopSent = TRUE] ELSE past[p]]
      BY DEF SetStop
    <2>. HIDE DEF sent
    <2>. QED BY <2>1 DEF TypeOK, History
  <1>7. DOMAIN new = DOMAIN b OBVIOUS
  <1>8. AllUndisturbed
    <2>. HIDE DEF new
    <2>1. \A p \in DOMAIN targets'[t].bind : Undisturbed(t, p)
      BY <1>1, <1>2, <1>3, <1>4, <1>5, <1>6, <1>7
         DEF Undisturbed, SameNice, SameProcessNice, Revalidate
    <2>2. \A u \in DOMAIN targets \ {t} : \A p \in DOMAIN targets'[u].bind :
            p \in Pids /\ Undisturbed(u, p)
      BY <1>2, <1>5, <1>6, TargetParts
         DEF Undisturbed, SameNice, SameProcessNice, Revalidate, TypeOK
    <2>. QED BY <1>2, <2>1, <2>2 DEF AllUndisturbed
  <1>9. ASSUME dry
        PROVE  /\ proc' = proc
               /\ \A u \in DOMAIN targets : targets'[u].bind = targets[u].bind
    <2>1. proc' = [p \in Pids |-> proc[p]] BY <1>9 DEF SetStop
    <2>2. targets'[t].bind = [p \in DOMAIN b |-> b[p]] BY <1>2, <1>9
    <2>3. b = [p \in DOMAIN b |-> b[p]] BY <1>1, TargetParts
    <2>. QED BY <1>2, <2>1, <2>2, <2>3 DEF TypeOK
  <1>. QED BY <1>5, <1>8, <1>9

LEMMA SignalUndisturbed ==
  ASSUME TypeOK, NEW insts, NEW s \in SignalRequests, NEW dry \in BOOLEAN,
         NEW unsent \in SUBSET Pids, Signal(insts, s, dry, unsent)
  PROVE  /\ AllUndisturbed
         /\ \A p \in Pids : proc'[p].nice = proc[p].nice
         /\ dry => proc' = proc /\ targets' = targets
  <1>1. s \in {"STOP", "CONT", "KILL"} BY RequestsAssumption
  <1>2. \A p \in Pids : /\ proc'[p].inc = proc[p].inc /\ proc'[p].nice = proc[p].nice
                        /\ proc'[p].alive => proc[p].alive
    BY <1>1 DEF Signal, Stopped, Continued, TypeOK, Process
  <1>3. \A t \in DOMAIN targets : \A p \in DOMAIN targets[t].bind : p \in Pids
    BY TargetParts DEF TypeOK
  <1>4. AllUndisturbed
    <2>1. targets' = targets /\ past' = past BY DEF Signal
    <2>. QED
      BY <1>2, <1>3, <2>1 DEF AllUndisturbed, Undisturbed, SameNice, SameProcessNice, Revalidate
  <1>5. dry => proc' = [p \in Pids |-> proc[p]] BY DEF Signal
  <1>. QED BY <1>2, <1>4, <1>5 DEF Signal, TypeOK

LEMMA SetFreezeUndisturbed ==
  ASSUME TypeOK, NEW t \in Targets, NEW freeze \in FreezeRequests, NEW force \in Forces,
         NEW dry \in BOOLEAN, NEW unwritable \in SUBSET Cgroups,
         SetFreeze(t, freeze, force, dry, unwritable)
  PROVE  /\ AllUndisturbed /\ proc' = proc
         /\ dry => frozen' = frozen /\ targets' = targets
  <1>1. /\ DOMAIN targets' = DOMAIN targets
        /\ \A u \in DOMAIN targets : targets'[u].bind = targets[u].bind
    BY DEF SetFreeze, TypeOK, Target
  <1>2. AllUndisturbed BY <1>1, SameUndisturbed DEF AllUndisturbed, SetFreeze
  <1>. QED BY <1>2 DEF SetFreeze

LEMMA SetPoliciesUndisturbed ==
  ASSUME TypeOK, NEW specs \in PolicySets, SetPolicies(specs)
  PROVE  AllUndisturbed
  <1>. DEFINE rule(t) == [NewTarget("follow") EXCEPT
                            !.nice = specs[NameOf(t)].nice, !.stop = specs[NameOf(t)].stop,
                            !.drift = specs[NameOf(t)].drift,
                            !.bind = IF t \in DOMAIN targets THEN targets[t].bind ELSE << >>]
  <1>0. \A t : rule(t).bind = (IF t \in DOMAIN targets THEN targets[t].bind ELSE << >>)
    BY DEF NewTarget
  <1>1. \A t \in DOMAIN targets' :
          \/ t \in DOMAIN targets /\ targets'[t].bind = targets[t].bind
          \/ DOMAIN targets'[t].bind = {}
    <2>1. \A t \in DOMAIN targets' :
            \/ t \in DOMAIN targets /\ targets'[t] = targets[t]
            \/ targets'[t] = rule(t)
      BY DEF SetPolicies, PoliciesInstalled, Origin
    <2>2. DOMAIN << >> = {} OBVIOUS
    <2>. HIDE DEF rule
    <2>. QED BY <1>0, <2>1, <2>2
  <1>2. UNCHANGED <<proc, past>> BY DEF SetPolicies
  <1>3. ASSUME NEW t \in DOMAIN targets' PROVE \A p \in DOMAIN targets'[t].bind : Undisturbed(t, p)
    BY <1>1, <1>2, <1>3, SameUndisturbed
  <1>. QED BY <1>3 DEF AllUndisturbed

LEMMA DriftStep ==
  ASSUME IInv, DriftExplained, [Next]_vars PROVE DriftExplained'
  <1>. USE DEF IInv
  <1>0. TypeOK' BY TypeStep
  <1>1. CASE KernelStep BY <1>1, KernelUndisturbed, UndisturbedExplains
  <1>2. CASE MembershipStep BY <1>2, MembershipUndisturbed, UndisturbedExplains
  <1>3. CASE ControlStep
    <2>1. ASSUME NEW t \in Targets, NEW force \in Forces, NEW dry \in BOOLEAN,
                 NEW denied \in SUBSET Pids, NEW unsent \in SUBSET Pids,
                 NEW unwritable \in SUBSET Cgroups,
                 Restore(t, force, dry, denied, unsent, unwritable)
          PROVE  DriftExplained'
      <3>1. CASE dry
        <4>1. UNCHANGED <<proc, targets, past>> BY <2>1, <3>1 DEF Restore
        <4>. QED BY <4>1 DEF DriftExplained, Captures, BoundNow
      <3>2. CASE ~dry
        BY <1>0, <2>1, <3>2, RestoreCall, NiceCallExplains, RequestsAssumption
      <3>. QED BY <3>1, <3>2
    <2>2. ASSUME NEW t \in Targets, NEW dry \in BOOLEAN, NEW denied \in SUBSET Pids,
                 \/ \E n \in NiceRequests : SetNice(t, n, dry, denied)
                 \/ RestoreNice(t, dry, denied)
          PROVE  DriftExplained'
      BY <1>0, <2>2, SetNiceCall, RestoreNiceCall, NiceCallExplains
    <2>. QED
      BY <1>3, <2>1, <2>2, SetStopUndisturbed, SignalUndisturbed, SetFreezeUndisturbed,
         UndisturbedExplains DEF ControlStep
  <1>4. CASE PolicyStep
    BY <1>0, <1>4, SetPoliciesUndisturbed, UndisturbedExplains, ReconcileTargetCall, NiceCallExplains
       DEF PolicyStep
  <1>5. CASE UNCHANGED vars BY <1>5 DEF vars, DriftExplained, Captures, BoundNow
  <1>. QED BY <1>1, <1>2, <1>3, <1>4, <1>5 DEF Next

\* When a live process' nice value is not what procfit recorded it wanted, so that
\* an unforced restore will leave it alone, somebody else changed it, the kernel
\* refused procfit's write, or two targets held the process: no sequence of calls
\* makes procfit misread its own work as drift.
THEOREM DriftIsExplained == Spec => []DriftExplained
  <1>1. Init => DriftExplained
    <2>1. ASSUME Init, NEW t \in DOMAIN targets, NEW p \in DOMAIN targets[t].bind, Captures(t, p)
          PROVE  targets[t].bind[p].want = proc[p].nice
      <3>1. p \in Pids BY <2>1, InitType, TargetParts DEF TypeOK
      <3>. QED BY <2>1, <3>1 DEF Init
    <2>. QED BY <2>1 DEF DriftExplained
  <1>2. IInv /\ DriftExplained /\ [Next]_vars => DriftExplained' BY DriftStep
  <1>. QED BY InductiveInvariant, <1>1, <1>2, PTL DEF Spec

(***************************************************************************)
(* What the steps write, dry runs included.                                *)
(***************************************************************************)
ReniceIsBound ==
  last' \notin {"kernel", "reboot"} =>
    \A p \in Pids : proc'[p].nice # proc[p].nice =>
      /\ proc[p].alive
      /\ \E t \in DOMAIN targets' : /\ Captures(t, p)' /\ BoundNow(t, p)'
                                    /\ CheckPID(p) \/ t \in past[p].inherited

LEMMA NiceCallIsBound ==
  ASSUME TypeOK, ProtectedOnlyInherited', NEW t \in Targets, WritesNice(t)
  PROVE  ReniceIsBound
  <1>1. PICK written, refused : NiceCall(t, written, refused) BY DEF WritesNice
  <1>2. SUFFICES ASSUME NEW p \in Pids, proc'[p].nice # proc[p].nice
                 PROVE  /\ proc[p].alive
                        /\ \E u \in DOMAIN targets' : /\ Captures(u, p)' /\ BoundNow(u, p)'
                                                      /\ CheckPID(p) \/ u \in past[p].inherited
    BY DEF ReniceIsBound
  <1>3. p \in written /\ t \in DOMAIN targets' /\ proc'[p].inc = proc[p].inc
        /\ proc'[p].alive = proc[p].alive
    BY <1>1, <1>2 DEF NiceCall
  <1>4. proc[p].alive /\ Captures(t, p)' /\ BoundNow(t, p)'
    BY <1>1, <1>3 DEF NiceCall, Captures, BoundNow, Revalidate
  <1>5. past'[p].inherited = past[p].inherited
    <2>1. past[p] \in History BY DEF TypeOK
    <2>2. past' = NiceHistory(t, written, refused) BY <1>1 DEF NiceCall
    <2>. QED BY <2>1, <2>2 DEF NiceHistory, History
  <1>6. CheckPID(p) \/ t \in past'[p].inherited
    BY <1>3, <1>4 DEF ProtectedOnlyInherited, Captures, BoundNow, Revalidate
  <1>. QED BY <1>3, <1>4, <1>5, <1>6

LEMMA ReniceStep ==
  ASSUME IInv, [Next]_vars PROVE ReniceIsBound \/ UNCHANGED vars
  <1>. USE DEF IInv
  <1>0. (\A p \in Pids : proc'[p].nice = proc[p].nice) => ReniceIsBound
    BY DEF ReniceIsBound
  <1>6. ProtectedOnlyInherited' BY IInvStep
  <1>1. CASE KernelStep
    BY <1>1 DEF KernelStep, Spawn, Exit, OutsideRenice, OutsideSignal, Reboot, ReniceIsBound
  <1>2. CASE MembershipStep
    BY <1>0, <1>2 DEF MembershipStep, Manage, Rebind, Unmanage
  <1>3. CASE ControlStep
    <2>1. ASSUME NEW t \in Targets, NEW force \in Forces, NEW dry \in BOOLEAN,
                 NEW denied \in SUBSET Pids, NEW unsent \in SUBSET Pids,
                 NEW unwritable \in SUBSET Cgroups,
                 Restore(t, force, dry, denied, unsent, unwritable)
          PROVE  ReniceIsBound
      <3>1. CASE dry BY <1>0, <2>1, <3>1 DEF Restore
      <3>2. CASE ~dry BY <1>6, <2>1, <3>2, RestoreCall, NiceCallIsBound, RequestsAssumption
      <3>. QED BY <3>1, <3>2
    <2>2. ASSUME NEW t \in Targets, NEW dry \in BOOLEAN, NEW denied \in SUBSET Pids,
                 \/ \E n \in NiceRequests : SetNice(t, n, dry, denied)
                 \/ RestoreNice(t, dry, denied)
          PROVE  ReniceIsBound
      BY <1>6, <2>2, SetNiceCall, RestoreNiceCall, NiceCallIsBound
    <2>. QED
      BY <1>0, <1>3, <2>1, <2>2, SetStopUndisturbed, SignalUndisturbed, SetFreezeUndisturbed
         DEF ControlStep
  <1>4. CASE PolicyStep
    <2>1. ASSUME NEW specs \in PolicySets, SetPolicies(specs) PROVE ReniceIsBound
      BY <1>0, <2>1 DEF SetPolicies
    <2>. QED BY <1>4, <1>6, <2>1, ReconcileTargetCall, NiceCallIsBound DEF PolicyStep
  <1>5. CASE UNCHANGED vars BY <1>5
  <1>. QED BY <1>1, <1>2, <1>3, <1>4, <1>5 DEF Next

\* procfit changes the nice value of a process only while the process is alive and
\* bound with its original to restore it from, and that of a protected one only for a
\* target that was loaded with it under control.
THEOREM OnlyBoundAreReniced == Spec => OnlyBoundReniced
  <1>1. IInv /\ [Next]_vars => [ReniceIsBound]_vars BY ReniceStep
  <1>2. OnlyBoundReniced <=> [][ReniceIsBound]_vars BY DEF OnlyBoundReniced, ReniceIsBound
  <1>. QED BY <1>1, <1>2, InductiveInvariant, PTL DEF Spec

RestoreIsExact ==
  last' = "restore" =>
    \A p \in Pids : proc'[p].nice # proc[p].nice =>
      \E t \in DOMAIN targets :
        /\ Captures(t, p) /\ BoundNow(t, p)
        /\ targets[t].bind[p].want = proc[p].nice
        /\ targets[t].bind[p].orig = proc'[p].nice

LEMMA RestoreStep ==
  ASSUME TypeOK, [Next]_vars PROVE RestoreIsExact \/ UNCHANGED vars
  <1>0. last' # "restore" => RestoreIsExact BY DEF RestoreIsExact
  <1>1. ASSUME NEW t \in Targets, NEW force \in Forces, NEW dry \in BOOLEAN,
               NEW denied \in SUBSET Pids, NEW unsent \in SUBSET Pids,
               NEW unwritable \in SUBSET Cgroups,
               Restore(t, force, dry, denied, unsent, unwritable), last' = "restore"
        PROVE  RestoreIsExact
    <2>. DEFINE b == targets[t].bind
                niced == {p \in DOMAIN b : NiceRestorable(b[p], proc[p], force)} \ denied
                conted == {p \in DOMAIN b : b[p].stop /\ Revalidate(b[p], proc[p])} \ unsent
    <2>1. ~dry /\ ~force /\ t \in DOMAIN targets BY <1>1 DEF Restore
    <2>2. proc' = [p \in Pids |->
                     [proc[p] EXCEPT !.nice = IF p \in niced THEN b[p].orig ELSE @,
                                     !.stop = IF p \in conted THEN "running" ELSE @]]
      BY <1>1, <2>1 DEF Restore
    <2>3. \A p \in Pids : proc'[p].nice = IF p \in niced THEN b[p].orig ELSE proc[p].nice
      <3>. HIDE DEF niced, conted
      <3>. QED BY <2>2 DEF TypeOK, Process
    <2>4. \A p \in niced : /\ p \in DOMAIN b /\ b[p].orig # None /\ Revalidate(b[p], proc[p])
                           /\ b[p].want = proc[p].nice
      BY <2>1 DEF NiceRestorable
    <2>. QED
      <3>. HIDE DEF niced
      <3>. QED BY <2>1, <2>3, <2>4 DEF RestoreIsExact, Captures, BoundNow
  <1>2. ASSUME NEW t \in Targets, NEW dry \in BOOLEAN, NEW denied \in SUBSET Pids,
               RestoreNice(t, dry, denied)
        PROVE  RestoreIsExact
    <2>. DEFINE b == targets[t].bind
                niced == IF dry THEN {}
                         ELSE {p \in DOMAIN b : NiceRestorable(b[p], proc[p], FALSE)} \ denied
    <2>1. t \in DOMAIN targets
          /\ proc' = [p \in Pids |-> IF p \in niced THEN [proc[p] EXCEPT !.nice = b[p].orig]
                                     ELSE proc[p]]
      BY <1>2 DEF RestoreNice
    <2>2. \A p \in Pids : proc'[p].nice = IF p \in niced THEN b[p].orig ELSE proc[p].nice
      <3>. HIDE DEF niced
      <3>. QED BY <2>1 DEF TypeOK, Process
    <2>3. \A p \in niced : /\ p \in DOMAIN b /\ b[p].orig # None /\ Revalidate(b[p], proc[p])
                           /\ b[p].want = proc[p].nice
      BY DEF NiceRestorable
    <2>. QED
      <3>. HIDE DEF niced
      <3>. QED BY <2>1, <2>2, <2>3 DEF RestoreIsExact, Captures, BoundNow
  <1>3. CASE KernelStep
    BY <1>0, <1>3 DEF KernelStep, Spawn, Exit, OutsideRenice, OutsideSignal, Reboot
  <1>4. CASE MembershipStep
    BY <1>0, <1>4 DEF MembershipStep, Manage, Rebind, Unmanage
  <1>5. CASE ControlStep
    <2>1. ASSUME NEW t \in Targets, NEW n \in NiceRequests, NEW dry \in BOOLEAN,
                 NEW denied \in SUBSET Pids, SetNice(t, n, dry, denied)
          PROVE  last' # "restore"
      BY <2>1 DEF SetNice
    <2>2. ASSUME NEW t \in Targets, NEW stop \in StopRequests, NEW dry \in BOOLEAN,
                 NEW unsent \in SUBSET Pids, SetStop(t, stop, dry, unsent)
          PROVE  last' # "restore"
      BY <2>2, RequestsAssumption DEF SetStop
    <2>3. ASSUME NEW insts, NEW s \in SignalRequests, NEW dry \in BOOLEAN,
                 NEW unsent \in SUBSET Pids, Signal(insts, s, dry, unsent)
          PROVE  last' # "restore"
      BY <2>3 DEF Signal
    <2>4. ASSUME NEW t \in Targets, NEW freeze \in FreezeRequests, NEW force \in Forces,
                 NEW dry \in BOOLEAN, NEW unwritable \in SUBSET Cgroups,
                 SetFreeze(t, freeze, force, dry, unwritable)
          PROVE  last' # "restore"
      BY <2>4 DEF SetFreeze
    <2>. QED BY <1>0, <1>1, <1>2, <1>5, <2>1, <2>2, <2>3, <2>4 DEF ControlStep
  <1>6. CASE PolicyStep
    <2>1. \A specs : SetPolicies(specs) => last' = "policy" BY DEF SetPolicies
    <2>2. ASSUME NEW t, NEW insts, NEW denied, ReconcileTarget(t, insts, denied)
          PROVE  last' = "reconcile"
      BY <2>2 DEF ReconcileTarget
    <2>3. last' = "policy" \/ last' = "reconcile" BY <1>6, <2>1, <2>2 DEF PolicyStep
    <2>. QED BY <1>0, <2>3
  <1>7. CASE UNCHANGED vars BY <1>7
  <1>. QED BY <1>3, <1>4, <1>5, <1>6, <1>7 DEF Next

\* An unforced restore, of a target or of its nice alone, moves a nice value only from
\* what a record says procfit wanted to the original of that same record.
THEOREM RestoresRespectDrift == Spec => RestoreRespectsDrift
  <1>1. TypeOK /\ [Next]_vars => [RestoreIsExact]_vars BY RestoreStep
  <1>2. RestoreRespectsDrift <=> [][RestoreIsExact]_vars
    BY DEF RestoreRespectsDrift, RestoreIsExact
  <1>. QED BY <1>1, <1>2, TypeCorrect, PTL DEF Spec

NothingActedOn ==
  /\ proc' = proc /\ frozen' = frozen
  /\ \A t \in DOMAIN targets : targets'[t].bind = targets[t].bind

DryRunIsSafe == last' = "dryrun" => NothingActedOn

\* A dry nice call or restore of the nice: what it would have acted on is empty.
LEMMA DryNice ==
  ASSUME TypeOK, NEW t \in Targets, NEW denied \in SUBSET Pids,
         \/ \E n \in NiceRequests : SetNice(t, n, TRUE, denied)
         \/ RestoreNice(t, TRUE, denied)
  PROVE  NothingActedOn
  <1>1. t \in DOMAIN targets /\ Target(targets[t]) BY DEF SetNice, RestoreNice, TypeOK
  <1>2. targets[t].bind = [p \in DOMAIN targets[t].bind |-> targets[t].bind[p]]
    BY <1>1, TargetParts
  <1>3. proc = [p \in Pids |-> proc[p]] BY DEF TypeOK
  <1>4. CASE \E n \in NiceRequests : SetNice(t, n, TRUE, denied)
    <2>1. PICK n \in NiceRequests : SetNice(t, n, TRUE, denied) BY <1>4
    <2>2. /\ targets' = [targets EXCEPT ![t].nice = n,
                                        ![t].bind = [p \in DOMAIN @ |-> @[p]]]
          /\ proc' = [p \in Pids |-> proc[p]] /\ frozen' = frozen
      BY <2>1 DEF SetNice, Reniced
    <2>. QED BY <1>1, <1>2, <1>3, <2>2 DEF NothingActedOn, Target
  <1>5. CASE RestoreNice(t, TRUE, denied)
    <2>1. /\ targets' = [targets EXCEPT ![t].nice = @,
                                        ![t].bind = [p \in DOMAIN @ |-> @[p]]]
          /\ proc' = [p \in Pids |-> proc[p]] /\ frozen' = frozen
      BY <1>5 DEF RestoreNice
    <2>. QED BY <1>1, <1>2, <1>3, <2>1 DEF NothingActedOn, Target
  <1>. QED BY <1>4, <1>5

LEMMA DryRunStep ==
  ASSUME TypeOK, [Next]_vars PROVE DryRunIsSafe \/ UNCHANGED vars
  <1>0. last' # "dryrun" => DryRunIsSafe BY DEF DryRunIsSafe
  <1>1. CASE KernelStep
    BY <1>0, <1>1 DEF KernelStep, Spawn, Exit, OutsideRenice, OutsideSignal, Reboot
  <1>2. CASE MembershipStep
    BY <1>0, <1>2 DEF MembershipStep, Manage, Rebind, Unmanage
  <1>3. CASE ControlStep
    <2>1. ASSUME NEW t \in Targets, NEW dry \in BOOLEAN, NEW denied \in SUBSET Pids,
                 \/ \E n \in NiceRequests : SetNice(t, n, dry, denied)
                 \/ RestoreNice(t, dry, denied)
          PROVE  DryRunIsSafe
      <3>1. dry \/ last' # "dryrun" BY <2>1 DEF SetNice, RestoreNice
      <3>. QED BY <1>0, <2>1, <3>1, DryNice DEF DryRunIsSafe
    <2>2. ASSUME NEW t \in Targets, NEW stop \in StopRequests, NEW dry \in BOOLEAN,
                 NEW unsent \in SUBSET Pids, SetStop(t, stop, dry, unsent)
          PROVE  DryRunIsSafe
      <3>1. dry \/ last' # "dryrun" BY <2>2, RequestsAssumption DEF SetStop
      <3>2. frozen' = frozen BY <2>2 DEF SetStop
      <3>. QED BY <1>0, <2>2, <3>1, <3>2, SetStopUndisturbed DEF DryRunIsSafe, NothingActedOn
    <2>3. ASSUME NEW insts, NEW s \in SignalRequests, NEW dry \in BOOLEAN,
                 NEW unsent \in SUBSET Pids, Signal(insts, s, dry, unsent)
          PROVE  DryRunIsSafe
      <3>1. dry \/ last' # "dryrun" BY <2>3 DEF Signal
      <3>2. frozen' = frozen BY <2>3 DEF Signal
      <3>. QED BY <1>0, <2>3, <3>1, <3>2, SignalUndisturbed DEF DryRunIsSafe, NothingActedOn
    <2>4. ASSUME NEW t \in Targets, NEW freeze \in FreezeRequests, NEW force \in Forces,
                 NEW dry \in BOOLEAN, NEW unwritable \in SUBSET Cgroups,
                 SetFreeze(t, freeze, force, dry, unwritable)
          PROVE  DryRunIsSafe
      <3>1. dry \/ last' # "dryrun" BY <2>4 DEF SetFreeze
      <3>. QED BY <1>0, <2>4, <3>1, SetFreezeUndisturbed DEF DryRunIsSafe, NothingActedOn
    <2>5. ASSUME NEW t \in Targets, NEW force \in Forces, NEW dry \in BOOLEAN,
                 NEW denied \in SUBSET Pids, NEW unsent \in SUBSET Pids,
                 NEW unwritable \in SUBSET Cgroups,
                 Restore(t, force, dry, denied, unsent, unwritable)
          PROVE  DryRunIsSafe
      <3>1. CASE dry BY <2>5, <3>1 DEF Restore, DryRunIsSafe, NothingActedOn
      <3>2. CASE ~dry
        <4>1. last' # "dryrun" BY <2>5, <3>2 DEF Restore
        <4>. QED BY <1>0, <4>1
      <3>. QED BY <3>1, <3>2
    <2>. QED BY <1>3, <2>1, <2>2, <2>3, <2>4, <2>5 DEF ControlStep
  <1>4. CASE PolicyStep
    <2>1. \A specs : SetPolicies(specs) => last' = "policy" BY DEF SetPolicies
    <2>2. ASSUME NEW t, NEW insts, NEW denied, ReconcileTarget(t, insts, denied)
          PROVE  last' = "reconcile"
      BY <2>2 DEF ReconcileTarget
    <2>3. last' = "policy" \/ last' = "reconcile" BY <1>4, <2>1, <2>2 DEF PolicyStep
    <2>. QED BY <1>0, <2>3
  <1>5. CASE UNCHANGED vars BY <1>5
  <1>. QED BY <1>1, <1>2, <1>3, <1>4, <1>5 DEF Next

\* A dry run of any operation leaves every process, every cgroup and every binding
\* as it was, and so what a later restore will do.
THEOREM DryRunsActOnNothing == Spec => DryRunActsOnNothing
  <1>1. TypeOK /\ [Next]_vars => [DryRunIsSafe]_vars BY DryRunStep
  <1>2. DryRunActsOnNothing <=> [][DryRunIsSafe]_vars
    BY DEF DryRunActsOnNothing, DryRunIsSafe, NothingActedOn
  <1>. QED BY <1>1, <1>2, TypeCorrect, PTL DEF Spec
==============================================================================
