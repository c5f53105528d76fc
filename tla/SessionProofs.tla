---------------------------- MODULE SessionProofs ----------------------------
(***************************************************************************)
(* Theorems about Session.  Both managers run the operations of Manager,   *)
(* instantiated twice (D and C), so what an operation does to the targets  *)
(* a manager keeps is first stated about any targets m, and each action of *)
(* D and C is then shown to be that operation on dmem or cmem.             *)
(***************************************************************************)
EXTENDS Session, TLAPS

TargetsOK(m) ==
  /\ DOMAIN m \subseteq Targets /\ m = [t \in DOMAIN m |-> m[t]]
  /\ \A t \in DOMAIN m : Target(m[t])

\* No process is alive that was never born.
KernelOK ==
  /\ proc \in [Pids -> Process]
  /\ \A p \in Pids : proc[p].alive => proc[p].inc >= 1

\* The processes there are, and whether they live, are as before.
SameProcesses ==
  /\ proc' \in [Pids -> Process]
  /\ \A p \in Pids : proc'[p].inc = proc[p].inc /\ proc'[p].alive = proc[p].alive

\* The originals a restore needs survive: c is of the processes b is of, and has the
\* original of every one that b has.
OriginalsKept(b, c) ==
  /\ DOMAIN c = DOMAIN b
  /\ \A p \in DOMAIN b : /\ c[p].inc = b[p].inc
                         /\ b[p].orig # None => c[p].orig = b[p].orig

\* By the process table k no binding is of a process still to come.
BornIn(b, k) == \A p \in DOMAIN b : b[p].inc <= k[p].inc

\* m2 is m with the record of t, new or existing, replaced.
Replaces(m, t, m2) ==
  /\ DOMAIN m2 = DOMAIN m \cup {t}
  /\ \A u \in DOMAIN m \ {t} : m2[u] = m[u]

\* The runtime targets of m and of l are the same.
SameRuntime(m, l) ==
  \A t \in Targets : Origin(t) = "runtime" =>
    (t \in DOMAIN m <=> t \in DOMAIN l) /\ (t \in DOMAIN m => m[t] = l[t])

\* Processes come and go: none rises from the dead, and a new one is another incarnation.
TimePasses ==
  \A p \in Pids : /\ proc[p].inc <= proc'[p].inc
                  /\ proc'[p].alive /\ proc'[p].inc = proc[p].inc => proc[p].alive

\* By the process table k, target t of m is bound to the process behind p; it holds it.
BoundIn(m, t, p, k) == t \in DOMAIN m /\ p \in DOMAIN m[t].bind /\ m[t].bind[p].inc = k[p].inc
HeldIn(m, t, p, k) == BoundIn(m, t, p, k) /\ m[t].bind[p].orig # None

\* From k to l the nice values of only the processes of S have changed.
OnlyReniced(S, k, l) == \A p \in Pids : p \notin S => l[p].nice = k[p].nice

\* An operation that takes m to m2 and the process table k to l binds no process still to
\* come, captures what it finds, keeps what was captured while the binding stays, and
\* gives a nice value only to a process it leaves held.
Transfers(m, m2, k, l) ==
  /\ \A t \in DOMAIN m2 : \A p \in DOMAIN m2[t].bind :
       /\ \/ m2[t].bind[p].inc <= k[p].inc
          \/ t \in DOMAIN m /\ p \in DOMAIN m[t].bind /\ m2[t].bind[p].inc = m[t].bind[p].inc
       /\ HeldIn(m2, t, p, k) =>
            m2[t].bind[p].orig = IF HeldIn(m, t, p, k) THEN m[t].bind[p].orig ELSE k[p].nice
       /\ HeldIn(m, t, p, k) /\ BoundIn(m2, t, p, k) => HeldIn(m2, t, p, k)
  /\ \A p \in Pids : l[p].nice # k[p].nice => \E t \in DOMAIN m2 : HeldIn(m2, t, p, k)

(***************************************************************************)
(* The operations, on targets m.                                           *)
(***************************************************************************)
\* An operation on one target.
LEMMA OneTransfers ==
  ASSUME NEW m, NEW t, NEW m2, Replaces(m, t, m2), NEW k, NEW l,
         \A p \in DOMAIN m2[t].bind :
           /\ \/ m2[t].bind[p].inc <= k[p].inc
              \/ t \in DOMAIN m /\ p \in DOMAIN m[t].bind /\ m2[t].bind[p].inc = m[t].bind[p].inc
           /\ HeldIn(m2, t, p, k) =>
                m2[t].bind[p].orig = IF HeldIn(m, t, p, k) THEN m[t].bind[p].orig ELSE k[p].nice
           /\ HeldIn(m, t, p, k) /\ BoundIn(m2, t, p, k) => HeldIn(m2, t, p, k),
         \A p \in Pids : l[p].nice # k[p].nice => HeldIn(m2, t, p, k)
  PROVE  Transfers(m, m2, k, l)
  <1>1. ASSUME NEW u \in DOMAIN m2, u # t, NEW p \in DOMAIN m2[u].bind
        PROVE  /\ u \in DOMAIN m /\ m2[u] = m[u]
               /\ HeldIn(m2, u, p, k) <=> HeldIn(m, u, p, k)
    BY <1>1 DEF Replaces, HeldIn, BoundIn
  <1>2. t \in DOMAIN m2 BY DEF Replaces
  <1>. QED BY <1>1, <1>2 DEF Transfers

\* An operation that captures nothing and gives no nice value.
LEMMA NoneTransferred ==
  ASSUME NEW m, NEW m2, NEW k, NEW l, \A p \in Pids : l[p].nice = k[p].nice,
         \A t \in DOMAIN m2 : m2[t].bind = IF t \in DOMAIN m THEN m[t].bind ELSE << >>
  PROVE  Transfers(m, m2, k, l)
  BY DEF Transfers, HeldIn, BoundIn

Renewed(m, t, n, bind) == [m EXCEPT ![t].nice = n, ![t].bind = bind]

LEMMA NoneIsNoState == \A m : TargetsOK(m) => m # None
  <1>1. SUFFICES ASSUME NEW m, TargetsOK(m) PROVE m \in [DOMAIN m -> TargetRecord]
    BY SessionAssumption DEF TargetsOK
  <1>2. \A t \in DOMAIN m : m[t] \in TargetRecord
    <2>1. SUFFICES ASSUME NEW t \in DOMAIN m PROVE m[t] \in TargetRecord OBVIOUS
    <2>2. m[t].bind \in Partial(Pids, Binding)
      BY <1>1 DEF TargetsOK, Target, Bindings, Partial
    <2>. QED BY <1>1, <2>2 DEF TargetsOK, Target, TargetRecord
  <1>. QED BY <1>1, <1>2 DEF TargetsOK

\* Bindings rewritten pid by pid and a nice intent set.
LEMMA RenewedOK ==
  ASSUME NEW m, TargetsOK(m), NEW t \in DOMAIN m, NEW n \in Nices \cup {None},
         NEW bind \in [DOMAIN m[t].bind -> Binding], NEW m2, m2 = Renewed(m, t, n, bind)
  PROVE  /\ TargetsOK(m2) /\ Replaces(m, t, m2)
         /\ m2[t].nice = n /\ m2[t].bind = bind
  <1>1. Target(m[t]) BY DEF TargetsOK
  <1>2. /\ DOMAIN m2 = DOMAIN m
        /\ \A u \in DOMAIN m : m2[u] = IF u = t THEN [m[t] EXCEPT !.nice = n, !.bind = bind]
                                       ELSE m[u]
    BY DEF Renewed, TargetsOK
  <1>3. DOMAIN m[t].bind \subseteq Pids /\ DOMAIN bind = DOMAIN m[t].bind
    BY <1>1 DEF Target, Bindings
  <1>4. Target([m[t] EXCEPT !.nice = n, !.bind = bind])
    BY <1>1, <1>3 DEF Target, Bindings
  <1>5. m2 = [u \in DOMAIN m2 |-> m2[u]] BY DEF Renewed, TargetsOK
  <1>6. m2[t].nice = n /\ m2[t].bind = bind BY <1>1, <1>2 DEF Target
  <1>. QED BY <1>2, <1>4, <1>5, <1>6 DEF TargetsOK, Replaces

\* What a nice call leaves in a binding it could act on.
LEMMA CapturedType ==
  ASSUME NEW b \in Binding, NEW k \in Process, NEW n \in Nices
  PROVE  /\ Captured(b, k, n) \in Binding /\ Captured(b, k, n).inc = b.inc
         /\ b.orig # None => Captured(b, k, n).orig = b.orig
  BY ConstantsAssumption DEF Captured, Binding, Process

NicedBindings(b, hit, n) == [p \in DOMAIN b |-> IF p \in hit THEN Captured(b[p], proc[p], n) ELSE b[p]]

LEMMA NicedOK ==
  ASSUME KernelOK, NEW m, TargetsOK(m), NEW t \in DOMAIN m, NEW n \in Nices, NEW hit,
         NEW m2, m2 = Renewed(m, t, n, NicedBindings(m[t].bind, hit, n))
  PROVE  /\ TargetsOK(m2) /\ Replaces(m, t, m2)
         /\ m2[t].nice = n /\ OriginalsKept(m[t].bind, m2[t].bind)
         /\ m2[t].bind = NicedBindings(m[t].bind, hit, n)
  <1>. DEFINE b == m[t].bind
              new == NicedBindings(b, hit, n)
  <1>1. DOMAIN b \subseteq Pids /\ b \in [DOMAIN b -> Binding] BY DEF TargetsOK, Target, Bindings
  <1>2. \A p \in DOMAIN b : new[p] = IF p \in hit THEN Captured(b[p], proc[p], n) ELSE b[p]
    BY DEF NicedBindings
  <1>3. \A p \in DOMAIN b : /\ new[p] \in Binding /\ new[p].inc = b[p].inc
                            /\ b[p].orig # None => new[p].orig = b[p].orig
    <2>. HIDE DEF new
    <2>. QED BY <1>1, <1>2, CapturedType DEF KernelOK
  <1>4. new \in [DOMAIN b -> Binding] /\ m2 = Renewed(m, t, n, new) BY <1>3 DEF NicedBindings
  <1>5. TargetsOK(m2) /\ Replaces(m, t, m2) /\ m2[t].nice = n /\ m2[t].bind = new
    <2>. HIDE DEF new
    <2>. QED BY <1>4, RenewedOK
  <1>6. m2[t].bind = NicedBindings(m[t].bind, hit, n) BY <1>5
  <1>. HIDE DEF new
  <1>. QED BY <1>3, <1>4, <1>5, <1>6 DEF OriginalsKept

\* Only what `hit' records is written, and only processes that are there.
Present(b, S, k) == \A p \in S : p \in DOMAIN b /\ Revalidate(b[p], k[p])

LEMMA NicedTransfers ==
  ASSUME KernelOK, NEW m, TargetsOK(m), NEW t \in DOMAIN m, NEW n \in Nices, NEW hit,
         Present(m[t].bind, hit, proc),
         NEW m2, m2 = Renewed(m, t, n, NicedBindings(m[t].bind, hit, n)),
         NEW l, OnlyReniced(hit, proc, l)
  PROVE  Transfers(m, m2, proc, l)
  <1>. DEFINE b == m[t].bind
              b2 == m2[t].bind
  <1>1. DOMAIN b \subseteq Pids /\ b \in [DOMAIN b -> Binding] BY DEF TargetsOK, Target, Bindings
  <1>2. /\ Replaces(m, t, m2) /\ t \in DOMAIN m2 /\ DOMAIN b2 = DOMAIN b
        /\ \A p \in DOMAIN b : b2[p] = IF p \in hit THEN Captured(b[p], proc[p], n) ELSE b[p]
    <2>1. Replaces(m, t, m2) /\ b2 = NicedBindings(b, hit, n) BY NicedOK
    <2>. QED BY <2>1 DEF NicedBindings, Replaces
  <1>3. ASSUME NEW p \in DOMAIN b
        PROVE  /\ b2[p].inc = b[p].inc
               /\ p \in hit => /\ b2[p].orig = IF b[p].orig = None THEN proc[p].nice ELSE b[p].orig
                               /\ b2[p].orig # None /\ b[p].inc = proc[p].inc
               /\ p \notin hit => b2[p] = b[p]
    <2>1. b[p] \in Binding /\ proc[p] \in Process /\ proc[p].nice # None
      BY <1>1, ConstantsAssumption DEF KernelOK, Process
    <2>. QED BY <1>2, <2>1 DEF Captured, Binding, Revalidate, Present
  <1>4. \A p \in DOMAIN b : /\ HeldIn(m, t, p, proc) <=> b[p].inc = proc[p].inc /\ b[p].orig # None
                            /\ HeldIn(m2, t, p, proc) <=> b2[p].inc = proc[p].inc /\ b2[p].orig # None
                            /\ BoundIn(m2, t, p, proc) <=> b2[p].inc = proc[p].inc
    BY <1>2 DEF HeldIn, BoundIn
  <1>. HIDE DEF b, b2
  <1>5. \A p \in DOMAIN b :
          /\ HeldIn(m2, t, p, proc) =>
               b2[p].orig = IF HeldIn(m, t, p, proc) THEN b[p].orig ELSE proc[p].nice
          /\ HeldIn(m, t, p, proc) /\ BoundIn(m2, t, p, proc) => HeldIn(m2, t, p, proc)
    BY <1>3, <1>4
  <1>6. \A p \in hit : p \in DOMAIN b /\ HeldIn(m2, t, p, proc) BY <1>3, <1>4 DEF b, Present
  <1>. QED BY <1>2, <1>3, <1>5, <1>6, OneTransfers DEF b, b2, OnlyReniced

LEMMA DCaptured == \A b, k, n : D!Captured(b, k, n) = Captured(b, k, n)
  BY DEF D!Captured, Captured

LEMMA CCaptured == \A b, k, n : C!Captured(b, k, n) = Captured(b, k, n)
  BY DEF C!Captured, Captured

LEMMA DSetNice ==
  ASSUME KernelOK, TargetsOK(dmem), NEW t, NEW n \in Nices, NEW dry, NEW denied,
         D!SetNice(t, n, dry, denied)
  PROVE  /\ SameProcesses /\ t \in DOMAIN dmem
         /\ \E hit : dmem' = Renewed(dmem, t, n, NicedBindings(dmem[t].bind, hit, n))
         /\ Transfers(dmem, dmem', proc, proc')
  <1>. DEFINE b == dmem[t].bind
              hit == D!Unless(dry, {p \in DOMAIN b : D!NiceAllowed(p, b[p], proc[p])})
  <1>1. /\ t \in DOMAIN dmem
        /\ dmem' = [dmem EXCEPT ![t].nice = n,
                      ![t].bind = [p \in DOMAIN b |->
                         IF p \in hit THEN D!Captured(b[p], proc[p], n) ELSE b[p]]]
        /\ proc' = D!Reniced(hit \ denied, n)
    BY DEF D!SetNice
  <1>2. SameProcesses
    <2>. HIDE DEF hit
    <2>. QED BY <1>1 DEF D!Reniced, SameProcesses, KernelOK, Process
  <1>3. dmem' = Renewed(dmem, t, n, NicedBindings(b, hit, n))
    <2>. HIDE DEF hit
    <2>. QED BY <1>1, DCaptured DEF Renewed, NicedBindings
  <1>4. Present(b, hit, proc)
    BY DEF D!Unless, D!NiceAllowed, D!Revalidate, Revalidate, Present
  <1>5. OnlyReniced(hit, proc, proc')
    <2>. HIDE DEF hit
    <2>. QED BY <1>1 DEF D!Reniced, OnlyReniced
  <1>6. Transfers(dmem, dmem', proc, proc')
    <2>1. t \in DOMAIN dmem BY <1>1
    <2>. HIDE DEF hit
    <2>. QED BY <1>3, <1>4, <1>5, <2>1, NicedTransfers
  <1>. QED BY <1>1, <1>2, <1>3, <1>6

LEMMA CSetNice ==
  ASSUME KernelOK, TargetsOK(cmem), NEW t, NEW n \in Nices, NEW dry, NEW denied,
         C!SetNice(t, n, dry, denied)
  PROVE  /\ SameProcesses /\ t \in DOMAIN cmem
         /\ \E hit : cmem' = Renewed(cmem, t, n, NicedBindings(cmem[t].bind, hit, n))
         /\ Transfers(cmem, cmem', proc, proc')
  <1>. DEFINE b == cmem[t].bind
              hit == C!Unless(dry, {p \in DOMAIN b : C!NiceAllowed(p, b[p], proc[p])})
  <1>1. /\ t \in DOMAIN cmem
        /\ cmem' = [cmem EXCEPT ![t].nice = n,
                      ![t].bind = [p \in DOMAIN b |->
                         IF p \in hit THEN C!Captured(b[p], proc[p], n) ELSE b[p]]]
        /\ proc' = C!Reniced(hit \ denied, n)
    BY DEF C!SetNice
  <1>2. SameProcesses
    <2>. HIDE DEF hit
    <2>. QED BY <1>1 DEF C!Reniced, SameProcesses, KernelOK, Process
  <1>3. cmem' = Renewed(cmem, t, n, NicedBindings(b, hit, n))
    <2>. HIDE DEF hit
    <2>. QED BY <1>1, CCaptured DEF Renewed, NicedBindings
  <1>4. Present(b, hit, proc)
    BY DEF C!Unless, C!NiceAllowed, C!Revalidate, Revalidate, Present
  <1>5. OnlyReniced(hit, proc, proc')
    <2>. HIDE DEF hit
    <2>. QED BY <1>1 DEF C!Reniced, OnlyReniced
  <1>6. Transfers(cmem, cmem', proc, proc')
    <2>1. t \in DOMAIN cmem BY <1>1
    <2>. HIDE DEF hit
    <2>. QED BY <1>3, <1>4, <1>5, <2>1, NicedTransfers
  <1>. QED BY <1>1, <1>2, <1>3, <1>6

\* Restore clears the intents; a binding keeps its original and may drop its stop.
RestoredBindings(b, niced, conted) ==
  [p \in DOMAIN b |-> [b[p] EXCEPT !.want = IF p \in niced THEN b[p].orig ELSE @,
                                   !.stop = IF p \in conted THEN FALSE ELSE @]]

RestoredTargets(m, t, niced, conted) ==
  [m EXCEPT ![t].nice = None, ![t].stop = None, ![t].freeze = None,
            ![t].bind = RestoredBindings(m[t].bind, niced, conted)]

LEMMA RestoredOK ==
  ASSUME NEW m, TargetsOK(m), NEW t \in DOMAIN m, NEW niced, NEW conted,
         NEW m2, m2 = RestoredTargets(m, t, niced, conted)
  PROVE  /\ TargetsOK(m2) /\ Replaces(m, t, m2)
         /\ m2[t].nice = None /\ OriginalsKept(m[t].bind, m2[t].bind)
         /\ \A p \in DOMAIN m[t].bind : m2[t].bind[p].orig = m[t].bind[p].orig
  <1>. DEFINE b == m[t].bind
              new == RestoredBindings(b, niced, conted)
  <1>1. DOMAIN b \subseteq Pids /\ b \in [DOMAIN b -> Binding] /\ Target(m[t])
    BY DEF TargetsOK, Target, Bindings
  <1>2. \A p \in DOMAIN b : /\ new[p] \in Binding /\ new[p].inc = b[p].inc
                            /\ new[p].orig = b[p].orig
    BY <1>1 DEF RestoredBindings, Binding
  <1>3. new \in [DOMAIN b -> Binding] BY <1>2 DEF RestoredBindings
  <1>4. m2 = [m EXCEPT ![t].nice = None, ![t].stop = None, ![t].freeze = None, ![t].bind = new]
    BY DEF RestoredTargets
  <1>. HIDE DEF new
  <1>5. /\ DOMAIN m2 = DOMAIN m
        /\ \A u \in DOMAIN m : m2[u] = IF u = t THEN [m[t] EXCEPT !.nice = None, !.stop = None,
                                                                  !.freeze = None, !.bind = new]
                                       ELSE m[u]
        /\ m2 = [u \in DOMAIN m2 |-> m2[u]]
    <2>. DEFINE one == [m EXCEPT ![t].nice = None]
                two == [one EXCEPT ![t].stop = None]
                three == [two EXCEPT ![t].freeze = None]
    <2>1. /\ DOMAIN one = DOMAIN m /\ one[t] = [m[t] EXCEPT !.nice = None]
          /\ \A u \in DOMAIN m \ {t} : one[u] = m[u]
      OBVIOUS
    <2>2. m2 = [three EXCEPT ![t].bind = new] BY <1>4
    <2>. HIDE DEF one
    <2>3. /\ DOMAIN two = DOMAIN m /\ two[t] = [m[t] EXCEPT !.nice = None, !.stop = None]
          /\ \A u \in DOMAIN m \ {t} : two[u] = m[u]
      BY <2>1
    <2>. HIDE DEF two
    <2>4. /\ DOMAIN three = DOMAIN m
          /\ three[t] = [m[t] EXCEPT !.nice = None, !.stop = None, !.freeze = None]
          /\ \A u \in DOMAIN m \ {t} : three[u] = m[u]
      BY <2>3
    <2>. HIDE DEF three
    <2>5. /\ DOMAIN m2 = DOMAIN m /\ m2 = [u \in DOMAIN m2 |-> m2[u]]
          /\ m2[t] = [three[t] EXCEPT !.bind = new]
          /\ \A u \in DOMAIN m \ {t} : m2[u] = m[u]
      BY <2>2, <2>4
    <2>. QED BY <2>4, <2>5
  <1>6. /\ Target(m2[t]) /\ m2[t].nice = None /\ m2[t].bind = new
    <2>1. DOMAIN new = DOMAIN b BY <1>3
    <2>2. Bindings(new) BY <1>1, <1>3, <2>1 DEF Bindings
    <2>3. m2[t] = [m[t] EXCEPT !.nice = None, !.stop = None, !.freeze = None, !.bind = new]
      BY <1>5
    <2>. DEFINE old == [m[t] EXCEPT !.nice = None, !.stop = None, !.freeze = None]
    <2>4. /\ old \in [mode : Modes, nice : Nices \cup {None}, stop : BOOLEAN \cup {None},
                      freeze : BOOLEAN \cup {None}, drift : DriftModes,
                      active : BOOLEAN, bind : {m[t].bind}]
          /\ old.nice = None
      BY <1>1 DEF Target
    <2>5. m2[t] = [old EXCEPT !.bind = new] BY <2>3
    <2>. HIDE DEF old
    <2>. QED BY <2>2, <2>4, <2>5 DEF Target
  <1>. QED BY <1>2, <1>3, <1>5, <1>6 DEF TargetsOK, Replaces, OriginalsKept

LEMMA RestoredTransfers ==
  ASSUME NEW m, TargetsOK(m), NEW t \in DOMAIN m, NEW niced, NEW conted,
         \A p \in niced : p \in DOMAIN m[t].bind /\ HeldIn(m, t, p, proc),
         NEW m2, m2 = RestoredTargets(m, t, niced, conted),
         NEW l, \A p \in Pids : p \notin niced => l[p].nice = proc[p].nice
  PROVE  Transfers(m, m2, proc, l)
  <1>1. /\ Replaces(m, t, m2) /\ t \in DOMAIN m2 /\ DOMAIN m2[t].bind = DOMAIN m[t].bind
        /\ \A p \in DOMAIN m[t].bind : /\ m2[t].bind[p].inc = m[t].bind[p].inc
                                       /\ m2[t].bind[p].orig = m[t].bind[p].orig
    <2>1. /\ Replaces(m, t, m2) /\ OriginalsKept(m[t].bind, m2[t].bind)
          /\ \A p \in DOMAIN m[t].bind : m2[t].bind[p].orig = m[t].bind[p].orig
      BY RestoredOK
    <2>. QED BY <2>1 DEF OriginalsKept, Replaces
  <1>2. \A p \in DOMAIN m[t].bind : HeldIn(m2, t, p, proc) <=> HeldIn(m, t, p, proc)
    BY <1>1 DEF HeldIn, BoundIn
  <1>. QED BY <1>1, <1>2, OneTransfers

\* Processes that are reniced, or continued, are the processes they were.
LEMMA ProcessesRestored ==
  ASSUME KernelOK, NEW niced, NEW conted, NEW b, \A p \in niced : b[p].orig \in Nices,
         proc' = [p \in Pids |->
                    [proc[p] EXCEPT !.nice = IF p \in niced THEN b[p].orig ELSE @,
                                    !.stop = IF p \in conted THEN "running" ELSE @]]
  PROVE  SameProcesses
  <1>1. ASSUME NEW p \in Pids
        PROVE  /\ proc'[p] \in Process
               /\ proc'[p].inc = proc[p].inc /\ proc'[p].alive = proc[p].alive
    <2>. DEFINE n == IF p \in niced THEN b[p].orig ELSE proc[p].nice
                s == IF p \in conted THEN "running" ELSE proc[p].stop
    <2>1. proc[p] \in Process BY DEF KernelOK
    <2>2. n \in Nices /\ s \in StopStates BY <2>1 DEF Process, StopStates
    <2>3. proc'[p] = [proc[p] EXCEPT !.nice = n, !.stop = s]
      <3>1. proc'[p] = [proc[p] EXCEPT !.nice = IF p \in niced THEN b[p].orig ELSE @,
                                       !.stop = IF p \in conted THEN "running" ELSE @]
        OBVIOUS
      <3>2. [proc[p] EXCEPT !.nice = IF p \in niced THEN b[p].orig ELSE @].stop = proc[p].stop
        BY <2>1 DEF Process
      <3>. QED BY <2>1, <3>1, <3>2
    <2>. HIDE DEF n, s
    <2>. QED BY <2>1, <2>2, <2>3 DEF Process
  <1>. QED BY <1>1 DEF SameProcesses

LEMMA DRestore ==
  ASSUME KernelOK, TargetsOK(dmem), NEW t, NEW force, NEW denied,
         D!Restore(t, force, FALSE, denied, {}, {})
  PROVE  /\ SameProcesses /\ t \in DOMAIN dmem
         /\ \E niced, conted : dmem' = RestoredTargets(dmem, t, niced, conted)
         /\ Transfers(dmem, dmem', proc, proc')
  <1>. DEFINE b == dmem[t].bind
              niced == {p \in DOMAIN b : D!NiceRestorable(b[p], proc[p], force)} \ denied
              conted == {p \in DOMAIN b : b[p].stop /\ D!Revalidate(b[p], proc[p])} \ {}
              niceBack(q) == IF q \in niced THEN [b[q] EXCEPT !.want = b[q].orig] ELSE b[q]
  <1>1. /\ t \in DOMAIN dmem
        /\ dmem' = [dmem EXCEPT ![t].nice = None, ![t].stop = None, ![t].freeze = None,
                      ![t].bind = [p \in DOMAIN b |->
                         IF p \in conted THEN [niceBack(p) EXCEPT !.stop = FALSE] ELSE niceBack(p)]]
        /\ proc' = [p \in Pids |->
                      [proc[p] EXCEPT !.nice = IF p \in niced THEN b[p].orig ELSE @,
                                      !.stop = IF p \in conted THEN "running" ELSE @]]
    BY DEF D!Restore
  <1>2. DOMAIN b \subseteq Pids /\ b \in [DOMAIN b -> Binding] BY <1>1 DEF TargetsOK, Target, Bindings
  <1>3. \A p \in niced : p \in DOMAIN b /\ b[p].orig \in Nices
    BY <1>2 DEF D!NiceRestorable, Binding
  <1>4. SameProcesses
    <2>1. \A p \in niced : b[p].orig \in Nices BY <1>3
    <2>. HIDE DEF b, niced, conted
    <2>. QED BY <1>1, <2>1, ProcessesRestored
  <1>5. dmem' = RestoredTargets(dmem, t, niced, conted)
    <2>1. \A p \in DOMAIN b :
            (IF p \in conted THEN [niceBack(p) EXCEPT !.stop = FALSE] ELSE niceBack(p))
              = RestoredBindings(b, niced, conted)[p]
      <3>. HIDE DEF niced, conted
      <3>. QED BY <1>2 DEF RestoredBindings, Binding
    <2>2. [p \in DOMAIN b |->
             IF p \in conted THEN [niceBack(p) EXCEPT !.stop = FALSE] ELSE niceBack(p)]
            = RestoredBindings(b, niced, conted)
      <3>. HIDE DEF niceBack, conted, niced
      <3>. QED BY <2>1 DEF RestoredBindings
    <2>. HIDE DEF niceBack, niced, conted
    <2>. QED BY <1>1, <2>2 DEF RestoredTargets
  <1>6. Transfers(dmem, dmem', proc, proc')
    <2>1. \A p \in niced : p \in DOMAIN b /\ HeldIn(dmem, t, p, proc)
      BY <1>1 DEF D!NiceRestorable, D!Revalidate, HeldIn, BoundIn
    <2>2. \A p \in Pids : p \notin niced => proc'[p].nice = proc[p].nice
      <3>. HIDE DEF niced, conted
      <3>. QED BY <1>1 DEF KernelOK, Process
    <2>3. t \in DOMAIN dmem BY <1>1
    <2>. HIDE DEF niced, conted
    <2>. QED BY <1>5, <2>1, <2>2, <2>3, RestoredTransfers
  <1>. QED BY <1>1, <1>4, <1>5, <1>6

LEMMA CRestore ==
  ASSUME KernelOK, TargetsOK(cmem), NEW t, NEW force, NEW denied,
         C!Restore(t, force, FALSE, denied, {}, {})
  PROVE  /\ SameProcesses /\ t \in DOMAIN cmem
         /\ \E niced, conted : cmem' = RestoredTargets(cmem, t, niced, conted)
         /\ Transfers(cmem, cmem', proc, proc')
  <1>. DEFINE b == cmem[t].bind
              niced == {p \in DOMAIN b : C!NiceRestorable(b[p], proc[p], force)} \ denied
              conted == {p \in DOMAIN b : b[p].stop /\ C!Revalidate(b[p], proc[p])} \ {}
              niceBack(q) == IF q \in niced THEN [b[q] EXCEPT !.want = b[q].orig] ELSE b[q]
  <1>1. /\ t \in DOMAIN cmem
        /\ cmem' = [cmem EXCEPT ![t].nice = None, ![t].stop = None, ![t].freeze = None,
                      ![t].bind = [p \in DOMAIN b |->
                         IF p \in conted THEN [niceBack(p) EXCEPT !.stop = FALSE] ELSE niceBack(p)]]
        /\ proc' = [p \in Pids |->
                      [proc[p] EXCEPT !.nice = IF p \in niced THEN b[p].orig ELSE @,
                                      !.stop = IF p \in conted THEN "running" ELSE @]]
    BY DEF C!Restore
  <1>2. DOMAIN b \subseteq Pids /\ b \in [DOMAIN b -> Binding] BY <1>1 DEF TargetsOK, Target, Bindings
  <1>3. \A p \in niced : p \in DOMAIN b /\ b[p].orig \in Nices
    BY <1>2 DEF C!NiceRestorable, Binding
  <1>4. SameProcesses
    <2>1. \A p \in niced : b[p].orig \in Nices BY <1>3
    <2>. HIDE DEF b, niced, conted
    <2>. QED BY <1>1, <2>1, ProcessesRestored
  <1>5. cmem' = RestoredTargets(cmem, t, niced, conted)
    <2>1. \A p \in DOMAIN b :
            (IF p \in conted THEN [niceBack(p) EXCEPT !.stop = FALSE] ELSE niceBack(p))
              = RestoredBindings(b, niced, conted)[p]
      <3>. HIDE DEF niced, conted
      <3>. QED BY <1>2 DEF RestoredBindings, Binding
    <2>2. [p \in DOMAIN b |->
             IF p \in conted THEN [niceBack(p) EXCEPT !.stop = FALSE] ELSE niceBack(p)]
            = RestoredBindings(b, niced, conted)
      <3>. HIDE DEF niceBack, conted, niced
      <3>. QED BY <2>1 DEF RestoredBindings
    <2>. HIDE DEF niceBack, niced, conted
    <2>. QED BY <1>1, <2>2 DEF RestoredTargets
  <1>6. Transfers(cmem, cmem', proc, proc')
    <2>1. \A p \in niced : p \in DOMAIN b /\ HeldIn(cmem, t, p, proc)
      BY <1>1 DEF C!NiceRestorable, C!Revalidate, HeldIn, BoundIn
    <2>2. \A p \in Pids : p \notin niced => proc'[p].nice = proc[p].nice
      <3>. HIDE DEF niced, conted
      <3>. QED BY <1>1 DEF KernelOK, Process
    <2>3. t \in DOMAIN cmem BY <1>1
    <2>. HIDE DEF niced, conted
    <2>. QED BY <1>5, <2>1, <2>2, <2>3, RestoredTransfers
  <1>. QED BY <1>1, <1>4, <1>5, <1>6

\* Re-binding keeps the originals of the processes it still finds.
LEMMA BindInstancesOK ==
  ASSUME KernelOK, NEW old, Bindings(old), NEW insts \in Instances(proc)
  PROVE  /\ Bindings(BindInstances(old, insts)) /\ BornIn(BindInstances(old, insts), proc)
         /\ \A p \in DOMAIN old : p \in DOMAIN insts /\ insts[p] = old[p].inc =>
              /\ p \in DOMAIN BindInstances(old, insts)
              /\ BindInstances(old, insts)[p] = old[p]
  <1>1. /\ DOMAIN insts \subseteq Pids /\ insts \in [DOMAIN insts -> 1 .. MaxBirths]
        /\ \A p \in DOMAIN insts : insts[p] <= proc[p].inc
    BY DEF Instances, Partial
  <1>2. \A p \in DOMAIN insts : NewBinding(insts[p]) \in Binding /\ NewBinding(insts[p]).inc = insts[p]
    BY <1>1, ConstantsAssumption DEF NewBinding, Binding, Incarnations
  <1>3. BornIn(BindInstances(old, insts), proc) BY <1>1, <1>2 DEF BindInstances, BornIn
  <1>. QED BY <1>1, <1>2, <1>3 DEF BindInstances, Bindings

LEMMA EmptyBindings == Bindings(<< >>)
  BY DEF Bindings

BoundTo(tg, insts) == [tg EXCEPT !.bind = BindInstances(tg.bind, insts), !.active = (DOMAIN insts # {})]

LEMMA BoundOK ==
  ASSUME KernelOK, NEW tg, Target(tg), NEW insts \in Instances(proc)
  PROVE  /\ Target(BoundTo(tg, insts)) /\ BoundTo(tg, insts).nice = tg.nice
         /\ BoundTo(tg, insts).bind = BindInstances(tg.bind, insts)
         /\ BornIn(BoundTo(tg, insts).bind, proc)
  <1>1. Bindings(BindInstances(tg.bind, insts)) /\ BornIn(BindInstances(tg.bind, insts), proc)
    BY BindInstancesOK DEF Target
  <1>. QED BY <1>1 DEF BoundTo, Target

ManagedTargets(m, t, mode, insts) ==
  [u \in DOMAIN m \cup {t} |->
     IF u = t THEN BoundTo(IF t \in DOMAIN m THEN [m[t] EXCEPT !.mode = mode] ELSE NewTarget(mode),
                           insts)
     ELSE m[u]]

LEMMA ManagedOK ==
  ASSUME KernelOK, NEW m, TargetsOK(m), NEW t \in Targets, NEW mode \in Modes,
         NEW insts \in Instances(proc), NEW m2, m2 = ManagedTargets(m, t, mode, insts)
  PROVE  /\ TargetsOK(m2) /\ Replaces(m, t, m2) /\ BornIn(m2[t].bind, proc)
         /\ t \in DOMAIN m => /\ m2[t].nice = m[t].nice
                              /\ m2[t].bind = BindInstances(m[t].bind, insts)
  <1>. DEFINE tg == IF t \in DOMAIN m THEN [m[t] EXCEPT !.mode = mode] ELSE NewTarget(mode)
  <1>1. Target(tg)
    <2>1. Target(NewTarget(mode)) BY DEF NewTarget, Target, Bindings, DriftModes
    <2>2. t \in DOMAIN m => Target([m[t] EXCEPT !.mode = mode]) BY DEF TargetsOK, Target
    <2>. QED BY <2>1, <2>2
  <1>2. t \in DOMAIN m => tg.nice = m[t].nice /\ tg.bind = m[t].bind BY DEF TargetsOK, Target
  <1>3. /\ DOMAIN m2 = DOMAIN m \cup {t} /\ m2[t] = BoundTo(tg, insts)
        /\ \A u \in DOMAIN m \ {t} : m2[u] = m[u]
        /\ m2 = [u \in DOMAIN m2 |-> m2[u]]
    <2>. HIDE DEF tg
    <2>1. m2 = [u \in DOMAIN m \cup {t} |-> IF u = t THEN BoundTo(tg, insts) ELSE m[u]]
      BY DEF ManagedTargets, tg
    <2>. QED BY <2>1
  <1>. HIDE DEF tg
  <1>. QED BY <1>1, <1>2, <1>3, BoundOK DEF TargetsOK, Replaces

\* A binding that has an original, and is not new, is the one there was.
LEMMA ReboundIsOld ==
  ASSUME NEW old, NEW insts, NEW b, b = BindInstances(old, insts), NEW p \in DOMAIN b
  PROVE  /\ b[p].inc = insts[p] /\ p \in DOMAIN insts
         /\ p \in DOMAIN old /\ old[p].inc = b[p].inc => b[p] = old[p]
         /\ b[p].orig # None => p \in DOMAIN old /\ b[p] = old[p]
  <1>1. /\ p \in DOMAIN insts
        /\ b[p] = IF p \in DOMAIN old /\ old[p].inc = insts[p] THEN old[p] ELSE NewBinding(insts[p])
    BY DEF BindInstances
  <1>2. NewBinding(insts[p]).inc = insts[p] /\ NewBinding(insts[p]).orig = None
    BY DEF NewBinding
  <1>. QED BY <1>1, <1>2

\* Re-binding captures nothing.
LEMMA ManagedTransfers ==
  ASSUME KernelOK, NEW m, TargetsOK(m), NEW t \in Targets, NEW mode \in Modes,
         NEW insts \in Instances(proc), NEW m2, m2 = ManagedTargets(m, t, mode, insts),
         NEW l, OnlyReniced({}, proc, l)
  PROVE  /\ Transfers(m, m2, proc, l)
         /\ \A p : HeldIn(m2, t, p, proc) => HeldIn(m, t, p, proc)
  <1>. DEFINE old == IF t \in DOMAIN m THEN m[t].bind ELSE << >>
  <1>1. Replaces(m, t, m2) /\ BornIn(m2[t].bind, proc) BY ManagedOK
  <1>2. m2[t].bind = BindInstances(old, insts)
    <2>1. CASE t \in DOMAIN m BY <2>1, ManagedOK
    <2>2. CASE t \notin DOMAIN m
      <3>1. m2[t] = BoundTo(NewTarget(mode), insts) BY <2>2 DEF ManagedTargets
      <3>. QED BY <2>2, <3>1 DEF BoundTo, NewTarget
    <2>. QED BY <2>1, <2>2
  <1>3. \A p \in DOMAIN m2[t].bind :
          /\ HeldIn(m2, t, p, proc) => HeldIn(m, t, p, proc) /\ m2[t].bind[p] = m[t].bind[p]
          /\ HeldIn(m, t, p, proc) /\ BoundIn(m2, t, p, proc) => HeldIn(m2, t, p, proc)
    <2>. DEFINE b == m2[t].bind
    <2>1. ASSUME NEW p \in DOMAIN b
          PROVE  /\ p \in DOMAIN old /\ old[p].inc = b[p].inc => b[p] = old[p]
                 /\ b[p].orig # None => p \in DOMAIN old /\ b[p] = old[p]
      <3>. HIDE DEF old, b
      <3>. QED BY <1>2, <2>1, ReboundIsOld DEF b
    <2>2. \A p \in DOMAIN old : t \in DOMAIN m OBVIOUS
    <2>. QED BY <2>1, <2>2 DEF HeldIn, BoundIn
  <1>4. \A p : HeldIn(m2, t, p, proc) => HeldIn(m, t, p, proc) BY <1>3 DEF HeldIn, BoundIn
  <1>. QED BY <1>1, <1>3, <1>4, OneTransfers DEF BornIn, OnlyReniced

LEMMA DBound == \A tg, insts : D!Bound(tg, insts) = BoundTo(tg, insts)
  BY DEF D!Bound, D!BindInstances, D!NewBinding, BoundTo, BindInstances, NewBinding

LEMMA CBound == \A tg, insts : C!Bound(tg, insts) = BoundTo(tg, insts)
  BY DEF C!Bound, C!BindInstances, C!NewBinding, BoundTo, BindInstances, NewBinding

LEMMA DManage ==
  ASSUME NEW t, NEW mode, NEW insts, D!Manage(t, mode, insts)
  PROVE  UNCHANGED proc /\ dmem' = ManagedTargets(dmem, t, mode, insts)
  BY DBound DEF D!Manage, D!NewTarget, NewTarget, ManagedTargets

LEMMA CManage ==
  ASSUME NEW t, NEW mode, NEW insts, C!Manage(t, mode, insts)
  PROVE  UNCHANGED proc /\ cmem' = ManagedTargets(cmem, t, mode, insts)
  BY CBound DEF C!Manage, C!NewTarget, NewTarget, ManagedTargets

Without(m, t) == Restrict(m, DOMAIN m \ {t})

LEMMA WithoutOK ==
  ASSUME NEW m, TargetsOK(m), NEW t, NEW m2, m2 = Without(m, t)
  PROVE  TargetsOK(m2) /\ DOMAIN m2 = DOMAIN m \ {t} /\ \A u \in DOMAIN m2 : m2[u] = m[u]
  BY DEF Without, Restrict, TargetsOK

LEMMA DUnmanage ==
  ASSUME NEW t, D!Unmanage(t)
  PROVE  UNCHANGED proc /\ t \in DOMAIN dmem /\ dmem' = Without(dmem, t)
  BY DEF D!Unmanage, D!Restrict, Restrict, Without

LEMMA CUnmanage ==
  ASSUME NEW t, C!Unmanage(t)
  PROVE  UNCHANGED proc /\ t \in DOMAIN cmem /\ cmem' = Without(cmem, t)
  BY DEF C!Unmanage, C!Restrict, Restrict, Without

LEMMA SameTransfers ==
  ASSUME NEW m, NEW l, OnlyReniced({}, proc, l)
  PROVE  Transfers(m, m, proc, l)
  BY NoneTransferred DEF OnlyReniced

LEMMA WithoutTransfers ==
  ASSUME NEW m, TargetsOK(m), NEW t, NEW m2, m2 = Without(m, t), NEW l, OnlyReniced({}, proc, l)
  PROVE  Transfers(m, m2, proc, l)
  <1>1. DOMAIN m2 = DOMAIN m \ {t} /\ \A u \in DOMAIN m2 : m2[u] = m[u]
    BY DEF Without, Restrict, TargetsOK
  <1>2. \A p \in Pids : l[p].nice = proc[p].nice BY DEF OnlyReniced
  <1>3. \A u \in DOMAIN m2 : m2[u].bind = IF u \in DOMAIN m THEN m[u].bind ELSE << >> BY <1>1
  <1>. QED BY <1>2, <1>3, NoneTransferred

\* A tick acts on a config target.
LEMMA DReconcile ==
  ASSUME KernelOK, TargetsOK(dmem), NEW t, NEW insts \in Instances(proc), NEW denied,
         D!ReconcileTarget(t, insts, denied)
  PROVE  /\ SameProcesses /\ t \in DOMAIN dmem /\ Origin(t) = "config"
         /\ TargetsOK(dmem') /\ Replaces(dmem, t, dmem')
         /\ Transfers(dmem, dmem', proc, proc')
  <1>. DEFINE tg == D!Bound(dmem[t], insts)
              n == tg.nice
              b == tg.bind
              fresh == {p \in DOMAIN b : /\ n # None /\ b[p].orig = None
                                         /\ D!NiceAllowed(p, b[p], proc[p])}
              off == {p \in DOMAIN b : /\ n # None /\ b[p].orig # None
                                       /\ D!OffTarget(b[p], proc[p], n)}
              again == IF tg.drift = "reapply" THEN off \ denied ELSE {}
              next(q) == CASE q \in fresh -> D!Captured(b[q], proc[q], n)
                           [] q \in again -> D!Reapplied(b[q], n)
                           [] q \in off /\ tg.drift = "adopt" -> D!Adopted(b[q], proc[q])
                           [] OTHER -> b[q]
              new == [p \in DOMAIN b |-> next(p)]
              written == (fresh \ denied) \cup again
  <1>1. /\ t \in DOMAIN dmem /\ Origin(t) = "config"
        /\ dmem' = [dmem EXCEPT ![t] = [tg EXCEPT !.bind = new]]
        /\ proc' = D!Reniced(written, n)
    BY DEF D!ReconcileTarget, D!Origin, Origin
  <1>2. Target(tg) BY <1>1, DBound, BoundOK DEF TargetsOK
  <1>3. n \in Nices \cup {None} /\ DOMAIN b \subseteq Pids /\ b \in [DOMAIN b -> Binding]
    <2>. HIDE DEF tg
    <2>. QED BY <1>2 DEF Target, Bindings
  <1>4. \A q \in fresh \cup off : n \in Nices /\ q \in DOMAIN b
    <2>. HIDE DEF tg
    <2>. QED BY <1>3
  <1>4a. b = BindInstances(dmem[t].bind, insts) /\ BornIn(b, proc)
    BY <1>1, DBound, BoundOK DEF TargetsOK
  <1>. HIDE DEF tg
  <1>5. ASSUME NEW q \in DOMAIN b PROVE next(q) \in Binding
    <2>1. b[q] \in Binding /\ proc[q] \in Process BY <1>3 DEF KernelOK
    <2>2. CASE q \in fresh BY <2>1, <2>2, <1>4, CapturedType, DCaptured
    <2>3. CASE q \notin fresh /\ q \in off
      BY <2>1, <2>3, <1>4 DEF Binding, Process, D!Reapplied, D!Adopted
    <2>4. CASE q \notin fresh /\ q \notin off BY <2>1, <2>4
    <2>. QED BY <2>2, <2>3, <2>4
  <1>6. new \in [DOMAIN b -> Binding]
    <2>. HIDE DEF next
    <2>. QED BY <1>5
  <1>7. Target([tg EXCEPT !.bind = new])
    <2>. HIDE DEF new
    <2>. QED BY <1>2, <1>3, <1>6 DEF Target, Bindings
  <1>8. TargetsOK(dmem') /\ Replaces(dmem, t, dmem')
    <2>. HIDE DEF new
    <2>. QED BY <1>1, <1>7 DEF TargetsOK, Replaces
  <1>9. SameProcesses
    <2>1. CASE written = {} BY <2>1, <1>1 DEF D!Reniced, SameProcesses, KernelOK
    <2>2. CASE written # {}
      <3>1. n \in Nices BY <2>2, <1>4
      <3>. HIDE DEF written, n
      <3>. QED BY <1>1, <3>1 DEF D!Reniced, SameProcesses, KernelOK, Process
    <2>. QED BY <2>1, <2>2
  <1>11. t \in DOMAIN dmem' /\ dmem'[t].bind = new
    <2>. HIDE DEF new
    <2>. QED BY <1>1, <1>2 DEF Target, TargetsOK
  <1>12. OnlyReniced(written, proc, proc')
    <2>. HIDE DEF written, n
    <2>. QED BY <1>1 DEF D!Reniced, OnlyReniced
  <1>13. ASSUME NEW q \in DOMAIN b
         PROVE  /\ new[q].inc = b[q].inc
                /\ q \in fresh => /\ new[q].orig = proc[q].nice /\ proc[q].nice # None
                                  /\ b[q].orig = None /\ b[q].inc = proc[q].inc
                /\ q \notin fresh => new[q].orig = b[q].orig
                /\ q \in again => b[q].inc = proc[q].inc /\ b[q].orig # None
    <2>1. b[q] \in Binding /\ proc[q] \in Process BY <1>3 DEF KernelOK
    <2>2. proc[q].nice # None BY <2>1, ConstantsAssumption DEF Process
    <2>3. CASE q \in fresh
      <3>1. b[q].orig = None /\ b[q].inc = proc[q].inc /\ q \notin off
        BY <2>3 DEF D!NiceAllowed, D!Revalidate
      <3>2. new[q] = Captured(b[q], proc[q], n) BY <2>3, DCaptured
      <3>3. Captured(b[q], proc[q], n).inc = b[q].inc
            /\ Captured(b[q], proc[q], n).orig = proc[q].nice
        BY <2>1, <3>1 DEF Captured, Binding
      <3>. HIDE DEF new, fresh, off, n, b
      <3>. QED BY <2>2, <2>3, <3>1, <3>2, <3>3 DEF again
    <2>4. CASE q \notin fresh /\ q \in off
      <3>1. b[q].orig # None /\ b[q].inc = proc[q].inc
        BY <2>4 DEF D!OffTarget, D!Revalidate
      <3>2. new[q].inc = b[q].inc /\ new[q].orig = b[q].orig
        BY <2>1, <2>4 DEF D!Reapplied, D!Adopted, Binding
      <3>. QED BY <2>4, <3>1, <3>2
    <2>5. CASE q \notin fresh /\ q \notin off BY <2>5
    <2>. QED BY <2>3, <2>4, <2>5
  <1>14. DOMAIN new = DOMAIN b /\ written \subseteq DOMAIN b OBVIOUS
  <1>15. \A q \in written : q \in fresh \/ q \in again OBVIOUS
  <1>. DEFINE old == dmem[t].bind
  <1>16. ASSUME NEW q \in DOMAIN b
         PROVE  /\ q \in DOMAIN old /\ old[q].inc = b[q].inc => b[q] = old[q]
                /\ b[q].orig # None => q \in DOMAIN old /\ b[q] = old[q]
    <2>. HIDE DEF b
    <2>. QED BY <1>4a, <1>16, ReboundIsOld
  <1>. HIDE DEF new, b, fresh, again, written, n
  <1>17. \A q \in DOMAIN b :
           /\ HeldIn(dmem, t, q, proc) <=>
                q \in DOMAIN old /\ old[q].inc = proc[q].inc /\ old[q].orig # None
           /\ HeldIn(dmem', t, q, proc) <=> new[q].inc = proc[q].inc /\ new[q].orig # None
           /\ BoundIn(dmem', t, q, proc) <=> new[q].inc = proc[q].inc
    BY <1>1, <1>11, <1>14 DEF HeldIn, BoundIn
  <1>18. \A q \in DOMAIN b :
           /\ HeldIn(dmem', t, q, proc) =>
                new[q].orig = IF HeldIn(dmem, t, q, proc) THEN old[q].orig ELSE proc[q].nice
           /\ HeldIn(dmem, t, q, proc) /\ BoundIn(dmem', t, q, proc) => HeldIn(dmem', t, q, proc)
    BY <1>13, <1>16, <1>17
  <1>19. \A q \in written : HeldIn(dmem', t, q, proc) BY <1>13, <1>14, <1>15, <1>17
  <1>20. \A q \in DOMAIN b : new[q].inc <= proc[q].inc BY <1>4a, <1>13 DEF BornIn
  <1>21. Transfers(dmem, dmem', proc, proc')
    BY <1>8, <1>11, <1>12, <1>14, <1>18, <1>19, <1>20, OneTransfers DEF OnlyReniced
  <1>. QED BY <1>1, <1>8, <1>9, <1>21

\* Installing a config rebuilds the config targets and leaves the runtime ones alone.
LEMMA DPolicies ==
  ASSUME NEW m, TargetsOK(m), NEW specs \in PolicySets, NEW m2, m2 = D!PoliciesInstalled(m, specs)
  PROVE  /\ TargetsOK(m2)
         /\ \A t \in DOMAIN m : Origin(t) = "runtime" => t \in DOMAIN m2 /\ m2[t] = m[t]
         /\ \A t \in DOMAIN m2 : Origin(t) = "runtime" => t \in DOMAIN m
         /\ \A t \in DOMAIN m2 : m2[t].bind = IF t \in DOMAIN m THEN m[t].bind ELSE << >>
  <1>. DEFINE ids == {u \in DOMAIN m : Origin(u) = "runtime"} \cup ({"config"} \X DOMAIN specs)
              rule(t) == [NewTarget("follow") EXCEPT
                            !.nice = specs[NameOf(t)].nice, !.stop = specs[NameOf(t)].stop,
                            !.drift = specs[NameOf(t)].drift,
                            !.bind = IF t \in DOMAIN m THEN m[t].bind ELSE << >>]
  <1>1. DOMAIN specs \subseteq Names /\ specs \in [DOMAIN specs -> PolicySpec]
    BY SessionAssumption DEF Partial
  <1>2. ids \subseteq Targets BY <1>1 DEF Targets, Origins, TargetsOK
  <1>3. ASSUME NEW t \in ids, Origin(t) # "runtime" PROVE Target(rule(t))
    <2>1. specs[NameOf(t)] \in PolicySpec BY <1>1, <1>3 DEF Origin, NameOf
    <2>2. Bindings(IF t \in DOMAIN m THEN m[t].bind ELSE << >>)
      BY EmptyBindings DEF Target, TargetsOK
    <2>. QED BY <2>1, <2>2 DEF Target, NewTarget, PolicySpec, Modes
  <1>4. m2 = [t \in ids |-> IF Origin(t) = "runtime" THEN m[t] ELSE rule(t)]
    BY DEF D!PoliciesInstalled, D!Origin, Origin, D!NewTarget, NewTarget, D!NameOf, NameOf
  <1>5. \A t \in ids : Origin(t) = "runtime" => t \in DOMAIN m BY DEF Origin
  <1>6. \A t \in DOMAIN m : Origin(t) = "runtime" => t \in ids OBVIOUS
  <1>7. \A t \in ids : rule(t).bind = IF t \in DOMAIN m THEN m[t].bind ELSE << >>
    BY DEF NewTarget
  <1>. HIDE DEF rule, ids
  <1>. QED BY <1>2, <1>3, <1>4, <1>5, <1>6, <1>7 DEF TargetsOK

(***************************************************************************)
(* The types.                                                              *)
(***************************************************************************)
JobOK(j) ==
  /\ j \in [pc : {"idle", "op", "marshal", "write"}, req : Requests \cup {None},
            on : Targets \cup {None}, buf : {j.buf}]
  /\ TargetsOK(j.buf)
  /\ j.pc = "op" => j.req \in Requests

CommandOK(c) ==
  /\ c \in [pc : {"idle", "bind", "op", "save"}, req : Commands \cup {None},
            on : Targets \cup {None}]
  /\ c.pc # "idle" => c.req \in Commands

WellTyped ==
  /\ KernelOK
  /\ up \in BOOLEAN /\ ended \in BOOLEAN /\ todo \subseteq Targets
  /\ TargetsOK(dmem) /\ TargetsOK(cmem) /\ TargetsOK(Loaded(file))
  /\ latest \in Instances(proc)
  /\ DOMAIN job = Savers /\ job = [s \in Savers |-> job[s]] /\ \A s \in Savers : JobOK(job[s])
  /\ CommandOK(cli)
  /\ left \in [Kinds -> Nat]

LEMMA NoTargets == TargetsOK(<< >>)
  BY DEF TargetsOK

LEMMA LoadedBack == \A m : TargetsOK(m) => Loaded(m) = m
  BY NoneIsNoState DEF Loaded

LEMMA NoJobOK == JobOK(NoJob) /\ NoJob.pc = "idle"
  BY NoTargets DEF NoJob, JobOK

LEMMA SpendOK ==
  ASSUME left \in [Kinds -> Nat], NEW kind \in Kinds, Spend(kind)
  PROVE  /\ left' \in [Kinds -> Nat] /\ left[kind] > 0
         /\ \A k \in Kinds : left[k] = 0 => left'[k] = 0
  BY DEF Spend

LEMMA EmptyInstances == \A k : << >> \in Instances(k)
  <1>1. << >> \in [{} -> 1 .. MaxBirths] /\ DOMAIN << >> = {} OBVIOUS
  <1>. QED BY <1>1 DEF Instances, Partial

LEMMA InstancesType ==
  ASSUME NEW k, NEW insts \in Instances(k)
  PROVE  /\ DOMAIN insts \subseteq Pids /\ insts \in [DOMAIN insts -> 1 .. MaxBirths]
         /\ \A p \in DOMAIN insts : insts[p] <= k[p].inc
  BY DEF Instances, Partial

LEMMA LaterInstances ==
  ASSUME NEW k, NEW l, NEW insts \in Instances(k),
         \A p \in Pids : k[p].inc \in Nat /\ l[p].inc \in Nat /\ l[p].inc >= k[p].inc
  PROVE  insts \in Instances(l)
  <1>1. /\ DOMAIN insts \subseteq Pids /\ insts \in [DOMAIN insts -> 1 .. MaxBirths]
        /\ \A p \in DOMAIN insts : insts[p] <= k[p].inc /\ insts[p] \in Nat
    BY InstancesType, ConstantsAssumption
  <1>2. \A p \in DOMAIN insts : insts[p] <= l[p].inc BY <1>1
  <1>. QED BY <1>1, <1>2 DEF Instances, Partial

LEMMA SameInstances ==
  ASSUME SameProcesses \/ UNCHANGED proc, NEW insts \in Instances(proc)
  PROVE  insts \in Instances(proc')
  <1>1. DOMAIN insts \subseteq Pids BY DEF Instances, Partial
  <1>. QED BY <1>1 DEF Instances, SameProcesses

LEMMA SameKernel ==
  ASSUME KernelOK, SameProcesses \/ UNCHANGED proc PROVE KernelOK'
  BY DEF KernelOK, SameProcesses

\* The processes alive, or some of them, are instances to bind.
LEMMA LiveInstances ==
  ASSUME KernelOK, NEW S \in SUBSET DOMAIN Live
  PROVE  Restrict(Live, S) \in Instances(proc) /\ Live \in Instances(proc)
  <1>1. /\ DOMAIN Live \subseteq Pids
        /\ \A p \in DOMAIN Live : Live[p] = proc[p].inc /\ proc[p].inc \in 1 .. MaxBirths
    BY ConstantsAssumption DEF Live, KernelOK, Process, Incarnations
  <1>2. ASSUME NEW f, DOMAIN f \subseteq DOMAIN Live, f = [p \in DOMAIN f |-> f[p]],
               \A p \in DOMAIN f : f[p] = Live[p]
        PROVE  f \in Instances(proc)
    <2>1. f \in [DOMAIN f -> 1 .. MaxBirths] BY <1>1, <1>2
    <2>2. \A p \in DOMAIN f : f[p] <= proc[p].inc BY <1>1, <1>2, ConstantsAssumption
    <2>. QED BY <1>1, <1>2, <2>1, <2>2 DEF Instances, Partial
  <1>3. Live \in Instances(proc)
    <2>1. Live = [p \in DOMAIN Live |-> Live[p]] BY DEF Live
    <2>. QED BY <1>2, <2>1
  <1>4. Restrict(Live, S) \in Instances(proc)
    <2>. DEFINE f == Restrict(Live, S)
    <2>1. /\ DOMAIN f \subseteq DOMAIN Live /\ f = [p \in DOMAIN f |-> f[p]]
          /\ \A p \in DOMAIN f : f[p] = Live[p]
      BY DEF Restrict
    <2>2. f \in Instances(proc)
      <3>. HIDE DEF f
      <3>. QED BY <1>2, <2>1
    <2>. QED BY <2>2
  <1>. QED BY <1>3, <1>4

LEMMA SpecsBound ==
  ASSUME NEW b \in Bounds PROVE b \in [Kinds -> Nat]
  BY BoundsAssumption

LEMMA TypesInit == Init => WellTyped
  <1>. SUFFICES ASSUME Init PROVE WellTyped OBVIOUS
  <1>1. KernelOK BY DEF Init, D!Init, KernelOK, D!Process, Process, D!Incarnations, Incarnations,
                        D!StopStates, StopStates
  <1>2. dmem = << >> /\ cmem = << >> /\ Loaded(file) = << >>
    BY SessionAssumption DEF Init, D!Init, Loaded
  <1>3. CommandOK(cli) BY DEF Init, NoCommand, CommandOK
  <1>. QED BY <1>1, <1>2, <1>3, NoTargets, NoJobOK, EmptyInstances, SpecsBound
           DEF Init, WellTyped

JobsOK == DOMAIN job = Savers /\ job = [s \in Savers |-> job[s]] /\ \A s \in Savers : JobOK(job[s])

LEMMA JobReplaced ==
  ASSUME JobsOK, NEW s, NEW j, JobOK(j), job' = [job EXCEPT ![s] = j]
  PROVE  JobsOK'
  <1>1. /\ DOMAIN job' = Savers /\ job' = [x \in Savers |-> job'[x]]
        /\ \A x \in Savers : job'[x] = IF x = s THEN j ELSE job[x]
    BY DEF JobsOK
  <1>2. \A x \in Savers : JobOK(job'[x]) BY <1>1 DEF JobsOK
  <1>. QED BY <1>1, <1>2 DEF JobsOK, JobOK, TargetsOK

LEMMA JobsEnded ==
  ASSUME job' = [s \in Savers |-> NoJob] PROVE JobsOK'
  BY NoJobOK DEF JobsOK, JobOK, TargetsOK

LEMMA FindTyped ==
  \A m : \A name \in Names : Find(m, name) \in Targets
  BY DEF Find, Targets, Origins

LEMMA KernelStepTypes ==
  ASSUME WellTyped, KernelStep PROVE WellTyped' /\ TimePasses
  <1>1. KernelOK' /\ latest \in Instances(proc') /\ TimePasses
    <2>1. PICK p \in Pids :
            \/ D!Exit(p)
            \/ \E n \in OutsideNices, c \in Cgroups : D!Spawn(p, n, c)
            \/ \E n \in OutsideNices : D!OutsideRenice(p, n)
      BY DEF KernelStep
    <2>2. KernelOK /\ latest \in Instances(proc) BY DEF WellTyped
    <2>3. \A q \in Pids : proc[q] \in Process /\ proc[q].inc \in Nat
      BY <2>2, ConstantsAssumption DEF KernelOK, Process, Incarnations
    <2>4. PICK k \in Process : /\ proc' = [proc EXCEPT ![p] = k]
                               /\ k.inc >= proc[p].inc /\ (k.alive => k.inc >= 1)
                               /\ k.alive /\ k.inc = proc[p].inc => proc[p].alive
      <3>1. CASE D!Exit(p)
        <4>. DEFINE k == [proc[p] EXCEPT !.alive = FALSE]
        <4>1. proc' = [proc EXCEPT ![p] = k] BY <3>1 DEF D!Exit
        <4>2. k \in Process /\ k.inc = proc[p].inc /\ ~k.alive BY <2>3 DEF Process
        <4>. HIDE DEF k
        <4>3. k.inc >= proc[p].inc BY <2>3, <4>2
        <4>. QED BY <4>1, <4>2, <4>3
      <3>2. CASE \E n \in OutsideNices, c \in Cgroups : D!Spawn(p, n, c)
        <4>1. PICK n \in OutsideNices, c \in Cgroups : D!Spawn(p, n, c) BY <3>2
        <4>. DEFINE k == [alive |-> TRUE, inc |-> proc[p].inc + 1, nice |-> n,
                          stop |-> "running", cg |-> c]
        <4>2. proc' = [proc EXCEPT ![p] = k] /\ proc[p].inc < MaxBirths BY <4>1 DEF D!Spawn
        <4>3. k \in Process /\ k.inc >= proc[p].inc /\ k.inc >= 1 /\ k.inc # proc[p].inc
          BY <2>3, <4>2, ConstantsAssumption, SessionAssumption DEF Process, Incarnations, StopStates
        <4>4. /\ k.inc >= proc[p].inc /\ (k.alive => k.inc >= 1)
              /\ k.alive /\ k.inc = proc[p].inc => proc[p].alive
          BY <4>3
        <4>5. k \in Process /\ proc' = [proc EXCEPT ![p] = k] BY <4>2, <4>3
        <4>. HIDE DEF k
        <4>. QED BY <4>4, <4>5
      <3>3. CASE \E n \in OutsideNices : D!OutsideRenice(p, n)
        <4>1. PICK n \in OutsideNices : D!OutsideRenice(p, n) BY <3>3
        <4>. DEFINE k == [proc[p] EXCEPT !.nice = n]
        <4>2. proc' = [proc EXCEPT ![p] = k] BY <4>1 DEF D!OutsideRenice
        <4>3. k \in Process /\ k.inc = proc[p].inc /\ k.alive = proc[p].alive
          BY <2>2, <2>3, SessionAssumption DEF Process, KernelOK
        <4>4. k.inc >= proc[p].inc /\ (k.alive => k.inc >= 1) BY <2>2, <2>3, <4>3 DEF KernelOK
        <4>. HIDE DEF k
        <4>. QED BY <4>2, <4>3, <4>4
      <3>. QED BY <2>1, <3>1, <3>2, <3>3
    <2>5. KernelOK' BY <2>2, <2>4 DEF KernelOK
    <2>6. \A q \in Pids : proc'[q].inc \in Nat /\ proc'[q].inc >= proc[q].inc
      <3>1. k.inc \in Nat BY ConstantsAssumption DEF Process, Incarnations
      <3>. QED BY <2>2, <2>3, <2>4, <3>1 DEF KernelOK
    <2>7. TimePasses BY <2>2, <2>3, <2>4, <2>6 DEF TimePasses, KernelOK
    <2>. QED BY <2>2, <2>3, <2>5, <2>6, <2>7, LaterInstances
  <1>2. Spend("kernel") /\ UNCHANGED <<daemon, command, file>> BY DEF KernelStep
  <1>3. left' \in [Kinds -> Nat] BY <1>2, SpendOK DEF WellTyped, Kinds
  <1>. QED BY <1>1, <1>2, <1>3 DEF WellTyped, daemon, command, JobOK, TargetsOK

LEMMA LifeTypes ==
  ASSUME WellTyped, Start \/ Kill \/ Stop \/ TickError PROVE WellTyped'
  <1>. USE DEF WellTyped
  <1>0. KernelOK' /\ latest \in Instances(proc') /\ Loaded(file') = Loaded(file) /\ cmem' = cmem
        /\ cli' = cli
    <2>1. UNCHANGED <<kernel, command, file>> BY DEF Start, Kill, Stop, TickError
    <2>. QED BY <2>1, SameKernel, SameInstances DEF kernel, command
  <1>1. left' \in [Kinds -> Nat]
    BY SpendOK DEF Start, Kill, Stop, TickError, Kinds
  <1>2. CASE Start
    <2>1. TargetsOK(dmem')
      <3>1. CASE dmem' = Loaded(file) BY <3>1
      <3>2. CASE \E specs \in PolicySets : dmem' = D!PoliciesInstalled(Loaded(file), specs)
        BY <3>2, DPolicies
      <3>. QED BY <1>2, <3>1, <3>2 DEF Start
    <2>2. UNCHANGED <<latest, todo, ended, job>> /\ up' = TRUE BY <1>2 DEF Start
    <2>. QED BY <1>0, <1>1, <2>1, <2>2 DEF JobOK, TargetsOK
  <1>3. CASE Kill
    <2>1. Gone BY <1>3 DEF Kill
    <2>2. JobsOK' BY <2>1, JobsEnded DEF Gone
    <2>3. << >> \in Instances(proc') BY EmptyInstances
    <2>. QED BY <1>0, <1>1, <2>1, <2>2, <2>3, NoTargets DEF Gone, JobsOK, TargetsOK
  <1>4. CASE Stop
    <2>1. JobOK([job["exit"] EXCEPT !.pc = "marshal"])
      BY DEF Savers, JobOK
    <2>2. JobsOK' BY <1>4, <2>1, JobReplaced DEF Stop, JobsOK
    <2>3. UNCHANGED <<up, dmem, latest, todo, ended>> BY <1>4 DEF Stop
    <2>. QED BY <1>0, <1>1, <2>2, <2>3 DEF JobsOK, TargetsOK
  <1>5. CASE TickError
    <2>1. UNCHANGED <<up, dmem, latest, todo, job>> /\ ended' = TRUE BY <1>5 DEF TickError
    <2>. QED BY <1>0, <1>1, <2>1 DEF JobOK, TargetsOK
  <1>. QED BY <1>2, <1>3, <1>4, <1>5

LEMMA TickTypes ==
  ASSUME WellTyped, Sample \/ Reconcile \/ Reload
  PROVE  /\ WellTyped' /\ (SameProcesses \/ UNCHANGED proc) /\ SameRuntime(dmem', dmem)
         /\ Transfers(dmem, dmem', proc, proc')
  <1>. USE DEF WellTyped
  <1>1. CASE Sample
    <2>1. UNCHANGED <<kernel, up, dmem, ended, job, command, file, history, left>>
          /\ latest' \in Scanned /\ todo' = {t \in DOMAIN dmem : Origin(t) = "config"}
      BY <1>1 DEF Sample
    <2>2. latest' \in Instances(proc)
      <3>1. PICK S \in SUBSET DOMAIN Live : latest' = Restrict(Live, S)
        BY <2>1 DEF Scanned
      <3>. QED BY <3>1, LiveInstances
    <2>3. WellTyped'
      BY <2>1, <2>2 DEF kernel, command, KernelOK, JobOK, TargetsOK, CommandOK
    <2>4. Transfers(dmem, dmem', proc, proc') BY <2>1, SameTransfers DEF kernel, OnlyReniced
    <2>. QED BY <2>1, <2>3, <2>4 DEF kernel, SameRuntime
  <1>2. CASE Reconcile
    <2>1. PICK t \in todo :
            /\ todo' = todo \ {t}
            /\ IF t \in DOMAIN dmem
               THEN \E denied \in Denials : D!ReconcileTarget(t, latest, denied)
               ELSE UNCHANGED <<kernel, dmem>>
      BY <1>2 DEF Reconcile
    <2>2. UNCHANGED <<up, latest, ended, job, command, file, acked, left>>
      BY <1>2 DEF Reconcile
    <2>3. /\ (SameProcesses \/ UNCHANGED proc) /\ TargetsOK(dmem') /\ SameRuntime(dmem', dmem)
          /\ Transfers(dmem, dmem', proc, proc')
      <3>1. CASE t \in DOMAIN dmem BY <2>1, <3>1, DReconcile DEF Replaces, SameRuntime
      <3>2. CASE t \notin DOMAIN dmem BY <2>1, <3>2, SameTransfers DEF kernel, OnlyReniced, SameRuntime
      <3>. QED BY <3>1, <3>2
    <2>4. KernelOK' /\ latest \in Instances(proc') BY <2>3, SameKernel, SameInstances
    <2>5. WellTyped' BY <2>1, <2>2, <2>3, <2>4 DEF command, JobOK, TargetsOK, CommandOK
    <2>. QED BY <2>3, <2>5
  <1>3. CASE Reload
    <2>1. PICK specs \in PolicySets : D!SetPolicies(specs) BY <1>3 DEF Reload
    <2>2. /\ UNCHANGED <<up, latest, todo, ended, job, command, file, acked>> /\ Spend("reload")
          /\ UNCHANGED proc /\ dmem' = D!PoliciesInstalled(dmem, specs)
      BY <1>3, <2>1 DEF Reload, D!SetPolicies
    <2>3. TargetsOK(dmem') /\ left' \in [Kinds -> Nat] /\ SameRuntime(dmem', dmem)
      <3>1. TargetsOK(dmem) /\ left \in [Kinds -> Nat] BY DEF WellTyped
      <3>2. left' \in [Kinds -> Nat] BY <2>2, <3>1, SpendOK DEF Kinds
      <3>3. /\ TargetsOK(dmem')
            /\ \A t \in DOMAIN dmem : Origin(t) = "runtime" => t \in DOMAIN dmem' /\ dmem'[t] = dmem[t]
            /\ \A t \in DOMAIN dmem' : Origin(t) = "runtime" => t \in DOMAIN dmem
        BY <2>1, <2>2, <3>1, DPolicies
      <3>4. SameRuntime(dmem', dmem) BY <3>3 DEF SameRuntime
      <3>. QED BY <3>2, <3>3, <3>4
    <2>4. WellTyped'
      <3>1. KernelOK' /\ latest' \in Instances(proc') BY <2>2 DEF KernelOK
      <3>2. JobsOK' BY <2>2 DEF JobsOK, JobOK, TargetsOK
      <3>3. CommandOK(cli)' /\ TargetsOK(cmem)' BY <2>2 DEF command, CommandOK, TargetsOK
      <3>4. TargetsOK(Loaded(file))' BY <2>2 DEF TargetsOK
      <3>. QED BY <2>2, <2>3, <3>1, <3>2, <3>3, <3>4 DEF command, JobsOK, JobOK, TargetsOK, CommandOK
    <2>5. Transfers(dmem, dmem', proc, proc')
      <3>1. \A t \in DOMAIN dmem' :
              dmem'[t].bind = IF t \in DOMAIN dmem THEN dmem[t].bind ELSE << >>
        BY <2>2, DPolicies
      <3>. QED BY <2>2, <3>1, NoneTransferred
    <2>. QED BY <2>2, <2>3, <2>4, <2>5
  <1>. QED BY <1>1, <1>2, <1>3

\* What an operation does to a manager's targets, at most one target's record aside.
LEMMA ReceiveTypes ==
  ASSUME WellTyped, NEW h \in Handlers, NEW r \in Requests, Receive(h, r)
  PROVE  /\ WellTyped' /\ UNCHANGED proc
         /\ Transfers(dmem, dmem', proc, proc')
         /\ \A t \in DOMAIN dmem' : \A p : HeldIn(dmem', t, p, proc) => HeldIn(dmem, t, p, proc)
         /\ \/ dmem' = dmem
            \/ LET t == <<"runtime", r.name>>
               IN  ~Known(dmem, r.name) /\ Replaces(dmem, t, dmem') /\ BornIn(dmem'[t].bind, proc)
  <1>. USE DEF WellTyped
  <1>. DEFINE t == <<"runtime", r.name>>
  <1>1. /\ UNCHANGED <<up, latest, todo, ended, command, file, history>> /\ Spend("request")
        /\ job' = [job EXCEPT ![h] = [NoJob EXCEPT !.pc = "op", !.req = r]]
    BY DEF Receive
  <1>2. t \in Targets BY SessionAssumption DEF Targets, Origins, Request
  <1>3. /\ UNCHANGED proc /\ TargetsOK(dmem')
        /\ Transfers(dmem, dmem', proc, proc')
        /\ \A u \in DOMAIN dmem' : \A p : HeldIn(dmem', u, p, proc) => HeldIn(dmem, u, p, proc)
        /\ \/ dmem' = dmem
           \/ ~Known(dmem, r.name) /\ Replaces(dmem, t, dmem') /\ BornIn(dmem'[t].bind, proc)
    <2>1. CASE r.op = "set-nice" /\ ~Known(dmem, r.name)
      <3>1. PICK mode \in Modes, insts \in Instances(proc) : D!Manage(t, mode, insts)
        <4>1. \/ D!Manage(t, "follow", latest)
              \/ \E p \in DOMAIN Live : D!Manage(t, "snapshot", Restrict(Live, {p}))
          BY <2>1 DEF Receive
        <4>2. \A p \in DOMAIN Live : Restrict(Live, {p}) \in Instances(proc)
          BY LiveInstances
        <4>. QED BY <4>1, <4>2 DEF Modes
      <3>2. UNCHANGED proc /\ dmem' = ManagedTargets(dmem, t, mode, insts) BY <3>1, DManage
      <3>3. TargetsOK(dmem') /\ Replaces(dmem, t, dmem') /\ BornIn(dmem'[t].bind, proc)
        BY <1>2, <3>2, ManagedOK
      <3>4. /\ Transfers(dmem, dmem', proc, proc')
            /\ \A p : HeldIn(dmem', t, p, proc) => HeldIn(dmem, t, p, proc)
        BY <1>2, <3>2, ManagedTransfers DEF OnlyReniced
      <3>. HIDE DEF t
      <3>5. \A u \in DOMAIN dmem' : \A p : HeldIn(dmem', u, p, proc) => HeldIn(dmem, u, p, proc)
        BY <3>3, <3>4 DEF Replaces, HeldIn, BoundIn
      <3>. QED BY <2>1, <3>2, <3>3, <3>4, <3>5
    <2>2. CASE ~(r.op = "set-nice" /\ ~Known(dmem, r.name))
      BY <2>2, SameTransfers DEF Receive, kernel, OnlyReniced
    <2>. QED BY <2>1, <2>2
  <1>4. JobsOK'
    <2>1. JobOK([NoJob EXCEPT !.pc = "op", !.req = r]) BY NoTargets DEF NoJob, JobOK
    <2>. QED BY <1>1, <2>1, JobReplaced DEF JobsOK
  <1>5. left' \in [Kinds -> Nat] BY <1>1, SpendOK DEF Kinds
  <1>6. WellTyped'
    BY <1>1, <1>3, <1>4, <1>5 DEF JobsOK, command, KernelOK, TargetsOK, CommandOK
  <1>. QED BY <1>3, <1>6

\* The operation of a request on the daemon's targets, or of a command on its own: the
\* intent of target t is set, cleared, or goes with the target.
Operated(m, t, r, m2) ==
  \/ /\ r.op = "unmanage" /\ m2 = Without(m, t)
  \/ /\ r.op = "manage" => r.nice # None
     /\ r.op = "restore" => ~r.dry
     /\ r.op # "unmanage" /\ t \in DOMAIN m /\ Replaces(m, t, m2)
     /\ m2[t].nice = r.nice /\ OriginalsKept(m[t].bind, m2[t].bind)
  \/ /\ r.op = "manage" /\ r.nice = None /\ m2 = m
  \/ /\ r.op = "restore" /\ r.dry /\ m2 = m

LEMMA OperateTypes ==
  ASSUME WellTyped, NEW h \in Handlers, Operate(h)
  PROVE  /\ WellTyped' /\ (SameProcesses \/ UNCHANGED proc)
         /\ Transfers(dmem, dmem', proc, proc')
         /\ \/ /\ ~Known(dmem, job[h].req.name) /\ dmem' = dmem
               /\ job' = [job EXCEPT ![h] = NoJob]
            \/ LET r == job[h].req
                   t == Find(dmem, r.name)
               IN  /\ Operated(dmem, t, r, dmem')
                   /\ job' = [job EXCEPT ![h] = IF r.dry THEN NoJob
                                                ELSE [job[h] EXCEPT !.pc = "marshal", !.on = t]]
  <1>. USE DEF WellTyped
  <1>. DEFINE r == job[h].req
              t == Find(dmem, r.name)
              after == IF r.dry THEN NoJob ELSE [job[h] EXCEPT !.pc = "marshal", !.on = t]
  <1>1. /\ job[h].pc = "op" /\ UNCHANGED <<up, latest, todo, ended, command, file, acked, left>>
        /\ \/ /\ ~Known(dmem, r.name)
              /\ job' = [job EXCEPT ![h] = NoJob] /\ UNCHANGED <<kernel, dmem>>
           \/ /\ job' = [job EXCEPT ![h] = after]
              /\ \E denied \in Denials :
                   \/ r.op = "set-nice" /\ D!SetNice(t, r.nice, r.dry, denied)
                   \/ r.op = "restore" /\ D!Restore(t, r.force, r.dry, denied, {}, {})
                   \/ r.op = "unmanage" /\ D!Unmanage(t)
    BY DEF Operate
  <1>2. h \in Savers /\ JobOK(job[h]) /\ r \in Requests /\ t \in Targets
    <2>1. h \in Savers BY DEF Savers
    <2>2. JobOK(job[h]) BY <2>1
    <2>3. r \in Requests BY <1>1, <2>2 DEF JobOK
    <2>. QED BY <2>1, <2>2, <2>3, FindTyped, SessionAssumption DEF Request
  <1>3. r.dry \in BOOLEAN /\ (r.op = "set-nice" => r.nice \in Nices)
        /\ (r.op = "restore" => r.nice = None)
    BY <1>2, SessionAssumption DEF Request
  <1>4. JobOK(after)
    <2>1. JobOK([job[h] EXCEPT !.pc = "marshal", !.on = t]) BY <1>2 DEF JobOK
    <2>. QED BY <2>1, NoJobOK
  <1>. HIDE DEF t, after
  <1>5. ASSUME NEW denied \in Denials,
               \/ r.op = "set-nice" /\ D!SetNice(t, r.nice, r.dry, denied)
               \/ r.op = "restore" /\ D!Restore(t, r.force, r.dry, denied, {}, {})
               \/ r.op = "unmanage" /\ D!Unmanage(t)
        PROVE  /\ (SameProcesses \/ UNCHANGED proc) /\ TargetsOK(dmem') /\ Operated(dmem, t, r, dmem')
               /\ Transfers(dmem, dmem', proc, proc')
    <2>1. CASE r.op = "set-nice" /\ D!SetNice(t, r.nice, r.dry, denied)
      <3>1. SameProcesses /\ t \in DOMAIN dmem
            /\ \E hit : dmem' = Renewed(dmem, t, r.nice, NicedBindings(dmem[t].bind, hit, r.nice))
            /\ Transfers(dmem, dmem', proc, proc')
        BY <1>3, <2>1, DSetNice
      <3>2. PICK hit : dmem' = Renewed(dmem, t, r.nice, NicedBindings(dmem[t].bind, hit, r.nice))
        BY <3>1
      <3>3. r.nice \in Nices BY <1>3, <2>1
      <3>4. /\ TargetsOK(dmem') /\ Replaces(dmem, t, dmem')
            /\ dmem'[t].nice = r.nice /\ OriginalsKept(dmem[t].bind, dmem'[t].bind)
        <4>1. KernelOK /\ TargetsOK(dmem) BY DEF WellTyped
        <4>2. t \in DOMAIN dmem BY <3>1
        <4>. HIDE DEF WellTyped, r
        <4>. QED BY <3>2, <3>3, <4>1, <4>2, NicedOK
      <3>5. Operated(dmem, t, r, dmem') BY <2>1, <3>1, <3>4 DEF Operated
      <3>. QED BY <3>1, <3>4, <3>5
    <2>2. CASE r.op = "restore" /\ D!Restore(t, r.force, r.dry, denied, {}, {})
      <3>1. CASE r.dry
        <4>1. UNCHANGED <<proc, dmem>> BY <2>2, <3>1 DEF D!Restore
        <4>2. Transfers(dmem, dmem', proc, proc') BY <4>1, SameTransfers DEF OnlyReniced
        <4>. QED BY <2>2, <3>1, <4>1, <4>2 DEF Operated
      <3>2. CASE ~r.dry
        <4>1. D!Restore(t, r.force, FALSE, denied, {}, {}) BY <1>3, <2>2, <3>2
        <4>2. SameProcesses /\ t \in DOMAIN dmem
              /\ \E niced, conted : dmem' = RestoredTargets(dmem, t, niced, conted)
              /\ Transfers(dmem, dmem', proc, proc')
          BY <4>1, DRestore
        <4>. QED BY <1>3, <2>2, <3>2, <4>2, RestoredOK DEF Operated
      <3>. QED BY <3>1, <3>2
    <2>3. CASE r.op = "unmanage" /\ D!Unmanage(t)
      <3>1. UNCHANGED proc /\ dmem' = Without(dmem, t) BY <2>3, DUnmanage
      <3>2. Transfers(dmem, dmem', proc, proc') BY <3>1, WithoutTransfers DEF OnlyReniced
      <3>. QED BY <2>3, <3>1, <3>2, WithoutOK DEF Operated
    <2>. QED BY <1>5, <2>1, <2>2, <2>3
  <1>6. /\ SameProcesses \/ UNCHANGED proc
        /\ TargetsOK(dmem') /\ JobsOK' /\ Transfers(dmem, dmem', proc, proc')
        /\ \/ /\ ~Known(dmem, r.name) /\ dmem' = dmem
              /\ job' = [job EXCEPT ![h] = NoJob]
           \/ Operated(dmem, t, r, dmem') /\ job' = [job EXCEPT ![h] = after]
    <2>1. CASE /\ ~Known(dmem, r.name)
               /\ job' = [job EXCEPT ![h] = NoJob] /\ UNCHANGED <<kernel, dmem>>
      <3>1. Transfers(dmem, dmem', proc, proc') BY <2>1, SameTransfers DEF kernel, OnlyReniced
      <3>. QED BY <2>1, <3>1, NoJobOK, JobReplaced DEF kernel, JobsOK
    <2>2. CASE /\ job' = [job EXCEPT ![h] = after]
               /\ \E denied \in Denials :
                    \/ r.op = "set-nice" /\ D!SetNice(t, r.nice, r.dry, denied)
                    \/ r.op = "restore" /\ D!Restore(t, r.force, r.dry, denied, {}, {})
                    \/ r.op = "unmanage" /\ D!Unmanage(t)
      <3>1. JobsOK' BY <1>4, <2>2, JobReplaced DEF JobsOK
      <3>. QED BY <1>5, <2>2, <3>1
    <2>. QED BY <1>1, <2>1, <2>2 DEF t, after
  <1>7. KernelOK' /\ latest \in Instances(proc') BY <1>6, SameKernel, SameInstances
  <1>8. WellTyped' BY <1>1, <1>6, <1>7 DEF JobsOK, command, TargetsOK, CommandOK
  <1>. QED BY <1>6, <1>8 DEF t, after

\* A save that is tried, with success or without.
LEMMA WriteTried ==
  ASSUME WellTyped, NEW s \in Savers, WriteFile(s) \/ WriteFails(s)
  PROVE  /\ job[s].pc = "write" /\ UNCHANGED <<kernel, command>>
         /\ file' \in {file, job[s].buf} /\ (WriteFile(s) => file' = job[s].buf)
         /\ Saved' \in {Saved, job[s].buf} /\ Loaded(file') \in {Loaded(file), job[s].buf}
         /\ s = "exit" => Gone /\ Disown(Forgotten(dmem, Saved')) /\ UNCHANGED acked
         /\ s # "exit" => /\ job' = [job EXCEPT ![s] = NoJob]
                          /\ dropped' = IF WriteFails(s) /\ file' = file THEN dropped ELSE {}
                          /\ UNCHANGED <<up, dmem, latest, todo, ended, foreign>>
         /\ left' \in [Kinds -> Nat]
  <1>1. JobOK(job[s]) /\ left \in [Kinds -> Nat] BY DEF WellTyped
  <1>2. job[s].buf # None /\ Loaded(job[s].buf) = job[s].buf
    BY <1>1, NoneIsNoState, LoadedBack DEF JobOK
  <1>3. CASE WriteFile(s)
    <2>1. file' = job[s].buf /\ Saved' = job[s].buf /\ left' = left
      BY <1>2, <1>3 DEF WriteFile, Saved
    <2>2. ~WriteFails(s) BY <2>1, <1>1 DEF WriteFails, Spend, Kinds
    <2>. QED BY <1>1, <1>2, <1>3, <2>1, <2>2 DEF WriteFile
  <1>4. CASE WriteFails(s)
    <2>1. file' \in {file, job[s].buf} BY <1>4 DEF WriteFails
    <2>2. Saved' \in {Saved, job[s].buf} /\ Loaded(file') \in {Loaded(file), job[s].buf}
      BY <1>2, <2>1 DEF Saved, Loaded
    <2>3. left' \in [Kinds -> Nat] /\ left' # left
      <3>1. Spend("writeerror") BY <1>4 DEF WriteFails
      <3>. QED BY <1>1, <3>1 DEF Spend, Kinds
    <2>4. ~WriteFile(s) BY <2>3 DEF WriteFile
    <2>. QED BY <1>4, <2>1, <2>2, <2>3, <2>4 DEF WriteFails
  <1>. QED BY <1>3, <1>4

LEMMA SaveTypes ==
  ASSUME WellTyped, NEW s \in Savers, Marshal(s) \/ WriteFile(s) \/ WriteFails(s) PROVE WellTyped'
  <1>. USE DEF WellTyped
  <1>0. JobOK(job[s]) OBVIOUS
  <1>1. CASE Marshal(s)
    <2>1. /\ UNCHANGED <<kernel, up, dmem, latest, todo, ended, command, file, history, left>>
          /\ job' = [job EXCEPT ![s].pc = "write", ![s].buf = dmem]
      BY <1>1 DEF Marshal
    <2>. DEFINE j == [job[s] EXCEPT !.pc = "write", !.buf = dmem]
    <2>2. JobOK(j)
      <3>1. j.buf = dmem /\ j.pc = "write" /\ j.req = job[s].req BY <1>0 DEF JobOK
      <3>2. j \in [pc : {"idle", "op", "marshal", "write"}, req : Requests \cup {None},
                   on : Targets \cup {None}, buf : {dmem}]
        BY <1>0 DEF JobOK
      <3>. HIDE DEF j
      <3>. QED BY <3>1, <3>2 DEF JobOK
    <2>3. job' = [job EXCEPT ![s] = j] BY <2>1
    <2>. HIDE DEF j
    <2>4. JobsOK' BY <2>2, <2>3, JobReplaced DEF JobsOK
    <2>. QED BY <2>1, <2>4 DEF JobsOK, kernel, command, KernelOK, TargetsOK, CommandOK
  <1>2. CASE WriteFile(s) \/ WriteFails(s)
    <2>1. /\ UNCHANGED <<kernel, command>> /\ Loaded(file') \in {Loaded(file), job[s].buf}
          /\ left' \in [Kinds -> Nat]
      BY <1>2, WriteTried
    <2>3. TargetsOK(Loaded(file')) BY <1>0, <2>1 DEF JobOK
    <2>4. CASE s = "exit"
      <3>1. Gone BY <1>2, <2>4, WriteTried
      <3>2. JobsOK' BY <3>1, JobsEnded DEF Gone
      <3>. QED BY <2>1, <2>3, <3>1, <3>2, NoTargets, EmptyInstances
               DEF Gone, JobsOK, kernel, command, KernelOK, TargetsOK, CommandOK
    <2>5. CASE s # "exit"
      <3>1. job' = [job EXCEPT ![s] = NoJob] /\ UNCHANGED <<up, dmem, latest, todo, ended>>
        BY <1>2, <2>5, WriteTried
      <3>2. JobsOK' BY <3>1, NoJobOK, JobReplaced DEF JobsOK
      <3>. QED BY <2>1, <2>3, <3>1, <3>2 DEF JobsOK, kernel, command, KernelOK, TargetsOK, CommandOK
    <2>. QED BY <2>4, <2>5
  <1>. QED BY <1>1, <1>2

LEMMA BindTypes ==
  ASSUME WellTyped, CliBind
  PROVE  /\ WellTyped' /\ UNCHANGED proc
         /\ \/ cmem' = cmem
            \/ \E t \in Targets : \E mode \in Modes, insts \in Instances(proc) :
                 /\ cmem' = ManagedTargets(cmem, t, mode, insts)
                 /\ Replaces(cmem, t, cmem') /\ BornIn(cmem'[t].bind, proc)
                 /\ t \in DOMAIN cmem =>
                      /\ cmem'[t].nice = cmem[t].nice /\ cli.req.op = "manage"
                      /\ cmem'[t].bind = BindInstances(cmem[t].bind, insts)
                 /\ insts = Live \/ \E p \in DOMAIN Live : insts = Restrict(Live, {p})
         /\ Transfers(cmem, cmem', proc, proc')
         /\ \A t \in DOMAIN cmem' : \A p : HeldIn(cmem', t, p, proc) => HeldIn(cmem, t, p, proc)
  <1>. USE DEF WellTyped
  <1>. DEFINE r == cli.req
              t == IF Known(cmem, r.name) THEN Find(cmem, r.name) ELSE <<"runtime", r.name>>
  <1>1. /\ cli.pc = "bind" /\ cli' = [cli EXCEPT !.pc = "op"]
        /\ UNCHANGED <<daemon, file, acked, left>>
        /\ IF r.op = "manage" \/ (r.op = "set-nice" /\ ~Known(cmem, r.name))
           THEN \/ C!Manage(t, "follow", Live)
                \/ \E p \in DOMAIN Live : C!Manage(t, "snapshot", Restrict(Live, {p}))
           ELSE UNCHANGED <<kernel, cmem>>
    BY DEF CliBind
  <1>2. r \in Commands /\ t \in Targets
    <2>1. r \in Commands BY <1>1 DEF CommandOK
    <2>. QED BY <2>1, FindTyped, SessionAssumption DEF Request, Targets, Origins
  <1>3. CommandOK(cli') BY <1>1, <1>2 DEF CommandOK
  <1>4. ~Known(cmem, r.name) => t \notin DOMAIN cmem BY DEF Known, NameOf
  <1>. HIDE DEF t
  <1>5. CASE r.op = "manage" \/ (r.op = "set-nice" /\ ~Known(cmem, r.name))
    <2>1. PICK mode \in Modes, insts \in Instances(proc) :
            /\ C!Manage(t, mode, insts)
            /\ insts = Live \/ \E p \in DOMAIN Live : insts = Restrict(Live, {p})
      <3>1. \/ C!Manage(t, "follow", Live)
            \/ \E p \in DOMAIN Live : C!Manage(t, "snapshot", Restrict(Live, {p}))
        BY <1>1, <1>5
      <3>2. Live \in Instances(proc) /\ \A p \in DOMAIN Live : Restrict(Live, {p}) \in Instances(proc)
        BY LiveInstances
      <3>. QED BY <3>1, <3>2 DEF Modes
    <2>2. UNCHANGED proc /\ cmem' = ManagedTargets(cmem, t, mode, insts) BY <2>1, CManage
    <2>3. /\ TargetsOK(cmem') /\ Replaces(cmem, t, cmem') /\ BornIn(cmem'[t].bind, proc)
          /\ t \in DOMAIN cmem => /\ cmem'[t].nice = cmem[t].nice
                                  /\ cmem'[t].bind = BindInstances(cmem[t].bind, insts)
      BY <1>2, <2>2, ManagedOK
    <2>4. WellTyped'
      BY <1>1, <1>3, <2>2, <2>3 DEF daemon, KernelOK, TargetsOK, JobOK
    <2>5. /\ Transfers(cmem, cmem', proc, proc')
          /\ \A p : HeldIn(cmem', t, p, proc) => HeldIn(cmem, t, p, proc)
      BY <1>2, <2>2, ManagedTransfers DEF OnlyReniced
    <2>6. \A u \in DOMAIN cmem' : \A p : HeldIn(cmem', u, p, proc) => HeldIn(cmem, u, p, proc)
      BY <2>3, <2>5 DEF Replaces, HeldIn, BoundIn
    <2>. QED BY <1>2, <1>4, <1>5, <2>1, <2>2, <2>3, <2>4, <2>5, <2>6
  <1>6. CASE ~(r.op = "manage" \/ (r.op = "set-nice" /\ ~Known(cmem, r.name)))
    <2>1. UNCHANGED <<kernel, cmem>> BY <1>1, <1>6
    <2>2. WellTyped' BY <1>1, <1>3, <2>1 DEF daemon, kernel, KernelOK, TargetsOK, JobOK
    <2>3. Transfers(cmem, cmem', proc, proc') BY <2>1, SameTransfers DEF kernel, OnlyReniced
    <2>. QED BY <2>1, <2>2, <2>3 DEF kernel
  <1>. QED BY <1>5, <1>6

LEMMA CliOperateTypes ==
  ASSUME WellTyped, CliOperate
  PROVE  /\ WellTyped' /\ (SameProcesses \/ UNCHANGED proc)
         /\ \/ cli' = NoCommand /\ cmem' = << >> /\ UNCHANGED proc
               /\ Disown(Forgotten(cmem, Saved))
            \/ /\ Transfers(cmem, cmem', proc, proc')
               /\ Disown(Dropped(cmem, cmem') \cup Shared(cmem, cmem'))
               /\ LET t == Find(cmem, cli.req.name)
                  IN  Operated(cmem, t, cli.req, cmem') /\ cli' = [cli EXCEPT !.pc = "save", !.on = t]
  <1>. USE DEF WellTyped
  <1>. DEFINE r == cli.req
              t == Find(cmem, r.name)
              Acts(denied) ==
                \/ r.op \in {"set-nice", "manage"} /\ r.nice # None
                   /\ C!SetNice(t, r.nice, r.dry, denied)
                \/ r.op = "manage" /\ r.nice = None /\ UNCHANGED <<kernel, cmem>>
                \/ r.op = "restore" /\ C!Restore(t, r.force, r.dry, denied, {}, {})
                \/ r.op = "unmanage" /\ C!Unmanage(t)
  <1>1. /\ cli.pc = "op" /\ UNCHANGED <<daemon, file, acked, left>>
        /\ \/ cli' = NoCommand /\ cmem' = << >> /\ UNCHANGED kernel /\ Disown(Forgotten(cmem, Saved))
           \/ /\ cli' = [cli EXCEPT !.pc = "save", !.on = t]
              /\ \E denied \in Denials : Acts(denied)
              /\ Disown(Dropped(cmem, cmem') \cup Shared(cmem, cmem'))
    BY DEF CliOperate
  <1>2. r \in Commands /\ t \in Targets
    <2>1. r \in Commands BY <1>1 DEF CommandOK
    <2>. QED BY <2>1, FindTyped, SessionAssumption DEF Request
  <1>3. /\ r.dry \in BOOLEAN /\ r.nice \in Nices \cup {None}
        /\ r.op = "restore" => r.nice = None
    BY <1>2, SessionAssumption DEF Request
  <1>4. CommandOK(NoCommand) /\ CommandOK([cli EXCEPT !.pc = "save", !.on = t])
    BY <1>2 DEF CommandOK, NoCommand
  <1>. HIDE DEF t
  <1>5. ASSUME NEW denied \in Denials, Acts(denied)
        PROVE  /\ (SameProcesses \/ UNCHANGED proc) /\ TargetsOK(cmem') /\ Operated(cmem, t, r, cmem')
               /\ Transfers(cmem, cmem', proc, proc')
    <2>1. CASE /\ r.op \in {"set-nice", "manage"} /\ r.nice # None
               /\ C!SetNice(t, r.nice, r.dry, denied)
      <3>1. SameProcesses /\ t \in DOMAIN cmem
            /\ \E hit : cmem' = Renewed(cmem, t, r.nice, NicedBindings(cmem[t].bind, hit, r.nice))
            /\ Transfers(cmem, cmem', proc, proc')
        BY <1>3, <2>1, CSetNice
      <3>2. PICK hit : cmem' = Renewed(cmem, t, r.nice, NicedBindings(cmem[t].bind, hit, r.nice))
        BY <3>1
      <3>3. r.nice \in Nices BY <1>3, <2>1
      <3>4. /\ TargetsOK(cmem') /\ Replaces(cmem, t, cmem')
            /\ cmem'[t].nice = r.nice /\ OriginalsKept(cmem[t].bind, cmem'[t].bind)
        <4>1. KernelOK /\ TargetsOK(cmem) BY DEF WellTyped
        <4>2. t \in DOMAIN cmem BY <3>1
        <4>. HIDE DEF WellTyped, r
        <4>. QED BY <3>2, <3>3, <4>1, <4>2, NicedOK
      <3>5. Operated(cmem, t, r, cmem') BY <2>1, <3>1, <3>4 DEF Operated
      <3>. QED BY <3>1, <3>4, <3>5
    <2>2. CASE r.op = "restore" /\ C!Restore(t, r.force, r.dry, denied, {}, {})
      <3>1. CASE r.dry
        <4>1. UNCHANGED <<proc, cmem>> BY <2>2, <3>1 DEF C!Restore
        <4>2. Transfers(cmem, cmem', proc, proc') BY <4>1, SameTransfers DEF OnlyReniced
        <4>. QED BY <2>2, <3>1, <4>1, <4>2 DEF Operated
      <3>2. CASE ~r.dry
        <4>1. C!Restore(t, r.force, FALSE, denied, {}, {}) BY <1>3, <2>2, <3>2
        <4>2. SameProcesses /\ t \in DOMAIN cmem
              /\ \E niced, conted : cmem' = RestoredTargets(cmem, t, niced, conted)
              /\ Transfers(cmem, cmem', proc, proc')
          BY <4>1, CRestore
        <4>. QED BY <1>3, <2>2, <3>2, <4>2, RestoredOK DEF Operated
      <3>. QED BY <3>1, <3>2
    <2>3. CASE r.op = "unmanage" /\ C!Unmanage(t)
      <3>1. UNCHANGED proc /\ cmem' = Without(cmem, t) BY <2>3, CUnmanage
      <3>2. Transfers(cmem, cmem', proc, proc') BY <3>1, WithoutTransfers DEF OnlyReniced
      <3>. QED BY <2>3, <3>1, <3>2, WithoutOK DEF Operated
    <2>4. CASE r.op = "manage" /\ r.nice = None /\ UNCHANGED <<kernel, cmem>>
      BY <2>4, SameTransfers DEF Operated, kernel, OnlyReniced
    <2>. QED BY <1>5, <2>1, <2>2, <2>3, <2>4
  <1>. HIDE DEF Acts
  <1>6. /\ (SameProcesses \/ UNCHANGED proc) /\ TargetsOK(cmem') /\ CommandOK(cli')
        /\ \/ cli' = NoCommand /\ cmem' = << >> /\ UNCHANGED proc /\ Disown(Forgotten(cmem, Saved))
           \/ /\ Transfers(cmem, cmem', proc, proc')
              /\ Disown(Dropped(cmem, cmem') \cup Shared(cmem, cmem'))
              /\ Operated(cmem, t, r, cmem') /\ cli' = [cli EXCEPT !.pc = "save", !.on = t]
    BY <1>1, <1>4, <1>5, NoTargets DEF kernel
  <1>7. KernelOK' /\ latest \in Instances(proc') BY <1>6, SameKernel, SameInstances
  <1>8. WellTyped' BY <1>1, <1>6, <1>7 DEF daemon, TargetsOK, JobOK
  <1>. QED BY <1>6, <1>8 DEF t

LEMMA CommandTypes ==
  ASSUME WellTyped, (\E r \in Commands : CliLoad(r)) \/ CliSave \/ CliSaveFails \/ CliKill
  PROVE  WellTyped'
  <1>. USE DEF WellTyped
  <1>0. CommandOK(NoCommand) BY DEF CommandOK, NoCommand
  <1>1. ASSUME NEW r \in Commands, CliLoad(r) PROVE WellTyped'
    <2>1. /\ Spend("cli") /\ cmem' = Loaded(file) /\ cli' = [NoCommand EXCEPT !.pc = "bind", !.req = r]
          /\ UNCHANGED <<kernel, daemon, file, history>>
      BY <1>1 DEF CliLoad
    <2>2. CommandOK(cli') BY <2>1 DEF NoCommand, CommandOK
    <2>3. left' \in [Kinds -> Nat] BY <2>1, SpendOK DEF Kinds
    <2>. QED BY <2>1, <2>2, <2>3 DEF kernel, daemon, KernelOK, TargetsOK, JobOK
  <1>2. CASE CliSave
    <2>1. /\ cli' = NoCommand /\ cmem' = << >> /\ UNCHANGED <<kernel, daemon, left>>
          /\ file' = file \/ file' = cmem
      BY <1>2 DEF CliSave
    <2>2. TargetsOK(Loaded(file')) BY <2>1, LoadedBack
    <2>. QED BY <1>0, <2>1, <2>2, NoTargets DEF kernel, daemon, KernelOK, TargetsOK, JobOK, CommandOK
  <1>3. CASE CliKill
    <2>1. /\ Spend("clikill") /\ cli' = NoCommand /\ cmem' = << >>
          /\ UNCHANGED <<kernel, daemon, file, acked>>
      BY <1>3 DEF CliKill
    <2>2. left' \in [Kinds -> Nat] BY <2>1, SpendOK DEF Kinds
    <2>. QED BY <1>0, <2>1, <2>2, NoTargets DEF kernel, daemon, KernelOK, TargetsOK, JobOK, CommandOK
  <1>4. CASE CliSaveFails
    <2>1. /\ Spend("writeerror") /\ cli' = NoCommand /\ cmem' = << >> /\ UNCHANGED <<kernel, daemon>>
          /\ file' = file \/ file' = cmem
      BY <1>4 DEF CliSaveFails
    <2>2. TargetsOK(Loaded(file')) BY <2>1, LoadedBack
    <2>3. left' \in [Kinds -> Nat] BY <2>1, SpendOK DEF Kinds
    <2>. QED BY <1>0, <2>1, <2>2, <2>3, NoTargets
             DEF kernel, daemon, KernelOK, TargetsOK, JobOK, CommandOK
  <1>. QED BY <1>1, <1>2, <1>3, <1>4

LEMMA SameTime ==
  ASSUME KernelOK, SameProcesses \/ UNCHANGED proc PROVE TimePasses
  <1>1. \A p \in Pids : proc[p].inc \in Nat BY ConstantsAssumption DEF KernelOK, Process, Incarnations
  <1>. QED BY <1>1 DEF TimePasses, SameProcesses

LEMMA TypesStep == WellTyped /\ [Next]_vars => WellTyped' /\ TimePasses
  <1>1. WellTyped /\ Next => WellTyped'
    BY KernelStepTypes, LifeTypes, TickTypes, ReceiveTypes, OperateTypes, SaveTypes, BindTypes,
       CliOperateTypes, CommandTypes DEF Next
  <1>2. WellTyped /\ UNCHANGED vars => WellTyped'
    BY DEF vars, kernel, daemon, command, WellTyped, KernelOK, TargetsOK, JobOK, CommandOK
  <1>3. WellTyped /\ [Next]_vars => KernelStep \/ SameProcesses \/ UNCHANGED proc
    <2>1. Start \/ Kill \/ Stop \/ TickError => UNCHANGED proc
      BY DEF Start, Kill, Stop, TickError, kernel
    <2>2. \A s : Marshal(s) \/ WriteFile(s) \/ WriteFails(s) => UNCHANGED proc
      BY DEF Marshal, WriteFile, WriteFails, kernel
    <2>3. \A r : CliLoad(r) => UNCHANGED proc BY DEF CliLoad, kernel
    <2>4. CliSave \/ CliSaveFails \/ CliKill => UNCHANGED proc
      BY DEF CliSave, CliSaveFails, CliKill, kernel
    <2>5. UNCHANGED vars => UNCHANGED proc BY DEF vars, kernel
    <2>. QED BY <2>1, <2>2, <2>3, <2>4, <2>5, TickTypes, ReceiveTypes, OperateTypes, BindTypes,
                CliOperateTypes DEF Next
  <1>4. WellTyped => KernelOK BY DEF WellTyped
  <1>. QED BY <1>1, <1>2, <1>3, <1>4, SameTime, KernelStepTypes

\* Whatever the daemon, its connections, the commands and the crashes do to each other,
\* every state a manager holds, has encoded or has put into the file is well formed.
THEOREM SessionTypes == Spec => []WellTyped
  BY TypesInit, TypesStep, PTL DEF Spec

(***************************************************************************)
(* When the users of the state file take turns.                            *)
(***************************************************************************)
\* No command runs beside the daemon, and the daemon serves one request, or its
\* deferred save, at a time.
TakingTurns ==
  /\ up => cli = NoCommand
  /\ \A r, s \in Savers : job[r].pc # "idle" /\ job[s].pc # "idle" => r = s

\* The daemon keeps a dry set-nice in memory, and carries a dry unmanage out.
DryOnlyRestores == \A r \in Requests : r.dry => r.op = "restore"

DownIsIdle == ~up => dmem = << >> /\ dropped = {} /\ \A s \in Savers : job[s] = NoJob

Saving(h) == job[h].pc \in {"marshal", "write"}
NoneSaving == \A h \in Handlers : ~Saving(h)

\* The intents a hold in the targets m.
Recorded(m, a) ==
  \A t \in DOMAIN a : Origin(t) = "runtime" /\ t \in DOMAIN m /\ m[t].nice \in a[t]

BuffersCurrent == \A s \in Savers : job[s].pc = "write" => SameRuntime(job[s].buf, dmem)

\* The file, the daemon and the command hold what was answered, and what an answer
\* still to come will say.
IntentsKept ==
  /\ Recorded(Loaded(file), acked)
  /\ up => /\ BuffersCurrent
           /\ NoneSaving => Recorded(dmem, acked)
           /\ \A h \in Handlers :
                Saving(h) => Recorded(dmem, Acknowledged(job[h].req, job[h].on))
  /\ cli.pc \in {"bind", "op"} => Recorded(cmem, acked)
  /\ cli.pc = "save" /\ ~cli.req.dry => Recorded(cmem, Acknowledged(cli.req, cli.on))

LEMMA DownIsIdleStep == WellTyped /\ DownIsIdle /\ [Next]_vars => DownIsIdle'
  <1>. SUFFICES ASSUME WellTyped, DownIsIdle, [Next]_vars, ~up'
                PROVE  dmem' = << >> /\ dropped' = {} /\ \A s \in Savers : job'[s] = NoJob
    BY DEF DownIsIdle
  <1>1. \/ Gone
        \/ ~up /\ UNCHANGED <<dmem, job, dropped>>
    <2>1. KernelStep => UNCHANGED <<up, dmem, job, dropped>> BY DEF KernelStep, daemon
    <2>2. Start => up' BY DEF Start
    <2>3. Kill => Gone BY DEF Kill
    <2>4. Stop \/ Sample \/ TickError \/ Reload => up /\ UNCHANGED up
      BY DEF Stop, Sample, TickError, Reload
    <2>5. Reconcile => UNCHANGED <<up, job, dropped>> /\ (dmem' = dmem \/ \E t : t \in DOMAIN dmem)
      BY DEF Reconcile
    <2>6. \A h, r : Receive(h, r) => up /\ UNCHANGED up BY DEF Receive
    <2>7. \A h \in Handlers : Operate(h) => UNCHANGED up /\ job[h] # NoJob
      BY DEF Operate, NoJob
    <2>8. \A s \in Savers : Marshal(s) => UNCHANGED up /\ job[s] # NoJob
      BY DEF Marshal, NoJob
    <2>9. \A s \in Savers :
            WriteFile(s) \/ WriteFails(s) => (Gone \/ UNCHANGED up) /\ job[s] # NoJob
      BY DEF WriteFile, WriteFails, NoJob
    <2>10. (\E r \in Commands : CliLoad(r)) \/ CliBind \/ CliOperate \/ CliSave \/ CliSaveFails
             \/ CliKill => UNCHANGED <<up, dmem, job, dropped>>
      BY DEF CliLoad, CliBind, CliOperate, CliSave, CliSaveFails, CliKill, daemon
    <2>11. UNCHANGED vars => UNCHANGED <<up, dmem, job, dropped>> BY DEF vars, daemon
    <2>12. Handlers \subseteq Savers BY DEF Savers
    <2>. QED BY <2>1, <2>2, <2>3, <2>4, <2>5, <2>6, <2>7, <2>8, <2>9, <2>10, <2>11, <2>12
             DEF Next, DownIsIdle
  <1>. QED BY <1>1 DEF Gone, DownIsIdle

LEMMA SameRecorded ==
  ASSUME NEW m, TargetsOK(m), NEW l, SameRuntime(m, l) \/ SameRuntime(l, m), NEW a, Recorded(m, a)
  PROVE  Recorded(l, a)
  BY DEF SameRuntime, Recorded, TargetsOK

LEMMA OperatedRecorded ==
  ASSUME NEW m, Recorded(m, acked), NEW t \in Targets, NEW r, ~r.dry, NEW m2, Operated(m, t, r, m2)
  PROVE  Recorded(m2, Acknowledged(r, t))
  <1>1. Origin(t) \in Origins BY DEF Origin, Targets
  <1>. USE DEF SaysIntent
  <1>2. CASE Origin(t) = "config"
    <2>1. Acknowledged(r, t) = acked BY <1>2 DEF Acknowledged
    <2>2. \A u \in DOMAIN acked : u # t /\ u \in DOMAIN m BY <1>2 DEF Recorded
    <2>. QED BY <2>1, <2>2 DEF Recorded, Operated, Replaces, Without, Restrict
  <1>3. CASE Origin(t) = "runtime"
    <2>1. CASE r.op = "unmanage"
      <3>1. Acknowledged(r, t) = Restrict(acked, DOMAIN acked \ {t}) BY <1>3, <2>1 DEF Acknowledged
      <3>2. m2 = Without(m, t) BY <2>1 DEF Operated
      <3>. QED BY <3>1, <3>2 DEF Recorded, Without, Restrict
    <2>2. CASE r.op = "manage" /\ r.nice = None
      <3>1. Acknowledged(r, t) = acked BY <1>3, <2>2 DEF Acknowledged
      <3>. QED BY <2>2, <3>1 DEF Operated
    <2>3. CASE r.op # "unmanage" /\ ~(r.op = "manage" /\ r.nice = None)
      <3>1. Acknowledged(r, t) = [u \in DOMAIN acked \cup {t} |-> IF u = t THEN {r.nice} ELSE acked[u]]
        BY <1>3, <2>3 DEF Acknowledged
      <3>2. t \in DOMAIN m /\ Replaces(m, t, m2) /\ m2[t].nice = r.nice BY <2>3 DEF Operated
      <3>. QED BY <1>3, <3>1, <3>2 DEF Recorded, Replaces
    <2>. QED BY <2>1, <2>2, <2>3
  <1>. QED BY <1>1, <1>2, <1>3 DEF Origins

\* What an unanswered request leaves in doubt covers what there was and what it did.
LEMMA AttemptedRecorded ==
  ASSUME NEW m, NEW r, NEW t, Recorded(m, acked) \/ Recorded(m, Acknowledged(r, t))
  PROVE  Recorded(m, Attempted(r, t))
  <1>1. CASE ~SaysIntent(r, t) BY <1>1 DEF Acknowledged, Attempted
  <1>2. CASE SaysIntent(r, t) /\ r.op = "unmanage"
    BY <1>2 DEF Acknowledged, Attempted, Recorded, Restrict
  <1>3. CASE SaysIntent(r, t) /\ r.op # "unmanage"
    <2>1. /\ Acknowledged(r, t) = [u \in DOMAIN acked \cup {t} |-> IF u = t THEN {r.nice} ELSE acked[u]]
          /\ Attempted(r, t) =
               [u \in DOMAIN acked |-> IF u = t THEN acked[u] \cup {r.nice} ELSE acked[u]]
      BY <1>3 DEF Acknowledged, Attempted
    <2>. QED BY <2>1 DEF Recorded
  <1>. QED BY <1>1, <1>2, <1>3

\* A step that touches neither the file nor what is being served or run, and no
\* runtime target.
LEMMA IntentsQuiet ==
  ASSUME WellTyped, IntentsKept, UNCHANGED <<up, job, cli, cmem, file, acked>>,
         SameRuntime(dmem', dmem)
  PROVE  IntentsKept'
  <1>1. Recorded(Loaded(file), acked)' BY DEF IntentsKept
  <1>2. ASSUME up' PROVE (/\ BuffersCurrent
                          /\ NoneSaving => Recorded(dmem, acked)
                          /\ \A h \in Handlers :
                               Saving(h) => Recorded(dmem, Acknowledged(job[h].req, job[h].on)))'
    <2>1. BuffersCurrent' BY <1>2 DEF IntentsKept, BuffersCurrent, SameRuntime
    <2>2. NoneSaving' => Recorded(dmem', acked')
      BY <1>2, SameRecorded DEF IntentsKept, NoneSaving, Saving, WellTyped
    <2>3. ASSUME NEW h \in Handlers, Saving(h)'
          PROVE  Recorded(dmem', Acknowledged(job[h].req, job[h].on)')
      <3>1. Acknowledged(job[h].req, job[h].on)' = Acknowledged(job[h].req, job[h].on)
        BY DEF Acknowledged, SaysIntent
      <3>2. Recorded(dmem, Acknowledged(job[h].req, job[h].on)) BY <1>2, <2>3 DEF IntentsKept, Saving
      <3>. QED BY <3>1, <3>2, SameRecorded DEF WellTyped
    <2>. QED BY <2>1, <2>2, <2>3 DEF Recorded
  <1>3. (cli.pc \in {"bind", "op"} => Recorded(cmem, acked))' BY DEF IntentsKept
  <1>4. (cli.pc = "save" /\ ~cli.req.dry => Recorded(cmem, Acknowledged(cli.req, cli.on)))'
    <2>1. Acknowledged(cli.req, cli.on)' = Acknowledged(cli.req, cli.on) BY DEF Acknowledged, SaysIntent
    <2>. QED BY <2>1 DEF IntentsKept, Recorded
  <1>. QED BY <1>1, <1>2, <1>3, <1>4 DEF IntentsKept

LEMMA IntentsLife ==
  ASSUME WellTyped, DownIsIdle, TakingTurns, TakingTurns', IntentsKept, Start \/ Kill \/ Stop
  PROVE  IntentsKept'
  <1>1. UNCHANGED <<cli, cmem, file, acked>>
    BY DEF Start, Kill, Stop, command, history
  <1>2. /\ Recorded(Loaded(file), acked)'
        /\ (cli.pc \in {"bind", "op"} => Recorded(cmem, acked))'
        /\ (cli.pc = "save" /\ ~cli.req.dry => Recorded(cmem, Acknowledged(cli.req, cli.on)))'
    <2>1. Acknowledged(cli.req, cli.on)' = Acknowledged(cli.req, cli.on)
      BY <1>1 DEF Acknowledged, SaysIntent
    <2>. QED BY <1>1, <2>1 DEF IntentsKept, Recorded
  <1>3. CASE Start
    <2>1. ~up /\ job' = job /\ \A s \in Savers : job[s].pc = "idle"
      BY <1>3 DEF Start, DownIsIdle, NoJob
    <2>2. SameRuntime(Loaded(file), dmem')
      <3>1. CASE dmem' = Loaded(file) BY <3>1 DEF SameRuntime
      <3>2. CASE \E specs \in PolicySets : dmem' = D!PoliciesInstalled(Loaded(file), specs)
        BY <3>2, DPolicies DEF SameRuntime, WellTyped
      <3>. QED BY <1>3, <3>1, <3>2 DEF Start
    <2>3. Recorded(dmem', acked')
      BY <1>1, <2>2, SameRecorded DEF IntentsKept, WellTyped
    <2>4. BuffersCurrent' /\ \A h \in Handlers : ~Saving(h)'
      BY <2>1 DEF BuffersCurrent, Saving, Savers
    <2>. QED BY <1>2, <2>3, <2>4 DEF IntentsKept
  <1>4. CASE Kill
    BY <1>2, <1>4 DEF Kill, Gone, IntentsKept
  <1>5. CASE Stop
    <2>1. up /\ up' = up /\ dmem' = dmem /\ job' = [job EXCEPT !["exit"].pc = "marshal"]
          /\ job["exit"] = NoJob
      BY <1>5 DEF Stop
    <2>2. /\ \A h \in Handlers : job'[h] = job[h]
          /\ \A s \in Savers : job'[s].pc = "write" => job'[s] = job[s]
      <3>1. job'["exit"].pc = "marshal" BY <2>1 DEF WellTyped, Savers, NoJob
      <3>2. \A s \in Savers : s # "exit" => job'[s] = job[s] BY <2>1 DEF WellTyped
      <3>. QED BY <3>1, <3>2, SessionAssumption DEF Savers
    <2>3. BuffersCurrent' BY <2>1, <2>2 DEF IntentsKept, BuffersCurrent
    <2>4. NoneSaving' => Recorded(dmem', acked')
      BY <1>1, <2>1, <2>2 DEF IntentsKept, NoneSaving, Saving
    <2>5. ASSUME NEW h \in Handlers, Saving(h)'
          PROVE  Recorded(dmem, Acknowledged(job[h].req, job[h].on))'
      <3>1. Acknowledged(job[h].req, job[h].on)' = Acknowledged(job[h].req, job[h].on)
        BY <1>1, <2>2 DEF Acknowledged, SaysIntent
      <3>2. Recorded(dmem, Acknowledged(job[h].req, job[h].on))
        BY <2>1, <2>2, <2>5 DEF IntentsKept, Saving
      <3>. QED BY <2>1, <3>1, <3>2 DEF Recorded
    <2>. QED BY <1>2, <2>3, <2>4, <2>5 DEF IntentsKept
  <1>. QED BY <1>3, <1>4, <1>5

\* While a connection or the deferred save is busy, nobody else is.
LEMMA Alone ==
  ASSUME TakingTurns, NEW s \in Savers, job[s].pc # "idle"
  PROVE  \A r \in Savers \ {s} : job[r].pc = "idle"
  BY DEF TakingTurns

LEMMA IntentsServe ==
  ASSUME WellTyped, DownIsIdle, TakingTurns, TakingTurns', IntentsKept, DryOnlyRestores,
         NEW h \in Handlers, Operate(h) \/ \E r \in Requests : Receive(h, r)
  PROVE  IntentsKept'
  <1>1. h \in Savers /\ UNCHANGED <<up, cli, cmem, file, acked>>
    BY DEF Savers, Operate, Receive, command, history
  <1>2. /\ Recorded(Loaded(file), acked)'
        /\ (cli.pc \in {"bind", "op"} => Recorded(cmem, acked))'
        /\ (cli.pc = "save" /\ ~cli.req.dry => Recorded(cmem, Acknowledged(cli.req, cli.on)))'
    <2>1. Acknowledged(cli.req, cli.on)' = Acknowledged(cli.req, cli.on)
      BY <1>1 DEF Acknowledged, SaysIntent
    <2>. QED BY <1>1, <2>1 DEF IntentsKept, Recorded
  <1>3. \A s \in Savers \ {h} : job'[s] = job[s]
    BY DEF Operate, Receive, WellTyped
  <1>4. up
    <2>1. (\E r \in Requests : Receive(h, r)) => up BY DEF Receive
    <2>2. Operate(h) => job[h].pc = "op" BY DEF Operate
    <2>. QED BY <1>1, <2>1, <2>2 DEF DownIsIdle, NoJob
  <1>5. CASE \E r \in Requests : Receive(h, r)
    <2>1. PICK r \in Requests : Receive(h, r) BY <1>5
    <2>2. job[h] = NoJob /\ job'[h].pc = "op"
      BY <1>1, <2>1 DEF Receive, WellTyped, NoJob
    <2>3. \A s \in Savers : job[s].pc = "idle" /\ job'[s].pc \in {"idle", "op"}
      BY <1>1, <1>3, <2>2 DEF TakingTurns, NoJob
    <2>4. Recorded(dmem, acked)
      BY <1>4, <2>3 DEF IntentsKept, NoneSaving, Saving, Savers
    <2>5. Recorded(dmem', acked')
      <3>1. \/ dmem' = dmem
            \/ ~Known(dmem, r.name) /\ Replaces(dmem, <<"runtime", r.name>>, dmem')
        BY <2>1, ReceiveTypes
      <3>. QED BY <1>1, <2>4, <3>1 DEF Recorded, Known, NameOf, Replaces
    <2>6. BuffersCurrent' /\ \A g \in Handlers : ~Saving(g)'
      BY <2>3 DEF BuffersCurrent, Saving, Savers
    <2>. QED BY <1>2, <2>5, <2>6 DEF IntentsKept
  <1>6. CASE Operate(h)
    <2>. DEFINE r == job[h].req
                t == Find(dmem, r.name)
    <2>1. job[h].pc = "op" /\ \A s \in Savers \ {h} : job[s].pc = "idle" /\ job'[s].pc = "idle"
      <3>1. job[h].pc = "op" BY <1>6 DEF Operate
      <3>. QED BY <1>1, <1>3, <3>1, Alone
    <2>2. Recorded(dmem, acked)
      BY <1>4, <2>1, SessionAssumption DEF IntentsKept, NoneSaving, Saving, Savers
    <2>3. r \in Requests /\ r.dry \in BOOLEAN /\ t \in Targets
      <3>1. r \in Requests BY <1>1, <2>1 DEF WellTyped, JobOK
      <3>. QED BY <3>1, FindTyped, SessionAssumption DEF Request
    <2>4. BuffersCurrent'
      <3>1. job' = [job EXCEPT ![h] = NoJob]
            \/ job' = [job EXCEPT ![h] = [job[h] EXCEPT !.pc = "marshal", !.on = t]]
        BY <1>6, OperateTypes
      <3>2. JobOK(job[h]) /\ DOMAIN job = Savers BY <1>1 DEF WellTyped
      <3>3. job'[h].pc \in {"idle", "marshal"}
        <4>1. CASE job' = [job EXCEPT ![h] = NoJob] BY <1>1, <3>2, <4>1 DEF NoJob
        <4>2. CASE job' = [job EXCEPT ![h] = [job[h] EXCEPT !.pc = "marshal", !.on = t]]
          <5>. HIDE DEF t
          <5>. QED BY <1>1, <3>2, <4>2 DEF JobOK
        <4>. QED BY <3>1, <4>1, <4>2
      <3>. QED BY <2>1, <3>3 DEF BuffersCurrent
    <2>5. CASE job' = [job EXCEPT ![h] = NoJob] /\ Recorded(dmem', acked)
      <3>1. \A g \in Handlers : ~Saving(g)'
        BY <1>1, <2>1, <2>5 DEF Saving, Savers, NoJob, WellTyped
      <3>. QED BY <1>1, <1>2, <2>4, <2>5, <3>1 DEF IntentsKept
    <2>6. CASE /\ ~r.dry /\ Operated(dmem, t, r, dmem')
               /\ job' = [job EXCEPT ![h] = [job[h] EXCEPT !.pc = "marshal", !.on = t]]
      <3>1. Recorded(dmem', Acknowledged(r, t)) BY <2>2, <2>3, <2>6, OperatedRecorded
      <3>2. JobOK(job[h]) /\ DOMAIN job = Savers BY <1>1 DEF WellTyped
      <3>3. job'[h].pc = "marshal" /\ job'[h].req = r /\ job'[h].on = t
        <4>. HIDE DEF t
        <4>. QED BY <1>1, <2>6, <3>2 DEF JobOK
      <3>4. Acknowledged(job[h].req, job[h].on)' = Acknowledged(r, t)
        <4>. HIDE DEF r, t
        <4>. QED BY <1>1, <3>3 DEF Acknowledged, SaysIntent
      <3>5. \A g \in Handlers : Saving(g)' => g = h
        BY <2>1 DEF Saving, Savers
      <3>6. ~NoneSaving' BY <3>3 DEF NoneSaving, Saving
      <3>. QED BY <1>2, <2>4, <3>1, <3>4, <3>5, <3>6 DEF IntentsKept
    <2>7. CASE r.dry
      <3>1. r.op = "restore" BY <2>3, <2>7 DEF DryOnlyRestores
      <3>2. job' = [job EXCEPT ![h] = NoJob] /\ dmem' = dmem
        BY <1>6, <2>7, <3>1, OperateTypes DEF Operated
      <3>. QED BY <2>2, <2>5, <3>2
    <2>. QED BY <1>6, <2>2, <2>3, <2>5, <2>6, <2>7, OperateTypes
  <1>. QED BY <1>5, <1>6

LEMMA IntentsSaved ==
  ASSUME WellTyped, DownIsIdle, TakingTurns, TakingTurns', IntentsKept,
         NEW s \in Savers, Marshal(s) \/ WriteFile(s) \/ WriteFails(s)
  PROVE  IntentsKept'
  <1>1. job[s].pc # "idle" /\ up
    <2>1. job[s].pc # "idle" BY DEF Marshal, WriteFile, WriteFails
    <2>. QED BY <2>1 DEF DownIsIdle, NoJob
  <1>2. cli.pc = "idle" /\ cli' = cli
    <2>1. cli = NoCommand BY <1>1 DEF TakingTurns
    <2>2. cli' = cli BY DEF Marshal, WriteFile, WriteFails, command
    <2>. QED BY <2>1, <2>2 DEF NoCommand
  <1>3. \A r \in Savers \ {s} : job[r].pc = "idle" BY <1>1, Alone
  <1>4. JobOK(job[s]) /\ DOMAIN job = Savers BY DEF WellTyped
  <1>5. CASE Marshal(s)
    <2>1. /\ UNCHANGED <<up, dmem, file, acked>> /\ job[s].pc = "marshal"
          /\ job' = [job EXCEPT ![s].pc = "write", ![s].buf = dmem]
      BY <1>5 DEF Marshal, history
    <2>2. /\ job'[s].pc = "write" /\ job'[s].buf = dmem
          /\ job'[s].req = job[s].req /\ job'[s].on = job[s].on
          /\ \A r \in Savers \ {s} : job'[r].pc = "idle"
      BY <1>3, <1>4, <2>1 DEF JobOK
    <2>3. BuffersCurrent' BY <2>1, <2>2 DEF BuffersCurrent, SameRuntime
    <2>4. CASE s = "exit"
      <3>1. \A h \in Handlers : ~Saving(h) /\ ~Saving(h)'
        BY <1>3, <2>2, <2>4, SessionAssumption DEF Saving, Savers
      <3>. QED BY <1>1, <1>2, <2>1, <2>3, <3>1 DEF IntentsKept, NoneSaving
    <2>5. CASE s # "exit"
      <3>1. s \in Handlers BY <2>5 DEF Savers
      <3>2. Acknowledged(job[s].req, job[s].on)' = Acknowledged(job[s].req, job[s].on)
        <4>. DEFINE r == job[s].req
                    t == job[s].on
        <4>1. acked' = acked /\ job'[s].req = r /\ job'[s].on = t BY <2>1, <2>2
        <4>. HIDE DEF r, t
        <4>2. Acknowledged(job[s].req, job[s].on)' = Acknowledged(r, t)
          BY <4>1 DEF Acknowledged, SaysIntent
        <4>. QED BY <4>2 DEF r, t
      <3>3. Recorded(dmem, Acknowledged(job[s].req, job[s].on))'
        BY <1>1, <2>1, <3>1, <3>2 DEF IntentsKept, Saving, Recorded
      <3>4. \A h \in Handlers : Saving(h)' => h = s BY <2>2 DEF Saving, Savers
      <3>5. ~NoneSaving' BY <2>2, <3>1 DEF NoneSaving, Saving
      <3>. QED BY <1>1, <1>2, <2>1, <2>3, <3>3, <3>4, <3>5 DEF IntentsKept
    <2>. QED BY <2>4, <2>5
  <1>6. CASE WriteFile(s)
    <2>1. /\ job[s].pc = "write" /\ file' = job[s].buf /\ SameRuntime(job[s].buf, dmem)
          /\ Loaded(file') = job[s].buf
      BY <1>1, <1>4, <1>6, LoadedBack DEF WriteFile, IntentsKept, BuffersCurrent, JobOK
    <2>2. CASE s = "exit"
      <3>1. ~up' /\ acked' = acked BY <1>6, <2>2 DEF WriteFile, Gone
      <3>2. NoneSaving BY <1>3, <2>2, SessionAssumption DEF NoneSaving, Saving, Savers
      <3>3. Recorded(dmem, acked) BY <1>1, <3>2 DEF IntentsKept
      <3>4. Recorded(job[s].buf, acked) BY <2>1, <3>3, SameRecorded DEF WellTyped
      <3>. QED BY <1>2, <2>1, <3>1, <3>4 DEF IntentsKept
    <2>3. CASE s # "exit"
      <3>1. /\ UNCHANGED <<up, dmem>> /\ job' = [job EXCEPT ![s] = NoJob] /\ s \in Handlers
            /\ acked' = Acknowledged(job[s].req, job[s].on)
        BY <1>6, <2>3 DEF WriteFile, Savers
      <3>2. \A r \in Savers : job'[r].pc = "idle" BY <1>3, <1>4, <3>1 DEF NoJob
      <3>3. Recorded(dmem, acked') BY <1>1, <2>1, <3>1 DEF IntentsKept, Saving
      <3>4. Recorded(job[s].buf, acked') BY <2>1, <3>3, SameRecorded DEF WellTyped
      <3>5. BuffersCurrent' /\ \A h \in Handlers : ~Saving(h)'
        BY <3>2 DEF BuffersCurrent, Saving, Savers
      <3>. QED BY <1>2, <2>1, <3>1, <3>3, <3>4, <3>5 DEF IntentsKept
    <2>. QED BY <2>2, <2>3
  <1>7. CASE WriteFails(s)
    <2>1. /\ job[s].pc = "write" /\ file' \in {file, job[s].buf}
          /\ SameRuntime(job[s].buf, dmem) /\ Loaded(job[s].buf) = job[s].buf
      BY <1>1, <1>4, <1>7, LoadedBack DEF WriteFails, IntentsKept, BuffersCurrent, JobOK
    <2>2. CASE s = "exit"
      <3>1. ~up' /\ acked' = acked BY <1>7, <2>2 DEF WriteFails, Gone
      <3>2. NoneSaving BY <1>3, <2>2, SessionAssumption DEF NoneSaving, Saving, Savers
      <3>3. Recorded(dmem, acked) BY <1>1, <3>2 DEF IntentsKept
      <3>4. Recorded(job[s].buf, acked) BY <2>1, <3>3, SameRecorded DEF WellTyped
      <3>5. Recorded(Loaded(file'), acked) BY <2>1, <3>4 DEF IntentsKept
      <3>. QED BY <1>2, <3>1, <3>5 DEF IntentsKept
    <2>3. CASE s # "exit"
      <3>. DEFINE a == Attempted(job[s].req, job[s].on)
      <3>1. /\ UNCHANGED <<up, dmem>> /\ job' = [job EXCEPT ![s] = NoJob] /\ s \in Handlers
            /\ acked' = a
        BY <1>7, <2>3 DEF WriteFails, Savers
      <3>2. \A r \in Savers : job'[r].pc = "idle" BY <1>3, <1>4, <3>1 DEF NoJob
      <3>3. Recorded(dmem, Acknowledged(job[s].req, job[s].on))
        BY <1>1, <2>1, <3>1 DEF IntentsKept, Saving
      <3>4. Recorded(job[s].buf, Acknowledged(job[s].req, job[s].on))
        BY <2>1, <3>3, SameRecorded DEF WellTyped
      <3>5. Recorded(dmem, a) /\ Recorded(job[s].buf, a) BY <3>3, <3>4, AttemptedRecorded
      <3>6. Recorded(Loaded(file), a) BY AttemptedRecorded DEF IntentsKept
      <3>. HIDE DEF a
      <3>7. Recorded(Loaded(file'), a) BY <2>1, <3>5, <3>6
      <3>8. BuffersCurrent' /\ \A h \in Handlers : ~Saving(h)'
        BY <3>2 DEF BuffersCurrent, Saving, Savers
      <3>. QED BY <1>2, <3>1, <3>5, <3>7, <3>8 DEF IntentsKept
    <2>. QED BY <2>2, <2>3
  <1>. QED BY <1>5, <1>6, <1>7

LEMMA IntentsCommand ==
  ASSUME WellTyped, TakingTurns, TakingTurns', IntentsKept,
         \/ \E r \in Commands : CliLoad(r)
         \/ CliBind \/ CliOperate \/ CliSave \/ CliSaveFails \/ CliKill
  PROVE  IntentsKept'
  <1>1. UNCHANGED <<up, dmem, job>>
    BY DEF CliLoad, CliBind, CliOperate, CliSave, CliSaveFails, CliKill, daemon
  <1>2. ~up /\ ~up'
    <2>1. cli # NoCommand \/ cli' # NoCommand
      <3>1. ASSUME NEW r \in Commands, CliLoad(r) PROVE cli' # NoCommand
        <4>1. cli' = [NoCommand EXCEPT !.pc = "bind", !.req = r] BY <3>1 DEF CliLoad
        <4>2. cli'.pc = "bind" BY <4>1 DEF NoCommand
        <4>. QED BY <4>2 DEF NoCommand
      <3>2. CliBind \/ CliOperate \/ CliSave \/ CliSaveFails => cli.pc # "idle"
        BY DEF CliBind, CliOperate, CliSave, CliSaveFails
      <3>3. CliKill => cli # NoCommand BY DEF CliKill
      <3>. QED BY <3>1, <3>2, <3>3 DEF NoCommand
    <2>. QED BY <1>1, <2>1 DEF TakingTurns
  <1>3. ASSUME NEW r \in Commands, CliLoad(r) PROVE IntentsKept'
    <2>1. UNCHANGED <<file, acked>> /\ cmem' = Loaded(file) /\ cli'.pc = "bind"
      BY <1>3 DEF CliLoad, history, NoCommand
    <2>. QED BY <1>2, <2>1 DEF IntentsKept
  <1>4. CASE CliBind
    <2>1. UNCHANGED <<file, acked>> /\ cli.pc = "bind" /\ cli'.pc = "op"
      BY <1>4 DEF CliBind, history, WellTyped, CommandOK
    <2>2. Recorded(cmem, acked) BY <2>1 DEF IntentsKept
    <2>3. cmem' = cmem \/ \E t \in Targets : /\ Replaces(cmem, t, cmem')
                                             /\ t \in DOMAIN cmem => cmem'[t].nice = cmem[t].nice
      BY <1>4, BindTypes
    <2>4. Recorded(cmem', acked') BY <2>1, <2>2, <2>3 DEF Recorded, Replaces
    <2>. QED BY <1>2, <2>1, <2>4 DEF IntentsKept
  <1>5. CASE CliOperate
    <2>. DEFINE r == cli.req
                t == Find(cmem, r.name)
    <2>1. UNCHANGED <<file, acked>> /\ cli.pc = "op" BY <1>5 DEF CliOperate, history
    <2>2. Recorded(cmem, acked) BY <2>1 DEF IntentsKept
    <2>3. r \in Commands /\ t \in Targets
      <3>1. r \in Commands BY <2>1 DEF WellTyped, CommandOK
      <3>. QED BY <3>1, FindTyped, SessionAssumption DEF Request
    <2>4. CASE cli' = NoCommand BY <1>2, <2>1, <2>4 DEF IntentsKept, NoCommand
    <2>5. CASE Operated(cmem, t, r, cmem') /\ cli' = [cli EXCEPT !.pc = "save", !.on = t]
      <3>1. cli'.pc = "save" /\ cli'.req = r /\ cli'.on = t
        BY <2>5 DEF WellTyped, CommandOK
      <3>2. ~r.dry => Recorded(cmem', Acknowledged(r, t))
        BY <2>2, <2>3, <2>5, OperatedRecorded
      <3>3. Acknowledged(cli.req, cli.on)' = Acknowledged(r, t)
        <4>. HIDE DEF r, t
        <4>. QED BY <2>1, <3>1 DEF Acknowledged, SaysIntent
      <3>. QED BY <1>2, <2>1, <3>1, <3>2, <3>3 DEF IntentsKept
    <2>. QED BY <1>5, <2>4, <2>5, CliOperateTypes
  <1>6. CASE CliSave
    <2>1. cli.pc = "save" /\ cli'.pc = "idle" /\ (cli.req.dry => UNCHANGED <<file, acked>>)
          /\ (~cli.req.dry => file' = cmem /\ acked' = Acknowledged(cli.req, cli.on))
      BY <1>6 DEF CliSave, NoCommand
    <2>2. Recorded(Loaded(file'), acked')
      <3>1. CASE cli.req.dry BY <2>1, <3>1 DEF IntentsKept
      <3>2. CASE ~cli.req.dry BY <2>1, <3>2, LoadedBack DEF IntentsKept, WellTyped
      <3>. QED BY <3>1, <3>2
    <2>. QED BY <1>2, <2>1, <2>2 DEF IntentsKept
  <1>7. CASE CliKill
    <2>1. UNCHANGED <<file, acked>> /\ cli'.pc = "idle" BY <1>7 DEF CliKill, NoCommand
    <2>. QED BY <1>2, <2>1 DEF IntentsKept
  <1>8. CASE CliSaveFails
    <2>. DEFINE a == Attempted(cli.req, cli.on)
    <2>1. /\ cli.pc = "save" /\ ~cli.req.dry /\ cli'.pc = "idle"
          /\ file' \in {file, cmem} /\ acked' = a
      BY <1>8 DEF CliSaveFails, NoCommand
    <2>2. Recorded(cmem, a) /\ Recorded(Loaded(file), a)
      BY <2>1, AttemptedRecorded DEF IntentsKept
    <2>3. Loaded(cmem) = cmem BY LoadedBack DEF WellTyped
    <2>. HIDE DEF a
    <2>4. Recorded(Loaded(file'), acked') BY <2>1, <2>2, <2>3
    <2>. QED BY <1>2, <2>1, <2>4 DEF IntentsKept
  <1>. QED BY <1>3, <1>4, <1>5, <1>6, <1>7, <1>8

LEMMA IntentsStep ==
  ASSUME DryOnlyRestores, WellTyped, DownIsIdle, TakingTurns, TakingTurns', IntentsKept, [Next]_vars
  PROVE  IntentsKept'
  <1>1. CASE KernelStep \/ TickError \/ UNCHANGED vars
    <2>1. UNCHANGED <<up, job, cli, cmem, file, acked, dmem>>
      BY <1>1 DEF KernelStep, TickError, vars, daemon, command, history
    <2>. QED BY <2>1, IntentsQuiet DEF SameRuntime
  <1>2. CASE Sample \/ Reconcile \/ Reload
    <2>1. UNCHANGED <<up, job, cli, cmem, file, acked>>
      BY <1>2 DEF Sample, Reconcile, Reload, command, history
    <2>. QED BY <1>2, <2>1, IntentsQuiet, TickTypes
  <1>. QED BY <1>1, <1>2, IntentsLife, IntentsServe, IntentsSaved, IntentsCommand DEF Next

LEMMA IntentsInit == Init => IntentsKept /\ DownIsIdle
  <1>1. Init => /\ ~up /\ dmem = << >> /\ acked = << >> /\ cli.pc = "idle"
                /\ dropped = {} /\ \A s \in Savers : job[s] = NoJob
    BY SessionAssumption DEF Init, D!Init, NoCommand
  <1>. QED BY <1>1 DEF IntentsKept, DownIsIdle, Recorded

\* Whenever the users of the state file take turns, what a client or the user of a
\* command was told is done is what the file says, whatever ticks, reloads, other
\* requests, crashes and restarts come after the answer.
THEOREM AnswersAreSaved ==
  ASSUME DryOnlyRestores
  PROVE  Spec /\ []TakingTurns => []AckedIntentsSaved
  <1>1. IntentsKept => AckedIntentsSaved
    <2>1. Loaded(None) = << >> BY DEF Loaded
    <2>2. IntentsKept => \A t \in DOMAIN acked : file # None
      BY <2>1 DEF IntentsKept, Recorded
    <2>. QED BY <2>2 DEF IntentsKept, Recorded, AckedIntentsSaved, Loaded
  <1>2. /\ IntentsKept /\ DownIsIdle /\ WellTyped /\ TakingTurns /\ TakingTurns' /\ [Next]_vars
        => IntentsKept'
    BY IntentsStep
  <1>. QED BY <1>1, <1>2, IntentsInit, DownIsIdleStep, SessionTypes, PTL DEF Spec

(***************************************************************************)
(* The originals the file holds.                                           *)
(***************************************************************************)
\* A command `manage' that snapshots a single pid binds its target to nothing else,
\* and so lets go of what the target's other processes had.
NothingLetGo == (\A p, q \in Pids : p = q) \/ \A r \in Commands : r.op # "manage"

KnownIn(m, k) == \A t \in DOMAIN m : Origin(t) = "runtime" => BornIn(m[t].bind, k)

\* The targets x aside, every original that f has for a process alive in k m has as well,
\* in the targets m still has.
OriginalsIn(f, m, x, k) ==
  \A t \in DOMAIN f \ x : Origin(t) = "runtime" /\ t \in DOMAIN m =>
    \A p \in DOMAIN f[t].bind : f[t].bind[p].orig # None /\ Revalidate(f[t].bind[p], k[p]) =>
      /\ p \in DOMAIN m[t].bind /\ m[t].bind[p].inc = f[t].bind[p].inc
      /\ m[t].bind[p].orig = f[t].bind[p].orig

RuntimeIn(f, m, x) == \A t \in DOMAIN f \ x : Origin(t) = "runtime" => t \in DOMAIN m

\* From an unmanage to a save that does not fail the target is gone from memory and not
\* from the file.
OriginalsSafe ==
  /\ KnownIn(Loaded(file), proc) /\ KnownIn(dmem, proc) /\ KnownIn(cmem, proc)
  /\ up => /\ BuffersCurrent
           /\ OriginalsIn(Loaded(file), dmem, dropped, proc)
           /\ RuntimeIn(Loaded(file), dmem, dropped)
  /\ cli.pc # "idle" => OriginalsIn(Loaded(file), cmem, {}, proc)
  /\ cli.pc \in {"bind", "op"} => RuntimeIn(Loaded(file), cmem, {})

LEMMA IncarnationsAreNumbers ==
  ASSUME NEW m, TargetsOK(m)
  PROVE  \A t \in DOMAIN m : \A p \in DOMAIN m[t].bind : p \in Pids /\ m[t].bind[p].inc \in Nat
  BY ConstantsAssumption DEF TargetsOK, Target, Bindings, Binding, Incarnations

LEMMA BirthsAreNumbers == \A k \in [Pids -> Process] : \A p \in Pids : k[p].inc \in Nat
  BY ConstantsAssumption DEF Process, Incarnations

LEMMA KnownLater ==
  ASSUME KernelOK, KernelOK', TimePasses, NEW m, TargetsOK(m), KnownIn(m, proc)
  PROVE  KnownIn(m, proc')
  <1>1. \A p \in Pids : proc[p].inc \in Nat /\ proc'[p].inc \in Nat
    BY BirthsAreNumbers DEF KernelOK
  <1>. QED BY <1>1, IncarnationsAreNumbers DEF KnownIn, BornIn, TimePasses

\* A binding that is valid after a step was valid before it.
LEMMA OriginalsLater ==
  ASSUME KernelOK, KernelOK', TimePasses, NEW f, TargetsOK(f), KnownIn(f, proc), NEW m,
         NEW x, OriginalsIn(f, m, x, proc)
  PROVE  OriginalsIn(f, m, x, proc')
  <1>1. \A p \in Pids : proc[p].inc \in Nat /\ proc'[p].inc \in Nat
    BY BirthsAreNumbers DEF KernelOK
  <1>2. ASSUME NEW t \in DOMAIN f, Origin(t) = "runtime", NEW p \in DOMAIN f[t].bind,
               Revalidate(f[t].bind[p], proc'[p])
        PROVE  Revalidate(f[t].bind[p], proc[p])
    <2>1. p \in Pids /\ f[t].bind[p].inc \in Nat /\ f[t].bind[p].inc <= proc[p].inc
      BY <1>2, IncarnationsAreNumbers DEF KnownIn, BornIn
    <2>2. proc'[p].alive /\ proc'[p].inc = f[t].bind[p].inc BY <1>2 DEF Revalidate
    <2>3. proc'[p].inc = proc[p].inc BY <1>1, <2>1, <2>2 DEF TimePasses
    <2>. QED BY <2>1, <2>2, <2>3 DEF TimePasses, Revalidate
  <1>. QED BY <1>2 DEF OriginalsIn

LEMMA SameOriginals ==
  ASSUME NEW m, TargetsOK(m), NEW l, TargetsOK(l), SameRuntime(m, l) \/ SameRuntime(l, m), NEW k
  PROVE  /\ KnownIn(m, k) => KnownIn(l, k)
         /\ OriginalsIn(m, l, {}, k)
         /\ RuntimeIn(m, l, {})
         /\ \A f, x : TargetsOK(f) => /\ OriginalsIn(f, m, x, k) => OriginalsIn(f, l, x, k)
                                      /\ RuntimeIn(f, m, x) => RuntimeIn(f, l, x)
  <1>1. \A t \in Targets : Origin(t) = "runtime" =>
          (t \in DOMAIN m <=> t \in DOMAIN l) /\ (t \in DOMAIN m => m[t] = l[t])
    BY DEF SameRuntime
  <1>2. KnownIn(m, k) => KnownIn(l, k) BY <1>1 DEF KnownIn, TargetsOK
  <1>3. OriginalsIn(m, l, {}, k) BY <1>1 DEF OriginalsIn, TargetsOK
  <1>4. RuntimeIn(m, l, {}) BY <1>1 DEF RuntimeIn, TargetsOK
  <1>5. ASSUME NEW f, TargetsOK(f), NEW x, OriginalsIn(f, m, x, k) PROVE OriginalsIn(f, l, x, k)
    BY <1>1, <1>5 DEF OriginalsIn, TargetsOK
  <1>6. ASSUME NEW f, TargetsOK(f), NEW x, RuntimeIn(f, m, x) PROVE RuntimeIn(f, l, x)
    BY <1>1, <1>6 DEF RuntimeIn, TargetsOK
  <1>. QED BY <1>2, <1>3, <1>4, <1>5, <1>6

\* x is what aside the originals were kept before the operation, y after it.
LEMMA OperatedOriginals ==
  ASSUME NEW m, NEW t, NEW r, NEW m2, Operated(m, t, r, m2), NEW k, NEW f, NEW x, NEW y,
         x \subseteq y
  PROVE  /\ KnownIn(m, k) => KnownIn(m2, k)
         /\ OriginalsIn(f, m, x, k) => OriginalsIn(f, m2, y, k)
         /\ (r.op = "unmanage" /\ Origin(t) = "runtime" => t \in y) /\ RuntimeIn(f, m, x)
            => RuntimeIn(f, m2, y)
  <1>1. CASE m2 = m BY <1>1 DEF OriginalsIn, RuntimeIn
  <1>2. CASE r.op = "unmanage" /\ m2 = Without(m, t)
    <2>1. DOMAIN m2 = DOMAIN m \ {t} /\ \A u \in DOMAIN m2 : m2[u] = m[u]
      BY <1>2 DEF Without, Restrict
    <2>. QED BY <1>2, <2>1 DEF KnownIn, OriginalsIn, RuntimeIn
  <1>3. CASE t \in DOMAIN m /\ Replaces(m, t, m2) /\ OriginalsKept(m[t].bind, m2[t].bind)
    <2>1. DOMAIN m2 = DOMAIN m /\ \A u \in DOMAIN m \ {t} : m2[u] = m[u]
      BY <1>3 DEF Replaces
    <2>2. KnownIn(m, k) => KnownIn(m2, k) BY <1>3, <2>1 DEF KnownIn, BornIn, OriginalsKept
    <2>3. ASSUME OriginalsIn(f, m, x, k) PROVE OriginalsIn(f, m2, y, k)
      BY <1>3, <2>1, <2>3 DEF OriginalsIn, OriginalsKept
    <2>. QED BY <2>1, <2>2, <2>3 DEF RuntimeIn
  <1>. QED BY <1>1, <1>2, <1>3 DEF Operated

LEMMA ManagedOriginals ==
  ASSUME NEW m, NEW t, NEW m2, Replaces(m, t, m2), NEW k, BornIn(m2[t].bind, k)
  PROVE  /\ KnownIn(m, k) => KnownIn(m2, k)
         /\ \A f, x : RuntimeIn(f, m, x) => RuntimeIn(f, m2, x)
         /\ \A f, x : t \notin DOMAIN m /\ RuntimeIn(f, m, x) /\ OriginalsIn(f, m, x, k)
                        => OriginalsIn(f, m2, x, k)
  <1>1. DOMAIN m2 = DOMAIN m \cup {t} /\ \A u \in DOMAIN m \ {t} : m2[u] = m[u] BY DEF Replaces
  <1>2. KnownIn(m, k) => KnownIn(m2, k) BY <1>1 DEF KnownIn
  <1>3. \A f, x : RuntimeIn(f, m, x) => RuntimeIn(f, m2, x) BY <1>1 DEF RuntimeIn
  <1>4. ASSUME NEW f, NEW x, t \notin DOMAIN m, RuntimeIn(f, m, x), OriginalsIn(f, m, x, k)
        PROVE  OriginalsIn(f, m2, x, k)
    BY <1>1, <1>4 DEF RuntimeIn, OriginalsIn
  <1>. QED BY <1>2, <1>3, <1>4

\* The targets kept anywhere stay known, and the daemon and the command keep the file's
\* originals, as time passes.
LEMMA SafeLater ==
  ASSUME WellTyped, WellTyped', TimePasses, OriginalsSafe
  PROVE  /\ KnownIn(Loaded(file), proc') /\ KnownIn(dmem, proc') /\ KnownIn(cmem, proc')
         /\ up => OriginalsIn(Loaded(file), dmem, dropped, proc')
         /\ cli.pc # "idle" => OriginalsIn(Loaded(file), cmem, {}, proc')
  <1>1. KernelOK /\ KernelOK' /\ TargetsOK(Loaded(file)) /\ TargetsOK(dmem) /\ TargetsOK(cmem)
    BY DEF WellTyped
  <1>. QED BY <1>1, KnownLater, OriginalsLater DEF OriginalsSafe

LEMMA OriginalsQuiet ==
  ASSUME WellTyped, WellTyped', TimePasses, OriginalsSafe,
         UNCHANGED <<up, job, dropped, cli, cmem, file>>, SameRuntime(dmem', dmem)
  PROVE  OriginalsSafe'
  <1>1. TargetsOK(Loaded(file)) /\ TargetsOK(dmem) /\ TargetsOK(dmem') /\ Loaded(file') = Loaded(file)
    BY DEF WellTyped, Loaded
  <1>2. KnownIn(Loaded(file), proc)' /\ KnownIn(dmem, proc)' /\ KnownIn(cmem, proc)'
    BY <1>1, SafeLater, SameOriginals
  <1>3. up' => BuffersCurrent' BY DEF OriginalsSafe, BuffersCurrent, SameRuntime
  <1>4. up' => OriginalsIn(Loaded(file), dmem, dropped, proc)' BY <1>1, SafeLater, SameOriginals
  <1>5. up' => RuntimeIn(Loaded(file), dmem, dropped)'
    BY <1>1, SameOriginals DEF OriginalsSafe
  <1>6. cli'.pc # "idle" => OriginalsIn(Loaded(file), cmem, {}, proc)' BY <1>1, SafeLater
  <1>7. cli'.pc \in {"bind", "op"} => RuntimeIn(Loaded(file), cmem, {})' BY <1>1 DEF OriginalsSafe
  <1>. QED BY <1>2, <1>3, <1>4, <1>5, <1>6, <1>7 DEF OriginalsSafe

LEMMA NoTargetsKnown == \A k : KnownIn(<< >>, k)
  BY DEF KnownIn

LEMMA OriginalsLife ==
  ASSUME WellTyped, WellTyped', TimePasses, DownIsIdle, TakingTurns', OriginalsSafe,
         Start \/ Kill \/ Stop
  PROVE  OriginalsSafe'
  <1>1. UNCHANGED <<cli, cmem, file>> /\ Loaded(file') = Loaded(file)
    BY DEF Start, Kill, Stop, command, Loaded
  <1>2. /\ KnownIn(Loaded(file), proc)' /\ KnownIn(cmem, proc)'
        /\ cli'.pc # "idle" => OriginalsIn(Loaded(file), cmem, {}, proc)'
        /\ cli'.pc \in {"bind", "op"} => RuntimeIn(Loaded(file), cmem, {})'
    BY <1>1, SafeLater DEF OriginalsSafe
  <1>3. CASE Start
    <2>1. ~up /\ job' = job /\ dropped' = {} /\ \A s \in Savers : job[s].pc = "idle"
      BY <1>3 DEF Start, DownIsIdle, NoJob
    <2>2. SameRuntime(Loaded(file), dmem')
      <3>1. CASE dmem' = Loaded(file) BY <3>1 DEF SameRuntime
      <3>2. CASE \E specs \in PolicySets : dmem' = D!PoliciesInstalled(Loaded(file), specs)
        BY <3>2, DPolicies DEF SameRuntime, WellTyped
      <3>. QED BY <1>3, <3>1, <3>2 DEF Start
    <2>3. TargetsOK(Loaded(file)) /\ TargetsOK(dmem') BY DEF WellTyped
    <2>4. /\ KnownIn(dmem, proc)' /\ OriginalsIn(Loaded(file), dmem, dropped, proc)'
          /\ RuntimeIn(Loaded(file), dmem, dropped)'
      BY <1>1, <1>2, <2>1, <2>2, <2>3, SameOriginals
    <2>5. BuffersCurrent' BY <2>1 DEF BuffersCurrent
    <2>. QED BY <1>2, <2>4, <2>5 DEF OriginalsSafe
  <1>4. CASE Kill
    BY <1>2, <1>4, NoTargetsKnown DEF Kill, Gone, OriginalsSafe
  <1>5. CASE Stop
    <2>1. up /\ UNCHANGED <<up, dmem, dropped>> /\ job' = [job EXCEPT !["exit"].pc = "marshal"]
          /\ job["exit"] = NoJob
      BY <1>5 DEF Stop
    <2>2. /\ \A h \in Handlers : job'[h] = job[h]
          /\ \A s \in Savers : job'[s].pc = "write" => job'[s] = job[s]
      <3>1. job'["exit"].pc = "marshal" BY <2>1 DEF WellTyped, Savers, NoJob
      <3>2. \A s \in Savers : s # "exit" => job'[s] = job[s] BY <2>1 DEF WellTyped
      <3>. QED BY <3>1, <3>2, SessionAssumption DEF Savers
    <2>3. BuffersCurrent' BY <2>1, <2>2 DEF OriginalsSafe, BuffersCurrent
    <2>4. RuntimeIn(Loaded(file), dmem, dropped)' BY <1>1, <2>1 DEF OriginalsSafe
    <2>5. KnownIn(dmem, proc)' /\ OriginalsIn(Loaded(file), dmem, dropped, proc)'
      BY <1>1, <2>1, SafeLater
    <2>. QED BY <1>2, <2>3, <2>4, <2>5 DEF OriginalsSafe
  <1>. QED BY <1>3, <1>4, <1>5

LEMMA OriginalsServe ==
  ASSUME WellTyped, WellTyped', TimePasses, DownIsIdle, TakingTurns, TakingTurns', OriginalsSafe,
         NEW h \in Handlers, Operate(h) \/ \E r \in Requests : Receive(h, r)
  PROVE  OriginalsSafe'
  <1>1. /\ h \in Savers /\ UNCHANGED <<up, cli, cmem, file>>
        /\ Loaded(file') = Loaded(file)
    BY DEF Savers, Operate, Receive, command, Loaded
  <1>2. /\ KnownIn(Loaded(file), proc)' /\ KnownIn(cmem, proc)'
        /\ cli'.pc # "idle" => OriginalsIn(Loaded(file), cmem, {}, proc)'
        /\ cli'.pc \in {"bind", "op"} => RuntimeIn(Loaded(file), cmem, {})'
    BY <1>1, SafeLater DEF OriginalsSafe
  <1>3. \A s \in Savers \ {h} : job'[s] = job[s]
    BY DEF Operate, Receive, WellTyped
  <1>4. up
    <2>1. (\E r \in Requests : Receive(h, r)) => up BY DEF Receive
    <2>2. Operate(h) => job[h].pc = "op" BY DEF Operate
    <2>. QED BY <1>1, <2>1, <2>2 DEF DownIsIdle, NoJob
  <1>5. /\ KnownIn(dmem, proc') /\ OriginalsIn(Loaded(file), dmem, dropped, proc')
        /\ RuntimeIn(Loaded(file), dmem, dropped)
    BY <1>4, SafeLater DEF OriginalsSafe
  <1>6. CASE \E r \in Requests : Receive(h, r)
    <2>1. PICK r \in Requests : Receive(h, r) BY <1>6
    <2>. DEFINE t == <<"runtime", r.name>>
    <2>2. job[h] = NoJob /\ job'[h].pc = "op"
      BY <1>1, <2>1 DEF Receive, WellTyped, NoJob
    <2>3. \A s \in Savers : job[s].pc = "idle" /\ job'[s].pc \in {"idle", "op"}
      BY <1>1, <1>3, <2>2 DEF TakingTurns, NoJob
    <2>4. dropped' = dropped BY <2>1 DEF Receive
    <2>5. proc' = proc /\ \/ dmem' = dmem
                          \/ /\ t \notin DOMAIN dmem /\ Replaces(dmem, t, dmem')
                             /\ BornIn(dmem'[t].bind, proc)
      <3>1. ~Known(dmem, r.name) => t \notin DOMAIN dmem BY DEF Known, NameOf
      <3>. QED BY <2>1, <3>1, ReceiveTypes
    <2>6. /\ KnownIn(dmem, proc)' /\ OriginalsIn(Loaded(file), dmem, dropped, proc)'
          /\ RuntimeIn(Loaded(file), dmem, dropped)'
      <3>1. CASE dmem' = dmem BY <1>1, <1>5, <2>4, <2>5, <3>1
      <3>2. CASE dmem' # dmem
        <4>. HIDE DEF t
        <4>. QED BY <1>1, <1>5, <2>4, <2>5, <3>2, ManagedOriginals
      <3>. QED BY <3>1, <3>2
    <2>7. BuffersCurrent' BY <2>3 DEF BuffersCurrent
    <2>. QED BY <1>2, <2>6, <2>7 DEF OriginalsSafe
  <1>7. CASE Operate(h)
    <2>. DEFINE r == job[h].req
                t == Find(dmem, r.name)
    <2>1. job[h].pc = "op" /\ \A s \in Savers \ {h} : job[s].pc = "idle" /\ job'[s].pc = "idle"
      <3>1. job[h].pc = "op" BY <1>7 DEF Operate
      <3>. QED BY <1>1, <1>3, <3>1, Alone
    <2>2. \/ job' = [job EXCEPT ![h] = NoJob]
          \/ job' = [job EXCEPT ![h] = [job[h] EXCEPT !.pc = "marshal", !.on = t]]
      BY <1>7, OperateTypes
    <2>3. \/ UNCHANGED <<dmem, dropped>>
          \/ /\ Operated(dmem, t, r, dmem') /\ dropped \subseteq dropped'
             /\ r.op = "unmanage" /\ Origin(t) = "runtime" => t \in dropped'
      <3>1. CASE ~Known(dmem, r.name) BY <1>7, <3>1 DEF Operate
      <3>2. CASE Known(dmem, r.name)
        <4>1. dropped' = dropped \cup {u \in {t} : r.op = "unmanage" /\ Origin(u) = "runtime"}
          BY <1>7, <3>2 DEF Operate
        <4>2. Operated(dmem, t, r, dmem') BY <1>7, <3>2, OperateTypes
        <4>. HIDE DEF t, r
        <4>. QED BY <4>1, <4>2
      <3>. QED BY <3>1, <3>2
    <2>4. /\ KnownIn(dmem, proc)' /\ OriginalsIn(Loaded(file), dmem, dropped, proc)'
          /\ RuntimeIn(Loaded(file), dmem, dropped)'
      <3>. HIDE DEF t, r
      <3>1. CASE UNCHANGED <<dmem, dropped>> BY <1>1, <1>5, <3>1
      <3>2. CASE /\ Operated(dmem, t, r, dmem') /\ dropped \subseteq dropped'
                 /\ r.op = "unmanage" /\ Origin(t) = "runtime" => t \in dropped'
        BY <1>1, <1>5, <3>2, OperatedOriginals
      <3>. QED BY <2>3, <3>1, <3>2
    <2>5. job'[h].pc = "idle" \/ job'[h].pc = "marshal"
      <3>1. JobOK(job[h]) /\ DOMAIN job = Savers BY <1>1 DEF WellTyped
      <3>2. CASE job' = [job EXCEPT ![h] = NoJob] BY <1>1, <3>1, <3>2 DEF NoJob
      <3>3. CASE job' = [job EXCEPT ![h] = [job[h] EXCEPT !.pc = "marshal", !.on = t]]
        <4>. HIDE DEF t
        <4>. QED BY <1>1, <3>1, <3>3 DEF JobOK
      <3>. QED BY <2>2, <3>2, <3>3
    <2>6. BuffersCurrent' BY <2>1, <2>5 DEF BuffersCurrent
    <2>. QED BY <1>2, <2>4, <2>6 DEF OriginalsSafe
  <1>. QED BY <1>6, <1>7

LEMMA OriginalsSaved ==
  ASSUME WellTyped, WellTyped', TimePasses, DownIsIdle, TakingTurns, OriginalsSafe,
         NEW s \in Savers, Marshal(s) \/ WriteFile(s) \/ WriteFails(s)
  PROVE  /\ OriginalsSafe'
         /\ file' # file => TargetsOK(file') /\ OriginalsIn(Loaded(file), file', dropped, proc)
  <1>1. job[s].pc # "idle" /\ up
    <2>1. job[s].pc # "idle" BY DEF Marshal, WriteFile, WriteFails
    <2>. QED BY <2>1 DEF DownIsIdle, NoJob
  <1>2. cli.pc = "idle" /\ cli'.pc = "idle" /\ UNCHANGED <<proc, cmem>>
    <2>1. cli = NoCommand BY <1>1 DEF TakingTurns
    <2>2. cli' = cli /\ UNCHANGED <<proc, cmem>>
      BY DEF Marshal, WriteFile, WriteFails, command, kernel
    <2>. QED BY <2>1, <2>2 DEF NoCommand
  <1>3. \A r \in Savers \ {s} : job[r].pc = "idle" BY <1>1, Alone
  <1>4. JobOK(job[s]) /\ DOMAIN job = Savers BY DEF WellTyped
  <1>5. CASE Marshal(s)
    <2>1. /\ UNCHANGED <<up, dmem, file, dropped>> /\ job[s].pc = "marshal"
          /\ job' = [job EXCEPT ![s].pc = "write", ![s].buf = dmem]
      BY <1>5 DEF Marshal
    <2>2. /\ job'[s].pc = "write" /\ job'[s].buf = dmem
          /\ \A r \in Savers \ {s} : job'[r].pc = "idle"
      BY <1>3, <1>4, <2>1 DEF JobOK
    <2>3. BuffersCurrent' BY <2>1, <2>2 DEF BuffersCurrent, SameRuntime
    <2>. QED BY <1>1, <1>2, <2>1, <2>3 DEF OriginalsSafe
  <1>6. CASE WriteFile(s) \/ WriteFails(s)
    <2>. DEFINE buf == job[s].buf
    <2>1. /\ job[s].pc = "write" /\ file' \in {file, buf} /\ (WriteFile(s) => file' = buf)
          /\ s = "exit" => Gone
          /\ s # "exit" => /\ job' = [job EXCEPT ![s] = NoJob]
                           /\ dropped' = IF WriteFails(s) /\ file' = file THEN dropped ELSE {}
                           /\ UNCHANGED <<up, dmem>>
      BY <1>6, WriteTried
    <2>2. /\ SameRuntime(buf, dmem) /\ TargetsOK(buf) /\ TargetsOK(dmem)
          /\ Loaded(buf) = buf /\ TargetsOK(Loaded(file))
      BY <1>1, <1>4, <2>1, LoadedBack DEF OriginalsSafe, BuffersCurrent, JobOK, WellTyped
    <2>3. /\ KnownIn(buf, proc) /\ OriginalsIn(Loaded(file), buf, dropped, proc)
          /\ OriginalsIn(buf, dmem, {}, proc) /\ RuntimeIn(buf, dmem, {})
      <3>1. KnownIn(dmem, proc) /\ OriginalsIn(Loaded(file), dmem, dropped, proc)
        BY <1>1 DEF OriginalsSafe
      <3>2. /\ KnownIn(buf, proc) /\ OriginalsIn(buf, dmem, {}, proc) /\ RuntimeIn(buf, dmem, {})
        BY <2>2, <3>1, SameOriginals
      <3>3. OriginalsIn(Loaded(file), buf, dropped, proc) BY <2>2, <3>1, SameOriginals
      <3>. QED BY <3>2, <3>3
    <2>4. file' # file => TargetsOK(file') /\ OriginalsIn(Loaded(file), file', dropped, proc)
      BY <2>1, <2>2, <2>3
    <2>5. KnownIn(Loaded(file'), proc)
      <3>. HIDE DEF buf
      <3>. QED BY <2>1, <2>2, <2>3 DEF OriginalsSafe
    <2>6. CASE s = "exit"
      <3>1. ~up' /\ dmem' = << >> BY <2>1, <2>6 DEF Gone
      <3>. QED BY <1>2, <2>4, <2>5, <3>1, NoTargetsKnown DEF OriginalsSafe
    <2>7. CASE s # "exit"
      <3>1. \A r \in Savers : job'[r].pc = "idle" BY <1>3, <1>4, <2>1, <2>7 DEF NoJob
      <3>2. BuffersCurrent' BY <3>1 DEF BuffersCurrent
      <3>3. OriginalsIn(Loaded(file), dmem, dropped, proc)' /\ RuntimeIn(Loaded(file), dmem, dropped)'
        <4>. HIDE DEF buf
        <4>1. CASE WriteFails(s) /\ file' = file
          BY <1>1, <1>2, <2>1, <2>7, <4>1 DEF OriginalsSafe
        <4>2. CASE ~(WriteFails(s) /\ file' = file)
          <5>1. file' = buf /\ dropped' = {} BY <1>6, <2>1, <2>7, <4>2
          <5>. QED BY <1>2, <2>1, <2>2, <2>3, <2>7, <5>1
        <4>. QED BY <4>1, <4>2
      <3>. QED BY <1>1, <1>2, <2>1, <2>4, <2>5, <2>7, <3>2, <3>3 DEF OriginalsSafe
    <2>. QED BY <2>6, <2>7
  <1>. QED BY <1>5, <1>6

\* What a command binds anew it keeps the originals of.
LEMMA BindOriginals ==
  ASSUME WellTyped, NothingLetGo, CliBind, NEW f, TargetsOK(f), KnownIn(cmem, proc),
         OriginalsIn(f, cmem, {}, proc), RuntimeIn(f, cmem, {})
  PROVE  KnownIn(cmem', proc) /\ OriginalsIn(f, cmem', {}, proc) /\ RuntimeIn(f, cmem', {})
  <1>1. CASE cmem' = cmem BY <1>1
  <1>2. ASSUME NEW t \in Targets, NEW insts \in Instances(proc),
               Replaces(cmem, t, cmem'), BornIn(cmem'[t].bind, proc),
               t \in DOMAIN cmem => /\ cli.req.op = "manage"
                                    /\ cmem'[t].bind = BindInstances(cmem[t].bind, insts),
               insts = Live \/ \E p \in DOMAIN Live : insts = Restrict(Live, {p})
        PROVE  KnownIn(cmem', proc) /\ OriginalsIn(f, cmem', {}, proc) /\ RuntimeIn(f, cmem', {})
    <2>1. KnownIn(cmem', proc) /\ RuntimeIn(f, cmem', {}) BY <1>2, ManagedOriginals
    <2>2. CASE t \notin DOMAIN cmem BY <1>2, <2>1, <2>2, ManagedOriginals
    <2>3. CASE t \in DOMAIN cmem
      <3>1. \A p, q \in Pids : p = q
        <4>1. cli.req \in Commands BY DEF CliBind, WellTyped, CommandOK
        <4>. QED BY <1>2, <2>3, <4>1 DEF NothingLetGo
      <3>2. \A p \in DOMAIN Live : p \in DOMAIN insts /\ insts[p] = proc[p].inc
        BY <1>2, <3>1 DEF Live, Restrict
      <3>3. ASSUME NEW p \in DOMAIN cmem[t].bind, Revalidate(cmem[t].bind[p], proc[p])
            PROVE  /\ p \in DOMAIN cmem'[t].bind
                   /\ cmem'[t].bind[p] = cmem[t].bind[p]
        <4>1. p \in Pids BY <2>3, IncarnationsAreNumbers DEF WellTyped
        <4>2. p \in DOMAIN insts /\ insts[p] = cmem[t].bind[p].inc
          BY <3>2, <3>3, <4>1 DEF Live, Revalidate
        <4>. QED BY <1>2, <2>3, <4>2 DEF BindInstances
      <3>4. DOMAIN cmem' = DOMAIN cmem /\ \A u \in DOMAIN cmem \ {t} : cmem'[u] = cmem[u]
        BY <1>2, <2>3 DEF Replaces
      <3>5. OriginalsIn(f, cmem', {}, proc)
        <4>1. SUFFICES ASSUME NEW u \in DOMAIN f, Origin(u) = "runtime", u \in DOMAIN cmem',
                              NEW p \in DOMAIN f[u].bind,
                              f[u].bind[p].orig # None, Revalidate(f[u].bind[p], proc[p])
                       PROVE  /\ p \in DOMAIN cmem'[u].bind
                              /\ cmem'[u].bind[p].inc = f[u].bind[p].inc
                              /\ cmem'[u].bind[p].orig = f[u].bind[p].orig
          BY DEF OriginalsIn
        <4>2. /\ p \in DOMAIN cmem[u].bind /\ cmem[u].bind[p].inc = f[u].bind[p].inc
              /\ cmem[u].bind[p].orig = f[u].bind[p].orig
          BY <3>4, <4>1 DEF OriginalsIn
        <4>3. Revalidate(cmem[u].bind[p], proc[p]) BY <4>1, <4>2 DEF Revalidate
        <4>. QED BY <3>3, <3>4, <4>1, <4>2, <4>3
      <3>. QED BY <2>1, <3>5
    <2>. QED BY <2>2, <2>3
  <1>. QED BY <1>1, <1>2, BindTypes

LEMMA OriginalsCommand ==
  ASSUME WellTyped, WellTyped', TimePasses, DownIsIdle, TakingTurns, TakingTurns', OriginalsSafe,
         NothingLetGo,
         \/ \E r \in Commands : CliLoad(r)
         \/ CliBind \/ CliOperate \/ CliSave \/ CliSaveFails \/ CliKill
  PROVE  /\ OriginalsSafe'
         /\ file' # file => TargetsOK(file') /\ OriginalsIn(Loaded(file), file', dropped, proc)
  <1>1. UNCHANGED <<up, dmem, job>>
    BY DEF CliLoad, CliBind, CliOperate, CliSave, CliSaveFails, CliKill, daemon
  <1>2. ~up /\ ~up'
    <2>1. cli # NoCommand \/ cli' # NoCommand
      <3>1. ASSUME NEW r \in Commands, CliLoad(r) PROVE cli' # NoCommand
        <4>1. cli' = [NoCommand EXCEPT !.pc = "bind", !.req = r] BY <3>1 DEF CliLoad
        <4>2. cli'.pc = "bind" BY <4>1 DEF NoCommand
        <4>. QED BY <4>2 DEF NoCommand
      <3>2. CliBind \/ CliOperate \/ CliSave \/ CliSaveFails => cli.pc # "idle"
        BY DEF CliBind, CliOperate, CliSave, CliSaveFails
      <3>3. CliKill => cli # NoCommand BY DEF CliKill
      <3>. QED BY <3>1, <3>2, <3>3 DEF NoCommand
    <2>. QED BY <1>1, <2>1 DEF TakingTurns
  <1>3. KnownIn(dmem, proc)' /\ TargetsOK(Loaded(file)) /\ TargetsOK(cmem)
    BY <1>1, SafeLater DEF WellTyped
  <1>4. ASSUME NEW r \in Commands, CliLoad(r) PROVE OriginalsSafe' /\ file' = file
    <2>1. /\ UNCHANGED <<file, proc>> /\ cmem' = Loaded(file) /\ Loaded(file') = Loaded(file)
      BY <1>4 DEF CliLoad, kernel, Loaded
    <2>2. OriginalsIn(Loaded(file), Loaded(file), {}, proc) /\ RuntimeIn(Loaded(file), Loaded(file), {})
      BY DEF OriginalsIn, RuntimeIn
    <2>. QED BY <1>2, <1>3, <2>1, <2>2 DEF OriginalsSafe
  <1>5. CASE CliBind
    <2>1. UNCHANGED file /\ cli.pc = "bind" /\ Loaded(file') = Loaded(file)
      BY <1>5 DEF CliBind, Loaded
    <2>2. UNCHANGED proc BY <1>5, BindTypes
    <2>3. /\ KnownIn(cmem', proc) /\ OriginalsIn(Loaded(file), cmem', {}, proc)
          /\ RuntimeIn(Loaded(file), cmem', {})
      BY <1>3, <1>5, <2>1, BindOriginals DEF OriginalsSafe
    <2>. QED BY <1>2, <1>3, <2>1, <2>2, <2>3 DEF OriginalsSafe
  <1>6. CASE CliOperate
    <2>1. UNCHANGED file /\ cli.pc = "op" /\ Loaded(file') = Loaded(file)
      BY <1>6 DEF CliOperate, Loaded
    <2>2. /\ KnownIn(Loaded(file), proc') /\ KnownIn(cmem, proc')
          /\ OriginalsIn(Loaded(file), cmem, {}, proc')
      BY <2>1, SafeLater
    <2>3. CASE cli' = NoCommand /\ cmem' = << >>
      BY <1>2, <1>3, <2>1, <2>2, <2>3, NoTargetsKnown DEF OriginalsSafe, NoCommand
    <2>4. ASSUME NEW t, Operated(cmem, t, cli.req, cmem'), cli' = [cli EXCEPT !.pc = "save", !.on = t]
          PROVE  OriginalsSafe'
      <3>1. KnownIn(cmem', proc') /\ OriginalsIn(Loaded(file), cmem', {}, proc')
        <4>1. {} \subseteq {} OBVIOUS
        <4>. QED BY <2>2, <2>4, <4>1, OperatedOriginals
      <3>2. cli'.pc = "save" BY <2>4 DEF WellTyped, CommandOK
      <3>. QED BY <1>2, <1>3, <2>1, <2>2, <3>1, <3>2 DEF OriginalsSafe
    <2>. QED BY <1>6, <2>1, <2>3, <2>4, CliOperateTypes
  <1>7. CASE CliSave \/ CliSaveFails
    <2>1. cli.pc = "save" /\ cli'.pc = "idle" /\ cmem' = << >> /\ (file' = file \/ file' = cmem)
          /\ UNCHANGED proc
      BY <1>7 DEF CliSave, CliSaveFails, NoCommand, kernel
    <2>2. KnownIn(cmem, proc) /\ OriginalsIn(Loaded(file), cmem, {}, proc) /\ KnownIn(Loaded(file), proc)
      BY <2>1 DEF OriginalsSafe
    <2>3. KnownIn(Loaded(file'), proc)
      BY <1>3, <2>1, <2>2, LoadedBack
    <2>4. OriginalsSafe' BY <1>2, <1>3, <2>1, <2>3, NoTargetsKnown DEF OriginalsSafe
    <2>5. dropped = {} BY <1>2 DEF DownIsIdle
    <2>. QED BY <1>3, <2>1, <2>2, <2>4, <2>5
  <1>8. CASE CliKill
    <2>1. UNCHANGED <<file, proc>> /\ cli'.pc = "idle" /\ cmem' = << >> BY <1>8 DEF CliKill, NoCommand, kernel
    <2>2. Loaded(file') = Loaded(file) BY <2>1 DEF Loaded
    <2>. QED BY <1>2, <1>3, <2>1, <2>2, NoTargetsKnown DEF OriginalsSafe
  <1>. QED BY <1>4, <1>5, <1>6, <1>7, <1>8

LEMMA OriginalsStep ==
  ASSUME NothingLetGo, WellTyped, WellTyped', TimePasses, DownIsIdle,
         TakingTurns, TakingTurns', OriginalsSafe, [Next]_vars
  PROVE  /\ OriginalsSafe'
         /\ file' # file => TargetsOK(file') /\ OriginalsIn(Loaded(file), file', dropped, proc)
  <1>1. CASE KernelStep \/ TickError \/ UNCHANGED vars
    <2>1. UNCHANGED <<up, job, dropped, cli, cmem, file, dmem>>
      BY <1>1 DEF KernelStep, TickError, vars, daemon, command, history
    <2>. QED BY <2>1, OriginalsQuiet DEF SameRuntime
  <1>2. CASE Sample \/ Reconcile \/ Reload
    <2>1. UNCHANGED <<up, job, dropped, cli, cmem, file>>
      BY <1>2 DEF Sample, Reconcile, Reload, command, history
    <2>. QED BY <1>2, <2>1, OriginalsQuiet, TickTypes
  <1>3. CASE Start \/ Kill \/ Stop
    BY <1>3, OriginalsLife DEF Start, Kill, Stop
  <1>4. ASSUME NEW h \in Handlers, Operate(h) \/ \E r \in Requests : Receive(h, r)
        PROVE  OriginalsSafe' /\ file' = file
    <2>1. file' = file BY <1>4 DEF Operate, Receive
    <2>. QED BY <1>4, <2>1, OriginalsServe
  <1>. QED BY <1>1, <1>2, <1>3, <1>4, OriginalsSaved, OriginalsCommand DEF Next

LEMMA OriginalsInit == Init => OriginalsSafe
  <1>1. Init => /\ ~up /\ dmem = << >> /\ cmem = << >> /\ Loaded(file) = << >> /\ cli.pc = "idle"
    BY SessionAssumption DEF Init, D!Init, NoCommand, Loaded
  <1>. QED BY <1>1, NoTargetsKnown DEF OriginalsSafe

\* Whenever the users of the state file take turns, no save, of the daemon or of a
\* command, loses the original of a process that lives under a runtime target.
THEOREM SavesKeepOriginals ==
  ASSUME NothingLetGo
  PROVE  Spec /\ []TakingTurns => SavedOriginalsKept
  <1>. DEFINE Kept ==
         file # None =>
           \A t \in DOMAIN file \ dropped : Origin(t) = "runtime" =>
             /\ file' # None
             /\ t \in DOMAIN file' =>
                  \A p \in DOMAIN file[t].bind :
                    file[t].bind[p].orig # None /\ Revalidate(file[t].bind[p], proc[p]) =>
                      p \in DOMAIN file'[t].bind /\ file'[t].bind[p].orig = file[t].bind[p].orig
  <1>1. /\ OriginalsSafe /\ DownIsIdle /\ WellTyped /\ WellTyped' /\ TimePasses
        /\ TakingTurns /\ TakingTurns' /\ [Next]_vars
        => OriginalsSafe' /\ [Kept]_vars
    <2>1. SUFFICES ASSUME OriginalsSafe, DownIsIdle, WellTyped, WellTyped', TimePasses,
                          TakingTurns, TakingTurns', [Next]_vars
                   PROVE  OriginalsSafe' /\ Kept
      OBVIOUS
    <2>2. /\ OriginalsSafe'
          /\ file' # file => TargetsOK(file') /\ OriginalsIn(Loaded(file), file', dropped, proc)
      BY <2>1, OriginalsStep
    <2>3. CASE file' = file BY <2>2, <2>3
    <2>4. CASE file' # file
      <3>1. file # None => Loaded(file) = file BY DEF Loaded
      <3>2. file' # None BY <2>2, <2>4, NoneIsNoState
      <3>. QED BY <2>2, <2>4, <3>1, <3>2 DEF OriginalsIn
    <2>. QED BY <2>3, <2>4
  <1>2. SavedOriginalsKept <=> [][Kept]_vars BY DEF SavedOriginalsKept
  <1>. HIDE DEF Kept
  <1>. QED BY <1>1, <1>2, IntentsInit, OriginalsInit, DownIsIdleStep, TypesInit, TypesStep, PTL DEF Spec

(***************************************************************************)
(* Whose value an original is.                                             *)
(***************************************************************************)
\* The daemon and a command do not run at the same time.
OneManager == up => cli = NoCommand

\* By the process table k and the history f: what m has captured is somebody else's, and
\* a nice value procfit answers for is of a process that m holds.
Theirs(m, k, f) ==
  \A t \in DOMAIN m : \A p \in DOMAIN m[t].bind :
    m[t].bind[p].inc <= k[p].inc /\ (HeldIn(m, t, p, k) => m[t].bind[p].orig \in f[p])

Accounted(m, k, f) ==
  \A p \in Pids : k[p].nice \in f[p] \/ \E t \in DOMAIN m : HeldIn(m, t, p, k)

\* Wherever an original is kept, it is theirs; and whoever is to capture next, the manager
\* that runs or the one that will load the file, holds what procfit has set.
OriginalsTheirs ==
  /\ foreign = [p \in Pids |-> foreign[p]]
  /\ Theirs(dmem, proc, foreign) /\ Theirs(cmem, proc, foreign) /\ Theirs(Saved, proc, foreign)
  /\ \A s \in Savers : Theirs(job[s].buf, proc, foreign)
  /\ up => Accounted(dmem, proc, foreign)
  /\ cli # NoCommand => Accounted(cmem, proc, foreign)
  /\ ~up /\ cli = NoCommand => Accounted(Saved, proc, foreign)

LEMMA HoldsIs ==
  /\ \A m, t, p : Holds(m, t, p) <=> HeldIn(m, t, p, proc)
  /\ \A m, t, p : BindsNow(m, t, p) <=> BoundIn(m, t, p, proc)
  BY DEF Holds, BindsNow, HeldIn, BoundIn

LEMMA SavedIsLoaded == Saved = Loaded(file)
  BY DEF Saved, Loaded

LEMMA NothingTheirs == \A k, f : Theirs(<< >>, k, f)
  BY DEF Theirs

\* From the process table k and history f to l and g, a pid has the same process, and
\* its history grows, or it has a new one.
Onwards(k, f, l, g) ==
  \A p \in Pids :
    /\ k[p].inc \in Nat /\ l[p].inc \in Nat
    /\ \/ l[p].inc = k[p].inc /\ f[p] \subseteq g[p]
       \/ l[p].inc > k[p].inc

LEMMA TheirsLater ==
  ASSUME NEW k, NEW f, NEW l, NEW g, Onwards(k, f, l, g), NEW m, TargetsOK(m), Theirs(m, k, f)
  PROVE  Theirs(m, l, g)
  <1>1. SUFFICES ASSUME NEW t \in DOMAIN m, NEW p \in DOMAIN m[t].bind
                 PROVE  /\ m[t].bind[p].inc <= l[p].inc
                        /\ HeldIn(m, t, p, l) => m[t].bind[p].orig \in g[p]
    BY DEF Theirs
  <1>2. p \in Pids /\ m[t].bind[p].inc \in Nat BY IncarnationsAreNumbers
  <1>3. m[t].bind[p].inc <= k[p].inc /\ (HeldIn(m, t, p, k) => m[t].bind[p].orig \in f[p])
    BY DEF Theirs
  <1>4. /\ k[p].inc \in Nat /\ l[p].inc \in Nat
        /\ \/ l[p].inc = k[p].inc /\ f[p] \subseteq g[p]
           \/ l[p].inc > k[p].inc
    BY <1>2 DEF Onwards
  <1>. QED BY <1>2, <1>3, <1>4 DEF HeldIn, BoundIn

\* Outside changes are recorded, so they leave the accounts in order.
LEMMA AccountedLater ==
  ASSUME NEW k, NEW f, NEW l, NEW g, NEW m, Accounted(m, k, f),
         \A p \in Pids : \/ l[p].nice \in g[p]
                         \/ l[p].inc = k[p].inc /\ l[p].nice = k[p].nice /\ f[p] \subseteq g[p]
  PROVE  Accounted(m, l, g)
  BY DEF Accounted, HeldIn, BoundIn

Grown(k, f, l, g) == \A p \in Pids : l[p].inc = k[p].inc /\ f[p] \subseteq g[p]

\* By the history g, the nice values are theirs that were found on the processes that a
\* target of m lets go of in m2, and on those that a second target captures there.
Told(m, m2, k, g) ==
  \A t \in DOMAIN m : \A p \in Pids :
    /\ HeldIn(m, t, p, k) /\ ~BoundIn(m2, t, p, k) => k[p].nice \in g[p]
    /\ \A u \in DOMAIN m2 \ {t} :
         HeldIn(m, t, p, k) /\ ~HeldIn(m, u, p, k) /\ HeldIn(m2, u, p, k) => k[p].nice \in g[p]

\* The operation, with what is recorded of it, keeps both.
LEMMA TransferKeeps ==
  ASSUME NEW m, TargetsOK(m), NEW m2, TargetsOK(m2), NEW k, NEW l, NEW f, NEW g,
         Grown(k, f, l, g), Transfers(m, m2, k, l), Told(m, m2, k, g),
         Theirs(m, k, f), Accounted(m, k, f)
  PROVE  Theirs(m2, l, g) /\ Accounted(m2, l, g)
  <1>. USE DEF Grown, Told
  <1>1. \A u \in DOMAIN m2 : \A p \in DOMAIN m2[u].bind : p \in Pids
    BY IncarnationsAreNumbers
  <1>2. \A u, p : p \in Pids => (HeldIn(m2, u, p, l) <=> HeldIn(m2, u, p, k))
    BY DEF HeldIn, BoundIn
  <1>3. ASSUME NEW u \in DOMAIN m2, NEW p \in DOMAIN m2[u].bind
        PROVE  /\ m2[u].bind[p].inc <= l[p].inc
               /\ HeldIn(m2, u, p, l) => m2[u].bind[p].orig \in g[p]
    <2>1. p \in Pids /\ l[p].inc = k[p].inc /\ f[p] \subseteq g[p] BY <1>1
    <2>2. /\ \/ m2[u].bind[p].inc <= k[p].inc
             \/ u \in DOMAIN m /\ p \in DOMAIN m[u].bind /\ m2[u].bind[p].inc = m[u].bind[p].inc
          /\ HeldIn(m2, u, p, k) =>
               m2[u].bind[p].orig = IF HeldIn(m, u, p, k) THEN m[u].bind[p].orig ELSE k[p].nice
      BY DEF Transfers
    <2>3. u \in DOMAIN m /\ p \in DOMAIN m[u].bind => m[u].bind[p].inc <= k[p].inc BY DEF Theirs
    <2>4. ASSUME HeldIn(m2, u, p, k) PROVE m2[u].bind[p].orig \in g[p]
      <3>1. CASE HeldIn(m, u, p, k)
        <4>1. u \in DOMAIN m /\ p \in DOMAIN m[u].bind BY <3>1 DEF HeldIn, BoundIn
        <4>2. m[u].bind[p].orig \in f[p] BY <3>1, <4>1 DEF Theirs
        <4>. QED BY <2>1, <2>2, <2>4, <3>1, <4>2
      <3>2. CASE ~HeldIn(m, u, p, k)
        <4>1. k[p].nice \in f[p] \/ \E t \in DOMAIN m : HeldIn(m, t, p, k)
          BY <2>1 DEF Accounted
        <4>2. ASSUME NEW t \in DOMAIN m, HeldIn(m, t, p, k) PROVE k[p].nice \in g[p]
          <5>1. t # u BY <3>2, <4>2
          <5>. QED BY <2>1, <2>4, <3>2, <4>2, <5>1
        <4>. QED BY <2>1, <2>2, <2>4, <3>2, <4>1, <4>2
      <3>. QED BY <3>1, <3>2
    <2>. QED BY <1>2, <2>1, <2>2, <2>3, <2>4
  <1>4. ASSUME NEW p \in Pids PROVE l[p].nice \in g[p] \/ \E t \in DOMAIN m2 : HeldIn(m2, t, p, l)
    <2>1. CASE l[p].nice # k[p].nice
      <3>1. \E t \in DOMAIN m2 : HeldIn(m2, t, p, k) BY <2>1 DEF Transfers
      <3>. QED BY <1>2, <3>1
    <2>2. CASE l[p].nice = k[p].nice
      <3>1. k[p].nice \in f[p] \/ \E t \in DOMAIN m : HeldIn(m, t, p, k) BY DEF Accounted
      <3>2. ASSUME NEW t \in DOMAIN m, HeldIn(m, t, p, k), BoundIn(m2, t, p, k)
            PROVE  t \in DOMAIN m2 /\ HeldIn(m2, t, p, k)
        <4>1. t \in DOMAIN m2 /\ p \in DOMAIN m2[t].bind BY <3>2 DEF BoundIn
        <4>. QED BY <3>2, <4>1 DEF Transfers
      <3>. QED BY <1>2, <2>2, <3>1, <3>2
    <2>. QED BY <2>1, <2>2
  <1>. QED BY <1>3, <1>4 DEF Theirs, Accounted

LEMMA ServedOnwards ==
  ASSUME WellTyped, WellTyped', SameProcesses \/ UNCHANGED proc, NEW S, Disown(S)
  PROVE  /\ Onwards(proc, foreign, proc', foreign')
         /\ Grown(proc, foreign, proc', foreign')
         /\ \A p \in Pids : p \in S => proc[p].nice \in foreign'[p]
         /\ foreign' = [p \in Pids |-> foreign'[p]]
  <1>1. \A p \in Pids : proc[p].inc \in Nat /\ proc'[p].inc \in Nat /\ proc'[p].inc = proc[p].inc
    BY BirthsAreNumbers DEF WellTyped, KernelOK, SameProcesses
  <1>2. foreign' = [p \in Pids |-> IF p \in S THEN foreign[p] \cup {proc[p].nice} ELSE foreign[p]]
    BY DEF Disown
  <1>. QED BY <1>1, <1>2 DEF Onwards, Grown

\* What the places that an operation does not touch hold stays somebody else's.
LEMMA PlacesKept ==
  ASSUME WellTyped, WellTyped', OriginalsTheirs, Onwards(proc, foreign, proc', foreign')
  PROVE  /\ Theirs(dmem, proc', foreign') /\ Theirs(cmem, proc', foreign')
         /\ Theirs(Saved, proc', foreign')
         /\ \A s \in Savers : Theirs(job[s].buf, proc', foreign')
  <1>1. TargetsOK(dmem) /\ TargetsOK(cmem) /\ TargetsOK(Saved) /\ \A s \in Savers : TargetsOK(job[s].buf)
    BY SavedIsLoaded DEF WellTyped, JobOK
  <1>. QED BY <1>1, TheirsLater DEF OriginalsTheirs

\* The files and buffers after a step, each as before or emptied.
BuffersKept == \A s \in Savers : job'[s].buf = job[s].buf \/ job'[s].buf = << >>

\* A step that changes neither the processes nor the targets.
LEMMA OriginsQuiet ==
  ASSUME OriginalsTheirs, UNCHANGED <<up, cli, cmem, file, dmem, proc, foreign>>, BuffersKept
  PROVE  OriginalsTheirs'
  <1>1. Saved' = Saved BY DEF Saved
  <1>2. \A s \in Savers : Theirs(job'[s].buf, proc, foreign)
    BY NothingTheirs DEF OriginalsTheirs, BuffersKept
  <1>3. \A s \in Savers : Theirs(job'[s].buf, proc', foreign') BY <1>2
  <1>4. /\ Theirs(dmem', proc', foreign') /\ Theirs(cmem', proc', foreign')
        /\ Theirs(Saved', proc', foreign')
    BY <1>1 DEF OriginalsTheirs
  <1>5. /\ up' => Accounted(dmem', proc', foreign')
        /\ cli' # NoCommand => Accounted(cmem', proc', foreign')
        /\ ~up' /\ cli' = NoCommand => Accounted(Saved', proc', foreign')
    BY <1>1 DEF OriginalsTheirs
  <1>6. foreign' = [p \in Pids |-> foreign'[p]] BY DEF OriginalsTheirs
  <1>. QED BY <1>3, <1>4, <1>5, <1>6 DEF OriginalsTheirs, Theirs, Accounted, HeldIn, BoundIn

\* What is disowned covers what a target let go of and what a second one took.
LEMMA Covered ==
  ASSUME NEW m, TargetsOK(m), NEW m2, NEW S, LetGo(m, m2) \subseteq S, Shared(m, m2) \subseteq S,
         NEW g, \A p \in Pids : p \in S => proc[p].nice \in g[p]
  PROVE  Told(m, m2, proc, g)
  <1>. SUFFICES ASSUME NEW t \in DOMAIN m, NEW p \in Pids, HeldIn(m, t, p, proc)
                PROVE  /\ ~BoundIn(m2, t, p, proc) => p \in S
                       /\ \A u \in DOMAIN m2 \ {t} :
                            ~HeldIn(m, u, p, proc) /\ HeldIn(m2, u, p, proc) => p \in S
    BY DEF Told
  <1>1. ~BoundIn(m2, t, p, proc) => p \in LetGo(m, m2) BY HoldsIs DEF LetGo
  <1>2. ASSUME NEW u \in DOMAIN m2 \ {t}, ~HeldIn(m, u, p, proc), HeldIn(m2, u, p, proc)
        PROVE  p \in Shared(m, m2)
    BY <1>2, HoldsIs DEF Shared
  <1>. QED BY <1>1, <1>2

\* An operation that drops no binding of the targets it leaves lets go only of dropped ones.
LEMMA OnlyDropped ==
  ASSUME NEW m, NEW m2,
         \A t \in DOMAIN m \cap DOMAIN m2 : \A p \in DOMAIN m[t].bind :
           p \in DOMAIN m2[t].bind /\ m2[t].bind[p].inc = m[t].bind[p].inc
  PROVE  LetGo(m, m2) \subseteq Dropped(m, m2)
  BY DEF LetGo, Dropped, Holds, BindsNow

LEMMA NoneShared ==
  ASSUME NEW m, NEW m2,
         \A u \in DOMAIN m2 : \A p : HeldIn(m2, u, p, proc) => HeldIn(m, u, p, proc)
  PROVE  Shared(m, m2) = {}
  BY HoldsIs DEF Shared

\* An operation of the daemon.
LEMMA DaemonOrigins ==
  ASSUME WellTyped, WellTyped', OneManager, OriginalsTheirs, up, SameProcesses \/ UNCHANGED proc,
         Transfers(dmem, dmem', proc, proc'), BuffersKept, UNCHANGED <<up, cli, cmem, file>>,
         NEW S, Disown(S), LetGo(dmem, dmem') \subseteq S, Shared(dmem, dmem') \subseteq S
  PROVE  OriginalsTheirs'
  <1>1. /\ Onwards(proc, foreign, proc', foreign')
        /\ Grown(proc, foreign, proc', foreign')
        /\ \A p \in Pids : p \in S => proc[p].nice \in foreign'[p]
        /\ foreign' = [p \in Pids |-> foreign'[p]]
    BY ServedOnwards
  <1>2. TargetsOK(dmem) /\ TargetsOK(dmem') BY DEF WellTyped
  <1>3. Theirs(dmem, proc, foreign) /\ Accounted(dmem, proc, foreign) BY DEF OriginalsTheirs
  <1>4. Told(dmem, dmem', proc, foreign')
    BY <1>1, <1>2, Covered
  <1>5. Theirs(dmem', proc', foreign') /\ Accounted(dmem', proc', foreign')
    BY <1>1, <1>2, <1>3, <1>4, TransferKeeps
  <1>6. /\ Theirs(cmem, proc', foreign') /\ Theirs(Saved, proc', foreign')
        /\ \A s \in Savers : Theirs(job[s].buf, proc', foreign')
    BY <1>1, PlacesKept
  <1>7. \A s \in Savers : Theirs(job'[s].buf, proc', foreign')
    BY <1>6, NothingTheirs DEF BuffersKept
  <1>8. Saved' = Saved BY DEF Saved
  <1>. QED BY <1>1, <1>5, <1>6, <1>7, <1>8 DEF OriginalsTheirs, OneManager

\* An operation of a command.
LEMMA CommandOrigins ==
  ASSUME WellTyped, WellTyped', OneManager, OriginalsTheirs, cli # NoCommand, cli' # NoCommand,
         SameProcesses \/ UNCHANGED proc, Transfers(cmem, cmem', proc, proc'),
         UNCHANGED <<up, dmem, job, file>>,
         NEW S, Disown(S), LetGo(cmem, cmem') \subseteq S, Shared(cmem, cmem') \subseteq S
  PROVE  OriginalsTheirs'
  <1>1. /\ Onwards(proc, foreign, proc', foreign')
        /\ Grown(proc, foreign, proc', foreign')
        /\ \A p \in Pids : p \in S => proc[p].nice \in foreign'[p]
        /\ foreign' = [p \in Pids |-> foreign'[p]]
    BY ServedOnwards
  <1>2. TargetsOK(cmem) /\ TargetsOK(cmem') BY DEF WellTyped
  <1>3. Theirs(cmem, proc, foreign) /\ Accounted(cmem, proc, foreign) BY DEF OriginalsTheirs
  <1>4. Told(cmem, cmem', proc, foreign')
    BY <1>1, <1>2, Covered
  <1>5. Theirs(cmem', proc', foreign') /\ Accounted(cmem', proc', foreign')
    BY <1>1, <1>2, <1>3, <1>4, TransferKeeps
  <1>6. /\ Theirs(dmem, proc', foreign') /\ Theirs(Saved, proc', foreign')
        /\ \A s \in Savers : Theirs(job[s].buf, proc', foreign')
    BY <1>1, PlacesKept
  <1>7. Saved' = Saved /\ ~up' BY DEF Saved, OneManager
  <1>. QED BY <1>1, <1>5, <1>6, <1>7 DEF OriginalsTheirs

\* Manager m ends, and m2 is left.
LEMMA ForgottenAccounted ==
  ASSUME WellTyped, WellTyped', UNCHANGED proc, NEW m, NEW m2, Accounted(m, proc, foreign),
         Disown(Forgotten(m, m2))
  PROVE  Accounted(m2, proc', foreign')
  <1>1. \A p \in Pids : /\ foreign[p] \subseteq foreign'[p]
                        /\ p \in Forgotten(m, m2) => proc[p].nice \in foreign'[p]
    BY ServedOnwards DEF Grown
  <1>2. ASSUME NEW p \in Pids
        PROVE  proc[p].nice \in foreign'[p] \/ \E t \in DOMAIN m2 : HeldIn(m2, t, p, proc)
    <2>1. CASE proc[p].nice \in foreign[p] BY <1>1, <2>1
    <2>2. CASE \E t \in DOMAIN m : HeldIn(m, t, p, proc)
      <3>1. PICK t \in DOMAIN m : HeldIn(m, t, p, proc) BY <2>2
      <3>2. CASE HeldIn(m2, t, p, proc) BY <3>2 DEF HeldIn, BoundIn
      <3>3. CASE ~HeldIn(m2, t, p, proc)
        <4>1. p \in Forgotten(m, m2) BY <3>1, <3>3, HoldsIs DEF Forgotten
        <4>. QED BY <1>1, <4>1
      <3>. QED BY <3>2, <3>3
    <2>. QED BY <2>1, <2>2 DEF Accounted
  <1>. QED BY <1>2 DEF Accounted

LEMMA OriginsKernel ==
  ASSUME WellTyped, WellTyped', OriginalsTheirs, KernelStep
  PROVE  OriginalsTheirs'
  <1>1. PICK p \in Pids :
          \/ D!Exit(p) /\ UNCHANGED foreign
          \/ \E n \in OutsideNices, c \in Cgroups :
               D!Spawn(p, n, c) /\ foreign' = [foreign EXCEPT ![p] = {n}]
          \/ \E n \in OutsideNices :
               D!OutsideRenice(p, n) /\ foreign' = [foreign EXCEPT ![p] = @ \cup {n}]
    BY DEF KernelStep
  <1>2. foreign = [q \in Pids |-> foreign[q]] BY DEF OriginalsTheirs
  <1>3. proc \in [Pids -> Process] /\ proc' \in [Pids -> Process]
        /\ \A q \in Pids : proc[q].inc \in Nat /\ proc'[q].inc \in Nat
    BY BirthsAreNumbers DEF WellTyped, KernelOK
  <1>4. \A q \in Pids \ {p} : proc'[q] = proc[q] /\ foreign'[q] = foreign[q]
    BY <1>1, <1>2, <1>3 DEF D!Exit, D!Spawn, D!OutsideRenice
  <1>5. /\ \/ proc'[p].inc = proc[p].inc /\ foreign[p] \subseteq foreign'[p]
           \/ proc'[p].inc > proc[p].inc
        /\ \/ proc'[p].nice \in foreign'[p]
           \/ /\ proc'[p].inc = proc[p].inc /\ proc'[p].nice = proc[p].nice
              /\ foreign[p] \subseteq foreign'[p]
    <2>. USE <1>2, <1>3
    <2>1. CASE D!Exit(p) /\ UNCHANGED foreign
      BY <2>1 DEF D!Exit, Process
    <2>2. CASE \E n \in OutsideNices, c \in Cgroups :
                 D!Spawn(p, n, c) /\ foreign' = [foreign EXCEPT ![p] = {n}]
      <3>1. PICK n \in OutsideNices, c \in Cgroups :
              D!Spawn(p, n, c) /\ foreign' = [foreign EXCEPT ![p] = {n}]
        BY <2>2
      <3>2. proc'[p].inc = proc[p].inc + 1 /\ proc'[p].nice = n BY <3>1 DEF D!Spawn
      <3>3. foreign'[p] = {n} BY <3>1
      <3>. QED BY <3>2, <3>3
    <2>3. CASE \E n \in OutsideNices :
                 D!OutsideRenice(p, n) /\ foreign' = [foreign EXCEPT ![p] = @ \cup {n}]
      BY <2>3 DEF D!OutsideRenice, Process
    <2>. QED BY <1>1, <2>1, <2>2, <2>3
  <1>6. foreign' = [q \in Pids |-> foreign'[q]] BY <1>1, <1>2
  <1>7. Onwards(proc, foreign, proc', foreign') BY <1>3, <1>4, <1>5 DEF Onwards
  <1>8. \A q \in Pids : \/ proc'[q].nice \in foreign'[q]
                        \/ /\ proc'[q].inc = proc[q].inc /\ proc'[q].nice = proc[q].nice
                           /\ foreign[q] \subseteq foreign'[q]
    BY <1>4, <1>5
  <1>9. \A m : Accounted(m, proc, foreign) => Accounted(m, proc', foreign') BY <1>8, AccountedLater
  <1>10. UNCHANGED <<up, dmem, job, cli, cmem, file>> /\ Saved' = Saved
    BY DEF KernelStep, daemon, command, Saved
  <1>11. /\ Theirs(dmem, proc', foreign') /\ Theirs(cmem, proc', foreign')
         /\ Theirs(Saved, proc', foreign')
         /\ \A s \in Savers : Theirs(job[s].buf, proc', foreign')
    BY <1>7, PlacesKept
  <1>. QED BY <1>6, <1>9, <1>10, <1>11 DEF OriginalsTheirs

LEMMA OriginsStart ==
  ASSUME WellTyped, WellTyped', OneManager', OriginalsTheirs, Start
  PROVE  OriginalsTheirs'
  <1>1. /\ ~up /\ up' /\ UNCHANGED <<proc, job, cli, cmem, file>> /\ Disown(Dropped(Saved, dmem'))
        /\ \/ dmem' = Saved
           \/ \E specs \in PolicySets : dmem' = D!PoliciesInstalled(Saved, specs)
    BY SavedIsLoaded DEF Start, kernel, command
  <1>2. cli = NoCommand BY <1>1 DEF OneManager
  <1>3. TargetsOK(Saved) /\ TargetsOK(dmem') BY SavedIsLoaded DEF WellTyped
  <1>4. \A t \in DOMAIN dmem' :
          dmem'[t].bind = IF t \in DOMAIN Saved THEN Saved[t].bind ELSE << >>
    <2>1. CASE dmem' = Saved BY <2>1
    <2>2. CASE \E specs \in PolicySets : dmem' = D!PoliciesInstalled(Saved, specs)
      BY <1>3, <2>2, DPolicies
    <2>. QED BY <1>1, <2>1, <2>2
  <1>5. Transfers(Saved, dmem', proc, proc') BY <1>1, <1>4, NoneTransferred
  <1>6. LetGo(Saved, dmem') \subseteq Dropped(Saved, dmem')
    BY <1>4, OnlyDropped
  <1>7. Shared(Saved, dmem') = {}
    <2>1. \A u \in DOMAIN dmem' : \A p : HeldIn(dmem', u, p, proc) => HeldIn(Saved, u, p, proc)
      BY <1>4 DEF HeldIn, BoundIn
    <2>. QED BY <2>1, NoneShared
  <1>8. /\ Onwards(proc, foreign, proc', foreign') /\ Grown(proc, foreign, proc', foreign')
        /\ \A p \in Pids : p \in Dropped(Saved, dmem') => proc[p].nice \in foreign'[p]
        /\ foreign' = [p \in Pids |-> foreign'[p]]
    BY <1>1, ServedOnwards
  <1>9. Told(Saved, dmem', proc, foreign') BY <1>3, <1>6, <1>7, <1>8, Covered
  <1>10. Theirs(Saved, proc, foreign) /\ Accounted(Saved, proc, foreign)
    BY <1>1, <1>2 DEF OriginalsTheirs
  <1>11. Theirs(dmem', proc', foreign') /\ Accounted(dmem', proc', foreign')
    BY <1>3, <1>5, <1>8, <1>9, <1>10, TransferKeeps
  <1>12. /\ Theirs(cmem, proc', foreign') /\ Theirs(Saved, proc', foreign')
         /\ \A s \in Savers : Theirs(job[s].buf, proc', foreign')
    BY <1>8, PlacesKept
  <1>13. Saved' = Saved BY <1>1 DEF Saved
  <1>. QED BY <1>1, <1>2, <1>8, <1>11, <1>12, <1>13 DEF OriginalsTheirs

\* The daemon ends; m2 is what the file holds after it.
LEMMA DaemonEnds ==
  ASSUME WellTyped, WellTyped', OneManager, OriginalsTheirs, up, Gone,
         UNCHANGED <<proc, cli, cmem>>, NEW m2, Saved' = m2, Theirs(m2, proc, foreign), TargetsOK(m2),
         Disown(Forgotten(dmem, m2))
  PROVE  OriginalsTheirs'
  <1>1. cli = NoCommand BY DEF OneManager
  <1>2. /\ Onwards(proc, foreign, proc', foreign') /\ foreign' = [p \in Pids |-> foreign'[p]]
    BY ServedOnwards
  <1>3. Accounted(m2, proc', foreign')
    BY ForgottenAccounted DEF OriginalsTheirs
  <1>4. Theirs(cmem, proc', foreign') /\ Theirs(m2, proc', foreign')
    BY <1>2, PlacesKept, TheirsLater
  <1>5. dmem' = << >> /\ ~up' /\ \A s \in Savers : job'[s].buf = << >> BY DEF Gone, NoJob
  <1>. QED BY <1>1, <1>2, <1>3, <1>4, <1>5, NothingTheirs DEF OriginalsTheirs

LEMMA OriginsKill ==
  ASSUME WellTyped, WellTyped', OneManager, OriginalsTheirs, Kill PROVE OriginalsTheirs'
  <1>1. up /\ Gone /\ Disown(Forgotten(dmem, Saved)) /\ UNCHANGED <<proc, cli, cmem>> /\ Saved' = Saved
    BY DEF Kill, kernel, command, Saved
  <1>2. TargetsOK(Saved) /\ Theirs(Saved, proc, foreign)
    BY SavedIsLoaded DEF WellTyped, OriginalsTheirs
  <1>. QED BY <1>1, <1>2, DaemonEnds

LEMMA OriginsSaved ==
  ASSUME WellTyped, WellTyped', DownIsIdle, OneManager, OriginalsTheirs,
         NEW s \in Savers, Marshal(s) \/ WriteFile(s) \/ WriteFails(s)
  PROVE  OriginalsTheirs'
  <1>1. up
    <2>1. job[s].pc # "idle" BY DEF Marshal, WriteFile, WriteFails
    <2>. QED BY <2>1 DEF DownIsIdle, NoJob
  <1>2. JobOK(job[s]) /\ DOMAIN job = Savers BY DEF WellTyped
  <1>3. CASE Marshal(s)
    <2>1. /\ UNCHANGED <<up, cli, cmem, file, dmem, proc, foreign>> /\ Saved' = Saved
          /\ job' = [job EXCEPT ![s].pc = "write", ![s].buf = dmem]
      BY <1>3 DEF Marshal, kernel, command, history, Saved
    <2>2. job'[s].buf = dmem /\ \A r \in Savers \ {s} : job'[r] = job[r]
      BY <1>2, <2>1 DEF JobOK
    <2>. QED BY <2>1, <2>2 DEF OriginalsTheirs
  <1>4. CASE WriteFile(s) \/ WriteFails(s)
    <2>1. /\ UNCHANGED <<proc, cli, cmem>> /\ Saved' \in {Saved, job[s].buf}
          /\ s = "exit" => Gone /\ Disown(Forgotten(dmem, Saved'))
          /\ s # "exit" => job' = [job EXCEPT ![s] = NoJob] /\ UNCHANGED <<up, dmem, foreign>>
      BY <1>4, WriteTried DEF kernel, command
    <2>2. Theirs(Saved', proc, foreign) /\ TargetsOK(Saved')
      <3>1. TargetsOK(Saved) /\ TargetsOK(job[s].buf)
        BY <1>2, SavedIsLoaded DEF WellTyped, JobOK
      <3>. QED BY <2>1, <3>1 DEF OriginalsTheirs
    <2>3. CASE s = "exit" BY <1>1, <2>1, <2>2, <2>3, DaemonEnds
    <2>4. CASE s # "exit"
      <3>1. job'[s].buf = << >> /\ \A r \in Savers \ {s} : job'[r] = job[r]
        BY <1>2, <2>1, <2>4 DEF NoJob
      <3>2. cli = NoCommand BY <1>1 DEF OneManager
      <3>. QED BY <1>1, <2>1, <2>2, <2>4, <3>1, <3>2, NothingTheirs DEF OriginalsTheirs
    <2>. QED BY <2>3, <2>4
  <1>. QED BY <1>3, <1>4

LEMMA OriginsTick ==
  ASSUME WellTyped, WellTyped', DownIsIdle, OneManager, OriginalsTheirs, Reconcile \/ Reload
  PROVE  OriginalsTheirs'
  <1>1. /\ UNCHANGED <<up, cli, cmem, file, job>>
        /\ (SameProcesses \/ UNCHANGED proc) /\ Transfers(dmem, dmem', proc, proc')
    BY TickTypes DEF Reconcile, Reload, command
  <1>2. BuffersKept BY <1>1 DEF BuffersKept
  <1>3. CASE Reconcile
    <2>1. Disown(LetGo(dmem, dmem') \cup Shared(dmem, dmem')) BY <1>3 DEF Reconcile
    <2>2. CASE up BY <1>1, <1>2, <2>1, <2>2, DaemonOrigins
    <2>3. CASE ~up
      <3>1. dmem = << >> BY <2>3 DEF DownIsIdle
      <3>2. UNCHANGED <<proc, dmem>> BY <1>3, <3>1 DEF Reconcile, kernel
      <3>3. LetGo(dmem, dmem') \cup Shared(dmem, dmem') = {} BY <3>1 DEF LetGo, Shared
      <3>4. foreign' = foreign BY <2>1, <3>3 DEF Disown, OriginalsTheirs
      <3>. QED BY <1>1, <1>2, <3>2, <3>4, OriginsQuiet
    <2>. QED BY <2>2, <2>3
  <1>4. CASE Reload
    <2>1. up /\ Disown(Dropped(dmem, dmem')) BY <1>4 DEF Reload
    <2>2. PICK specs \in PolicySets : dmem' = D!PoliciesInstalled(dmem, specs)
      BY <1>4 DEF Reload, D!SetPolicies
    <2>3. \A t \in DOMAIN dmem' :
            dmem'[t].bind = IF t \in DOMAIN dmem THEN dmem[t].bind ELSE << >>
      BY <2>2, DPolicies DEF WellTyped
    <2>4. LetGo(dmem, dmem') \subseteq Dropped(dmem, dmem') BY <2>3, OnlyDropped
    <2>5. Shared(dmem, dmem') = {}
      <3>1. \A u \in DOMAIN dmem' : \A p : HeldIn(dmem', u, p, proc) => HeldIn(dmem, u, p, proc)
        BY <2>3 DEF HeldIn, BoundIn
      <3>. QED BY <3>1, NoneShared
    <2>. QED BY <1>1, <1>2, <2>1, <2>4, <2>5, DaemonOrigins
  <1>. QED BY <1>3, <1>4

\* A request binds in one step and acts in another.
LEMMA OperatedLetsGo ==
  ASSUME NEW m, TargetsOK(m), NEW t, NEW r, NEW m2, Operated(m, t, r, m2)
  PROVE  LetGo(m, m2) \subseteq Dropped(m, m2)
  <1>1. ASSUME NEW u \in DOMAIN m \cap DOMAIN m2, NEW p \in DOMAIN m[u].bind
        PROVE  p \in DOMAIN m2[u].bind /\ m2[u].bind[p].inc = m[u].bind[p].inc
    <2>1. CASE m2 = Without(m, t)
      <3>1. m2[u] = m[u] BY <2>1 DEF Without, Restrict
      <3>. QED BY <3>1
    <2>2. CASE t \in DOMAIN m /\ Replaces(m, t, m2) /\ OriginalsKept(m[t].bind, m2[t].bind)
      BY <2>2 DEF Replaces, OriginalsKept
    <2>. QED BY <2>1, <2>2 DEF Operated
  <1>. QED BY <1>1, OnlyDropped

LEMMA OriginsServe ==
  ASSUME WellTyped, WellTyped', DownIsIdle, OneManager, OriginalsTheirs,
         NEW h \in Handlers, Operate(h) \/ \E r \in Requests : Receive(h, r)
  PROVE  OriginalsTheirs'
  <1>1. UNCHANGED <<up, cli, cmem, file>> /\ h \in Savers
    BY DEF Operate, Receive, command, Savers
  <1>2. up
    <2>1. (\E r \in Requests : Receive(h, r)) => up BY DEF Receive
    <2>2. Operate(h) => job[h].pc = "op" BY DEF Operate
    <2>. QED BY <1>1, <2>1, <2>2 DEF DownIsIdle, NoJob
  <1>3. JobOK(job[h]) /\ DOMAIN job = Savers BY <1>1 DEF WellTyped
  <1>4. CASE \E r \in Requests : Receive(h, r)
    <2>1. PICK r \in Requests : Receive(h, r) BY <1>4
    <2>2. /\ UNCHANGED <<proc, foreign>> /\ Transfers(dmem, dmem', proc, proc')
          /\ \A t \in DOMAIN dmem' : \A p : HeldIn(dmem', t, p, proc) => HeldIn(dmem, t, p, proc)
          /\ \/ dmem' = dmem
             \/ LET t == <<"runtime", r.name>>
                IN  ~Known(dmem, r.name) /\ Replaces(dmem, t, dmem')
      BY <2>1, ReceiveTypes DEF Receive, history
    <2>3. BuffersKept
      <3>1. job' = [job EXCEPT ![h] = [NoJob EXCEPT !.pc = "op", !.req = r]]
        BY <2>1 DEF Receive
      <3>. QED BY <1>1, <1>3, <3>1 DEF BuffersKept, NoJob
    <2>4. Disown({}) BY <2>2 DEF Disown, OriginalsTheirs
    <2>5. Shared(dmem, dmem') = {} BY <2>2, NoneShared
    <2>6. LetGo(dmem, dmem') = {}
      <3>1. \A t \in DOMAIN dmem : t \in DOMAIN dmem' /\ dmem'[t] = dmem[t]
        BY <2>2 DEF Known, NameOf, Replaces
      <3>. QED BY <3>1 DEF LetGo, Holds, BindsNow
    <2>. QED BY <1>1, <1>2, <2>2, <2>3, <2>4, <2>5, <2>6, DaemonOrigins
  <1>5. CASE Operate(h)
    <2>. DEFINE r == job[h].req
                t == Find(dmem, r.name)
    <2>1. /\ (SameProcesses \/ UNCHANGED proc) /\ Transfers(dmem, dmem', proc, proc')
          /\ Disown(Dropped(dmem, dmem') \cup Shared(dmem, dmem'))
      BY <1>5, OperateTypes DEF Operate
    <2>2. LetGo(dmem, dmem') \subseteq Dropped(dmem, dmem')
      <3>1. dmem' = dmem \/ Operated(dmem, t, r, dmem') BY <1>5, OperateTypes
      <3>2. CASE dmem' = dmem BY <3>2, OnlyDropped
      <3>3. CASE Operated(dmem, t, r, dmem') BY <3>3, OperatedLetsGo DEF WellTyped
      <3>. QED BY <3>1, <3>2, <3>3
    <2>3. BuffersKept
      <3>1. job' = [job EXCEPT ![h] = NoJob]
            \/ job' = [job EXCEPT ![h] = [job[h] EXCEPT !.pc = "marshal", !.on = t]]
        BY <1>5, OperateTypes
      <3>. HIDE DEF t
      <3>2. job'[h].buf = << >> \/ job'[h].buf = job[h].buf
        <4>1. CASE job' = [job EXCEPT ![h] = NoJob] BY <1>1, <1>3, <4>1 DEF NoJob
        <4>2. CASE job' = [job EXCEPT ![h] = [job[h] EXCEPT !.pc = "marshal", !.on = t]]
          BY <1>1, <1>3, <4>2 DEF JobOK
        <4>. QED BY <3>1, <4>1, <4>2
      <3>3. \A s \in Savers \ {h} : job'[s] = job[s] BY <1>3, <3>1
      <3>. QED BY <3>2, <3>3 DEF BuffersKept
    <2>. QED BY <1>1, <1>2, <2>1, <2>2, <2>3, DaemonOrigins
  <1>. QED BY <1>4, <1>5

\* A command ends, and the file is what is left of it.
LEMMA CommandEnds ==
  ASSUME WellTyped, WellTyped', OneManager, OriginalsTheirs, cli # NoCommand, cli' = NoCommand,
         cmem' = << >>, UNCHANGED <<proc, up, dmem, job>>, NEW m2, Saved' = m2,
         Theirs(m2, proc, foreign), TargetsOK(m2), Disown(Forgotten(cmem, m2))
  PROVE  OriginalsTheirs'
  <1>1. ~up BY DEF OneManager
  <1>2. /\ Onwards(proc, foreign, proc', foreign') /\ foreign' = [p \in Pids |-> foreign'[p]]
    BY ServedOnwards
  <1>3. Accounted(m2, proc', foreign') BY ForgottenAccounted DEF OriginalsTheirs
  <1>4. /\ Theirs(dmem, proc', foreign') /\ Theirs(m2, proc', foreign')
        /\ \A s \in Savers : Theirs(job[s].buf, proc', foreign')
    BY <1>2, PlacesKept, TheirsLater
  <1>. QED BY <1>1, <1>2, <1>3, <1>4, NothingTheirs DEF OriginalsTheirs

LEMMA OriginsCommand ==
  ASSUME WellTyped, WellTyped', OneManager, OneManager', OriginalsTheirs,
         \/ \E r \in Commands : CliLoad(r)
         \/ CliBind \/ CliOperate \/ CliSave \/ CliSaveFails \/ CliKill
  PROVE  OriginalsTheirs'
  <1>1. UNCHANGED <<up, dmem, job>>
    BY DEF CliLoad, CliBind, CliOperate, CliSave, CliSaveFails, CliKill, daemon
  <1>2. /\ CommandOK(cli) /\ TargetsOK(Saved) /\ TargetsOK(cmem)
        /\ Theirs(Saved, proc, foreign) /\ Theirs(cmem, proc, foreign)
    BY SavedIsLoaded DEF WellTyped, OriginalsTheirs
  <1>3. ASSUME NEW r \in Commands, CliLoad(r) PROVE OriginalsTheirs'
    <2>1. /\ cli = NoCommand /\ UNCHANGED <<proc, file, foreign>> /\ cmem' = Saved /\ Saved' = Saved
          /\ cli'.pc = "bind"
      BY <1>3, SavedIsLoaded DEF CliLoad, kernel, history, NoCommand, Saved
    <2>2. cli' # NoCommand BY <2>1 DEF NoCommand
    <2>3. ~up BY <1>1, <2>2 DEF OneManager
    <2>. QED BY <1>1, <2>1, <2>2, <2>3 DEF OriginalsTheirs
  <1>4. CASE CliBind
    <2>1. /\ cli.pc = "bind" /\ cli'.pc = "op" /\ file' = file /\ Disown(LetGo(cmem, cmem'))
      BY <1>2, <1>4 DEF CliBind, CommandOK
    <2>2. /\ UNCHANGED proc /\ Transfers(cmem, cmem', proc, proc')
          /\ \A t \in DOMAIN cmem' : \A p : HeldIn(cmem', t, p, proc) => HeldIn(cmem, t, p, proc)
      BY <1>4, BindTypes
    <2>3. cli # NoCommand /\ cli' # NoCommand BY <2>1 DEF NoCommand
    <2>4. Shared(cmem, cmem') = {} BY <2>2, NoneShared
    <2>. QED BY <1>1, <2>1, <2>2, <2>3, <2>4, CommandOrigins
  <1>5. CASE CliOperate
    <2>. DEFINE t == Find(cmem, cli.req.name)
    <2>1. cli.pc = "op" /\ file' = file BY <1>5 DEF CliOperate
    <2>2. cli # NoCommand BY <2>1 DEF NoCommand
    <2>3. CASE cli' = NoCommand /\ cmem' = << >> /\ UNCHANGED proc /\ Disown(Forgotten(cmem, Saved))
      <3>1. Saved' = Saved BY <2>1 DEF Saved
      <3>. QED BY <1>1, <1>2, <2>2, <2>3, <3>1, CommandEnds
    <2>4. CASE /\ Transfers(cmem, cmem', proc, proc')
               /\ Disown(Dropped(cmem, cmem') \cup Shared(cmem, cmem'))
               /\ Operated(cmem, t, cli.req, cmem') /\ cli' = [cli EXCEPT !.pc = "save", !.on = t]
      <3>1. cli' # NoCommand
        <4>1. cli'.pc = "save" BY <1>2, <2>4 DEF CommandOK
        <4>. QED BY <4>1 DEF NoCommand
      <3>2. LetGo(cmem, cmem') \subseteq Dropped(cmem, cmem')
        BY <2>4, OperatedLetsGo DEF WellTyped
      <3>3. SameProcesses \/ UNCHANGED proc BY <1>5, CliOperateTypes
      <3>. QED BY <1>1, <2>1, <2>2, <2>4, <3>1, <3>2, <3>3, CommandOrigins
    <2>. QED BY <1>5, <2>3, <2>4, CliOperateTypes
  <1>6. CASE CliSave
    <2>1. /\ cli.pc = "save" /\ cli' = NoCommand /\ cmem' = << >> /\ UNCHANGED proc
          /\ cli.req.dry => Disown(Forgotten(cmem, Saved)) /\ file' = file
          /\ ~cli.req.dry => file' = cmem /\ foreign' = foreign
      BY <1>6 DEF CliSave, kernel
    <2>2. cli # NoCommand /\ ~up BY <2>1 DEF NoCommand, OneManager
    <2>3. CASE cli.req.dry
      <3>1. Saved' = Saved BY <2>1, <2>3 DEF Saved
      <3>. QED BY <1>1, <1>2, <2>1, <2>2, <2>3, <3>1, CommandEnds
    <2>4. CASE ~cli.req.dry
      <3>1. Saved' = cmem BY <2>1, <2>4, NoneIsNoState DEF Saved, WellTyped
      <3>. QED BY <1>1, <2>1, <2>2, <2>4, <3>1, NothingTheirs DEF OriginalsTheirs
    <2>. QED BY <2>3, <2>4
  <1>7. CASE CliKill
    <2>1. /\ cli # NoCommand /\ cli' = NoCommand /\ cmem' = << >> /\ UNCHANGED <<proc, file>>
          /\ Disown(Forgotten(cmem, Saved))
      BY <1>7 DEF CliKill, kernel
    <2>2. Saved' = Saved BY <2>1 DEF Saved
    <2>. QED BY <1>1, <1>2, <2>1, <2>2, CommandEnds
  <1>8. CASE CliSaveFails
    <2>1. /\ cli.pc = "save" /\ cli' = NoCommand /\ cmem' = << >> /\ UNCHANGED proc
          /\ file' \in {file, cmem} /\ Disown(Forgotten(cmem, Saved'))
      BY <1>8 DEF CliSaveFails, kernel
    <2>2. cli # NoCommand BY <2>1 DEF NoCommand
    <2>3. Saved' \in {Saved, cmem} BY <1>2, <2>1, NoneIsNoState DEF Saved
    <2>4. Theirs(Saved', proc, foreign) /\ TargetsOK(Saved') BY <1>2, <2>3
    <2>. QED BY <1>1, <2>1, <2>2, <2>4, CommandEnds
  <1>. QED BY <1>3, <1>4, <1>5, <1>6, <1>7, <1>8

LEMMA OriginsStep ==
  ASSUME WellTyped, WellTyped', DownIsIdle, OneManager, OneManager', OriginalsTheirs, [Next]_vars
  PROVE  OriginalsTheirs'
  <1>1. CASE Stop
    <2>1. UNCHANGED <<up, cli, cmem, file, dmem, proc, foreign>>
      BY <1>1 DEF Stop, kernel, command, history
    <2>2. JobOK(job["exit"]) /\ DOMAIN job = Savers BY DEF WellTyped, Savers
    <2>3. BuffersKept
      <3>1. job' = [job EXCEPT !["exit"].pc = "marshal"] BY <1>1 DEF Stop
      <3>2. job'["exit"].buf = job["exit"].buf BY <2>2, <3>1 DEF JobOK, Savers
      <3>3. \A s \in Savers \ {"exit"} : job'[s] = job[s] BY <2>2, <3>1
      <3>. QED BY <3>2, <3>3 DEF BuffersKept
    <2>. QED BY <2>1, <2>3, OriginsQuiet
  <1>2. CASE Sample \/ TickError \/ UNCHANGED vars
    <2>1. UNCHANGED <<up, cli, cmem, file, dmem, proc, foreign, job>>
      BY <1>2 DEF Sample, TickError, vars, kernel, daemon, command, history
    <2>. QED BY <2>1, OriginsQuiet DEF BuffersKept
  <1>. QED BY <1>1, <1>2, OriginsKernel, OriginsStart, OriginsKill, OriginsTick, OriginsServe,
              OriginsSaved, OriginsCommand DEF Next

LEMMA OriginsInit == Init => OriginalsTheirs
  <1>. SUFFICES ASSUME Init PROVE OriginalsTheirs OBVIOUS
  <1>1. /\ ~up /\ dmem = << >> /\ cmem = << >> /\ Saved = << >> /\ cli = NoCommand
        /\ \A s \in Savers : job[s].buf = << >>
    BY SessionAssumption DEF Init, D!Init, Saved, NoJob
  <1>2. foreign = [p \in Pids |-> {proc[p].nice}] BY DEF Init
  <1>3. Accounted(Saved, proc, foreign) BY <1>2 DEF Accounted
  <1>4. foreign = [p \in Pids |-> foreign[p]] BY <1>2
  <1>. HIDE DEF Init
  <1>. QED BY <1>1, <1>3, <1>4, NothingTheirs DEF OriginalsTheirs

\* As long as no command runs beside the daemon, a captured original, in memory or in the
\* file, is a value that somebody else gave the process, or procfit's own that no target
\* answered for, in the cases OriginalNotOurs lists and in no other: through any number of
\* connections, reloads, ticks on stale instances, refused calls, saves that fail or not,
\* crashes and restarts.
THEOREM OriginalsAreOthers ==
  Spec /\ []OneManager => []OriginalNotOurs
  <1>1. OriginalsTheirs => OriginalNotOurs
    BY HoldsIs DEF OriginalsTheirs, OriginalNotOurs, Theirs
  <1>2. /\ OriginalsTheirs /\ DownIsIdle /\ WellTyped /\ WellTyped' /\ OneManager /\ OneManager'
        /\ [Next]_vars
        => OriginalsTheirs'
    BY OriginsStep
  <1>. QED BY <1>1, <1>2, IntentsInit, OriginsInit, DownIsIdleStep, SessionTypes, PTL DEF Spec
==============================================================================
