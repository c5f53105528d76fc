--------------------------- MODULE CollectorProofs --------------------------
(***************************************************************************)
(* Theorems about the collectors of Assembly: what their windows measure,  *)
(* which source a wakeup is from, and that nothing is left behind.  One    *)
(* collector runs at a time; an action is summed up by the metrics it      *)
(* leaves as they are (Spares), and each part of the invariant is of the   *)
(* metrics and the variables of one collector.                             *)
(***************************************************************************)
EXTENDS AssemblyProofs, FiniteSetTheorems

(***************************************************************************)
(* The inductive invariant.                                                *)
(***************************************************************************)
Start(p) == snap.rows[p].start

\* A row is of a process that had its pid, and the counts of the eBPF map are numbers.
RowsOK ==
  /\ \A p \in Procs : Start(p) \in 1..Len(home) /\ home[Start(p)] = p
  /\ woken \in [Pids -> Nat]

\* There is something to run in enrich only, and who sleeps, measures in batches or has
\* goroutines is the collector that runs.
TurnOK ==
  /\ todo \subseteq DOMAIN Rank
  /\ phase # "enrich" => todo = {}
  /\ window.on => \E c \in {"schedstat", "ebpf", "sched", "gpu", "perf"} : Running(c)
  /\ perf.on => Running("perf")
  /\ DOMAIN scan = launched
  /\ launched # {} => \E c \in Scanning : Running(c)

\* What v, the first reading for p, says of the process in the row, if it still runs.
ReadForOwn(p, v) ==
  Present(v) => /\ v.val \in Nat
                /\ Start(p) \in alive => v.val = window.work[Start(p)]

CountedForOwn(p, v) ==
  /\ Present(v) /\ v.val \in Nat /\ v.val <= woken[p]
  /\ Start(p) \in alive => woken[p] - v.val = work[Start(p)] - window.work[Start(p)]

\* The first readings of the collector that sleeps.
WindowOK ==
  window.on =>
    /\ window.work \in [Starts -> Nat] /\ \A s \in Starts : window.work[s] <= work[s]
    /\ Running("schedstat") =>
         DOMAIN window.first = Procs /\ \A p \in Procs : ReadForOwn(p, window.first[p])
    /\ Running("sched") =>
         DOMAIN window.first \subseteq Procs /\ \A p \in DOMAIN window.first : ReadForOwn(p, window.first[p])
    /\ Running("ebpf") =>
         /\ bpf = "loaded"
         /\ DOMAIN window.first = Procs /\ \A p \in Procs : CountedForOwn(p, window.first[p])

\* The groups of the batch in its window have all their descriptors open, and no other
\* group has one.
PerfOK ==
  /\ DOMAIN perf = {"on", "left", "groups", "fds"}
  /\ perf.on => perf.left \subseteq Procs
  /\ IF window.on /\ Running("perf")
     THEN /\ DOMAIN perf.groups \subseteq Procs /\ Cardinality(DOMAIN perf.groups) <= MaxGroups
          /\ \A p \in DOMAIN perf.groups : Start(p) \in alive => perf.groups[p] = Start(p)
          /\ perf.fds = (DOMAIN perf.groups) \X (1..HwEvents)
     ELSE perf.fds = {}

BothSources == {"ebpf", "sched"} \subseteq query.wants
Bpf == {"unloaded", "loaded", "permission_denied", "unsupported"}

\* Process s runs, and its files could be read throughout.
Obtainable(s) == "exec" \notin query.kinds /\ s \in alive \ denied

\* A row that a source of wakeups has been through.
FromSource(r, src) ==
  /\ "wakeups" \in DOMAIN r.metric
  /\ Present(r.metric["wakeups"]) => r.metric["wakeups"].src = src
  /\ src = "ebpf" \/ Obtainable(r.start) => Present(r.metric["wakeups"])

\* The fallback fills what eBPF left out: everything, or nothing.
WakeupsOK ==
  /\ bpf \in Bpf
  /\ phase = "enrich" /\ BothSources =>
       /\ "ebpf" \in todo => "sched" \in todo
       /\ "ebpf" \notin todo /\ bpf = "loaded" => \A p \in Procs : FromSource(snap.rows[p], "ebpf")
       /\ "ebpf" \notin todo /\ bpf # "loaded" /\ "sched" \in todo =>
            /\ \A p \in Procs : ~Present(Metric(p, "wakeups"))
            /\ window.on /\ Running("sched") =>
                 /\ DOMAIN window.first = Procs
                 /\ \A p \in Procs : Obtainable(Start(p)) => Present(window.first[p])
       /\ "ebpf" \notin todo /\ "sched" \notin todo /\ bpf # "loaded" =>
            \A p \in Procs : FromSource(snap.rows[p], "sched")
       /\ window.on /\ Running("sched") => bpf # "loaded"

\* So it is in the batch that was written last.
ShownOK ==
  /\ \A p \in DOMAIN shown : shown[p].start \in 1..Len(home)
  /\ BothSources /\ emitted > 0 /\ phase \in {"wait", "ended"} /\ exit \in {"none", "ok"} =>
       \A p \in DOMAIN shown : FromSource(shown[p], IF bpf = "loaded" THEN "ebpf" ELSE "sched")

\* A goroutine that is through has left its process the counts.
ScanOK ==
  /\ Running("fd") =>
       \A p \in launched \cap Procs : scan[p] \in {"ended", "received"} => "fd-total" \in DOMAIN snap.rows[p].metric
  /\ "fd" \in query.wants /\ phase = "enrich" /\ "fd" \notin todo /\ ~ctxDone =>
       \A p \in Procs : "fd-total" \in DOMAIN snap.rows[p].metric

CollectorsOK == RowsOK /\ TurnOK /\ WindowOK /\ PerfOK /\ WakeupsOK /\ ShownOK /\ ScanOK
(***************************************************************************)
(* One collector at a time, and what it does to the rows.                  *)
(***************************************************************************)
LEMMA OneRuns ==
  ASSUME todo \subseteq DOMAIN Rank, NEW c, NEW d, Running(c), Running(d)
  PROVE  c = d
  <1>1. c \in DOMAIN Rank /\ d \in DOMAIN Rank BY DEF Running
  <1>2. Rank[c] \in Int /\ Rank[d] \in Int BY <1>1 DEF Rank
  <1>3. c # d => Rank[c] < Rank[d] /\ Rank[d] < Rank[c] BY DEF Running
  <1>. QED BY <1>2, <1>3

\* For these metrics the rows say what they said before.
Spares(ms) ==
  \A p \in DOMAIN snap.rows, m \in ms :
    LET r == snap.rows[p].metric
        q == snap'.rows[p].metric IN
    /\ m \in DOMAIN q <=> m \in DOMAIN r
    /\ m \in DOMAIN r => q[m] = r[m]

LEMMA CollectedIs ==
  ASSUME SnapshotOK, NEW vals, Collected(vals)
  PROVE  /\ DOMAIN snap'.rows = DOMAIN snap.rows
         /\ \A p \in DOMAIN snap.rows :
              /\ snap'.rows[p].start = snap.rows[p].start
              /\ snap'.rows[p].metric = IF p \in DOMAIN vals THEN Over(vals[p], snap.rows[p].metric)
                                                              ELSE snap.rows[p].metric
  <1>1. DOMAIN snap = {"gen", "elapsed", "rows"} /\ \A p \in DOMAIN snap.rows : DOMAIN snap.rows[p] = RowFields
    BY DEF SnapshotOK, RowOK, Procs
  <1>. DEFINE row(p) == IF p \in DOMAIN vals THEN SetMetric(snap.rows[p], vals[p]) ELSE snap.rows[p]
  <1>2. snap' = [snap EXCEPT !.rows = [p \in DOMAIN snap.rows |-> row(p)]] BY DEF Collected, Procs
  <1>3. \A p \in DOMAIN snap.rows :
          /\ row(p).start = snap.rows[p].start
          /\ row(p).metric = IF p \in DOMAIN vals THEN Over(vals[p], snap.rows[p].metric) ELSE snap.rows[p].metric
    <2>1. TAKE p \in DOMAIN snap.rows
    <2>2. CASE p \notin DOMAIN vals BY <2>2
    <2>3. CASE p \in DOMAIN vals
      <3>. DEFINE r == snap.rows[p]
                  new == Over(vals[p], r.metric)
      <3>1. row(p) = [r EXCEPT !.metric = new] BY <2>3 DEF SetMetric
      <3>2. DOMAIN r = RowFields BY <1>1
      <3>. HIDE DEF r, new
      <3>3. row(p).start = r.start /\ row(p).metric = new BY <3>1, <3>2 DEF RowFields
      <3>. QED BY <2>3, <3>3 DEF r, new
    <2>. QED BY <2>2, <2>3
  <1>. HIDE DEF row
  <1>4. snap'.rows = [p \in DOMAIN snap.rows |-> row(p)] BY <1>1, <1>2
  <1>. QED BY <1>3, <1>4

LEMMA CollectedSpares ==
  ASSUME SnapshotOK, NEW vals, NEW ids, NEW ms, Measures(vals, ids), ids \cap ms = {}, Collected(vals)
  PROVE  Spares(ms)
  <1>1. SUFFICES ASSUME NEW p \in DOMAIN snap.rows, NEW m \in ms
                 PROVE  LET r == snap.rows[p].metric
                            q == snap'.rows[p].metric IN
                        /\ m \in DOMAIN q <=> m \in DOMAIN r
                        /\ m \in DOMAIN r => q[m] = r[m]
    BY DEF Spares
  <1>2. CASE p \in DOMAIN vals
    <2>1. snap'.rows[p].metric = Over(vals[p], snap.rows[p].metric) BY <1>2, CollectedIs
    <2>2. m \notin DOMAIN vals[p] BY <1>2 DEF Measures
    <2>. QED BY <2>1, <2>2 DEF Over
  <1>3. CASE p \notin DOMAIN vals BY <1>3, CollectedIs
  <1>. QED BY <1>2, <1>3

LEMMA StillSpares == \A ms : UNCHANGED snap => Spares(ms)
  BY DEF Spares

\* What a collector measures is shown.
LEMMA CollectedShows ==
  ASSUME SnapshotOK, NEW vals, Collected(vals), NEW p \in DOMAIN snap.rows, p \in DOMAIN vals,
         NEW m \in DOMAIN vals[p]
  PROVE  m \in DOMAIN snap'.rows[p].metric /\ snap'.rows[p].metric[m] = vals[p][m]
  <1>1. snap'.rows[p].metric = Over(vals[p], snap.rows[p].metric) BY CollectedIs
  <1>. QED BY <1>1 DEF Over

(***************************************************************************)
(* The kernel and the eBPF map.                                            *)
(***************************************************************************)
\* The map counts what the process behind a pid does, and files once refused stay so.
WakesMove ==
  /\ woken' \in [Pids -> Nat] /\ \A p \in Pids : woken[p] <= woken'[p]
  /\ \A s \in alive : woken'[home[s]] - work'[s] = woken[home[s]] - work[s]
  /\ "exec" \notin query.kinds => \A s \in alive : s \in denied => s \in denied'

LEMMA StillWakes ==
  ASSUME RowsOK, UNCHANGED <<home, work, woken, denied>>
  PROVE  WakesMove
  BY DEF WakesMove, RowsOK

LEMMA WorldWakes ==
  ASSUME KernelOK, RowsOK, World
  PROVE  WakesMove
  <1>1. CASE Life
    <2>1. UNCHANGED <<work, woken>> /\ denied \subseteq denied'
      BY <1>1 DEF Life, Fork, Exit
    <2>. QED BY <2>1 DEF WakesMove, RowsOK
  <1>2. CASE Busy
    <2>1. PICK s \in alive : Work(s) BY <1>2 DEF Busy
    <2>2. /\ work' = [work EXCEPT ![s] = work[s] + 1]
          /\ woken' = [woken EXCEPT ![home[s]] = woken[home[s]] + 1]
          /\ denied' = denied
      BY <2>1 DEF Work
    <2>3. /\ work \in [Starts -> Nat] /\ \A t \in alive : t \in Starts /\ home[t] \in Pids
          /\ \A t \in alive : home[t] = home[s] => t = s
      <3>1. home \in Seq(Pids) /\ alive \subseteq 1..Len(home) BY DEF KernelOK
      <3>. QED BY <3>1, StartsAreLive, CountersNow DEF KernelOK
    <2>4. woken \in [Pids -> Nat] BY DEF RowsOK
    <2>5. woken' \in [Pids -> Nat] /\ \A p \in Pids : woken[p] <= woken'[p] BY <2>2, <2>3, <2>4
    <2>6. ASSUME NEW t \in alive PROVE woken'[home[t]] - work'[t] = woken[home[t]] - work[t]
      <3>1. CASE t = s BY <2>2, <2>3, <2>4, <3>1
      <3>2. CASE t # s
        <4>1. home[t] # home[s] /\ home[t] \in Pids /\ t \in Starts BY <2>3, <3>2
        <4>. QED BY <2>2, <2>3, <2>4, <3>2, <4>1
      <3>. QED BY <3>1, <3>2
    <2>. QED BY <2>2, <2>5, <2>6 DEF WakesMove
  <1>3. CASE Threads
    <2>1. UNCHANGED <<work, woken, denied>> BY <1>3 DEF Threads, ThreadWork, ThreadReplaced
    <2>. QED BY <2>1 DEF WakesMove, RowsOK
  <1>4. CASE Execs
    <2>1. UNCHANGED <<work, woken>> /\ "exec" \in query.kinds BY <1>4 DEF Execs, Moves, Exec
    <2>. QED BY <2>1 DEF WakesMove, RowsOK
  <1>5. CASE Clock \/ Gpu \/ Descriptors \/ Signal \/ Machine
    <2>1. UNCHANGED <<work, woken, denied>> BY <1>5 DEF Clock, Gpu, Descriptors, Signal, Machine, TimePasses, kernel
    <2>. QED BY <2>1 DEF WakesMove, RowsOK
  <1>. QED BY <1>1, <1>2, <1>3, <1>4, <1>5 DEF World

(***************************************************************************)
(* Steps that no collector takes.                                          *)
(***************************************************************************)
LEMMA AliveBefore ==
  ASSUME KernelOK, KernelMoves, NEW s \in 1..Len(home), s \in alive'
  PROVE  s \in alive
  BY DEF KernelMoves

LEMMA RowsKept ==
  ASSUME KernelOK, KernelMoves, WakesMove, OnlyEnriched, RowsOK
  PROVE  RowsOK'
  <1>1. \A p \in DOMAIN snap.rows : snap.rows[p].start \in 1..Len(home) /\ home[snap.rows[p].start] = p
    BY DEF RowsOK, Procs, Start
  <1>2. \A s \in 1..Len(home) : s \in 1..Len(home') /\ home'[s] = home[s]
    BY StartsAreLive, StartsStay DEF KernelMoves
  <1>3. DOMAIN snap'.rows = DOMAIN snap.rows /\ \A p \in DOMAIN snap.rows : snap'.rows[p].start = snap.rows[p].start
    BY DEF OnlyEnriched, SameFigures
  <1>. QED BY <1>1, <1>2, <1>3 DEF RowsOK, Procs, Start, WakesMove

\* The rows, the collectors and their goroutines rest.  Only when all collectors are through
\* does the pass move on.
Lull ==
  /\ KernelMoves /\ WakesMove
  /\ UNCHANGED <<snap, collectors, scan, launched, query>>
  /\ phase' = phase \/ (phase' # "enrich" /\ todo = {})
  /\ ctxDone => ctxDone'

LEMMA WorkGrows ==
  ASSUME KernelOK, KernelOK', KernelMoves
  PROVE  work \in [Starts -> Nat] /\ work' \in [Starts -> Nat] /\ \A s \in Starts : work[s] <= work'[s]
  <1>1. work \in [Starts -> Nat] BY CountersNow DEF KernelOK
  <1>2. work' \in [Starts -> Nat] BY DEF KernelOK, Now, Counters
  <1>3. \A s \in Starts : work[s] <= work'[s] BY DEF KernelMoves, NoLater, Now
  <1>. QED BY <1>1, <1>2, <1>3

LEMMA WindowKept ==
  ASSUME KernelOK, KernelOK', RowsOK, KernelMoves, WakesMove, UNCHANGED <<snap, todo, window, bpf>>, WindowOK
  PROVE  WindowOK'
  <1>. SUFFICES ASSUME window.on PROVE WindowOK'
    BY DEF WindowOK
  <1>1. /\ window' = window /\ Procs' = Procs /\ bpf' = bpf /\ (\A c : Running(c)' = Running(c))
        /\ \A p \in Procs : Start(p)' = Start(p)
    BY DEF Procs, Running, Start
  <1>2. work \in [Starts -> Nat] /\ work' \in [Starts -> Nat] /\ \A s \in Starts : work[s] <= work'[s]
    BY WorkGrows
  <1>3. window.work \in [Starts -> Nat] /\ \A s \in Starts : window.work[s] <= work[s]
    BY DEF WindowOK
  <1>4. \A s \in Starts : window.work[s] <= work'[s]
    BY <1>2, <1>3
  <1>5. \A p \in Procs : /\ Start(p) \in 1..Len(home) /\ home[Start(p)] = p /\ Start(p) \in Starts
                         /\ Start(p) \in alive' => Start(p) \in alive
    BY AliveBefore, StartsAreLive DEF RowsOK
  <1>6. ASSUME NEW p \in Procs, NEW v, ReadForOwn(p, v) PROVE ReadForOwn(p, v)'
    BY <1>1, <1>5, <1>6 DEF ReadForOwn
  <1>7. ASSUME NEW p \in Procs, NEW v, CountedForOwn(p, v) PROVE CountedForOwn(p, v)'
    <2>1. p \in Pids /\ woken[p] \in Nat /\ woken'[p] \in Nat /\ woken[p] <= woken'[p]
      <3>1. home \in Seq(Pids) BY DEF KernelOK
      <3>2. p \in Pids BY <1>5, <3>1
      <3>. QED BY <3>2 DEF RowsOK, WakesMove
    <2>2. Present(v) /\ v.val \in Nat /\ v.val <= woken'[p] BY <1>7, <2>1 DEF CountedForOwn
    <2>3. ASSUME Start(p) \in alive'
          PROVE  woken'[p] - v.val = work'[Start(p)] - window.work[Start(p)]
      <3>. DEFINE t == Start(p)
      <3>1. t \in alive /\ home[t] = p BY <1>5, <2>3
      <3>2. woken[p] - v.val = work[t] - window.work[t] BY <1>7, <3>1 DEF CountedForOwn
      <3>3. woken'[p] - work'[t] = woken[p] - work[t] BY <3>1 DEF WakesMove
      <3>4. work[t] \in Nat /\ work'[t] \in Nat /\ window.work[t] \in Nat BY <1>2, <1>3, <1>5
      <3>. QED BY <2>1, <2>2, <3>2, <3>3, <3>4
    <2>. QED BY <1>1, <2>2, <2>3 DEF CountedForOwn
  <1>8. /\ Running("schedstat") => DOMAIN window.first = Procs /\ \A p \in Procs : ReadForOwn(p, window.first[p])'
        /\ Running("sched") => /\ DOMAIN window.first \subseteq Procs
                               /\ \A p \in DOMAIN window.first : ReadForOwn(p, window.first[p])'
        /\ Running("ebpf") => /\ bpf = "loaded" /\ DOMAIN window.first = Procs
                              /\ \A p \in Procs : CountedForOwn(p, window.first[p])'
    BY <1>6, <1>7 DEF WindowOK
  <1>. QED BY <1>1, <1>3, <1>4, <1>8 DEF WindowOK

LEMMA PerfKept ==
  ASSUME KernelOK, RowsOK, KernelMoves, UNCHANGED <<snap, todo, window, perf>>, PerfOK
  PROVE  PerfOK'
  <1>1. /\ window' = window /\ perf' = perf /\ Procs' = Procs /\ (\A c : Running(c)' = Running(c))
        /\ \A p \in Procs : Start(p)' = Start(p)
    BY DEF Procs, Running, Start
  <1>2. \A p \in Procs : Start(p) \in alive' => Start(p) \in alive
    BY AliveBefore DEF RowsOK
  <1>. QED BY <1>1, <1>2 DEF PerfOK

LEMMA ObtainableBefore ==
  ASSUME KernelOK, KernelMoves, WakesMove, query' = query, NEW s \in 1..Len(home), Obtainable(s)'
  PROVE  Obtainable(s)
  BY AliveBefore DEF Obtainable, WakesMove

LEMMA SourceKept ==
  ASSUME KernelOK, KernelMoves, WakesMove, query' = query,
         NEW r, r.start \in 1..Len(home), NEW src, FromSource(r, src)
  PROVE  FromSource(r, src)'
  BY ObtainableBefore DEF FromSource

LEMMA LullKeeps ==
  ASSUME KernelOK, KernelOK', CollectorsOK, Lull
  PROVE  RowsOK' /\ TurnOK' /\ WindowOK' /\ PerfOK' /\ WakeupsOK' /\ ScanOK'
  <1>0. RowsOK /\ TurnOK /\ WindowOK /\ PerfOK /\ WakeupsOK /\ ScanOK BY DEF CollectorsOK
  <1>1. /\ KernelMoves /\ WakesMove /\ (ctxDone => ctxDone')
        /\ UNCHANGED <<snap, todo, window, bpf, perf, scan, launched, query>>
        /\ phase' = phase \/ (phase' # "enrich" /\ todo = {})
    BY DEF Lull, collectors
  <1>2. RowsOK' BY <1>0, <1>1, RowsKept, StillSnapshot
  <1>3. \A c : Running(c)' = Running(c) BY <1>1 DEF Running
  <1>4. TurnOK' BY <1>0, <1>1, <1>3 DEF TurnOK
  <1>5. WindowOK' /\ PerfOK' BY <1>0, <1>1, WindowKept, PerfKept
  <1>6. Procs' = Procs /\ \A p \in Procs : Start(p)' = Start(p) /\ Metric(p, "wakeups")' = Metric(p, "wakeups")
    BY <1>1 DEF Procs, Start, Metric
  <1>7. \A p \in Procs : Start(p) \in 1..Len(home) BY <1>0 DEF RowsOK
  <1>8. WakeupsOK'
    <2>1. CASE phase' # "enrich" BY <1>0, <1>1, <2>1 DEF WakeupsOK
    <2>2. CASE phase' = phase
      <3>1. \A p \in Procs : \A src : FromSource(snap.rows[p], src) => FromSource(snap.rows[p], src)'
        BY <1>1, <1>7, SourceKept DEF Start
      <3>2. \A p \in Procs : Obtainable(Start(p))' => Obtainable(Start(p))
        BY <1>1, <1>6, <1>7, ObtainableBefore
      <3>3. BothSources' = BothSources BY <1>1 DEF BothSources
      <3>4. bpf \in Bpf BY <1>0 DEF WakeupsOK
      <3>5. SUFFICES ASSUME phase = "enrich", BothSources PROVE WakeupsOK'
        BY <1>1, <2>2, <3>3, <3>4 DEF WakeupsOK
      <3>6. /\ "ebpf" \in todo => "sched" \in todo
            /\ "ebpf" \notin todo /\ bpf = "loaded" => \A p \in Procs : FromSource(snap.rows[p], "ebpf")'
            /\ "ebpf" \notin todo /\ "sched" \notin todo /\ bpf # "loaded" =>
                 \A p \in Procs : FromSource(snap.rows[p], "sched")'
            /\ window.on /\ Running("sched") => bpf # "loaded"
        BY <1>0, <3>1, <3>5 DEF WakeupsOK
      <3>7. "ebpf" \notin todo /\ bpf # "loaded" /\ "sched" \in todo =>
              /\ \A p \in Procs : ~Present(Metric(p, "wakeups"))
              /\ window.on /\ Running("sched") =>
                   /\ DOMAIN window.first = Procs
                   /\ \A p \in Procs : Obtainable(Start(p))' => Present(window.first[p])
        BY <1>0, <3>2, <3>5 DEF WakeupsOK
      <3>. QED BY <1>1, <1>3, <1>6, <2>2, <3>4, <3>6, <3>7 DEF WakeupsOK
    <2>. QED BY <1>1, <2>1, <2>2
  <1>9. ScanOK'
    <2>1. CASE phase' # "enrich" /\ todo = {} BY <1>1, <1>3, <2>1 DEF ScanOK, Running
    <2>2. CASE phase' = phase BY <1>0, <1>1, <1>3, <1>6, <2>2 DEF ScanOK
    <2>. QED BY <1>1, <2>1, <2>2
  <1>. QED BY <1>2, <1>4, <1>5, <1>8, <1>9

\* What was written is what it was.
LEMMA ShownKept ==
  ASSUME KernelOK, KernelMoves, WakesMove, ShownOK, UNCHANGED <<query, shown, bpf, emitted>>,
         phase' \in {"wait", "ended"} /\ exit' \in {"none", "ok"} =>
           phase \in {"wait", "ended"} /\ exit \in {"none", "ok"}
  PROVE  ShownOK'
  <1>1. \A p \in DOMAIN shown : shown[p].start \in 1..Len(home) BY DEF ShownOK
  <1>2. \A s \in 1..Len(home) : s \in 1..Len(home') BY StartsAreLive DEF KernelMoves
  <1>3. \A p \in DOMAIN shown : \A src : FromSource(shown[p], src) => FromSource(shown[p], src)'
    BY <1>1, SourceKept
  <1>4. BothSources' = BothSources BY DEF BothSources
  <1>. QED BY <1>1, <1>2, <1>3, <1>4 DEF ShownOK

LEMMA WorldKeeps ==
  ASSUME KernelOK, query \in Scenarios, CollectorsOK, World
  PROVE  CollectorsOK'
  <1>1. KernelOK' /\ KernelMoves /\ UNCHANGED <<sampler, history, command>>
    BY WorldQuiet DEF SamplerRests
  <1>2. WakesMove BY WorldWakes DEF CollectorsOK
  <1>3. UNCHANGED <<collectors, scans>> /\ (ctxDone => ctxDone')
    BY DEF World, Life, Busy, Threads, Execs, Clock, Gpu, Descriptors, Signal, Machine, Rest
  <1>4. Lull BY <1>1, <1>2, <1>3 DEF Lull, sampler, scans, command
  <1>5. ShownOK' BY <1>1, <1>2, <1>3, ShownKept DEF CollectorsOK, command, collectors
  <1>. QED BY <1>1, <1>4, <1>5, LullKeeps DEF CollectorsOK

LEMMA BatchIsShown ==
  ASSUME CollectorsOK, Emit
  PROVE  ShownOK'
  <1>1. /\ phase = "enrich" /\ todo = {} /\ shown' = snap.rows
        /\ UNCHANGED <<home, alive, denied, query, bpf>>
    BY DEF Emit, Aside, kernel, collectors
  <1>2. \A p \in DOMAIN snap.rows : snap.rows[p].start \in 1..Len(home)
    BY DEF CollectorsOK, RowsOK, Procs, Start
  <1>3. BothSources => \A p \in DOMAIN snap.rows : FromSource(snap.rows[p], IF bpf = "loaded" THEN "ebpf" ELSE "sched")
    BY <1>1 DEF CollectorsOK, WakeupsOK, Procs
  <1>4. BothSources' = BothSources /\ \A r, src : FromSource(r, src)' <=> FromSource(r, src)
    BY <1>1 DEF BothSources, FromSource, Obtainable
  <1>. QED BY <1>1, <1>2, <1>3, <1>4 DEF ShownOK

LEMMA PassKeeps ==
  ASSUME IInv, CollectorsOK,
         PassBegins \/ WarmUp \/ SampleFails \/ CollectHost \/ Emit \/ EmitFails \/ NextPass \/ Interrupted
  PROVE  CollectorsOK'
  <1>0. KernelOK /\ RowsOK /\ TurnOK /\ ShownOK BY DEF IInv, CollectorsOK
  <1>1. UNCHANGED <<home, alive, work, woken, threads, environ, denied, named>> /\ KernelOK' /\ KernelMoves
    <2>1. CASE WarmUp
      <3>1. TimePasses BY <2>1 DEF WarmUp
      <3>. QED BY <1>0, <3>1, TimeMoves DEF TimePasses
    <2>2. CASE ~WarmUp
      <3>1. UNCHANGED kernel
        BY <2>2 DEF PassBegins, ListBegins, SampleFails, ListFails, CollectHost, Emit, EmitFails, NextPass, Interrupted, Aside
      <3>. QED BY <1>0, <3>1, StillKernel DEF kernel
    <2>. QED BY <2>1, <2>2
  <1>2. WakesMove BY <1>0, <1>1, StillWakes
  <1>3. UNCHANGED <<snap, collectors, scans, query, ctxDone>>
    BY DEF PassBegins, ListBegins, WarmUp, SampleFails, ListFails, CollectHost, Emit, EmitFails, NextPass, Interrupted,
           Aside, sampler, command
  <1>4. phase' = phase \/ (phase' # "enrich" /\ todo = {})
    BY <1>0 DEF TurnOK, PassBegins, WarmUp, SampleFails, CollectHost, Emit, EmitFails, NextPass, Interrupted, command
  <1>5. Lull BY <1>1, <1>2, <1>3, <1>4 DEF Lull, scans
  <1>6. ShownOK'
    <2>1. CASE Emit BY <2>1, BatchIsShown
    <2>2. CASE ~Emit
      <3>1. UNCHANGED <<shown, emitted, bpf>>
        BY <1>3, <2>2 DEF PassBegins, WarmUp, SampleFails, CollectHost, EmitFails, NextPass, Interrupted, command, collectors
      <3>2. phase' \in {"wait", "ended"} /\ exit' \in {"none", "ok"} =>
              phase \in {"wait", "ended"} /\ exit \in {"none", "ok"}
        BY <2>2 DEF PassBegins, WarmUp, SampleFails, CollectHost, EmitFails, NextPass, Interrupted, command
      <3>. QED BY <1>0, <1>1, <1>2, <1>3, <3>1, <3>2, ShownKept
    <2>. QED BY <2>1, <2>2
  <1>. QED BY <1>0, <1>1, <1>5, <1>6, LullKeeps DEF CollectorsOK

\* The rows of a new listing have the metrics the sampler computes, and no others.
LEMMA SampledKeeps ==
  ASSUME IInv, CollectorsOK, Sampled
  PROVE  CollectorsOK'
  <1>0. KernelOK /\ ListingOK /\ RowsOK /\ TurnOK /\ PerfOK /\ WakeupsOK /\ ShownOK BY DEF IInv, CollectorsOK
  <1>1. /\ phase = "list" /\ phase' \in {"warmup", "enrich"} /\ SampleDone(query)
        /\ todo' = IF NeedsSecond THEN todo ELSE Enrichers
        /\ phase' = "enrich" <=> ~NeedsSecond
        /\ UNCHANGED <<query, window, bpf, perf, scan, launched, emitted, exit, shown, ctxDone>>
    BY DEF Sampled, scans
  <1>2. todo = {} /\ \A c : ~Running(c) BY <1>0, <1>1 DEF TurnOK, Running
  <1>3. ~window.on /\ ~perf.on /\ launched = {} /\ perf.fds = {} /\ DOMAIN scan = {}
    BY <1>0, <1>2 DEF TurnOK, PerfOK
  <1>4. /\ UNCHANGED <<home, alive, work, woken, denied>>
        /\ DOMAIN snap'.rows = {st.pid : st \in Stats(query)}
        /\ \A st \in Stats(query) : snap'.rows[st.pid] = Row(st, Secs)
    BY <1>0, <1>1, SampleIs DEF kernel
  <1>5. RowsOK'
    <2>1. ASSUME NEW st \in Stats(query) PROVE st.start \in 1..Len(home) /\ home[st.start] = st.pid
      BY <1>0, <1>4, ReadIs, SampleIs, <1>1
    <2>2. \A st \in Stats(query) : Row(st, Secs).start = st.start BY DEF Row
    <2>. QED BY <1>0, <1>4, <2>1, <2>2 DEF RowsOK, Procs, Start
  <1>6. TurnOK' BY <1>0, <1>1, <1>2, <1>3 DEF TurnOK, Enrichers
  <1>7. WindowOK' /\ PerfOK' BY <1>0, <1>1, <1>3 DEF WindowOK, PerfOK
  <1>8. phase' = "enrich" => \A c \in {"ebpf", "sched", "fd"} : c \in query.wants => c \in todo'
    BY <1>1 DEF Enrichers, Rank
  <1>9. WakeupsOK' BY <1>0, <1>1, <1>3, <1>8 DEF WakeupsOK, BothSources
  <1>10. ScanOK' BY <1>1, <1>3, <1>8 DEF ScanOK
  <1>11. ShownOK'
    <2>1. KernelMoves /\ WakesMove
      <3>1. UNCHANGED kernel BY <1>0, <1>1, SampleIs
      <3>. QED BY <1>0, <1>4, <3>1, StillKernel, StillWakes
    <2>. QED BY <1>0, <1>1, <2>1, ShownKept
  <1>. QED BY <1>5, <1>6, <1>7, <1>9, <1>10, <1>11 DEF CollectorsOK

(***************************************************************************)
(* A collector's turn.                                                     *)
(***************************************************************************)
Sleepers == {"gpu", "schedstat", "perf", "ebpf", "sched"}

\* Collector c takes a step, its last one or not.
Turn(c) ==
  /\ Running(c)
  /\ OnlyEnriched
  /\ UNCHANGED Beside
  /\ \/ todo' = todo
     \/ Finished /\ ~window'.on /\ ~perf'.on

\* Step of a collector that sleeps.
Windowed(c) ==
  /\ c \in Sleepers /\ Turn(c) /\ UNCHANGED scans
  /\ c # "perf" => perf' = perf
  /\ c # "ebpf" => bpf' = bpf
  /\ todo' = todo /\ c # "perf" => window'.on

LEMMA NextTurn ==
  ASSUME todo \subseteq DOMAIN Rank, NEW c, Running(c), Finished
  PROVE  todo' = todo \ {c}
  BY OneRuns DEF Finished, Running

LEMMA TurnRests ==
  ASSUME NEW c, Turn(c)
  PROVE  /\ UNCHANGED <<home, alive, work, woken, denied, clients, query, phase, emitted, exit, shown, ctxDone>>
         /\ DOMAIN snap'.rows = DOMAIN snap.rows /\ Procs' = Procs
         /\ \A p \in Procs : Start(p)' = Start(p)
         /\ \A p \in Procs : DOMAIN snap.rows[p].metric \subseteq DOMAIN snap'.rows[p].metric
  BY DEF Turn, Beside, kernel, gpu, OnlyEnriched, SameFigures, Procs, Start

LEMMA TurnRows ==
  ASSUME RowsOK, ShownOK, WakeupsOK, TurnOK, NEW c, Turn(c), Running(c), phase = "enrich"
  PROVE  RowsOK' /\ ShownOK'
  <1>1. RowsOK' BY TurnRests DEF RowsOK, Procs
  <1>2. ShownOK' BY TurnRests DEF ShownOK
  <1>. QED BY <1>1, <1>2

LEMMA WindowedTurn ==
  ASSUME TurnOK, NEW c, Windowed(c), phase = "enrich"
  PROVE  TurnOK' /\ launched = {} /\ launched' = {}
  <1>1. Running(c) /\ c \in Sleepers /\ UNCHANGED <<scan, launched, phase>>
    BY TurnRests DEF Windowed, Turn, scans
  <1>2. launched = {}
    <2>1. SUFFICES ASSUME launched # {} PROVE FALSE OBVIOUS
    <2>2. PICK d \in Scanning : Running(d) BY <2>1 DEF TurnOK
    <2>3. c = d BY <1>1, <2>2, OneRuns DEF TurnOK
    <2>. QED BY <1>1, <2>2, <2>3 DEF Sleepers, Scanning
  <1>3. CASE todo' = todo
    <2>1. \A d : Running(d)' = Running(d) BY <1>3 DEF Running
    <2>2. perf'.on => Running("perf")
      <3>1. CASE c = "perf" BY <1>1, <3>1
      <3>2. CASE c # "perf" BY <3>2 DEF Windowed, TurnOK
      <3>. QED BY <3>1, <3>2
    <2>. QED BY <1>1, <1>2, <1>3, <2>1, <2>2 DEF TurnOK, Sleepers
  <1>4. CASE todo' # todo
    <2>1. Finished /\ ~window'.on /\ ~perf'.on BY <1>4 DEF Windowed, Turn
    <2>2. todo' \subseteq todo BY <2>1 DEF Finished
    <2>. QED BY <1>1, <1>2, <2>1, <2>2 DEF TurnOK
  <1>. QED BY <1>1, <1>2, <1>3, <1>4

\* The counts of the scans stay.
LEMMA WindowedScan ==
  ASSUME TurnOK, ScanOK, NEW c, Windowed(c), phase = "enrich"
  PROVE  ScanOK'
  <1>1. launched' = {} BY WindowedTurn
  <1>2. Running(c) /\ c # "fd" /\ Turn(c) BY DEF Windowed, Turn, Sleepers
  <1>3. "fd" \notin todo' => "fd" \notin todo
    <2>1. todo \subseteq DOMAIN Rank BY DEF TurnOK
    <2>2. todo' = todo \/ todo' = todo \ {c} BY <1>2, <2>1, NextTurn DEF Turn
    <2>. QED BY <1>2, <2>2
  <1>. QED BY <1>1, <1>2, <1>3, TurnRests DEF ScanOK, Procs

\* Only perf opens groups.
LEMMA PerfRests ==
  ASSUME TurnOK, PerfOK, NEW c, c # "perf", Turn(c), perf' = perf
  PROVE  PerfOK'
  <1>1. Running(c) /\ perf' = perf BY DEF Turn
  <1>2. ~Running("perf") BY <1>1, OneRuns DEF TurnOK
  <1>3. ~perf.on /\ perf.fds = {} BY <1>2 DEF TurnOK, PerfOK
  <1>4. ~(window'.on /\ Running("perf")')
    <2>1. CASE todo' = todo BY <1>2, <2>1 DEF Running
    <2>2. CASE todo' # todo BY <2>2 DEF Turn
    <2>. QED BY <2>1, <2>2
  <1>. QED BY <1>1, <1>3, <1>4 DEF PerfOK

\* Only the two sources write wakeups.
LEMMA SourcesRest ==
  ASSUME TurnOK, WakeupsOK, NEW c, c \notin {"ebpf", "sched"}, Turn(c), bpf' = bpf,
         Spares({"wakeups"}), phase = "enrich"
  PROVE  WakeupsOK'
  <1>1. Running(c) /\ Turn(c) /\ bpf' = bpf BY DEF Turn
  <1>2. \A d \in {"ebpf", "sched"} : d \in todo' <=> d \in todo
    <2>1. todo \subseteq DOMAIN Rank BY DEF TurnOK
    <2>2. todo' = todo \/ todo' = todo \ {c} BY <1>1, <2>1, NextTurn DEF Turn
    <2>. QED BY <2>2
  <1>3. ~(window'.on /\ Running("sched")')
    <2>0. todo \subseteq DOMAIN Rank BY DEF TurnOK
    <2>1. CASE todo' = todo
      <3>1. Running("sched")' => Running("sched") BY <2>1 DEF Running
      <3>. QED BY <1>1, <2>0, <3>1, OneRuns
    <2>2. CASE todo' # todo BY <1>1, <2>2 DEF Turn
    <2>. QED BY <2>1, <2>2
  <1>4. \A p \in Procs : \A src : FromSource(snap.rows[p], src) => FromSource(snap.rows[p], src)'
    <2>1. \A s : Obtainable(s)' <=> Obtainable(s) BY <1>1, TurnRests DEF Obtainable
    <2>2. \A p \in Procs : snap'.rows[p].start = snap.rows[p].start BY <1>1, TurnRests DEF Start
    <2>3. \A p \in Procs : /\ "wakeups" \in DOMAIN snap.rows[p].metric => "wakeups" \in DOMAIN snap'.rows[p].metric
                           /\ "wakeups" \in DOMAIN snap.rows[p].metric =>
                                snap'.rows[p].metric["wakeups"] = snap.rows[p].metric["wakeups"]
      BY DEF Spares, Procs
    <2>. QED BY <2>1, <2>2, <2>3 DEF FromSource
  <1>5. \A p \in Procs : Metric(p, "wakeups")' = Metric(p, "wakeups")
    BY DEF Spares, Procs, Metric
  <1>6. Procs' = Procs /\ phase' = phase /\ BothSources' = BothSources BY <1>1, TurnRests DEF BothSources
  <1>. QED BY <1>1, <1>2, <1>3, <1>4, <1>5, <1>6 DEF WakeupsOK

LEMMA OwnHolder ==
  ASSUME KernelOK, RowsOK, NEW p \in Procs, Start(p) \in alive
  PROVE  Holder(p) = Start(p) /\ Holder(p) # Free
  <1>1. home[Start(p)] = p BY DEF RowsOK
  <1>. QED BY <1>1, HolderIs, FreeIsNobody

\* A reading of now.
OwnReading(p, v) ==
  Present(v) => v.val \in Nat /\ (Start(p) \in alive => v.val = work[Start(p)])

LEMMA RunDelayIsOwn ==
  ASSUME KernelOK, RowsOK, NEW p \in Procs
  PROVE  OwnReading(p, ReadRunDelay(p))
  <1>1. \A s \in alive : work[s] \in Nat BY StartsAreLive, CountersNow DEF KernelOK
  <1>2. Holder(p) = Free \/ Holder(p) \in alive BY HolderIs
  <1>3. Holder(p) = Free \/ Holder(p) \in denied => ~Present(ReadRunDelay(p))
    BY DEF ReadRunDelay, Present, Unavailable
  <1>4. Holder(p) # Free /\ Holder(p) \notin denied => ReadRunDelay(p).val = work[Holder(p)]
    BY DEF ReadRunDelay, Value
  <1>. QED BY <1>1, <1>2, <1>3, <1>4, OwnHolder DEF OwnReading

LEMMA SchedReadingIsOwn ==
  ASSUME KernelOK, RowsOK, NEW p \in Procs
  PROVE  OwnReading(p, ReadWakeups(p)) /\ (Obtainable(Start(p)) => Present(ReadWakeups(p)))
  <1>1. \A s \in alive : work[s] \in Nat BY StartsAreLive, CountersNow DEF KernelOK
  <1>2. Holder(p) = Free \/ Holder(p) \in alive BY HolderIs
  <1>3. Holder(p) = Free \/ Holder(p) \in denied => ~Present(ReadWakeups(p))
    BY DEF ReadWakeups, Present, Unavailable
  <1>4. Holder(p) # Free /\ Holder(p) \notin denied => ReadWakeups(p).val = work[Holder(p)] /\ Present(ReadWakeups(p))
    BY DEF ReadWakeups, Value, Present
  <1>. QED BY <1>1, <1>2, <1>3, <1>4, OwnHolder DEF OwnReading, Obtainable

LEMMA OpenWindow ==
  ASSUME KernelOK, RowsOK, TurnOK, NEW c, Turn(c), todo' = todo, NEW first, Opens(first),
         c \in {"schedstat", "sched"} => DOMAIN first \subseteq Procs /\ \A p \in DOMAIN first : OwnReading(p, first[p]),
         c = "schedstat" => DOMAIN first = Procs,
         c = "ebpf" => /\ bpf' = "loaded" /\ DOMAIN first = Procs
                       /\ \A p \in Procs : Present(first[p]) /\ first[p].val = woken[p]
  PROVE  WindowOK'
  <1>1. window'.first = first /\ window'.work = work /\ window'.on BY DEF Opens
  <1>2. work \in [Starts -> Nat] /\ work' = work /\ alive' = alive /\ woken' = woken /\ Procs' = Procs
        /\ \A p \in Procs : Start(p)' = Start(p)
    BY TurnRests, CountersNow DEF KernelOK
  <1>3. \A d : Running(d)' => d = c
    <2>1. \A d : Running(d)' = Running(d) BY DEF Running
    <2>. QED BY <2>1, OneRuns DEF Turn, TurnOK
  <1>4. \A p \in Procs : p \in Pids /\ woken[p] \in Nat
    <2>1. home \in Seq(Pids) BY DEF KernelOK
    <2>2. \A p \in Procs : p \in Pids BY <2>1 DEF RowsOK
    <2>. QED BY <2>2 DEF RowsOK
  <1>5. \A p \in Procs : \A v : OwnReading(p, v) => ReadForOwn(p, v)'
    BY <1>1, <1>2 DEF OwnReading, ReadForOwn
  <1>6. ASSUME NEW p \in Procs, NEW v, Present(v), v.val = woken[p] PROVE CountedForOwn(p, v)'
    <2>1. Start(p) \in alive => work[Start(p)] \in Nat BY <1>2, StartsAreLive
    <2>. QED BY <1>1, <1>2, <1>4, <1>6, <2>1 DEF CountedForOwn
  <1>7. \A s \in Starts : work[s] <= work[s] BY <1>2
  <1>8. c = "schedstat" => DOMAIN first = Procs /\ \A p \in Procs : ReadForOwn(p, window.first[p])'
    BY <1>1, <1>5
  <1>9. c = "sched" => DOMAIN first \subseteq Procs /\ \A p \in DOMAIN first : ReadForOwn(p, window.first[p])'
    BY <1>1, <1>5
  <1>10. c = "ebpf" => bpf' = "loaded" /\ DOMAIN first = Procs /\ \A p \in Procs : CountedForOwn(p, window.first[p])'
    BY <1>1, <1>6
  <1>. QED BY <1>1, <1>2, <1>3, <1>7, <1>8, <1>9, <1>10 DEF WindowOK

LEMMA MeasureTurn ==
  ASSUME SnapshotOK, Measure, NEW c, Running(c), todo' = todo \/ (Finished /\ ~window'.on /\ ~perf'.on)
  PROVE  Turn(c) /\ UNCHANGED scans
  <1>1. Collector /\ UNCHANGED <<Beside, scans>> BY DEF Measure
  <1>2. OnlyEnriched
    BY <1>1, SchedstatEnriches, WakeupsEnrich, GpuEnriches, PerfEnriches DEF Collector
  <1>3. UNCHANGED Beside /\ UNCHANGED scans BY <1>1
  <1>. QED BY <1>2, <1>3 DEF Turn

LEMMA WindowShut == ~window'.on => WindowOK'
  BY DEF WindowOK

\* The last step of a collector.
LEMMA ClosingTurn ==
  ASSUME SnapshotOK, TurnOK, Measure, NEW c \in Sleepers \ {"perf"}, Running(c), Finished,
         perf' = perf, c # "ebpf" => bpf' = bpf
  PROVE  Windowed(c) /\ WindowOK' /\ ~window'.on
  <1>1. ~window'.on BY DEF Finished, NoWindow
  <1>2. ~Running("perf") BY OneRuns DEF TurnOK
  <1>3. ~perf'.on BY <1>2 DEF TurnOK
  <1>4. Turn(c) /\ UNCHANGED scans BY <1>1, <1>3, MeasureTurn
  <1>5. todo' # todo BY DEF Finished, Running
  <1>. QED BY <1>1, <1>4, <1>5, WindowShut DEF Windowed

\* The step with which it goes to sleep.
LEMMA OpeningTurn ==
  ASSUME SnapshotOK, Measure, NEW c \in Sleepers \ {"perf"}, Running(c), NEW first, Opens(first),
         todo' = todo, perf' = perf, c # "ebpf" => bpf' = bpf
  PROVE  Windowed(c)
  <1>1. window'.on BY DEF Opens
  <1>2. Turn(c) /\ UNCHANGED scans BY MeasureTurn
  <1>. QED BY <1>1, <1>2 DEF Windowed

(***************************************************************************)
(* schedstat and gpu.                                                      *)
(***************************************************************************)
LEMMA SchedstatKeeps ==
  ASSUME IInv, CollectorsOK, Measure, SchedstatFirst \/ SchedstatSecond
  PROVE  Windowed("schedstat") /\ WindowOK' /\ Spares({"wakeups"})
  <1>0. KernelOK /\ SnapshotOK /\ RowsOK /\ TurnOK BY DEF IInv, CollectorsOK
  <1>1. Running("schedstat") /\ bpf' = bpf /\ perf' = perf BY DEF SchedstatFirst, SchedstatSecond
  <1>2. "schedstat" \in Sleepers \ {"perf"} BY DEF Sleepers
  <1>3. ASSUME Finished PROVE Windowed("schedstat") /\ WindowOK'
    BY <1>0, <1>1, <1>2, <1>3, ClosingTurn
  <1>4. ASSUME NEW vals, Measures(vals, {"runq-delay"}), Collected(vals) PROVE Spares({"wakeups"})
    <2>1. {"runq-delay"} \cap {"wakeups"} = {} OBVIOUS
    <2>. QED BY <1>0, <1>4, <2>1, CollectedSpares
  <1>5. CASE SchedstatFirst
    <2>. DEFINE first == [p \in Procs |-> ReadRunDelay(p)]
                v == [p \in Procs |-> All({"runq-delay"}, first[p])]
    <2>1. CASE Opens(first) /\ UNCHANGED <<snap, todo>>
      <3>1. Windowed("schedstat") BY <1>0, <1>1, <1>2, <2>1, OpeningTurn
      <3>2. Turn("schedstat") BY <3>1 DEF Windowed
      <3>3. DOMAIN first = Procs /\ \A p \in Procs : OwnReading(p, first[p]) BY <1>0, RunDelayIsOwn
      <3>4. WindowOK'
        <4>. HIDE DEF first
        <4>. QED BY <1>0, <2>1, <3>2, <3>3, OpenWindow
      <3>. QED BY <2>1, <3>1, <3>4, StillSpares
    <2>2. CASE Collected(v) /\ Finished
      <3>1. Measures(v, {"runq-delay"}) BY DEF Measures, All
      <3>. QED BY <1>3, <1>4, <2>2, <3>1
    <2>. QED BY <1>5, <2>1, <2>2 DEF SchedstatFirst
  <1>6. CASE SchedstatSecond
    <2>. DEFINE v == [p \in Procs |-> All({"runq-delay"},
                   IF Present(window.first[p]) THEN WindowRate(window.first[p], ReadRunDelay(p), "schedstat")
                                               ELSE window.first[p])]
    <2>1. Measures(v, {"runq-delay"}) BY DEF Measures, All
    <2>2. Collected(v) /\ Finished BY <1>6 DEF SchedstatSecond
    <2>. QED BY <1>3, <1>4, <2>1, <2>2
  <1>. QED BY <1>5, <1>6

LEMMA GpuKeeps ==
  ASSUME IInv, CollectorsOK, Measure, GpuFirst \/ GpuSecond
  PROVE  Windowed("gpu") /\ WindowOK' /\ Spares({"wakeups"})
  <1>0. KernelOK /\ SnapshotOK /\ RowsOK /\ TurnOK BY DEF IInv, CollectorsOK
  <1>1. Running("gpu") /\ bpf' = bpf /\ perf' = perf BY DEF GpuFirst, GpuSecond
  <1>2. "gpu" \in Sleepers \ {"perf"} BY DEF Sleepers
  <1>3. ASSUME Finished PROVE Windowed("gpu") /\ WindowOK'
    BY <1>0, <1>1, <1>2, <1>3, ClosingTurn
  <1>4. ASSUME NEW vals, Measures(vals, GpuMetrics), Collected(vals) PROVE Spares({"wakeups"})
    <2>1. GpuMetrics \cap {"wakeups"} = {} BY WindowsAssumption DEF GpuMetrics
    <2>. QED BY <1>0, <1>4, <2>1, CollectedSpares
  <1>5. CASE GpuFirst
    <2>1. ASSUME NEW first, Opens(first), UNCHANGED <<snap, todo>>
          PROVE  Windowed("gpu") /\ WindowOK' /\ Spares({"wakeups"})
      <3>1. Windowed("gpu") BY <1>0, <1>1, <1>2, <2>1, OpeningTurn
      <3>2. Turn("gpu") BY <3>1 DEF Windowed
      <3>3. WindowOK' BY <1>0, <2>1, <3>2, OpenWindow
      <3>. QED BY <2>1, <3>1, <3>3, StillSpares
    <2>2. \/ \E first : Opens(first) /\ UNCHANGED <<snap, todo>>
          \/ \E errs : Collected(Refused(errs)) /\ Finished
      BY <1>5 DEF GpuFirst
    <2>. QED BY <1>3, <1>4, <2>1, <2>2, RefusedMeasures
  <1>6. CASE GpuSecond
    <2>1. PICK vals : Measures(vals, GpuMetrics) /\ Collected(vals)
      BY <1>6, GpuMeasures
    <2>2. Finished BY <1>6 DEF GpuSecond
    <2>. QED BY <1>3, <1>4, <2>1, <2>2
  <1>. QED BY <1>5, <1>6

(***************************************************************************)
(* The two sources of wakeups.                                             *)
(***************************************************************************)
LEMMA WakeupsShown ==
  ASSUME SnapshotOK, NEW f, DOMAIN f \subseteq Procs, Collected([p \in DOMAIN f |-> All({"wakeups"}, f[p])])
  PROVE  /\ Procs' = Procs
         /\ \A p \in Procs : Start(p)' = Start(p)
         /\ \A p \in DOMAIN f : "wakeups" \in DOMAIN snap'.rows[p].metric /\ snap'.rows[p].metric["wakeups"] = f[p]
         /\ \A p \in Procs \ DOMAIN f : snap'.rows[p].metric = snap.rows[p].metric
  <1>. DEFINE v == [p \in DOMAIN f |-> All({"wakeups"}, f[p])]
  <1>1. DOMAIN v = DOMAIN f /\ \A p \in DOMAIN f : DOMAIN v[p] = {"wakeups"} /\ v[p]["wakeups"] = f[p]
    BY DEF All
  <1>2. Collected(v) OBVIOUS
  <1>. HIDE DEF v
  <1>. QED BY <1>1, <1>2, CollectedIs, CollectedShows DEF Procs, Start

LEMMA EbpfKeeps ==
  ASSUME IInv, CollectorsOK, Measure, EbpfFirst \/ EbpfSecond
  PROVE  Windowed("ebpf") /\ WindowOK' /\ WakeupsOK'
  <1>0. KernelOK /\ SnapshotOK /\ RowsOK /\ TurnOK /\ WindowOK /\ WakeupsOK /\ phase = "enrich"
    BY DEF IInv, CollectorsOK, Measure
  <1>1. Running("ebpf") /\ perf' = perf BY DEF EbpfFirst, EbpfSecond
  <1>2. "ebpf" \in Sleepers \ {"perf"} BY DEF Sleepers
  <1>3. "ebpf" \in todo /\ (BothSources => "sched" \in todo) BY <1>0, <1>1 DEF Running, WakeupsOK
  <1>4. UNCHANGED <<query, phase>> /\ BothSources' = BothSources BY DEF Measure, Beside, BothSources
  <1>5. Finished => todo' = todo \ {"ebpf"} /\ ~window'.on
    BY <1>0, <1>1, NextTurn DEF TurnOK, Finished, NoWindow
  <1>6. CASE EbpfFirst
    <2>. DEFINE first == [p \in Procs |-> Value(Wakeups(p), 0, "ebpf")]
    <2>1. PICK b \in IF bpf = "unloaded" THEN {"loaded", "permission_denied", "unsupported"} ELSE {bpf} :
            /\ bpf' = b
            /\ IF b = "loaded"
               THEN Opens(first) /\ UNCHANGED <<snap, todo>>
               ELSE Collected([p \in Procs |-> All({"wakeups"}, Unavailable(b, "ebpf"))]) /\ Finished
      BY <1>6 DEF EbpfFirst
    <2>2. b \in Bpf BY <1>0 DEF Bpf, WakeupsOK
    <2>3. CASE b = "loaded"
      <3>1. Windowed("ebpf") BY <1>0, <1>1, <1>2, <2>1, <2>3, OpeningTurn
      <3>2. Turn("ebpf") BY <3>1 DEF Windowed
      <3>3. DOMAIN first = Procs /\ \A p \in Procs : Present(first[p]) /\ first[p].val = woken[p]
        BY DEF Present, Value, Wakeups
      <3>4. WindowOK'
        <4>. HIDE DEF first
        <4>. QED BY <1>0, <2>1, <2>3, <3>2, <3>3, OpenWindow
      <3>5. ~Running("sched")'
        <4>1. ~Running("sched") BY <1>0, <1>1, OneRuns DEF TurnOK
        <4>. QED BY <2>1, <2>3, <4>1 DEF Running
      <3>. QED BY <1>3, <1>4, <2>1, <2>2, <2>3, <3>1, <3>4, <3>5 DEF WakeupsOK
    <2>4. CASE b # "loaded"
      <3>. DEFINE f == [p \in Procs |-> Unavailable(b, "ebpf")]
      <3>1. Windowed("ebpf") /\ WindowOK' BY <1>0, <1>1, <1>2, <2>1, <2>4, ClosingTurn
      <3>2. DOMAIN f = Procs /\ \A p \in Procs : ~Present(f[p]) BY <2>2 DEF Unavailable, Present, Bpf
      <3>3. [p \in Procs |-> All({"wakeups"}, Unavailable(b, "ebpf"))] = [p \in DOMAIN f |-> All({"wakeups"}, f[p])]
        OBVIOUS
      <3>4. Collected([p \in DOMAIN f |-> All({"wakeups"}, f[p])]) BY <2>1, <2>4, <3>3
      <3>. HIDE DEF f
      <3>5. Procs' = Procs /\ \A p \in Procs : ~Present(Metric(p, "wakeups"))'
        BY <1>0, <3>2, <3>4, WakeupsShown DEF Metric
      <3>6. todo' = todo \ {"ebpf"} /\ ~window'.on BY <1>5, <2>1, <2>4
      <3>. QED BY <1>3, <1>4, <2>1, <2>2, <2>4, <3>1, <3>5, <3>6 DEF WakeupsOK
    <2>. QED BY <2>3, <2>4
  <1>7. CASE EbpfSecond
    <2>. DEFINE f == [p \in Procs |-> WindowRate(window.first[p], Value(Wakeups(p), 0, "ebpf"), "ebpf")]
    <2>1. /\ window.on /\ Finished /\ bpf' = bpf
          /\ Collected([p \in Procs |-> All({"wakeups"}, WindowRate(window.first[p], Value(Wakeups(p), 0, "ebpf"), "ebpf"))])
      BY <1>7 DEF EbpfSecond
    <2>2. Windowed("ebpf") /\ WindowOK' BY <1>0, <1>1, <1>2, <2>1, ClosingTurn
    <2>3. bpf = "loaded" /\ \A p \in Procs : CountedForOwn(p, window.first[p]) BY <1>0, <1>1, <2>1 DEF WindowOK
    <2>4. ASSUME NEW p \in Procs PROVE Present(f[p]) /\ f[p].src = "ebpf"
      <3>1. p \in Pids /\ woken[p] \in Nat
        <4>1. home \in Seq(Pids) BY <1>0 DEF KernelOK
        <4>. QED BY <1>0, <4>1 DEF RowsOK
      <3>2. window.first[p].val \in Nat /\ window.first[p].val <= woken[p] BY <2>3 DEF CountedForOwn
      <3>3. ~(woken[p] < window.first[p].val) BY <3>1, <3>2
      <3>. QED BY <3>3 DEF WindowRate, Value, Present, Wakeups
    <2>5. DOMAIN f = Procs /\ Collected([p \in DOMAIN f |-> All({"wakeups"}, f[p])])
      <3>1. [p \in Procs |-> All({"wakeups"}, WindowRate(window.first[p], Value(Wakeups(p), 0, "ebpf"), "ebpf"))]
              = [p \in DOMAIN f |-> All({"wakeups"}, f[p])]
        OBVIOUS
      <3>. QED BY <2>1, <3>1
    <2>. HIDE DEF f
    <2>6. Procs' = Procs /\ \A p \in Procs : FromSource(snap.rows[p], "ebpf")'
      BY <1>0, <2>4, <2>5, WakeupsShown DEF FromSource
    <2>7. todo' = todo \ {"ebpf"} /\ ~window'.on BY <1>5, <2>1
    <2>8. bpf' \in Bpf BY <1>0, <2>1 DEF WakeupsOK
    <2>. QED BY <1>3, <1>4, <2>1, <2>2, <2>3, <2>6, <2>7, <2>8 DEF WakeupsOK
  <1>. QED BY <1>6, <1>7

LEMMA SchedKeeps ==
  ASSUME IInv, CollectorsOK, Measure, SchedFirst \/ SchedSecond
  PROVE  Windowed("sched") /\ WindowOK' /\ WakeupsOK'
  <1>0. KernelOK /\ SnapshotOK /\ RowsOK /\ TurnOK /\ WindowOK /\ WakeupsOK /\ phase = "enrich"
    BY DEF IInv, CollectorsOK, Measure
  <1>1. Running("sched") /\ perf' = perf /\ bpf' = bpf BY DEF SchedFirst, SchedSecond
  <1>2. "sched" \in Sleepers \ {"perf"} BY DEF Sleepers
  <1>3. "sched" \in todo /\ "ebpf" \notin todo
    <2>1. "ebpf" \in todo => Rank["sched"] < Rank["ebpf"] BY <1>1 DEF Running
    <2>. QED BY <1>1, <2>1 DEF Running, Rank
  <1>4. UNCHANGED <<query, phase, alive, denied>> /\ BothSources' = BothSources
    BY DEF Measure, Beside, BothSources, kernel
  <1>5. Finished => todo' = todo \ {"sched"} /\ ~window'.on
    BY <1>0, <1>1, NextTurn DEF TurnOK, Finished, NoWindow
  <1>6. bpf \in Bpf BY <1>0 DEF WakeupsOK
  \* Either the preferred source has filled every row, and this one has nothing to do,
  \* or none, and it has all to do.
  <1>7. BothSources /\ bpf = "loaded" =>
          Pending = {} /\ ~window.on /\ \A p \in Procs : FromSource(snap.rows[p], "ebpf")
    <2>. SUFFICES ASSUME BothSources, bpf = "loaded"
                  PROVE  Pending = {} /\ ~window.on /\ \A p \in Procs : FromSource(snap.rows[p], "ebpf")
      OBVIOUS
    <2>1. \A p \in Procs : FromSource(snap.rows[p], "ebpf") BY <1>0, <1>3 DEF WakeupsOK
    <2>2. \A p \in Procs : Present(Metric(p, "wakeups")) BY <2>1 DEF FromSource, Metric
    <2>. QED BY <1>0, <1>1, <2>1, <2>2 DEF Pending, WakeupsOK
  <1>8. BothSources /\ bpf # "loaded" =>
          /\ Pending = Procs
          /\ window.on => /\ DOMAIN window.first = Procs
                          /\ \A p \in Procs : Obtainable(Start(p)) => Present(window.first[p])
    BY <1>0, <1>1, <1>3 DEF Pending, WakeupsOK
  <1>9. ASSUME NEW f, DOMAIN f \subseteq Procs, Collected([p \in DOMAIN f |-> All({"wakeups"}, f[p])]), Finished,
               BothSources /\ bpf = "loaded" => DOMAIN f = {},
               BothSources /\ bpf # "loaded" => DOMAIN f = Procs,
               \A p \in DOMAIN f : /\ Present(f[p]) => f[p].src = "sched"
                                   /\ BothSources /\ Obtainable(Start(p)) => Present(f[p])
        PROVE  Windowed("sched") /\ WindowOK' /\ WakeupsOK'
    <2>1. Windowed("sched") /\ WindowOK' BY <1>0, <1>1, <1>2, <1>9, ClosingTurn
    <2>2. /\ Procs' = Procs /\ \A p \in Procs : Start(p)' = Start(p)
          /\ \A p \in DOMAIN f : "wakeups" \in DOMAIN snap'.rows[p].metric /\ snap'.rows[p].metric["wakeups"] = f[p]
          /\ \A p \in Procs \ DOMAIN f : snap'.rows[p].metric = snap.rows[p].metric
      BY <1>0, <1>9, WakeupsShown
    <2>3. BothSources /\ bpf = "loaded" => \A p \in Procs : FromSource(snap.rows[p], "ebpf")'
      BY <1>4, <1>7, <1>9, <2>2 DEF FromSource
    <2>4. BothSources /\ bpf # "loaded" => \A p \in Procs : FromSource(snap.rows[p], "sched")'
      BY <1>4, <1>9, <2>2 DEF FromSource, Obtainable, Start
    <2>. QED BY <1>1, <1>3, <1>4, <1>5, <1>6, <1>9, <2>1, <2>2, <2>3, <2>4 DEF WakeupsOK
  <1>10. CASE SchedFirst
    <2>. DEFINE first == [p \in Pending |-> ReadWakeups(p)]
    <2>1. /\ ~window.on
          /\ \/ Opens(first) /\ UNCHANGED <<snap, todo>> /\ \E p \in Pending : Present(first[p])
             \/ Collected([p \in Pending |-> All({"wakeups"}, first[p])]) /\ Finished
      BY <1>10 DEF SchedFirst
    <2>2. DOMAIN first = Pending /\ Pending \subseteq Procs /\ \A p \in Pending : first[p] = ReadWakeups(p)
      BY DEF Pending
    <2>. HIDE DEF first
    <2>3. \A p \in Pending : /\ OwnReading(p, first[p])
                             /\ Present(first[p]) => first[p].src = "sched"
                             /\ Obtainable(Start(p)) => Present(first[p])
      <3>1. \A p : Present(ReadWakeups(p)) => ReadWakeups(p).src = "sched"
        BY DEF ReadWakeups, Present, Value, Unavailable
      <3>. QED BY <1>0, <2>2, <3>1, SchedReadingIsOwn
    <2>4. CASE Opens(first) /\ UNCHANGED <<snap, todo>> /\ \E p \in Pending : Present(first[p])
      <3>1. Windowed("sched") BY <1>0, <1>1, <1>2, <2>4, OpeningTurn
      <3>2. Turn("sched") BY <3>1 DEF Windowed
      <3>3. WindowOK' BY <1>0, <2>2, <2>3, <2>4, <3>2, OpenWindow
      <3>4. WakeupsOK'
        <4>1. BothSources => bpf # "loaded" BY <1>7, <2>4
        <4>2. window'.first = first BY <2>4 DEF Opens
        <4>3. Procs' = Procs /\ Running("sched")'
              /\ \A p \in Procs : Start(p)' = Start(p) /\ Metric(p, "wakeups")' = Metric(p, "wakeups")
          BY <1>1, <2>4 DEF Procs, Running, Start, Metric
        <4>4. \A s : Obtainable(s)' <=> Obtainable(s) BY <1>4 DEF Obtainable
        <4>5. BothSources => DOMAIN first = Procs /\ \A p \in Procs : Obtainable(Start(p)) => Present(first[p])
          BY <1>8, <2>2, <2>3, <4>1
        <4>6. BothSources => \A p \in Procs : ~Present(Metric(p, "wakeups"))
          BY <1>0, <1>3, <4>1 DEF WakeupsOK
        <4>. QED BY <1>1, <1>3, <1>4, <1>6, <2>4, <4>1, <4>2, <4>3, <4>4, <4>5, <4>6 DEF WakeupsOK
      <3>. QED BY <3>1, <3>3, <3>4
    <2>5. CASE Collected([p \in Pending |-> All({"wakeups"}, first[p])]) /\ Finished
      <3>1. Collected([p \in DOMAIN first |-> All({"wakeups"}, first[p])]) BY <2>2, <2>5
      <3>. QED BY <1>7, <1>8, <1>9, <2>2, <2>3, <2>5, <3>1
    <2>. QED BY <2>1, <2>4, <2>5
  <1>11. CASE SchedSecond
    <2>. DEFINE f == [p \in DOMAIN window.first |->
                       IF Present(window.first[p]) THEN WindowRate(window.first[p], ReadWakeups(p), "sched")
                                                   ELSE window.first[p]]
    <2>1. /\ window.on /\ Finished
          /\ Collected([p \in DOMAIN window.first |-> All({"wakeups"},
               IF Present(window.first[p]) THEN WindowRate(window.first[p], ReadWakeups(p), "sched")
                                           ELSE window.first[p])])
      BY <1>11 DEF SchedSecond
    <2>2. DOMAIN f = DOMAIN window.first /\ Collected([p \in DOMAIN f |-> All({"wakeups"}, f[p])])
      <3>1. [p \in DOMAIN window.first |-> All({"wakeups"},
               IF Present(window.first[p]) THEN WindowRate(window.first[p], ReadWakeups(p), "sched")
                                           ELSE window.first[p])]
              = [p \in DOMAIN f |-> All({"wakeups"}, f[p])]
        OBVIOUS
      <3>. QED BY <2>1, <3>1
    <2>3. DOMAIN window.first \subseteq Procs /\ \A p \in DOMAIN window.first : ReadForOwn(p, window.first[p])
      BY <1>0, <1>1, <2>1 DEF WindowOK
    <2>4. ASSUME NEW p \in DOMAIN window.first
          PROVE  /\ Present(f[p]) => f[p].src = "sched"
                 /\ BothSources /\ Obtainable(Start(p)) => Present(f[p])
      <3>1. Present(f[p]) => Present(window.first[p]) BY DEF WindowRate
      <3>2. Present(f[p]) => f[p].src = "sched" BY <3>1 DEF WindowRate, Value, WarmingUp, Unavailable
      <3>3. ASSUME BothSources, Obtainable(Start(p)) PROVE Present(f[p])
        <4>. DEFINE t == Start(p)
        <4>1. t \in alive /\ p \in Procs BY <2>3, <3>3 DEF Obtainable
        <4>2. t \in Starts /\ work[t] \in Nat /\ window.work[t] \in Nat /\ window.work[t] <= work[t]
          BY <1>0, <2>1, <4>1, StartsAreLive, CountersNow DEF WindowOK, KernelOK
        <4>3. bpf # "loaded" BY <1>7, <2>1, <3>3
        <4>4. Present(window.first[p]) BY <1>8, <2>1, <3>3, <4>1, <4>3
        <4>5. window.first[p].val = window.work[t] BY <2>3, <4>1, <4>4 DEF ReadForOwn
        <4>6. Present(ReadWakeups(p)) /\ ReadWakeups(p).val = work[t]
          BY <1>0, <3>3, <4>1, SchedReadingIsOwn DEF OwnReading
        <4>7. ~(ReadWakeups(p).val < window.first[p].val) BY <4>2, <4>5, <4>6
        <4>. QED BY <4>4, <4>6, <4>7 DEF WindowRate, Value, Present
      <3>. QED BY <3>2, <3>3
    <2>. HIDE DEF f
    <2>. QED BY <1>7, <1>8, <1>9, <2>1, <2>2, <2>3, <2>4
  <1>. QED BY <1>10, <1>11

(***************************************************************************)
(* perf.                                                                   *)
(***************************************************************************)
LEMMA ProcsAreFinite ==
  ASSUME KernelOK, RowsOK
  PROVE  Procs \subseteq Pids /\ IsFiniteSet(Procs)
  <1>1. home \in Seq(Pids) BY DEF KernelOK
  <1>2. Procs \subseteq Pids BY <1>1 DEF RowsOK
  <1>. QED BY <1>2, SamplerAssumption, FS_Subset

\* The groups of a batch: as many as MaxGroups, each with all its descriptors.
LEMMA BatchOpens ==
  ASSUME KernelOK, RowsOK, PerfOK, PerfOpen
  PROVE  /\ DOMAIN perf'.groups \subseteq Procs /\ Cardinality(DOMAIN perf'.groups) <= MaxGroups
         /\ \A p \in DOMAIN perf'.groups : Start(p) \in alive => perf'.groups[p] = Start(p)
         /\ perf'.fds = (DOMAIN perf'.groups) \X (1..HwEvents)
         /\ perf'.left \subseteq Procs
         /\ DOMAIN perf' = {"on", "left", "groups", "fds"}
  <1>0. PICK batch \in SUBSET perf.left : \E k \in [batch -> 0..HwEvents] :
          /\ IsBatch(batch, perf.left)
          /\ perf' = [on |-> TRUE, left |-> perf.left \ batch,
                      groups |-> [p \in {p \in batch : k[p] = HwEvents} |-> Holder(p)],
                      fds |-> perf.fds \cup UNION {{p} \X LeftOpen(k[p]) : p \in batch}]
    BY DEF PerfOpen
  <1>1. PICK k \in [batch -> 0..HwEvents] :
          /\ IsBatch(batch, perf.left)
          /\ perf' = [on |-> TRUE, left |-> perf.left \ batch,
                      groups |-> [p \in {p \in batch : k[p] = HwEvents} |-> Holder(p)],
                      fds |-> perf.fds \cup UNION {{p} \X LeftOpen(k[p]) : p \in batch}]
    BY <1>0
  <1>. DEFINE ok == {p \in batch : k[p] = HwEvents}
  <1>2. DOMAIN perf'.groups = ok /\ (\A p \in ok : perf'.groups[p] = Holder(p))
        /\ perf'.left = perf.left \ batch /\ DOMAIN perf' = {"on", "left", "groups", "fds"}
        /\ perf'.fds = perf.fds \cup UNION {{p} \X LeftOpen(k[p]) : p \in batch}
    BY <1>1
  <1>3. batch \subseteq Procs /\ perf.left \subseteq Procs /\ perf.fds = {} /\ ok \subseteq batch
    BY DEF PerfOK, PerfOpen
  <1>4. Cardinality(ok) <= MaxGroups
    <2>1. IsFiniteSet(batch) BY <1>3, ProcsAreFinite, FS_Subset
    <2>2. IsFiniteSet(ok) /\ Cardinality(ok) <= Cardinality(batch) BY <1>3, <2>1, FS_Subset
    <2>3. Cardinality(ok) \in Nat /\ Cardinality(batch) \in Nat BY <2>1, <2>2, FS_CardinalityType
    <2>4. Cardinality(batch) <= MaxGroups /\ MaxGroups \in Nat BY <1>1, WindowsAssumption DEF IsBatch
    <2>. HIDE DEF ok
    <2>. QED BY <2>2, <2>3, <2>4
  <1>5. UNION {{p} \X LeftOpen(k[p]) : p \in batch} = ok \X (1..HwEvents)
    <2>1. \A p \in batch : LeftOpen(k[p]) = IF p \in ok THEN 1..HwEvents ELSE {} BY DEF LeftOpen
    <2>. DEFINE L(p) == LeftOpen(k[p])
    <2>2. \A p \in batch : L(p) = IF p \in ok THEN 1..HwEvents ELSE {} BY <2>1
    <2>3. ok \subseteq batch BY <1>3
    <2>. HIDE DEF ok, L
    <2>4. ASSUME NEW x \in UNION {{p} \X L(p) : p \in batch} PROVE x \in ok \X (1..HwEvents)
      <3>1. PICK p \in batch : x \in {p} \X L(p) OBVIOUS
      <3>2. p \in ok /\ L(p) = 1..HwEvents BY <2>2, <3>1
      <3>. QED BY <3>1, <3>2
    <2>5. ASSUME NEW x \in ok \X (1..HwEvents) PROVE x \in UNION {{p} \X L(p) : p \in batch}
      <3>1. x = <<x[1], x[2]>> /\ x[1] \in ok /\ x[2] \in 1..HwEvents OBVIOUS
      <3>2. x[1] \in batch /\ x \in {x[1]} \X L(x[1]) BY <2>2, <2>3, <3>1
      <3>. QED BY <3>2
    <2>6. UNION {{p} \X L(p) : p \in batch} = ok \X (1..HwEvents) BY <2>4, <2>5
    <2>. QED BY <2>6 DEF L
  <1>. HIDE DEF ok
  <1>. QED BY <1>2, <1>3, <1>4, <1>5, OwnHolder

LEMMA PerfKeeps ==
  ASSUME IInv, CollectorsOK, Measure, PerfBegins \/ PerfOpen \/ PerfRead \/ PerfEnds
  PROVE  Windowed("perf") /\ WindowOK' /\ PerfOK' /\ Spares({"wakeups"})
  <1>0. KernelOK /\ SnapshotOK /\ RowsOK /\ TurnOK /\ WindowOK /\ PerfOK BY DEF IInv, CollectorsOK
  <1>1. Running("perf") /\ bpf' = bpf BY DEF PerfBegins, PerfOpen, PerfRead, PerfEnds
  <1>2. Windowed("perf")
    <2>1. todo' = todo \/ (Finished /\ ~window'.on /\ ~perf'.on)
      BY DEF PerfBegins, PerfOpen, PerfRead, PerfEnds, Finished, NoWindow, NoPerf
    <2>. QED BY <1>0, <1>1, <2>1, MeasureTurn DEF Windowed, Sleepers
  <1>3. Turn("perf") BY <1>2 DEF Windowed
  <1>4. /\ Procs' = Procs /\ alive' = alive
        /\ \A p \in Procs : Start(p)' = Start(p)
    BY <1>3, TurnRests
  <1>5. Spares({"wakeups"})
    <2>1. CASE UNCHANGED snap BY <2>1, StillSpares
    <2>2. CASE PerfOpen \/ PerfRead
      <3>1. PICK v : Measures(v, PerfMetrics) /\ Collected(v) BY <2>2, PerfMeasures
      <3>2. PerfMetrics \cap {"wakeups"} = {} BY DEF PerfMetrics
      <3>. QED BY <1>0, <3>1, <3>2, CollectedSpares
    <2>. QED BY <2>1, <2>2 DEF PerfBegins, PerfEnds
  <1>6. CASE PerfBegins
    <2>1. /\ perf' = [NoPerf EXCEPT !.on = TRUE, !.left = Procs] /\ UNCHANGED <<snap, todo, window, bpf>>
      BY <1>6 DEF PerfBegins
    <2>2. perf'.left = Procs /\ DOMAIN perf'.groups = {} /\ perf'.fds = {}
          /\ DOMAIN perf' = {"on", "left", "groups", "fds"}
      BY <2>1 DEF NoPerf, Empty
    <2>3. WindowOK'
      <3>1. KernelOK' /\ KernelMoves BY <1>0, <1>3, StillKernel DEF Turn, Beside
      <3>2. WakesMove BY <1>0, <1>3, TurnRests, StillWakes
      <3>. QED BY <1>0, <2>1, <3>1, <3>2, WindowKept
    <2>4. Cardinality({}) <= MaxGroups BY FS_EmptySet, WindowsAssumption
    <2>5. {} = {} \X (1..HwEvents) OBVIOUS
    <2>6. PerfOK' BY <1>4, <2>2, <2>4, <2>5 DEF PerfOK
    <2>. QED BY <1>2, <1>5, <2>3, <2>6
  <1>7. CASE PerfOpen
    <2>1. Opens(Empty) /\ todo' = todo BY <1>7 DEF PerfOpen
    <2>2. WindowOK' BY <1>0, <1>3, <2>1, OpenWindow
    <2>3. window'.on /\ Running("perf")' BY <1>1, <2>1 DEF Opens, Running
    <2>4. PerfOK' BY <1>0, <1>4, <1>7, <2>3, BatchOpens DEF PerfOK
    <2>. QED BY <1>2, <1>5, <2>2, <2>4
  <1>8. CASE PerfRead
    <2>1. /\ ~window'.on
          /\ perf' = [perf EXCEPT !.groups = Empty, !.fds = perf.fds \ ((DOMAIN perf.groups) \X (1..HwEvents))]
      BY <1>8 DEF PerfRead, NoWindow
    <2>2. perf.fds = (DOMAIN perf.groups) \X (1..HwEvents) BY <1>0, <1>1, <1>8 DEF PerfOK, PerfRead
    <2>3. DOMAIN perf = {"on", "left", "groups", "fds"} BY <1>0 DEF PerfOK
    <2>4. DOMAIN perf' = DOMAIN perf /\ perf'.on = perf.on /\ perf'.left = perf.left /\ perf'.fds = {}
      BY <2>1, <2>2, <2>3
    <2>5. PerfOK' BY <1>0, <1>4, <2>1, <2>3, <2>4 DEF PerfOK
    <2>. QED BY <1>2, <1>5, <2>1, <2>5, WindowShut
  <1>9. CASE PerfEnds
    <2>1. /\ ~window.on /\ ~window'.on /\ perf' = [NoPerf EXCEPT !.fds = perf.fds]
      BY <1>9 DEF PerfEnds, Finished, NoWindow
    <2>2. perf.fds = {} BY <1>0, <2>1 DEF PerfOK
    <2>3. ~perf'.on /\ perf'.fds = {} /\ DOMAIN perf' = {"on", "left", "groups", "fds"}
      BY <2>1, <2>2 DEF NoPerf
    <2>4. PerfOK' BY <2>1, <2>3 DEF PerfOK
    <2>. QED BY <1>2, <1>5, <2>1, <2>4, WindowShut
  <1>. QED BY <1>6, <1>7, <1>8, <1>9

(***************************************************************************)
(* The scans.                                                              *)
(***************************************************************************)
\* The collector whose goroutines these are.
LEMMA ScanTurn ==
  ASSUME SnapshotOK, TurnOK, Scan
  PROVE  /\ phase = "enrich" /\ ~window.on /\ ~window'.on /\ ~perf.on /\ UNCHANGED <<bpf, perf>>
         /\ \E c \in Scanning : Turn(c)
  <1>1. PICK c \in Scanning : Running(c)
    <2>1. CASE ReadNetTables \/ Launch \/ CollectReturns
      BY <2>1 DEF ReadNetTables, Launch, CollectReturns, Ready, Scanning
    <2>2. CASE \E p \in DOMAIN scan : Acquire(p) \/ CollectOne(p) \/ Receive(p)
      BY <2>2 DEF TurnOK
    <2>. QED BY <2>1, <2>2 DEF Scan, ScanStep
  <1>2. \A d : Running(d) => d = c BY <1>1, OneRuns DEF TurnOK
  <1>3. c \notin Sleepers BY DEF Scanning, Sleepers
  <1>4. ~window.on /\ ~perf.on BY <1>2, <1>3 DEF TurnOK, Sleepers
  <1>5. UNCHANGED <<bpf, perf>> /\ (UNCHANGED <<todo, window>> \/ Finished)
    BY DEF Scan, ScanStep, ReadNetTables, Launch, CollectReturns, Acquire, CollectOne, Receive, collectors
  <1>6. ~window'.on /\ ~perf'.on BY <1>4, <1>5 DEF Finished, NoWindow
  <1>7. OnlyEnriched BY ScanEnriches DEF Scan
  <1>8. UNCHANGED Beside /\ phase = "enrich" BY DEF Scan
  <1>9. Turn(c) BY <1>1, <1>5, <1>6, <1>7, <1>8 DEF Turn
  <1>. QED BY <1>4, <1>5, <1>6, <1>8, <1>9

\* What a goroutine does to the row of its process.
LEMMA CollectOneShows ==
  ASSUME SnapshotOK, NEW p, CollectOne(p)
  PROVE  /\ Spares({"wakeups"})
         /\ Running("fd") /\ p \in Procs => "fd-total" \in DOMAIN snap'.rows[p].metric
  <1>. DEFINE seen == IF Holder(p) = Free THEN {} ELSE fds[Holder(p)]
              v    == [q \in {p} |-> IF Running("fd") THEN FdCollectOne(p, seen) ELSE SocketCollectOne(p, seen)]
              ids  == IF Running("fd") THEN FdMetrics ELSE SockMetrics
  <1>1. \A s : DOMAIN FdCollectOne(p, s) = FdMetrics /\ DOMAIN SocketCollectOne(p, s) = SockMetrics
    BY DEF FdCollectOne, SocketCollectOne, All
  <1>2. Measures(v, ids) /\ DOMAIN v = {p} /\ DOMAIN v[p] = ids BY <1>1 DEF Measures
  <1>3. Collected(v) BY DEF CollectOne
  <1>4. ids \cap {"wakeups"} = {} /\ (Running("fd") => "fd-total" \in ids) BY DEF FdMetrics, SockMetrics
  <1>. HIDE DEF v, ids
  <1>5. Spares({"wakeups"}) BY <1>2, <1>3, <1>4, CollectedSpares
  <1>6. Running("fd") /\ p \in Procs => "fd-total" \in DOMAIN snap'.rows[p].metric
    BY <1>2, <1>3, <1>4, CollectedShows DEF Procs
  <1>. QED BY <1>5, <1>6

LEMMA ScanSpares ==
  ASSUME SnapshotOK, Scan
  PROVE  Spares({"wakeups"})
  <1>1. UNCHANGED snap \/ \E p : CollectOne(p)
    BY DEF Scan, ScanStep, ReadNetTables, Launch, CollectReturns, Acquire, Receive
  <1>. QED BY <1>1, StillSpares, CollectOneShows

\* A goroutine ends by handing in its counts, and Collect returns when all have.
LEMMA GoroutinesKeep ==
  ASSUME SnapshotOK, TurnOK, ScanOK, Scan
  PROVE  TurnOK' /\ ScanOK'
  <1>1. /\ phase = "enrich" /\ ~window.on /\ ~window'.on /\ ~perf.on /\ UNCHANGED <<bpf, perf>>
        /\ \E c \in Scanning : Turn(c)
    BY ScanTurn
  <1>2. PICK c \in Scanning : Turn(c) BY <1>1
  <1>3. /\ UNCHANGED <<query, phase, ctxDone>> /\ Procs' = Procs
        /\ \A p \in Procs : DOMAIN snap.rows[p].metric \subseteq DOMAIN snap'.rows[p].metric
    BY <1>2, TurnRests
  <1>4. ASSUME todo' = todo, DOMAIN scan' = launched',
               Running("fd") => \A p \in launched' \cap Procs :
                 scan'[p] \in {"ended", "received"} => "fd-total" \in DOMAIN snap'.rows[p].metric
        PROVE  TurnOK' /\ ScanOK'
    <2>1. \A d : Running(d)' = Running(d) BY <1>4 DEF Running
    <2>2. TurnOK' BY <1>1, <1>2, <1>3, <1>4, <2>1 DEF TurnOK, Turn
    <2>3. ScanOK' BY <1>3, <1>4, <2>1 DEF ScanOK
    <2>. QED BY <2>2, <2>3
  <1>5. DOMAIN scan = launched BY DEF TurnOK
  <1>6. Running("fd") => \A p \in launched \cap Procs :
          scan[p] \in {"ended", "received"} => "fd-total" \in DOMAIN snap'.rows[p].metric
    BY <1>3 DEF ScanOK
  <1>7. CASE ReadNetTables
    BY <1>4, <1>5, <1>6, <1>7 DEF ReadNetTables, collectors
  <1>8. CASE Launch
    <2>1. PICK p : launched' = launched \cup {p} /\ scan' = Over([q \in {p} |-> "waiting"], scan) /\ todo' = todo
      BY <1>8 DEF Launch, collectors
    <2>2. DOMAIN scan' = launched' /\ \A q \in launched' : scan'[q] = IF q = p THEN "waiting" ELSE scan[q]
      BY <1>5, <2>1 DEF Over
    <2>. QED BY <1>4, <1>6, <2>1, <2>2
  <1>9. ASSUME NEW p \in DOMAIN scan, Acquire(p) \/ Receive(p) PROVE TurnOK' /\ ScanOK'
    <2>1. /\ todo' = todo /\ launched' = launched
          /\ \/ scan[p] = "waiting" /\ scan' = [scan EXCEPT ![p] = "scanning"]
             \/ scan[p] = "ended" /\ scan' = [scan EXCEPT ![p] = "received"]
      BY <1>9 DEF Acquire, Receive, collectors
    <2>2. DOMAIN scan' = launched' /\ \A q \in launched' : scan'[q] \in {"ended", "received"} => scan[q] \in {"ended", "received"}
      BY <1>5, <2>1
    <2>. QED BY <1>4, <1>6, <2>1, <2>2
  <1>10. ASSUME NEW p \in DOMAIN scan, CollectOne(p) PROVE TurnOK' /\ ScanOK'
    <2>1. todo' = todo /\ launched' = launched /\ scan' = [scan EXCEPT ![p] = "ended"]
      BY <1>10 DEF CollectOne, collectors
    <2>2. DOMAIN scan' = launched' /\ \A q \in launched' : q # p => scan'[q] = scan[q]
      BY <1>5, <2>1
    <2>3. Running("fd") /\ p \in Procs => "fd-total" \in DOMAIN snap'.rows[p].metric
      BY <1>10, CollectOneShows
    <2>. QED BY <1>4, <1>6, <2>1, <2>2, <2>3
  <1>11. CASE CollectReturns
    <2>1. /\ scan' = Empty /\ launched' = {} /\ Finished /\ ~More /\ UNCHANGED snap
          /\ \A p \in launched : scan[p] = "received"
      BY <1>11 DEF CollectReturns, Awaited
    <2>2. todo' = todo \ {c} /\ Running(c) BY <1>2, <2>1, NextTurn DEF TurnOK, Turn
    <2>3. TurnOK' BY <1>1, <1>3, <2>1, <2>2 DEF TurnOK, Empty
    <2>4. Running("fd") /\ ~ctxDone => \A p \in Procs : "fd-total" \in DOMAIN snap'.rows[p].metric
      BY <1>6, <2>1 DEF More
    <2>5. "fd" \notin todo' => "fd" \notin todo \/ Running("fd") BY <2>2
    <2>6. ScanOK' BY <1>3, <2>1, <2>4, <2>5 DEF ScanOK
    <2>. QED BY <2>3, <2>6
  <1>. QED BY <1>7, <1>8, <1>9, <1>10, <1>11 DEF Scan, ScanStep

LEMMA ScanKeeps ==
  ASSUME IInv, CollectorsOK, Scan
  PROVE  CollectorsOK'
  <1>0. SnapshotOK /\ RowsOK /\ TurnOK /\ PerfOK /\ WakeupsOK /\ ShownOK /\ ScanOK BY DEF IInv, CollectorsOK
  <1>1. /\ phase = "enrich" /\ ~window'.on /\ UNCHANGED <<bpf, perf>>
        /\ \E c \in Scanning : Turn(c)
    BY <1>0, ScanTurn
  <1>2. PICK c \in Scanning : Turn(c) BY <1>1
  <1>3. Running(c) /\ c \notin Sleepers BY <1>2 DEF Turn, Scanning, Sleepers
  <1>4. RowsOK' /\ ShownOK' BY <1>0, <1>1, <1>2, <1>3, TurnRows
  <1>5. WindowOK' BY <1>1, WindowShut
  <1>6. PerfOK' BY <1>0, <1>1, <1>2, <1>3, PerfRests DEF Sleepers
  <1>7. WakeupsOK' BY <1>0, <1>1, <1>2, <1>3, SourcesRest, ScanSpares DEF Sleepers
  <1>8. TurnOK' /\ ScanOK' BY <1>0, GoroutinesKeep
  <1>. QED BY <1>4, <1>5, <1>6, <1>7, <1>8 DEF CollectorsOK

LEMMA MeasureKeeps ==
  ASSUME IInv, CollectorsOK, Measure
  PROVE  CollectorsOK'
  <1>0. RowsOK /\ TurnOK /\ PerfOK /\ WakeupsOK /\ ShownOK /\ ScanOK /\ phase = "enrich"
    BY DEF CollectorsOK, Measure
  <1>1. ASSUME NEW c, Windowed(c), WindowOK', PerfOK', WakeupsOK' PROVE CollectorsOK'
    <2>1. Turn(c) /\ Running(c) BY <1>1 DEF Windowed, Turn
    <2>2. RowsOK' /\ ShownOK' BY <1>0, <2>1, TurnRows
    <2>3. TurnOK' BY <1>0, <1>1, WindowedTurn
    <2>4. ScanOK' BY <1>0, <1>1, WindowedScan
    <2>. QED BY <1>1, <2>2, <2>3, <2>4 DEF CollectorsOK
  <1>2. ASSUME NEW c, c # "perf", Windowed(c) PROVE PerfOK'
    BY <1>0, <1>2, PerfRests DEF Windowed
  <1>3. ASSUME NEW c, c \notin {"ebpf", "sched"}, Windowed(c), Spares({"wakeups"}) PROVE WakeupsOK'
    BY <1>0, <1>3, SourcesRest DEF Windowed
  <1>4. CASE SchedstatFirst \/ SchedstatSecond BY <1>1, <1>2, <1>3, <1>4, SchedstatKeeps
  <1>5. CASE GpuFirst \/ GpuSecond BY <1>1, <1>2, <1>3, <1>5, GpuKeeps
  <1>6. CASE PerfBegins \/ PerfOpen \/ PerfRead \/ PerfEnds BY <1>1, <1>3, <1>6, PerfKeeps
  <1>7. CASE EbpfFirst \/ EbpfSecond BY <1>1, <1>2, <1>7, EbpfKeeps
  <1>8. CASE SchedFirst \/ SchedSecond BY <1>1, <1>2, <1>8, SchedKeeps
  <1>. QED BY <1>4, <1>5, <1>6, <1>7, <1>8 DEF Measure, Collector

(***************************************************************************)
(* The invariant.                                                          *)
(***************************************************************************)
LEMMA StutterKeeps ==
  ASSUME IInv, CollectorsOK, UNCHANGED vars
  PROVE  CollectorsOK'
  <1>0. KernelOK /\ RowsOK /\ ShownOK BY DEF IInv, CollectorsOK
  <1>1. UNCHANGED <<kernel, snap, collectors, scan, launched, query, phase, emitted, exit, shown, ctxDone>>
    BY DEF vars, sampler, scans, command
  <1>2. KernelOK' /\ KernelMoves BY <1>0, <1>1, StillKernel
  <1>3. WakesMove BY <1>0, <1>1, StillWakes DEF kernel
  <1>4. Lull BY <1>1, <1>2, <1>3 DEF Lull
  <1>5. ShownOK' BY <1>0, <1>1, <1>2, <1>3, ShownKept DEF collectors
  <1>. QED BY <1>0, <1>2, <1>4, <1>5, LullKeeps DEF CollectorsOK

LEMMA CollectorsStep ==
  ASSUME IInv, CollectorsOK, [Next]_vars
  PROVE  CollectorsOK'
  <1>0. KernelOK /\ query \in Scenarios BY DEF IInv, PassOK
  <1>1. CASE PassBegins \/ WarmUp \/ SampleFails \/ CollectHost \/ Emit \/ EmitFails \/ NextPass \/ Interrupted
    BY <1>1, PassKeeps
  <1>2. CASE Sampled BY <1>2, SampledKeeps
  <1>3. CASE Measure BY <1>3, MeasureKeeps
  <1>4. CASE Scan BY <1>4, ScanKeeps
  <1>5. CASE World BY <1>0, <1>5, WorldKeeps
  <1>6. CASE UNCHANGED vars BY <1>6, StutterKeeps
  <1>. QED BY <1>1, <1>2, <1>3, <1>4, <1>5, <1>6 DEF Next, Program

LEMMA CollectorsInit == Init => CollectorsOK
  <1>. SUFFICES ASSUME Init PROVE CollectorsOK OBVIOUS
  <1>1. /\ phase = "idle" /\ emitted = 0 /\ shown = Empty /\ snap = NoSnapshot
        /\ woken = [p \in Pids |-> 0]
        /\ todo = {} /\ window = NoWindow /\ bpf = "unloaded" /\ perf = NoPerf
        /\ scan = Empty /\ launched = {}
    BY DEF Init, SamplerInit, WindowsInit, ScansInit
  <1>2. DOMAIN Empty = {} BY DEF Empty
  <1>3. DOMAIN snap.rows = {} BY <1>1, <1>2 DEF NoSnapshot
  <1>4. RowsOK BY <1>1, <1>3 DEF RowsOK, Procs
  <1>5. ~window.on /\ ~perf.on /\ perf.fds = {} /\ DOMAIN perf = {"on", "left", "groups", "fds"}
    BY <1>1 DEF NoWindow, NoPerf
  <1>6. TurnOK /\ WindowOK /\ PerfOK BY <1>1, <1>2, <1>5 DEF TurnOK, WindowOK, PerfOK
  <1>7. WakeupsOK /\ ShownOK /\ ScanOK
    BY <1>1, <1>2 DEF WakeupsOK, ShownOK, ScanOK, Bpf, Running
  <1>. QED BY <1>4, <1>6, <1>7 DEF CollectorsOK

\* The collectors, their goroutines and the kernel, in any order, keep what the windows,
\* the groups and the rows say of each other (internal/app/assembly.go, internal/procfs).
THEOREM CollectorsInvariant == Spec => [](IInv /\ CollectorsOK)
  <1>1. Init => IInv /\ CollectorsOK BY IInvInit, CollectorsInit
  <1>2. IInv /\ CollectorsOK /\ [Next]_vars => (IInv /\ CollectorsOK)'
    BY IInvStep, CollectorsStep
  <1>. QED BY <1>1, <1>2, PTL DEF Spec

\* The wakeups of a batch are all of one source, and a process that runs and whose files
\* could be read has them.
THEOREM OneSourceOfWakeups == Spec => []WakeupsFromOneSource
  <1>1. CollectorsOK => WakeupsFromOneSource
    <2>. SUFFICES ASSUME CollectorsOK, BothSources, emitted > 0, phase \in {"wait", "ended"}, exit \in {"none", "ok"},
                         NEW p \in DOMAIN shown
                  PROVE  LET v == shown[p].metric["wakeups"] IN
                         /\ Present(v) => v.src = IF bpf = "loaded" THEN "ebpf" ELSE "sched"
                         /\ "exec" \notin query.kinds /\ shown[p].start \in alive \ denied => Present(v)
      BY DEF WakeupsFromOneSource, BothSources
    <2>1. FromSource(shown[p], IF bpf = "loaded" THEN "ebpf" ELSE "sched") BY DEF CollectorsOK, ShownOK
    <2>. QED BY <2>1 DEF FromSource, Obtainable
  <1>. QED BY <1>1, CollectorsInvariant, PTL

\* No more descriptors than the groups of a batch have are open, none outside its window,
\* and a scan returns only when every process has its counts.
THEOREM NothingIsLeft == Spec => []CollectorsLeaveNothing
  <1>1. CollectorsOK /\ IInv => CollectorsLeaveNothing
    <2>. SUFFICES ASSUME CollectorsOK, IInv PROVE CollectorsLeaveNothing OBVIOUS
    <2>1. PerfOK /\ RowsOK /\ KernelOK BY DEF CollectorsOK, IInv
    <2>2. ~window.on => perf.fds = {} BY <2>1 DEF PerfOK
    <2>3. Cardinality(perf.fds) <= MaxGroups * HwEvents
      <3>0. MaxGroups \in Nat /\ HwEvents \in Nat /\ MaxGroups * HwEvents \in Nat BY WindowsAssumption
      <3>1. CASE perf.fds = {} BY <3>0, <3>1, FS_EmptySet
      <3>2. CASE perf.fds # {}
        <4>. DEFINE gs == DOMAIN perf.groups
        <4>1. gs \subseteq Procs /\ Cardinality(gs) <= MaxGroups /\ perf.fds = gs \X (1..HwEvents)
          BY <2>1, <3>2 DEF PerfOK
        <4>2. IsFiniteSet(gs) /\ Cardinality(gs) \in Nat BY <2>1, <4>1, ProcsAreFinite, FS_Subset, FS_CardinalityType
        <4>3. IsFiniteSet(1..HwEvents) /\ Cardinality(1..HwEvents) = HwEvents
          BY <3>0, FS_Interval
        <4>4. Cardinality(perf.fds) = Cardinality(gs) * HwEvents BY <4>1, <4>2, <4>3, FS_Product
        <4>. HIDE DEF gs
        <4>5. Cardinality(gs) * HwEvents <= MaxGroups * HwEvents BY <3>0, <4>1, <4>2
        <4>. QED BY <4>4, <4>5
      <3>. QED BY <3>1, <3>2
    <2>4. "fd" \in query.wants /\ phase = "enrich" /\ "fd" \notin todo /\ ~ctxDone =>
            \A p \in Procs : "fd-total" \in DOMAIN snap.rows[p].metric
      BY DEF CollectorsOK, ScanOK
    <2>. QED BY <2>2, <2>3, <2>4 DEF CollectorsLeaveNothing
  <1>. QED BY <1>1, CollectorsInvariant, PTL

(***************************************************************************)
(* What a window measures.                                                 *)
(***************************************************************************)
WindowMetrics == {"runq-delay", "wakeups", "cycles"}

\* v is what the process in the row did in the window, if it lived through it.
OwnGrowth(p, v) ==
  Present(v) /\ Start(p) \in alive => v.val = work[Start(p)] - window.work[Start(p)]

\* All that a step puts into the rows is such growth.
MeasuresOwn ==
  \A p \in Procs, m \in WindowMetrics :
    LET old == snap.rows[p].metric
        new == snap'.rows[p].metric IN
    m \in DOMAIN new => (m \in DOMAIN old /\ new[m] = old[m]) \/ OwnGrowth(p, new[m])

LEMMA CollectedOwn ==
  ASSUME SnapshotOK, NEW ids, NEW f, DOMAIN f \subseteq Procs, Collected([p \in DOMAIN f |-> All(ids, f[p])]),
         \A p \in DOMAIN f : OwnGrowth(p, f[p])
  PROVE  MeasuresOwn
  <1>. DEFINE v == [p \in DOMAIN f |-> All(ids, f[p])]
  <1>1. DOMAIN v = DOMAIN f /\ \A p \in DOMAIN f : DOMAIN v[p] = ids /\ \A m \in ids : v[p][m] = f[p]
    BY DEF All
  <1>2. Collected(v) OBVIOUS
  <1>. HIDE DEF v
  <1>3. SUFFICES ASSUME NEW p \in Procs, NEW m \in WindowMetrics, m \in DOMAIN snap'.rows[p].metric
                 PROVE  \/ m \in DOMAIN snap.rows[p].metric /\ snap'.rows[p].metric[m] = snap.rows[p].metric[m]
                        \/ OwnGrowth(p, snap'.rows[p].metric[m])
    BY DEF MeasuresOwn
  <1>4. snap'.rows[p].metric = IF p \in DOMAIN v THEN Over(v[p], snap.rows[p].metric) ELSE snap.rows[p].metric
    BY <1>2, CollectedIs DEF Procs
  <1>5. CASE p \in DOMAIN f /\ m \in ids
    <2>1. snap'.rows[p].metric[m] = f[p] BY <1>1, <1>4, <1>5 DEF Over
    <2>. QED BY <1>5, <2>1
  <1>6. CASE p \in DOMAIN f /\ m \notin ids BY <1>1, <1>3, <1>4, <1>6 DEF Over
  <1>7. CASE p \notin DOMAIN f BY <1>1, <1>3, <1>4, <1>7
  <1>. QED BY <1>5, <1>6, <1>7

\* The difference of two readings of one process's counter.
LEMMA RateOfOwn ==
  ASSUME NEW p, NEW v1, NEW v2, NEW src, ReadForOwn(p, v1), OwnReading(p, v2)
  PROVE  OwnGrowth(p, IF Present(v1) THEN WindowRate(v1, v2, src) ELSE v1)
  <1>1. SUFFICES ASSUME Present(v1), Present(WindowRate(v1, v2, src)), Start(p) \in alive
                 PROVE  WindowRate(v1, v2, src).val = work[Start(p)] - window.work[Start(p)]
    BY DEF OwnGrowth
  <1>2. Present(v2) /\ WindowRate(v1, v2, src).val = v2.val - v1.val
    BY <1>1 DEF WindowRate, WarmingUp, Unavailable, Value, Present
  <1>. QED BY <1>1, <1>2 DEF ReadForOwn, OwnReading

LEMMA SecondReadingsOwn ==
  ASSUME KernelOK, SnapshotOK, RowsOK, WindowOK, SchedstatSecond \/ SchedSecond
  PROVE  MeasuresOwn
  <1>1. CASE SchedstatSecond
    <2>. DEFINE f == [p \in Procs |->
                       IF Present(window.first[p]) THEN WindowRate(window.first[p], ReadRunDelay(p), "schedstat")
                                                   ELSE window.first[p]]
    <2>1. \A p \in Procs : ReadForOwn(p, window.first[p]) BY <1>1 DEF WindowOK, SchedstatSecond
    <2>2. \A p \in Procs : OwnGrowth(p, f[p]) BY <2>1, RateOfOwn, RunDelayIsOwn
    <2>3. Collected([p \in DOMAIN f |-> All({"runq-delay"}, f[p])])
      <3>1. [p \in DOMAIN f |-> All({"runq-delay"}, f[p])] = [p \in Procs |-> All({"runq-delay"},
              IF Present(window.first[p]) THEN WindowRate(window.first[p], ReadRunDelay(p), "schedstat")
                                          ELSE window.first[p])]
        OBVIOUS
      <3>. QED BY <1>1, <3>1 DEF SchedstatSecond
    <2>4. DOMAIN f = Procs OBVIOUS
    <2>. HIDE DEF f
    <2>. QED BY <2>2, <2>3, <2>4, CollectedOwn
  <1>2. CASE SchedSecond
    <2>. DEFINE f == [p \in DOMAIN window.first |->
                       IF Present(window.first[p]) THEN WindowRate(window.first[p], ReadWakeups(p), "sched")
                                                   ELSE window.first[p]]
    <2>1. DOMAIN window.first \subseteq Procs /\ \A p \in DOMAIN window.first : ReadForOwn(p, window.first[p])
      BY <1>2 DEF WindowOK, SchedSecond
    <2>2. \A p \in DOMAIN window.first : OwnGrowth(p, f[p]) BY <2>1, RateOfOwn, SchedReadingIsOwn
    <2>3. Collected([p \in DOMAIN f |-> All({"wakeups"}, f[p])])
      <3>1. [p \in DOMAIN f |-> All({"wakeups"}, f[p])] = [p \in DOMAIN window.first |-> All({"wakeups"},
              IF Present(window.first[p]) THEN WindowRate(window.first[p], ReadWakeups(p), "sched")
                                          ELSE window.first[p])]
        OBVIOUS
      <3>. QED BY <1>2, <3>1 DEF SchedSecond
    <2>4. DOMAIN f = DOMAIN window.first OBVIOUS
    <2>. HIDE DEF f
    <2>. QED BY <2>1, <2>2, <2>3, <2>4, CollectedOwn
  <1>. QED BY <1>1, <1>2

LEMMA CountsOwn ==
  ASSUME SnapshotOK, WindowOK, EbpfSecond
  PROVE  MeasuresOwn
  <1>. DEFINE f == [p \in Procs |-> WindowRate(window.first[p], Value(Wakeups(p), 0, "ebpf"), "ebpf")]
  <1>1. \A p \in Procs : CountedForOwn(p, window.first[p]) BY DEF WindowOK, EbpfSecond
  <1>2. ASSUME NEW p \in Procs PROVE OwnGrowth(p, f[p])
    <2>1. SUFFICES ASSUME Present(f[p]), Start(p) \in alive
                   PROVE  f[p].val = work[Start(p)] - window.work[Start(p)]
      BY DEF OwnGrowth
    <2>2. f[p].val = woken[p] - window.first[p].val
      BY <2>1 DEF WindowRate, WarmingUp, Unavailable, Value, Present, Wakeups
    <2>. QED BY <1>1, <2>1, <2>2 DEF CountedForOwn
  <1>3. Collected([p \in DOMAIN f |-> All({"wakeups"}, f[p])])
    <2>1. [p \in DOMAIN f |-> All({"wakeups"}, f[p])]
            = [p \in Procs |-> All({"wakeups"}, WindowRate(window.first[p], Value(Wakeups(p), 0, "ebpf"), "ebpf"))]
      OBVIOUS
    <2>. QED BY <2>1 DEF EbpfSecond
  <1>4. DOMAIN f = Procs OBVIOUS
  <1>. HIDE DEF f
  <1>. QED BY <1>2, <1>3, <1>4, CollectedOwn

LEMMA GroupsOwn ==
  ASSUME SnapshotOK, TurnOK, PerfOK, PerfRead
  PROVE  MeasuresOwn
  <1>. DEFINE gs == DOMAIN perf.groups
              grown(p) == work[perf.groups[p]] - window.work[perf.groups[p]]
  <1>1. gs \subseteq Procs /\ \A p \in gs : Start(p) \in alive => perf.groups[p] = Start(p)
    BY DEF PerfOK, PerfRead
  <1>2. PICK bad \in SUBSET gs :
          Collected([p \in gs |-> All(PerfMetrics,
            IF p \in bad THEN Unavailable("unsupported", "perf") ELSE Value(grown(p), 1, "perf"))])
    BY DEF PerfRead
  <1>. DEFINE f == [p \in gs |-> IF p \in bad THEN Unavailable("unsupported", "perf") ELSE Value(grown(p), 1, "perf")]
  <1>3. ASSUME NEW p \in gs PROVE OwnGrowth(p, f[p])
    BY <1>1 DEF OwnGrowth, Unavailable, Value, Present
  <1>4. Collected([p \in DOMAIN f |-> All(PerfMetrics, f[p])])
    <2>1. [p \in DOMAIN f |-> All(PerfMetrics, f[p])]
            = [p \in gs |-> All(PerfMetrics,
                IF p \in bad THEN Unavailable("unsupported", "perf") ELSE Value(grown(p), 1, "perf"))]
      OBVIOUS
    <2>. QED BY <1>2, <2>1
  <1>5. DOMAIN f = gs OBVIOUS
  <1>. HIDE DEF f, gs
  <1>. QED BY <1>1, <1>3, <1>4, <1>5, CollectedOwn

\* A window closes with the step that measures.
LEMMA ClosesMeasuring ==
  ASSUME IInv, CollectorsOK, Next, window.on, ~window'.on
  PROVE  MeasuresOwn
  <1>0. KernelOK /\ SnapshotOK /\ RowsOK /\ TurnOK /\ WindowOK /\ PerfOK BY DEF IInv, CollectorsOK
  <1>1. window' # window OBVIOUS
  <1>2. ~World
    BY <1>1 DEF World, Life, Busy, Threads, Execs, Clock, Gpu, Descriptors, Signal, Machine, Rest, collectors
  <1>3. ~(PassBegins \/ Sampled \/ WarmUp \/ SampleFails \/ CollectHost \/ Emit \/ EmitFails \/ NextPass \/ Interrupted)
    BY <1>1 DEF PassBegins, Sampled, WarmUp, SampleFails, CollectHost, Emit, EmitFails, NextPass, Interrupted, collectors
  <1>4. ~Scan BY <1>0, ScanTurn
  <1>5. Collector BY <1>2, <1>3, <1>4 DEF Next, Program, Measure
  <1>6. SchedstatSecond \/ EbpfSecond \/ SchedSecond \/ GpuSecond \/ PerfRead
    BY <1>1, <1>5 DEF Collector, SchedstatFirst, EbpfFirst, SchedFirst, GpuFirst, PerfBegins, PerfOpen, PerfEnds
  <1>7. CASE GpuSecond
    <2>1. PICK v : Measures(v, GpuMetrics) /\ Collected(v) BY <1>7, GpuMeasures
    <2>2. GpuMetrics \cap WindowMetrics = {} BY WindowsAssumption DEF GpuMetrics, WindowMetrics
    <2>3. Spares(WindowMetrics) BY <1>0, <2>1, <2>2, CollectedSpares
    <2>. QED BY <2>3 DEF Spares, MeasuresOwn, Procs
  <1>. QED BY <1>0, <1>6, <1>7, SecondReadingsOwn, CountsOwn, GroupsOwn

\* A process that lives through a collector's window is shown with exactly what it did in
\* it, whichever collectors run and whoever had its pid before (schedstat.go,
\* sched_wakeups.go, ebpf_linux.go, perf_linux.go).
THEOREM WindowsMeasureOwn == Spec => WindowRateOwn
  <1>. DEFINE A == window.on /\ ~window'.on =>
                     \A p \in Procs, m \in {"runq-delay", "wakeups", "cycles"} :
                       LET s == snap.rows[p].start
                           new == snap'.rows[p].metric IN
                       s \in alive /\ m \in DOMAIN new /\ Present(new[m])
                       /\ ~(m \in DOMAIN snap.rows[p].metric /\ new[m] = snap.rows[p].metric[m])
                         => new[m].val = work[s] - window.work[s]
  <1>1. IInv /\ CollectorsOK /\ Next => A
    BY ClosesMeasuring DEF MeasuresOwn, OwnGrowth, WindowMetrics, Start
  <1>. HIDE DEF A
  <1>2. IInv /\ CollectorsOK /\ [Next]_vars => [A]_vars BY <1>1
  <1>3. Spec => [][A]_vars BY <1>2, CollectorsInvariant, PTL DEF Spec
  <1>. QED BY <1>3 DEF A, WindowRateOwn
=============================================================================
