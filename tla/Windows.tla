------------------------------- MODULE Windows -------------------------------
(***************************************************************************)
(* The collectors that measure by themselves: read a counter, sleep for a  *)
(* window, read it again (internal/procfs/schedstat.go, sched_wakeups.go,  *)
(* ebpf_linux.go, gpu.go, perf_linux.go).  They run one after the other on *)
(* the processes of a snapshot, which may be gone by then, and find them   *)
(* by pid.  The reads before a window are one step, those after it another.*)
(***************************************************************************)
EXTENDS Sampler, TLC, FiniteSetsExt

CONSTANTS
  Clients,     \* clients of the GPU's driver
  ClientInfo,  \* engine, whether it has an id, its number of fds, what it reports
  Engines,     \* engine classes with a metric of their own
  MaxGroups,   \* maxPerfGroups
  HwEvents     \* counters of a perf group

VARIABLES
  todo,      \* the collectors enrich has yet to run
  window,    \* the first readings of the collector that is sleeping
  bpf,       \* WakeupsCollector: unloaded, loaded, or why it failed
  perf,      \* processes no batch has measured yet; the open groups; their open descriptors
  clients,   \* kernel: the clients each start has open
  busy,      \* kernel: the busy time of each client
  opened,    \* kernel: clients that have been opened
  ctxDone    \* the context of the command is done

\* No engine's metric has the name of another metric; the clients are finitely many,
\* with so many descriptors each.
ASSUME WindowsAssumption ==
  /\ Engines \cap (Rates \cup {"runq-delay", "wakeups", "cycles", "fd-total", "gpu"}) = {}
  /\ IsFiniteSet(Clients) /\ \A c \in Clients : ClientInfo[c].fds \in Nat
  /\ MaxGroups \in Nat \ {0} /\ HwEvents \in Nat \ {0}

collectors == <<todo, window, bpf, perf>>
gpu == <<clients, busy, opened>>

NoWindow == [on |-> FALSE, first |-> Empty, work |-> Empty, gpu |-> Empty]
NoPerf   == [on |-> FALSE, left |-> {}, groups |-> Empty, fds |-> {}]

WindowsInit ==
  /\ todo = {} /\ window = NoWindow /\ bpf = "unloaded" /\ perf = NoPerf
  /\ clients = [s \in Starts |-> {}] /\ busy = [c \in Clients |-> 0] /\ opened = {}
  /\ ctxDone = FALSE

(***************************************************************************)
(* The kernel's GPU clients.                                               *)
(***************************************************************************)

ClientOpens(s, c) ==
  /\ c \notin opened
  /\ opened' = opened \cup {c}
  /\ clients' = [clients EXCEPT ![s] = @ \cup {c}]
  /\ UNCHANGED busy

ClientCloses(s, c) ==
  /\ c \in clients[s]
  /\ clients' = [clients EXCEPT ![s] = @ \ {c}]
  /\ UNCHANGED <<busy, opened>>

ClientWorks(s, c) ==
  /\ c \in clients[s] /\ busy[c] < MaxWork
  /\ busy' = [busy EXCEPT ![c] = @ + 1]
  /\ UNCHANGED <<clients, opened>>

(***************************************************************************)
(* Common to the collectors.                                               *)
(***************************************************************************)

Procs == DOMAIN snap.rows
Metric(p, m) == IF m \in DOMAIN snap.rows[p].metric THEN snap.rows[p].metric[m]
                ELSE Unavailable("disabled", "proc")

\* f @@ g, written out: the provers do not expand @@.
Over(f, g) == [x \in DOMAIN f \cup DOMAIN g |-> IF x \in DOMAIN f THEN f[x] ELSE g[x]]

\* Process.SetMetric for the processes in DOMAIN vals.
SetMetric(row, new) == [row EXCEPT !.metric = Over(new, @)]

Collected(vals) ==
  snap' = [snap EXCEPT !.rows = [p \in Procs |->
             IF p \in DOMAIN vals THEN SetMetric(snap.rows[p], vals[p]) ELSE snap.rows[p]]]

All(ids, v) == [m \in ids |-> v]

\* The collectors in the order newAssemblyWith lists them, in which enrich runs them.
Rank == [fd |-> 1, socket |-> 2, gpu |-> 3, schedstat |-> 4, perf |-> 5, ebpf |-> 6, sched |-> 7]
Running(c) == c \in todo /\ \A d \in todo \ {c} : Rank[c] < Rank[d]

Opens(first) == window' = [on |-> TRUE, first |-> first, work |-> work, gpu |-> [c |-> clients, b |-> busy]]
Finished == todo' = {c \in todo : ~Running(c)} /\ window' = NoWindow

\* The processes a scan has launched: all of them, or those before the
\* context was done.
Launched(ps) == IF ctxDone THEN {{p \in ps : p < k} : k \in ps} \cup {ps} ELSE {ps}

\* Growth over the window; the difference of the second reading of a process
\* that went away or whose counter went backwards is not a rate yet.
WindowRate(v1, v2, src) ==
  IF ~Present(v2) \/ v2.val < v1.val THEN WarmingUp(src) ELSE Value(v2.val - v1.val, 1, src)

(***************************************************************************)
(* schedstat: runq-delay.                                                  *)
(***************************************************************************)

ReadRunDelay(p) ==
  LET h == Holder(p) IN
  CASE h = Free     -> Unavailable("unsupported", "schedstat")
    [] h \in denied -> Unavailable("permission_denied", "schedstat")
    [] OTHER        -> Value(work[h], 0, "schedstat")

SchedstatFirst ==
  /\ Running("schedstat") /\ ~window.on
  /\ LET first == [p \in Procs |-> ReadRunDelay(p)] IN
     IF \E p \in Procs : Present(first[p])
     THEN Opens(first) /\ UNCHANGED <<snap, todo>>
     ELSE Collected([p \in Procs |-> All({"runq-delay"}, first[p])]) /\ Finished
  /\ UNCHANGED <<bpf, perf>>

SchedstatSecond ==
  /\ Running("schedstat") /\ window.on
  /\ Collected([p \in Procs |-> All({"runq-delay"},
       IF Present(window.first[p]) THEN WindowRate(window.first[p], ReadRunDelay(p), "schedstat")
                                   ELSE window.first[p])])
  /\ Finished
  /\ UNCHANGED <<bpf, perf>>

(***************************************************************************)
(* eBPF and its fallback: wakeups.                                         *)
(***************************************************************************)

\* The map counts by process group id and outlives the processes; only its
\* growth is used, so counting from the start stands for counting from the load.
Wakeups(p) == woken[p]

EbpfFirst ==
  /\ Running("ebpf") /\ ~window.on
  /\ \E b \in IF bpf = "unloaded" THEN {"loaded", "permission_denied", "unsupported"} ELSE {bpf} :
       /\ bpf' = b
       /\ IF b = "loaded"
          THEN Opens([p \in Procs |-> Value(Wakeups(p), 0, "ebpf")]) /\ UNCHANGED <<snap, todo>>
          ELSE Collected([p \in Procs |-> All({"wakeups"}, Unavailable(b, "ebpf"))]) /\ Finished
  /\ UNCHANGED perf

EbpfSecond ==
  /\ Running("ebpf") /\ window.on
  /\ Collected([p \in Procs |-> All({"wakeups"},
       WindowRate(window.first[p], Value(Wakeups(p), 0, "ebpf"), "ebpf"))])
  /\ Finished
  /\ UNCHANGED <<bpf, perf>>

\* Mutant: every process.
PendingAll == Procs

\* The processes the preferred collector left without a value.
Pending == {p \in Procs : ~Present(Metric(p, "wakeups"))}

ReadWakeups(p) ==
  LET h == Holder(p) IN
  CASE h = Free     -> Unavailable("unsupported", "sched")
    [] h \in denied -> Unavailable("permission_denied", "sched")
    [] OTHER        -> Value(work[h], 0, "sched")

SchedFirst ==
  /\ Running("sched") /\ ~window.on
  /\ LET first == [p \in Pending |-> ReadWakeups(p)] IN
     IF \E p \in Pending : Present(first[p])
     THEN Opens(first) /\ UNCHANGED <<snap, todo>>
     ELSE Collected([p \in Pending |-> All({"wakeups"}, first[p])]) /\ Finished
  /\ UNCHANGED <<bpf, perf>>

SchedSecond ==
  /\ Running("sched") /\ window.on
  /\ Collected([p \in DOMAIN window.first |-> All({"wakeups"},
       IF Present(window.first[p]) THEN WindowRate(window.first[p], ReadWakeups(p), "sched")
                                   ELSE window.first[p])])
  /\ Finished
  /\ UNCHANGED <<bpf, perf>>

(***************************************************************************)
(* gpu: busy time of the DRM clients a process holds.                      *)
(***************************************************************************)

\* One fdinfo record: an engine that reports cycles is used only when it does
\* not report nanoseconds.
BusyNs(c, b) == IF ClientInfo[c].reports = {} THEN 0 ELSE b[c]

\* Mutant: every descriptor is counted.
CopiesAll(c) == ClientInfo[c].fds

\* Descriptors of one client are counted once, if the driver names its clients.
Copies(c) == IF ClientInfo[c].id THEN 1 ELSE ClientInfo[c].fds

BusySum(cs, b) == SumFunctionOnSet([c \in cs |-> Copies(c) * BusyNs(c, b)], cs)

ScanOne(p) ==
  LET h == Holder(p) IN
  CASE h = Free     -> [err |-> "vanished", drm |-> FALSE, busy |-> 0, engine |-> [e \in Engines |-> 0]]
    [] h \in denied -> [err |-> "permission_denied", drm |-> FALSE, busy |-> 0, engine |-> [e \in Engines |-> 0]]
    [] OTHER        -> [err |-> "", drm |-> clients[h] # {}, busy |-> BusySum(clients[h], busy),
                        engine |-> [e \in Engines |->
                           BusySum({c \in clients[h] : ClientInfo[c].engine = e}, busy)]]

GpuMetrics == {"gpu"} \cup Engines
Refused(errs) == [p \in DOMAIN errs |-> All(GpuMetrics, Unavailable(errs[p].err, "gpu"))]
Only(f, T(_)) == [p \in {p \in DOMAIN f : T(f[p])} |-> f[p]]

GpuFirst ==
  /\ Running("gpu") /\ ~window.on
  /\ \E ps \in Launched(Procs) :
       LET first == [p \in ps |-> ScanOne(p)] IN
       IF \E p \in ps : first[p].drm
       THEN Opens(first) /\ UNCHANGED <<snap, todo>>
       ELSE Collected(Refused(Only(first, LAMBDA a : a.err # ""))) /\ Finished
  /\ UNCHANGED <<bpf, perf>>

\* busyPct: an engine's time that went backwards shows as nothing.
BusyPct(n1, n2) == Value(IF n2 < n1 THEN 0 ELSE n2 - n1, 1, "gpu")

ApplyWindow(p) ==
  LET a1 == window.first[p]
      a2 == ScanOne(p) IN
  IF a2.err # "" THEN All(GpuMetrics, Unavailable(a2.err, "gpu"))
  ELSE IF a2.busy < a1.busy THEN All(GpuMetrics, WarmingUp("gpu"))
  ELSE [m \in GpuMetrics |-> IF m = "gpu" THEN BusyPct(a1.busy, a2.busy)
                                          ELSE BusyPct(a1.engine[m], a2.engine[m])]

GpuSecond ==
  /\ Running("gpu") /\ window.on
  /\ LET refused == Only(window.first, LAMBDA a : a.err # "")
         timed   == DOMAIN Only(window.first, LAMBDA a : a.drm) IN
     Collected(Over(Refused(refused), [p \in timed |-> ApplyWindow(p)]))
  /\ Finished
  /\ UNCHANGED <<bpf, perf>>

(***************************************************************************)
(* perf: hardware counters, in batches of groups.                          *)
(***************************************************************************)

PerfMetrics == {"cycles", "ipc"}

\* The next processes to measure: as many as there may be groups, or all that are left.
IsBatch(batch, left) ==
  /\ Cardinality(batch) <= MaxGroups
  /\ batch # left => Cardinality(batch) = MaxGroups
  /\ \A p \in batch, q \in left \ batch : p < q

PerfBegins ==
  /\ Running("perf") /\ ~perf.on
  /\ perf' = [NoPerf EXCEPT !.on = TRUE, !.left = Procs]
  /\ UNCHANGED <<snap, todo, window, bpf>>

\* Between two batches the context is looked at.
PerfEnds ==
  /\ Running("perf") /\ perf.on /\ ~window.on
  /\ perf.left = {} \/ ctxDone
  /\ perf' = [NoPerf EXCEPT !.fds = perf.fds]
  /\ Finished
  /\ UNCHANGED <<snap, bpf>>

\* Mutant: the group that could not be completed is left as it is.
LeftOpenLeaky(k) == 1..k

\* Descriptors a group leaves open after k events were opened.
LeftOpen(k) == IF k = HwEvents THEN 1..HwEvents ELSE {}

\* openGroup of every process of the batch: the events that opened, all of
\* them or as many as the kernel allowed.  A group counts for the process
\* that has the pid now, whoever has it later.
PerfOpen ==
  /\ Running("perf") /\ ~window.on /\ perf.on /\ perf.left # {} /\ ~ctxDone
  /\ \E batch \in SUBSET perf.left : \E k \in [batch -> 0..HwEvents] :
       /\ IsBatch(batch, perf.left)
       /\ \A p \in batch : Holder(p) = Free \/ Holder(p) \in denied => k[p] = 0
       /\ LET ok == {p \in batch : k[p] = HwEvents} IN
          /\ perf' = [on |-> TRUE, left |-> perf.left \ batch, groups |-> [p \in ok |-> Holder(p)],
                      fds |-> perf.fds \cup UNION {{p} \X LeftOpen(k[p]) : p \in batch}]
          /\ Collected([p \in batch \ ok |-> All(PerfMetrics, Unavailable(
               IF Holder(p) \in denied THEN "permission_denied" ELSE "unsupported", "perf"))])
  /\ Opens(Empty)
  /\ UNCHANGED <<todo, bpf>>

\* After the window: stop, read, close every group; then the next batch.
PerfRead ==
  /\ Running("perf") /\ window.on
  /\ LET gs == DOMAIN perf.groups
         grown(p) == work[perf.groups[p]] - window.work[perf.groups[p]] IN
     /\ \E bad \in SUBSET gs :
          Collected([p \in gs |-> All(PerfMetrics,
            IF p \in bad THEN Unavailable("unsupported", "perf") ELSE Value(grown(p), 1, "perf"))])
     /\ perf' = [perf EXCEPT !.groups = Empty, !.fds = @ \ (gs \X (1..HwEvents))]
  /\ window' = NoWindow
  /\ UNCHANGED <<todo, bpf>>
=============================================================================
