------------------------------ MODULE Assembly -------------------------------
(***************************************************************************)
(* The observation pass of procfit (internal/app/assembly.go, stat.go):    *)
(* sample, enrich, collect the host's metrics, emit, and wait for the next *)
(* one.  ps takes two samples when a rate is asked for, stat and the TUI   *)
(* one per pass; stat ends after as many batches as it was asked for or    *)
(* when it is interrupted.                                                 *)
(***************************************************************************)
EXTENDS Scans, HostMetrics

CONSTANTS
  Scenarios   \* what a command is asked for, and what the kernel does meanwhile

ASSUME AssemblyAssumption ==
  \A q \in Scenarios : q.pids \subseteq Pids /\ q.names \subseteq Names \cup {Unset}

VARIABLES
  query,     \* the command and its query
  phase,     \* where the pass is
  emitted,   \* batches written
  exit,      \* the exit code
  shown,     \* history: the rows of the batch written last
  moves      \* steps left to the kernel

command == <<query, phase, emitted, exit, shown>>
vars == <<kernel, sampler, history, collectors, gpu, ctxDone, scans, sockets, machine, hosts, command, moves>>

Init ==
  /\ query \in Scenarios
  /\ SamplerInit /\ WindowsInit /\ ScansInit
  /\ HostInit
  /\ query.host # "cstate" => online = Cpus /\ \A c \in Cpus : idle[c] = 0
  /\ query.host # "power" => present = {}
  /\ query.host # "battery" => supply = <<>>
  /\ phase = "idle" /\ emitted = 0 /\ exit = "none" /\ shown = Empty
  /\ moves = query.moves

(***************************************************************************)
(* The command.                                                            *)
(***************************************************************************)

Aside == <<kernel, gpu, ctxDone, sockets, machine, query, moves>>

PassBegins ==
  /\ phase = "idle" /\ ListBegins(query)
  /\ phase' = "list"
  /\ UNCHANGED <<gpu, ctxDone, sockets, machine, query, moves, collectors, scans, hosts, emitted, exit, shown>>

\* enrich: the collectors one of whose metrics is needed.
Enrichers == query.wants \cap DOMAIN Rank

\* sampleForResult: the first sample of ps only starts the rates.
NeedsSecond == query.mode = "ps" /\ query.rate /\ ~query.instant /\ snap.gen = 0

Sampled ==
  /\ phase = "list" /\ SampleDone(query)
  /\ IF NeedsSecond THEN phase' = "warmup" /\ UNCHANGED todo
                    ELSE phase' = "enrich" /\ todo' = Enrichers
  /\ UNCHANGED <<gpu, ctxDone, sockets, machine, query, moves, window, bpf, perf, scans, hosts, emitted, exit, shown>>

\* The second between the two samples of ps.  It may also be cut short by the
\* context, which for ps, the TUI and the exporter is the background one.
WarmUp ==
  /\ phase = "warmup" /\ TimePasses
  /\ phase' = "idle"
  /\ UNCHANGED <<gpu, ctxDone, sockets, machine, query, moves, sampler, history, collectors, scans, hosts, emitted, exit, shown>>

\* A listing that fails ends ps and stat; the TUI shows the error and goes on.
\* It read nothing, or the processes before the interrupt, in the order of pids.
SampleFails ==
  /\ phase = "list"
  /\ \E read \in {{}} \cup {{st \in reading.stats : st.pid <= p} : p \in Pids} :
       (read # {} => ctxDone /\ query.mode = "stat") /\ ListFails(query, read)
  /\ IF query.mode = "tui" THEN phase' = "idle" /\ UNCHANGED exit
     ELSE phase' = "ended" /\ exit' = IF ctxDone THEN "interrupted" ELSE "runtime"
  /\ moves > 0 \/ ctxDone
  /\ moves' = IF ctxDone THEN moves ELSE moves - 1
  /\ UNCHANGED <<gpu, ctxDone, sockets, machine, query, collectors, scans, hosts, emitted, shown>>

Collector ==
  \/ SchedstatFirst \/ SchedstatSecond \/ EbpfFirst \/ EbpfSecond \/ SchedFirst \/ SchedSecond
  \/ GpuFirst \/ GpuSecond \/ PerfBegins \/ PerfOpen \/ PerfRead \/ PerfEnds

Beside == <<kernel, reading, cache, cachePrev, prev, prevThreads, prevAt, history, gpu, ctxDone, sockets,
            machine, query, moves, hosts, phase, emitted, exit, shown>>

Measure == phase = "enrich" /\ Collector /\ UNCHANGED <<Beside, scans>>
Scan    == phase = "enrich" /\ ScanStep /\ UNCHANGED Beside

\* collectHost: the collector one of whose metrics is needed.
CollectHost ==
  /\ phase = "enrich" /\ todo = {}
  /\ \/ query.host = "cstate"  /\ (CstateFirst \/ CstateSecond)
     \/ query.host = "power"   /\ (PowerFirst \/ PowerSecond)
     \/ query.host = "battery" /\ BatteryHost
  /\ UNCHANGED <<kernel, sampler, history, gpu, ctxDone, sockets, query, moves, collectors, scans, command>>

\* Build and emit the batch; streamLoop counts it.
Emit ==
  /\ phase = "enrich" /\ todo = {}
  /\ query.host # "none" => measuring.on = "done"
  /\ emitted' = emitted + 1
  /\ shown' = snap.rows
  /\ IF query.mode = "ps" \/ (query.mode = "stat" /\ emitted' >= query.count)
     THEN phase' = "ended" /\ exit' = "ok"
     ELSE phase' = "wait" /\ UNCHANGED exit
  /\ measuring' = Quiet /\ host' = <<>>
  /\ UNCHANGED <<Aside, sources, sampler, history, collectors, scans>>

\* The output cannot be written.
EmitFails ==
  /\ phase = "enrich" /\ todo = {}
  /\ "pipe" \in query.kinds
  /\ phase' = "ended" /\ exit' = "runtime"
  /\ UNCHANGED <<Aside, sampler, history, collectors, scans, hosts, emitted, shown>>

\* The interval is over, or the context is done: when both are, either.
NextPass ==
  /\ phase = "wait"
  /\ query.mode = "tui" => emitted < query.count
  /\ phase' = "idle"
  /\ UNCHANGED <<Aside, sampler, history, collectors, scans, hosts, emitted, exit, shown>>

Interrupted ==
  /\ phase = "wait" /\ ctxDone /\ query.mode = "stat"
  /\ phase' = "ended" /\ exit' = "interrupted"
  /\ UNCHANGED <<Aside, sampler, history, collectors, scans, hosts, emitted, shown>>

(***************************************************************************)
(* The rest of the machine.                                                *)
(***************************************************************************)

Moves(kind) == kind \in query.kinds /\ moves > 0 /\ moves' = moves - 1
Rest == <<sampler, history, collectors, scans, hosts, command>>

Life ==
  /\ Moves("life")
  /\ \/ \E p \in query.pids, n \in query.names, d \in query.denials : Fork(p, n, d)
     \/ \E s \in alive : Exit(s)
  /\ UNCHANGED <<Rest, gpu, ctxDone, sockets, machine>>

Busy ==
  /\ Moves("work")
  /\ \E s \in alive : Work(s)
  /\ UNCHANGED <<Rest, gpu, ctxDone, sockets, machine>>

Threads ==
  /\ Moves("threads")
  /\ \E s \in alive : ThreadWork(s) \/ ThreadReplaced(s)
  /\ UNCHANGED <<Rest, gpu, ctxDone, sockets, machine>>

Execs ==
  /\ Moves("exec")
  /\ \E s \in alive, n \in query.names, d \in query.denials : Exec(s, n, d)
  /\ UNCHANGED <<Rest, gpu, ctxDone, sockets, machine>>

Clock ==
  /\ Moves("time") /\ TimePasses
  /\ UNCHANGED <<Rest, gpu, ctxDone, sockets, machine>>

Gpu ==
  /\ Moves("gpu")
  /\ \E s \in alive, c \in Clients : ClientOpens(s, c) \/ ClientCloses(s, c) \/ ClientWorks(s, c)
  /\ UNCHANGED <<Rest, kernel, ctxDone, sockets, machine>>

Descriptors ==
  /\ Moves("fds")
  /\ \E s \in alive, f \in Fds : FdOpens(s, f) \/ FdCloses(s, f)
  /\ UNCHANGED <<Rest, kernel, gpu, ctxDone, machine>>

Signal ==
  /\ Moves("signal") /\ query.mode = "stat" /\ ctxDone' = TRUE
  /\ UNCHANGED <<Rest, kernel, gpu, sockets, machine>>

\* The machine's readings are compared over a window only, so they move in one.
Machine ==
  /\ Moves("host") /\ measuring.on \in {"cstate", "power"}
  /\ \/ \E c \in Cpus : Hotplug(c) \/ Idles(c)
     \/ \E z \in present : Chmod(z) \/ Used(z)
  /\ UNCHANGED <<Rest, kernel, gpu, ctxDone, sockets>>

Program ==
  \/ PassBegins \/ Sampled \/ WarmUp \/ SampleFails \/ Measure \/ Scan \/ CollectHost \/ Emit \/ EmitFails
  \/ NextPass \/ Interrupted
World ==
  \/ Life \/ Busy \/ Threads \/ Execs \/ Clock \/ Gpu \/ Descriptors \/ Signal \/ Machine
Next == Program \/ World

\* The goroutines of a collector and the one that started them are scheduled.
Spec == Init /\ [][Next]_vars /\ WF_vars(Scan)

(***************************************************************************)
(* Properties.                                                             *)
(***************************************************************************)

\* A rate belongs to the process it is shown for: it is computed over a time
\* that passed, against a listing that saw the same process, and is not more
\* than that process (or that thread) did since the earlier listing began.  A
\* counter from a later file than stat is excepted when the process ended
\* while its files were being read (internal/collect/sampler.go).
RateIsOwnGrowth ==
  \A p \in Procs :
    LET r == snap.rows[p]
        own(v, grown) == Present(v) => /\ v.per > 0 /\ v.val <= grown
                                       /\ \E q \in DOMAIN before.rows : before.rows[q].start = r.start IN
    /\ \A m \in Rates : m = "cpu" \/ r.whole => own(r.metric[m], work[r.start] - floor.work[r.start])
    /\ \A t \in r.threads :
         /\ Present(t.cpu) => \E q \in DOMAIN before.rows : \E u \in before.rows[q].threads : u.tid = t.tid
         /\ own(t.cpu, threads[t.tid[1]][t.tid[2]] -
                       IF t.tid[2] <= Len(floor.threads[t.tid[1]]) THEN floor.threads[t.tid[1]][t.tid[2]] ELSE 0)

\* And it is there when it can be: a process under the same identity in two
\* snapshots that follow each other, some time apart, has its CPU rate in the
\* second, listings that failed between the two notwithstanding; and what ps
\* prints without --instant is its second sample (internal/app/assembly.go), so
\* no process it saw twice is still warming up.
RatesAppear ==
  LET rated(rows) == \A p \in DOMAIN rows \cap DOMAIN before.rows :
                       rows[p].key = before.rows[p].key => Present(rows[p].metric["cpu"]) IN
  /\ snap.elapsed > 0 => rated(snap.rows)
  /\ query.mode = "ps" /\ query.rate /\ ~query.instant /\ emitted = 1 => snap.gen = 2 /\ rated(shown)

\* The name kept for a running process is one it had itself, whatever process
\* had its pid before (internal/procfs/read.go, readHostnameFor); and the two
\* generations of the cache hold the processes of the last two listings and no
\* others, however long the session, until an interrupt in the middle of one
\* ends it (source.go, rotateHostCache).
HostCacheOwn ==
  LET keys(rows) == {rows[p].key : p \in DOMAIN rows} IN
  /\ \A k \in DOMAIN cache : k[3] \in alive => cache[k] \in named[k[3]]
  /\ exit # "interrupted" => DOMAIN cache \cup DOMAIN cachePrev \subseteq keys(snap.rows) \cup keys(before.rows)

\* The two sources of wakeups stand in for each other and are never mixed: the
\* values are the preferred source's when it works, the fallback's otherwise,
\* and a running process has one unless its file was refused (an exec may give
\* the file back later).
WakeupsFromOneSource ==
  {"ebpf", "sched"} \subseteq query.wants /\ emitted > 0 /\ phase \in {"wait", "ended"} /\ exit \in {"none", "ok"} =>
    \A p \in DOMAIN shown :
      LET v == shown[p].metric["wakeups"] IN
      /\ Present(v) => v.src = IF bpf = "loaded" THEN "ebpf" ELSE "sched"
      /\ "exec" \notin query.kinds /\ shown[p].start \in alive \ denied => Present(v)

\* A process that lives through a collector's window is shown with exactly
\* what it did in the window (schedstat, wakeups by either source, perf).
WindowRateOwn ==
  [][window.on /\ ~window'.on =>
       \A p \in Procs, m \in {"runq-delay", "wakeups", "cycles"} :
         LET s == snap.rows[p].start
             new == snap'.rows[p].metric IN
         s \in alive /\ m \in DOMAIN new /\ Present(new[m])
         /\ ~(m \in DOMAIN snap.rows[p].metric /\ new[m] = snap.rows[p].metric[m])
           => new[m].val = work[s] - window.work[s]]_vars

\* GPU time is what the process's own clients were busy in the window, every
\* client once, whatever its descriptors and the form its driver reports in.
GpuIsOwnBusy ==
  [][Running("gpu") /\ window.on /\ ~window'.on =>
       \A p \in Procs :
         LET s  == snap.rows[p].start
             cs == clients[s]
             grown(es) == SumFunctionOnSet([c \in cs |-> busy[c] - window.gpu.b[c]],
                            {c \in cs : ClientInfo[c].engine \in es /\ ClientInfo[c].reports # {}})
             new == snap'.rows[p].metric IN
         s \in alive /\ cs = window.gpu.c[s] /\ "gpu" \in DOMAIN new /\ Present(new["gpu"])
         /\ (\A c \in cs : ClientInfo[c].id)
           => /\ new["gpu"].val = grown({ClientInfo[c].engine : c \in Clients})
              /\ \A e \in Engines : new[e].val = grown({e})]_vars

\* Whatever a collector does in its window, a process that lives through it is
\* shown with what it did itself.
WindowMeasuresOwn == WindowRateOwn /\ GpuIsOwnBusy

\* Collect returns with nothing left behind: the perf groups open at a time are
\* bounded and none outlives its batch, also when the kernel refuses a group's
\* second or third event (perf_linux.go); and a scan returns only when every
\* process has its counts, unless the context was done (fd.go).
CollectorsLeaveNothing ==
  /\ Cardinality(perf.fds) <= MaxGroups * HwEvents
  /\ ~window.on => perf.fds = {}
  /\ "fd" \in query.wants /\ phase = "enrich" /\ "fd" \notin todo /\ ~ctxDone =>
       \A p \in Procs : "fd-total" \in DOMAIN snap.rows[p].metric

\* Power, as it should be: of the zones zs that could be read at m1, the energy
\* they used until m2, or where none of them counts energy what they showed; and
\* of a domain, what those zones of it used that the first of the sources ids
\* could read which could read any.
ZonesUsed(zs, m1, m2) ==
  LET counted == {z \in zs : IsEnergy(z)} IN
  IF counted # {} THEN SumFunctionOnSet([z \in zs |-> m2.energy[z] - m1.energy[z]], counted)
                  ELSE SumFunctionOnSet([z \in zs |-> m1.energy[z]], zs)

Open(zones, b, d) == {z \in zones : ZoneInfo[z].backend = b /\ ZoneInfo[z].domain = d}

DomainUsed(zones, ids, m1, m2, d, v) ==
  LET can == {b \in ids : Open(zones \ m1.locked, b, d) # {}} IN
  IF can = {} THEN ~Shown(v) ELSE v = Val(ZonesUsed(Open(zones \ m1.locked, First(can), d), m1, m2))

\* While no file changes its mode and no counter wraps, a domain has a value
\* when some source can read it, and it is what the first such source measured.
PowerIsWhatWasUsed ==
  LET m1 == measuring.machine
      m2 == measuring.after IN
  measuring.on = "done" /\ query.host = "power" /\ m1.locked = m2.locked
  /\ (\A z \in present : m1.energy[z] <= m2.energy[z])
    => \A d \in Domains : DomainUsed(present, sources.ids, m1, m2, d, host[d])

\* A combined battery figure is shown only when every installed battery
\* reports its part, and a time only when all that move move the same way.
BatteryFiguresWhole ==
  measuring.on = "done" /\ query.host = "battery" =>
    LET has(f) == \A b \in Installed : f \in DOMAIN supply[b].has IN
    /\ Shown(host.charge) => has("charge") /\ has("charge_full")
    /\ Shown(host.energy) => has("energy") /\ has("energy_full")
    /\ Shown(host.level)  => has("charge") \/ has("energy") \/ has("capacity")
    /\ Shown(host.left)   => /\ {"Charging", "Discharging"} \cap Statuses = {host.state.val}
                             /\ has("current") \/ has("power")

\* What the processors cs idled between two readings.
IdledIn(cs, m1, m2) == SumFunctionOnSet([c \in Cpus |-> m2.idle[c] - m1.idle[c]], cs)

\* The deep idle time shown is what the processors idled in the window itself,
\* nothing of before it, when those at its end are those it opened with; when
\* some are gone it is less (cstate.go).
IdleIsOfTheWindow ==
  LET m1 == measuring.machine
      m2 == measuring.after IN
  measuring.on = "done" /\ query.host = "cstate" /\ Shown(host.cstate) =>
    /\ m2.online = m1.online => host.cstate.val = IdledIn(m1.online, m1, m2)
    /\ m2.online \subseteq m1.online => host.cstate.val <= IdledIn(m2.online, m1, m2)

\* What is shown of the machine was measured of it: a domain's power is that of
\* the zones one source can read, a combined battery figure has every battery in
\* it, and the idle time is that of the window.
HostFiguresMeasured == PowerIsWhatWasUsed /\ BatteryFiguresWhole /\ IdleIsOfTheWindow

\* A collector that scans in goroutines always returns, also when the context
\* was done before it had started them all (internal/procfs/fd.go, Collect).
ScansReturn == \A c \in Scanning : Running(c) ~> ~Running(c)
=============================================================================
