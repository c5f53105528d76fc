------------------------------- MODULE Sampler -------------------------------
(***************************************************************************)
(* How procfit reads /proc and turns two readings into rates               *)
(* (internal/procfs/source.go and read.go, internal/collect).              *)
(*                                                                         *)
(* One listing reads the files of every process: stat first, which settles *)
(* the process's identity, the others later, by pid.  The kernel moves     *)
(* between the two.  Reads of different processes touch disjoint state, so *)
(* a listing is two steps: every stat file, then every other file.         *)
(*                                                                         *)
(* A process is a start: the n-th process to start.  Its number stands for *)
(* the start time in its identity.  One counter per start stands for every *)
(* cumulative counter of the kernel, so a file read at a moment shows the  *)
(* counter of that moment.  Beside its main thread a process has one       *)
(* thread, which may end and be followed by another with the same TID.     *)
(***************************************************************************)
EXTENDS Integers, Sequences, FiniteSets

CONSTANTS
  Pids,        \* process ids
  Running0,    \* the pids of the processes that run when procfit starts
  MaxStarts,   \* bound: processes that start
  MaxWork,     \* bound: the counter of a process or thread
  MaxThreads,  \* bound: threads that have had a process's second TID
  Names,       \* values of HOSTNAME in an environment
  Unset,       \* the environment has no HOSTNAME
  HostName     \* the machine's own name

ASSUME SamplerAssumption ==
  /\ Running0 \in Seq(Pids) /\ Len(Running0) <= MaxStarts
  /\ \A i, j \in 1..Len(Running0) : Running0[i] = Running0[j] => i = j
  /\ Pids \subseteq Nat /\ IsFiniteSet(Pids)
  /\ MaxStarts \in Nat /\ MaxWork \in Nat /\ MaxThreads \in Nat \ {0}
  /\ Unset \notin Names /\ HostName # Unset

VARIABLES
  home,      \* the pid of every start so far
  alive,     \* the starts that are running
  work,      \* the counter of every start, kept when it ends
  woken,     \* per pid, the work of the processes that had it
  threads,   \* per start, the counters of the threads that had its second TID
  environ,   \* per start, HOSTNAME as its last exec left it
  denied,    \* the starts whose files only their owner may read
  clock,     \* the monotonic clock
  named      \* history: the host names each start could have been read with

kernel == <<home, alive, work, woken, threads, environ, denied, clock, named>>

VARIABLES
  reading,      \* the stat files of the listing in progress; Idle between listings
  cache,        \* Source.hostCache
  cachePrev,    \* Source.hostCachePrev
  prev,         \* Sampler.prev: the last listing, by identity
  prevThreads,  \* Sampler.prevThreads
  prevAt,       \* Sampler.prevMono; Never when hasPrev is false
  snap          \* the last snapshot

sampler == <<reading, cache, cachePrev, prev, prevThreads, prevAt, snap>>

VARIABLES
  low,      \* history: the counters when the listing in progress began
  last,     \* history: the counters when the listing of snap began
  floor,    \* history: the counters when the listing of before began
  before    \* history: the snapshot before snap

history == <<low, last, floor, before>>

Starts == 1..MaxStarts
Free  == 0            \* no process has the pid
Empty == <<>>         \* a map without entries
Idle  == [on |-> FALSE, stats |-> {}]
Never == -1

Holder(p) == IF \E s \in alive : home[s] = p
             THEN CHOOSE s \in alive : home[s] = p ELSE Free

(***************************************************************************)
(* The kernel.                                                             *)
(***************************************************************************)

Enters(s, n) ==
  /\ environ' = [environ EXCEPT ![s] = n]
  /\ named' = [named EXCEPT ![s] = @ \cup {n, HostName}]

\* A process starts with an environment n, refusing its files to us when d.
Fork(p, n, d) ==
  LET s == Len(home) + 1 IN
  /\ Holder(p) = Free
  /\ s \in Starts
  /\ home' = Append(home, p)
  /\ alive' = alive \cup {s}
  /\ Enters(s, n)
  /\ denied' = IF d THEN denied \cup {s} ELSE denied
  /\ UNCHANGED <<work, woken, threads, clock>>

Exit(s) ==
  /\ alive' = alive \ {s}
  /\ UNCHANGED <<home, work, woken, threads, environ, denied, clock, named>>

Work(s) ==
  /\ work[s] < MaxWork
  /\ work' = [work EXCEPT ![s] = @ + 1]
  /\ woken' = [woken EXCEPT ![home[s]] = @ + 1]
  /\ UNCHANGED <<home, alive, threads, environ, denied, clock, named>>

ThreadWork(s) ==
  LET k == Len(threads[s]) IN
  /\ threads[s][k] < MaxWork
  /\ threads' = [threads EXCEPT ![s][k] = @ + 1]
  /\ UNCHANGED <<home, alive, work, woken, environ, denied, clock, named>>

ThreadReplaced(s) ==
  /\ Len(threads[s]) < MaxThreads
  /\ threads' = [threads EXCEPT ![s] = Append(@, 0)]
  /\ UNCHANGED <<home, alive, work, woken, environ, denied, clock, named>>

\* An exec gives the process another environment, a set-user-id one also takes
\* its files away from other users.
Exec(s, n, d) ==
  /\ Enters(s, n)
  /\ denied' = IF d THEN denied \cup {s} ELSE denied \ {s}
  /\ UNCHANGED <<home, alive, work, woken, threads, clock>>

TimePasses == clock' = clock + 1 /\ UNCHANGED <<home, alive, work, woken, threads, environ, denied, named>>

(***************************************************************************)
(* Values of metrics.                                                      *)
(***************************************************************************)

Value(v, per, src) == [avail |-> "available", val |-> v, per |-> per, src |-> src]
Unavailable(reason, src) == [avail |-> reason, val |-> 0, per |-> 0, src |-> src]
Present(v) == v.avail = "available"

(***************************************************************************)
(* Reading one process.                                                    *)
(***************************************************************************)

\* Mutant: the rates are kept by pid.
KeyPid(st) == <<0, st.pid, 0>>

\* ProcessInstanceID.Key: boot, PID namespace, pid and start time.  The link to
\* the namespace is one of the later files, and reads as 0 when it is refused.
Key(st) == <<st.ns, st.pid, st.start>>

Stat(p) == [pid |-> p, start |-> Holder(p), cpu |-> work[Holder(p)]]

\* The status file is readable to everyone; without it the counters stay 0.
FillStatus(h) == IF h = Free THEN 0 ELSE work[h]

FillIO(h) ==
  CASE h = Free     -> Unavailable("read_error", "io")
    [] h \in denied -> Unavailable("permission_denied", "io")
    [] OTHER        -> Value(work[h], 0, "io")

ReadNamespaces(h) == IF h = Free \/ h \in denied THEN 0 ELSE 1

ReadThreads(h) ==
  IF h = Free THEN {} ELSE {[tid |-> <<h, Len(threads[h])>>, cpu |-> threads[h][Len(threads[h])]]}

ResolveHostname(h) ==
  IF h = Free \/ h \in denied THEN HostName
  ELSE IF environ[h] = Unset THEN HostName ELSE environ[h]

\* Mutant: the name is kept by pid.
HostnameForPid(key, h) ==
  LET same(c) == {k \in DOMAIN c : k[2] = key[2]} IN
  IF same(cache) # {} THEN cache[CHOOSE k \in same(cache) : TRUE]
  ELSE IF same(cachePrev) # {} THEN cachePrev[CHOOSE k \in same(cachePrev) : TRUE]
  ELSE ResolveHostname(h)

\* readHostnameFor: an instance's name is read once and kept.
HostnameFor(key, h) ==
  CASE key \in DOMAIN cache     -> cache[key]
    [] key \in DOMAIN cachePrev -> cachePrev[key]
    [] OTHER                    -> ResolveHostname(h)

\* One process's files after stat, found by pid: whoever holds it now.
ReadProcess(st, q) ==
  LET h  == Holder(st.pid)
      id == [ns |-> ReadNamespaces(h), pid |-> st.pid, start |-> st.start] IN
  [ns |-> id.ns, pid |-> st.pid, start |-> st.start, cpu |-> st.cpu,
   ctxsw |-> FillStatus(h), disk |-> FillIO(h),
   threads |-> IF q.threads THEN ReadThreads(h) ELSE {},
   hostname |-> IF q.hostname THEN HostnameFor(Key(id), h) ELSE Unset,
   whole |-> h = st.start]

(***************************************************************************)
(* Rates.                                                                  *)
(***************************************************************************)

Rates == {"cpu", "ctxsw", "disk"}

\* rateSpec.get: a counter, or why it cannot be read.
Counter(m, st) ==
  CASE m = "cpu"   -> Value(st.cpu, 0, "stat")
    [] m = "ctxsw" -> Value(st.ctxsw, 0, "status")
    [] m = "disk"  -> st.disk

WarmingUp(src) == Unavailable("warming_up", src)

ComputeRate(cur, old, secs) ==
  IF ~Present(cur) THEN Unavailable(cur.avail, "proc")
  ELSE IF old = {} \/ secs <= 0 THEN WarmingUp("proc")
  ELSE LET p == CHOOSE p \in old : TRUE IN
       IF ~Present(p) \/ cur.val < p.val THEN WarmingUp("proc")
       ELSE Value(cur.val - p.val, secs, "proc")

ThreadKey(st, t) == <<Key(st), t.tid>>

ThreadMetric(t, old, secs) ==
  IF old = {} \/ secs <= 0 THEN WarmingUp("thread")
  ELSE LET p == CHOOSE p \in old : TRUE IN
       IF t.cpu < p THEN WarmingUp("thread") ELSE Value(t.cpu - p, secs, "thread")

OldStat(st)      == IF Key(st) \in DOMAIN prev THEN {prev[Key(st)]} ELSE {}
OldThread(st, t) == IF ThreadKey(st, t) \in DOMAIN prevThreads
                    THEN {prevThreads[ThreadKey(st, t)]} ELSE {}

Row(st, secs) ==
  [key |-> Key(st), pid |-> st.pid, start |-> st.start, whole |-> st.whole,
   hostname |-> st.hostname,
   metric  |-> [m \in Rates |-> ComputeRate(Counter(m, st), {Counter(m, o) : o \in OldStat(st)}, secs)],
   threads |-> {[tid |-> t.tid, cpu |-> ThreadMetric(t, OldThread(st, t), secs)] : t \in st.threads}]

(***************************************************************************)
(* Source.List and Sampler.Sample.                                         *)
(***************************************************************************)

NoSnapshot == [gen |-> 0, elapsed |-> 0, rows |-> Empty]

\* ReadDir and the stat files.  A process that is gone is left out.
ListBegins(q) ==
  /\ ~reading.on
  /\ IF q.hostname THEN cachePrev' = cache /\ cache' = Empty
                   ELSE UNCHANGED <<cache, cachePrev>>
  /\ reading' = [on |-> TRUE, stats |-> {Stat(p) : p \in {p \in Pids : Holder(p) # Free}}]
  /\ low' = [work |-> work, threads |-> threads]
  /\ UNCHANGED <<kernel, prev, prevThreads, prevAt, snap, last, floor, before>>

\* The host names of the processes read, by identity.
Hostnames(stats) == [k \in {Key(st) : st \in stats} |-> (CHOOSE st \in stats : Key(st) = k).hostname]

\* Mutant: a failed listing forgets the previous one but not when it was.
ListFailsForgetting(q, read) ==
  /\ reading.on
  /\ reading' = Idle /\ prev' = Empty
  /\ UNCHANGED <<kernel, cache, cachePrev, prevThreads, prevAt, snap, history>>

\* The listing fails (the directory cannot be read, or the context is done
\* when only some processes were read): Sample returns the error and keeps
\* what it knew, the source the names of the processes it had read.
ListFails(q, read) ==
  /\ reading.on
  /\ reading' = Idle
  /\ cache' = IF q.hostname THEN Hostnames({ReadProcess(st, q) : st \in read}) ELSE cache
  /\ UNCHANGED <<kernel, cachePrev, prev, prevThreads, prevAt, snap, history>>

\* The other files, then the rates against the previous listing.
SampleDone(q) ==
  /\ reading.on
  /\ LET stats == {ReadProcess(st, q) : st \in reading.stats}
         of(p) == CHOOSE st \in stats : st.pid = p
         secs  == IF prevAt = Never THEN 0 ELSE clock - prevAt
         seen  == UNION {{[key |-> ThreadKey(st, t), cpu |-> t.cpu] : t \in st.threads} : st \in stats} IN
     /\ snap' = [gen |-> snap.gen + 1, elapsed |-> secs,
                 rows |-> [p \in {st.pid : st \in stats} |-> Row(of(p), secs)]]
     /\ prev' = [k \in {Key(st) : st \in stats} |-> CHOOSE st \in stats : Key(st) = k]
     /\ prevThreads' = [k \in {t.key : t \in seen} |-> (CHOOSE t \in seen : t.key = k).cpu]
     /\ cache' = IF q.hostname THEN Hostnames(stats) ELSE cache
  /\ prevAt' = clock
  /\ reading' = Idle
  /\ last' = low /\ floor' = last /\ before' = snap
  /\ UNCHANGED <<kernel, cachePrev, low>>

SamplerInit ==
  /\ home = Running0 /\ alive = 1..Len(Running0)
  /\ work = [s \in Starts |-> 0] /\ woken = [p \in Pids |-> 0]
  /\ threads = [s \in Starts |-> <<0>>]
  /\ environ = [s \in Starts |-> Unset]
  /\ denied = {}
  /\ named = [s \in Starts |-> IF s \in alive THEN {HostName} ELSE {}]
  /\ clock = 0
  /\ reading = Idle /\ cache = Empty /\ cachePrev = Empty
  /\ prev = Empty /\ prevThreads = Empty /\ prevAt = Never /\ snap = NoSnapshot
  /\ low = [work |-> work, threads |-> threads] /\ last = low /\ floor = low
  /\ before = NoSnapshot
=============================================================================
