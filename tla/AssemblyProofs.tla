--------------------------- MODULE AssemblyProofs ---------------------------
(***************************************************************************)
(* Theorems about Assembly: whose the rates and the host names are that    *)
(* the observation pass shows.  The sampler and the kernel take turns only *)
(* at the listings, so an action is first summed up by what it does to the *)
(* processes (KernelMoves) and to the snapshot (OnlyEnriched).             *)
(***************************************************************************)
EXTENDS Assembly, TLAPS

(***************************************************************************)
(* The inductive invariant.                                                *)
(***************************************************************************)
\* What the kernel's counters are worth, as a record of them or as now.
Counters == [work : [Starts -> Nat], threads : [Starts -> Seq(Nat)]]
Now == [work |-> work, threads |-> threads]

ThreadCounter(c, s, i) == IF i <= Len(c.threads[s]) THEN c.threads[s][i] ELSE 0

\* No counter of d is behind that of c.
NoLater(c, d) ==
  \A s \in Starts : /\ c.work[s] <= d.work[s]
                    /\ Len(c.threads[s]) <= Len(d.threads[s])
                    /\ \A i \in 1..Len(c.threads[s]) : c.threads[s][i] <= d.threads[s][i]

\* A pid is of at most one running process, and everything a name was ever read from
\* is in the history of its process.
KernelOK ==
  /\ home \in Seq(Pids) /\ Len(home) <= MaxStarts
  /\ alive \subseteq 1..Len(home)
  /\ \A s, t \in alive : home[s] = home[t] => s = t
  /\ Now \in Counters /\ \A s \in Starts : Len(threads[s]) >= 1
  /\ clock \in Nat
  /\ DOMAIN environ = Starts /\ DOMAIN named = Starts
  /\ \A s \in alive : HostName \in named[s] /\ environ[s] \in named[s] \cup {Unset}

\* The counters at the beginning of three listings, and now.
HistoryOK ==
  /\ low \in Counters /\ last \in Counters /\ floor \in Counters
  /\ NoLater(floor, last) /\ NoLater(last, low) /\ NoLater(low, Now)

\* The listing in progress has one process of a pid, with the counter it had when the
\* listing began.
ListingOK ==
  reading.on =>
    /\ \A st \in reading.stats : /\ st.start \in 1..Len(home) /\ home[st.start] = st.pid
                                 /\ st.cpu = low.work[st.start]
    /\ \A a, b \in reading.stats : a.pid = b.pid => a = b

Keys(rows) == {rows[p].key : p \in DOMAIN rows}
Known(k) == k[3] \in 1..Len(home)

\* What a listing read of process o, when the counters it began with were c.
ReadSince(o, c) ==
  /\ o.cpu = c.work[o.start]
  /\ o.whole => /\ o.ctxsw \in Nat /\ c.work[o.start] <= o.ctxsw
                /\ Present(o.disk) => o.disk.val \in Nat /\ c.work[o.start] <= o.disk.val

\* The previous listing is the one the snapshot was made of.  The files of a process
\* it saw that is still running were that process's.
PreviousOK ==
  /\ DOMAIN prev = Keys(snap.rows)
  /\ \A k \in DOMAIN prev :
       /\ prev[k].start = k[3] /\ Known(k)
       /\ k[3] \in alive => prev[k].whole
       /\ ReadSince(prev[k], last)
  /\ \A k \in DOMAIN prevThreads :
       LET h == k[2][1]
           i == k[2][2] IN
       /\ h \in Starts /\ i \in Nat \ {0} /\ i <= Len(threads[h])
       /\ prevThreads[k] \in Nat /\ ThreadCounter(last, h, i) <= prevThreads[k]
       /\ \E p \in Procs : snap.rows[p].key = k[1] /\ \E u \in snap.rows[p].threads : u.tid = k[2]

RowFields == {"key", "pid", "start", "whole", "hostname", "metric", "threads"}

\* A rate that is the growth of at most grown, of a process that rows old have.
Owned(v, grown, start, old) ==
  Present(v) => /\ v.per \in Nat /\ v.per > 0 /\ v.val \in Nat /\ v.val <= grown
                /\ \E q \in DOMAIN old : old[q].start = start

\* When the counters are now, since for the listing before, and old are its rows.
RowOK(r, now, since, old) ==
  /\ DOMAIN r = RowFields /\ Rates \subseteq DOMAIN r.metric /\ r.start = r.key[3] /\ r.start \in Starts
  /\ \A m \in Rates : m = "cpu" \/ r.whole =>
       Owned(r.metric[m], now.work[r.start] - since.work[r.start], r.start, old)
  /\ \A t \in r.threads :
       /\ t.tid[1] \in Starts /\ t.tid[2] \in Nat \ {0} /\ t.tid[2] <= Len(now.threads[t.tid[1]])
       /\ Owned(t.cpu, now.threads[t.tid[1]][t.tid[2]] - ThreadCounter(since, t.tid[1], t.tid[2]), r.start, old)
       /\ Present(t.cpu) => \E q \in DOMAIN old : \E u \in old[q].threads : u.tid = t.tid

SnapshotOK ==
  /\ DOMAIN snap = {"gen", "elapsed", "rows"}
  /\ \A p \in Procs : RowOK(snap.rows[p], Now, floor, before.rows)

\* A cached name is its process's own, and of one of the last two listings: the older
\* generation is of the last one while the next is being read.  An interrupt leaves the
\* names of a listing that no snapshot was made of.
NamesOK ==
  /\ \A k \in DOMAIN cache : Known(k) /\ (k[3] \in alive => cache[k] \in named[k[3]])
  /\ \A k \in DOMAIN cachePrev : Known(k) /\ (k[3] \in alive => cachePrev[k] \in named[k[3]])
  /\ exit # "interrupted" => DOMAIN cache \subseteq Keys(snap.rows)
  /\ DOMAIN cachePrev \subseteq Keys(snap.rows) \cup Keys(before.rows)
  /\ reading.on => DOMAIN cachePrev \subseteq Keys(snap.rows)
  /\ ~query.hostname => DOMAIN cache = {} /\ DOMAIN cachePrev = {}
  /\ reading.on /\ query.hostname => DOMAIN cache = {}

\* A process in two snapshots that follow each other has its rate in the second.
Rated(rows, old) ==
  \A p \in DOMAIN rows \cap DOMAIN old : rows[p].key = old[p].key => Present(rows[p].metric["cpu"])

TwoSamples == query.mode = "ps" /\ query.rate /\ ~query.instant

\* An interrupt ends the pass.  Where one that takes two samples is: what it shows is the
\* second.
Progress ==
  /\ exit = "interrupted" => phase = "ended"
  /\ TwoSamples =>
    /\ emitted = 0 \/ (emitted = 1 /\ phase = "ended" /\ snap.gen = 2 /\ snap.elapsed > 0 /\ shown = snap.rows)
    /\ phase # "wait"
    /\ phase \in {"idle", "list"} => snap.gen = 0 \/ (snap.gen = 1 /\ prevAt # Never /\ prevAt < clock)
    /\ phase = "warmup" => snap.gen = 1 /\ prevAt # Never /\ prevAt <= clock
    /\ phase = "enrich" => snap.gen = 2 /\ snap.elapsed > 0

PassOK ==
  /\ query \in Scenarios
  /\ snap.elapsed > 0 => Rated(snap.rows, before.rows)
  /\ prevAt \in Nat \cup {Never}
  /\ Progress

IInv == KernelOK /\ HistoryOK /\ ListingOK /\ PreviousOK /\ SnapshotOK /\ NamesOK /\ PassOK

(***************************************************************************)
(* The kernel.                                                             *)
(***************************************************************************)
\* What may have become of the processes after a step: none comes back, a new one is
\* another start, and nothing counts backwards.
KernelMoves ==
  /\ Len(home) <= Len(home') /\ \A s \in 1..Len(home) : home'[s] = home[s]
  /\ \A s \in alive' : s \in alive \/ s \notin 1..Len(home)
  /\ NoLater(Now, Now')
  /\ \A s \in Starts : named[s] \subseteq named'[s]
  /\ clock <= clock'

LEMMA StartsAreLive == KernelOK => 1..Len(home) \subseteq Starts /\ alive \subseteq Starts /\ Len(home) \in Nat
  BY SamplerAssumption DEF KernelOK, Starts

LEMMA CountersNow ==
  ASSUME Now \in Counters
  PROVE  /\ work \in [Starts -> Nat] /\ threads \in [Starts -> Seq(Nat)]
         /\ \A s \in Starts : work[s] \in Nat /\ threads[s] \in Seq(Nat) /\ Len(threads[s]) \in Nat
  BY DEF Now, Counters

LEMMA NoLaterSame ==
  ASSUME NEW c \in Counters PROVE NoLater(c, c)
  <1>1. \A s \in Starts : /\ c.work[s] \in Nat /\ Len(c.threads[s]) \in Nat
                          /\ \A i \in 1..Len(c.threads[s]) : c.threads[s][i] \in Nat
    BY DEF Counters
  <1>. QED BY <1>1 DEF NoLater

LEMMA NoMoreChain == \A x, y, z \in Nat : x <= y /\ y <= z => x <= z
  OBVIOUS

LEMMA NoLaterChain ==
  ASSUME NEW c \in Counters, NEW d \in Counters, NEW e \in Counters, NoLater(c, d), NoLater(d, e)
  PROVE  NoLater(c, e)
  <1>1. SUFFICES ASSUME NEW s \in Starts
                 PROVE  /\ c.work[s] <= e.work[s]
                        /\ Len(c.threads[s]) <= Len(e.threads[s])
                        /\ \A i \in 1..Len(c.threads[s]) : c.threads[s][i] <= e.threads[s][i]
    BY DEF NoLater
  <1>2. \A x \in {c, d, e} : /\ x.work[s] \in Nat /\ Len(x.threads[s]) \in Nat
                             /\ \A i \in 1..Len(x.threads[s]) : x.threads[s][i] \in Nat
    BY DEF Counters
  <1>3. c.work[s] <= e.work[s] /\ Len(c.threads[s]) <= Len(e.threads[s])
    <2>1. /\ c.work[s] <= d.work[s] /\ d.work[s] <= e.work[s]
          /\ Len(c.threads[s]) <= Len(d.threads[s]) /\ Len(d.threads[s]) <= Len(e.threads[s])
      BY DEF NoLater
    <2>2. /\ c.work[s] \in Nat /\ d.work[s] \in Nat /\ e.work[s] \in Nat
          /\ Len(c.threads[s]) \in Nat /\ Len(d.threads[s]) \in Nat /\ Len(e.threads[s]) \in Nat
      BY <1>2
    <2>. QED BY <2>1, <2>2, NoMoreChain
  <1>4. \A i \in 1..Len(c.threads[s]) : c.threads[s][i] <= e.threads[s][i]
    <2>1. TAKE i \in 1..Len(c.threads[s])
    <2>2. i \in 1..Len(d.threads[s]) /\ i \in 1..Len(e.threads[s]) BY <1>2 DEF NoLater
    <2>3. c.threads[s][i] <= d.threads[s][i] /\ d.threads[s][i] <= e.threads[s][i] BY <2>2 DEF NoLater
    <2>4. c.threads[s][i] \in Nat /\ d.threads[s][i] \in Nat /\ e.threads[s][i] \in Nat BY <1>2, <2>2
    <2>. QED BY <2>3, <2>4
  <1>. QED BY <1>3, <1>4

LEMMA ThreadsStay ==
  ASSUME KernelOK, Now' \in Counters, NoLater(Now, Now')
  PROVE  \A s \in Starts : Len(threads'[s]) >= 1
  <1>1. TAKE s \in Starts
  <1>2. Len(threads[s]) >= 1 /\ Len(threads[s]) \in Nat BY CountersNow DEF KernelOK
  <1>3. Len(threads'[s]) \in Nat BY DEF Now, Counters
  <1>4. Len(threads[s]) <= Len(threads'[s]) BY DEF NoLater, Now
  <1>. QED BY <1>2, <1>3, <1>4

\* The counters stand still.
LEMMA StillNow ==
  ASSUME KernelOK, UNCHANGED <<work, threads>>
  PROVE  Now' \in Counters /\ NoLater(Now, Now')
  <1>1. Now' = Now BY DEF Now
  <1>. QED BY <1>1, NoLaterSame DEF KernelOK

LEMMA HolderIs ==
  ASSUME KernelOK, NEW p
  PROVE  \/ Holder(p) = Free /\ \A s \in alive : home[s] # p
         \/ Holder(p) \in alive /\ home[Holder(p)] = p /\ \A s \in alive : home[s] = p => s = Holder(p)
  <1>1. CASE \E s \in alive : home[s] = p
    <2>1. Holder(p) \in alive /\ home[Holder(p)] = p BY <1>1 DEF Holder
    <2>. QED BY <2>1 DEF KernelOK
  <1>2. CASE ~\E s \in alive : home[s] = p BY <1>2 DEF Holder
  <1>. QED BY <1>1, <1>2

LEMMA FreeIsNobody == KernelOK => Free \notin alive
  BY StartsAreLive DEF Free, Starts

\* An exec, or the first of a process: a name is added to the history before it can be read.
LEMMA EntersNames ==
  ASSUME KernelOK, NEW s \in Starts, NEW n \in Names \cup {Unset}, Enters(s, n)
  PROVE  /\ DOMAIN environ' = Starts /\ DOMAIN named' = Starts
         /\ \A t \in Starts : named[t] \subseteq named'[t]
         /\ \A t \in alive \cup {s} : HostName \in named'[t] /\ environ'[t] \in named'[t] \cup {Unset}
  <1>1. /\ environ' = [environ EXCEPT ![s] = n]
        /\ named' = [named EXCEPT ![s] = named[s] \cup {n, HostName}]
    BY DEF Enters
  <1>2. DOMAIN environ = Starts /\ DOMAIN named = Starts BY DEF KernelOK
  <1>3. environ'[s] = n /\ named'[s] = named[s] \cup {n, HostName} BY <1>1, <1>2
  <1>4. \A t \in Starts \ {s} : environ'[t] = environ[t] /\ named'[t] = named[t] BY <1>1, <1>2
  <1>5. DOMAIN environ' = Starts /\ DOMAIN named' = Starts BY <1>1, <1>2
  <1>6. \A t \in alive : t \in Starts /\ HostName \in named[t] /\ environ[t] \in named[t] \cup {Unset}
    BY StartsAreLive DEF KernelOK
  <1>. QED BY <1>3, <1>4, <1>5, <1>6

LEMMA ForkMoves ==
  ASSUME KernelOK, NEW p \in Pids, NEW n \in Names \cup {Unset}, NEW d, Fork(p, n, d)
  PROVE  KernelOK' /\ KernelMoves
  <1>. DEFINE s == Len(home) + 1
  <1>1. /\ home' = Append(home, p) /\ alive' = alive \cup {s} /\ s \in Starts /\ Enters(s, n)
        /\ UNCHANGED <<work, threads, clock>> /\ Holder(p) = Free
    BY DEF Fork
  <1>2. home \in Seq(Pids) /\ Len(home) \in Nat BY DEF KernelOK
  <1>3. /\ home' \in Seq(Pids) /\ Len(home') = s /\ home'[s] = p
        /\ \A t \in 1..Len(home) : home'[t] = home[t]
    BY <1>1, <1>2
  <1>4. \A t \in alive : home[t] # p /\ t \in 1..Len(home) /\ home'[t] = home[t]
    BY <1>1, <1>3, HolderIs, FreeIsNobody DEF KernelOK
  <1>5. \A t, u \in alive' : home'[t] = home'[u] => t = u BY <1>1, <1>3, <1>4 DEF KernelOK
  <1>6. s <= MaxStarts /\ alive' \subseteq 1..Len(home') BY <1>1, <1>2, <1>3, <1>4 DEF Starts
  <1>7. Now' \in Counters /\ NoLater(Now, Now') BY <1>1, StillNow
  <1>8. clock' = clock /\ clock \in Nat BY <1>1 DEF KernelOK
  <1>9. KernelOK' BY <1>1, <1>3, <1>5, <1>6, <1>7, <1>8, EntersNames, ThreadsStay DEF KernelOK
  <1>. QED BY <1>1, <1>2, <1>3, <1>7, <1>8, <1>9, EntersNames DEF KernelMoves

LEMMA SameProcesses ==
  ASSUME KernelOK, home' = home, alive' \subseteq alive, clock' \in Nat, clock <= clock',
         Now' \in Counters, NoLater(Now, Now'),
         DOMAIN environ' = Starts /\ DOMAIN named' = Starts,
         \A t \in Starts : named[t] \subseteq named'[t],
         \A t \in alive : HostName \in named'[t] /\ environ'[t] \in named'[t] \cup {Unset}
  PROVE  KernelOK' /\ KernelMoves
  <1>1. KernelOK' BY ThreadsStay DEF KernelOK
  <1>2. Len(home) \in Nat /\ alive \subseteq 1..Len(home) BY DEF KernelOK
  <1>. QED BY <1>1, <1>2 DEF KernelMoves

LEMMA ExitMoves ==
  ASSUME KernelOK, NEW s, Exit(s)
  PROVE  KernelOK' /\ KernelMoves
  <1>1. alive' \subseteq alive /\ UNCHANGED <<home, work, threads, environ, clock, named>> BY DEF Exit
  <1>2. Now' \in Counters /\ NoLater(Now, Now') BY <1>1, StillNow
  <1>3. /\ DOMAIN environ' = Starts /\ DOMAIN named' = Starts /\ clock' \in Nat /\ clock <= clock'
        /\ \A t \in alive : HostName \in named'[t] /\ environ'[t] \in named'[t] \cup {Unset}
    BY <1>1 DEF KernelOK
  <1>. QED BY <1>1, <1>2, <1>3, SameProcesses

LEMMA StillKernel ==
  ASSUME KernelOK, UNCHANGED kernel
  PROVE  KernelOK' /\ KernelMoves
  <1>1. UNCHANGED <<home, alive, work, threads, environ, clock, named>> BY DEF kernel
  <1>2. Now' \in Counters /\ NoLater(Now, Now') BY <1>1, StillNow
  <1>3. clock' \in Nat /\ clock <= clock' BY <1>1 DEF KernelOK
  <1>4. /\ DOMAIN environ' = Starts /\ DOMAIN named' = Starts
        /\ \A t \in alive : HostName \in named'[t] /\ environ'[t] \in named'[t] \cup {Unset}
    BY <1>1 DEF KernelOK
  <1>. QED BY <1>1, <1>2, <1>3, <1>4, SameProcesses

LEMMA TimeMoves ==
  ASSUME KernelOK, TimePasses
  PROVE  KernelOK' /\ KernelMoves /\ clock < clock'
  <1>1. UNCHANGED <<home, alive, work, threads, environ, named>> /\ clock' = clock + 1 BY DEF TimePasses
  <1>2. Now' \in Counters /\ NoLater(Now, Now') BY <1>1, StillNow
  <1>3. /\ DOMAIN environ' = Starts /\ DOMAIN named' = Starts /\ clock' \in Nat /\ clock < clock'
        /\ \A t \in alive : HostName \in named'[t] /\ environ'[t] \in named'[t] \cup {Unset}
        /\ clock \in Nat
    BY <1>1 DEF KernelOK
  <1>. QED BY <1>1, <1>2, <1>3, SameProcesses

LEMMA ExecMoves ==
  ASSUME KernelOK, NEW s \in alive, NEW n \in Names \cup {Unset}, NEW d, Exec(s, n, d)
  PROVE  KernelOK' /\ KernelMoves
  <1>1. Enters(s, n) /\ UNCHANGED <<home, alive, work, threads, clock>> BY DEF Exec
  <1>2. Now' \in Counters /\ NoLater(Now, Now') BY <1>1, StillNow
  <1>3. clock' \in Nat /\ clock <= clock' BY <1>1 DEF KernelOK
  <1>4. s \in Starts BY StartsAreLive
  <1>. QED BY <1>1, <1>2, <1>3, <1>4, EntersNames, SameProcesses

LEMMA WorkMoves ==
  ASSUME KernelOK, NEW s \in alive, Work(s)
  PROVE  KernelOK' /\ KernelMoves
  <1>1. UNCHANGED <<home, alive, threads, environ, clock, named>> /\ work' = [work EXCEPT ![s] = work[s] + 1]
    BY DEF Work
  <1>2. s \in Starts BY StartsAreLive
  <1>3. /\ work \in [Starts -> Nat] /\ threads \in [Starts -> Seq(Nat)] /\ work' \in [Starts -> Nat]
        /\ \A t \in Starts : work[t] <= work'[t]
    BY <1>1, <1>2, CountersNow DEF KernelOK
  <1>4. Now' \in Counters /\ NoLater(Now, Now')
    <2>1. Now' \in Counters BY <1>1, <1>3 DEF Now, Counters
    <2>2. \A t \in Starts : Len(threads[t]) \in Nat /\ \A i \in 1..Len(threads[t]) : threads[t][i] \in Nat
      BY <1>3
    <2>. QED BY <1>1, <1>3, <2>1, <2>2 DEF Now, NoLater
  <1>5. /\ DOMAIN environ' = Starts /\ DOMAIN named' = Starts /\ clock' \in Nat /\ clock <= clock'
        /\ \A t \in alive : HostName \in named'[t] /\ environ'[t] \in named'[t] \cup {Unset}
    BY <1>1 DEF KernelOK
  <1>. QED BY <1>1, <1>4, <1>5, SameProcesses

LEMMA TableIsSequence ==
  ASSUME NEW n \in Nat, NEW g \in [1..n -> Nat]
  PROVE  g \in Seq(Nat) /\ Len(g) = n
  OBVIOUS

\* A thread works or another follows it.
LEMMA ThreadsMove ==
  ASSUME KernelOK, NEW s \in alive, ThreadWork(s) \/ ThreadReplaced(s)
  PROVE  KernelOK' /\ KernelMoves
  <1>. DEFINE k == Len(threads[s])
  <1>1. UNCHANGED <<home, alive, work, environ, clock, named>> BY DEF ThreadWork, ThreadReplaced
  <1>2. s \in Starts BY StartsAreLive
  <1>3. /\ work \in [Starts -> Nat] /\ threads \in [Starts -> Seq(Nat)]
        /\ threads[s] \in Seq(Nat) /\ k \in Nat
    BY <1>2, CountersNow DEF KernelOK
  <1>4. \A t \in Starts : Len(threads[t]) \in Nat /\ \A i \in 1..Len(threads[t]) : threads[t][i] \in Nat
    BY <1>3
  <1>5. threads' \in [Starts -> Seq(Nat)]
        /\ \A t \in Starts : /\ Len(threads[t]) <= Len(threads'[t])
                             /\ \A i \in 1..Len(threads[t]) : threads[t][i] <= threads'[t][i]
    <2>1. CASE ThreadWork(s)
      <3>1. threads' = [threads EXCEPT ![s] = [threads[s] EXCEPT ![k] = threads[s][k] + 1]] BY <2>1 DEF ThreadWork
      <3>. DEFINE m == [threads[s] EXCEPT ![k] = threads[s][k] + 1]
      <3>2. m \in Seq(Nat) /\ Len(m) = k /\ \A i \in 1..k : threads[s][i] <= m[i]
        <4>. DEFINE f == threads[s]
        <4>1. f \in [1..k -> Nat] /\ \A i \in 1..k : f[i] \in Nat BY <1>3
        <4>. HIDE DEF f
        <4>2. m = [f EXCEPT ![k] = f[k] + 1] BY DEF f
        <4>3. \A i \in 1..k : m[i] \in Nat /\ f[i] <= m[i] BY <1>3, <4>1, <4>2
        <4>4. m \in [1..k -> Nat] BY <4>1, <4>2, <4>3
        <4>. HIDE DEF m
        <4>5. m \in Seq(Nat) /\ Len(m) = k BY <1>3, <4>4, TableIsSequence
        <4>. QED BY <4>3, <4>5 DEF f
      <3>. HIDE DEF m
      <3>3. threads'[s] = m /\ \A t \in Starts \ {s} : threads'[t] = threads[t] BY <1>2, <1>3, <3>1 DEF m
      <3>4. threads' \in [Starts -> Seq(Nat)] BY <1>3, <3>1, <3>2 DEF m
      <3>5. \A t \in Starts : /\ Len(threads[t]) <= Len(threads'[t])
                             /\ \A i \in 1..Len(threads[t]) : threads[t][i] <= threads'[t][i]
        <4>1. TAKE t \in Starts
        <4>2. CASE t = s BY <1>3, <3>2, <3>3, <4>2
        <4>3. CASE t # s
          <5>1. threads'[t] = threads[t] BY <3>3, <4>3
          <5>. QED BY <1>4, <5>1
        <4>. QED BY <4>2, <4>3
      <3>. QED BY <3>4, <3>5
    <2>2. CASE ThreadReplaced(s)
      <3>1. threads' = [threads EXCEPT ![s] = Append(threads[s], 0)] BY <2>2 DEF ThreadReplaced
      <3>. DEFINE m == Append(threads[s], 0)
      <3>2. m \in Seq(Nat) /\ Len(m) = k + 1 /\ \A i \in 1..k : m[i] = threads[s][i] BY <1>3
      <3>. HIDE DEF m
      <3>3. threads'[s] = m /\ \A t \in Starts \ {s} : threads'[t] = threads[t] BY <1>2, <1>3, <3>1 DEF m
      <3>4. threads' \in [Starts -> Seq(Nat)] BY <1>3, <3>1, <3>2 DEF m
      <3>5. \A t \in Starts : /\ Len(threads[t]) <= Len(threads'[t])
                             /\ \A i \in 1..Len(threads[t]) : threads[t][i] <= threads'[t][i]
        <4>1. TAKE t \in Starts
        <4>2. CASE t = s
          <5>1. \A i \in 1..k : i \in 1..Len(m) /\ m[i] = threads[s][i] BY <3>2, <1>3
          <5>. QED BY <4>2, <5>1, <1>3, <1>4, <3>2, <3>3
        <4>3. CASE t # s BY <4>3, <3>3, <1>4
        <4>. QED BY <4>2, <4>3
      <3>. QED BY <3>4, <3>5
    <2>. QED BY <2>1, <2>2
  <1>6. Now' \in Counters /\ NoLater(Now, Now')
    <2>1. Now' \in Counters BY <1>1, <1>3, <1>5 DEF Now, Counters
    <2>2. \A t \in Starts : work[t] <= work'[t] BY <1>1, <1>3
    <2>. QED BY <2>1, <2>2, <1>5 DEF Now, NoLater
  <1>7. /\ DOMAIN environ' = Starts /\ DOMAIN named' = Starts /\ clock' \in Nat /\ clock <= clock'
        /\ \A t \in alive : HostName \in named'[t] /\ environ'[t] \in named'[t] \cup {Unset}
    BY <1>1 DEF KernelOK
  <1>. QED BY <1>1, <1>6, <1>7, SameProcesses

(***************************************************************************)
(* The collectors.                                                         *)
(***************************************************************************)
SameFigures(r, q) ==
  /\ DOMAIN q = DOMAIN r /\ DOMAIN r.metric \subseteq DOMAIN q.metric
  /\ q.key = r.key /\ q.start = r.start /\ q.whole = r.whole /\ q.threads = r.threads
  /\ \A m \in Rates : q.metric[m] = r.metric[m]

\* The snapshot is the one the sampler made, whatever collectors have added to it.
OnlyEnriched ==
  /\ DOMAIN snap' = DOMAIN snap /\ snap'.gen = snap.gen /\ snap'.elapsed = snap.elapsed
  /\ DOMAIN snap'.rows = DOMAIN snap.rows
  /\ \A p \in DOMAIN snap.rows : SameFigures(snap.rows[p], snap'.rows[p])

LEMMA StillSnapshot == UNCHANGED snap => OnlyEnriched
  BY DEF OnlyEnriched, SameFigures

\* vals has a value for each of ids, and for no other metric.
Measures(vals, ids) == \A p \in DOMAIN vals : DOMAIN vals[p] = ids

LEMMA CollectedEnriches ==
  ASSUME SnapshotOK, NEW vals, NEW ids, Measures(vals, ids), ids \cap Rates = {}, Collected(vals)
  PROVE  OnlyEnriched
  <1>1. /\ DOMAIN snap = {"gen", "elapsed", "rows"}
        /\ \A p \in DOMAIN snap.rows : DOMAIN snap.rows[p] = RowFields /\ Rates \subseteq DOMAIN snap.rows[p].metric
    BY DEF SnapshotOK, RowOK, Procs
  <1>. DEFINE row(p) == IF p \in DOMAIN vals THEN SetMetric(snap.rows[p], vals[p]) ELSE snap.rows[p]
  <1>2. snap' = [snap EXCEPT !.rows = [p \in DOMAIN snap.rows |-> row(p)]]
    BY DEF Collected, Procs
  <1>3. \A p \in DOMAIN snap.rows : SameFigures(snap.rows[p], row(p))
    <2>1. TAKE p \in DOMAIN snap.rows
    <2>2. CASE p \notin DOMAIN vals BY <2>2 DEF SameFigures
    <2>3. CASE p \in DOMAIN vals
      <3>. DEFINE r == snap.rows[p]
                  new == Over(vals[p], r.metric)
      <3>1. row(p) = [r EXCEPT !.metric = new] BY <2>3 DEF SetMetric
      <3>2. DOMAIN r = RowFields BY <1>1
      <3>3. \A m \in Rates : m \notin DOMAIN vals[p] BY <2>3 DEF Measures
      <3>4. DOMAIN r.metric \subseteq DOMAIN new /\ \A m \in Rates : new[m] = r.metric[m] BY <1>1, <3>3 DEF Over
      <3>. HIDE DEF r, new
      <3>5. /\ DOMAIN row(p) = DOMAIN r /\ row(p).key = r.key /\ row(p).start = r.start
            /\ row(p).whole = r.whole /\ row(p).threads = r.threads /\ row(p).metric = new
        BY <3>1, <3>2 DEF RowFields
      <3>. QED BY <3>4, <3>5 DEF SameFigures, r
    <2>. QED BY <2>2, <2>3
  <1>. HIDE DEF row
  <1>4. /\ DOMAIN snap' = DOMAIN snap /\ snap'.gen = snap.gen /\ snap'.elapsed = snap.elapsed
        /\ snap'.rows = [p \in DOMAIN snap.rows |-> row(p)]
    BY <1>1, <1>2
  <1>. QED BY <1>3, <1>4 DEF OnlyEnriched

LEMMA AllMeasures ==
  ASSUME NEW S, NEW ids, NEW v(_)
  PROVE  Measures([p \in S |-> All(ids, v(p))], ids)
  BY DEF Measures, All

LEMMA OwnMetrics ==
  /\ {"runq-delay"} \cap Rates = {} /\ {"wakeups"} \cap Rates = {}
  /\ PerfMetrics \cap Rates = {} /\ GpuMetrics \cap Rates = {}
  /\ FdMetrics \cap Rates = {} /\ SockMetrics \cap Rates = {}
  BY WindowsAssumption DEF Rates, PerfMetrics, GpuMetrics, FdMetrics, SockMetrics

\* What a step puts into the rows.
LEMMA SchedstatMeasures ==
  ASSUME SchedstatFirst \/ SchedstatSecond
  PROVE  UNCHANGED snap \/ \E v : Measures(v, {"runq-delay"}) /\ Collected(v)
  <1>1. CASE SchedstatFirst
    <2>. DEFINE v == [p \in Procs |-> All({"runq-delay"}, ReadRunDelay(p))]
    <2>1. Measures(v, {"runq-delay"}) BY DEF Measures, All
    <2>2. UNCHANGED snap \/ Collected(v) BY <1>1 DEF SchedstatFirst
    <2>. QED BY <2>1, <2>2
  <1>2. CASE SchedstatSecond
    <2>. DEFINE v == [p \in Procs |-> All({"runq-delay"},
                        IF Present(window.first[p]) THEN WindowRate(window.first[p], ReadRunDelay(p), "schedstat")
                                                    ELSE window.first[p])]
    <2>1. Measures(v, {"runq-delay"}) BY DEF Measures, All
    <2>2. Collected(v) BY <1>2 DEF SchedstatSecond
    <2>. QED BY <2>1, <2>2
  <1>. QED BY <1>1, <1>2

LEMMA SchedstatEnriches ==
  ASSUME SnapshotOK, SchedstatFirst \/ SchedstatSecond
  PROVE  OnlyEnriched
  BY SchedstatMeasures, StillSnapshot, CollectedEnriches, OwnMetrics

LEMMA WakeupsMeasure ==
  ASSUME EbpfFirst \/ EbpfSecond \/ SchedFirst \/ SchedSecond
  PROVE  UNCHANGED snap \/ \E v : Measures(v, {"wakeups"}) /\ Collected(v)
  <1>1. CASE EbpfFirst
    <2>1. PICK b : UNCHANGED snap \/ Collected([p \in Procs |-> All({"wakeups"}, Unavailable(b, "ebpf"))])
      BY <1>1 DEF EbpfFirst
    <2>. DEFINE v == [p \in Procs |-> All({"wakeups"}, Unavailable(b, "ebpf"))]
    <2>2. Measures(v, {"wakeups"}) BY DEF Measures, All
    <2>. QED BY <2>1, <2>2
  <1>2. CASE EbpfSecond
    <2>. DEFINE v == [p \in Procs |-> All({"wakeups"}, WindowRate(window.first[p], Value(Wakeups(p), 0, "ebpf"), "ebpf"))]
    <2>1. Measures(v, {"wakeups"}) BY DEF Measures, All
    <2>2. Collected(v) BY <1>2 DEF EbpfSecond
    <2>. QED BY <2>1, <2>2
  <1>3. CASE SchedFirst
    <2>. DEFINE first == [p \in Pending |-> ReadWakeups(p)]
                v     == [p \in Pending |-> All({"wakeups"}, first[p])]
    <2>1. Measures(v, {"wakeups"}) BY DEF Measures, All
    <2>2. UNCHANGED snap \/ Collected(v) BY <1>3 DEF SchedFirst
    <2>. QED BY <2>1, <2>2
  <1>4. CASE SchedSecond
    <2>. DEFINE v == [p \in DOMAIN window.first |-> All({"wakeups"},
                        IF Present(window.first[p]) THEN WindowRate(window.first[p], ReadWakeups(p), "sched")
                                                    ELSE window.first[p])]
    <2>1. Measures(v, {"wakeups"}) BY DEF Measures, All
    <2>2. Collected(v) BY <1>4 DEF SchedSecond
    <2>. QED BY <2>1, <2>2
  <1>. QED BY <1>1, <1>2, <1>3, <1>4

LEMMA WakeupsEnrich ==
  ASSUME SnapshotOK, EbpfFirst \/ EbpfSecond \/ SchedFirst \/ SchedSecond
  PROVE  OnlyEnriched
  BY WakeupsMeasure, StillSnapshot, CollectedEnriches, OwnMetrics

LEMMA RefusedMeasures == \A errs : Measures(Refused(errs), GpuMetrics)
  BY DEF Measures, Refused, All

LEMMA GpuMeasures ==
  ASSUME GpuSecond
  PROVE  \E v : Measures(v, GpuMetrics) /\ Collected(v)
  <1>1. PICK errs, timed : Collected(Over(Refused(errs), [p \in timed |-> ApplyWindow(p)]))
    BY DEF GpuSecond, Only
  <1>. DEFINE a == Refused(errs)
              b == [p \in timed |-> ApplyWindow(p)]
  <1>2. Measures(a, GpuMetrics) BY RefusedMeasures
  <1>3. Measures(b, GpuMetrics)
    <2>1. \A p : DOMAIN ApplyWindow(p) = GpuMetrics BY DEF ApplyWindow, All
    <2>. QED BY <2>1 DEF Measures
  <1>. HIDE DEF a, b
  <1>4. Measures(Over(a, b), GpuMetrics) BY <1>2, <1>3 DEF Measures, Over
  <1>. QED BY <1>1, <1>4 DEF a, b

LEMMA GpuEnriches ==
  ASSUME SnapshotOK, GpuFirst \/ GpuSecond
  PROVE  OnlyEnriched
  <1>1. CASE UNCHANGED snap BY <1>1, StillSnapshot
  <1>2. CASE \E v : Measures(v, GpuMetrics) /\ Collected(v)
    BY <1>2, CollectedEnriches, OwnMetrics
  <1>3. UNCHANGED snap \/ \E v : Measures(v, GpuMetrics) /\ Collected(v)
    <2>1. CASE GpuFirst
      <3>1. UNCHANGED snap \/ \E errs : Collected(Refused(errs))
        BY <2>1 DEF GpuFirst, Only
      <3>. QED BY <3>1, RefusedMeasures
    <2>2. CASE GpuSecond BY <2>2, GpuMeasures
    <2>. QED BY <2>1, <2>2
  <1>. QED BY <1>1, <1>2, <1>3

LEMMA PerfMeasures ==
  ASSUME PerfOpen \/ PerfRead
  PROVE  \E v : Measures(v, PerfMetrics) /\ Collected(v)
  <1>1. CASE PerfOpen
    <2>1. PICK refused : Collected([p \in refused |-> All(PerfMetrics, Unavailable(
                           IF Holder(p) \in denied THEN "permission_denied" ELSE "unsupported", "perf"))])
      BY <1>1 DEF PerfOpen
    <2>. DEFINE v == [p \in refused |-> All(PerfMetrics, Unavailable(
                        IF Holder(p) \in denied THEN "permission_denied" ELSE "unsupported", "perf"))]
    <2>2. Measures(v, PerfMetrics) BY DEF Measures, All
    <2>. QED BY <2>1, <2>2
  <1>2. CASE PerfRead
    <2>. DEFINE gs == DOMAIN perf.groups
                grown(p) == work[perf.groups[p]] - window.work[perf.groups[p]]
    <2>1. PICK bad : Collected([p \in gs |-> All(PerfMetrics,
                       IF p \in bad THEN Unavailable("unsupported", "perf") ELSE Value(grown(p), 1, "perf"))])
      BY <1>2 DEF PerfRead
    <2>. DEFINE v == [p \in gs |-> All(PerfMetrics,
                       IF p \in bad THEN Unavailable("unsupported", "perf") ELSE Value(grown(p), 1, "perf"))]
    <2>2. Measures(v, PerfMetrics) BY DEF Measures, All
    <2>. QED BY <2>1, <2>2
  <1>. QED BY <1>1, <1>2

LEMMA PerfEnriches ==
  ASSUME SnapshotOK, PerfBegins \/ PerfOpen \/ PerfRead \/ PerfEnds
  PROVE  OnlyEnriched
  <1>1. CASE UNCHANGED snap BY <1>1, StillSnapshot
  <1>2. CASE \E v : Measures(v, PerfMetrics) /\ Collected(v)
    BY <1>2, CollectedEnriches, OwnMetrics
  <1>3. UNCHANGED snap \/ \E v : Measures(v, PerfMetrics) /\ Collected(v)
    BY PerfMeasures DEF PerfBegins, PerfEnds
  <1>. QED BY <1>1, <1>2, <1>3

LEMMA ScansMeasure ==
  ASSUME ScanStep
  PROVE  UNCHANGED snap \/ \E ids \in {FdMetrics, SockMetrics} : \E v : Measures(v, ids) /\ Collected(v)
  <1>1. ASSUME NEW p, CollectOne(p)
        PROVE  \E ids \in {FdMetrics, SockMetrics} : \E v : Measures(v, ids) /\ Collected(v)
    <2>. DEFINE seen == IF Holder(p) = Free THEN {} ELSE fds[Holder(p)]
                v    == [q \in {p} |-> IF Running("fd") THEN FdCollectOne(p, seen) ELSE SocketCollectOne(p, seen)]
                ids  == IF Running("fd") THEN FdMetrics ELSE SockMetrics
    <2>1. \A s : DOMAIN FdCollectOne(p, s) = FdMetrics /\ DOMAIN SocketCollectOne(p, s) = SockMetrics
      BY DEF FdCollectOne, SocketCollectOne, All
    <2>2. Measures(v, ids) BY <2>1 DEF Measures
    <2>3. Collected(v) BY <1>1 DEF CollectOne
    <2>4. ids \in {FdMetrics, SockMetrics} OBVIOUS
    <2>. HIDE DEF v, ids
    <2>. QED BY <2>2, <2>3, <2>4
  <1>2. UNCHANGED snap \/ \E p : CollectOne(p)
    BY DEF ScanStep, ReadNetTables, Launch, CollectReturns, Acquire, Receive
  <1>. QED BY <1>1, <1>2

LEMMA ScanEnriches ==
  ASSUME SnapshotOK, ScanStep
  PROVE  OnlyEnriched
  BY ScansMeasure, StillSnapshot, CollectedEnriches, OwnMetrics

(***************************************************************************)
(* A listing.                                                              *)
(***************************************************************************)
LEMMA KeyHas == \A st : Key(st) = <<st.ns, st.pid, st.start>> /\ Key(st)[2] = st.pid /\ Key(st)[3] = st.start
  BY DEF Key

LEMMA ListBeginsOK ==
  ASSUME KernelOK, HistoryOK, NEW q, ListBegins(q)
  PROVE  HistoryOK' /\ ListingOK'
  <1>1. /\ reading' = [on |-> TRUE, stats |-> {Stat(p) : p \in {p \in Pids : Holder(p) # Free}}]
        /\ low' = Now /\ UNCHANGED <<home, alive, work, threads, last, floor>>
    BY DEF ListBegins, Now, kernel
  <1>2. Now' = Now /\ Now \in Counters BY <1>1 DEF Now, KernelOK
  <1>3. low \in Counters /\ last \in Counters /\ floor \in Counters
        /\ NoLater(floor, last) /\ NoLater(last, low) /\ NoLater(low, Now)
    BY DEF HistoryOK
  <1>4. NoLater(last, Now) /\ NoLater(Now, Now) BY <1>2, <1>3, NoLaterChain, NoLaterSame
  <1>5. HistoryOK' BY <1>1, <1>2, <1>3, <1>4 DEF HistoryOK
  <1>6. ASSUME NEW st \in reading'.stats
        PROVE  /\ st.start \in 1..Len(home) /\ home[st.start] = st.pid /\ st.cpu = low'.work[st.start]
               /\ st = Stat(st.pid)
    <2>1. PICK p \in Pids : Holder(p) # Free /\ st = Stat(p) BY <1>1, <1>6
    <2>2. Holder(p) \in alive /\ home[Holder(p)] = p BY <2>1, HolderIs
    <2>3. st.pid = p /\ st.start = Holder(p) /\ st.cpu = work[Holder(p)] BY <2>1 DEF Stat
    <2>. QED BY <1>1, <2>1, <2>2, <2>3 DEF KernelOK, Now
  <1>7. ListingOK' BY <1>1, <1>6 DEF ListingOK
  <1>. QED BY <1>5, <1>7

\* While another thing happens: the listing goes on, fails, or there is none.
LEMMA ListingKept ==
  ASSUME KernelOK, KernelMoves, ListingOK, reading' \in {reading, Idle}, low' = low
  PROVE  ListingOK'
  <1>1. CASE reading' = Idle BY <1>1 DEF ListingOK, Idle
  <1>2. CASE reading' = reading
    <2>2. \A s \in 1..Len(home) : s \in 1..Len(home') /\ home'[s] = home[s]
      BY StartsAreLive DEF KernelMoves
    <2>. QED BY <1>2, <2>2 DEF ListingOK
  <1>. QED BY <1>1, <1>2

LEMMA HistoryKept ==
  ASSUME KernelOK, KernelOK', KernelMoves, HistoryOK, UNCHANGED <<low, last, floor>>
  PROVE  HistoryOK'
  <1>1. Now \in Counters /\ Now' \in Counters /\ low \in Counters /\ NoLater(low, Now) /\ NoLater(Now, Now')
    BY DEF KernelOK, KernelMoves, HistoryOK
  <1>2. NoLater(low, Now') BY <1>1, NoLaterChain
  <1>. QED BY <1>1, <1>2 DEF HistoryOK

\* What the listing reads of the processes it has the stat files of.
Stats(q) == {ReadProcess(st, q) : st \in reading.stats}
Secs == IF prevAt = Never THEN 0 ELSE clock - prevAt

LEMMA ReadIs ==
  ASSUME KernelOK, ListingOK, reading.on, NEW q, NEW st \in Stats(q)
  PROVE  /\ st.start \in 1..Len(home) /\ st.start \in Starts /\ home[st.start] = st.pid
         /\ st.cpu = low.work[st.start]
         /\ st.start \in alive => st.whole
         /\ st.whole => /\ st.start \in alive /\ st.ctxsw = work[st.start]
                        /\ Present(st.disk) => st.disk.val = work[st.start]
         /\ \A t \in st.threads :
              /\ t.tid[1] \in alive /\ t.tid[2] = Len(threads[t.tid[1]])
              /\ t.cpu = threads[t.tid[1]][t.tid[2]]
         /\ q.hostname => st.hostname = HostnameFor(Key(st), Holder(st.pid))
         /\ \A u \in Stats(q) : u.pid = st.pid => u = st
  <1>1. PICK s \in reading.stats : st = ReadProcess(s, q) BY DEF Stats
  <1>. DEFINE h == Holder(s.pid)
  <1>2. /\ st.pid = s.pid /\ st.start = s.start /\ st.cpu = s.cpu /\ st.ctxsw = FillStatus(h)
        /\ st.disk = FillIO(h) /\ st.threads = IF q.threads THEN ReadThreads(h) ELSE {}
        /\ st.whole = (h = s.start) /\ Key(st) = <<st.ns, st.pid, st.start>>
        /\ q.hostname => st.hostname = HostnameFor(Key(st), h)
    BY <1>1 DEF ReadProcess, Key
  <1>3. s.start \in 1..Len(home) /\ home[s.start] = s.pid /\ s.cpu = low.work[s.start]
    BY DEF ListingOK
  <1>4. s.start \in Starts BY <1>3, StartsAreLive
  <1>5. h = Free \/ (h \in alive /\ home[h] = s.pid) BY HolderIs
  <1>6. s.start \in alive => h = s.start BY <1>3, HolderIs
  <1>7. h = s.start => h # Free BY <1>4 DEF Free, Starts
  <1>8. h # Free => FillStatus(h) = work[h] /\ (Present(FillIO(h)) => FillIO(h).val = work[h])
    BY DEF FillStatus, FillIO, Present, Unavailable, Value
  <1>9. \A t \in ReadThreads(h) : h \in alive /\ t.tid[1] = h /\ t.tid[2] = Len(threads[h])
                                  /\ t.cpu = threads[h][Len(threads[h])]
    BY <1>5 DEF ReadThreads
  <1>10. \A u \in Stats(q) : u.pid = st.pid => u = st
    <2>1. TAKE u \in Stats(q)
    <2>2. PICK v \in reading.stats : u = ReadProcess(v, q) BY DEF Stats
    <2>3. u.pid = v.pid BY <2>2 DEF ReadProcess
    <2>. QED BY <1>1, <1>2, <2>2, <2>3 DEF ListingOK
  <1>. HIDE DEF h
  <1>11. Holder(st.pid) = h BY <1>2 DEF h
  <1>12. /\ st.start \in 1..Len(home) /\ st.start \in Starts /\ home[st.start] = st.pid
         /\ st.cpu = low.work[st.start]
    BY <1>2, <1>3, <1>4
  <1>13. st.start \in alive => st.whole BY <1>2, <1>6
  <1>14. st.whole => /\ st.start \in alive /\ st.ctxsw = work[st.start]
                     /\ Present(st.disk) => st.disk.val = work[st.start]
    <2>1. SUFFICES ASSUME st.whole
                   PROVE  /\ st.start \in alive /\ st.ctxsw = work[st.start]
                          /\ Present(st.disk) => st.disk.val = work[st.start]
      OBVIOUS
    <2>2. h = st.start /\ h # Free BY <1>2, <1>7, <2>1
    <2>. QED BY <1>2, <1>5, <1>8, <2>2
  <1>15. \A t \in st.threads :
           /\ t.tid[1] \in alive /\ t.tid[2] = Len(threads[t.tid[1]])
           /\ t.cpu = threads[t.tid[1]][t.tid[2]]
    <2>1. ASSUME NEW t \in st.threads PROVE t \in ReadThreads(h) BY <1>2, <2>1
    <2>. QED BY <1>9, <2>1
  <1>16. q.hostname => st.hostname = HostnameFor(Key(st), Holder(st.pid)) BY <1>2, <1>11
  <1>. QED BY <1>10, <1>12, <1>13, <1>14, <1>15, <1>16

LEMMA HostnamesAre ==
  ASSUME NEW stats
  PROVE  /\ DOMAIN Hostnames(stats) = {Key(st) : st \in stats}
         /\ \A k \in DOMAIN Hostnames(stats) : \E st \in stats : Key(st) = k /\ Hostnames(stats)[k] = st.hostname
  BY DEF Hostnames

\* What the end of a listing leaves.
LEMMA SampleIs ==
  ASSUME KernelOK, ListingOK, NEW q, SampleDone(q)
  PROVE  /\ reading.on /\ reading' = Idle
         /\ UNCHANGED kernel /\ UNCHANGED <<cachePrev, low>>
         /\ last' = low /\ floor' = last /\ before' = snap /\ prevAt' = clock
         /\ DOMAIN snap' = {"gen", "elapsed", "rows"} /\ snap'.gen = snap.gen + 1 /\ snap'.elapsed = Secs
         /\ DOMAIN snap'.rows = {st.pid : st \in Stats(q)}
         /\ \A st \in Stats(q) : snap'.rows[st.pid] = Row(st, Secs)
         /\ DOMAIN prev' = {Key(st) : st \in Stats(q)}
         /\ \A k \in DOMAIN prev' : prev'[k] \in Stats(q) /\ Key(prev'[k]) = k
         /\ \A k \in DOMAIN prevThreads' : \E st \in Stats(q) : \E t \in st.threads :
              k = ThreadKey(st, t) /\ prevThreads'[k] = t.cpu
         /\ q.hostname => /\ DOMAIN cache' = {Key(st) : st \in Stats(q)}
                          /\ \A k \in DOMAIN cache' : \E st \in Stats(q) : Key(st) = k /\ cache'[k] = st.hostname
         /\ ~q.hostname => cache' = cache
  <1>. DEFINE of(p) == CHOOSE st \in Stats(q) : st.pid = p
              seen  == UNION {{[key |-> ThreadKey(st, t), cpu |-> t.cpu] : t \in st.threads} : st \in Stats(q)}
  <1>1. /\ reading.on /\ reading' = Idle /\ UNCHANGED kernel /\ UNCHANGED <<cachePrev, low>>
        /\ last' = low /\ floor' = last /\ before' = snap /\ prevAt' = clock
        /\ snap' = [gen |-> snap.gen + 1, elapsed |-> Secs,
                    rows |-> [p \in {st.pid : st \in Stats(q)} |-> Row(of(p), Secs)]]
        /\ prev' = [k \in {Key(st) : st \in Stats(q)} |-> CHOOSE st \in Stats(q) : Key(st) = k]
        /\ prevThreads' = [k \in {t.key : t \in seen} |-> (CHOOSE t \in seen : t.key = k).cpu]
        /\ cache' = IF q.hostname THEN Hostnames(Stats(q)) ELSE cache
    BY DEF SampleDone, Stats, Secs
  <1>2. \A st \in Stats(q) : of(st.pid) = st
    <2>1. TAKE st \in Stats(q)
    <2>2. \A u \in Stats(q) : u.pid = st.pid => u = st BY <1>1, ReadIs
    <2>. QED BY <2>2
  <1>. HIDE DEF of, seen
  <1>3. \A st \in Stats(q) : snap'.rows[st.pid] = Row(st, Secs) BY <1>1, <1>2
  <1>4. /\ DOMAIN prev' = {Key(st) : st \in Stats(q)}
        /\ \A k \in DOMAIN prev' : prev'[k] \in Stats(q) /\ Key(prev'[k]) = k
    BY <1>1
  <1>5. ASSUME NEW k \in DOMAIN prevThreads'
        PROVE  \E st \in Stats(q) : \E t \in st.threads : k = ThreadKey(st, t) /\ prevThreads'[k] = t.cpu
    <2>1. k \in {t.key : t \in seen} /\ prevThreads'[k] = (CHOOSE t \in seen : t.key = k).cpu BY <1>1, <1>5
    <2>2. PICK e \in seen : e.key = k /\ prevThreads'[k] = e.cpu BY <2>1
    <2>3. PICK st \in Stats(q) : \E t \in st.threads : e = [key |-> ThreadKey(st, t), cpu |-> t.cpu]
      BY <2>2 DEF seen
    <2>. QED BY <2>2, <2>3
  <1>6. q.hostname => /\ DOMAIN cache' = {Key(st) : st \in Stats(q)}
                      /\ \A k \in DOMAIN cache' : \E st \in Stats(q) : Key(st) = k /\ cache'[k] = st.hostname
    BY <1>1, HostnamesAre
  <1>7. DOMAIN snap' = {"gen", "elapsed", "rows"} /\ snap'.gen = snap.gen + 1 /\ snap'.elapsed = Secs
        /\ DOMAIN snap'.rows = {st.pid : st \in Stats(q)}
    BY <1>1
  <1>. QED BY <1>1, <1>3, <1>4, <1>5, <1>6, <1>7

\* A rate that is shown is the difference to the same process's counter, over a time that passed.
LEMMA RateIs ==
  ASSUME NEW st, NEW m \in Rates, NEW secs, NEW v,
         v = ComputeRate(Counter(m, st), {Counter(m, o) : o \in OldStat(st)}, secs),
         Present(v)
  PROVE  /\ Key(st) \in DOMAIN prev /\ ~(secs <= 0) /\ v.per = secs
         /\ Present(Counter(m, st)) /\ Present(Counter(m, prev[Key(st)]))
         /\ ~(Counter(m, st).val < Counter(m, prev[Key(st)]).val)
         /\ v.val = Counter(m, st).val - Counter(m, prev[Key(st)]).val
  <1>. DEFINE old == {Counter(m, o) : o \in OldStat(st)}
              cur == Counter(m, st)
  <1>1. ~Present(WarmingUp("proc")) BY DEF Present, WarmingUp, Unavailable
  <1>2. Present(cur)
    <2>1. ~Present(cur) => v = Unavailable(cur.avail, "proc") BY DEF ComputeRate
    <2>. QED BY <2>1 DEF Present, Unavailable
  <1>3. old # {} /\ ~(secs <= 0) BY <1>1, <1>2 DEF ComputeRate
  <1>4. Key(st) \in DOMAIN prev /\ OldStat(st) = {prev[Key(st)]} BY <1>3 DEF OldStat
  <1>5. old = {Counter(m, prev[Key(st)])} BY <1>4
  <1>. DEFINE p == CHOOSE p \in old : TRUE
  <1>6. p = Counter(m, prev[Key(st)]) BY <1>5
  <1>7. v = IF ~Present(p) \/ cur.val < p.val THEN WarmingUp("proc") ELSE Value(cur.val - p.val, secs, "proc")
    BY <1>2, <1>3 DEF ComputeRate
  <1>. HIDE DEF p, cur
  <1>8. Present(p) /\ ~(cur.val < p.val) /\ v = Value(cur.val - p.val, secs, "proc") BY <1>1, <1>7
  <1>. QED BY <1>2, <1>3, <1>4, <1>6, <1>8 DEF Value, cur

\* Of a process whose stat was in the last listing too, the CPU rate is shown.
LEMMA CpuRateAppears ==
  ASSUME NEW st, NEW secs, ~(secs <= 0), Key(st) \in DOMAIN prev, ~(st.cpu < prev[Key(st)].cpu)
  PROVE  Present(ComputeRate(Counter("cpu", st), {Counter("cpu", o) : o \in OldStat(st)}, secs))
  <1>. DEFINE old == {Counter("cpu", o) : o \in OldStat(st)}
              cur == Counter("cpu", st)
              was == Counter("cpu", prev[Key(st)])
  <1>1. Present(cur) /\ Present(was) /\ cur.val = st.cpu /\ was.val = prev[Key(st)].cpu
    BY DEF Counter, Present, Value
  <1>2. old = {was} BY DEF OldStat
  <1>. DEFINE p == CHOOSE p \in old : TRUE
  <1>3. p = was BY <1>2
  <1>4. ComputeRate(cur, old, secs) = Value(cur.val - p.val, secs, "proc")
    BY <1>1, <1>2, <1>3 DEF ComputeRate
  <1>. HIDE DEF p, cur, old
  <1>5. Present(ComputeRate(cur, old, secs)) BY <1>4 DEF Present, Value
  <1>. QED BY <1>5 DEF cur, old

LEMMA ThreadRateIs ==
  ASSUME NEW st, NEW t, NEW secs, NEW v, v = ThreadMetric(t, OldThread(st, t), secs), Present(v)
  PROVE  /\ ThreadKey(st, t) \in DOMAIN prevThreads /\ ~(secs <= 0) /\ v.per = secs
         /\ ~(t.cpu < prevThreads[ThreadKey(st, t)])
         /\ v.val = t.cpu - prevThreads[ThreadKey(st, t)]
  <1>. DEFINE old == OldThread(st, t)
  <1>1. ~Present(WarmingUp("thread")) BY DEF Present, WarmingUp, Unavailable
  <1>2. old # {} /\ ~(secs <= 0) BY <1>1 DEF ThreadMetric
  <1>3. ThreadKey(st, t) \in DOMAIN prevThreads /\ old = {prevThreads[ThreadKey(st, t)]} BY <1>2 DEF OldThread
  <1>. DEFINE p == CHOOSE p \in old : TRUE
  <1>4. p = prevThreads[ThreadKey(st, t)] BY <1>3
  <1>5. v = IF t.cpu < p THEN WarmingUp("thread") ELSE Value(t.cpu - p, secs, "thread")
    BY <1>2 DEF ThreadMetric
  <1>. HIDE DEF p
  <1>6. ~(t.cpu < p) /\ v = Value(t.cpu - p, secs, "thread") BY <1>1, <1>5
  <1>. QED BY <1>2, <1>3, <1>4, <1>6 DEF Value

LEMMA RowHas ==
  ASSUME NEW st, NEW secs
  PROVE  LET r == Row(st, secs) IN
         /\ DOMAIN r = RowFields /\ DOMAIN r.metric = Rates
         /\ r.key = Key(st) /\ r.start = st.start /\ r.whole = st.whole
         /\ \A m \in Rates : r.metric[m] = ComputeRate(Counter(m, st), {Counter(m, o) : o \in OldStat(st)}, secs)
         /\ \A t \in st.threads : [tid |-> t.tid, cpu |-> ThreadMetric(t, OldThread(st, t), secs)] \in r.threads
         /\ \A u \in r.threads : \E t \in st.threads :
              u = [tid |-> t.tid, cpu |-> ThreadMetric(t, OldThread(st, t), secs)]
  BY DEF Row, RowFields

LEMMA NewKeys ==
  ASSUME KernelOK, ListingOK, NEW q, SampleDone(q)
  PROVE  Keys(snap'.rows) = {Key(st) : st \in Stats(q)}
  <1>1. /\ DOMAIN snap'.rows = {st.pid : st \in Stats(q)}
        /\ \A st \in Stats(q) : snap'.rows[st.pid] = Row(st, Secs)
    BY SampleIs
  <1>2. \A st \in Stats(q) : snap'.rows[st.pid].key = Key(st) BY <1>1, RowHas
  <1>. QED BY <1>1, <1>2 DEF Keys

LEMMA ElementIsNumber ==
  ASSUME NEW f \in Seq(Nat), NEW i \in 1..Len(f) PROVE f[i] \in Nat
  OBVIOUS

LEMMA ThreadSince ==
  ASSUME HistoryOK, KernelOK, NEW s \in Starts, NEW i \in Nat, i <= Len(threads[s]), i >= 1
  PROVE  ThreadCounter(low, s, i) <= threads[s][i] /\ threads[s][i] \in Nat /\ ThreadCounter(low, s, i) \in Nat
         /\ ThreadCounter(last, s, i) <= ThreadCounter(low, s, i) /\ ThreadCounter(last, s, i) \in Nat
  <1>1. low \in Counters /\ last \in Counters /\ NoLater(last, low) /\ NoLater(low, Now) BY DEF HistoryOK
  <1>2. threads[s] \in Seq(Nat) /\ Len(threads[s]) \in Nat BY CountersNow DEF KernelOK
  <1>3. low.threads[s] \in Seq(Nat) /\ last.threads[s] \in Seq(Nat)
        /\ Len(low.threads[s]) \in Nat /\ Len(last.threads[s]) \in Nat
    BY <1>1 DEF Counters
  <1>4. threads[s][i] \in Nat BY <1>2
  <1>5. i <= Len(low.threads[s]) => low.threads[s][i] \in Nat /\ low.threads[s][i] <= threads[s][i]
    BY <1>1, <1>3 DEF NoLater, Now
  <1>6. i <= Len(last.threads[s]) => /\ last.threads[s][i] \in Nat /\ last.threads[s][i] <= low.threads[s][i]
                                     /\ i <= Len(low.threads[s])
    <2>1. /\ Len(last.threads[s]) <= Len(low.threads[s])
          /\ \A j \in 1..Len(last.threads[s]) : last.threads[s][j] <= low.threads[s][j]
      BY <1>1 DEF NoLater
    <2>2. ASSUME i <= Len(last.threads[s])
          PROVE  i \in 1..Len(last.threads[s]) /\ i <= Len(low.threads[s])
      BY <1>3, <2>1, <2>2, NoMoreChain
    <2>3. \A j \in 1..Len(last.threads[s]) : last.threads[s][j] \in Nat BY <1>3, ElementIsNumber
    <2>. QED BY <2>1, <2>2, <2>3
  <1>. QED BY <1>3, <1>4, <1>5, <1>6 DEF ThreadCounter

LEMMA PreviousSampled ==
  ASSUME KernelOK, HistoryOK, ListingOK, NEW q, SampleDone(q)
  PROVE  PreviousOK'
  <1>1. reading.on /\ UNCHANGED <<home, alive, work, threads>> /\ last' = low
        /\ DOMAIN prev' = {Key(st) : st \in Stats(q)}
        /\ \A k \in DOMAIN prev' : prev'[k] \in Stats(q) /\ Key(prev'[k]) = k
    BY SampleIs DEF kernel
  <1>2. DOMAIN prev' = Keys(snap'.rows) BY <1>1, NewKeys
  <1>5. /\ DOMAIN snap'.rows = {st.pid : st \in Stats(q)}
        /\ \A st \in Stats(q) : snap'.rows[st.pid] = Row(st, Secs)
    BY SampleIs
  <1>6. \A k \in DOMAIN prevThreads' : \E st \in Stats(q) : \E t \in st.threads :
          k = ThreadKey(st, t) /\ prevThreads'[k] = t.cpu
    BY SampleIs
  <1>3. ASSUME NEW k \in DOMAIN prev'
        PROVE  /\ prev'[k].start = k[3] /\ k[3] \in 1..Len(home)
               /\ k[3] \in alive => prev'[k].whole
               /\ ReadSince(prev'[k], low)
    <2>. DEFINE o == prev'[k]
    <2>1. o \in Stats(q) /\ Key(o) = k BY <1>1, <1>3
    <2>. HIDE DEF o
    <2>2. k[3] = o.start BY <2>1, KeyHas
    <2>3. /\ o.start \in 1..Len(home) /\ o.start \in Starts /\ o.cpu = low.work[o.start]
          /\ o.start \in alive => o.whole
          /\ o.whole => o.ctxsw = work[o.start] /\ (Present(o.disk) => o.disk.val = work[o.start])
      BY <1>1, <2>1, ReadIs
    <2>4. work[o.start] \in Nat /\ low.work[o.start] <= work[o.start]
      BY <2>3, CountersNow DEF KernelOK, HistoryOK, NoLater, Now
    <2>5. ReadSince(o, low) BY <2>3, <2>4 DEF ReadSince
    <2>. QED BY <2>2, <2>3, <2>5 DEF o
  <1>4. ASSUME NEW k \in DOMAIN prevThreads'
        PROVE  /\ k[2][1] \in Starts /\ k[2][2] \in Nat \ {0} /\ k[2][2] <= Len(threads[k[2][1]])
               /\ prevThreads'[k] \in Nat /\ ThreadCounter(low, k[2][1], k[2][2]) <= prevThreads'[k]
               /\ \E p \in DOMAIN snap'.rows : snap'.rows[p].key = k[1] /\ \E u \in snap'.rows[p].threads : u.tid = k[2]
    <2>1. PICK st \in Stats(q) : \E t \in st.threads : k = ThreadKey(st, t) /\ prevThreads'[k] = t.cpu
      BY <1>4, <1>6
    <2>2. PICK t \in st.threads : k = ThreadKey(st, t) /\ prevThreads'[k] = t.cpu BY <2>1
    <2>3. k[1] = Key(st) /\ k[2] = t.tid BY <2>2 DEF ThreadKey
    <2>4. t.tid[1] \in alive /\ t.tid[2] = Len(threads[t.tid[1]]) /\ t.cpu = threads[t.tid[1]][t.tid[2]]
      BY <1>1, <2>1, <2>2, ReadIs
    <2>5. t.tid[1] \in Starts /\ Len(threads[t.tid[1]]) \in Nat /\ Len(threads[t.tid[1]]) >= 1
      BY <2>4, StartsAreLive, CountersNow DEF KernelOK
    <2>6. /\ ThreadCounter(low, t.tid[1], t.tid[2]) <= threads[t.tid[1]][t.tid[2]]
          /\ threads[t.tid[1]][t.tid[2]] \in Nat
      BY <2>4, <2>5, ThreadSince
    <2>7. st.pid \in DOMAIN snap'.rows /\ snap'.rows[st.pid] = Row(st, Secs) BY <2>1, <1>5
    <2>8. Row(st, Secs).key = k[1] /\ \E u \in Row(st, Secs).threads : u.tid = k[2]
      BY <2>2, <2>3, RowHas
    <2>. QED BY <2>2, <2>3, <2>4, <2>5, <2>6, <2>7, <2>8
  <1>. QED BY <1>1, <1>2, <1>3, <1>4 DEF PreviousOK, Procs, Known

\* The counters the two listings read, and how far apart.
LEMMA RatesSampled ==
  ASSUME KernelOK, HistoryOK, ListingOK, PreviousOK, prevAt \in Nat \cup {Never}, reading.on,
         NEW q, NEW st \in Stats(q), NEW m \in Rates, m = "cpu" \/ st.whole,
         Present(Row(st, Secs).metric[m])
  PROVE  LET v == Row(st, Secs).metric[m] IN
         /\ v.per \in Nat /\ v.per > 0 /\ v.val \in Nat /\ v.val <= work[st.start] - last.work[st.start]
         /\ Key(st) \in DOMAIN prev
  <1>. DEFINE v == Row(st, Secs).metric[m]
              o == prev[Key(st)]
              s == st.start
  <1>1. v = ComputeRate(Counter(m, st), {Counter(m, x) : x \in OldStat(st)}, Secs) BY RowHas
  <1>2. /\ Key(st) \in DOMAIN prev /\ ~(Secs <= 0) /\ v.per = Secs
        /\ Present(Counter(m, st)) /\ Present(Counter(m, o))
        /\ ~(Counter(m, st).val < Counter(m, o).val)
        /\ v.val = Counter(m, st).val - Counter(m, o).val
    BY <1>1, RateIs
  <1>3. Secs \in Int BY DEF Secs, KernelOK, Never
  <1>4. /\ s \in Starts /\ st.cpu = low.work[s]
        /\ st.whole => s \in alive /\ st.ctxsw = work[s] /\ (Present(st.disk) => st.disk.val = work[s])
    BY ReadIs
  <1>5. o.start = s /\ (s \in alive => o.whole) /\ ReadSince(o, last)
    BY <1>2, KeyHas DEF PreviousOK
  <1>6. /\ work[s] \in Nat /\ low.work[s] \in Nat /\ last.work[s] \in Nat
        /\ last.work[s] <= low.work[s] /\ low.work[s] <= work[s]
    BY <1>4, CountersNow DEF KernelOK, HistoryOK, NoLater, Now, Counters
  <1>7. /\ Counter(m, st).val \in Nat /\ Counter(m, o).val \in Nat
        /\ Counter(m, st).val <= work[s] /\ last.work[s] <= Counter(m, o).val
    <2>1. CASE m = "cpu"
      <3>1. Counter(m, st).val = st.cpu /\ Counter(m, o).val = o.cpu BY <2>1 DEF Counter, Value
      <3>. QED BY <3>1, <1>4, <1>5, <1>6 DEF ReadSince
    <2>2. CASE m = "ctxsw"
      <3>1. Counter(m, st).val = st.ctxsw /\ Counter(m, o).val = o.ctxsw BY <2>2 DEF Counter, Value
      <3>2. st.whole BY <2>2
      <3>. QED BY <3>1, <3>2, <1>4, <1>5, <1>6 DEF ReadSince
    <2>3. CASE m = "disk"
      <3>1. Counter(m, st) = st.disk /\ Counter(m, o) = o.disk BY <2>3 DEF Counter
      <3>2. st.whole BY <2>3
      <3>. QED BY <3>1, <3>2, <1>2, <1>4, <1>5, <1>6 DEF ReadSince
    <2>. QED BY <2>1, <2>2, <2>3 DEF Rates
  <1>. HIDE DEF v, o, s
  <1>8. v.per \in Nat /\ v.per > 0 /\ v.val \in Nat /\ v.val <= work[s] - last.work[s]
    BY <1>2, <1>3, <1>6, <1>7
  <1>. QED BY <1>2, <1>8 DEF v, s

LEMMA ThreadRatesSampled ==
  ASSUME KernelOK, HistoryOK, ListingOK, PreviousOK, prevAt \in Nat \cup {Never}, reading.on,
         NEW q, NEW st \in Stats(q), NEW t \in st.threads, NEW v,
         v = ThreadMetric(t, OldThread(st, t), Secs), Present(v)
  PROVE  /\ v.per \in Nat /\ v.per > 0 /\ v.val \in Nat
         /\ v.val <= threads[t.tid[1]][t.tid[2]] - ThreadCounter(last, t.tid[1], t.tid[2])
         /\ ThreadKey(st, t) \in DOMAIN prevThreads
  <1>. DEFINE k == ThreadKey(st, t)
              h == t.tid[1]
              i == t.tid[2]
  <1>1. /\ k \in DOMAIN prevThreads /\ ~(Secs <= 0) /\ v.per = Secs
        /\ ~(t.cpu < prevThreads[k]) /\ v.val = t.cpu - prevThreads[k]
    BY ThreadRateIs
  <1>2. Secs \in Int BY DEF Secs, KernelOK, Never
  <1>3. h \in alive /\ i = Len(threads[h]) /\ t.cpu = threads[h][i] BY ReadIs
  <1>4. h \in Starts /\ i \in Nat /\ i >= 1 BY <1>3, StartsAreLive, CountersNow DEF KernelOK
  <1>5. k[2] = t.tid BY DEF ThreadKey
  <1>6. prevThreads[k] \in Nat /\ ThreadCounter(last, h, i) <= prevThreads[k] BY <1>1, <1>5 DEF PreviousOK
  <1>7. threads[h][i] \in Nat /\ ThreadCounter(last, h, i) \in Nat BY <1>3, <1>4, ThreadSince
  <1>. HIDE DEF k, h, i
  <1>8. v.per \in Nat /\ v.per > 0 /\ v.val \in Nat /\ v.val <= threads[h][i] - ThreadCounter(last, h, i)
    BY <1>1, <1>2, <1>3, <1>6, <1>7
  <1>. QED BY <1>1, <1>8 DEF k, h, i

LEMMA SnapshotSampled ==
  ASSUME KernelOK, HistoryOK, ListingOK, PreviousOK, SnapshotOK, prevAt \in Nat \cup {Never},
         NEW q, SampleDone(q)
  PROVE  SnapshotOK'
  <1>1. reading.on /\ Now' = Now /\ floor' = last /\ before' = snap /\ DOMAIN snap' = {"gen", "elapsed", "rows"}
    BY SampleIs DEF kernel, Now
  <1>2. /\ DOMAIN snap'.rows = {st.pid : st \in Stats(q)}
        /\ \A st \in Stats(q) : snap'.rows[st.pid] = Row(st, Secs)
    BY SampleIs
  <1>3. \A p \in DOMAIN snap.rows : snap.rows[p].start = snap.rows[p].key[3] BY DEF SnapshotOK, RowOK, Procs
  <1>4. \A k \in DOMAIN prev : \E p \in DOMAIN snap.rows : snap.rows[p].start = k[3]
    BY <1>3 DEF PreviousOK, Keys
  <1>5. \A k \in DOMAIN prevThreads :
          /\ \E p \in DOMAIN snap.rows : snap.rows[p].start = k[1][3]
          /\ \E p \in DOMAIN snap.rows : \E u \in snap.rows[p].threads : u.tid = k[2]
    BY <1>3 DEF PreviousOK, Procs
  <1>6. SUFFICES ASSUME NEW st \in Stats(q) PROVE RowOK(Row(st, Secs), Now, last, snap.rows)
    BY <1>1, <1>2 DEF SnapshotOK, Procs
  <1>. DEFINE r == Row(st, Secs)
  <1>7. DOMAIN r = RowFields /\ DOMAIN r.metric = Rates /\ r.key = Key(st) /\ r.start = st.start /\ r.whole = st.whole
    BY RowHas
  <1>8. r.start = r.key[3] /\ r.start \in Starts BY <1>1, <1>7, KeyHas, ReadIs
  <1>9. ASSUME NEW m \in Rates, m = "cpu" \/ r.whole
        PROVE  Owned(r.metric[m], work[r.start] - last.work[r.start], r.start, snap.rows)
    <2>1. CASE ~Present(r.metric[m]) BY <2>1 DEF Owned
    <2>2. CASE Present(r.metric[m])
      <3>1. LET v == r.metric[m] IN
            /\ v.per \in Nat /\ v.per > 0 /\ v.val \in Nat /\ v.val <= work[st.start] - last.work[st.start]
            /\ Key(st) \in DOMAIN prev
        BY <1>1, <1>7, <1>9, <2>2, RatesSampled
      <3>2. \E p \in DOMAIN snap.rows : snap.rows[p].start = r.start BY <3>1, <1>4, <1>7, KeyHas
      <3>. QED BY <3>1, <3>2, <1>7 DEF Owned
    <2>. QED BY <2>1, <2>2
  <1>10. ASSUME NEW u \in r.threads
         PROVE  /\ u.tid[1] \in Starts /\ u.tid[2] \in Nat \ {0} /\ u.tid[2] <= Len(threads[u.tid[1]])
                /\ Owned(u.cpu, threads[u.tid[1]][u.tid[2]] - ThreadCounter(last, u.tid[1], u.tid[2]), r.start, snap.rows)
                /\ Present(u.cpu) => \E p \in DOMAIN snap.rows : \E x \in snap.rows[p].threads : x.tid = u.tid
    <2>1. PICK t \in st.threads : u = [tid |-> t.tid, cpu |-> ThreadMetric(t, OldThread(st, t), Secs)] BY RowHas
    <2>. DEFINE v == ThreadMetric(t, OldThread(st, t), Secs)
    <2>2. u.tid = t.tid /\ u.cpu = v BY <2>1
    <2>3. t.tid[1] \in alive /\ t.tid[2] = Len(threads[t.tid[1]]) BY <1>1, ReadIs
    <2>4. t.tid[1] \in Starts /\ t.tid[2] \in Nat \ {0} /\ t.tid[2] <= Len(threads[t.tid[1]])
      <3>1. t.tid[1] \in Starts BY <2>3, StartsAreLive
      <3>2. Len(threads[t.tid[1]]) \in Nat /\ Len(threads[t.tid[1]]) >= 1 BY <3>1, CountersNow DEF KernelOK
      <3>. QED BY <2>3, <3>1, <3>2
    <2>5. ASSUME Present(v)
          PROVE  /\ v.per \in Nat /\ v.per > 0 /\ v.val \in Nat
                 /\ v.val <= threads[t.tid[1]][t.tid[2]] - ThreadCounter(last, t.tid[1], t.tid[2])
                 /\ \E p \in DOMAIN snap.rows : snap.rows[p].start = r.start
                 /\ \E p \in DOMAIN snap.rows : \E x \in snap.rows[p].threads : x.tid = t.tid
      <3>1. /\ v.per \in Nat /\ v.per > 0 /\ v.val \in Nat
            /\ v.val <= threads[t.tid[1]][t.tid[2]] - ThreadCounter(last, t.tid[1], t.tid[2])
            /\ ThreadKey(st, t) \in DOMAIN prevThreads
        BY <1>1, <2>5, ThreadRatesSampled
      <3>2. ThreadKey(st, t)[1][3] = st.start /\ ThreadKey(st, t)[2] = t.tid BY KeyHas DEF ThreadKey
      <3>. QED BY <3>1, <3>2, <1>5, <1>7
    <2>. HIDE DEF v
    <2>. QED BY <2>2, <2>4, <2>5 DEF Owned
  <1>. HIDE DEF r
  <1>11. Now.work = work /\ Now.threads = threads BY DEF Now
  <1>12. RowOK(r, Now, last, snap.rows) BY <1>7, <1>8, <1>9, <1>10, <1>11 DEF RowOK
  <1>. QED BY <1>12 DEF r

(***************************************************************************)
(* Steps that are not the end of a listing.                                *)
(***************************************************************************)
LEMMA KeysKept == OnlyEnriched => Keys(snap'.rows) = Keys(snap.rows)
  BY DEF OnlyEnriched, SameFigures, Keys

LEMMA StartsStay ==
  ASSUME KernelOK, KernelMoves
  PROVE  /\ \A s \in 1..Len(home) : s \in 1..Len(home') /\ home'[s] = home[s]
         /\ \A s \in 1..Len(home) : s \in alive' => s \in alive
  <1>1. Len(home) \in Nat BY StartsAreLive
  <1>2. Len(home) <= Len(home') BY DEF KernelMoves
  <1>. QED BY <1>1, <1>2 DEF KernelMoves

\* The counters of a thread that was there go on.
LEMMA ThreadGoesOn ==
  ASSUME KernelOK, KernelOK', KernelMoves, NEW s \in Starts, NEW i \in Nat \ {0}, i <= Len(threads[s])
  PROVE  /\ i <= Len(threads'[s]) /\ threads[s][i] <= threads'[s][i]
         /\ threads[s][i] \in Nat /\ threads'[s][i] \in Nat
  <1>1. threads[s] \in Seq(Nat) /\ threads'[s] \in Seq(Nat) BY DEF KernelOK, Counters, Now
  <1>2. Len(threads[s]) \in Nat /\ Len(threads'[s]) \in Nat BY <1>1
  <1>3. Len(threads[s]) <= Len(threads'[s]) /\ \A j \in 1..Len(threads[s]) : threads[s][j] <= threads'[s][j]
    BY DEF KernelMoves, NoLater, Now
  <1>4. i \in 1..Len(threads[s]) /\ i \in 1..Len(threads'[s]) BY <1>2, <1>3
  <1>5. i <= Len(threads'[s]) /\ threads[s][i] <= threads'[s][i] BY <1>2, <1>3, <1>4
  <1>6. threads[s][i] \in Nat /\ threads'[s][i] \in Nat BY <1>1, <1>4, ElementIsNumber
  <1>. QED BY <1>5, <1>6

LEMMA PreviousKept ==
  ASSUME KernelOK, KernelOK', KernelMoves, OnlyEnriched, PreviousOK, UNCHANGED <<prev, prevThreads, last>>
  PROVE  PreviousOK'
  <1>1. DOMAIN prev' = Keys(snap'.rows) BY KeysKept DEF PreviousOK
  <1>2. ASSUME NEW k \in DOMAIN prev
        PROVE  /\ prev[k].start = k[3] /\ k[3] \in 1..Len(home')
               /\ k[3] \in alive' => prev[k].whole
               /\ ReadSince(prev[k], last)
    BY StartsStay DEF PreviousOK, Known
  <1>3. ASSUME NEW k \in DOMAIN prevThreads
        PROVE  /\ k[2][1] \in Starts /\ k[2][2] \in Nat \ {0} /\ k[2][2] <= Len(threads'[k[2][1]])
               /\ prevThreads[k] \in Nat /\ ThreadCounter(last, k[2][1], k[2][2]) <= prevThreads[k]
               /\ \E p \in DOMAIN snap'.rows : snap'.rows[p].key = k[1] /\ \E u \in snap'.rows[p].threads : u.tid = k[2]
    <2>1. /\ k[2][1] \in Starts /\ k[2][2] \in Nat \ {0} /\ k[2][2] <= Len(threads[k[2][1]])
          /\ prevThreads[k] \in Nat /\ ThreadCounter(last, k[2][1], k[2][2]) <= prevThreads[k]
          /\ \E p \in DOMAIN snap.rows : snap.rows[p].key = k[1] /\ \E u \in snap.rows[p].threads : u.tid = k[2]
      BY <1>3 DEF PreviousOK, Procs
    <2>2. k[2][2] <= Len(threads'[k[2][1]]) BY <2>1, ThreadGoesOn
    <2>3. \E p \in DOMAIN snap'.rows : snap'.rows[p].key = k[1] /\ \E u \in snap'.rows[p].threads : u.tid = k[2]
      BY <2>1 DEF OnlyEnriched, SameFigures
    <2>. QED BY <2>1, <2>2, <2>3
  <1>. QED BY <1>1, <1>2, <1>3 DEF PreviousOK, Procs, Known

LEMMA OwnedMore ==
  ASSUME NEW v, NEW g \in Int, NEW h \in Int, g <= h, NEW s, NEW old, Owned(v, g, s, old)
  PROVE  Owned(v, h, s, old)
  BY DEF Owned

LEMMA SnapshotKept ==
  ASSUME KernelOK, KernelOK', KernelMoves, HistoryOK, OnlyEnriched, SnapshotOK, UNCHANGED <<floor, before>>
  PROVE  SnapshotOK'
  <1>1. DOMAIN snap' = {"gen", "elapsed", "rows"} /\ DOMAIN snap'.rows = DOMAIN snap.rows
    BY DEF OnlyEnriched, SnapshotOK
  <1>2. SUFFICES ASSUME NEW p \in DOMAIN snap.rows PROVE RowOK(snap'.rows[p], Now', floor, before.rows)
    BY <1>1 DEF SnapshotOK, Procs
  <1>. DEFINE r == snap.rows[p]
              n == snap'.rows[p]
  <1>3. RowOK(r, Now, floor, before.rows) BY DEF SnapshotOK, Procs
  <1>4. SameFigures(r, n) BY DEF OnlyEnriched
  <1>. HIDE DEF r, n
  <1>5. Now.work = work /\ Now.threads = threads /\ Now'.work = work' /\ Now'.threads = threads' BY DEF Now
  <1>6. DOMAIN n = RowFields /\ n.start = n.key[3] /\ n.start \in Starts /\ n.start = r.start
        /\ Rates \subseteq DOMAIN n.metric
    BY <1>3, <1>4 DEF RowOK, SameFigures
  <1>7. \A s \in Starts : /\ work[s] \in Nat /\ work'[s] \in Nat /\ floor.work[s] \in Nat
                          /\ work[s] <= work'[s]
    BY DEF KernelOK, KernelMoves, NoLater, Now, Counters, HistoryOK
  <1>8. ASSUME NEW m \in Rates, m = "cpu" \/ n.whole
        PROVE  Owned(n.metric[m], work'[n.start] - floor.work[n.start], n.start, before.rows)
    <2>1. Owned(r.metric[m], work[r.start] - floor.work[r.start], r.start, before.rows)
      BY <1>3, <1>4, <1>5, <1>8 DEF RowOK, SameFigures
    <2>2. n.metric[m] = r.metric[m] BY <1>4 DEF SameFigures
    <2>3. work[r.start] - floor.work[r.start] \in Int /\ work'[r.start] - floor.work[r.start] \in Int
          /\ work[r.start] - floor.work[r.start] <= work'[r.start] - floor.work[r.start]
      BY <1>6, <1>7
    <2>. QED BY <1>6, <2>1, <2>2, <2>3, OwnedMore
  <1>9. ASSUME NEW t \in n.threads
        PROVE  /\ t.tid[1] \in Starts /\ t.tid[2] \in Nat \ {0} /\ t.tid[2] <= Len(threads'[t.tid[1]])
               /\ Owned(t.cpu, threads'[t.tid[1]][t.tid[2]] - ThreadCounter(floor, t.tid[1], t.tid[2]), n.start, before.rows)
               /\ Present(t.cpu) => \E q \in DOMAIN before.rows : \E u \in before.rows[q].threads : u.tid = t.tid
    <2>. DEFINE s == t.tid[1]
                i == t.tid[2]
                c == ThreadCounter(floor, s, i)
    <2>1. t \in r.threads BY <1>4 DEF SameFigures
    <2>2. /\ s \in Starts /\ i \in Nat \ {0} /\ i <= Len(threads[s])
          /\ Owned(t.cpu, threads[s][i] - c, r.start, before.rows)
          /\ Present(t.cpu) => \E q \in DOMAIN before.rows : \E u \in before.rows[q].threads : u.tid = t.tid
      BY <1>3, <1>5, <2>1 DEF RowOK
    <2>3. /\ i <= Len(threads'[s]) /\ threads[s][i] <= threads'[s][i]
          /\ threads[s][i] \in Nat /\ threads'[s][i] \in Nat
      BY <2>2, ThreadGoesOn
    <2>4. c \in Nat
      <3>1. floor.threads[s] \in Seq(Nat) BY <2>2 DEF HistoryOK, Counters
      <3>2. CASE i <= Len(floor.threads[s])
        <4>1. i \in 1..Len(floor.threads[s]) BY <2>2, <3>1, <3>2
        <4>2. floor.threads[s][i] \in Nat
          <5>. HIDE DEF s, i
          <5>. QED BY <3>1, <4>1, ElementIsNumber
        <4>. QED BY <3>2, <4>2 DEF ThreadCounter
      <3>3. CASE ~(i <= Len(floor.threads[s])) BY <3>3 DEF ThreadCounter
      <3>. QED BY <3>2, <3>3
    <2>. HIDE DEF s, i, c
    <2>5. threads[s][i] - c \in Int /\ threads'[s][i] - c \in Int /\ threads[s][i] - c <= threads'[s][i] - c
      BY <2>3, <2>4
    <2>6. Owned(t.cpu, threads'[s][i] - c, n.start, before.rows) BY <1>6, <2>2, <2>5, OwnedMore
    <2>. QED BY <2>2, <2>3, <2>6 DEF s, i, c
  <1>10. RowOK(n, Now', floor, before.rows) BY <1>5, <1>6, <1>8, <1>9 DEF RowOK
  <1>. QED BY <1>10 DEF n

(***************************************************************************)
(* The names.                                                              *)
(***************************************************************************)
LEMMA NamesKept ==
  ASSUME KernelOK, KernelMoves, OnlyEnriched, NamesOK, UNCHANGED <<cache, cachePrev, before, query>>,
         reading' \in {reading, Idle}, exit = "interrupted" => exit' = "interrupted"
  PROVE  NamesOK'
  <1>1. reading'.on => reading.on BY DEF Idle
  <1>2. Keys(snap'.rows) = Keys(snap.rows) BY KeysKept
  <1>3. \A k \in DOMAIN cache : k[3] \in 1..Len(home') /\ (k[3] \in alive' => cache[k] \in named'[k[3]])
    BY StartsStay, StartsAreLive DEF NamesOK, Known, KernelMoves
  <1>4. \A k \in DOMAIN cachePrev : k[3] \in 1..Len(home') /\ (k[3] \in alive' => cachePrev[k] \in named'[k[3]])
    BY StartsStay, StartsAreLive DEF NamesOK, Known, KernelMoves
  <1>. QED BY <1>1, <1>2, <1>3, <1>4 DEF NamesOK, Known

LEMMA NamesListing ==
  ASSUME NamesOK, ListBegins(query), UNCHANGED query, exit # "interrupted"
  PROVE  NamesOK'
  <1>1. /\ reading'.on /\ UNCHANGED <<home, alive, named, snap, before>>
        /\ IF query.hostname THEN cachePrev' = cache /\ cache' = Empty ELSE UNCHANGED <<cache, cachePrev>>
    BY DEF ListBegins, kernel
  <1>2. DOMAIN Empty = {} BY DEF Empty
  <1>3. CASE query.hostname
    <2>1. cachePrev' = cache /\ DOMAIN cache' = {} BY <1>1, <1>2, <1>3
    <2>. QED BY <1>1, <1>3, <2>1 DEF NamesOK, Known
  <1>4. CASE ~query.hostname
    <2>1. DOMAIN cache' = {} /\ DOMAIN cachePrev' = {} BY <1>1, <1>4 DEF NamesOK
    <2>. QED BY <1>1, <1>4, <2>1 DEF NamesOK, Known
  <1>. QED BY <1>3, <1>4

\* The name read for a process that is still running is its own.
LEMMA NameIsOwn ==
  ASSUME KernelOK, ListingOK, NamesOK, reading.on, query.hostname, NEW st \in Stats(query), st.start \in alive
  PROVE  st.hostname \in named[st.start]
  <1>. DEFINE h == Holder(st.pid)
              k == Key(st)
  <1>1. st.hostname = HostnameFor(k, h) /\ home[st.start] = st.pid BY ReadIs
  <1>2. h = st.start BY <1>1, HolderIs
  <1>3. k[3] = st.start BY KeyHas
  <1>4. k \notin DOMAIN cache BY DEF NamesOK
  <1>5. CASE k \in DOMAIN cachePrev
    <2>1. HostnameFor(k, h) = cachePrev[k] BY <1>4, <1>5 DEF HostnameFor
    <2>. QED BY <1>1, <1>3, <1>5, <2>1 DEF NamesOK
  <1>6. CASE k \notin DOMAIN cachePrev
    <2>1. HostnameFor(k, h) = ResolveHostname(h) BY <1>4, <1>6 DEF HostnameFor
    <2>2. HostName \in named[h] /\ environ[h] \in named[h] \cup {Unset} BY <1>2 DEF KernelOK
    <2>3. ResolveHostname(h) \in named[h] BY <2>2 DEF ResolveHostname
    <2>. QED BY <1>1, <1>2, <2>1, <2>3
  <1>. QED BY <1>5, <1>6

\* A listing that fails keeps names that are their processes' own; when it fails for an
\* interrupt, of processes no snapshot shows.
LEMMA NamesUnread ==
  ASSUME KernelOK, ListingOK, NamesOK, SampleFails
  PROVE  NamesOK'
  <1>1. PICK read \in {{}} \cup {{st \in reading.stats : st.pid <= p} : p \in Pids} :
          (read # {} => ctxDone /\ query.mode = "stat") /\ ListFails(query, read)
    BY DEF SampleFails
  <1>2. /\ reading.on /\ UNCHANGED <<home, alive, named, cachePrev, snap, before, query>>
        /\ cache' = IF query.hostname THEN Hostnames({ReadProcess(st, query) : st \in read}) ELSE cache
    BY <1>1 DEF SampleFails, ListFails, kernel, history
  <1>3. ~reading'.on BY <1>1 DEF ListFails, Idle
  <1>4. CASE query.hostname
    <2>. DEFINE stats == {ReadProcess(st, query) : st \in read}
    <2>1. stats \subseteq Stats(query) BY <1>1 DEF Stats
    <2>2. DOMAIN cache' = {Key(st) : st \in stats}
          /\ \A k \in DOMAIN cache' : \E st \in stats : Key(st) = k /\ cache'[k] = st.hostname
      BY <1>2, <1>4, HostnamesAre
    <2>. HIDE DEF stats
    <2>3. ASSUME NEW k \in DOMAIN cache'
          PROVE  k[3] \in 1..Len(home) /\ (k[3] \in alive => cache'[k] \in named[k[3]])
      <3>1. PICK st \in Stats(query) : Key(st) = k /\ cache'[k] = st.hostname BY <2>1, <2>2, <2>3
      <3>2. k[3] = st.start BY <3>1, KeyHas
      <3>3. st.start \in 1..Len(home) BY <1>2, ReadIs
      <3>. QED BY <1>2, <1>4, <3>1, <3>2, <3>3, NameIsOwn
    <2>4. exit' # "interrupted" => DOMAIN cache' = {}
      <3>1. SUFFICES ASSUME exit' # "interrupted" PROVE read = {} BY <2>2 DEF stats
      <3>. QED BY <1>1, <3>1 DEF SampleFails
    <2>. QED BY <1>2, <1>3, <1>4, <2>3, <2>4 DEF NamesOK, Known
  <1>5. CASE ~query.hostname
    <2>1. DOMAIN cache' = {} /\ DOMAIN cachePrev' = {} BY <1>2, <1>5 DEF NamesOK
    <2>. QED BY <1>2, <1>3, <1>5, <2>1 DEF NamesOK, Known
  <1>. QED BY <1>4, <1>5

LEMMA NamesSampled ==
  ASSUME KernelOK, ListingOK, NamesOK, SampleDone(query), UNCHANGED query
  PROVE  NamesOK'
  <1>1. /\ reading.on /\ reading' = Idle /\ UNCHANGED <<home, alive, named, cachePrev>> /\ before' = snap
        /\ ~query.hostname => cache' = cache
    BY SampleIs DEF kernel
  <1>2. Keys(snap'.rows) = {Key(st) : st \in Stats(query)} BY NewKeys
  <1>3. ~reading'.on BY <1>1 DEF Idle
  <1>4. /\ \A k \in DOMAIN cachePrev : k[3] \in 1..Len(home) /\ (k[3] \in alive => cachePrev[k] \in named[k[3]])
        /\ DOMAIN cachePrev \subseteq Keys(snap.rows)
    BY <1>1 DEF NamesOK, Known
  <1>5. CASE query.hostname
    <2>1. /\ DOMAIN cache' = {Key(st) : st \in Stats(query)}
          /\ \A k \in DOMAIN cache' : \E st \in Stats(query) : Key(st) = k /\ cache'[k] = st.hostname
      BY <1>5, SampleIs
    <2>2. ASSUME NEW k \in DOMAIN cache'
          PROVE  k[3] \in 1..Len(home) /\ (k[3] \in alive => cache'[k] \in named[k[3]])
      <3>1. PICK st \in Stats(query) : Key(st) = k /\ cache'[k] = st.hostname BY <2>1, <2>2
      <3>2. k[3] = st.start BY <3>1, KeyHas
      <3>3. st.start \in 1..Len(home) BY <1>1, ReadIs
      <3>. QED BY <1>1, <1>5, <3>1, <3>2, <3>3, NameIsOwn
    <2>3. DOMAIN cache' \subseteq Keys(snap'.rows) BY <1>2, <2>1
    <2>. QED BY <1>1, <1>3, <1>4, <1>5, <2>2, <2>3 DEF NamesOK, Known
  <1>6. CASE ~query.hostname
    <2>1. DOMAIN cache' = {} /\ DOMAIN cachePrev' = {} BY <1>1, <1>6 DEF NamesOK
    <2>. QED BY <1>1, <1>3, <1>6, <2>1 DEF NamesOK, Known
  <1>. QED BY <1>5, <1>6

(***************************************************************************)
(* The steps of the pass and of the machine.                               *)
(***************************************************************************)
\* No listing begins or ends well.
SamplerRests ==
  /\ KernelOK' /\ KernelMoves /\ OnlyEnriched
  /\ UNCHANGED <<prev, prevThreads, prevAt, cache, cachePrev, low, last, floor, before, query>>
  /\ reading' \in {reading, Idle}
  /\ exit = "interrupted" => exit' = "interrupted"

LEMMA Unfinished ==
  ASSUME Progress, Program
  PROVE  phase # "ended" /\ exit # "interrupted"
  <1>1. phase # "ended"
    BY DEF Program, PassBegins, Sampled, WarmUp, SampleFails, Measure, Scan, CollectHost, Emit, EmitFails, NextPass,
           Interrupted
  <1>. QED BY <1>1 DEF Progress

LEMMA ProgramQuiet ==
  ASSUME KernelOK, SnapshotOK, Progress, Program
  PROVE  PassBegins \/ Sampled \/ SampleFails \/ SamplerRests
  <1>0. exit # "interrupted" BY Unfinished
  <1>1. CASE WarmUp
    <2>1. TimePasses /\ UNCHANGED <<sampler, history, query>> BY <1>1 DEF WarmUp
    <2>. QED BY <1>0, <2>1, TimeMoves, StillSnapshot DEF SamplerRests, sampler, history
  <1>2. CASE SampleFails BY <1>2
  <1>3. CASE Measure
    <2>1. UNCHANGED Beside BY <1>3 DEF Measure
    <2>2. OnlyEnriched
      BY <1>3, SchedstatEnriches, WakeupsEnrich, GpuEnriches, PerfEnriches DEF Measure, Collector
    <2>. QED BY <1>0, <2>1, <2>2, StillKernel DEF SamplerRests, Beside, history
  <1>4. CASE Scan
    <2>1. UNCHANGED Beside BY <1>4 DEF Scan
    <2>2. OnlyEnriched BY <1>4, ScanEnriches DEF Scan
    <2>. QED BY <1>0, <2>1, <2>2, StillKernel DEF SamplerRests, Beside, history
  <1>5. CASE CollectHost
    <2>1. UNCHANGED <<kernel, sampler, history, query>> BY <1>5 DEF CollectHost, command
    <2>. QED BY <1>0, <2>1, StillKernel, StillSnapshot DEF SamplerRests, sampler, history
  <1>6. CASE Emit \/ EmitFails \/ NextPass \/ Interrupted
    <2>1. UNCHANGED <<kernel, sampler, history, query>> BY <1>6 DEF Emit, EmitFails, NextPass, Interrupted, Aside
    <2>. QED BY <1>0, <2>1, StillKernel, StillSnapshot DEF SamplerRests, sampler, history
  <1>. QED BY <1>1, <1>2, <1>3, <1>4, <1>5, <1>6 DEF Program

LEMMA WorldQuiet ==
  ASSUME KernelOK, query \in Scenarios, World
  PROVE  SamplerRests /\ UNCHANGED <<sampler, history, command>>
  <1>1. UNCHANGED <<sampler, history, command>>
    BY DEF World, Life, Busy, Threads, Execs, Clock, Gpu, Descriptors, Signal, Machine, Rest
  <1>2. KernelOK' /\ KernelMoves
    <2>1. CASE Life
      <3>1. CASE \E p \in query.pids, n \in query.names, d \in query.denials : Fork(p, n, d)
        BY <3>1, ForkMoves, AssemblyAssumption
      <3>2. CASE \E s \in alive : Exit(s) BY <3>2, ExitMoves
      <3>. QED BY <2>1, <3>1, <3>2 DEF Life
    <2>2. CASE Busy BY <2>2, WorkMoves DEF Busy
    <2>3. CASE Threads BY <2>3, ThreadsMove DEF Threads
    <2>4. CASE Execs BY <2>4, ExecMoves, AssemblyAssumption DEF Execs
    <2>5. CASE Clock BY <2>5, TimeMoves DEF Clock
    <2>6. CASE Gpu \/ Descriptors \/ Signal \/ Machine
      BY <2>6, StillKernel DEF Gpu, Descriptors, Signal, Machine
    <2>. QED BY <2>1, <2>2, <2>3, <2>4, <2>5, <2>6 DEF World
  <1>. QED BY <1>1, <1>2, StillSnapshot DEF SamplerRests, sampler, history, command

(***************************************************************************)
(* The pass.                                                               *)
(***************************************************************************)
LEMMA RatedKept ==
  ASSUME OnlyEnriched, UNCHANGED before, snap.elapsed > 0 => Rated(snap.rows, before.rows)
  PROVE  snap'.elapsed > 0 => Rated(snap'.rows, before'.rows)
  BY DEF OnlyEnriched, SameFigures, Rated, Rates

LEMMA RatedSampled ==
  ASSUME KernelOK, HistoryOK, ListingOK, PreviousOK, prevAt \in Nat \cup {Never}, NEW q, SampleDone(q),
         snap'.elapsed > 0
  PROVE  Rated(snap'.rows, before'.rows)
  <1>1. /\ reading.on /\ before' = snap /\ snap'.elapsed = Secs
        /\ DOMAIN snap'.rows = {st.pid : st \in Stats(q)}
        /\ \A st \in Stats(q) : snap'.rows[st.pid] = Row(st, Secs)
    BY SampleIs
  <1>2. Secs \in Int BY DEF Secs, KernelOK, Never
  <1>3. ASSUME NEW st \in Stats(q), Key(st) \in DOMAIN prev
        PROVE  Present(Row(st, Secs).metric["cpu"])
    <2>. DEFINE o == prev[Key(st)]
    <2>1. o.start = st.start /\ o.cpu = last.work[st.start] BY <1>3, KeyHas DEF PreviousOK, ReadSince
    <2>2. st.cpu = low.work[st.start] /\ st.start \in Starts BY <1>1, ReadIs
    <2>3. /\ low.work[st.start] \in Nat /\ last.work[st.start] \in Nat
          /\ last.work[st.start] <= low.work[st.start]
      BY <2>2 DEF HistoryOK, Counters, NoLater
    <2>4. ~(st.cpu < o.cpu) /\ ~(Secs <= 0) BY <1>1, <1>2, <2>1, <2>2, <2>3
    <2>5. Present(ComputeRate(Counter("cpu", st), {Counter("cpu", x) : x \in OldStat(st)}, Secs))
      BY <1>3, <2>4, CpuRateAppears
    <2>. QED BY <2>5, RowHas DEF Rates
  <1>4. ASSUME NEW p \in DOMAIN snap'.rows \cap DOMAIN snap.rows, snap'.rows[p].key = snap.rows[p].key
        PROVE  Present(snap'.rows[p].metric["cpu"])
    <2>1. PICK st \in Stats(q) : p = st.pid /\ snap'.rows[p] = Row(st, Secs) BY <1>1, <1>4
    <2>2. Key(st) = snap.rows[p].key BY <1>4, <2>1, RowHas
    <2>3. Key(st) \in DOMAIN prev BY <1>4, <2>2 DEF PreviousOK, Keys
    <2>. QED BY <1>3, <2>1, <2>3
  <1>. QED BY <1>1, <1>4 DEF Rated

LEMMA ProgressSampled ==
  ASSUME KernelOK, ListingOK, Progress, prevAt \in Nat \cup {Never}, Sampled
  PROVE  Progress'
  <1>0. exit' # "interrupted"
    <2>1. Program BY DEF Program
    <2>. QED BY <2>1, Unfinished DEF Sampled
  <1>1. /\ phase = "list" /\ SampleDone(query) /\ UNCHANGED <<query, emitted, shown>>
        /\ IF NeedsSecond THEN phase' = "warmup" ELSE phase' = "enrich"
    BY DEF Sampled
  <1>2. snap'.gen = snap.gen + 1 /\ snap'.elapsed = Secs /\ prevAt' = clock /\ clock' = clock
    BY <1>1, SampleIs DEF kernel
  <1>3. clock \in Nat BY DEF KernelOK
  <1>4. SUFFICES ASSUME TwoSamples PROVE Progress' BY <1>0, <1>1 DEF Progress, TwoSamples
  <1>5. emitted = 0 BY <1>1, <1>4 DEF Progress
  <1>6. CASE snap.gen = 0
    <2>1. phase' = "warmup" BY <1>1, <1>4, <1>6 DEF NeedsSecond, TwoSamples
    <2>. QED BY <1>0, <1>1, <1>2, <1>3, <1>5, <1>6, <2>1 DEF Progress, Never
  <1>7. CASE snap.gen = 1 /\ prevAt # Never /\ prevAt < clock
    <2>1. phase' = "enrich" BY <1>1, <1>7 DEF NeedsSecond
    <2>2. Secs > 0 BY <1>3, <1>7 DEF Secs
    <2>. QED BY <1>0, <1>1, <1>2, <1>5, <1>7, <2>1, <2>2 DEF Progress
  <1>. QED BY <1>1, <1>4, <1>6, <1>7 DEF Progress

LEMMA ProgressKept ==
  ASSUME KernelOK, Progress, prevAt \in Nat \cup {Never}, SamplerRests, UNCHANGED <<phase, emitted, exit, shown>>,
         phase = "ended" => UNCHANGED snap
  PROVE  Progress'
  <1>1. /\ clock <= clock' /\ clock \in Nat /\ clock' \in Nat /\ prevAt' = prevAt /\ query' = query
        /\ snap'.gen = snap.gen /\ snap'.elapsed = snap.elapsed
    BY DEF SamplerRests, KernelMoves, KernelOK, OnlyEnriched
  <1>2. prevAt < clock => prevAt < clock' BY <1>1 DEF Never
  <1>3. prevAt <= clock => prevAt <= clock' BY <1>1 DEF Never
  <1>. QED BY <1>1, <1>2, <1>3 DEF Progress, TwoSamples

LEMMA ProgressProgram ==
  ASSUME KernelOK, SnapshotOK, ListingOK, Progress, prevAt \in Nat \cup {Never}, Program
  PROVE  Progress'
  <1>0. phase # "ended" /\ exit # "interrupted" BY Unfinished
  <1>1. CASE PassBegins
    <2>1. /\ phase = "idle" /\ phase' = "list" /\ UNCHANGED <<query, emitted, exit, shown, prevAt, clock, snap>>
      BY <1>1 DEF PassBegins, ListBegins, kernel
    <2>. QED BY <1>0, <2>1 DEF Progress, TwoSamples
  <1>2. CASE Sampled BY <1>2, ProgressSampled
  <1>3. CASE WarmUp
    <2>1. /\ phase = "warmup" /\ phase' = "idle" /\ clock' = clock + 1
          /\ UNCHANGED <<query, emitted, exit, shown, prevAt, snap>>
      BY <1>3 DEF WarmUp, TimePasses, sampler
    <2>2. clock \in Nat BY DEF KernelOK
    <2>3. prevAt <= clock => prevAt < clock' BY <2>1, <2>2 DEF Never
    <2>. QED BY <1>0, <2>1, <2>3 DEF Progress, TwoSamples
  <1>4. CASE SampleFails
    <2>1. /\ phase = "list" /\ UNCHANGED <<query, emitted, shown, prevAt, clock, snap>>
          /\ query.mode = "ps" => phase' = "ended"
          /\ phase' = "ended" \/ exit' = exit
      BY <1>4 DEF SampleFails, ListFails, kernel
    <2>. QED BY <1>0, <2>1 DEF Progress, TwoSamples
  <1>5. CASE Measure
    <2>1. phase = "enrich" /\ UNCHANGED <<phase, emitted, exit, shown>> BY <1>5 DEF Measure, Beside
    <2>2. ~PassBegins /\ ~Sampled /\ ~SampleFails BY <2>1 DEF PassBegins, Sampled, SampleFails
    <2>. QED BY <2>1, <2>2, ProgramQuiet, ProgressKept
  <1>6. CASE Scan
    <2>1. phase = "enrich" /\ UNCHANGED <<phase, emitted, exit, shown>> BY <1>6 DEF Scan, Beside
    <2>2. ~PassBegins /\ ~Sampled /\ ~SampleFails BY <2>1 DEF PassBegins, Sampled, SampleFails
    <2>. QED BY <2>1, <2>2, ProgramQuiet, ProgressKept
  <1>7. CASE CollectHost
    <2>1. phase = "enrich" /\ UNCHANGED <<query, phase, emitted, exit, shown, prevAt, clock, snap>>
      BY <1>7 DEF CollectHost, command, kernel, sampler
    <2>. QED BY <1>0, <2>1 DEF Progress, TwoSamples
  <1>8. CASE Emit
    <2>1. /\ phase = "enrich" /\ emitted' = emitted + 1 /\ shown' = snap.rows
          /\ query.mode = "ps" => phase' = "ended"
          /\ UNCHANGED <<query, prevAt, clock, snap>> /\ exit' \in {exit, "ok"}
      BY <1>8 DEF Emit, Aside, kernel, sampler
    <2>. QED BY <1>0, <2>1 DEF Progress, TwoSamples
  <1>9. CASE EmitFails
    <2>1. phase = "enrich" /\ phase' = "ended" /\ UNCHANGED <<query, emitted, shown, prevAt, clock, snap>>
      BY <1>9 DEF EmitFails, Aside, kernel, sampler
    <2>. QED BY <2>1 DEF Progress, TwoSamples
  <1>10. CASE NextPass \/ Interrupted
    <2>1. /\ phase = "wait" /\ query' = query
          /\ phase' = "ended" \/ exit' = exit
      BY <1>10 DEF NextPass, Interrupted, Aside
    <2>. QED BY <1>0, <2>1 DEF Progress, TwoSamples
  <1>. QED BY <1>1, <1>2, <1>3, <1>4, <1>5, <1>6, <1>7, <1>8, <1>9, <1>10 DEF Program

(***************************************************************************)
(* The invariant.                                                          *)
(***************************************************************************)
LEMMA RestsKeep ==
  ASSUME IInv, SamplerRests, Progress'
  PROVE  IInv'
  <1>1. KernelOK' /\ KernelMoves /\ OnlyEnriched
        /\ UNCHANGED <<prev, prevThreads, prevAt, cache, cachePrev, low, last, floor, before, query>>
        /\ reading' \in {reading, Idle} /\ (exit = "interrupted" => exit' = "interrupted")
    BY DEF SamplerRests
  <1>2. PassOK' BY <1>1, RatedKept DEF IInv, PassOK
  <1>. QED BY <1>1, <1>2, HistoryKept, ListingKept, PreviousKept, SnapshotKept, NamesKept DEF IInv

LEMMA IInvStep == IInv /\ [Next]_vars => IInv'
  <1>. SUFFICES ASSUME IInv, [Next]_vars PROVE IInv' OBVIOUS
  <1>1. KernelOK /\ HistoryOK /\ ListingOK /\ PreviousOK /\ SnapshotOK /\ NamesOK /\ PassOK BY DEF IInv
  <1>2. query \in Scenarios /\ prevAt \in Nat \cup {Never} /\ Progress BY <1>1 DEF PassOK
  <1>3. CASE PassBegins
    <2>1. ListBegins(query) /\ UNCHANGED query BY <1>3 DEF PassBegins
    <2>2. UNCHANGED kernel /\ UNCHANGED <<prev, prevThreads, prevAt, snap, last, floor, before>>
      BY <2>1 DEF ListBegins
    <2>3. KernelOK' /\ KernelMoves /\ OnlyEnriched BY <1>1, <2>2, StillKernel, StillSnapshot
    <2>4. Program /\ exit # "interrupted" BY <1>2, <1>3, Unfinished DEF Program
    <2>5. PassOK' BY <1>1, <1>2, <2>1, <2>2, <2>3, <2>4, RatedKept, ProgressProgram DEF PassOK
    <2>. QED BY <1>1, <2>1, <2>2, <2>3, <2>4, <2>5, ListBeginsOK, PreviousKept, SnapshotKept, NamesListing DEF IInv
  <1>4. CASE Sampled
    <2>1. SampleDone(query) /\ UNCHANGED query BY <1>4 DEF Sampled
    <2>2. /\ UNCHANGED kernel /\ reading' = Idle /\ prevAt' = clock /\ low' = low /\ last' = low /\ floor' = last
      BY <1>1, <2>1, SampleIs
    <2>3. KernelOK' /\ KernelMoves /\ Now' = Now BY <1>1, <2>2, StillKernel DEF kernel, Now
    <2>4. HistoryOK'
      <3>1. low \in Counters /\ last \in Counters /\ NoLater(last, low) /\ NoLater(low, Now)
        BY <1>1 DEF HistoryOK
      <3>. QED BY <2>2, <2>3, <3>1, NoLaterSame DEF HistoryOK
    <2>5. ListingOK' BY <2>2 DEF ListingOK, Idle
    <2>6. PassOK'
      <3>1. prevAt' \in Nat BY <1>1, <2>2 DEF KernelOK
      <3>2. Progress' BY <1>1, <1>2, <1>4, ProgressSampled
      <3>3. snap'.elapsed > 0 => Rated(snap'.rows, before'.rows) BY <1>1, <1>2, <2>1, RatedSampled
      <3>. QED BY <1>2, <2>1, <3>1, <3>2, <3>3 DEF PassOK
    <2>. QED BY <1>1, <1>2, <2>1, <2>3, <2>4, <2>5, <2>6, PreviousSampled, SnapshotSampled, NamesSampled DEF IInv
  <1>5. CASE SampleFails
    <2>1. UNCHANGED <<kernel, cachePrev, prev, prevThreads, prevAt, snap, history, query>> /\ reading' = Idle
      BY <1>5 DEF SampleFails, ListFails
    <2>2. KernelOK' /\ KernelMoves /\ OnlyEnriched /\ UNCHANGED <<low, last, floor, before>> /\ reading' \in {reading, Idle}
      BY <1>1, <2>1, StillKernel, StillSnapshot DEF history
    <2>3. Program BY <1>5 DEF Program
    <2>4. PassOK' BY <1>1, <1>2, <2>1, <2>2, <2>3, RatedKept, ProgressProgram DEF PassOK
    <2>5. NamesOK' BY <1>1, <1>5, NamesUnread
    <2>. QED BY <1>1, <2>1, <2>2, <2>4, <2>5, HistoryKept, ListingKept, PreviousKept, SnapshotKept DEF IInv
  <1>6. CASE Program /\ ~PassBegins /\ ~Sampled /\ ~SampleFails
    <2>1. SamplerRests BY <1>1, <1>2, <1>6, ProgramQuiet
    <2>2. Progress' BY <1>1, <1>2, <1>6, ProgressProgram
    <2>. QED BY <2>1, <2>2, RestsKeep
  <1>7. CASE World
    <2>1. SamplerRests /\ UNCHANGED <<sampler, history, command>> BY <1>1, <1>2, <1>7, WorldQuiet
    <2>2. Progress' BY <1>1, <1>2, <2>1, ProgressKept DEF command, sampler
    <2>. QED BY <2>1, <2>2, RestsKeep
  <1>8. CASE UNCHANGED vars
    <2>1. UNCHANGED <<kernel, sampler, history, command>> BY <1>8 DEF vars
    <2>2. SamplerRests
      BY <1>1, <2>1, StillKernel, StillSnapshot DEF SamplerRests, sampler, history, command
    <2>3. Progress' BY <1>1, <1>2, <2>1, <2>2, ProgressKept DEF command, sampler
    <2>. QED BY <2>2, <2>3, RestsKeep
  <1>. QED BY <1>3, <1>4, <1>5, <1>6, <1>7, <1>8 DEF Next

LEMMA IInvInit == Init => IInv
  <1>. SUFFICES ASSUME Init PROVE IInv OBVIOUS
  <1>1. /\ query \in Scenarios /\ phase = "idle" /\ emitted = 0 /\ exit = "none"
        /\ home = Running0 /\ alive = 1..Len(Running0)
        /\ work = [s \in Starts |-> 0] /\ threads = [s \in Starts |-> <<0>>]
        /\ environ = [s \in Starts |-> Unset]
        /\ named = [s \in Starts |-> IF s \in alive THEN {HostName} ELSE {}]
        /\ clock = 0
        /\ reading = Idle /\ cache = Empty /\ cachePrev = Empty
        /\ prev = Empty /\ prevThreads = Empty /\ prevAt = Never /\ snap = NoSnapshot
        /\ low = Now /\ last = low /\ floor = low /\ before = NoSnapshot
    BY DEF Init, SamplerInit, Now
  <1>2. DOMAIN Empty = {} BY DEF Empty
  <1>3. Now \in Counters /\ \A s \in Starts : Len(threads[s]) >= 1 BY <1>1 DEF Now, Counters
  <1>4. KernelOK BY <1>1, <1>3, SamplerAssumption DEF KernelOK, Starts
  <1>5. HistoryOK BY <1>1, <1>3, NoLaterSame DEF HistoryOK
  <1>6. ListingOK BY <1>1 DEF ListingOK, Idle
  <1>7. /\ DOMAIN snap = {"gen", "elapsed", "rows"} /\ snap.gen = 0 /\ ~(snap.elapsed > 0)
        /\ DOMAIN snap.rows = {} /\ DOMAIN before.rows = {}
    BY <1>1, <1>2 DEF NoSnapshot
  <1>8. PreviousOK BY <1>1, <1>2, <1>7 DEF PreviousOK, Keys
  <1>9. SnapshotOK BY <1>7 DEF SnapshotOK, Procs
  <1>10. NamesOK BY <1>1, <1>2 DEF NamesOK, Idle
  <1>11. PassOK BY <1>1, <1>7 DEF PassOK, Progress
  <1>. QED BY <1>4, <1>5, <1>6, <1>8, <1>9, <1>10, <1>11 DEF IInv

\* Listings, the kernel and the collectors, in any order, keep what the sampler remembers
\* in step with what it showed (Sampler.prev and Source.hostCache).
THEOREM SamplerInvariant == Spec => []IInv
  BY IInvInit, IInvStep, PTL DEF Spec

\* Every rate is of the process it is shown for, over a time that passed, and at most
\* what that process, or that thread, did since the earlier listing began.
THEOREM RatesAreOwn == Spec => []RateIsOwnGrowth
  <1>1. IInv => RateIsOwnGrowth
    <2>. SUFFICES ASSUME IInv, NEW p \in Procs
                  PROVE  LET r == snap.rows[p]
                             own(v, grown) == Present(v) => /\ v.per > 0 /\ v.val <= grown
                                                            /\ \E q \in DOMAIN before.rows : before.rows[q].start = r.start IN
                         /\ \A m \in Rates : m = "cpu" \/ r.whole => own(r.metric[m], work[r.start] - floor.work[r.start])
                         /\ \A t \in r.threads :
                              /\ Present(t.cpu) => \E q \in DOMAIN before.rows : \E u \in before.rows[q].threads : u.tid = t.tid
                              /\ own(t.cpu, threads[t.tid[1]][t.tid[2]] -
                                     IF t.tid[2] <= Len(floor.threads[t.tid[1]]) THEN floor.threads[t.tid[1]][t.tid[2]] ELSE 0)
      BY DEF RateIsOwnGrowth
    <2>1. RowOK(snap.rows[p], Now, floor, before.rows) BY DEF IInv, SnapshotOK
    <2>2. Now.work = work /\ Now.threads = threads BY DEF Now
    <2>. QED BY <2>1, <2>2 DEF RowOK, Owned, ThreadCounter
  <1>. QED BY <1>1, SamplerInvariant, PTL

\* A process two listings saw has its CPU rate, and a ps that waits for a second sample
\* shows the second.
THEOREM RatesDoAppear == Spec => []RatesAppear
  <1>1. IInv => RatesAppear BY DEF IInv, PassOK, Progress, TwoSamples, Rated, RatesAppear
  <1>. QED BY <1>1, SamplerInvariant, PTL

\* The name kept for a running process was its own, and the cache holds no more than the
\* processes of the last two listings, until an interrupt ends the command.
THEOREM NamesAreOwn == Spec => []HostCacheOwn
  <1>1. IInv => HostCacheOwn BY DEF IInv, NamesOK, Keys, HostCacheOwn
  <1>. QED BY <1>1, SamplerInvariant, PTL
=============================================================================
