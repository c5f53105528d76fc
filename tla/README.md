# Verification of procfit

procfit observes processes (sampling `/proc`, querying, rendering) and controls
them: it renices, stops, continues, signals and freezes, and promises to put
everything back.  This directory holds TLA+ models of the parts of procfit that
are hard to get right by testing, the TLC runs that check them on small
instances, and proofs, checked by TLAPS, of the theorems that hold for every
instance.  Paths below are relative to `src/internal/`.

## 1. The system

| part | state | operations | hard because |
|---|---|---|---|
| control manager (`control/`) | targets, each with intents (nice, stop, freeze), drift mode and bindings of process instances with captured originals | Manage, Rebind, Unmanage, SetNice, SetStop, SetFreeze, Signal, Restore, RestoreNice, SetPolicies, Reconcile | pids are reused; several targets share a process; the kernel refuses calls; others change the same values |
| control adapter (`procfs/control_linux.go`) | none (the kernel's) | GetNice, SetNice, SendSignal, ReadIdentity, ReadCgroupOf, FreezeCgroup | acts by pid, not by identity |
| runtime-state store (`state/store.go`) | the state file, temporary and `.corrupt` files | Load, Save | a crash between any two system calls |
| daemon (`daemon/`) | the manager, the latest snapshot, the socket | tick (sample, publish, reconcile), control requests, reload on SIGHUP, shutdown | goroutines sharing an unlocked manager; the file written only after some of the steps |
| CLI control (`app/control*.go`) | none between runs: loads, changes and saves the state file | manage, unmanage, set, restore, signal | a second writer of the same file, beside the daemon |
| TUI (`tui/`, `app/tui.go`) | the Model: selection, folds, filter, columns, prompts, the pending action; the managed panel | a key, a tick, a resize; queries; one CLI-like operation per confirmation | the world and the rows move while a question is on the screen; keys compose queries |
| sampler (`collect/`, `procfs/source.go`, `procfs/read.go`) | the previous raw samples, the host name cache | Sample, List | the files of a process are read one after the other while pids are reused |
| collectors (`procfs/`) | counters at the start of a window, open descriptors, goroutines | Collect, CollectHost | they sleep between two reads, find processes by pid, and are interrupted |
| observation pass (`app/assembly.go`, `app/stat.go`) | the pass it is in | sample, warm up, enrich, host metrics, emit, wait | order of the collectors; failure and interruption in between |
| query engine (`query/`, `queryspec/`, `expr/`, `metrics/`) | none | parse, resolve, filter, group, aggregate, having, sort, limit | missing values at every level |
| configuration (`config/`, `app/settings.go`, `app/configmerge.go`) | none | discover, load, normalise, validate, encode, merge | precedence, presets that extend presets, defaults written back |
| resolvers (`resolve/`), renderers (`render/`), history (`history/`) | a table of user names; a log | read-only | nothing that two steps could disturb |

How they interact.  The CLI and the TUI each build their own manager: they load
the state file into it, perform one operation and save the file.  The daemon
builds one manager, loads the file once, and then works from memory: a ticker
goroutine samples, publishes the snapshot and reconciles the config policies;
one goroutine per connection serves control requests; another handles SIGHUP by
replacing the policies.  The daemon saves after a control request that was not
a dry run, and on shutdown.  Nothing but the file connects the daemon with the
CLI and the TUI: no command sends its control operations to the socket.

What makes each part correct:

* manager: an original is captured once and survives everything that keeps the
  process bound; nothing but a live, bound process is ever reniced, and a
  protected one only if an earlier run had taken control of it; a stop is undone
  only if it was procfit's; what restore refuses as drift has an explanation;
* store: after a crash at any point the file is the old or the new state, and,
  where directories can be synced, no save that returned is taken back;
* daemon and CLI: what was captured or intended is not lost between them, also
  when a save fails;
* TUI: what is confirmed is what was asked for, and reaches at most the target
  that owns it besides; keys never compose a query that is refused; every prompt
  can be left;
* sampler and collectors: a rate is the growth of the process, thread, client
  or machine it is shown for, over the time it is shown for;
* query, expressions, configuration: the computed value is the one a simple
  reference definition gives, for every input.

## 2. Modules

| module | models |
|---|---|
| `Control` | the state-free part of `control/`: bindings, targets, safeguards, what one operation does to one binding |
| `Manager` | the manager of one run of procfit, every operation an action, with the kernel's process table and its other users |
| `MCManager` | values for the constants of `Manager` in the runs |
| `ManagerProofs` | theorems about `Manager`: types, identity, captures, stops, freezes, and what it does to nice values |
| `DurableCell` | what the state file promises: one value, replaced in one step, that survives a power loss once flushed |
| `StateStore` | `state/store.go`, one system call per step, over a file system that forgets what was not synced; implements `DurableCell` |
| `StateStoreProofs` | theorems about `StateStore`, among them the refinement |
| `Session` | the daemon and a CLI command, each with a manager of its own (two `INSTANCE Manager`), over one process table and one state file |
| `SessionProofs` | theorems about `Session`: what the state file holds, and whose value an original is |
| `MCSession` | values for the constants of `Session` in the runs |
| `Sampler` | one listing of `/proc` racing with the kernel, the host name cache, and the rates between two listings |
| `Windows` | the collectors that sleep between two readings: schedstat, wakeups by eBPF or by the scheduler's files, GPU clients, perf groups |
| `Scans` | the collectors that read many files per process from goroutines behind a semaphore |
| `HostMetrics` | the readings of the whole machine: idle states, power by backend and domain, batteries |
| `Assembly` | the observation pass of ps, stat and the TUI, composed of the four above, with the machine they observe |
| `AssemblyProofs` | theorems about `Assembly`: whose the rates and the host names are |
| `CollectorProofs` | theorems about the collectors in `Assembly`, built on the former: whose growth a window shows, where wakeups come from, what is left open |
| `FigureProofs` | theorems about the figures that are sums or are of the whole machine, with the lemmas about sums, built on the two above |
| `MCAssembly` | the commands and the machines of the run |
| `Basics` | texts as sequences of characters, and what the words of the query language share |
| `Expr` | the expression language: lexer, parser, three-valued evaluation, the fields a program reads |
| `Query` | flags to query, and the query over a snapshot as a tree of rows |
| `Config` | discovery, normalisation, validation and encoding of the configuration, and the layers of a setting; what the metric registry knows and what an expression reads are parameters, as in the code's `Validator` |
| `ConfigProofs` | theorems about `Config` |
| `Targets` | the targets of the state file as the explorer's callbacks see and change them |
| `Explorer` | the explorer: keys, prompts, cursors, the control actions they compose, the loop; what a query answers and what a filter may be are parameters |
| `ExplorerProofs` | theorems about `Explorer` |
| `Screen` | what `Explorer` has as parameters, by the operators of `Query`: the queries the flags compose, folding, the managed panel |
| `Observe` | one computation of `Expr`, `Query` or `Config`, or one session of `Screen`, with the reference definitions |
| `MCObserve` | the inputs of the run |

The modules build on each other in three towers: `Control` under `Manager`
under `Session`, beside which `StateStore` refines `DurableCell`; `Sampler`
under `Windows` under `Scans`, with `HostMetrics`, under `Assembly`; `Expr`
under `Query` under `Screen`, with `Config`, under `Observe`.  `Screen` queries
with the operators of `Query`, and its filter line compiles with those of
`Expr`; these recurse over trees, which no theorem can reach here, so the
explorer itself is `Explorer`, which has them as operator parameters.  What
`ExplorerProofs` shows therefore holds whatever a query computes.  Where the
towers meet an interface is all that is shared: a query gets a snapshot of readings, whatever the sampler did to get them (`Assembly` says
what they are), and a confirmed action of the screen changes targets, whatever
the manager does with them (`Manager` says that).

`Session` takes a write of the state file as one step; that this is right is
what `StateStore` shows.

An operator whose comment says "Mutant" is a mistake somebody could make in the
code.  No specification uses it; put in the place of the definition it is a
variant of, it makes the run named with it in `PROJECT.json` fail, which shows
that the property notices that mistake.

## 3. Correspondence with the code

### Control and Manager

`Control` has the identity of a process (boot id, pid namespace, pid, start
time) as the pid and the number of its incarnation: the n-th process that had
the pid.  `SameProcess` is equality of both, `revalidate` is `Revalidate`.  A
binding is the record of its incarnation, `orig` and `want` (`Nice.Original`
and `Nice.Desired`, `None` when `Nice` is nil) and `stop` (`Stop.DesiredStop`).
A cgroup path is the sequence of its components, the root cgroup the empty one.

`Manager` has five variables: `proc` (pid to what the kernel knows of it),
`frozen` (cgroups whose `cgroup.freeze` is 1), `targets` (target id to target),
and two history variables no action reads to decide anything: `past` (what was
done to the process now behind each pid) and `last` (the kind of step).  Each
exported operation is one action.  Its inner loop over the bindings is a
function over the pids, because the iterations touch disjoint bindings and
processes; the freeze loop, which handles each distinct cgroup once, is
`FreezeScope`.  A run starts from the state an earlier one left in the same boot
(`LoadState`), which is any of `Loads`, with the processes as that run left them;
that run had a self and a parent of its own, so the state may hold what this
run's safeguards would refuse.  `past` remembers which targets were loaded that
way.  `last` is read only at the step it describes, so the runs that need it
compare states without it (`VIEW`).  Refusals by the kernel are a set chosen freely: `denied`
(setpriority), `unsent` (kill), `unwritable` (cgroup.freeze).  Resolution of a
selector is a free choice of instances (`Instances`): any set of pids, each with
an incarnation it has or had, so a resolution may be stale.

Not modelled of the manager: `SnapshotIDs`, `LastSeen`, `UpdatedAt`,
`Generation`, `PreStopped`, `Observed`, the statuses and `ApplyResult`, which no
operation reads back to decide what to do; `CheckCount`, which only tests
call; an unreadable cgroup of procfit itself (then the guard compares nothing);
a pid that is reused in the middle of a call.

### StateStore

An inode has a content in memory (`data`) and on disk (`synced`); the name
`state.json` points to one inode in memory (`entry`) and may point to any of
`onDisk` after a power loss.  `syncs` says whether the file system can sync a
directory, and `since`, history, which inodes the file has named since a save
last returned without an error where it can.  `Save` is `CreateTemp`, `Write`, `Sync`, `Rename`,
`DirSync`; a failing call, with the deferred `os.Remove`, and a killed process
are `Fail` and `Die`.  `Load` changes something only when the file does not
decode: `ReadBad`, then `Quarantine`.  The code ignores the error of the
directory's fsync: on a file system that does not support it (`DirSyncs`) a save
that returned may be taken back by a power loss, and there the cell promises
only that what comes back was saved once.  `DurableCell` acknowledges a
replacement where the store returns, so that a directory fsync left out is not a
refinement (mutant `DirSyncSkipped`).  A directory fsync that fails now and then on a file
system that supports it is ignored by the code as well, and left out here.
`PowerLoss` and `Spoil` (another program overwrites the file) are the world's.
Not modelled: reads that fail, a directory that cannot be created.

### Session

`up`, `dmem`, `latest` are the daemon, its manager's targets and the last
published generation.  `Sample` is the first half of a tick (sample, publish),
`todo` the config targets its `Reconcile` still has to handle, one per step, so
that anything may come between two of them.  A connection's `job` goes through
`op` (the operation, after `Receive` ensured the target), `marshal` and `write`;
the deferred save of `Run` is the job named `"exit"`.  A command of the CLI goes
through `bind`, `op` and `save` on its own copy, `cmem`.  `Kill` and `CliKill`
may come anywhere.  A save may fail (`WriteFails`, `CliSaveFails`), before the
rename or after it: an error is answered, the file is the old or the new one, the
command's memory ends with it, but the daemon keeps what it did, and its next save
writes it.  Three variables are history.  `acked` has the intents reported
as done, and those of failed requests since, either of which the file may have.
`dropped` has the runtime targets the daemon unmanaged that are still in the
file, since no save has succeeded.  `foreign` has the nice values the process now behind a pid had from
others, and those procfit does not answer for: it answers for a value while a
target holds the process, that is, has its original, so a value joins `foreign`
when the target is dropped (`Dropped`) or no longer bound to the process
(`LetGo`), when a second target captures what it finds there (`Shared`), and when
a manager ends and what outlives it has not the original (`Forgotten`).  The last
is the case of every capture by a tick before the next request is saved.

Not modelled: the stop, freeze and signal requests, which differ from the nice
requests only inside the manager; queries; the slice that `Reconcile` walks by
index while a connection changes it (section 7).

### Sampler, Windows, Scans, HostMetrics, Assembly

A process is a *start*, the n-th process to start; its number stands for the
start time in the identity.  One counter per start stands for every cumulative
counter the kernel keeps of it, so that a property can say whose growth a rate
is.  `ListBegins` reads every `stat`, which settles the identities, and
`SampleDone` every other file, by pid; the kernel moves in between.  `prev`,
`prevThreads` and `prevAt` are the fields of the Go `Sampler`, `cache` and
`cachePrev` the two generations of the host name cache.

The collectors still to run are a set, `todo`; `Rank` is the order of
`newAssemblyWith`, and `Running` the one whose turn it is.  A collector that
sleeps is two actions, `...First` and `...Second`, with `window` between them; `perf` has one for opening and one for reading the groups of a batch, and a
descriptor is the pair of a pid and an event.  The map of the eBPF program counts
by process group, which several processes have after each other: that is `woken`.
Of the machine, `HostMetrics` has what the sensors' files say and whether they may
be read; `sources` are the backends that the collector of power discovered at its
first collection.  `Scans` has one action per step of a goroutine (`Acquire`,
`CollectOne`, `Receive`) and of the one that starts them (`Launch`,
`CollectReturns`).  In `Assembly`,
`Sampled`, `WarmUp`, `Emit`, `NextPass`, `Interrupted` are the loop of
`streamLoop`.  The history variables (`low`, `last`, `floor`, `before`, `named`,
`shown`) remember the counters at the beginning of a listing and what was
emitted; no action of the program reads them.  A listing that the context
interrupts has read some processes, in order; the names it found replace the
current generation of the cache, though `Sample` fails (`ListFails`).  `WarmUp`
leaves out that the context may end the second it waits: only ps, the TUI and the
exporter wait, and theirs is the background context (`app/ps.go:43`,
`app/introspect.go:80`, `app/export.go:50`).  How long a processor idles in a
window is bounded by `MaxIdle` alone: the collector sleeps for the window or
longer.

Not modelled: memory, thread states, pressure, load averages, temperature and
GPU memory, which are single reads; gauges; whether a query has a rate
(`hasRate`) is an input of the command.

### Expr, Query, Config

These are pure in the code and operators here; `Config` has the three commands
that use it, `Load`, `Settle` and `Locate`, as its actions, and `Configured` as
the specification of those alone.  What `config.Validator` gets from the other
packages as functions are parameters of `Config`, and `Observe` gives them as
`configValidator` does.  A text is a sequence of
characters, a token or a tree a record; a number keeps its digits and its
suffix as a symbol, and arithmetic on it is left out.  A regular expression
matches the texts that contain it, and the patterns that do not compile are a
constant.  A row is the record the engine builds, with `sub` for its children;
a metric is a value or `NA`.  Labels are sequences, so that "unknown" and the
empty name of an unreadable field differ as they do in the code.  The
configuration is what the strict decoder leaves: a function on the keys the
file gives; where no file is read, the zero configuration, whose leaf, unlike a
normalised one, counts as not given (`Unsaid`).  Maps that Go walks in any order are walked in every order
(`order` in a configuration task).

### Explorer and Screen

`ui` is the `Model`.  The flags of its overlays and prompts, of which the key
dispatch lets only one be on, are the field `modal`.  `Update` is the dispatch,
and each of the Go handlers has the operator with its name.  `Press` is a
turn of the event loop: the key, the control callback when the key confirmed
one, a save that may fail, and the query when the model is dirty; `Tick` the
refresh timer; `Resize`; and `WorldMoves` lets the processes change.  `Requery`
either fails or shows what `Found` says, in `Screen` the result of `Build` for the flags.  A panic is
the state `run = "panicked"`.  `chosen` and `applied` are history variables:
the selection when an action was asked for, and the action last carried out, with
the pids of all bindings it acted on (`Targets.Reached`), which are those of the one
target that has any of the pids asked for, or else those of a new target.

Not modelled: drawing, status texts, column widths, units, the length of the
refresh interval, forecasts, the history overlay, the command line shown for a
view.

### Observe

`task` is what is computed, chosen once, `answer` its result.  All but the
screen are one step: the interest is in the operators, and in the reference
definitions the properties compare them with.

## 4. Runs

Every bound is a constant of the `.cfg`.

| run | question | bounds |
|---|---|---|
| `manager_shared` | is drift explained, does restore respect it, does a dry run act | one process, three nice values, two runtime targets that may both bind it, force, refusals |
| `manager_policy` | safeguards, single capture, only bound processes reniced, over reloads, reconciliation and requests | two pids, one of them procfit's parent, each reused once; two nice values; nothing loaded, or that parent under a rule of the run before; one rule in nine variants (absent, or with and without a nice value under each of the four drift modes); a reboot, refusals, stale resolutions |
| `manager_signals` | whose stop is recorded, who is continued | one pid reused once in any of five cgroups, procfit in a login session; nothing loaded, or a stop; stop, continue, kill, freeze, thaw, restore, and signals by others |
| `store` | is the file ever torn, does the store implement the cell | two writers, three saves, two power losses, one foreign overwrite, directories that sync and that do not |
| `session_crash` | is what was answered in the file, are originals kept, when is one procfit's own value | a daemon with two starts, one kill and requests on two names, two of them beside a reload and a failing sample or three beside a failing save; or four commands, one killed, one that cannot save, two outside changes |
| `session_live` | do policies win, does the daemon keep up | fair; one start, shutdown, reload, request, two outside changes, three rules; or two starts, a request, a failing save, shutdown |
| `collectors` | is every figure the one of the process, client or machine it is shown for; does every scan return | thirteen commands (ps, stat, TUI, each with the collectors it is about, alone or after each other) over two pids, three starts, counters up to 2, up to six moves of the machine; one semaphore place, one perf group of two events, two GPU clients, five power zones in three backends, two passes of the power collector, two batteries |
| `observe` | do the expression language, the query and the configuration compute what their reference definitions say; does the screen act on what was asked | texts up to five characters, trees up to depth three, 49 snapshots of up to three processes with threads, some 780 sets of flags, every preset graph on three names, six precedences of the layers, eight screen sessions of four to six events over up to twelve keys each |
| `pre_stopped`, `freeze_reused_pid`, `cli_beside_daemon`, `tick_error` | a sentence of the documentation or of a comment each, which the code does not keep (section 7) | as above |

Why these are enough.  One reuse of a pid tells identity from pid.  A property
of a nice value compares at most the original, what procfit wanted and what
somebody else set, and only equality matters, so three values suffice; in
`session_*` a fourth lets two targets want different values.  Operations treat
bindings independently, so one process per question is enough for nice and stop
except where two targets share it (`manager_shared`); the safeguards need a
second, protected pid, and an earlier run with another parent one target that
has it.  The cgroup guard compares one path with procfit's, and
the five cgroups are the cases: root, above, own, another session, unrelated.
Three saves are the least with which a save overlaps one that overlaps another.
Two names are the least with which one request's save could lose another's.

For the observation pass, three starts on one pid are two reuses, one on each
side of a listing; two pids let a collector find one process gone and another
there; one semaphore place makes two goroutines wait.  In `observe` the bounds
are on the size of an input.  Three operators over two fields reach every rule
of precedence and association; five characters hold a quote, an escape and what
follows them; three processes make a group of one and a group of two, with every
combination of present and absent values that an aggregate or a comparison
distinguishes.  Of the screen, six events are enough to ask for an action, let
the world and the timer move, type into a prompt and confirm, and each session
offers the keys that can disturb one another.

Deadlock checking is off in the session, store, `collectors` and `observe`
runs: when the bounds are spent, or the question is answered, nothing is left to
happen.  The manager runs check it.

Fairness, in `session_live`, `tick_error` and `collectors` only.  `Sample` and `Reconcile`
are weakly fair because `Engine.Run` samples whenever its ticker fires and the
Go scheduler runs the goroutine that waits; each step of an accepted connection
and of the final save is weakly fair for the same reason.  In `collectors` only
the steps of a scan are (`WF_vars(Scan)`): its goroutines and the one that
waits for them are runnable and the scheduler runs them.  Requests, reloads,
commands, shutdown, kills and everything the kernel does are not fair.  No
liveness is claimed of `Manager`, a library that its callers need not call, or
of `StateStore`, whose power losses may come at any time.

## 5. Proofs

`ManagerProofs` proves, for every set of pids, cgroups, nice values, names,
policies, requests and states an earlier run may have left, from
`ConstantsAssumption`, `RequestsAssumption` and `LoadsAssumption` only:

* `TypeCorrect`: `Spec => []TypeOK`;
* `InductiveInvariant`: `Spec => []IInv`.  `StopOwned` speaks only of bindings
  of the process that has the pid now, so a step that starts a new process
  would break it if a binding could be of a process still to come.
  `KnownIncarnations` excludes that, and the conjunction is inductive;
* `ProtectedPids` (`ProtectedOnlyInherited`), `StopsAreOwn`: two of its conjuncts,
  on their own;
* `OriginalsAreStable`: `Spec => OriginalStable`;
* `ContinuesAreOwn`: `Spec => ContinueOnlyOwnStop`, from the invariant.

The argument is in two halves.  The lemmas `...Evolves` say, once per action,
how a step may change a binding and the process behind it (`Evolves`,
`ProcessesEvolve`); every invariant and action property is then derived from
that summary and never looks at an action again.

It also proves the rest of what the runs check of `Manager`, from the same
assumptions and invariant:

* `DriftIsExplained`: `Spec => []DriftExplained`;
* `OnlyBoundAreReniced`, `RestoresRespectDrift`, `DryRunsActOnNothing`: the
  action properties `OnlyBoundReniced`, `RestoreRespectsDrift` and
  `DryRunActsOnNothing`.

Here the summary is `NiceCall`: every operation that writes nice values rewrites
the bindings of one target, and each process it wrote is bound there with its
original.  The argument for drift is then about two targets at most: a record
that disagrees with the kernel is of a pid that was refused (`past`), touched by
somebody else, or written for another target that holds it.

`StateStoreProofs` proves, for every number of writers, values, saves and power
losses, from `StoreAssumption` and the assumption that nobody else writes the
file (`MaxSpoils = 0`, stated in each theorem):

* `StoreInvariant`: `StoreInv` is inductive.  That the file is whole in memory
  does not follow from itself: a rename publishes a temporary file and a power
  loss brings back an old entry.  `Published` (every inode the name points to,
  or may point to on disk, is whole and synced), `Private` (temporary files are
  distinct and not among those) and `Prepared` (a file about to be renamed is
  whole and synced) supply that; `Quiet` says that nothing is ever quarantined;
* `WholeOrAbsent`: `NeverHalfWritten` is invariant;
* `StoreImplementsCell`: every step of the store is a step of `DurableCell` or
  a stutter, under the mapping of `ImplementsCell`, in which a crash may bring
  back what the file has held since the last save that returned (`since`), where
  directories are synced.

`SessionProofs` proves, for every number of connections, requests, commands,
reloads, kills and outside changes, from `SessionAssumption` and the assumptions
of `Manager`:

* `SessionTypes`: every state a manager holds, has encoded or has saved is well
  formed.  No hypothesis;
* `AnswersAreSaved`: `AckedIntentsSaved` is invariant;
* `SavesKeepOriginals`: `SavedOriginalsKept`;
* `OriginalsAreOthers`: `OriginalNotOurs` is invariant.

`AnswersAreSaved` and `SavesKeepOriginals` are about behaviours in which the users of the file take turns, and
say so (`Spec /\ []TakingTurns => ...`): no command runs beside the daemon, and
the daemon has one answer, or its final save, under way.  Without that they are
false, and TLC shows it: two connections that encode in one order and write in
the other, a stop beside a connection, a command beside the daemon (run
`cli_beside_daemon`).  `DryOnlyRestores` is a condition on the requests, needed for the
answers only: a dry `set-nice` records its intent in memory and the next save writes it, a dry
`unmanage` is carried out.  `NothingLetGo` is needed for the originals only: a
`manage` of a name that exists lets the processes go that the new selector does
not choose.  All of these are in section 7.  The conditions leave everything
else to chance: ticks, reloads, outside changes, failing saves and kills between any two
steps.

The invariants carry what was answered from one place to the next: it is in the
manager's targets from the operation on, in the encoded state from `marshal` on,
in the file from `write` on (`IntentsKept`); nobody else has a buffer older than
that (`BuffersCurrent`), which is where turns are needed.  A failing save leaves
memory ahead of the file, so the file may keep a target that memory has dropped;
`OriginalsSafe`, which does the same for originals, leaves those (`dropped`) out,
and so does the property: a request may create the target anew and capture afresh.

`OriginalsAreOthers` needs less: only that no command runs beside the daemon
(`OneManager`); connections, their saves and the final save may overlap as they
like. A second manager does break it: it knows nothing of what the first has
captured since the file was written. `OriginalNotOurs` is not inductive, since
it says nothing of a process of which nobody has an original: that one may be
captured next. `OriginalsTheirs` adds `Accounted`, for the manager that runs or,
when none does, for the file, which the next one loads: every nice value is in
`foreign`, or its process is held. What an operation does to that is one lemma
per operation of the manager (`Transfers`: what is held stays held unless the
target drops it, what is newly held has the value found, and only a held process
is reniced), and one argument for all of them (`TransferKeeps`).

`AssemblyProofs` proves, for every set of pids, any number of processes and
reuses of a pid, every command and every order of listings, kernel moves and
collectors, from `SamplerAssumption`, `WindowsAssumption` and
`AssemblyAssumption` only:

* `SamplerInvariant`: `Spec => []IInv`;
* `RatesAreOwn`: `RateIsOwnGrowth` is invariant;
* `RatesDoAppear`: `RatesAppear`;
* `NamesAreOwn`: `HostCacheOwn`.

A rate is a difference of two numbers read at unknown moments, so the invariant
brackets them: `HistoryOK` orders the counters at the beginning of three
listings and now, `ListingOK` and `PreviousOK` say of every number read which
two of those it lies between, and `SnapshotOK` bounds the rate by them.  That the
counters are those of one process comes from `KernelOK`: a start keeps its pid,
and a pid has one running process.  `NamesOK` says for both generations of the
cache which listing their keys are of.  A step is first summed up, by what it
does to the processes (`KernelMoves`) and to the snapshot (`OnlyEnriched`), and
only the steps that begin or end a listing are looked at one by one.

`CollectorProofs` proves of the same specification, from the same assumptions,
for every choice of collectors and any number of groups, events and places:

* `CollectorsInvariant`: `Spec => [](IInv /\ CollectorsOK)`;
* `OneSourceOfWakeups`: `WakeupsFromOneSource` is invariant;
* `NothingIsLeft`: `CollectorsLeaveNothing`;
* `WindowsMeasureOwn`: `Spec => WindowRateOwn`, the part of `WindowMeasuresOwn`
  that is about processes (schedstat, both sources of wakeups, perf).

`FigureProofs` proves the rest of it, about the clients of the GPU:

* `GpuInvariant`: `Spec => [](IInv /\ CollectorsOK /\ GpuOK)`;
* `CollectorsMeasureOwn`: `Spec => WindowMeasuresOwn`, the property of the run;

and what is shown of the machine, from `HostAssumption` (finitely many
processors and zones, natural bounds) only:

* `HostInvariant`: `Spec => []HostOK`;
* `HostFigures`: `HostFiguresMeasured` is invariant.

`TurnOK` says that one collector runs, and that who sleeps, has groups open or
has goroutines is that one.  The other conjuncts are each of one collector:
`WindowOK` ties its first readings to the counters its window opened with,
`PerfOK` the open descriptors to the groups of the batch, `ScanOK` the
goroutines that are through to the counts in their rows, and `WakeupsOK` follows
the metric through both its sources.  A step leaves the conjuncts of the
collectors that do not run as they are because it leaves their metrics as they
are (`Spares`).  The map counts by pid, so `WindowOK` compares differences:
what was added to a pid since the window opened is what the running process with
that pid did since then, since no process returns to a pid (`WakesMove`).

What a scan of the GPU adds up is a sum over the clients that a process has then,
so lemmas about sums come first.  There is no induction theorem to instantiate: that a sum is
the sum of the rest and one term is shown by the natural numbers being well
founded, applied to the sizes of the sets for which it fails.  From it follow
that a sum of naturals is a natural, is monotone, takes differences term by term,
and does not see the terms that are 0.  `GpuOK` says that the first scan added up
what the clients that the process had then had been busy, and that no client's
counter has gone back since; the two scans are then compared term by term.

`HostOK` needs no other invariant.  While a host collector sleeps, `PowerOpen` and
`CstateOpen` tie its first readings to the marks taken of the machine with them.
For power, a backend that can read some zone of a domain gives what those zones
used (`WattsAreUsed`, zone by zone), the others no value, so the first one with a
value is the first that could read (`MergedIsUsed`).  For idle time, the sum over
the processors left at the end is compared term by term with the first one
(`IdleGrowth`): it is what they idled in the window, or less when some have gone.

`ExplorerProofs` proves, whatever `Screen` supplies:

* `ExplorerInvariant`: `Explored => []Asked`;
* `ConfirmedIsAsked`: `Explored => ActsOnWhatWasAsked`;
* `WayOut`: `Explored => []AlwaysAWayOut`;
* `CursorsStay`: `Explored /\ []RowsListed => CursorsOnScreen`.

`Asked` says that between turns either nothing is asked (`Calm`), or the question
on the screen is `chosen`, the one the keys asked: same kind, same pids, same
rows, and the number in the prompt once it was given; and that no query is owed.
It is inductive because the refresh is suspended while a prompt is open and
because a query follows only keys that close one (`QuestionKept`); everything
else a key can do leaves a model that asks nothing as one that asks nothing, one
lemma `...Calm` per group of handlers.

`CursorsStay` uses `ExplorerAssumption` (keys are strings, spellings are
sequences of them, the catalog is a sequence), and its hypothesis `RowsListed`
says that the rows to see of the answer on the screen are a list. They are in
the code, a slice, and in `Screen`, a sequence that a RECURSIVE operator
flattens, of which no theorem can speak here; wherever rows change the model
takes their length, so the run would stop at an answer without one. The
invariant is `Sited`: cursors and offsets are numbers, the line and its history
are texts and the text cursor is in the line (`Placed`). That a cursor is on a
row that is shown is not invariant, since a resize leaves it where it is, so it
is shown of a step: `Turned` says of a key that it leaves the rows alone, that a
key after which a query is owed has neither folded nor moved the key map, and
that cursors which moved are on something shown; then the query puts the table's
cursor on one of its rows (`ShowsPlaced`) and the picker where it was. `Alike`
is the short way for the keys that place no cursor.

`ConfigProofs` proves, for every registry and expression language, and every file
the decoders let pass, from `ConfigAssumption` only (what is decoded has its type,
the order visits every preset, no other layer is named):

* `ConfigReloads`: `Configured => []ConvertReloads`;
* `PresetsSearched`: `Configured => []PresetCyclesRefused`;
* `SilentFiles`: `Configured => []SilentFileUnheard`.

A task is answered once, by what the code computes (`ConfigInv`), so the work is
in the operators, two of which recurse: the visit of a preset, and the loop over
presets or precedence tokens, a fold.  TLA+ defines a recursive function by a
CHOICE, so that there is such a function has to be shown before anything else:
`ChainRecursion` builds it for a recursion that goes from one argument to one
smaller argument, size by size, and `FoldExists` applies that to folds.  Then
the two sides of `PresetsSearched` are inductions over the number of presets not
yet visited.  If a visit ends well, its preset is black, nothing is gray that was
not before, and the black presets, with all their parents, have no round trip
(`VisitFinds`, `Sound`): a preset turns black after its parent, so it is the parent
of none that was black before.  If there is no missing
parent and no round trip then a visit does end well, because the gray presets are
the chain it came down, each the child of the next (`VisitPasses`, `Chained`).
`ConfigReloads` goes block by block (`PresetReloads`, `RuleReloads`,
`WrittenKeys`): a key is left out of the file only where reading it fills the same
value in, which for the leaf and the use of the daemon is so because validation
has refused the empty one.  `SilentFiles` is about the other end of the same
defaults: normalisation fills in metrics, sort keys and durations, and no layer may
take that for something the file said (`SilentLayer`).

Two properties were false as first stated, and the proofs showed it.
`WindowRateOwn` spoke of every figure in the row when a window closes; a figure
of a collector that ran before is of an earlier window, so it now speaks of what
the step changed.  `WakeupsFromOneSource` promised a value to every process whose
files are readable now; an exec may have given them back after the reading, so it
promises one where no process executes another program.

Only model-checked:

* `Converges`, `KeepsUp`, `ScansReturn`: liveness under fairness.
* The properties `Observe` itself states (`TextReadsBack`, `FieldsSuffice`,
  `CollectedSuffices`, `GroupsHoldEverything`, `HavingKeepsMatches`, `TopRowsShown`,
  `ListingOrderIrrelevant`): `Expr` and `Query` recurse over trees of expressions and rows
  with RECURSIVE operators.  `KeysMakeGoodQueries` (`Screen`) says that
  the explorer's flags parse, so it is about those operators too.  That `Observe`,
  which extends them, does with a configuration what `Configured` says is by its
  text: its steps for these tasks are the actions of `Config`.
* The store with foreign writers, which can spoil the file.

## 6. Plan

Done: the three towers of section 2 and the proofs of section 5.  Next:

1. The places of the semaphore (`Scans`).
2. The daemon's loop over the slice of targets, by index and by pointer, while
   connections append and remove (`control/reconcile.go:54`); the error paths of
   `Load`.
3. The confirmed action of `Screen` over `Manager`, as `Session` has it for
   commands: the pid that is reused while the question is on the screen.
4. An operation of the manager split into its system calls.

### Not modelled

The identity resolvers, the renderers, the audit history, the socket protocol
and the service installation: none has state that two steps, or a failure
between them, could leave wrong.  Section 3 says what each module leaves out of
the code it does model; the tables of built-in metrics, the help texts and the
decoding of YAML are data and libraries.

## 7. Where the code and its documentation disagree

Shown by a run (`findings` in `PROJECT.json`):

* a process stopped by somebody else is continued by restore
  (`control/manager_ops.go:189`; run `pre_stopped`);
* a freeze does not compare identities (`control/manager_ops.go:248`; run
  `freeze_reused_pid`);
* commands write the file beside a running daemon (`app/control_cmds.go:173`;
  run `cli_beside_daemon`);
* one failed sample ends the daemon's loop (`daemon/run.go:92`; run
  `tick_error`).

Met while modelling, visible in the models or in the code, without a run of
their own:

* a dry-run `set-nice` records the intent, which a later save keeps
  (`control/manager.go:160`; the repository's README, line 128: "`--dry-run`
  never acts ... without touching a process, recording state");
* a dry-run `unmanage` request removes the target (`daemon/control.go:43`);
* a write that the kernel refuses leaves `Desired` recorded, and restore later
  reports drift by others (`control/manager.go:191`);
* a process that drops out of one tick's matches loses its binding, and is
  captured anew, with procfit's value, when it comes back
  (`control/manager.go:142`; `control/model.go:31` says "Original is captured
  exactly once, before the first mutation"; in `Session`, `Flicker`);
* what a policy captures and changes is not saved until the next request is: after
  a kill the next daemon captures the policy's value as the original
  (`daemon/engine.go:97`), against `control/model.go:31` and the RFC, line 1313,
  which has "atomically persist results" as a step of reconciliation.
  `OriginalNotOurs` excepts this case, as its comment says: in `Session` the value
  is `Forgotten`;
* what an earlier run took control of is restored, and pulled back from drift, with
  no look at the safeguards, also when it is this run's parent: `set pid:<shell>` from
  elsewhere and `restore` from that shell renice the shell (`app/control.go:49`,
  `control/manager_ops.go:83`), and an earlier daemon's parent or self is reached the
  same way; the RFC, from line 1349 on, and the repository's README, line 134 ("protected PIDs are skipped"), make no exception.  `ProtectedOnlyInherited`
  bounds it: nothing else of a protected pid is ever acted on;
* the freeze guard lets an ancestor of somebody else's session pass: with procfit
  outside it, `/user.slice` freezes although every login is below it
  (`control/freeze_guard.go:17`; its comment promises that "a login-session/user slice"
  is refused, and only the slice of one user and the session itself are);
* a save that fails is answered with an error, but what was done stays done, in the
  kernel and in the daemon's memory, and the next request's save writes it
  (`daemon/control.go:29`);
* the error of the directory's fsync is ignored (`state/store.go:99`): a save that
  returned may then be undone by a power loss;
* two connections may encode in one order and write in the other
  (`daemon/control.go:29`; `daemon/server.go:17`);
* the final save does not wait for the connections (`daemon/run.go:88`);
* a file that does not decode is moved aside by name, whatever was saved under
  that name in between (`state/store.go:53`);
* runtime targets in follow mode never find processes that start later, since
  only config targets are reconciled (`control/reconcile.go:56`);
* the re-application of a policy is not rate-limited;
* `Reconcile` takes the number of targets once and indexes the slice a
  connection may shorten: an `Unmanage` in between makes it panic
  (`control/reconcile.go:54`; `daemon/server.go:14` calls the server the owner of
  "the single runtime-state writer").

In the explorer:

* sorting by the last column, removing it with `-` and pressing `S` indexes past
  the columns and panics (`tui/update.go:489`; in `Screen`, `panicked`);
* a confirmed action is resolved again by pid, not by the identity that was
  shown (`app/tui.go:437`);
* an action on pids, any of which one target and no other has, is applied to all of
  that target's bindings, shown or not, and to none of the selected processes it does
  not have (`app/tui.go:185`, `428`); `tui/model.go:193` says "the action is already
  pinned to its captured pids".  `ActsOnWhatWasAsked` says how far it may reach;
* labels are cut at 24 characters, and an action on another selection with the
  same name takes the target over and rebinds it (`app/tui.go:214`);
* of two targets with the same pid but different identities the managed panel
  keeps one, and shows a live process as an orphan (`app/tui.go:322`);
* an action whose save fails has been applied and is not recorded
  (`app/tui.go:172`);
* a resize does not scroll to the cursor until the next key (`tui/model.go:209`);
* a filter stays in force after its column is removed (`tui/columns.go:151`);
* `pstate`, `wchan`, `hostname` and `tid` are offered to sort by, and the sort
  does not know them (`render/column.go:45`, `query/sort.go:75`);
* the escapes that make a bare search literal are removed by the lexer, so `c++`
  does not compile (`tui/update.go:255`, `expr/lexer.go:114`).

In the observation half:

* `config check` and the daemon look the file up without `$PROCFIT_CONFIG`, the
  view with it (`app/config.go:86`, `daemon/config.go:14`);
* `convert` loses the view of a managed rule and
  `allow_builtin_preset_override` (`config/encode.go:64`);
* a value of a setting that does not parse is dropped without an error, and a
  precedence without `args` reports a source that is not used
  (`app/settings.go:91`);
* a file that does not mention the leaf counts as giving it, since normalisation has
  filled it in, and so wins over a layer ranked lower (`config/normalize.go:13`);
* a group shows the first value of a "mixed" metric, so sorting and filtering by
  it depends on the order of the listing (`query/aggregate.go:29`);
* the counts of a group are taken before having filters its rows
  (`query/engine.go:167`);
* `status` that cannot be read leaves counters of 0 that count as read, and the
  files after `stat` may be another process's (`procfs/read.go:40`);
* the windowed collectors find processes by pid, so one whose pid was reused
  before the window opened shows its successor's rate (`procfs/schedstat.go:53`);
* power is compared by domain, so a counter that wraps hides behind one that
  grows, and a zone that becomes readable adds its whole counter
  (`procfs/power_collect.go:143`);
* a backend that cannot be read at the first collection is not a source for the
  rest of the session: hwmon with every sensor unreadable is left out, and its
  reason never shown (`procfs/power_source.go:77`; the comment at line 16 says
  "one present but currently unreadable is still returned so its reason
  surfaces");
* in a domain where hwmon has both sensors that count energy and sensors that
  show power, the latter are dropped from the sum (`procfs/power_collect.go:142`);
* a power figure of a domain some of whose zones cannot be read is that of the others,
  and is not marked so (`procfs/power_collect.go:159`);
* idle time is divided by the processors of the first reading and by the window asked
  for: processors hot-plugged in the window, and a sleep longer than it, push it past
  100 % (`procfs/cstate.go:52`).
