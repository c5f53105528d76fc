------------------------------- MODULE Session -------------------------------
(***************************************************************************)
(* procfit as it runs: the daemon and the commands of the CLI, each with a *)
(* control.Manager of its own, over one process table and one state file.  *)
(* The daemon is a ticker goroutine (sample, publish, reconcile), one      *)
(* goroutine per connection, one for SIGHUP, and Run's deferred save; all  *)
(* of them use the manager without a lock.                                 *)
(*                                                                         *)
(* A manager call is one step here, and a save is two: the state is encoded*)
(* (Marshal) and then put into the file (WriteFile), which is atomic by    *)
(* StateStore.tla, or fails (WriteFails).  The nice operations stand for   *)
(* all control operations: saving, racing and crashing do not depend on    *)
(* the kind.  A manager starts from the file, so Loads is empty here: what *)
(* other managers left comes that way.  Reconcile's loop takes the config   *)
(* targets in any order and skips one that is gone; the slice indices by   *)
(* which it runs are abstracted away.                                      *)
(***************************************************************************)
EXTENDS Control

CONSTANTS
  ManageModes, NiceRequests, StopRequests, FreezeRequests, SignalRequests,
  PolicySets, OutsideNices, OutsideStops, Forces, Loads,  \* those of Manager
  Handlers,        \* connections
  Requests,        \* what clients of the daemon ask
  Commands,        \* what CLI commands do
  Denials,         \* sets of pids the kernel may refuse to renice
  Flicker,         \* may a tick miss a process that is there (or its selector fail)?
  Bounds           \* bounds: how often each of Kinds may happen, for each scenario

Kinds == {"start", "kill", "stop", "reload", "request", "cli", "clikill", "tickerror",
          "writeerror", "kernel"}

\* A client's request or a command: nice is given for set-nice, may be for manage;
\* force counts for restore.
Request == [op : {"set-nice", "restore", "unmanage", "manage"}, name : Names,
            nice : Nices \cup {None}, dry : BOOLEAN, force : BOOLEAN]

\* What a state, in memory or in the file, has of a target.
TargetRecord == [mode : Modes, nice : Nices \cup {None}, stop : BOOLEAN \cup {None},
                 freeze : BOOLEAN \cup {None}, drift : DriftModes, active : BOOLEAN,
                 bind : Partial(Pids, Binding)]

ASSUME BoundsAssumption == Bounds \subseteq [Kinds -> Nat] /\ Flicker \in BOOLEAN

ASSUME SessionAssumption ==
  /\ Requests \subseteq {r \in Request : r.op # "manage"} /\ Commands \subseteq Request
  /\ \A r \in Requests \cup Commands : /\ r.op = "set-nice" => r.nice # None
                                       /\ r.op \in {"restore", "unmanage"} => r.nice = None
  /\ PolicySets \subseteq Partial(Names, PolicySpec) /\ Loads = {<< >>}
  /\ Denials \subseteq SUBSET Pids /\ OutsideNices \subseteq Nices
  /\ "exit" \notin Handlers
  /\ \A dom \in SUBSET Targets : None \notin [dom -> TargetRecord]

VARIABLES
  proc, frozen, past, last,   \* as in Manager
  up,        \* the daemon is running
  dmem,      \* the daemon: State.Targets
  latest,    \* the daemon: Engine.latest, pid to incarnation
  todo,      \* the daemon: the config targets the current tick has yet to reconcile
  ended,     \* the daemon: Engine.Run has returned an error
  job,       \* the daemon: what each connection, and Run's deferred save, is doing
  dropped,   \* history: the runtime targets the daemon has unmanaged since the file was
             \* last written
  cli,       \* the command that is running
  cmem,      \* its State.Targets
  file,      \* the state file: targets, or None
  foreign,   \* history: nice values the process now behind a pid had not from procfit,
             \* or that procfit no longer answers for
  acked,     \* history: runtime target to the nice intent last reported as done, and
             \* those of the failed requests since
  left       \* what remains of the bounds

D == INSTANCE Manager WITH targets <- dmem
C == INSTANCE Manager WITH targets <- cmem

kernel == <<proc, frozen, past, last>>
daemon == <<up, dmem, latest, todo, ended, job, dropped>>
command == <<cli, cmem>>
history == <<foreign, acked>>
vars == <<kernel, daemon, command, file, history, left>>

Savers == Handlers \cup {"exit"}
NoJob == [pc |-> "idle", req |-> None, on |-> None, buf |-> << >>]
NoCommand == [pc |-> "idle", req |-> None, on |-> None]

Spend(kind) == left[kind] > 0 /\ left' = [left EXCEPT ![kind] = @ - 1]

Live == [p \in {q \in Pids : proc[q].alive} |-> proc[p].inc]

\* Find: a runtime target stands before the config targets SetPolicies appends.
Known(tgs, name) == \E t \in DOMAIN tgs : NameOf(t) = name
Find(tgs, name) ==
  LET r == <<"runtime", name>> IN IF r \in DOMAIN tgs THEN r ELSE <<"config", name>>

\* Mutant: bindings discarded as after a reboot.
LoadedBare(f) == IF f = None THEN << >> ELSE [t \in DOMAIN f |-> [f[t] EXCEPT !.bind = << >>]]
\* What a manager starts from.
Loaded(f) == IF f = None THEN << >> ELSE f

(***************************************************************************)
(* Who answers for a nice value: the target that holds the process, that   *)
(* is, has the original of the very process now behind the pid.  Once no   *)
(* target does, what procfit left there is like any value found there, and *)
(* so is what a second target finds on a process the first one holds.      *)
(***************************************************************************)
BindsNow(m, t, p) ==
  t \in DOMAIN m /\ p \in DOMAIN m[t].bind /\ m[t].bind[p].inc = proc[p].inc
Holds(m, t, p) == BindsNow(m, t, p) /\ m[t].bind[p].orig # None

\* A target is gone, or no longer bound to the process.
Dropped(m, m2) == {p \in Pids : \E t \in DOMAIN m \ DOMAIN m2 : Holds(m, t, p)}
LetGo(m, m2) == {p \in Pids : \E t \in DOMAIN m : Holds(m, t, p) /\ ~BindsNow(m2, t, p)}
\* A second target comes to hold it.
Shared(m, m2) ==
  {p \in Pids : \E t \in DOMAIN m : \E u \in DOMAIN m2 \ {t} :
                  Holds(m, t, p) /\ ~Holds(m, u, p) /\ Holds(m2, u, p)}
\* A manager ends, and the state that outlives it has not the original.
Forgotten(m, m2) == {p \in Pids : \E t \in DOMAIN m : Holds(m, t, p) /\ ~Holds(m2, t, p)}

Disown(S) ==
  foreign' = [p \in Pids |-> IF p \in S THEN foreign[p] \cup {proc[p].nice} ELSE foreign[p]]

\* What the file holds.
Saved == IF file = None THEN << >> ELSE file

Init ==
  /\ D!Init
  /\ up = FALSE /\ latest = << >> /\ todo = {} /\ ended = FALSE
  /\ job = [s \in Savers |-> NoJob] /\ dropped = {}
  /\ cli = NoCommand /\ cmem = << >>
  /\ file = None
  /\ foreign = [p \in Pids |-> {proc[p].nice}] /\ acked = << >>
  /\ left \in Bounds

(***************************************************************************)
(* The rest of the machine.                                                *)
(***************************************************************************)
KernelStep ==
  /\ \E p \in Pids :
       \/ D!Exit(p) /\ UNCHANGED foreign
       \/ \E n \in OutsideNices, c \in Cgroups :
            D!Spawn(p, n, c) /\ foreign' = [foreign EXCEPT ![p] = {n}]
       \/ \E n \in OutsideNices :
            D!OutsideRenice(p, n) /\ foreign' = [foreign EXCEPT ![p] = @ \cup {n}]
  /\ Spend("kernel") /\ UNCHANGED <<daemon, command, file, acked>>

(***************************************************************************)
(* The daemon starts and ends.                                             *)
(***************************************************************************)
\* A config that is absent or does not load leaves the targets of the file alone.
Start ==
  /\ ~up /\ Spend("start")
  /\ up' = TRUE
  /\ \/ dmem' = Loaded(file)
     \/ \E specs \in PolicySets : dmem' = D!PoliciesInstalled(Loaded(file), specs)
  /\ Disown(Dropped(Saved, dmem'))
  /\ UNCHANGED <<kernel, latest, todo, ended, job, dropped, command, file, acked>>

Gone ==
  /\ up' = FALSE /\ dmem' = << >> /\ latest' = << >> /\ todo' = {} /\ ended' = FALSE
  /\ job' = [s \in Savers |-> NoJob] /\ dropped' = {}

Kill ==
  /\ up /\ Spend("kill") /\ Gone /\ Disown(Forgotten(dmem, Saved))
  /\ UNCHANGED <<kernel, command, file, acked>>

\* Serve returns when the context is cancelled, and Run's deferred save begins;
\* nobody waits for the other goroutines.
Stop ==
  /\ up /\ job["exit"] = NoJob /\ Spend("stop")
  /\ job' = [job EXCEPT !["exit"].pc = "marshal"]
  /\ UNCHANGED <<kernel, up, dmem, latest, todo, ended, dropped, command, file, history>>

(***************************************************************************)
(* The ticker goroutine.                                                   *)
(***************************************************************************)
\* What a tick may see.  Mutant: the previous generation published again.
ScannedAgain == {IF latest = << >> THEN Live ELSE latest}
Scanned == {Restrict(Live, S) : S \in IF Flicker THEN SUBSET DOMAIN Live ELSE {DOMAIN Live}}

Sample ==
  /\ up /\ ~ended /\ todo = {}
  /\ latest' \in Scanned
  /\ todo' = {t \in DOMAIN dmem : Origin(t) = "config"}
  /\ UNCHANGED <<kernel, up, dmem, ended, job, dropped, command, file, history, left>>

\* A selector matches every process of the instance.
Reconcile ==
  /\ \E t \in todo :
       /\ todo' = todo \ {t}
       /\ IF t \in DOMAIN dmem THEN \E denied \in Denials : D!ReconcileTarget(t, latest, denied)
          ELSE UNCHANGED <<kernel, dmem>>
  /\ Disown(LetGo(dmem, dmem') \cup Shared(dmem, dmem'))
  /\ UNCHANGED <<up, latest, ended, job, dropped, command, file, acked, left>>

\* Sample returns an error: Engine.Run returns it, and its goroutine drops it.
TickError ==
  /\ up /\ ~ended /\ todo = {} /\ Spend("tickerror")
  /\ ended' = TRUE
  /\ UNCHANGED <<kernel, up, dmem, latest, todo, job, dropped, command, file, history>>

\* A bad config changes nothing.
Reload ==
  /\ up /\ Spend("reload")
  /\ \E specs \in PolicySets : D!SetPolicies(specs)
  /\ Disown(Dropped(dmem, dmem'))
  /\ UNCHANGED <<up, latest, todo, ended, job, dropped, command, file, acked>>

(***************************************************************************)
(* A connection: ensureTarget, the operation, then the save.               *)
(***************************************************************************)
Receive(h, r) ==
  /\ up /\ job[h] = NoJob /\ Spend("request")
  /\ IF r.op = "set-nice" /\ ~Known(dmem, r.name)
     THEN \/ D!Manage(<<"runtime", r.name>>, "follow", latest)
          \/ \E p \in DOMAIN Live : D!Manage(<<"runtime", r.name>>, "snapshot", Restrict(Live, {p}))
     ELSE UNCHANGED <<kernel, dmem>>
  /\ job' = [job EXCEPT ![h] = [NoJob EXCEPT !.pc = "op", !.req = r]]
  /\ UNCHANGED <<up, latest, todo, ended, dropped, command, file, history>>

\* An operation on a target that is not there is an error and ends the request.
Operate(h) ==
  /\ job[h].pc = "op"
  /\ LET r == job[h].req
         t == Find(dmem, r.name)
         after == IF r.dry THEN NoJob ELSE [job[h] EXCEPT !.pc = "marshal", !.on = t]
     IN  \/ /\ ~Known(dmem, r.name)
            /\ job' = [job EXCEPT ![h] = NoJob] /\ UNCHANGED <<kernel, dmem, dropped>>
         \/ /\ Known(dmem, r.name) /\ job' = [job EXCEPT ![h] = after]
            /\ dropped' = dropped \cup {u \in {t} : r.op = "unmanage" /\ Origin(u) = "runtime"}
            /\ \E denied \in Denials :
                 \/ r.op = "set-nice" /\ D!SetNice(t, r.nice, r.dry, denied)
                 \/ r.op = "restore" /\ D!Restore(t, r.force, r.dry, denied, {}, {})
                 \/ r.op = "unmanage" /\ D!Unmanage(t)
  /\ Disown(Dropped(dmem, dmem') \cup Shared(dmem, dmem'))
  /\ UNCHANGED <<up, latest, todo, ended, command, file, acked, left>>

\* Mutant: the file is written as it was read.
MarshalledFile(s) ==
  /\ job[s].pc = "marshal"
  /\ job' = [job EXCEPT ![s].pc = "write", ![s].buf = Loaded(file)]
  /\ UNCHANGED <<kernel, up, dmem, latest, todo, ended, dropped, command, file, history, left>>

Marshal(s) ==
  /\ job[s].pc = "marshal"
  /\ job' = [job EXCEPT ![s].pc = "write", ![s].buf = dmem]
  /\ UNCHANGED <<kernel, up, dmem, latest, todo, ended, dropped, command, file, history, left>>

\* The intents reported as done once request r, which acted on t, is answered.  Those
\* of config targets are not kept: a reload puts the rule back.
SaysIntent(r, t) == Origin(t) = "runtime" /\ (r.op = "manage" => r.nice # None)

Acknowledged(r, t) ==
  CASE ~SaysIntent(r, t) -> acked
    [] SaysIntent(r, t) /\ r.op = "unmanage" -> Restrict(acked, DOMAIN acked \ {t})
    [] OTHER -> [u \in DOMAIN acked \cup {t} |-> IF u = t THEN {r.nice} ELSE acked[u]]

\* The same once an error is answered, or nothing: the file may say either.
Attempted(r, t) ==
  CASE ~SaysIntent(r, t) -> acked
    [] SaysIntent(r, t) /\ r.op = "unmanage" -> Restrict(acked, DOMAIN acked \ {t})
    [] OTHER -> [u \in DOMAIN acked |-> IF u = t THEN acked[u] \cup {r.nice} ELSE acked[u]]

WriteFile(s) ==
  /\ job[s].pc = "write"
  /\ file' = job[s].buf
  /\ IF s = "exit" THEN Gone /\ Disown(Forgotten(dmem, job[s].buf)) /\ UNCHANGED acked
     ELSE /\ job' = [job EXCEPT ![s] = NoJob] /\ dropped' = {}
          /\ acked' = Acknowledged(job[s].req, job[s].on)
          /\ UNCHANGED <<up, dmem, latest, todo, ended, foreign>>
  /\ UNCHANGED <<kernel, command, left>>

\* A save fails, before the rename or after it: the client is told so, what was done
\* stays in memory, and a later save writes it.  A daemon killed between the rename
\* and the answer is this followed by Kill.
WriteFails(s) ==
  /\ job[s].pc = "write" /\ Spend("writeerror")
  /\ file' \in {file, job[s].buf}
  /\ IF s = "exit" THEN Gone /\ Disown(Forgotten(dmem, Saved')) /\ UNCHANGED acked
     ELSE /\ job' = [job EXCEPT ![s] = NoJob]
          /\ dropped' = IF file' = file THEN dropped ELSE {}
          /\ acked' = Attempted(job[s].req, job[s].on)
          /\ UNCHANGED <<up, dmem, latest, todo, ended, foreign>>
  /\ UNCHANGED <<kernel, command>>

(***************************************************************************)
(* A command of the CLI: load, ensure or manage, operate, save.            *)
(***************************************************************************)
CliLoad(r) ==
  /\ cli = NoCommand /\ Spend("cli")
  /\ cmem' = Loaded(file)
  /\ cli' = [NoCommand EXCEPT !.pc = "bind", !.req = r]
  /\ UNCHANGED <<kernel, daemon, file, history>>

CliBind ==
  /\ cli.pc = "bind" /\ cli' = [cli EXCEPT !.pc = "op"]
  /\ LET r == cli.req
         t == IF Known(cmem, r.name) THEN Find(cmem, r.name) ELSE <<"runtime", r.name>>
     IN  IF r.op = "manage" \/ (r.op = "set-nice" /\ ~Known(cmem, r.name))
         THEN \/ C!Manage(t, "follow", Live)
              \/ \E p \in DOMAIN Live : C!Manage(t, "snapshot", Restrict(Live, {p}))
         ELSE UNCHANGED <<kernel, cmem>>
  /\ Disown(LetGo(cmem, cmem'))
  /\ UNCHANGED <<daemon, file, acked, left>>

CliOperate ==
  /\ cli.pc = "op"
  /\ LET r == cli.req
         t == Find(cmem, r.name)
     IN  \/ /\ ~Known(cmem, r.name) /\ cli' = NoCommand /\ cmem' = << >>
            /\ Disown(Forgotten(cmem, Saved)) /\ UNCHANGED kernel
         \/ /\ Known(cmem, r.name) /\ cli' = [cli EXCEPT !.pc = "save", !.on = t]
            /\ \E denied \in Denials :
                 \/ r.op \in {"set-nice", "manage"} /\ r.nice # None
                    /\ C!SetNice(t, r.nice, r.dry, denied)
                 \/ r.op = "manage" /\ r.nice = None /\ UNCHANGED <<kernel, cmem>>
                 \/ r.op = "restore" /\ C!Restore(t, r.force, r.dry, denied, {}, {})
                 \/ r.op = "unmanage" /\ C!Unmanage(t)
            /\ Disown(Dropped(cmem, cmem') \cup Shared(cmem, cmem'))
  /\ UNCHANGED <<daemon, file, acked, left>>

CliSave ==
  /\ cli.pc = "save"
  /\ cli' = NoCommand /\ cmem' = << >>
  /\ IF cli.req.dry THEN Disown(Forgotten(cmem, Saved)) /\ UNCHANGED <<file, acked>>
     ELSE file' = cmem /\ acked' = Acknowledged(cli.req, cli.on) /\ UNCHANGED foreign
  /\ UNCHANGED <<kernel, daemon, left>>

\* The command ends with an error, and its memory with it.
CliSaveFails ==
  /\ cli.pc = "save" /\ ~cli.req.dry /\ Spend("writeerror")
  /\ file' \in {file, cmem} /\ Disown(Forgotten(cmem, Saved'))
  /\ acked' = Attempted(cli.req, cli.on)
  /\ cli' = NoCommand /\ cmem' = << >>
  /\ UNCHANGED <<kernel, daemon>>

CliKill ==
  /\ cli # NoCommand /\ Spend("clikill")
  /\ cli' = NoCommand /\ cmem' = << >>
  /\ Disown(Forgotten(cmem, Saved))
  /\ UNCHANGED <<kernel, daemon, file, acked>>

Next ==
  \/ KernelStep
  \/ Start \/ Kill \/ Stop
  \/ Sample \/ Reconcile \/ TickError \/ Reload
  \/ \E h \in Handlers : \E r \in Requests : Receive(h, r)
  \/ \E h \in Handlers : Operate(h)
  \/ \E s \in Savers : Marshal(s) \/ WriteFile(s) \/ WriteFails(s)
  \/ \E r \in Commands : CliLoad(r)
  \/ CliBind \/ CliOperate \/ CliSave \/ CliSaveFails \/ CliKill

Spec == Init /\ [][Next]_vars

\* The ticker fires again and again, and the goroutine it wakes is scheduled;
\* connections and the deferred save are scheduled too.
Fairness ==
  /\ WF_vars(Sample) /\ WF_vars(Reconcile)
  /\ \A h \in Handlers : WF_vars(Operate(h))
  /\ \A s \in Savers : WF_vars(Marshal(s)) /\ WF_vars(WriteFile(s))

FairSpec == Spec /\ Fairness

(***************************************************************************)
(* Properties.                                                             *)
(***************************************************************************)
\* What a client was told is done is what the file says: after the answer to a
\* set-nice or a restore, and through crashes, restarts, ticks, reloads, other requests
\* and their failing saves, the file has the target with that intent, or with that of a
\* later request for it that failed, until it is asked to be unmanaged.
AckedIntentsSaved ==
  \A t \in DOMAIN acked :
    /\ file # None /\ t \in DOMAIN file
    /\ file[t].nice \in acked[t]

\* A captured original, wherever it is kept, is a nice value the process had from
\* somebody else, or procfit's own that no target answered for when it was captured.
\* These are: what a target left that was unmanaged, removed from the config or bound
\* anew without the process; what another target that holds the process set; and what a
\* manager set that was killed, or ended with a failing or no save, before the file had
\* the original.  Of a tick's captures that last case is no exotic one, nothing saves
\* them but the next request.  Short of these, whatever saves, crashes, restarts, reloads
\* and ticks came between, no target takes for the original what procfit set.
OriginalNotOurs ==
  \A m \in {dmem, cmem, Saved} : \A t \in DOMAIN m : \A p \in DOMAIN m[t].bind :
    Holds(m, t, p) => m[t].bind[p].orig \in foreign[p]

\* No save loses an original: while a process lives and its runtime target stays in the
\* file, the file keeps the original it has for it.  Excepted is a target that the daemon
\* has unmanaged and that a failed save, or the want of one after a dry run, left in the
\* file: should a request create it anew, the next save writes the new one.
SavedOriginalsKept ==
  [][file # None =>
       \A t \in DOMAIN file \ dropped : Origin(t) = "runtime" =>
         /\ file' # None
         /\ t \in DOMAIN file' =>
              \A p \in DOMAIN file[t].bind :
                file[t].bind[p].orig # None /\ Revalidate(file[t].bind[p], proc[p]) =>
                  p \in DOMAIN file'[t].bind /\ file'[t].bind[p].orig = file[t].bind[p].orig]_vars

\* A policy that re-applies and a process that stays alive.
Governed(p, n) ==
  /\ up /\ ~ended /\ proc[p].alive /\ CheckPID(p)
  /\ \E t \in DOMAIN dmem : /\ Origin(t) = "config"
                            /\ dmem[t].nice = n /\ dmem[t].drift = "reapply"

\* Reapply converges: whatever others and requests did to a process, if from some
\* time on a re-applying policy governs it, it ends up with the policy's value.
Converges ==
  \A p \in Pids, n \in NiceRequests : <>[]Governed(p, n) => <>[](proc[p].nice = n)

\* What the daemon publishes catches up with the processes there are.
KeepsUp == []<>(~up \/ latest = Live)
==============================================================================
