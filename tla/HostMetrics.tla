----------------------------- MODULE HostMetrics -----------------------------
(***************************************************************************)
(* The readings of the whole machine (internal/procfs/cstate.go,           *)
(* power_collect.go, power_source.go, battery.go).  C-state residency and  *)
(* the energy counters are measured over a window like the collectors of   *)
(* module Windows; the meters of power are merged by domain; batteries are *)
(* added up.                                                               *)
(***************************************************************************)
EXTENDS Integers, Sequences, FiniteSets, Functions

CONSTANTS
  Cpus,        \* processors
  MaxIdle,     \* bound: how long a processor idles in one window
  Zones,       \* files of power readings
  Fitted,      \* the sets of zones a machine may have
  ZoneInfo,    \* the backend, domain and kind of each
  MaxEnergy,   \* an energy counter wraps after this value
  Batteries    \* what the slots for batteries may report

ASSUME HostAssumption ==
  /\ IsFiniteSet(Cpus) /\ MaxIdle \in Nat
  /\ IsFiniteSet(Zones) /\ Fitted \subseteq SUBSET Zones /\ MaxEnergy \in Nat

VARIABLES
  idle,        \* deep idle time of every processor
  online,      \* processors whose idle states are exposed
  energy,      \* the value of every zone
  locked,      \* zones only root may read
  present,     \* zones that are there
  supply,      \* what every slot for a battery reports
  measuring,   \* the first readings of a host collector that is sleeping; done
  host,        \* the host metrics of the pass
  sources      \* the backends of power that were discovered, once known

machine == <<idle, online, energy, locked, present, supply>>
hosts == <<measuring, host, sources>>

Val(v) == [avail |-> "available", val |-> v]
Gone(reason) == [avail |-> reason, val |-> 0]
Shown(v) == v.avail = "available"
Quiet == [on |-> "none", sum |-> 0, cpus |-> 0, zones |-> <<>>, machine |-> <<>>, after |-> <<>>]

HostInit ==
  /\ idle \in [Cpus -> {0, MaxIdle + 1}] /\ online \in SUBSET Cpus
  /\ energy = [z \in Zones |-> 0]
  /\ present \in Fitted /\ locked \in SUBSET present
  /\ supply \in Batteries
  /\ measuring = Quiet /\ host = <<>> /\ sources = [known |-> FALSE, ids |-> {}]

(***************************************************************************)
(* The machine.  How long a processor may idle in a window is not known:   *)
(* the collector sleeps for the window or longer.                          *)
(***************************************************************************)

Hotplug(c) ==
  /\ online' \in {online \ {c}, online \cup {c}}
  /\ UNCHANGED <<idle, energy, locked, present, supply>>

Chmod(z) ==
  /\ locked' \in {locked \ {z}, locked \cup {z}}
  /\ UNCHANGED <<idle, online, energy, present, supply>>

Used(z) ==
  /\ energy' = [energy EXCEPT ![z] = (@ + 1) % (MaxEnergy + 1)]
  /\ UNCHANGED <<idle, online, locked, present, supply>>

Idles(c) ==
  /\ measuring.on = "cstate" /\ idle[c] < measuring.machine.idle[c] + MaxIdle
  /\ idle' = [idle EXCEPT ![c] = @ + 1]
  /\ UNCHANGED <<online, energy, locked, present, supply>>

(***************************************************************************)
(* C-states.                                                               *)
(***************************************************************************)

\* readDeep: residency summed over the processors that expose idle states.
DeepOK  == online # {}
DeepSum == SumFunctionOnSet(idle, online)

Marks == [idle |-> idle, online |-> online, energy |-> energy, locked |-> locked]

CstateFirst ==
  /\ measuring = Quiet
  /\ IF DeepOK
     THEN /\ measuring' = [Quiet EXCEPT !.on = "cstate", !.sum = DeepSum, !.cpus = Cardinality(online),
                                        !.machine = Marks]
          /\ UNCHANGED host
     ELSE host' = [cstate |-> Gone("unsupported")] /\ measuring' = [Quiet EXCEPT !.on = "done"]
  /\ UNCHANGED <<machine, sources>>

\* The residency of the window.  It is shown in parts of the window that was asked
\* for, however long the sleep was, times the processors of the first reading.
CstateSecond ==
  /\ measuring.on = "cstate"
  /\ host' = [cstate |-> IF ~DeepOK \/ DeepSum < measuring.sum THEN Gone("warming_up")
                         ELSE Val(DeepSum - measuring.sum)]
  /\ measuring' = [measuring EXCEPT !.on = "done", !.after = Marks]
  /\ UNCHANGED <<machine, sources>>

(***************************************************************************)
(* Power.                                                                  *)
(***************************************************************************)

Backends == [powercap |-> 1, hwmon |-> 2, battery |-> 3]
First(bs) == CHOOSE b \in bs : \A c \in bs : Backends[b] <= Backends[c]
Domains  == {ZoneInfo[z].domain : z \in Zones}
ZonesOf(b) == {z \in present : ZoneInfo[z].backend = b}

\* PowerSource.Read: of the zones that cannot be read powercap says so, hwmon
\* says nothing, and a battery has no reading yet.
Read(b, now) ==
  LET reason == IF b = "powercap" THEN "permission_denied" ELSE "warming_up"
      zs == IF b = "hwmon" THEN ZonesOf(b) \ now.locked ELSE ZonesOf(b) IN
  [z \in zs |-> IF z \in now.locked THEN Gone(reason) ELSE Val(now.energy[z])]

Answering(bs, now) == {b \in bs : DOMAIN Read(b, now) # {}}

\* init: the backends that answer the first time are the sources from then on.
Discovered ==
  IF sources.known THEN sources ELSE [known |-> TRUE, ids |-> Answering(DOMAIN Backends, Marks)]

IsEnergy(z) == ZoneInfo[z].kind = "energy"
HasEnergy(r) == \E z \in DOMAIN r : IsEnergy(z)

\* Without an energy counter nobody waits for the window, and nothing read at
\* its end is used.
PowerFirst ==
  /\ measuring = Quiet
  /\ sources' = Discovered
  /\ IF Discovered.ids = {}
     THEN /\ host' = [d \in Domains |-> Gone("unsupported")]
          /\ measuring' = [Quiet EXCEPT !.on = "done", !.machine = Marks, !.after = Marks]
     ELSE /\ measuring' = [Quiet EXCEPT !.on = "power", !.machine = Marks,
                                        !.zones = [b \in Answering(Discovered.ids, Marks) |-> Read(b, Marks)]]
          /\ UNCHANGED host
  /\ UNCHANGED machine

\* sumEnergy, sumInstant: the readings of a domain that could be read.
Readable(r, d, energies) == {z \in DOMAIN r : IsEnergy(z) = energies /\ ZoneInfo[z].domain = d /\ Shown(r[z])}
Total(r, zs) == SumFunctionOnSet([z \in zs |-> r[z].val], zs)

\* Mutant: a zone that cannot be read counts as zero.
WattsOrZero(r1, r2, d) ==
  LET of(r) == {z \in DOMAIN r : ZoneInfo[z].domain = d} IN
  IF Total(r2, of(r2)) < Total(r1, of(r1)) THEN Gone("warming_up")
  ELSE Val(Total(r2, of(r2)) - Total(r1, of(r1)))

\* wattsFrom: what one backend says of a domain.  Energy goes before power.
Watts(r1, r2, d) ==
  LET e1 == Readable(r1, d, TRUE)
      e2 == Readable(r2, d, TRUE)
      i1 == Readable(r1, d, FALSE) IN
  IF e1 # {} THEN IF e2 = {} \/ Total(r2, e2) < Total(r1, e1) THEN Gone("warming_up")
                  ELSE Val(Total(r2, e2) - Total(r1, e1))
  ELSE IF i1 # {} THEN Val(Total(r1, i1))
  ELSE r1[CHOOSE z \in DOMAIN r1 : ZoneInfo[z].domain = d]

\* mergeDomain: the first backend in order that knows the domain, or the first
\* that has a value.
Merge(vs) ==
  LET shown == {b \in DOMAIN vs : Shown(vs[b])} IN
  IF DOMAIN vs = {} THEN Gone("unsupported") ELSE vs[First(IF shown # {} THEN shown ELSE DOMAIN vs)]

Knowing(r1, d) == {b \in DOMAIN r1 : \E z \in DOMAIN r1[b] : ZoneInfo[z].domain = d}

\* The second readings, of the backends that count energy.
Second(r1, b) == IF HasEnergy(r1[b]) THEN Read(b, Marks) ELSE <<>>

PowerSecond ==
  /\ measuring.on = "power"
  /\ LET r1 == measuring.zones IN
     host' = [d \in Domains |-> Merge([b \in Knowing(r1, d) |-> Watts(r1[b], Second(r1, b), d)])]
  /\ measuring' = [measuring EXCEPT !.on = "done", !.after = Marks]
  /\ UNCHANGED <<machine, sources>>

(***************************************************************************)
(* Batteries.  A battery reports some of the fields charge, charge_full,   *)
(* current, energy, energy_full, power and capacity.                       *)
(***************************************************************************)

Installed == {b \in DOMAIN supply : supply[b].present}
Statuses  == {supply[b].status : b \in Installed}

Reporting(field) == {b \in Installed : field \in DOMAIN supply[b].has}
Every(field) == Reporting(field) = Installed
AddUp(field) == SumFunctionOnSet([b \in Reporting(field) |-> supply[b].has[field]], Reporting(field))
Doing(st) == st \in Statuses

\* batTotals.state: what all do, or what those do that are not idle.
BatteryState ==
  IF \A st, other \in Statuses : st = other THEN CHOOSE st \in Statuses : TRUE
  ELSE IF Doing("Discharging") /\ ~Doing("Charging") THEN "Discharging"
  ELSE IF Doing("Charging") /\ ~Doing("Discharging") THEN "Charging"
  ELSE "Mixed"

\* What drivers report: charge and current, or energy and power.
Fields == <<[now |-> "charge", full |-> "charge_full", rate |-> "current"],
            [now |-> "energy", full |-> "energy_full", rate |-> "power"]>>

Both(f) == Every(f.now) /\ Every(f.full)
Preferred(usable) == Fields[IF 1 \in usable THEN 1 ELSE 2]

\* batTotals.level: the part of the full charge, else the mean capacity.
BatteryLevel ==
  LET usable == {i \in 1..2 : Both(Fields[i]) /\ AddUp(Fields[i].full) > 0}
      f == Preferred(usable) IN
  IF usable # {} THEN Val(<<AddUp(f.now), AddUp(f.full)>>)
  ELSE IF Every("capacity") THEN Val(<<AddUp("capacity"), Cardinality(Installed)>>)
  ELSE Gone("unsupported")

\* batTotals.remaining: what is left to drain, or to fill.
Remaining(f) ==
  IF ~Doing("Charging") THEN AddUp(f.now)
  ELSE IF AddUp(f.full) > AddUp(f.now) THEN AddUp(f.full) - AddUp(f.now) ELSE 0

\* batTotals.timeLeft.
TimeLeft ==
  LET usable == {i \in 1..2 : Both(Fields[i]) /\ Every(Fields[i].rate) /\ AddUp(Fields[i].rate) > 0}
      f == Preferred(usable) IN
  IF ~Doing("Charging") /\ ~Doing("Discharging") THEN Gone("warming_up")
  ELSE IF (Doing("Charging") /\ Doing("Discharging")) \/ usable = {} THEN Gone("unsupported")
  ELSE Val(<<Remaining(f), AddUp(f.rate)>>)

BatteryHost ==
  /\ measuring = Quiet
  /\ host' = IF Installed = {}
             THEN [state |-> IF DOMAIN supply = {} THEN Gone("unsupported") ELSE Val("Missing"),
                   level |-> Gone("unsupported"), left |-> Gone("unsupported"),
                   charge |-> Gone("unsupported"), energy |-> Gone("unsupported")]
             ELSE [state |-> Val(BatteryState), level |-> BatteryLevel, left |-> TimeLeft,
                   charge |-> IF Both(Fields[1]) THEN Val(AddUp("charge")) ELSE Gone("unsupported"),
                   energy |-> IF Both(Fields[2]) THEN Val(AddUp("energy")) ELSE Gone("unsupported")]
  /\ measuring' = [Quiet EXCEPT !.on = "done"]
  /\ UNCHANGED <<machine, sources>>
=============================================================================
