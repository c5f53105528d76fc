----------------------------- MODULE MCAssembly ------------------------------
EXTENDS Assembly

\* A command and its query, with the kernel's moves it is checked against.
Ask(mode, wants, h, count, kinds, n) ==
  [mode |-> mode, wants |-> wants, host |-> h, count |-> count, kinds |-> kinds, moves |-> n,
   rate |-> TRUE, instant |-> FALSE, threads |-> FALSE, hostname |-> FALSE,
   pids |-> {1}, names |-> {Unset}, denials |-> {FALSE}]

SmallScenarios == {
  Ask("ps", {}, "none", 1, {"life", "work"}, 5),
  [Ask("tui", {}, "none", 3, {"life", "threads", "time"}, 5) EXCEPT !.threads = TRUE],
  [Ask("tui", {}, "none", 3, {"life", "exec"}, 4) EXCEPT !.hostname = TRUE, !.names = Names \cup {Unset}, !.denials = BOOLEAN],
  [Ask("stat", {}, "none", 2, {"life", "work", "time", "signal", "exec", "pipe"}, 5) EXCEPT !.hostname = TRUE, !.denials = BOOLEAN],
  [Ask("stat", {"schedstat", "perf"}, "none", 1, {"life", "work"}, 4) EXCEPT !.denials = BOOLEAN],
  [Ask("stat", {"ebpf", "sched"}, "none", 2, {"life", "work"}, 3) EXCEPT !.pids = {1, 2}, !.denials = BOOLEAN],
  [Ask("tui", {"ebpf", "sched"}, "none", 2, {"work", "exec"}, 3) EXCEPT !.denials = BOOLEAN],
  [Ask("stat", {"perf"}, "none", 1, {"life", "work", "signal"}, 4) EXCEPT !.pids = {1, 2}],
  Ask("stat", {"gpu"}, "none", 1, {"life", "gpu", "signal"}, 6),
  [Ask("stat", {"fd", "socket"}, "none", 1, {"life", "fds", "signal"}, 3) EXCEPT !.pids = {1, 2}],
  Ask("stat", {}, "cstate", 1, {"host"}, 5),
  Ask("stat", {}, "power", 2, {"host"}, 4),
  Ask("stat", {}, "battery", 1, {}, 0)}

OneProcess == <<1>>

TwoClients == [c \in {1, 2} |->
  IF c = 1 THEN [engine |-> "render", id |-> TRUE, fds |-> 2, reports |-> {"ns", "cycles"}]
           ELSE [engine |-> "copy", id |-> TRUE, fds |-> 1, reports |-> {"cycles"}]]

SomeKinds  == [f \in 1..3 |-> <<"socket", "pipe", "eventfd">>[f]]
SomeInodes == [f \in 1..3 |-> IF f = 1 THEN 7 ELSE 0]

SomeZones == [z \in 1..5 |->
  CASE z = 1 -> [backend |-> "powercap", domain |-> "pkg", kind |-> "energy"]
    [] z = 2 -> [backend |-> "powercap", domain |-> "pkg", kind |-> "energy"]
    [] z = 3 -> [backend |-> "hwmon", domain |-> "pkg", kind |-> "energy"]
    [] z = 4 -> [backend |-> "battery", domain |-> "system", kind |-> "instant"]
    [] z = 5 -> [backend |-> "hwmon", domain |-> "pkg", kind |-> "instant"]]

SomeFitted == {1..4, {3, 4}, {1, 2}, {3, 5}, {}}

Bat(status, has) == [present |-> TRUE, status |-> status, has |-> has]
Charges == {[charge |-> 2, charge_full |-> 4, current |-> 1], [charge |-> 3, charge_full |-> 4],
            [energy |-> 5, energy_full |-> 5, power |-> 2], [capacity |-> 50],
            [charge |-> 1, charge_full |-> 2, current |-> 2, capacity |-> 50]}
AllBatteries == {Bat(st, h) : st \in {"Charging", "Discharging", "Full"}, h \in Charges}
NoBay == [present |-> FALSE, status |-> "Unknown", has |-> [capacity |-> 0]]
SomeBatteries == {<<>>, <<NoBay>>} \cup AllBatteries \X (AllBatteries \cup {NoBay})
=============================================================================
