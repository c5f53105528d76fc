------------------------------ MODULE MCSession ------------------------------
(***************************************************************************)
(* Instances of Session for TLC.  A run turns a feature off by leaving its *)
(* kind out of the bounds or by giving it no requests.                     *)
(***************************************************************************)
EXTENDS Session, TLC

MCCgroups == {<<"app">>}
MCSelfCgroup == <<"app">>
FirstRun == {<< >>}

Within(f) == [k \in Kinds |-> IF k \in DOMAIN f THEN f[k] ELSE 0]

Set(name, n) == [op |-> "set-nice", name |-> name, nice |-> n, dry |-> FALSE, force |-> FALSE]
Ask(op, name) == [op |-> op, name |-> name, nice |-> None, dry |-> FALSE, force |-> FALSE]
Forced(r) == [r EXCEPT !.force = TRUE]
Dry(r) == [r EXCEPT !.dry = TRUE]
Rule(name, n, drift) == name :> [nice |-> n, stop |-> None, drift |-> drift]

NoDenials == {{}}
AnyDenials == {{}, Pids}
NoPolicies == {<< >>}
Rules == {<< >>, Rule("a", 5, "report"), Rule("a", 7, "report")}
Values == {Rule("a", 5, "reapply"), Rule("a", 7, "reapply"), Rule("a", 7, "adopt")}

SetA == {Set("a", 5)}
SetB == {Set("b", 7)}
OnAB == {Set("a", 5), Set("b", 7), Forced(Ask("restore", "a")), Ask("unmanage", "a")}
SetRestoreA == {Set("a", 5), Ask("restore", "a")}
CliOps == {Set("a", 5), Dry(Set("a", 7)), Ask("restore", "a"),
           [Set("a", 7) EXCEPT !.op = "manage"], Ask("manage", "b"), Ask("unmanage", "b")}

CrashBounds == {Within([start |-> 2, kill |-> 1, reload |-> 1, request |-> 2, tickerror |-> 1]),
                Within([start |-> 2, kill |-> 1, request |-> 3, writeerror |-> 1])}
CliBounds == {Within([cli |-> 4, clikill |-> 1, writeerror |-> 1, kernel |-> 2])}
LiveBounds == {Within([start |-> 1, stop |-> 1, reload |-> 1, request |-> 1, kernel |-> 2]),
               Within([start |-> 2, stop |-> 1, request |-> 1, writeerror |-> 1])}
CrashOrCli == CrashBounds \cup CliBounds
BothBounds == {Within([start |-> 1, request |-> 2, cli |-> 1])}
ErrorBounds == {Within([start |-> 1, tickerror |-> 1, kernel |-> 1])}
==============================================================================
