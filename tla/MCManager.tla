------------------------------ MODULE MCManager ------------------------------
(* Values for the constants of Manager. *)
EXTENDS Manager, TLC

MCRoot == << >>
MCSession == <<"user.slice", "session-1.scope">>
MCApp == <<"system.slice", "app.service">>

AppOnly == {MCApp}
AllCgroups == {MCRoot, <<"user.slice">>, MCSession, <<"session-2.scope">>, MCApp}
Sessions == {"session-1.scope", "session-2.scope"}

\* One rule, under every drift mode, with and without a nice value.
RulePolicies ==
  {<< >>} \cup {("a" :> [nice |-> n, stop |-> None, drift |-> d]) : n \in {10, None}, d \in DriftModes}
NoPolicies == {}

\* Nothing was left; or the daemon of before, started from another shell, had the
\* process that is now procfit's parent under a rule.
FirstRun == {<< >>}
ParentUnderRule ==
  FirstRun \cup {<<"config", "a">> :>
                   [NewTarget("follow") EXCEPT !.nice = 10, !.drift = "reapply", !.active = TRUE,
                      !.bind = 2 :> [inc |-> 1, orig |-> 0, want |-> 10, stop |-> FALSE]]}
\* Or an earlier command stopped a process.
LeftStopped ==
  FirstRun \cup {<<"runtime", "a">> :>
                   [NewTarget("snapshot") EXCEPT !.stop = TRUE, !.active = TRUE,
                      !.bind = 3 :> [inc |-> 1, orig |-> None, want |-> None, stop |-> TRUE]]}

\* `last' says what the step just taken was: the properties read it of a step's end and
\* no action reads it, so states that differ in nothing else are one.
View == <<proc, frozen, targets, past>>
==============================================================================
