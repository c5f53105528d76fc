----------------------------- MODULE DurableCell -----------------------------
(***************************************************************************)
(* What the runtime-state store promises: one cell that holds a whole      *)
(* state or nothing, replaced in one step, that comes back from a crash    *)
(* with a value it has held since a replacement was last acknowledged.     *)
(***************************************************************************)
CONSTANTS
  Values,   \* states that can be saved
  None,     \* no state file
  Torn      \* a file that does not decode

VARIABLES
  now,      \* what a Load would find
  possible, \* what a crash may leave
  spoiled   \* somebody else has overwritten the file

Init == now = None /\ possible = {None} /\ spoiled = FALSE

Put(v) == now' = v /\ possible' = possible \cup {v} /\ UNCHANGED spoiled

\* From here on a crash takes back nothing that came before.
Acknowledge == possible' = {now} /\ UNCHANGED <<now, spoiled>>

Crash == \E v \in possible : now' = v /\ possible' = {v} /\ UNCHANGED spoiled

\* Somebody else overwrites the file with something that does not decode.
Spoil ==
  /\ now # None /\ now' = Torn /\ spoiled' = TRUE
  /\ possible' \in {possible \cup {Torn}, (possible \ {now}) \cup {Torn}}

\* A file is moved aside only after that.  It need not be the spoiled one any more:
\* the store takes no lock, and a save may have come in between.
Discard == spoiled /\ now' = None /\ possible' = possible \cup {None} /\ UNCHANGED spoiled

Next == (\E v \in Values : Put(v)) \/ Acknowledge \/ Crash \/ Spoil \/ Discard

Spec == Init /\ [][Next]_<<now, possible, spoiled>>
==============================================================================
