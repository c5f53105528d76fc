------------------------------ MODULE StateStore ------------------------------
(***************************************************************************)
(* state.Store on a file system, one system call per step, used by several *)
(* processes (and by several goroutines of the daemon) that know nothing   *)
(* of each other.                                                          *)
(*                                                                         *)
(* An inode is a file's identity and content; a name is an entry pointing  *)
(* to one.  What is in memory (`data', `entry') reaches the disk only by   *)
(* fsync: a power loss leaves an inode with its synced content or, where   *)
(* that differs, with anything, and the name state.json pointing to any    *)
(* inode it pointed to since the directory was last synced.                *)
(*                                                                         *)
(* On some file systems the fsync of a directory fails and changes         *)
(* nothing, which Save ignores (`syncs').  One that fails now and then on  *)
(* a file system that supports it is ignored as well and is left out.      *)
(*                                                                         *)
(* Chmod and Close change no state; they can fail as Write and Sync can.   *)
(***************************************************************************)
EXTENDS Integers, FiniteSets

CONSTANTS
  Writers,       \* goroutines and processes that load and save
  Values,        \* states that can be saved
  MaxSaves,      \* bound: calls of CreateTemp
  MaxLosses,     \* bound: power losses
  MaxSpoils,     \* bound: foreign overwrites of the file
  DirSyncs,      \* may the file system sync directories?  {TRUE}, {FALSE} or both
  None, Torn

ASSUME StoreAssumption ==
  /\ MaxSaves \in Nat /\ MaxLosses \in Nat /\ MaxSpoils \in Nat
  /\ DirSyncs \subseteq BOOLEAN
  /\ None \notin Values /\ Torn \notin Values /\ None # Torn

VARIABLES
  data,      \* inode to its content in memory
  synced,    \* inode to its content on disk
  entry,     \* the inode of state.json in memory, 0 when the name is absent
  onDisk,    \* the inodes state.json may name on disk
  syncs,     \* the file system syncs directories
  since,     \* history: the inodes state.json has named since a Save last returned
             \* without an error where directories are synced
  aside,     \* the inode of state.json.corrupt, 0 when absent
  pc,        \* writer to the next step of its Load or Save
  tmp,       \* writer to the inode of its temporary file, 0 when none
  val,       \* writer to the encoded state it is saving
  made, losses, spoils   \* counters, against the bounds

vars == <<data, synced, entry, onDisk, syncs, since, aside, pc, tmp, val, made, losses, spoils>>

Inodes == 1 .. MaxSaves
Entries == Inodes \cup {0}
Steps == {"idle", "quarantine", "write", "sync", "rename", "dirsync"}

TypeOK ==
  /\ data \in [Inodes -> Values \cup {Torn}] /\ synced \in [Inodes -> Values \cup {Torn}]
  /\ entry \in Entries /\ onDisk \subseteq Entries /\ onDisk # {} /\ aside \in Entries
  /\ syncs \in BOOLEAN /\ since \subseteq Entries
  /\ pc \in [Writers -> Steps] /\ tmp \in [Writers -> Entries]
  /\ val \in [Writers -> Values \cup {None}]
  /\ made \in 0 .. MaxSaves /\ losses \in 0 .. MaxLosses /\ spoils \in 0 .. MaxSpoils

Init ==
  /\ data = [i \in Inodes |-> Torn] /\ synced = [i \in Inodes |-> Torn]
  /\ entry = 0 /\ onDisk = {0} /\ aside = 0
  /\ syncs \in DirSyncs /\ since = {0}
  /\ pc = [w \in Writers |-> "idle"] /\ tmp = [w \in Writers |-> 0]
  /\ val = [w \in Writers |-> None]
  /\ made = 0 /\ losses = 0 /\ spoils = 0

(***************************************************************************)
(* Load: read the file, and move it aside if it does not decode.           *)
(***************************************************************************)
Undecodable(i) == i # 0 /\ data[i] = Torn

\* A Load that finds no file or a good one changes nothing.
ReadBad(w) ==
  /\ pc[w] = "idle" /\ Undecodable(entry)
  /\ pc' = [pc EXCEPT ![w] = "quarantine"]
  /\ UNCHANGED <<data, synced, entry, onDisk, syncs, since, aside, tmp, val, made, losses, spoils>>

\* The rename takes whatever the name points to by now; its error is ignored.
Quarantine(w) ==
  /\ pc[w] = "quarantine"
  /\ pc' = [pc EXCEPT ![w] = "idle"]
  /\ IF entry = 0 THEN UNCHANGED <<entry, aside, onDisk, since>>
     ELSE entry' = 0 /\ aside' = entry /\ onDisk' = onDisk \cup {0} /\ since' = since \cup {0}
  /\ UNCHANGED <<data, synced, syncs, tmp, val, made, losses, spoils>>

(***************************************************************************)
(* Save.                                                                   *)
(***************************************************************************)
\* An empty file does not decode.
CreateTemp(w, v) ==
  /\ pc[w] = "idle" /\ made < MaxSaves
  /\ made' = made + 1
  /\ tmp' = [tmp EXCEPT ![w] = made + 1]
  /\ val' = [val EXCEPT ![w] = v]
  /\ pc' = [pc EXCEPT ![w] = "write"]
  /\ UNCHANGED <<data, synced, entry, onDisk, syncs, since, aside, losses, spoils>>

Write(w) ==
  /\ pc[w] = "write"
  /\ data' = [data EXCEPT ![tmp[w]] = val[w]]
  /\ pc' = [pc EXCEPT ![w] = "sync"]
  /\ UNCHANGED <<synced, entry, onDisk, syncs, since, aside, tmp, val, made, losses, spoils>>

\* Mutant: no fsync of the temporary file.
SyncSkipped(w) ==
  /\ pc[w] = "sync"
  /\ pc' = [pc EXCEPT ![w] = "rename"]
  /\ UNCHANGED <<data, synced, entry, onDisk, syncs, since, aside, tmp, val, made, losses, spoils>>

Sync(w) ==
  /\ pc[w] = "sync"
  /\ synced' = [synced EXCEPT ![tmp[w]] = data[tmp[w]]]
  /\ pc' = [pc EXCEPT ![w] = "rename"]
  /\ UNCHANGED <<data, entry, onDisk, syncs, since, aside, tmp, val, made, losses, spoils>>

Rename(w) ==
  /\ pc[w] = "rename"
  /\ entry' = tmp[w] /\ onDisk' = onDisk \cup {tmp[w]} /\ since' = since \cup {tmp[w]}
  /\ tmp' = [tmp EXCEPT ![w] = 0]
  /\ pc' = [pc EXCEPT ![w] = "dirsync"]
  /\ UNCHANGED <<data, synced, syncs, aside, val, made, losses, spoils>>

\* Mutant: no fsync of the directory.
DirSyncSkipped(w) ==
  /\ pc[w] = "dirsync"
  /\ since' = IF syncs THEN {entry} ELSE since
  /\ pc' = [pc EXCEPT ![w] = "idle"] /\ val' = [val EXCEPT ![w] = None]
  /\ UNCHANGED <<data, synced, entry, onDisk, syncs, aside, tmp, made, losses, spoils>>

\* The end of a Save that returns without an error.
DirSync(w) ==
  /\ pc[w] = "dirsync"
  /\ onDisk' = IF syncs THEN {entry} ELSE onDisk
  /\ since' = IF syncs THEN {entry} ELSE since
  /\ pc' = [pc EXCEPT ![w] = "idle"] /\ val' = [val EXCEPT ![w] = None]
  /\ UNCHANGED <<data, synced, entry, syncs, aside, tmp, made, losses, spoils>>

\* Any call of Save fails and the deferred Remove cleans up, or the process dies;
\* a write may have got part of the way.
Fail(w) ==
  /\ pc[w] \in {"write", "sync", "rename"}
  /\ tmp' = [tmp EXCEPT ![w] = 0]
  /\ val' = [val EXCEPT ![w] = None] /\ pc' = [pc EXCEPT ![w] = "idle"]
  /\ UNCHANGED <<data, synced, entry, onDisk, syncs, since, aside, made, losses, spoils>>

\* The process dies where there is nothing to clean up, or the directory cannot be
\* opened: that Save has replaced the file and returns an error.
Die(w) ==
  /\ pc[w] \in {"quarantine", "dirsync"}
  /\ val' = [val EXCEPT ![w] = None] /\ pc' = [pc EXCEPT ![w] = "idle"]
  /\ UNCHANGED <<data, synced, entry, onDisk, syncs, since, aside, tmp, made, losses, spoils>>

(***************************************************************************)
(* The world (external).                                                   *)
(***************************************************************************)
PowerLoss ==
  /\ losses < MaxLosses /\ losses' = losses + 1
  /\ \E e \in onDisk : \E kept \in [Inodes -> Values \cup {Torn}] :
       /\ \A i \in Inodes : kept[i] \in IF i = e /\ data[i] # synced[i]
                                        THEN {synced[i], data[i], Torn} ELSE {synced[i]}
       /\ entry' = e /\ onDisk' = {e} /\ since' = {e} /\ data' = kept /\ synced' = kept
  /\ pc' = [w \in Writers |-> "idle"] /\ tmp' = [w \in Writers |-> 0]
  /\ val' = [w \in Writers |-> None]
  /\ UNCHANGED <<syncs, aside, made, spoils>>

Spoil ==
  /\ spoils < MaxSpoils /\ spoils' = spoils + 1
  /\ entry # 0
  /\ data' = [data EXCEPT ![entry] = Torn] /\ synced' = [synced EXCEPT ![entry] = Torn]
  /\ UNCHANGED <<entry, onDisk, syncs, since, aside, pc, tmp, val, made, losses>>

Next ==
  \/ \E w \in Writers : ReadBad(w) \/ Quarantine(w)
  \/ \E w \in Writers, v \in Values : CreateTemp(w, v)
  \/ \E w \in Writers : Write(w) \/ Sync(w) \/ Rename(w) \/ DirSync(w) \/ Fail(w) \/ Die(w)
  \/ PowerLoss
  \/ Spoil

Spec == Init /\ [][Next]_vars

(***************************************************************************)
(* Properties.                                                             *)
(***************************************************************************)
Content(i) == IF i = 0 THEN None ELSE data[i]

\* A crash never leaves a half-written state: as long as nobody else writes the
\* file, it is absent or whole, in memory and after a power loss at any point of
\* any number of overlapping saves.
NeverHalfWritten == spoils = 0 /\ entry # 0 => data[entry] \in Values

\* The store implements the durable cell: a save replaces the state in one step; where
\* directories are synced, a power loss at any time leaves what the file has held since
\* a save last returned without an error, so that save or a later one; no file is moved
\* aside unless somebody else had overwritten one.
Cell == INSTANCE DurableCell
          WITH now <- Content(entry), possible <- {Content(i) : i \in since},
               spoiled <- spoils > 0
ImplementsCell == Cell!Spec
==============================================================================
