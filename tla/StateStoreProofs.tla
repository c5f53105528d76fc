--------------------------- MODULE StateStoreProofs ---------------------------
(***************************************************************************)
(* Theorems about StateStore, for every number of writers, saves and power *)
(* losses, as long as nobody else writes the state file.                   *)
(***************************************************************************)
EXTENDS StateStore, TLAPS

(***************************************************************************)
(* The inductive invariant.  NeverHalfWritten alone says nothing of a      *)
(* temporary file, which a rename makes the state file, nor of what a      *)
(* power loss brings back: every inode state.json names, or may name on    *)
(* disk, must be whole and synced (Published), no temporary file may be    *)
(* one of those (Private), and it must be whole once it is to be renamed   *)
(* (Prepared).  That a finished save lasts is Anchored: the disk may bring *)
(* back only what state.json has named since.                              *)
(***************************************************************************)
Published ==
  \A i \in onDisk \ {0} : i <= made /\ data[i] \in Values /\ synced[i] = data[i]

\* The steps of a Save during which its temporary file exists.
Busy == {"write", "sync", "rename"}

Private ==
  \A w \in Writers : pc[w] \in Busy =>
    /\ tmp[w] \in Inodes /\ tmp[w] <= made /\ tmp[w] \notin onDisk /\ val[w] \in Values
    /\ \A u \in Writers \ {w} : pc[u] \in Busy => tmp[u] # tmp[w]

Prepared ==
  \A w \in Writers : /\ pc[w] \in {"sync", "rename"} => data[tmp[w]] = val[w]
                     /\ pc[w] = "rename" => synced[tmp[w]] = val[w]

Quiet == spoils = 0 /\ entry \in onDisk /\ \A w \in Writers : pc[w] # "quarantine"

Anchored == onDisk \subseteq since /\ since \subseteq onDisk

StoreInv == TypeOK /\ Published /\ Private /\ Prepared /\ Quiet /\ Anchored

LEMMA StoreInit == Init => StoreInv
  BY StoreAssumption
     DEF Init, StoreInv, TypeOK, Published, Private, Prepared, Quiet, Anchored, Busy, Entries, Inodes,
         Steps

LEMMA NothingToQuarantine ==
  ASSUME StoreInv PROVE entry = 0 \/ data[entry] \in Values
  BY DEF StoreInv, Quiet, Published

LEMMA CreateTempKeeps ==
  ASSUME StoreInv, NEW w \in Writers, NEW v \in Values, CreateTemp(w, v)
  PROVE  StoreInv'
  <1>. USE StoreAssumption DEF StoreInv, CreateTemp
  <1>1. /\ made + 1 \in Inodes /\ made' = made + 1 /\ made \in Nat
    BY DEF TypeOK, Inodes
  <1>2. TypeOK' BY <1>1 DEF TypeOK, Steps, Entries
  <1>3. \A i \in onDisk \ {0} : i \in Inodes /\ i # made + 1
    BY <1>1 DEF TypeOK, Published, Entries, Inodes
  <1>4. Published' BY <1>1, <1>3 DEF Published, Inodes
  <1>5. made + 1 \notin onDisk BY <1>1, <1>3 DEF Inodes
  <1>6. \A u \in Writers \ {w} : /\ pc'[u] = pc[u] /\ tmp'[u] = tmp[u] /\ val'[u] = val[u]
                                 /\ pc[u] \in Busy => tmp[u] # made + 1
    BY <1>1 DEF TypeOK, Private, Busy, Inodes
  <1>7. pc'[w] = "write" /\ tmp'[w] = made + 1 /\ val'[w] = v BY DEF TypeOK
  <1>8. Private'
    BY <1>1, <1>5, <1>6, <1>7 DEF Private, Busy, Inodes
  <1>9. Prepared' BY <1>6, <1>7 DEF Prepared
  <1>10. Quiet' /\ Anchored' BY <1>6, <1>7 DEF Quiet, Anchored
  <1>. QED BY <1>2, <1>4, <1>8, <1>9, <1>10

LEMMA WriteKeeps ==
  ASSUME StoreInv, NEW w \in Writers, Write(w) PROVE StoreInv'
  <1>. USE DEF StoreInv, Write
  <1>1. tmp[w] \in Inodes /\ tmp[w] \notin onDisk /\ val[w] \in Values BY DEF Private, Busy
  <1>2. TypeOK' BY <1>1 DEF TypeOK, Steps
  <1>3. \A i \in onDisk \ {0} : data'[i] = data[i] BY <1>1 DEF TypeOK, Entries
  <1>4. Published' BY <1>3 DEF Published
  <1>5. \A u \in Writers \ {w} : /\ pc'[u] = pc[u]
                                 /\ pc[u] \in Busy => data'[tmp[u]] = data[tmp[u]]
    BY <1>1 DEF TypeOK, Private, Busy
  <1>6. pc'[w] = "sync" /\ data'[tmp[w]] = val[w] BY <1>1 DEF TypeOK
  <1>7. Private' BY <1>5, <1>6 DEF Private, Busy
  <1>8. Prepared' BY <1>5, <1>6 DEF Prepared, Busy
  <1>9. Quiet' /\ Anchored' BY <1>5, <1>6 DEF Quiet, Anchored
  <1>. QED BY <1>2, <1>4, <1>7, <1>8, <1>9

LEMMA SyncKeeps ==
  ASSUME StoreInv, NEW w \in Writers, Sync(w) PROVE StoreInv'
  <1>. USE DEF StoreInv, Sync
  <1>1. /\ tmp[w] \in Inodes /\ tmp[w] \notin onDisk /\ val[w] \in Values
        /\ data[tmp[w]] = val[w]
    BY DEF Private, Prepared, Busy
  <1>2. TypeOK' BY <1>1 DEF TypeOK, Steps
  <1>3. \A i \in onDisk \ {0} : synced'[i] = synced[i] BY <1>1 DEF TypeOK, Entries
  <1>4. Published' BY <1>3 DEF Published
  <1>5. \A u \in Writers \ {w} : /\ pc'[u] = pc[u]
                                 /\ pc[u] \in Busy => synced'[tmp[u]] = synced[tmp[u]]
    BY <1>1 DEF TypeOK, Private, Busy
  <1>6. pc'[w] = "rename" /\ synced'[tmp[w]] = val[w] BY <1>1 DEF TypeOK
  <1>7. Private' BY <1>5, <1>6 DEF Private, Busy
  <1>8. Prepared' BY <1>1, <1>5, <1>6 DEF Prepared, Busy
  <1>9. Quiet' /\ Anchored' BY <1>5, <1>6 DEF Quiet, Anchored
  <1>. QED BY <1>2, <1>4, <1>7, <1>8, <1>9

LEMMA RenameKeeps ==
  ASSUME StoreInv, NEW w \in Writers, Rename(w) PROVE StoreInv'
  <1>. USE DEF StoreInv, Rename
  <1>1. /\ tmp[w] \in Inodes /\ tmp[w] <= made /\ val[w] \in Values
        /\ data[tmp[w]] = val[w] /\ synced[tmp[w]] = val[w]
    BY DEF Private, Prepared, Busy
  <1>2. TypeOK' BY <1>1 DEF TypeOK, Steps, Entries
  <1>3. Published' BY <1>1 DEF Published
  <1>4. \A u \in Writers \ {w} : /\ pc'[u] = pc[u] /\ tmp'[u] = tmp[u]
                                 /\ pc[u] \in Busy => tmp[u] # tmp[w]
    BY DEF TypeOK, Private, Busy
  <1>5. pc'[w] = "dirsync" BY DEF TypeOK
  <1>6. Private' BY <1>4, <1>5 DEF Private, Busy
  <1>7. Prepared' BY <1>4, <1>5 DEF Prepared
  <1>8. Quiet' /\ Anchored' BY <1>4, <1>5 DEF Quiet, Anchored
  <1>. QED BY <1>2, <1>3, <1>6, <1>7, <1>8

LEMMA LeaveKeeps ==
  ASSUME StoreInv, NEW w \in Writers, DirSync(w) \/ Fail(w) \/ Die(w) PROVE StoreInv'
  <1>. USE DEF StoreInv
  <1>1. /\ \A u \in Writers \ {w} : pc'[u] = pc[u] /\ tmp'[u] = tmp[u] /\ val'[u] = val[u]
        /\ pc'[w] = "idle"
        /\ data' = data /\ synced' = synced /\ entry' = entry /\ spoils' = spoils /\ made' = made
        /\ onDisk' \subseteq onDisk /\ entry \in onDisk' /\ Anchored'
    BY DEF DirSync, Fail, Die, TypeOK, Quiet, Anchored
  <1>2. TypeOK'
    <2>1. onDisk' \subseteq Entries /\ onDisk' # {} /\ since' \subseteq Entries
      BY <1>1 DEF TypeOK, Anchored
    <2>. QED BY <2>1, StoreAssumption DEF DirSync, Fail, Die, TypeOK, Steps, Entries
  <1>3. Published' BY <1>1 DEF Published
  <1>4. Private' BY <1>1 DEF Private, Busy
  <1>5. Prepared' BY <1>1 DEF Prepared
  <1>6. Quiet' BY <1>1 DEF Quiet
  <1>7. Anchored' BY <1>1
  <1>. QED BY <1>2, <1>3, <1>4, <1>5, <1>6, <1>7

\* After a power loss the file is one it named before, with the content it had.
LEMMA PowerLossKeeps ==
  ASSUME StoreInv, PowerLoss
  PROVE  /\ StoreInv'
         /\ \E e \in since : entry' = e /\ since' = {e} /\ Content(e)' = Content(e)
  <1>. USE DEF StoreInv
  <1>1. PICK e \in onDisk, kept \in [Inodes -> Values \cup {Torn}] :
           /\ \A i \in Inodes : kept[i] \in IF i = e /\ data[i] # synced[i]
                                            THEN {synced[i], data[i], Torn} ELSE {synced[i]}
           /\ entry' = e /\ onDisk' = {e} /\ since' = {e} /\ data' = kept /\ synced' = kept
    BY DEF PowerLoss
  <1>2. e \in Entries BY DEF TypeOK
  <1>3. e # 0 => e \in Inodes /\ e <= made /\ kept[e] = data[e] /\ data[e] \in Values
    BY <1>1, <1>2 DEF Published, Entries
  <1>4. \A w \in Writers : pc'[w] = "idle" BY DEF PowerLoss
  <1>5. TypeOK' BY <1>1, <1>2, StoreAssumption DEF PowerLoss, TypeOK, Steps, Entries
  <1>6. Published' BY <1>1, <1>3 DEF Published, PowerLoss
  <1>7. Private' /\ Prepared' BY <1>4 DEF Private, Prepared, Busy
  <1>8. Quiet' /\ Anchored' BY <1>1, <1>4 DEF Quiet, Anchored, PowerLoss
  <1>9. Content(e)' = Content(e) BY <1>1, <1>3 DEF Content
  <1>. QED BY <1>1, <1>5, <1>6, <1>7, <1>8, <1>9 DEF Anchored

LEMMA StoreStep ==
  ASSUME MaxSpoils = 0, StoreInv, [Next]_vars PROVE StoreInv'
  <1>1. ASSUME NEW w \in Writers, ReadBad(w) PROVE FALSE
    BY <1>1, NothingToQuarantine, StoreAssumption DEF ReadBad, Undecodable
  <1>2. ASSUME NEW w \in Writers, Quarantine(w) PROVE FALSE
    BY <1>2 DEF Quarantine, StoreInv, Quiet
  <1>3. CASE Spoil BY <1>3 DEF Spoil, StoreInv, Quiet
  <1>4. CASE UNCHANGED vars
    BY <1>4 DEF vars, StoreInv, TypeOK, Published, Private, Prepared, Quiet, Anchored
  <1>. QED BY <1>1, <1>2, <1>3, <1>4, CreateTempKeeps, WriteKeeps, SyncKeeps, RenameKeeps,
              LeaveKeeps, PowerLossKeeps DEF Next

THEOREM StoreInvariant == MaxSpoils = 0 => (Spec => []StoreInv)
  <1>1. MaxSpoils = 0 /\ StoreInv /\ [Next]_vars => StoreInv' BY StoreStep
  <1>. SUFFICES ASSUME MaxSpoils = 0 PROVE Spec => []StoreInv OBVIOUS
  <1>2. StoreInv /\ [Next]_vars => StoreInv' BY <1>1
  <1>. QED BY StoreInit, <1>2, PTL DEF Spec

\* Whatever saves overlap, fail or are cut off, and wherever the power is lost, the
\* state file is absent or whole.
THEOREM WholeOrAbsent == MaxSpoils = 0 => (Spec => []NeverHalfWritten)
  <1>. SUFFICES ASSUME MaxSpoils = 0 PROVE Spec => []NeverHalfWritten OBVIOUS
  <1>1. StoreInv => NeverHalfWritten BY DEF StoreInv, Quiet, Published, NeverHalfWritten
  <1>. QED BY <1>1, StoreInvariant, PTL

(***************************************************************************)
(* The store implements the durable cell: a rename is the cell's Put, the  *)
(* return of a save its Acknowledge where directories are synced, a power  *)
(* loss its Crash; every other step leaves the cell alone.                 *)
(***************************************************************************)
Choices == {Content(i) : i \in since}

LEMMA CellUntouched ==
  ASSUME StoreInv, entry' = entry, since' = since, \A i \in since \ {0} : data'[i] = data[i]
  PROVE  Content(entry)' = Content(entry) /\ Choices' = Choices
  <1>1. \A i \in since : Content(i)' = Content(i) BY DEF Content
  <1>2. entry \in since BY DEF StoreInv, Quiet, Anchored
  <1>. QED BY <1>1, <1>2 DEF Choices

LEMMA CellStep ==
  ASSUME MaxSpoils = 0, StoreInv, [Next]_vars
  PROVE  \/ \E v \in Values : Content(entry)' = v /\ Choices' = Choices \cup {v}
         \/ Content(entry)' = Content(entry) /\ Choices' \in {Choices, {Content(entry)}}
         \/ \E v \in Choices : Content(entry)' = v /\ Choices' = {v}
  <1>1. ASSUME NEW w \in Writers, ReadBad(w) \/ Quarantine(w) PROVE FALSE
    BY <1>1, NothingToQuarantine, StoreAssumption
       DEF ReadBad, Undecodable, Quarantine, StoreInv, Quiet
  <1>2. CASE Spoil BY <1>2 DEF Spoil, StoreInv, Quiet
  <1>3. ASSUME NEW w \in Writers, NEW v \in Values, CreateTemp(w, v)
        PROVE  Content(entry)' = Content(entry) /\ Choices' = Choices
    BY <1>3, CellUntouched DEF CreateTemp
  <1>4. ASSUME NEW w \in Writers, Write(w)
        PROVE  Content(entry)' = Content(entry) /\ Choices' = Choices
    <2>1. \A i \in since \ {0} : data'[i] = data[i]
      BY <1>4 DEF Write, StoreInv, TypeOK, Private, Anchored, Busy, Entries
    <2>. QED BY <1>4, <2>1, CellUntouched DEF Write
  <1>5. ASSUME NEW w \in Writers, Sync(w) \/ Fail(w) \/ Die(w) \/ UNCHANGED vars
        PROVE  Content(entry)' = Content(entry) /\ Choices' = Choices
    BY <1>5, CellUntouched DEF Sync, Fail, Die, vars
  <1>6. ASSUME NEW w \in Writers, Rename(w)
        PROVE  \E v \in Values : Content(entry)' = v /\ Choices' = Choices \cup {v}
    <2>1. /\ tmp[w] \in Inodes /\ val[w] \in Values /\ data[tmp[w]] = val[w]
          /\ entry' = tmp[w] /\ since' = since \cup {tmp[w]} /\ data' = data
      BY <1>6 DEF Rename, StoreInv, Private, Prepared, Busy
    <2>2. Content(tmp[w]) = val[w] BY <2>1 DEF Content, Inodes
    <2>3. \A i : Content(i)' = Content(i) BY <2>1 DEF Content
    <2>4. Content(entry)' = val[w] BY <2>1, <2>2 DEF Content, Inodes
    <2>5. Choices' = Choices \cup {val[w]} BY <2>1, <2>2, <2>3 DEF Choices
    <2>. QED BY <2>1, <2>4, <2>5
  <1>7. ASSUME NEW w \in Writers, DirSync(w)
        PROVE  Content(entry)' = Content(entry) /\ Choices' \in {Choices, {Content(entry)}}
    <2>1. entry' = entry /\ data' = data /\ since' \in {since, {entry}}
      BY <1>7 DEF DirSync
    <2>2. \A i : Content(i)' = Content(i) BY <2>1 DEF Content
    <2>. QED BY <2>1, <2>2 DEF Choices, Content
  <1>8. CASE PowerLoss
    <2>1. PICK e \in since : entry' = e /\ since' = {e} /\ Content(e)' = Content(e)
      BY <1>8, PowerLossKeeps
    <2>2. Content(entry)' = Content(e) /\ Choices' = {Content(e)} BY <2>1 DEF Choices, Content
    <2>3. Content(e) \in Choices BY <2>1 DEF Choices
    <2>. QED BY <2>2, <2>3
  <1>9. CASE UNCHANGED vars BY <1>9, CellUntouched DEF vars
  <1>. QED BY <1>1, <1>2, <1>3, <1>4, <1>5, <1>6, <1>7, <1>8, <1>9 DEF Next

\* The store implements the durable cell; in particular, where directories are synced,
\* no power loss takes back a save that returned without an error.
THEOREM StoreImplementsCell == MaxSpoils = 0 => (Spec => ImplementsCell)
  <1>. SUFFICES ASSUME MaxSpoils = 0 PROVE Spec => ImplementsCell OBVIOUS
  <1>1. Init => Cell!Init BY DEF Init, Cell!Init, Content
  <1>2. StoreInv /\ [Next]_vars => [Cell!Next]_<<Content(entry), {Content(i) : i \in since}, spoils > 0>>
    <2>. SUFFICES ASSUME StoreInv, [Next]_vars
                  PROVE  [Cell!Next]_<<Content(entry), {Content(i) : i \in since}, spoils > 0>>
      OBVIOUS
    <2>1. (spoils > 0) = FALSE /\ (spoils > 0)' = FALSE BY StoreStep DEF StoreInv, Quiet
    <2>. QED BY <2>1, CellStep DEF Choices, Cell!Next, Cell!Put, Cell!Acknowledge, Cell!Crash
  <1>. QED BY <1>1, <1>2, StoreInvariant, PTL DEF Spec, ImplementsCell, Cell!Spec
==============================================================================
