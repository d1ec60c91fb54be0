--------------------------- MODULE SnapshotStoreProofs ---------------------------
(***************************************************************************)
(* TLAPS proofs about SnapshotStore, for every set of structures, bound and *)
(* host: types, the adopted snapshot, and, where one fault does not come    *)
(* with another, the commits and the entries of the log.                   *)
(***************************************************************************)
EXTENDS SnapshotStore, NatLemmas

-----------------------------------------------------------------------------
(* Types.                                                                  *)

DataNames     == {DataName(g, r) : g \in Gens, r \in Roles}
ManifestNames == {ManifestName(g) : g \in Gens}

\* The manifest of a snapshot that is no mix.
Sealed(i) == Manifest(i, [r \in Roles |-> Data(i)])
SealedFiles == {Sealed(i) : i \in 0..MaxIndex}

\* What a file of its name may hold: a manifest, never that of a mix.
KindOf(n) ==
  Unreadable \cup (IF n \in DataNames THEN DataFiles
                   ELSE IF n \in ManifestNames THEN SealedFiles ELSE LogFiles)

Snaps  == [gen : Gens, idx : 0..MaxIndex, crc : [Roles -> DataFiles]]
Stages == [step : {"writing", "sealing", "sealed", "failed"}, gen : Gens, idx : 0..MaxIndex,
           made : SUBSET Roles, full : SUBSET Roles]

FileTypes ==
  /\ dir \in [Names -> Contents] /\ stable \in [Names -> SUBSET Contents]
  /\ \A n \in Names : dir[n] \in stable[n] /\ stable[n] \subseteq KindOf(n)

StoreTypes ==
  /\ state \in {"down", "opening", "open"}
  /\ latest \in {NoSnap} \cup Snaps
  /\ nextGen \in 1..(MaxGen + 1)
  /\ sweep \subseteq Names
  /\ acked \in 0..MaxIndex /\ committed \in 0..MaxIndex
  /\ state = "down" => tx = NoTx /\ sweep = {} /\ latest = NoSnap

\* The data of a transaction is whole and flushed before its manifest is written.
TxTypes ==
  tx # NoTx =>
    /\ tx \in Stages /\ tx.full \subseteq tx.made
    /\ state = "open" /\ sweep \subseteq LogNames
    /\ \A r \in tx.full : /\ dir[DataName(tx.gen, r)] = Data(tx.idx)
                          /\ stable[DataName(tx.gen, r)] = {Data(tx.idx)}
    /\ tx.step # "writing" => tx.full = Roles
    /\ tx.step \in {"sealing", "sealed"} => dir[ManifestName(tx.gen)] = Sealed(tx.idx)
    /\ tx.step = "sealed" => stable[ManifestName(tx.gen)] = {Sealed(tx.idx)}

LogTypes ==
  /\ log # NoLog => log \in LogNames /\ dir[log] \notin Unreadable /\ log \notin sweep
  /\ newlog \in LogNames \cup {NoLog}
  /\ newlog # NoLog => log # NoLog

TypeInv == FileTypes /\ StoreTypes /\ TxTypes /\ LogTypes

\* Names tell files apart.
LEMMA NamesDiffer ==
  /\ \A g, h, r, s : DataName(g, r) = DataName(h, s) => g = h /\ r = s
  /\ \A g, h : ManifestName(g) = ManifestName(h) => g = h
  /\ \A g, h : LogName(g) = LogName(h) => g = h
  /\ \A g, h, r : DataName(g, r) # ManifestName(h) /\ DataName(g, r) # LogName(h)
  /\ \A g, h : ManifestName(g) # LogName(h)
  /\ \A g, r : DataName(g, r)[2] = g /\ DataName(g, r) # NoLog
  /\ \A g : ManifestName(g)[2] = g /\ LogName(g)[2] = g
  /\ \A g : ManifestName(g) # NoLog /\ LogName(g) # NoLog
  BY DEF DataName, ManifestName, LogName, NoLog

LEMMA NamesAre ==
  /\ \A g \in Gens, r \in Roles : DataName(g, r) \in Names \cap SnapNames \cap DataNames
  /\ \A g \in Gens : ManifestName(g) \in (Names \cap SnapNames \cap ManifestNames) \ DataNames
  /\ \A n \in LogNames : n \in Names /\ n \notin DataNames /\ n \notin ManifestNames /\ n \notin SnapNames
  /\ \A g \in 0..MaxGen : LogName(g) \in LogNames
  /\ SnapNames = DataNames \cup ManifestNames /\ Names = LogNames \cup SnapNames
  /\ \A n \in SnapNames : n[2] \in Gens
  /\ \A n \in LogNames : n[2] \in 0..MaxGen /\ n = LogName(n[2]) /\ n # NoLog
  /\ \A n \in Names : n[2] \in 0..MaxGen
<1>1. Gens \subseteq 0..MaxGen
  BY BoundsAssumption DEF Gens
<1>2. /\ SnapNames = DataNames \cup ManifestNames /\ Names = LogNames \cup SnapNames
      /\ \A g \in 0..MaxGen : LogName(g) \in LogNames
  BY DEF SnapNames, Names, DataNames, ManifestNames, LogNames
<1>3. \A g \in Gens, r \in Roles : DataName(g, r) \in DataNames
  BY DEF DataNames
<1>4. \A g \in Gens : ManifestName(g) \in ManifestNames /\ ManifestName(g) \notin DataNames
  BY NamesDiffer DEF ManifestNames, DataNames
<1>5. \A n \in LogNames : /\ n \notin DataNames /\ n \notin ManifestNames
                          /\ n[2] \in 0..MaxGen /\ n = LogName(n[2]) /\ n # NoLog
  BY NamesDiffer DEF LogNames, ManifestNames, DataNames
<1>6. \A n \in SnapNames : n[2] \in Gens
  BY <1>2, NamesDiffer DEF ManifestNames, DataNames
<1> QED
  BY <1>1, <1>2, <1>3, <1>4, <1>5, <1>6

\* The files of each kind and their fields.
LEMMA FilesAre ==
  /\ \A i \in 0..MaxIndex : Data(i) \in DataFiles /\ Data(i) \notin Unreadable
  /\ \A i, j : Data(i) = Data(j) => i = j
  /\ \A b, l \in 0..MaxIndex : Log(b, l) \in LogFiles /\ Log(b, l) \notin Unreadable
  /\ \A b, l : Log(b, l).base = b /\ Log(b, l).last = l
  /\ \A f \in LogFiles : f.base \in 0..MaxIndex /\ f.last \in 0..MaxIndex /\ f \notin Unreadable
  /\ \A i \in 0..MaxIndex : Sealed(i) \in SealedFiles /\ Sealed(i) \notin Unreadable
  /\ \A i : Sealed(i).idx = i /\ Sealed(i).crc = [r \in Roles |-> Data(i)]
  /\ \A f \in SealedFiles : /\ f.idx \in 0..MaxIndex /\ f.crc \in [Roles -> DataFiles]
                            /\ f = Sealed(f.idx) /\ f \notin Unreadable
  /\ SealedFiles \subseteq ManifestFiles
<1>1. \A i \in 0..MaxIndex : Data(i) \in DataFiles
  BY DEF DataFiles
<1>2. \A b, l \in 0..MaxIndex : Log(b, l) \in LogFiles
  BY DEF LogFiles
<1>3. ASSUME NEW i \in 0..MaxIndex
      PROVE  Sealed(i) \in ManifestFiles /\ Sealed(i) \in SealedFiles
  <2>1. [r \in Roles |-> Data(i)] \in [Roles -> DataFiles]
    BY <1>1
  <2>2. Sealed(i) \in ManifestFiles
    BY <2>1 DEF Sealed, ManifestFiles
  <2>3. Sealed(i) \in SealedFiles
    BY DEF SealedFiles
  <2> QED
    BY <2>2, <2>3
<1>4. \A i, j : Data(i) = Data(j) => i = j
  BY DEF Data
<1>5. \A b, l : Log(b, l).base = b /\ Log(b, l).last = l
  BY DEF Log
<1>6. \A i : Sealed(i).idx = i /\ Sealed(i).crc = [r \in Roles |-> Data(i)]
  BY DEF Sealed, Manifest
<1>7. \A f \in LogFiles : f.base \in 0..MaxIndex /\ f.last \in 0..MaxIndex
  BY <1>5 DEF LogFiles
<1>8. ASSUME NEW f \in SealedFiles
      PROVE  f.idx \in 0..MaxIndex /\ f.crc \in [Roles -> DataFiles] /\ f = Sealed(f.idx)
  <2>1. PICK i \in 0..MaxIndex : f = Sealed(i)
    BY DEF SealedFiles
  <2>2. [r \in Roles |-> Data(i)] \in [Roles -> DataFiles]
    BY <1>1
  <2> QED
    BY <2>1, <2>2, <1>6
<1>9. SealedFiles \subseteq ManifestFiles
  BY <1>3 DEF SealedFiles
<1>10. Unreadable \cap (DataFiles \cup LogFiles \cup ManifestFiles) = {}
  BY MarkersAssumption
<1> QED
  BY <1>1, <1>2, <1>3, <1>4, <1>5, <1>6, <1>7, <1>8, <1>9, <1>10

LEMMA KindsAre ==
  /\ \A g \in Gens, r \in Roles : KindOf(DataName(g, r)) = Unreadable \cup DataFiles
  /\ \A g \in Gens : KindOf(ManifestName(g)) = Unreadable \cup SealedFiles
  /\ \A n \in LogNames : KindOf(n) = Unreadable \cup LogFiles
  /\ \A n : KindOf(n) \subseteq Contents
<1>1. \A g \in Gens, r \in Roles : DataName(g, r) \in DataNames
  BY NamesAre
<1>2. \A g \in Gens : ManifestName(g) \in ManifestNames /\ ManifestName(g) \notin DataNames
  BY NamesAre
<1>3. \A n \in LogNames : n \notin DataNames /\ n \notin ManifestNames
  BY NamesAre
<1>4. SealedFiles \subseteq ManifestFiles
  BY FilesAre
<1> QED
  BY <1>1, <1>2, <1>3, <1>4 DEF KindOf, Contents

-----------------------------------------------------------------------------
(* What a step does to the files.                                          *)

Touched(n, c, S) ==
  /\ dir' = [dir EXCEPT ![n] = c]
  /\ stable' = [stable EXCEPT ![n] = S]

LEMMA Touching ==
  ASSUME FileTypes, NEW n \in Names, NEW S \in SUBSET KindOf(n), NEW c \in S, Touched(n, c, S)
  PROVE  /\ FileTypes'
         /\ dir'[n] = c /\ stable'[n] = S
         /\ \A m \in Names \ {n} : dir'[m] = dir[m] /\ stable'[m] = stable[m]
<1>1. S \in SUBSET Contents /\ c \in Contents
  BY KindsAre
<1>2. dir \in [Names -> Contents] /\ stable \in [Names -> SUBSET Contents]
  BY DEF FileTypes
<1>3. /\ dir' \in [Names -> Contents] /\ stable' \in [Names -> SUBSET Contents]
      /\ dir'[n] = c /\ stable'[n] = S
      /\ \A m \in Names \ {n} : dir'[m] = dir[m] /\ stable'[m] = stable[m]
  BY <1>1, <1>2 DEF Touched
<1>4. ASSUME NEW m \in Names PROVE dir'[m] \in stable'[m] /\ stable'[m] \subseteq KindOf(m)
  <2>1. CASE m = n
    BY <1>3, <2>1
  <2>2. CASE m # n
    BY <1>3, <2>2 DEF FileTypes
  <2> QED
    BY <2>1, <2>2
<1>5. FileTypes'
  BY <1>3, <1>4 DEF FileTypes
<1> QED
  BY <1>3, <1>5

\* What a power cut leaves of a file, the host could have seen; so could what the end of the
\* process leaves.
LEMMA CrashedFiles ==
  ASSUME FileTypes, Crash \/ Kill
  PROVE  /\ FileTypes'
         /\ \A n \in Names : dir'[n] \in stable[n]
         /\ Crash => \A n \in Names : stable'[n] = {dir'[n]}
<1>1. /\ dir' \in CrashedDirs
      /\ stable' = [n \in Names |-> {dir'[n]}] \/ stable' = stable
      /\ Crash => stable' = [n \in Names |-> {dir'[n]}]
  BY DEF Crash, Kill
<1>2. /\ dir \in [Names -> Contents] /\ stable \in [Names -> SUBSET Contents]
      /\ \A n \in Names : dir[n] \in stable[n] /\ stable[n] \subseteq KindOf(n)
  BY DEF FileTypes
<1> DEFINE U == {n \in Names : stable[n] # {dir[n]}}
<1>3. PICK f \in [U -> UNION {stable[n] : n \in U}] :
        (\A n \in U : f[n] \in stable[n])
          /\ dir' = [n \in Names |-> IF n \in U THEN f[n] ELSE dir[n]]
  BY <1>1 DEF CrashedDirs
<1>4. /\ DOMAIN dir' = Names
      /\ \A n \in Names : dir'[n] = IF n \in U THEN f[n] ELSE dir[n]
      /\ dir' = [n \in Names |-> dir'[n]]
  BY <1>2, <1>3
<1> HIDE DEF U
<1>5. ASSUME NEW n \in Names
      PROVE  /\ dir'[n] \in stable[n] /\ dir'[n] \in Contents /\ dir'[n] \in stable'[n]
             /\ Crash => stable'[n] = {dir'[n]}
             /\ stable'[n] \subseteq KindOf(n) /\ stable'[n] \subseteq Contents
  <2>1. dir'[n] \in stable[n]
    BY <1>2, <1>3, <1>4
  <2>2. stable'[n] = {dir'[n]} \/ stable'[n] = stable[n]
    BY <1>1
  <2>3. Crash => stable'[n] = {dir'[n]}
    BY <1>1
  <2> QED
    BY <2>1, <2>2, <2>3, <1>2
<1>6. dir' \in [Names -> Contents] /\ stable' \in [Names -> SUBSET Contents]
  <2>0. \A n \in Names : dir'[n] \in Contents /\ {dir'[n]} \in SUBSET Contents
    BY <1>5
  <2>1. dir' \in [Names -> Contents]
    <3>1. [n \in Names |-> dir'[n]] \in [Names -> Contents]
      BY ONLY <2>0, Zenon
    <3>2. dir' = [n \in Names |-> dir'[n]]
      BY ONLY <1>4, Zenon
    <3> QED
      BY ONLY <3>1, <3>2, Zenon
  <2>2. [n \in Names |-> {dir'[n]}] \in [Names -> SUBSET Contents]
    BY ONLY <2>0, Zenon
  <2>3. stable \in [Names -> SUBSET Contents]
    BY ONLY <1>2, Zenon
  <2>4. stable' = [n \in Names |-> {dir'[n]}] \/ stable' = stable
    BY ONLY <1>1, Zenon
  <2>5. stable' \in [Names -> SUBSET Contents]
    BY ONLY <2>2, <2>3, <2>4, Zenon
  <2> QED
    BY ONLY <2>1, <2>5, Zenon
<1>7. FileTypes'
  BY <1>5, <1>6 DEF FileTypes
<1> QED
  BY <1>5, <1>7

\* A manifest that is there is one of a snapshot.
LEMMA Adopting ==
  ASSUME FileTypes, NEW g \in Gens, dir[ManifestName(g)] \notin Unreadable
  PROVE  /\ dir[ManifestName(g)] \in SealedFiles
         /\ Adopted(g) \in Snaps /\ Adopted(g).gen = g /\ g # 0
         /\ Adopted(g).idx = dir[ManifestName(g)].idx
         /\ Adopted(g).crc = dir[ManifestName(g)].crc
<1>1. dir[ManifestName(g)] \in SealedFiles
  <2>1. ManifestName(g) \in Names /\ KindOf(ManifestName(g)) = Unreadable \cup SealedFiles
    BY NamesAre, KindsAre
  <2> QED
    BY <2>1 DEF FileTypes
<1>2. g # 0
  BY DEF Gens
<1> QED
  BY <1>1, <1>2, FilesAre DEF Adopted, Snaps

\* sst_scan: the next generation is above all that are there, and the newest valid one is
\* the one adopted.
LEMMA Scanning ==
  ASSUME FileTypes
  PROVE  /\ ScannedNextGen \in 1..(MaxGen + 1)
         /\ \A n \in Names : dir[n] # Absent => n[2] < ScannedNextGen
         /\ NewestValid \in 0..MaxGen
         /\ NewestValid > 0 => NewestValid \in Gens /\ Valid(NewestValid)
         /\ \A g \in Gens : Valid(g) => g <= NewestValid
         /\ NewestValid < ScannedNextGen
         /\ Adopted(NewestValid) \in {NoSnap} \cup Snaps /\ Adopted(NewestValid).gen = NewestValid
<1> DEFINE P == {0} \cup {n[2] : n \in Present}
           V == {0} \cup {g \in Gens : Valid(g)}
<1>1. P \in SUBSET (0..MaxGen) /\ P # {} /\ MaxGen \in Nat
  BY NamesAre, BoundsAssumption DEF Present
<1>2. \A n \in Names : dir[n] # Absent => n[2] \in P
  BY DEF Present
<1>3. V \in SUBSET (0..MaxGen) /\ V # {} /\ \A g \in V : g > 0 => g \in Gens /\ Valid(g)
  BY BoundsAssumption DEF Gens
<1>4. \A g \in Gens : Valid(g) => g \in V
  OBVIOUS
<1>5. ScannedNextGen = 1 + Max(P) /\ NewestValid = Max(V)
  BY DEF ScannedNextGen, NewestValid
<1> HIDE DEF P, V
<1>6. Max(P) \in P /\ \A y \in P : y <= Max(P)
  BY <1>1, MaxOfNats
<1>7. Max(V) \in V /\ \A y \in V : y <= Max(V)
  BY <1>1, <1>3, MaxOfNats
<1>8. ScannedNextGen \in 1..(MaxGen + 1) /\ \A p \in P : p < ScannedNextGen
  <2> DEFINE m == Max(P)
  <2>1. m \in P /\ ScannedNextGen = 1 + m /\ \A p \in P : p <= m
    BY <1>5, <1>6
  <2> HIDE DEF m
  <2>2. \A p \in P : p \in 0..MaxGen
    BY <1>1
  <2>3. m \in 0..MaxGen
    BY <2>1, <2>2
  <2> QED
    BY <2>1, <2>2, <2>3, <1>1
<1>9. \A n \in Names : dir[n] # Absent => n[2] < ScannedNextGen
  BY <1>2, <1>8
<1>10. /\ NewestValid \in 0..MaxGen
       /\ NewestValid > 0 => NewestValid \in Gens /\ Valid(NewestValid)
       /\ \A g \in Gens : Valid(g) => g <= NewestValid
  BY <1>3, <1>4, <1>5, <1>7
<1>11. CASE NewestValid = 0
  BY <1>1, <1>8, <1>9, <1>10, <1>11 DEF Adopted, NoSnap
<1>12. CASE NewestValid > 0
  <2>1. NewestValid \in Gens /\ dir[ManifestName(NewestValid)] \notin Unreadable
    BY <1>10, <1>12 DEF Valid
  <2>2. ManifestName(NewestValid) \in Names /\ ManifestName(NewestValid)[2] = NewestValid
    BY <2>1, NamesAre, NamesDiffer
  <2>3. NewestValid < ScannedNextGen
    BY <2>1, <2>2, <1>9 DEF Unreadable
  <2> QED
    BY <2>1, <2>3, <1>8, <1>9, <1>10, Adopting
<1> QED
  BY <1>1, <1>10, <1>11, <1>12

-----------------------------------------------------------------------------
(* Types: one lemma for each operation.                                    *)

LEMMA OpenTypes ==
  ASSUME TypeInv, Open \/ Opened \/ Close
  PROVE  TypeInv'
<1>1. FileTypes'
  BY DEF TypeInv, FileTypes, Open, Opened, Close
<1>2. CASE Open
  <2>1. tx' = NoTx
    BY <1>2 DEF Open, TypeInv, StoreTypes
  <2>2. sweep' \subseteq SnapNames /\ sweep' \subseteq Names
    BY <1>2 DEF Open, Present
  <2>3. StoreTypes'
    BY <1>2, <2>2, Scanning DEF Open, TypeInv, StoreTypes
  <2>4. LogTypes'
    BY <1>2, <2>2, NamesAre DEF Open, TypeInv, LogTypes
  <2> QED
    BY <1>1, <2>1, <2>3, <2>4 DEF TypeInv, TxTypes
<1>3. CASE Opened
  <2>1. tx = NoTx /\ tx' = tx
    BY <1>3 DEF Opened, TypeInv, TxTypes
  <2>2. StoreTypes' /\ LogTypes'
    BY <1>3 DEF Opened, TypeInv, StoreTypes, LogTypes
  <2> QED
    BY <1>1, <2>1, <2>2 DEF TypeInv, TxTypes
<1>4. CASE Close
  <2>1. tx = NoTx /\ tx' = tx /\ sweep = {} /\ sweep' = sweep
    BY <1>4 DEF Close, Idle
  <2>2. StoreTypes' /\ LogTypes'
    BY <1>4, <2>1 DEF Close, TypeInv, StoreTypes, LogTypes
  <2> QED
    BY <1>1, <2>1, <2>2 DEF TypeInv, TxTypes
<1> QED
  BY <1>2, <1>3, <1>4

\* Removing touches a name that is to be swept, or fails and touches none.
LEMMA RemoveTouches ==
  ASSUME TypeInv, NEW n \in Names, Remove(n)
  PROVE  /\ FileTypes'
         /\ stable'[n] \subseteq {Absent} \cup stable[n]
         /\ "undelete" \notin host => stable'[n] = {Absent} \/ (dir'[n] = dir[n] /\ stable'[n] = stable[n])
         /\ "locked" \notin host => dir'[n] = Absent
         /\ \A m \in Names \ {n} : dir'[m] = dir[m] /\ stable'[m] = stable[m]
<1> DEFINE S == {Absent} \cup IF "undelete" \in host THEN stable[n] ELSE {}
<1>1. Touched(n, Absent, S) \/ ("locked" \in host /\ UNCHANGED <<dir, stable>>)
  BY DEF Remove, Touched
<1>2. S \in SUBSET KindOf(n) /\ Absent \in S
  BY DEF TypeInv, FileTypes, KindOf, Unreadable
<1>3. CASE Touched(n, Absent, S)
  <2>1. /\ FileTypes' /\ dir'[n] = Absent /\ stable'[n] = S
        /\ \A m \in Names \ {n} : dir'[m] = dir[m] /\ stable'[m] = stable[m]
    BY <1>2, <1>3, Touching DEF TypeInv
  <2> QED
    BY <2>1
<1>4. CASE "locked" \in host /\ UNCHANGED <<dir, stable>>
  <2>1. FileTypes'
    BY <1>4 DEF TypeInv, FileTypes
  <2> QED
    BY <1>4, <2>1
<1> QED
  BY <1>1, <1>3, <1>4

LEMMA RemoveTypes ==
  ASSUME TypeInv, NEW n \in Names, Remove(n)
  PROVE  TypeInv'
<1>1. /\ n \in sweep /\ sweep' = sweep \ {n}
      /\ UNCHANGED <<state, latest, nextGen, tx, log, newlog, acked, committed>>
  BY DEF Remove
<1>2. FileTypes' /\ \A m \in Names \ {n} : dir'[m] = dir[m] /\ stable'[m] = stable[m]
  BY RemoveTouches
<1>3. StoreTypes'
  BY <1>1 DEF TypeInv, StoreTypes
<1>4. TxTypes'
  <2> SUFFICES ASSUME tx # NoTx PROVE TxTypes'
    BY <1>1 DEF TxTypes
  <2>1. /\ tx \in Stages /\ sweep \subseteq LogNames /\ n \in LogNames /\ tx.gen \in Gens
        /\ \A r \in tx.full : r \in Roles
    BY <1>1 DEF TypeInv, TxTypes, Stages
  <2>2. \A r \in Roles : DataName(tx.gen, r) \in Names \ {n}
    BY <2>1, NamesAre
  <2>3. ManifestName(tx.gen) \in Names \ {n}
    BY <2>1, NamesAre
  <2> QED
    BY <1>1, <1>2, <2>1, <2>2, <2>3 DEF TypeInv, TxTypes
<1>5. LogTypes'
  BY <1>1, <1>2, NamesAre DEF TypeInv, LogTypes
<1> QED
  BY <1>2, <1>3, <1>4, <1>5 DEF TypeInv

LEMMA BeginTypes ==
  ASSUME TypeInv, Begin
  PROVE  TypeInv'
<1>1. /\ UNCHANGED <<dir, stable, state, latest, nextGen, sweep, log, newlog, acked, committed>>
      /\ tx' = [step |-> "writing", gen |-> nextGen, idx |-> acked, made |-> {}, full |-> {}]
      /\ state = "open" /\ sweep = {} /\ nextGen <= MaxGen
  BY DEF Begin, Idle
<1>2. FileTypes' /\ StoreTypes' /\ LogTypes'
  BY <1>1 DEF TypeInv, FileTypes, StoreTypes, LogTypes
<1>3. nextGen \in Gens
  BY <1>1, BoundsAssumption DEF TypeInv, StoreTypes, Gens
<1>4. tx' \in Stages
  BY <1>1, <1>3 DEF TypeInv, StoreTypes, Stages
<1> QED
  BY <1>1, <1>2, <1>4 DEF TypeInv, TxTypes

\* Creating or filling a structure's file touches it alone.
LEMMA DataTouches ==
  ASSUME TypeInv, NEW r \in Roles, CreateFile(r) \/ FillFile(r)
  PROVE  LET n == DataName(tx.gen, r) IN
         /\ tx # NoTx /\ tx \in Stages /\ tx.gen \in Gens /\ tx.idx \in 0..MaxIndex
         /\ tx.step = "writing" /\ n \in Names
         /\ FileTypes'
         /\ CreateFile(r) => /\ dir'[n] = (IF dir[n] = Absent THEN Empty ELSE dir[n])
                             /\ stable'[n] = stable[n] \cup {Empty, Garbage, Data(tx.idx)}
         /\ FillFile(r) => dir'[n] = Data(tx.idx) /\ stable'[n] = {Data(tx.idx)}
         /\ \A m \in Names \ {n} : dir'[m] = dir[m] /\ stable'[m] = stable[m]
<1> DEFINE n == DataName(tx.gen, r)
<1>1. tx # NoTx /\ tx.step = "writing"
  BY DEF CreateFile, FillFile, Writing, NoTx
<1>2. tx \in Stages /\ tx.gen \in Gens /\ tx.idx \in 0..MaxIndex
  BY <1>1 DEF TypeInv, TxTypes, Stages
<1>3. n \in Names /\ KindOf(n) = Unreadable \cup DataFiles /\ Data(tx.idx) \in DataFiles
  BY <1>2, NamesAre, KindsAre, FilesAre
<1>4. dir[n] \in stable[n] /\ stable[n] \subseteq KindOf(n)
  BY <1>3 DEF TypeInv, FileTypes
<1> HIDE DEF n
<1>5. CASE CreateFile(r)
  <2> DEFINE c == IF dir[n] = Absent THEN Empty ELSE dir[n]
             S == stable[n] \cup {Empty, Garbage, Data(tx.idx)}
  <2>1. Touched(n, c, S)
    BY <1>5 DEF CreateFile, Create, Touched, n
  <2>2. S \in SUBSET KindOf(n) /\ c \in S
    BY <1>3, <1>4 DEF Unreadable
  <2>3. /\ FileTypes' /\ dir'[n] = c /\ stable'[n] = S
        /\ \A m \in Names \ {n} : dir'[m] = dir[m] /\ stable'[m] = stable[m]
    BY <2>1, <2>2, <1>3, Touching DEF TypeInv
  <2>4. ~FillFile(r)
    BY <1>5 DEF CreateFile, FillFile, TypeInv, TxTypes
  <2> QED
    BY <1>1, <1>2, <1>3, <2>3, <2>4 DEF n
<1>6. CASE FillFile(r)
  <2>1. Touched(n, Data(tx.idx), {Data(tx.idx)})
    BY <1>6 DEF FillFile, WriteDurably, Touched, n
  <2>2. {Data(tx.idx)} \in SUBSET KindOf(n)
    BY <1>3
  <2>3. /\ FileTypes' /\ dir'[n] = Data(tx.idx) /\ stable'[n] = {Data(tx.idx)}
        /\ \A m \in Names \ {n} : dir'[m] = dir[m] /\ stable'[m] = stable[m]
    BY <2>1, <2>2, <1>3, Touching DEF TypeInv
  <2>4. ~CreateFile(r)
    BY <1>6, <1>1 DEF CreateFile, FillFile, TypeInv, TxTypes
  <2> QED
    BY <1>1, <1>2, <1>3, <2>3, <2>4 DEF n
<1> QED
  BY <1>5, <1>6

LEMMA DataTypes ==
  ASSUME TypeInv, NEW r \in Roles, CreateFile(r) \/ FillFile(r)
  PROVE  TypeInv'
<1> DEFINE n == DataName(tx.gen, r)
<1>1. /\ tx # NoTx /\ tx \in Stages /\ tx.gen \in Gens /\ tx.step = "writing"
      /\ n \in Names /\ FileTypes'
      /\ FillFile(r) => dir'[n] = Data(tx.idx) /\ stable'[n] = {Data(tx.idx)}
      /\ \A m \in Names \ {n} : dir'[m] = dir[m] /\ stable'[m] = stable[m]
  BY DataTouches
<1>2. /\ UNCHANGED <<state, latest, nextGen, sweep, log, newlog, acked, committed>>
      /\ \/ CreateFile(r) /\ r \notin tx.made /\ tx' = [tx EXCEPT !.made = @ \cup {r}]
         \/ FillFile(r) /\ r \in tx.made /\ tx' = [tx EXCEPT !.full = @ \cup {r}]
  BY DEF CreateFile, FillFile
<1>3. /\ tx' \in Stages /\ tx'.gen = tx.gen /\ tx'.idx = tx.idx /\ tx'.step = "writing"
      /\ tx'.full = (IF FillFile(r) /\ r \in tx.made THEN tx.full \cup {r} ELSE tx.full)
      /\ tx'.full \subseteq tx'.made
  <2>1. CASE CreateFile(r) /\ r \notin tx.made /\ tx' = [tx EXCEPT !.made = @ \cup {r}]
    BY <1>1, <2>1 DEF Stages, TypeInv, TxTypes
  <2>2. CASE FillFile(r) /\ r \in tx.made /\ tx' = [tx EXCEPT !.full = @ \cup {r}]
    BY <1>1, <2>2 DEF Stages, TypeInv, TxTypes
  <2> QED
    BY <1>2, <2>1, <2>2
<1>4. tx.full \subseteq tx.made /\ tx.made \subseteq Roles
  BY <1>1 DEF TypeInv, TxTypes, Stages
<1>5. ASSUME NEW s \in tx'.full
      PROVE  dir'[DataName(tx.gen, s)] = Data(tx.idx) /\ stable'[DataName(tx.gen, s)] = {Data(tx.idx)}
  <2>1. CASE s = r
    <3>1. FillFile(r)
      BY <1>2, <1>3, <1>4, <2>1
    <3> QED
      BY <1>1, <2>1, <3>1
  <2>2. CASE s # r
    <3>1. s \in tx.full /\ s \in Roles
      BY <1>3, <1>4, <2>2
    <3>2. DataName(tx.gen, s) \in Names \ {n}
      BY <3>1, <2>2, <1>1, NamesAre, NamesDiffer
    <3> QED
      BY <1>1, <3>1, <3>2 DEF TypeInv, TxTypes
  <2> QED
    BY <2>1, <2>2
<1>6. TxTypes'
  BY <1>1, <1>2, <1>3, <1>5 DEF TypeInv, TxTypes
<1>7. StoreTypes'
  BY <1>1, <1>2 DEF TypeInv, StoreTypes, TxTypes
<1>8. LogTypes'
  <2>1. log # NoLog => log \in Names \ {n}
    BY <1>1, NamesAre, NamesDiffer DEF TypeInv, LogTypes, LogNames
  <2> QED
    BY <1>1, <1>2, <2>1 DEF TypeInv, LogTypes
<1> QED
  BY <1>1, <1>6, <1>7, <1>8 DEF TypeInv

\* The manifest is written for the data as it is.
LEMMA ManifestTouches ==
  ASSUME TypeInv, WriteManifest \/ FlushManifest
  PROVE  LET n == ManifestName(tx.gen) IN
         /\ tx # NoTx /\ tx \in Stages /\ tx.gen \in Gens /\ tx.idx \in 0..MaxIndex
         /\ tx.full = Roles /\ n \in Names
         /\ FileTypes'
         /\ WriteManifest => /\ tx.step = "writing" /\ dir'[n] = Sealed(tx.idx)
                             /\ stable'[n] = stable[n] \cup {Empty, Garbage, Sealed(tx.idx)}
         /\ FlushManifest => /\ tx.step = "sealing" /\ dir[n] = Sealed(tx.idx) /\ dir' = dir
                             /\ tx'.step \in {"sealed", "failed"}
                             /\ tx'.step = "sealed" => stable'[n] = {Sealed(tx.idx)}
                             /\ tx'.step = "failed" => stable' = stable /\ "flush" \in host
         /\ \A m \in Names \ {n} : dir'[m] = dir[m] /\ stable'[m] = stable[m]
<1> DEFINE n == ManifestName(tx.gen)
<1>1. tx # NoTx
  BY DEF WriteManifest, FlushManifest, Writing, NoTx
<1>2. /\ tx \in Stages /\ tx.gen \in Gens /\ tx.idx \in 0..MaxIndex
      /\ tx.step = "sealing" => tx.full = Roles /\ dir[n] = Sealed(tx.idx)
  BY <1>1 DEF TypeInv, TxTypes, Stages
<1>3. n \in Names /\ KindOf(n) = Unreadable \cup SealedFiles /\ Sealed(tx.idx) \in SealedFiles
  BY <1>2, NamesAre, KindsAre, FilesAre
<1>4. dir[n] \in stable[n] /\ stable[n] \subseteq KindOf(n)
  BY <1>3 DEF TypeInv, FileTypes
<1>5. CASE WriteManifest
  <2>1. tx.step = "writing" /\ tx.full = Roles
    BY <1>5 DEF WriteManifest, Writing
  <2>2. [r \in Roles |-> dir[DataName(tx.gen, r)]] = [r \in Roles |-> Data(tx.idx)]
    BY <1>1, <2>1 DEF TypeInv, TxTypes
  <2> DEFINE S == stable[n] \cup {Empty, Garbage, Sealed(tx.idx)}
  <2>3. Touched(n, Sealed(tx.idx), S)
    BY <1>5, <2>2 DEF WriteManifest, Write, Touched, Sealed
  <2>4. S \in SUBSET KindOf(n) /\ Sealed(tx.idx) \in S
    BY <1>3, <1>4 DEF Unreadable
  <2>5. /\ FileTypes' /\ dir'[n] = Sealed(tx.idx) /\ stable'[n] = S
        /\ \A m \in Names \ {n} : dir'[m] = dir[m] /\ stable'[m] = stable[m]
    BY <2>3, <2>4, <1>3, Touching DEF TypeInv
  <2>6. ~FlushManifest
    BY <2>1 DEF FlushManifest
  <2> QED
    BY <1>1, <1>2, <1>3, <2>1, <2>5, <2>6
<1>6. CASE FlushManifest
  <2>1. tx.step = "sealing" /\ tx.full = Roles /\ dir[n] = Sealed(tx.idx) /\ dir' = dir
    BY <1>2, <1>6 DEF FlushManifest
  <2>2. ~WriteManifest
    BY <2>1 DEF WriteManifest, Writing
  <2>3. CASE /\ stable' = [stable EXCEPT ![n] = {dir[n]}]
             /\ tx' = [tx EXCEPT !.step = "sealed"]
    <3>1. Touched(n, dir[n], {dir[n]})
      <4>1. dir' = [dir EXCEPT ![n] = dir[n]]
        BY <2>1 DEF TypeInv, FileTypes
      <4> QED
        BY <4>1, <2>3 DEF Touched
    <3>2. {dir[n]} \in SUBSET KindOf(n)
      BY <1>4
    <3>3. /\ FileTypes' /\ stable'[n] = {dir[n]}
          /\ \A m \in Names \ {n} : dir'[m] = dir[m] /\ stable'[m] = stable[m]
      BY <3>1, <3>2, <1>3, Touching DEF TypeInv
    <3>4. tx'.step = "sealed"
      BY <1>2, <2>3 DEF Stages
    <3> QED
      BY <1>1, <1>2, <1>3, <2>1, <2>2, <3>3, <3>4
  <2>4. CASE /\ "flush" \in host /\ stable' = stable
             /\ tx' = [tx EXCEPT !.step = "failed"]
    <3>1. tx'.step = "failed" /\ FileTypes'
      BY <1>2, <2>1, <2>4 DEF Stages, TypeInv, FileTypes
    <3> QED
      BY <1>1, <1>2, <1>3, <2>1, <2>2, <2>4, <3>1
  <2> QED
    BY <1>6, <2>3, <2>4 DEF FlushManifest
<1> QED
  BY <1>5, <1>6

LEMMA ManifestTypes ==
  ASSUME TypeInv, WriteManifest \/ FlushManifest
  PROVE  TypeInv'
<1> DEFINE n == ManifestName(tx.gen)
<1>1. /\ tx # NoTx /\ tx \in Stages /\ tx.gen \in Gens /\ tx.idx \in 0..MaxIndex
      /\ tx.full = Roles /\ n \in Names
      /\ FileTypes'
      /\ WriteManifest => dir'[n] = Sealed(tx.idx)
      /\ FlushManifest => /\ dir[n] = Sealed(tx.idx) /\ dir' = dir
                          /\ tx'.step = "sealed" => stable'[n] = {Sealed(tx.idx)}
      /\ \A m \in Names \ {n} : dir'[m] = dir[m] /\ stable'[m] = stable[m]
  BY ManifestTouches
<1>2. /\ UNCHANGED <<state, latest, nextGen, sweep, log, newlog, acked, committed>>
      /\ \/ WriteManifest /\ tx' = [tx EXCEPT !.step = "sealing"]
         \/ FlushManifest /\ tx' = [tx EXCEPT !.step = "sealed"]
         \/ FlushManifest /\ tx' = [tx EXCEPT !.step = "failed"]
  BY DEF WriteManifest, FlushManifest
<1>3. /\ tx' \in Stages /\ tx'.gen = tx.gen /\ tx'.idx = tx.idx /\ tx'.full = tx.full
      /\ tx'.made = tx.made /\ (tx'.step = "sealed" => FlushManifest)
  BY <1>1, <1>2 DEF Stages
<1>4. \A r \in Roles : DataName(tx.gen, r) \in Names \ {n}
  BY <1>1, NamesAre, NamesDiffer
<1>5. TxTypes'
  <2>1. \A r \in tx'.full : /\ dir'[DataName(tx.gen, r)] = Data(tx.idx)
                            /\ stable'[DataName(tx.gen, r)] = {Data(tx.idx)}
    BY <1>1, <1>3, <1>4 DEF TypeInv, TxTypes
  <2>2. tx'.full \subseteq tx'.made /\ state' = "open" /\ sweep' \subseteq LogNames
    BY <1>1, <1>2, <1>3 DEF TypeInv, TxTypes
  <2>3. dir'[n] = Sealed(tx.idx)
    BY <1>1, <1>2
  <2>4. tx'.step = "sealed" => stable'[n] = {Sealed(tx.idx)}
    BY <1>1, <1>2, <1>3
  <2> QED
    BY <1>1, <1>3, <2>1, <2>2, <2>3, <2>4 DEF TxTypes
<1>6. StoreTypes'
  BY <1>1, <1>2 DEF TypeInv, StoreTypes, TxTypes
<1>7. LogTypes'
  <2>1. log # NoLog => log \in Names \ {n}
    BY <1>1, NamesAre, NamesDiffer DEF TypeInv, LogTypes, LogNames
  <2> QED
    BY <1>1, <1>2, <2>1 DEF TypeInv, LogTypes
<1> QED
  BY <1>1, <1>5, <1>6, <1>7 DEF TypeInv

LEMMA EndTypes ==
  ASSUME TypeInv, AdoptCommitted \/ Abort
  PROVE  TypeInv'
<1>1. /\ tx # NoTx /\ tx' = NoTx /\ UNCHANGED <<dir, stable, state, log, newlog, acked>>
      /\ state = "open" /\ sweep = {}
  BY DEF AdoptCommitted, Abort, Idle, NoTx
<1>2. tx \in Stages /\ tx.gen \in Gens /\ tx.idx \in 0..MaxIndex /\ tx.made \subseteq Roles
  BY <1>1 DEF TypeInv, TxTypes, Stages
<1>3. FileTypes' /\ TxTypes'
  BY <1>1 DEF TypeInv, FileTypes, TxTypes
<1>4. CASE AdoptCommitted
  <2>1. dir[ManifestName(tx.gen)] = Sealed(tx.idx) /\ Sealed(tx.idx) \notin Unreadable
    BY <1>1, <1>2, <1>4, FilesAre DEF AdoptCommitted, TypeInv, TxTypes
  <2>2. latest' \in Snaps
    BY <1>2, <1>4, <2>1, Adopting DEF AdoptCommitted, TypeInv
  <2>3. nextGen' \in 1..(MaxGen + 1)
    <3>1. nextGen \in 1..(MaxGen + 1) /\ tx.gen + 1 \in 1..(MaxGen + 1) /\ MaxGen + 1 \in Nat
      BY <1>2, BoundsAssumption DEF TypeInv, StoreTypes, Gens
    <3>2. {nextGen, tx.gen + 1} \in SUBSET (0..(MaxGen + 1)) /\ {nextGen, tx.gen + 1} # {}
      BY <3>1
    <3>3. nextGen' \in {nextGen, tx.gen + 1}
      BY <1>4, <3>1, <3>2, MaxOfNats DEF AdoptCommitted
    <3> QED
      BY <3>1, <3>3
  <2>4. sweep' \subseteq SnapNames
    <3>1. CASE latest = NoSnap
      BY <1>4, <3>1 DEF AdoptCommitted, FilesOf
    <3>2. CASE latest \in Snaps
      BY <1>4, <3>2, NamesAre DEF AdoptCommitted, FilesOf, Snaps
    <3> QED
      BY <3>1, <3>2 DEF TypeInv, StoreTypes
  <2>5. StoreTypes'
    BY <1>1, <1>2, <1>4, <2>2, <2>3, <2>4, NamesAre DEF AdoptCommitted, TypeInv, StoreTypes
  <2>6. LogTypes'
    BY <1>1, <2>4, NamesAre DEF TypeInv, LogTypes
  <2> QED
    BY <1>3, <2>5, <2>6 DEF TypeInv
<1>5. CASE Abort
  <2>1. sweep' \subseteq SnapNames
    BY <1>2, <1>5, NamesAre DEF Abort
  <2>2. StoreTypes'
    BY <1>1, <1>5, <2>1, NamesAre DEF Abort, TypeInv, StoreTypes
  <2>3. LogTypes'
    BY <1>1, <2>1, NamesAre DEF TypeInv, LogTypes
  <2> QED
    BY <1>3, <2>2, <2>3 DEF TypeInv
<1> QED
  BY <1>4, <1>5

\* Operations on the logs touch one log file at most and write a readable log to it.
LEMMA LogTouches ==
  ASSUME TypeInv, AppendLog \/ CreateLogFile \/ CompactLog \/ OpenLog
  PROVE  /\ FileTypes'
         /\ \A n \in SnapNames : dir'[n] = dir[n] /\ stable'[n] = stable[n]
         /\ AppendLog =>
              /\ log \in LogNames /\ dir[log] \in LogFiles /\ dir[log].last < MaxIndex
              /\ dir[log].last + 1 \in 0..MaxIndex
              /\ dir'[log] = Log(dir[log].base, dir[log].last + 1) /\ stable'[log] = {dir'[log]}
              /\ \A n \in Names \ {log} : dir'[n] = dir[n] /\ stable'[n] = stable[n]
         /\ CreateLogFile => LET n == LogName(latest.gen) IN
              /\ n \in LogNames /\ n # log /\ log \in LogNames /\ dir[log] \in LogFiles
              /\ stable'[n] = stable[n] \cup {Empty, Garbage, Log(latest.idx, dir[log].last)}
              /\ \A m \in Names \ {n} : dir'[m] = dir[m] /\ stable'[m] = stable[m]
         /\ CompactLog =>
              /\ log \in LogNames /\ newlog \in LogNames /\ dir[log] \in LogFiles
              /\ dir'[newlog] = Log(latest.idx, dir[log].last) /\ stable'[newlog] = {dir'[newlog]}
              /\ \A m \in Names \ {newlog} : dir'[m] = dir[m] /\ stable'[m] = stable[m]
         /\ OpenLog =>
              /\ log' \in LogNames /\ dir'[log'] \in LogFiles
              /\ dir[log'] \notin Unreadable => dir' = dir /\ stable' = stable
              /\ dir[log'] \in Unreadable => "trust" \in host
              /\ \A m \in Names \ {log'} : dir'[m] = dir[m] /\ stable'[m] = stable[m]
<1>1. /\ \A n \in LogNames : /\ n \in Names /\ n \notin SnapNames
                             /\ KindOf(n) = Unreadable \cup LogFiles
      /\ SnapNames \subseteq Names
  BY NamesAre, KindsAre
<1>2. \A n \in LogNames : dir[n] \in stable[n] /\ stable[n] \subseteq Unreadable \cup LogFiles
  BY <1>1 DEF TypeInv, FileTypes
<1>3. latest.idx \in 0..MaxIndex /\ latest.gen \in 0..MaxGen /\ MaxIndex \in Nat
  <2>1. CASE latest = NoSnap
    BY <2>1, BoundsAssumption DEF NoSnap
  <2>2. CASE latest \in Snaps
    BY <2>2, BoundsAssumption DEF Snaps, Gens
  <2> QED
    BY <2>1, <2>2 DEF TypeInv, StoreTypes
<1>4. log # NoLog => /\ log \in LogNames /\ dir[log] \in LogFiles
                     /\ dir[log].base \in 0..MaxIndex /\ dir[log].last \in 0..MaxIndex
  BY <1>2, FilesAre DEF TypeInv, LogTypes
<1>5. /\ AppendLog => ~CreateLogFile /\ ~CompactLog /\ ~OpenLog
      /\ CreateLogFile => ~CompactLog /\ ~OpenLog
      /\ CompactLog => ~OpenLog
  <2>1. AppendLog => newlog' = newlog /\ newlog = NoLog /\ log # NoLog
    BY DEF AppendLog
  <2>2. CreateLogFile => newlog = NoLog /\ newlog' # NoLog /\ log # NoLog
    BY NamesDiffer DEF CreateLogFile
  <2>3. CompactLog => newlog # NoLog /\ log # NoLog
    BY DEF CompactLog, TypeInv, LogTypes
  <2>4. OpenLog => log = NoLog
    BY DEF OpenLog
  <2> QED
    BY <2>1, <2>2, <2>3, <2>4
<1>6. CASE AppendLog
  <2> DEFINE c == Log(dir[log].base, dir[log].last + 1)
  <2>1. log \in LogNames /\ dir[log] \in LogFiles /\ dir[log].last < MaxIndex
    BY <1>4, <1>6 DEF AppendLog
  <2>2. dir[log].last + 1 \in 0..MaxIndex
    BY <1>3, <1>4, <1>6, <2>1 DEF AppendLog
  <2>3. c \in LogFiles
    BY <1>4, <1>6, <2>2, FilesAre DEF AppendLog
  <2>4. Touched(log, c, {c})
    BY <1>6 DEF AppendLog, WriteDurably, Touched
  <2> HIDE DEF c
  <2>5. {c} \in SUBSET KindOf(log) /\ log \in Names
    BY <1>1, <2>1, <2>3
  <2>6. /\ FileTypes' /\ dir'[log] = c /\ stable'[log] = {c}
        /\ \A n \in Names \ {log} : dir'[n] = dir[n] /\ stable'[n] = stable[n]
    BY <2>4, <2>5, Touching DEF TypeInv
  <2> QED
    BY <1>1, <1>5, <1>6, <2>1, <2>2, <2>6 DEF c
<1>7. CASE CreateLogFile
  <2> DEFINE n == LogName(latest.gen)
             c == Log(latest.idx, dir[log].last)
             b == IF dir[n] = Absent THEN Empty ELSE dir[n]
             S == stable[n] \cup {Empty, Garbage, c}
  <2>1. log \in LogNames /\ dir[log] \in LogFiles /\ c \in LogFiles
    BY <1>3, <1>4, <1>7, FilesAre DEF CreateLogFile
  <2>2. n \in LogNames /\ n # log
    BY <1>3, <1>7, NamesAre DEF CreateLogFile
  <2>3. Touched(n, b, S)
    BY <1>7 DEF CreateLogFile, Create, Touched
  <2> HIDE DEF n, c
  <2>4. S \in SUBSET KindOf(n) /\ b \in S /\ n \in Names
    BY <1>1, <1>2, <2>1, <2>2 DEF Unreadable
  <2>5. /\ FileTypes' /\ stable'[n] = S
        /\ \A m \in Names \ {n} : dir'[m] = dir[m] /\ stable'[m] = stable[m]
    BY <2>3, <2>4, Touching DEF TypeInv
  <2> QED
    BY <1>1, <1>5, <1>7, <2>1, <2>2, <2>5 DEF n, c
<1>8. CASE CompactLog
  <2> DEFINE c == Log(latest.idx, dir[log].last)
  <2>1. /\ log \in LogNames /\ dir[log] \in LogFiles /\ c \in LogFiles
        /\ newlog \in LogNames
    BY <1>3, <1>4, <1>8, FilesAre DEF CompactLog, TypeInv, LogTypes
  <2>2. Touched(newlog, c, {c})
    BY <1>8 DEF CompactLog, WriteDurably, Touched
  <2> HIDE DEF c
  <2>3. {c} \in SUBSET KindOf(newlog) /\ newlog \in Names
    BY <1>1, <2>1
  <2>4. /\ FileTypes' /\ dir'[newlog] = c /\ stable'[newlog] = {c}
        /\ \A m \in Names \ {newlog} : dir'[m] = dir[m] /\ stable'[m] = stable[m]
    BY <2>2, <2>3, Touching DEF TypeInv
  <2> QED
    BY <1>1, <1>5, <1>8, <2>1, <2>4 DEF c
<1>9. CASE OpenLog
  <2>1. PICK n \in Present \cap LogNames :
          /\ LogOpens(n) /\ log' = n
          /\ IF dir[n] = Empty THEN Write(n, Log(latest.idx, latest.idx))
                               ELSE UNCHANGED <<dir, stable>>
    BY <1>9 DEF OpenLog
  <2>2. CASE dir[n] = Empty
    <3> DEFINE c == Log(latest.idx, latest.idx)
               S == stable[n] \cup {Empty, Garbage, c}
    <3>1. c \in LogFiles /\ "trust" \in host
      BY <1>3, <2>1, <2>2, FilesAre DEF LogOpens, Unreadable
    <3>2. Touched(n, c, S)
      BY <2>1, <2>2 DEF Write, Touched
    <3> HIDE DEF c
    <3>3. S \in SUBSET KindOf(n) /\ c \in S /\ n \in Names
      BY <1>1, <1>2, <2>1, <3>1 DEF Unreadable
    <3>4. /\ FileTypes' /\ dir'[n] = c
          /\ \A m \in Names \ {n} : dir'[m] = dir[m] /\ stable'[m] = stable[m]
      BY <3>2, <3>3, Touching DEF TypeInv
    <3>5. dir[n] \in Unreadable
      BY <2>2 DEF Unreadable
    <3> QED
      BY <1>1, <1>5, <1>9, <2>1, <3>1, <3>4, <3>5
  <2>3. CASE dir[n] # Empty
    <3>1. dir' = dir /\ stable' = stable /\ dir[n] \notin Unreadable
      BY <2>1, <2>3 DEF LogOpens
    <3>2. FileTypes' /\ dir'[n] \in LogFiles
      BY <3>1, <2>1, <1>2 DEF TypeInv, FileTypes
    <3> QED
      BY <1>1, <1>5, <1>9, <2>1, <3>1, <3>2
  <2> QED
    BY <2>2, <2>3
<1> QED
  BY <1>6, <1>7, <1>8, <1>9

\* The log that CompactLog leaves is not deleted by the sweep that follows.
LEMMA LogOpTypes ==
  ASSUME TypeInv, AppendLog \/ CreateLogFile \/ CompactLog \/ OpenLog
  PROVE  TypeInv'
<1>1. /\ FileTypes' /\ UNCHANGED <<state, latest, nextGen, tx, committed>>
      /\ \A n \in SnapNames : dir'[n] = dir[n] /\ stable'[n] = stable[n]
  BY LogTouches DEF AppendLog, CreateLogFile, CompactLog, OpenLog
<1>2. /\ sweep' \subseteq Names /\ (state = "down" \/ tx # NoTx => sweep' \subseteq LogNames)
      /\ state = "down" => sweep' = {}
      /\ \/ sweep' = sweep
         \/ CompactLog /\ log' = newlog /\ sweep' = {n \in Present \cap LogNames : n # newlog}
  <2>1. CASE CompactLog
    <3>1. state # "down" /\ sweep' = {n \in Present \cap LogNames : n # newlog} /\ log' = newlog
      BY <2>1 DEF CompactLog, Idle
    <3> QED
      BY <2>1, <3>1, NamesAre
  <2>2. CASE ~CompactLog
    <3>1. sweep' = sweep
      BY <2>2 DEF AppendLog, CreateLogFile, OpenLog
    <3> QED
      BY <3>1 DEF TypeInv, StoreTypes, TxTypes
  <2> QED
    BY <2>1, <2>2
<1>3. acked' \in 0..MaxIndex
  <2>1. CASE AppendLog
    <3>1. acked' = dir[log].last + 1
      BY <2>1, FilesAre DEF AppendLog
    <3> QED
      BY <2>1, <3>1, LogTouches
  <2>2. CASE ~AppendLog
    BY <2>2 DEF CreateLogFile, CompactLog, OpenLog, TypeInv, StoreTypes
  <2> QED
    BY <2>1, <2>2
<1>4. StoreTypes'
  BY <1>1, <1>2, <1>3 DEF TypeInv, StoreTypes
<1>5. TxTypes'
  <2> SUFFICES ASSUME tx # NoTx PROVE TxTypes'
    BY <1>1 DEF TxTypes
  <2>1. /\ tx \in Stages /\ tx.gen \in Gens /\ tx.full \subseteq Roles
        /\ sweep' \subseteq LogNames
    BY <1>2 DEF TypeInv, TxTypes, Stages
  <2>2. \A r \in Roles : DataName(tx.gen, r) \in SnapNames
    BY <2>1, NamesAre
  <2>3. ManifestName(tx.gen) \in SnapNames
    BY <2>1, NamesAre
  <2> QED
    BY <1>1, <2>1, <2>2, <2>3 DEF TypeInv, TxTypes
<1>6. LogTypes'
  <2>1. CASE AppendLog
    <3>1. /\ log' = log /\ newlog' = newlog /\ newlog = NoLog /\ sweep' = sweep
          /\ log \in LogNames /\ dir'[log] \in LogFiles
      BY <2>1, LogTouches, FilesAre, <1>1, NamesAre, KindsAre DEF AppendLog, TypeInv, LogTypes
    <3>2. log \notin sweep
      BY <2>1 DEF AppendLog, TypeInv, LogTypes
    <3>3. dir'[log] \notin Unreadable
      BY <3>1, FilesAre
    <3> QED
      BY <3>1, <3>2, <3>3 DEF LogTypes
  <2>2. CASE CreateLogFile
    <3>1. /\ log' = log /\ sweep' = sweep /\ newlog' \in LogNames /\ dir'[log] = dir[log]
          /\ log \in LogNames
      BY <2>2, LogTouches, NamesAre DEF CreateLogFile
    <3>2. log # NoLog
      BY <2>2 DEF CreateLogFile
    <3> QED
      BY <3>1, <3>2 DEF TypeInv, LogTypes
  <2>3. CASE CompactLog
    <3>1. log' = newlog /\ newlog' = NoLog /\ sweep' = {n \in Present \cap LogNames : n # newlog}
      BY <2>3 DEF CompactLog
    <3>2. newlog \in LogNames /\ dir'[newlog] \notin Unreadable
      <4>1. /\ newlog \in LogNames /\ dir'[newlog] \in stable'[newlog]
            /\ stable'[newlog] = {Log(latest.idx, dir[log].last)}
        BY <2>3, LogTouches
      <4>2. latest.idx \in 0..MaxIndex /\ dir[log].last \in 0..MaxIndex
        <5>1. dir[log] \in LogFiles
          BY <2>3, LogTouches
        <5> QED
          BY <5>1, FilesAre, BoundsAssumption DEF TypeInv, StoreTypes, Snaps, NoSnap
      <4> QED
        BY <4>1, <4>2, FilesAre
    <3> QED
      BY <3>1, <3>2 DEF LogTypes
  <2>4. CASE OpenLog
    <3>1. log' \in LogNames /\ dir'[log'] \notin Unreadable /\ newlog' = newlog /\ sweep' = sweep
      BY <2>4, LogTouches, FilesAre DEF OpenLog
    <3>2. log = NoLog /\ sweep = {}
      BY <2>4 DEF OpenLog, Idle
    <3> QED
      BY <3>1, <3>2 DEF TypeInv, LogTypes
  <2> QED
    BY <2>1, <2>2, <2>3, <2>4
<1> QED
  BY <1>1, <1>4, <1>5, <1>6 DEF TypeInv

LEMMA CrashTypes ==
  ASSUME TypeInv, Crash \/ Kill
  PROVE  TypeInv'
<1>1. FileTypes'
  BY CrashedFiles DEF TypeInv
<1>2. /\ state' = "down" /\ latest' = NoSnap /\ nextGen' = 1 /\ tx' = NoTx /\ sweep' = {}
      /\ log' = NoLog /\ newlog' = NoLog /\ UNCHANGED <<acked, committed>>
  BY DEF Crash, Kill
<1>3. StoreTypes'
  BY <1>2, BoundsAssumption DEF TypeInv, StoreTypes
<1>4. TxTypes' /\ LogTypes'
  BY <1>2 DEF TxTypes, LogTypes
<1> QED
  BY <1>1, <1>3, <1>4 DEF TypeInv

LEMMA InitTypes == Init => TypeInv
<1> SUFFICES ASSUME Init PROVE TypeInv
  OBVIOUS
<1>1. /\ dir = [n \in Names |-> IF n = LogName(0) THEN Log(0, 0) ELSE Absent]
      /\ stable = [n \in Names |-> {dir[n]}]
      /\ state = "down" /\ latest = NoSnap /\ nextGen = 1 /\ tx = NoTx /\ sweep = {}
      /\ log = NoLog /\ newlog = NoLog /\ acked = 0 /\ committed = 0
  BY DEF Init
<1>2. Log(0, 0) \in LogFiles /\ LogName(0) \in LogNames
  BY BoundsAssumption, NamesAre, FilesAre
<1>3. \A n \in Names : dir[n] \in KindOf(n)
  BY <1>1, <1>2, KindsAre DEF KindOf, Unreadable
<1>4. dir \in [Names -> Contents] /\ stable \in [Names -> SUBSET Contents]
  BY <1>1, <1>3, KindsAre
<1>5. FileTypes
  BY <1>1, <1>3, <1>4 DEF FileTypes
<1>6. StoreTypes /\ TxTypes /\ LogTypes
  BY <1>1, BoundsAssumption DEF StoreTypes, TxTypes, LogTypes
<1> QED
  BY <1>5, <1>6 DEF TypeInv

LEMMA StepTypes == TypeInv /\ [Next]_vars => TypeInv'
<1> SUFFICES ASSUME TypeInv, [Next]_vars PROVE TypeInv'
  OBVIOUS
<1>1. CASE UNCHANGED vars
  <2>1. /\ UNCHANGED <<dir, stable, state, latest, nextGen, tx, sweep>>
        /\ UNCHANGED <<log, newlog, acked, committed>>
    BY <1>1 DEF vars
  <2> QED
    BY <2>1 DEF TypeInv, FileTypes, StoreTypes, TxTypes, LogTypes
<1>2. CASE Next
  <2>1. CASE Open \/ Opened \/ Close
    BY <2>1, OpenTypes
  <2>2. CASE \E n \in Names : Remove(n)
    BY <2>2, RemoveTypes
  <2>3. CASE Begin
    BY <2>3, BeginTypes
  <2>4. CASE \E r \in Roles : CreateFile(r) \/ FillFile(r)
    BY <2>4, DataTypes
  <2>5. CASE WriteManifest \/ FlushManifest
    BY <2>5, ManifestTypes
  <2>6. CASE AdoptCommitted \/ Abort
    BY <2>6, EndTypes
  <2>7. CASE AppendLog \/ CreateLogFile \/ CompactLog \/ OpenLog
    BY <2>7, LogOpTypes
  <2>8. CASE Crash \/ Kill
    BY <2>8, CrashTypes
  <2> QED
    BY <1>2, <2>1, <2>2, <2>3, <2>4, <2>5, <2>6, <2>7, <2>8 DEF Next
<1> QED
  BY <1>1, <1>2

\* What the store remembers and every file, in every reachable state of every host.
THEOREM StoreTyped == Spec => []TypeInv
<1> QED
  BY InitTypes, StepTypes, PTL DEF Spec

\* TypeOK holds of every host, whatever its faults.
THEOREM SnapshotTyped == Spec => []TypeOK
<1>1. TypeInv => TypeOK
  <2> SUFFICES ASSUME TypeInv PROVE TypeOK
    OBVIOUS
  <2>1. latest.gen \in 0..MaxGen /\ latest.idx \in 0..MaxIndex
    <3>1. CASE latest = NoSnap
      BY <3>1, BoundsAssumption DEF NoSnap
    <3>2. CASE latest \in Snaps
      BY <3>2, BoundsAssumption DEF Snaps, Gens
    <3> QED
      BY <3>1, <3>2 DEF TypeInv, StoreTypes
  <2>2. tx.step \in {"none", "writing", "sealing", "sealed", "failed"}
    BY DEF TypeInv, TxTypes, Stages, NoTx
  <2>3. \A n \in Names : dir[n] \in Contents /\ stable[n] \subseteq Contents /\ dir[n] \in stable[n]
    BY DEF TypeInv, FileTypes
  <2> QED
    BY <2>1, <2>2, <2>3 DEF TypeOK, TypeInv, StoreTypes, LogTypes
<1> QED
  BY <1>1, StoreTyped, PTL

-----------------------------------------------------------------------------
(* The committed generations.                                              *)

\* The process is not killed; where a manifest's flush may fail, a deletion does not, nor is
\* it undone.
Ordinary == "kill" \notin host /\ ("flush" \in host => host \cap {"undelete", "locked"} = {})

\* A power cut may leave the manifest of g whole.
Committing(g) == ~ (stable[ManifestName(g)] \subseteq Unreadable)

\* No power cut takes g away.
Settled(g) ==
  /\ Committing(g) /\ stable[ManifestName(g)] = {dir[ManifestName(g)]}
  /\ \A r \in Roles : stable[DataName(g, r)] \cap {Absent, Empty} = {}

\* The adopted generation, or the one that the next open adopts.
Top == IF state = "down" THEN NewestValid ELSE latest.gen

\* Above it there is at most one that a power cut may commit.
Commits ==
  /\ Top > 0 => Settled(Top)
  /\ state # "down" => latest = Adopted(latest.gen) /\ latest.gen < nextGen
  /\ \A g, h \in Gens : g > Top /\ h > Top /\ Committing(g) /\ Committing(h) => g = h
  /\ tx # NoTx => tx.gen = nextGen

\* What is there belongs to the adopted generation or the transaction, is about to be
\* swept, or is the manifest of a commit that threw.
Tidy ==
  state # "down" =>
    /\ "locked" \notin host => \A n \in SnapNames : dir[n] # Absent =>
         \/ n[2] = latest.gen \/ n \in sweep \/ n = ManifestName(nextGen)
         \/ tx # NoTx /\ \E r \in tx.made : n = DataName(tx.gen, r)
    /\ \A n \in sweep \cap SnapNames : n[2] # latest.gen

NoUndelete ==
  "undelete" \notin host => \A n \in SnapNames : dir[n] = Absent => stable[n] = {Absent}

NoThrow ==
  "flush" \notin host =>
    /\ tx # NoTx => tx.step # "failed"
    /\ \A g \in Gens : Committing(g) =>
         g <= Top \/ (tx # NoTx /\ tx.step # "writing" /\ g = tx.gen)
    /\ \A g \in Gens : \A m \in stable[ManifestName(g)] \ Unreadable : \A r \in Roles :
         stable[DataName(g, r)] \subseteq {Absent, Data(m.idx)}

Core == Commits /\ Tidy /\ NoUndelete /\ NoThrow
StoreInv == TypeInv /\ (Ordinary => Core)

Newest ==
  /\ NewestValid \in 0..MaxGen
  /\ NewestValid > 0 => NewestValid \in Gens /\ Valid(NewestValid)
  /\ \A g \in Gens : Valid(g) => g <= NewestValid

LEMMA NewestFound == FileTypes => Newest
  BY Scanning DEF Newest

\* The generation in force.
LEMMA TopIs ==
  ASSUME TypeInv
  PROVE  /\ Top \in 0..MaxGen /\ (Top > 0 => Top \in Gens)
         /\ state # "down" => Top = latest.gen
         /\ state = "down" => Top = NewestValid
<1>1. state # "down" => latest.gen \in 0..MaxGen
  <2>1. CASE latest = NoSnap
    BY <2>1, BoundsAssumption DEF NoSnap
  <2>2. CASE latest \in Snaps
    BY <2>2, BoundsAssumption DEF Snaps, Gens
  <2> QED
    BY <2>1, <2>2 DEF TypeInv, StoreTypes
<1>2. Top \in 0..MaxGen
  BY <1>1, NewestFound DEF Top, Newest, TypeInv
<1> QED
  BY <1>2, BoundsAssumption DEF Top, Gens

LEMMA ValidIs ==
  ASSUME FileTypes, NEW g \in Gens
  PROVE  /\ Valid(g) <=> /\ dir[ManifestName(g)] \notin Unreadable
                         /\ \A r \in Roles : dir[DataName(g, r)] \notin {Absent, Empty}
         /\ dir[ManifestName(g)] \in stable[ManifestName(g)]
         /\ \A r \in Roles : dir[DataName(g, r)] \in stable[DataName(g, r)]
         /\ Settled(g) => Valid(g)
<1>1. dir[ManifestName(g)] \notin Unreadable => DOMAIN dir[ManifestName(g)].crc = Roles
  BY Adopting, FilesAre
<1>2. Valid(g) <=> /\ dir[ManifestName(g)] \notin Unreadable
                   /\ \A r \in Roles : dir[DataName(g, r)] \notin {Absent, Empty}
  BY <1>1 DEF Valid
<1>3. /\ dir[ManifestName(g)] \in stable[ManifestName(g)]
      /\ \A r \in Roles : dir[DataName(g, r)] \in stable[DataName(g, r)]
  BY NamesAre DEF FileTypes
<1> QED
  BY <1>2, <1>3 DEF Settled, Committing

\* While the files of snapshots are left alone, so is what they commit.
SnapFilesKept == \A n \in SnapNames : dir'[n] = dir[n] /\ stable'[n] = stable[n]

LEMMA KeptFiles ==
  ASSUME TypeInv, TypeInv', SnapFilesKept
  PROVE  /\ \A g \in Gens : /\ Committing(g)' <=> Committing(g)
                            /\ Settled(g)' <=> Settled(g)
                            /\ Valid(g)' <=> Valid(g)
         /\ \A g \in 0..MaxGen : Adopted(g)' = Adopted(g)
         /\ NewestValid' = NewestValid
<1>1. \A g \in Gens : /\ ManifestName(g) \in SnapNames
                      /\ \A r \in Roles : DataName(g, r) \in SnapNames
  BY NamesAre
<1>2. \A g \in Gens : /\ Committing(g)' <=> Committing(g)
                      /\ Settled(g)' <=> Settled(g)
  BY <1>1 DEF SnapFilesKept, Committing, Settled
<1>3. \A g \in Gens : Valid(g)' <=> Valid(g)
  <2> TAKE g \in Gens
  <2>1. dir'[ManifestName(g)] = dir[ManifestName(g)]
    BY <1>1 DEF SnapFilesKept
  <2>2. dir[ManifestName(g)] \notin Unreadable => DOMAIN dir[ManifestName(g)].crc = Roles
    BY Adopting, FilesAre DEF TypeInv
  <2>3. \A r \in Roles : dir'[DataName(g, r)] = dir[DataName(g, r)]
    BY <1>1 DEF SnapFilesKept
  <2> QED
    BY <2>1, <2>2, <2>3 DEF Valid
<1>4. \A g \in 0..MaxGen : Adopted(g)' = Adopted(g)
  <2> TAKE g \in 0..MaxGen
  <2>1. g # 0 => g \in Gens
    BY BoundsAssumption DEF Gens
  <2> QED
    BY <2>1, <1>1 DEF Adopted, SnapFilesKept
<1>5. NewestValid' = NewestValid
  <2>1. Newest /\ FileTypes'
    BY NewestFound DEF TypeInv
  <2>2. Newest'
    <3>1. FileTypes' => Newest'
      BY NewestFound, PTL
    <3> QED
      BY <2>1, <3>1
  <2>3. \A g \in Gens : Valid(g)' <=> Valid(g)
    BY <1>3
  <2> DEFINE a == NewestValid
             b == NewestValid'
  <2>4. /\ a \in 0..MaxGen /\ (a > 0 => a \in Gens /\ Valid(a))
        /\ \A g \in Gens : Valid(g) => g <= a
    BY <2>1 DEF Newest
  <2>5. /\ b \in 0..MaxGen /\ (b > 0 => b \in Gens /\ Valid(b))
        /\ \A g \in Gens : Valid(g) => g <= b
    <3>1. /\ b \in 0..MaxGen /\ \A g \in Gens : Valid(g)' => g <= b
      BY <2>2 DEF Newest
    <3>2. ASSUME NEW m \in Gens, m = NewestValid', m > 0 PROVE Valid(m)'
      BY <2>2, <3>2 DEF Newest, Valid
    <3>3. b > 0 => b \in Gens
      BY <2>2 DEF Newest
    <3> QED
      BY <3>1, <3>2, <3>3, <2>3
  <2>6. (a > 0 => a <= b) /\ (b > 0 => b <= a)
    <3> HIDE DEF a, b
    <3> QED
      BY <2>4, <2>5
  <2>7. a = b
    <3> HIDE DEF a, b
    <3> QED
      BY <2>4, <2>5, <2>6, BoundsAssumption
  <2> QED
    BY <2>7
<1> QED
  BY <1>2, <1>3, <1>4, <1>5

\* A step that leaves the snapshots and the transaction alone.
LEMMA QuietCore ==
  ASSUME TypeInv, TypeInv', Core, SnapFilesKept, state' = "down" <=> state = "down",
         UNCHANGED <<host, latest, nextGen, tx>>, \A n \in SnapNames : n \in sweep' <=> n \in sweep
  PROVE  Core' /\ Top' = Top
<1>1. Top' = Top
  BY KeptFiles DEF Top
<1>2. Commits'
  <2>2. ASSUME Top' > 0 PROVE Settled(Top)'
    <3>1. PICK g \in Gens : g = Top /\ Settled(g)
      BY <1>1, <2>2, TopIs DEF Core, Commits
    <3>2. Settled(g)'
      BY <3>1, KeptFiles
    <3> QED
      BY <1>1, <3>1, <3>2 DEF Settled, Committing
  <2>3. state' # "down" => latest' = Adopted(latest.gen)' /\ latest'.gen < nextGen'
    <3>1. state # "down" => latest.gen \in 0..MaxGen
      BY TopIs
    <3> QED
      BY <3>1, KeptFiles DEF Core, Commits
  <2>4. \A g, h \in Gens : g > Top' /\ h > Top' /\ Committing(g)' /\ Committing(h)' => g = h
    BY <1>1, KeptFiles DEF Core, Commits
  <2>5. state' # "down" => latest' = Adopted(latest.gen)' /\ latest'.gen < nextGen'
    BY <2>3 DEF Adopted
  <2>6. tx' # NoTx => tx'.gen = nextGen'
    BY DEF Core, Commits
  <2> QED
    BY <2>2, <2>4, <2>5, <2>6 DEF Commits
<1>3. Tidy' /\ NoUndelete'
  BY DEF Core, Tidy, NoUndelete, SnapFilesKept
<1>4. NoThrow'
  <2>1. \A g \in Gens : /\ ManifestName(g) \in SnapNames
                        /\ \A r \in Roles : DataName(g, r) \in SnapNames
    BY NamesAre
  <2>2. \A g \in Gens : Committing(g)' <=> Committing(g)
    BY KeptFiles
  <2>3. \A g \in Gens : /\ stable'[ManifestName(g)] = stable[ManifestName(g)]
                        /\ \A r \in Roles : stable'[DataName(g, r)] = stable[DataName(g, r)]
    BY <2>1 DEF SnapFilesKept
  <2> QED
    BY <1>1, <2>2, <2>3 DEF Core, NoThrow
<1> QED
  BY <1>1, <1>2, <1>3, <1>4 DEF Core

LEMMA LogOpCore ==
  ASSUME TypeInv, TypeInv', Core, UNCHANGED host,
         AppendLog \/ CreateLogFile \/ CompactLog \/ OpenLog
  PROVE  Core' /\ Top' = Top
<1>1. SnapFilesKept
  BY LogTouches DEF SnapFilesKept
<1>2. UNCHANGED <<state, latest, nextGen, tx>>
  BY DEF AppendLog, CreateLogFile, CompactLog, OpenLog
<1>3. \A n \in SnapNames : n \in sweep' <=> n \in sweep
  <2>1. CASE CompactLog
    BY <2>1, NamesAre DEF CompactLog, Idle
  <2>2. CASE ~CompactLog
    BY <2>2 DEF AppendLog, CreateLogFile, OpenLog
  <2> QED
    BY <2>1, <2>2
<1> QED
  BY <1>1, <1>2, <1>3, QuietCore

\* Open adopts the newest valid generation and sweeps the others; close leaves that one.
LEMMA OpenCore ==
  ASSUME TypeInv, TypeInv', Core, Ordinary, UNCHANGED host, Open \/ Opened \/ Close
  PROVE  Core' /\ Top' = Top
<1>1. SnapFilesKept /\ dir' = dir /\ stable' = stable
  BY DEF Open, Opened, Close, SnapFilesKept
<1>2. CASE Opened
  BY <1>1, <1>2, QuietCore DEF Opened
<1>3. CASE Open
  <2>1. /\ state = "down" /\ state' = "opening" /\ tx' = tx /\ tx = NoTx
        /\ latest' = Adopted(NewestValid) /\ nextGen' = ScannedNextGen
        /\ sweep' = {n \in Present \cap SnapNames : n[2] # NewestValid}
    BY <1>3 DEF Open, TypeInv, StoreTypes
  <2>2. latest'.gen = NewestValid /\ NewestValid < ScannedNextGen
    BY <2>1, Scanning DEF TypeInv
  <2>3. Top = NewestValid /\ Top' = Top
    BY <2>1, <2>2 DEF Top
  <2>4. Commits'
    <3>1. latest' = Adopted(latest.gen)'
      BY <1>1, <2>1, <2>2 DEF Adopted
    <3>2. Top' > 0 => Settled(Top)'
      BY <1>1, <2>3 DEF Core, Commits, Settled, Committing
    <3>3. \A g, h \in Gens : g > Top' /\ h > Top' /\ Committing(g)' /\ Committing(h)' => g = h
      BY <1>1, <2>3 DEF Core, Commits, Committing
    <3> QED
      BY <2>1, <2>2, <3>1, <3>2, <3>3 DEF Commits
  <2>5. Tidy'
    <3> DEFINE a == latest'.gen
    <3>1. a = NewestValid
      BY <2>2
    <3> HIDE DEF a
    <3>2. /\ \A n \in SnapNames : dir'[n] # Absent => n[2] = a \/ n \in sweep'
          /\ \A n \in sweep' \cap SnapNames : n[2] # a
      BY <1>1, <2>1, <3>1, NamesAre DEF Present
    <3> QED
      BY <3>2 DEF Tidy, a
  <2>6. NoUndelete' /\ NoThrow'
    BY <1>1, <2>1, <2>3 DEF Core, NoUndelete, NoThrow, Committing
  <2> QED
    BY <2>3, <2>4, <2>5, <2>6 DEF Core
<1>4. CASE Close
  <2>1. /\ state = "open" /\ state' = "down" /\ tx' = tx /\ tx = NoTx /\ sweep = {}
    BY <1>4 DEF Close, Idle
  <2>2. Top = latest.gen /\ Top \in 0..MaxGen /\ (Top > 0 => Top \in Gens)
    BY <2>1, TopIs
  <2>3. Newest
    BY NewestFound DEF TypeInv
  <2>4. Top > 0 => Top <= NewestValid
    BY <2>2, <2>3, ValidIs DEF Core, Commits, Newest, TypeInv
  <2>5. ~ (NewestValid > Top)
    <3> SUFFICES ASSUME NewestValid > Top PROVE FALSE
      OBVIOUS
    <3>1. NewestValid > 0 /\ NewestValid \in Gens /\ Valid(NewestValid)
      BY <2>2, <2>3, BoundsAssumption DEF Newest
    <3>2. CASE "locked" \notin host
      <4>1. PICK r \in Roles : TRUE
        BY RolesAssumption
      <4> DEFINE n == DataName(NewestValid, r)
      <4>2. n \in SnapNames /\ dir[n] # Absent
        BY <3>1, ValidIs, NamesAre DEF TypeInv
      <4>3. n[2] = latest.gen \/ n = ManifestName(nextGen)
        BY <2>1, <3>2, <4>2 DEF Core, Tidy
      <4>4. n[2] = NewestValid /\ n # ManifestName(nextGen)
        BY NamesDiffer
      <4> QED
        BY <2>2, <2>3, <4>3, <4>4, BoundsAssumption DEF Newest
    <3>3. CASE "flush" \notin host
      <4>1. PICK g \in Gens : g = NewestValid /\ Valid(g) /\ g > Top
        BY <3>1
      <4>2. Committing(g)
        BY <4>1, ValidIs DEF TypeInv, Committing
      <4>3. g <= Top
        BY <2>1, <3>3, <4>2 DEF Core, NoThrow
      <4> QED
        BY <2>2, <4>1, <4>3, BoundsAssumption DEF Gens
    <3> QED
      BY <3>2, <3>3 DEF Ordinary
  <2>6. Top' = Top
    <3>1. Top' = NewestValid
      BY <2>1, KeptFiles, <1>1 DEF Top
    <3> DEFINE a == NewestValid
               b == Top
    <3>2. a \in 0..MaxGen /\ b \in 0..MaxGen /\ (b > 0 => b <= a) /\ ~(a > b)
      BY <2>2, <2>3, <2>4, <2>5 DEF Newest
    <3> HIDE DEF a, b
    <3>3. a = b
      BY <3>2, BoundsAssumption
    <3> QED
      BY <3>1, <3>3 DEF a, b
  <2>7. Commits'
    <3>1. Top' > 0 => Settled(Top)'
      BY <1>1, <2>6 DEF Core, Commits, Settled, Committing
    <3>2. \A g, h \in Gens : g > Top' /\ h > Top' /\ Committing(g)' /\ Committing(h)' => g = h
      BY <1>1, <2>6 DEF Core, Commits, Committing
    <3> QED
      BY <2>1, <3>1, <3>2 DEF Commits
  <2>8. Tidy' /\ NoUndelete' /\ NoThrow'
    BY <1>1, <2>1, <2>6 DEF Core, Tidy, NoUndelete, NoThrow, Committing
  <2> QED
    BY <2>6, <2>7, <2>8 DEF Core
<1> QED
  BY <1>2, <1>3, <1>4

LEMMA RemoveCore ==
  ASSUME TypeInv, TypeInv', Core, UNCHANGED host, NEW n \in Names, Remove(n)
  PROVE  Core' /\ Top' = Top
<1>1. /\ n \in sweep /\ sweep' = sweep \ {n} /\ UNCHANGED <<state, latest, nextGen, tx>>
      /\ stable'[n] \subseteq {Absent} \cup stable[n]
      /\ "undelete" \notin host => stable'[n] = {Absent} \/ (dir'[n] = dir[n] /\ stable'[n] = stable[n])
      /\ "locked" \notin host => dir'[n] = Absent
      /\ \A m \in Names \ {n} : dir'[m] = dir[m] /\ stable'[m] = stable[m]
  BY RemoveTouches DEF Remove
<1>2. CASE n \notin SnapNames
  <2>1. SnapFilesKept /\ \A m \in SnapNames : m \in sweep' <=> m \in sweep
    BY <1>1, <1>2, NamesAre DEF SnapFilesKept
  <2> QED
    BY <1>1, <2>1, QuietCore
<1>3. CASE n \in SnapNames
  <2>1. tx = NoTx /\ state # "down"
    BY <1>1, <1>3, NamesAre DEF TypeInv, TxTypes, StoreTypes
  <2>2. Top' = Top /\ Top = latest.gen /\ Top # n[2] /\ (Top > 0 => Top \in Gens)
    BY <1>1, <1>3, <2>1, TopIs DEF Top, Core, Tidy
  <2>3. \A m \in Names : /\ stable'[m] \subseteq {Absent} \cup stable[m]
                         /\ m # n => dir'[m] = dir[m] /\ stable'[m] = stable[m]
    BY <1>1
  <2>4. \A g \in Gens : Committing(g)' => Committing(g)
    <3>1. \A g \in Gens : stable'[ManifestName(g)] \subseteq {Absent} \cup stable[ManifestName(g)]
      BY <2>3, NamesAre
    <3> QED
      BY <3>1 DEF Committing, Unreadable
  <2>5. ASSUME Top > 0
        PROVE  /\ Settled(Top) <=> Settled(Top)'
               /\ dir'[ManifestName(Top)] = dir[ManifestName(Top)]
    <3>1. /\ ManifestName(Top) \in Names /\ ManifestName(Top) # n
          /\ \A r \in Roles : DataName(Top, r) \in Names /\ DataName(Top, r) # n
      BY <2>2, <2>5, NamesAre, NamesDiffer
    <3>2. /\ dir'[ManifestName(Top)] = dir[ManifestName(Top)]
          /\ stable'[ManifestName(Top)] = stable[ManifestName(Top)]
          /\ \A r \in Roles : stable'[DataName(Top, r)] = stable[DataName(Top, r)]
      BY <3>1, <2>3
    <3> QED
      BY <3>2, <2>2 DEF Settled, Committing
  <2>6. Commits'
    <3>1. Top' > 0 => Settled(Top)'
      BY <2>2, <2>5 DEF Core, Commits
    <3>2. \A g, h \in Gens : g > Top' /\ h > Top' /\ Committing(g)' /\ Committing(h)' => g = h
      BY <2>2, <2>4 DEF Core, Commits
    <3>3. latest' = Adopted(latest.gen)' /\ latest'.gen < nextGen'
      <4>1. latest = Adopted(latest.gen) /\ latest.gen < nextGen
        BY <2>1 DEF Core, Commits
      <4>2. Top \in 0..MaxGen
        BY TopIs
      <4>3. Adopted(latest.gen)' = Adopted(latest.gen)
        BY <1>1, <2>2, <2>5, <4>2, BoundsAssumption DEF Adopted
      <4> QED
        BY <1>1, <4>1, <4>3
    <3> QED
      BY <1>1, <2>1, <3>1, <3>2, <3>3 DEF Commits
  <2>7. Tidy'
    <3>1. ASSUME "locked" \notin host, NEW m \in SnapNames, dir'[m] # Absent
          PROVE  m[2] = latest.gen \/ m \in sweep' \/ m = ManifestName(nextGen)
      <4>1. m # n /\ dir[m] # Absent
        BY <1>1, <2>3, <3>1, NamesAre
      <4> QED
        BY <3>1, <4>1, <1>1, <2>1 DEF Core, Tidy
    <3>2. \A m \in sweep' \cap SnapNames : m[2] # latest.gen
      BY <1>1, <2>1 DEF Core, Tidy
    <3> QED
      BY <3>1, <3>2, <1>1, <2>1 DEF Tidy
  <2>8. NoUndelete'
    <3> SUFFICES ASSUME "undelete" \notin host, NEW m \in SnapNames, dir'[m] = Absent
                 PROVE  stable'[m] = {Absent}
      BY DEF NoUndelete
    <3>1. CASE m = n
      <4>1. dir[m] = Absent => stable[m] = {Absent}
        BY DEF Core, NoUndelete
      <4> QED
        BY <3>1, <4>1, <1>1
    <3>2. CASE m # n
      BY <3>2, <2>3, NamesAre DEF Core, NoUndelete
    <3> QED
      BY <3>1, <3>2
  <2>9. NoThrow'
    <3> SUFFICES ASSUME "flush" \notin host PROVE NoThrow'
      BY DEF NoThrow
    <3>1. ASSUME NEW g \in Gens, NEW m \in stable'[ManifestName(g)] \ Unreadable, NEW r \in Roles
          PROVE  stable'[DataName(g, r)] \subseteq {Absent, Data(m.idx)}
      <4>1. ManifestName(g) \in Names /\ DataName(g, r) \in Names
        BY NamesAre
      <4>2. m \in stable[ManifestName(g)] \ Unreadable
        BY <4>1, <2>3 DEF Unreadable
      <4>3. stable[DataName(g, r)] \subseteq {Absent, Data(m.idx)}
        BY <4>2 DEF Core, NoThrow
      <4> QED
        BY <4>1, <4>3, <2>3
    <3>2. \A g \in Gens : Committing(g)' => g <= Top'
      BY <2>1, <2>2, <2>4 DEF Core, NoThrow
    <3> QED
      BY <1>1, <2>1, <3>1, <3>2 DEF NoThrow
  <2> QED
    BY <2>2, <2>6, <2>7, <2>8, <2>9 DEF Core
<1> QED
  BY <1>2, <1>3

\* A step of a transaction works on the files of a generation above the one in force.
LEMMA AboveTop ==
  ASSUME TypeInv, TypeInv', Core, tx # NoTx,
         UNCHANGED <<state, latest, nextGen>>,
         NEW n \in Names, n[2] = tx.gen,
         \A m \in Names \ {n} : dir'[m] = dir[m] /\ stable'[m] = stable[m]
  PROVE  /\ Top' = Top /\ Top = latest.gen /\ Top < tx.gen /\ tx.gen = nextGen /\ tx.gen \in Gens
         /\ Top \in 0..MaxGen
         /\ state = "open"
         /\ Top' > 0 => Settled(Top)'
         /\ latest' = Adopted(latest.gen)' /\ latest'.gen < nextGen'
<1>1. state = "open" /\ Top = latest.gen /\ Top' = Top /\ Top \in 0..MaxGen /\ tx.gen \in Gens
  BY TopIs DEF TypeInv, TxTypes, Stages, Top
<1>2. Top < tx.gen /\ tx.gen = nextGen /\ latest = Adopted(latest.gen)
  BY <1>1 DEF Core, Commits
<1>3. ASSUME Top > 0
      PROVE  /\ dir'[ManifestName(Top)] = dir[ManifestName(Top)]
             /\ stable'[ManifestName(Top)] = stable[ManifestName(Top)]
             /\ \A r \in Roles : stable'[DataName(Top, r)] = stable[DataName(Top, r)]
  <2>1. Top \in Gens /\ Top # tx.gen
    BY <1>1, <1>2, <1>3, TopIs, BoundsAssumption DEF Gens
  <2>2. /\ ManifestName(Top) \in Names \ {n}
        /\ \A r \in Roles : DataName(Top, r) \in Names \ {n}
    BY <2>1, NamesAre, NamesDiffer
  <2> QED
    BY <2>2
<1>4. Top' > 0 => Settled(Top)'
  BY <1>1, <1>3 DEF Core, Commits, Settled, Committing
<1>5. Adopted(latest.gen)' = Adopted(latest.gen)
  BY <1>1, <1>3, BoundsAssumption DEF Adopted
<1> QED
  BY <1>1, <1>2, <1>4, <1>5

LEMMA BeginCore ==
  ASSUME TypeInv, TypeInv', Core, UNCHANGED host, Begin
  PROVE  Core' /\ Top' = Top
<1>1. /\ UNCHANGED <<dir, stable, state, latest, nextGen, sweep>>
      /\ tx = NoTx /\ tx'.gen = nextGen /\ tx'.step = "writing" /\ state # "down"
  BY DEF Begin, Idle
<1>2. Top' = Top
  BY <1>1 DEF Top
<1>3. Commits'
  <2>1. Top' > 0 => Settled(Top)'
    BY <1>1, <1>2 DEF Core, Commits, Settled, Committing
  <2>2. latest' = Adopted(latest.gen)' /\ latest'.gen < nextGen'
    BY <1>1 DEF Core, Commits, Adopted
  <2>3. \A g, h \in Gens : g > Top' /\ h > Top' /\ Committing(g)' /\ Committing(h)' => g = h
    BY <1>1, <1>2 DEF Core, Commits, Committing
  <2> QED
    BY <1>1, <2>1, <2>2, <2>3 DEF Commits
<1>4. Tidy' /\ NoUndelete'
  BY <1>1 DEF Core, Tidy, NoUndelete
<1>5. NoThrow'
  BY <1>1, <1>2 DEF Core, NoThrow, Committing
<1> QED
  BY <1>2, <1>3, <1>4, <1>5 DEF Core

\* Unless a commit threw, no manifest commits the generation that is being written.
LEMMA DataCore ==
  ASSUME TypeInv, TypeInv', Core, UNCHANGED host,
         NEW r \in Roles, CreateFile(r) \/ FillFile(r)
  PROVE  Core' /\ Top' = Top
<1> DEFINE n == DataName(tx.gen, r)
<1>1. /\ tx # NoTx /\ tx.step = "writing" /\ tx.gen \in Gens /\ tx.idx \in 0..MaxIndex
      /\ n \in Names /\ dir'[n] # Absent /\ tx \in Stages
      /\ \A m \in Names \ {n} : dir'[m] = dir[m] /\ stable'[m] = stable[m]
  <2>1. /\ tx # NoTx /\ tx.step = "writing" /\ tx.gen \in Gens /\ tx.idx \in 0..MaxIndex
        /\ n \in Names /\ tx \in Stages
        /\ CreateFile(r) => dir'[n] = (IF dir[n] = Absent THEN Empty ELSE dir[n])
        /\ FillFile(r) => dir'[n] = Data(tx.idx)
        /\ \A m \in Names \ {n} : dir'[m] = dir[m] /\ stable'[m] = stable[m]
    BY DataTouches
  <2>2. dir'[n] # Absent
    BY <2>1, MarkersAssumption, FilesAre DEF Unreadable
  <2> QED
    BY <2>1, <2>2
<1>2. UNCHANGED <<state, latest, nextGen, sweep>>
  BY DEF CreateFile, FillFile
<1>3. /\ tx' # NoTx /\ tx'.gen = tx.gen /\ tx'.step = "writing"
      /\ tx.made \subseteq tx'.made /\ r \in tx'.made
  <2>1. CASE CreateFile(r)
    <3>1. tx' = [tx EXCEPT !.made = @ \cup {r}]
      BY <2>1 DEF CreateFile
    <3> QED
      BY <1>1, <3>1 DEF Stages, NoTx
  <2>2. CASE FillFile(r)
    <3>1. tx' = [tx EXCEPT !.full = @ \cup {r}] /\ r \in tx.made
      BY <2>2 DEF FillFile
    <3> QED
      BY <1>1, <3>1 DEF Stages, NoTx
  <2> QED
    BY <2>1, <2>2
<1>4. n[2] = tx.gen /\ n \in SnapNames
  BY <1>1, NamesAre, NamesDiffer
<1> HIDE DEF n
<1>5. /\ Top' = Top /\ Top = latest.gen /\ Top < tx.gen /\ tx.gen = nextGen /\ state = "open"
      /\ Top' > 0 => Settled(Top)'
      /\ latest' = Adopted(latest.gen)' /\ latest'.gen < nextGen'
      /\ Top \in 0..MaxGen
  BY <1>1, <1>2, <1>4, AboveTop
<1>6. \A g \in Gens : stable'[ManifestName(g)] = stable[ManifestName(g)]
  BY <1>1, NamesAre, NamesDiffer DEF n
<1>7. Commits'
  BY <1>2, <1>3, <1>5, <1>6 DEF Core, Commits, Committing
<1>8. Tidy'
  <2> SUFFICES /\ "locked" \notin host => \A m \in SnapNames : dir'[m] # Absent =>
                    \/ m[2] = latest.gen \/ m \in sweep \/ m = ManifestName(nextGen)
                    \/ \E s \in tx'.made : m = DataName(tx.gen, s)
               /\ \A m \in sweep \cap SnapNames : m[2] # latest.gen
    BY <1>2, <1>3 DEF Tidy
  <2>1. ASSUME "locked" \notin host, NEW m \in SnapNames, dir'[m] # Absent
        PROVE  \/ m[2] = latest.gen \/ m \in sweep \/ m = ManifestName(nextGen)
               \/ \E s \in tx'.made : m = DataName(tx.gen, s)
    <3>1. CASE m = n
      BY <1>3, <3>1 DEF n
    <3>2. CASE m # n
      <4>1. dir[m] # Absent
        BY <1>1, <2>1, <3>2, NamesAre
      <4> QED
        BY <2>1, <4>1, <1>3, <1>5 DEF Core, Tidy
    <3> QED
      BY <3>1, <3>2
  <2> QED
    BY <2>1, <1>5 DEF Core, Tidy
<1>9. NoUndelete'
  BY <1>1, NamesAre DEF Core, NoUndelete
<1>10. NoThrow'
  <2> SUFFICES ASSUME "flush" \notin host PROVE NoThrow'
    BY DEF NoThrow
  <2>1. \A g \in Gens : Committing(g) => g <= Top
    BY <1>1 DEF Core, NoThrow
  <2>2. ASSUME NEW g \in Gens, NEW m \in stable'[ManifestName(g)] \ Unreadable, NEW s \in Roles
        PROVE  stable'[DataName(g, s)] \subseteq {Absent, Data(m.idx)}
    <3>1. m \in stable[ManifestName(g)] \ Unreadable
      BY <1>6
    <3>2. g <= Top
      BY <2>1, <3>1 DEF Committing
    <3>3. DataName(g, s) # n
      BY <1>1, <1>5, <3>2, NamesDiffer, BoundsAssumption DEF Gens, n
    <3>4. stable'[DataName(g, s)] = stable[DataName(g, s)]
      BY <1>1, <3>3, NamesAre
    <3> QED
      BY <3>1, <3>4 DEF Core, NoThrow
  <2>3. \A g \in Gens : Committing(g)' => g <= Top'
    BY <2>1, <1>5, <1>6 DEF Committing
  <2> QED
    BY <1>3, <2>2, <2>3 DEF NoThrow
<1> QED
  BY <1>5, <1>7, <1>8, <1>9, <1>10 DEF Core

\* A manifest is written while none above the generation in force could be committed: the
\* sweeps have removed them for good, or, where a deletion may be undone, no commit threw.
LEMMA NoneAbove ==
  ASSUME TypeInv, Core, Ordinary, tx # NoTx, tx.step = "writing", sweep = {},
         NEW g \in Gens, g > Top, Committing(g)
  PROVE  g = tx.gen
<1>1. /\ state # "down" /\ Top = latest.gen /\ tx.gen = nextGen /\ tx.gen \in Gens
      /\ Top \in 0..MaxGen
  BY TopIs DEF TypeInv, TxTypes, Core, Commits, Stages
<1> DEFINE n == ManifestName(g)
<1>2. n \in SnapNames /\ n[2] = g /\ \A r : n # DataName(tx.gen, r)
  BY NamesAre, NamesDiffer
<1>3. CASE "undelete" \notin host /\ "locked" \notin host
  <2>1. dir[n] # Absent
    <3> SUFFICES ASSUME dir[n] = Absent PROVE FALSE
      OBVIOUS
    <3>1. stable[n] = {Absent}
      BY <1>2, <1>3 DEF Core, NoUndelete
    <3> QED
      BY <3>1 DEF Committing, Unreadable
  <2>2. g # Top
    BY <1>1, BoundsAssumption DEF Gens
  <2>3. n = ManifestName(nextGen)
    BY <1>1, <1>2, <1>3, <2>1, <2>2 DEF Core, Tidy
  <2> QED
    BY <1>1, <2>3, NamesDiffer
<1>4. CASE "flush" \notin host
  <2>1. g <= Top
    BY <1>4 DEF Core, NoThrow
  <2> QED
    BY <1>1, <2>1, BoundsAssumption DEF Gens
<1> QED
  BY <1>3, <1>4 DEF Ordinary

LEMMA ManifestCore ==
  ASSUME TypeInv, TypeInv', Core, Ordinary, UNCHANGED host, WriteManifest \/ FlushManifest
  PROVE  Core' /\ Top' = Top
<1> DEFINE n == ManifestName(tx.gen)
<1>1. /\ tx # NoTx /\ tx \in Stages /\ tx.gen \in Gens /\ tx.idx \in 0..MaxIndex
      /\ tx.full = Roles /\ n \in Names
      /\ WriteManifest => /\ tx.step = "writing" /\ dir'[n] = Sealed(tx.idx)
                          /\ stable'[n] = stable[n] \cup {Empty, Garbage, Sealed(tx.idx)}
      /\ FlushManifest => /\ dir[n] = Sealed(tx.idx) /\ dir' = dir
                          /\ tx'.step \in {"sealed", "failed"}
                          /\ tx'.step = "sealed" => stable'[n] = {Sealed(tx.idx)}
                          /\ tx'.step = "failed" => stable' = stable /\ "flush" \in host
      /\ \A m \in Names \ {n} : dir'[m] = dir[m] /\ stable'[m] = stable[m]
  BY ManifestTouches
<1>2. UNCHANGED <<state, latest, nextGen, sweep>> /\ sweep = {}
  BY DEF WriteManifest, FlushManifest, Writing, Idle
<1>3. /\ tx' # NoTx /\ tx'.gen = tx.gen /\ tx'.step # "writing" /\ tx'.made = tx.made
      /\ WriteManifest => tx'.step = "sealing"
  <2>1. CASE WriteManifest
    <3>1. tx' = [tx EXCEPT !.step = "sealing"]
      BY <2>1 DEF WriteManifest
    <3> QED
      BY <1>1, <3>1 DEF Stages, NoTx
  <2>2. CASE FlushManifest
    <3>1. \/ tx' = [tx EXCEPT !.step = "sealed"]
          \/ tx' = [tx EXCEPT !.step = "failed"]
      BY <2>2 DEF FlushManifest
    <3>2. ~WriteManifest
      BY <2>2 DEF FlushManifest, WriteManifest, Writing
    <3>3. CASE tx' = [tx EXCEPT !.step = "sealed"]
      BY <1>1, <3>2, <3>3 DEF Stages, NoTx
    <3>4. CASE tx' = [tx EXCEPT !.step = "failed"]
      BY <1>1, <3>2, <3>4 DEF Stages, NoTx
    <3> QED
      BY <3>1, <3>3, <3>4
  <2> QED
    BY <2>1, <2>2
<1>4. n[2] = tx.gen /\ n \in SnapNames
  BY <1>1, NamesAre, NamesDiffer
<1>5. Sealed(tx.idx) \notin Unreadable /\ Sealed(tx.idx).idx = tx.idx
  BY <1>1, FilesAre
<1>6. dir[n] \in stable[n]
  BY <1>1 DEF TypeInv, FileTypes
<1> HIDE DEF n
<1>7. /\ Top' = Top /\ Top = latest.gen /\ Top < tx.gen /\ tx.gen = nextGen /\ state = "open"
      /\ Top' > 0 => Settled(Top)'
      /\ latest' = Adopted(latest.gen)' /\ latest'.gen < nextGen'
      /\ Top \in 0..MaxGen
  BY <1>1, <1>2, <1>4, AboveTop
\* What a power cut may leave of the manifest.
<1>8. stable'[n] \subseteq stable[n] \cup {Empty, Garbage, Sealed(tx.idx)}
  BY <1>1, <1>6
<1>9. \A g \in Gens : g # tx.gen => stable'[ManifestName(g)] = stable[ManifestName(g)]
  BY <1>1, NamesAre, NamesDiffer DEF n
<1>10. \A g \in Gens : g # tx.gen => (Committing(g)' <=> Committing(g))
  BY <1>9 DEF Committing
<1>11. dir'[n] # Absent
  BY <1>1, <1>5 DEF Unreadable
<1>12. \A g \in Gens : FlushManifest /\ g = tx.gen => (Committing(g)' => Committing(g))
  <2>1. FlushManifest => stable'[n] \subseteq stable[n]
    BY <1>1, <1>6
  <2> QED
    BY <2>1 DEF Committing, n
<1>13. Commits'
  <2>1. ASSUME NEW g \in Gens, NEW h \in Gens, g > Top, h > Top, Committing(g)', Committing(h)'
        PROVE  g = h
    <3>1. CASE WriteManifest
      <4>1. \A e \in Gens : e > Top /\ Committing(e) => e = tx.gen
        BY <1>1, <1>2, <3>1, NoneAbove
      <4> QED
        BY <2>1, <4>1, <1>10
    <3>2. CASE FlushManifest
      <4>1. Committing(g) /\ Committing(h)
        BY <2>1, <3>2, <1>10, <1>12
      <4> QED
        BY <2>1, <4>1 DEF Core, Commits
    <3> QED
      BY <3>1, <3>2
  <2>2. tx'.gen = nextGen'
    BY <1>2, <1>3, <1>7
  <2> QED
    BY <1>7, <2>1, <2>2 DEF Commits
<1>14. Tidy'
  <2>1. ASSUME "locked" \notin host, NEW m \in SnapNames, dir'[m] # Absent
        PROVE  \/ m[2] = latest.gen \/ m \in sweep \/ m = ManifestName(nextGen)
               \/ \E s \in tx'.made : m = DataName(tx.gen, s)
    <3>1. CASE m = n
      BY <1>7, <3>1 DEF n
    <3>2. CASE m # n
      <4>1. dir[m] # Absent
        BY <1>1, <2>1, <3>2, NamesAre
      <4> QED
        BY <2>1, <4>1, <1>3, <1>7 DEF Core, Tidy
    <3> QED
      BY <3>1, <3>2
  <2> QED
    BY <2>1, <1>2, <1>3, <1>7 DEF Core, Tidy
<1>15. NoUndelete'
  <2> SUFFICES ASSUME "undelete" \notin host, NEW m \in SnapNames, dir'[m] = Absent
               PROVE  stable'[m] = {Absent}
    BY DEF NoUndelete
  <2>1. m # n /\ m \in Names
    BY <1>11, NamesAre
  <2> QED
    BY <1>1, <2>1 DEF Core, NoUndelete
<1>16. NoThrow'
  <2> SUFFICES ASSUME "flush" \notin host PROVE NoThrow'
    BY DEF NoThrow
  <2>1. tx'.step # "failed"
    BY <1>1, <1>3
  <2>2. \A g \in Gens : Committing(g)' => g <= Top' \/ g = tx'.gen
    BY <1>3, <1>7, <1>10 DEF Core, NoThrow
  <2>3. ASSUME NEW g \in Gens, NEW m \in stable'[ManifestName(g)] \ Unreadable, NEW s \in Roles
        PROVE  stable'[DataName(g, s)] \subseteq {Absent, Data(m.idx)}
    <3>1. stable'[DataName(g, s)] = stable[DataName(g, s)]
      BY <1>1, NamesAre, NamesDiffer DEF n
    <3>2. CASE m \in stable[ManifestName(g)]
      BY <3>1, <3>2 DEF Core, NoThrow
    <3>3. CASE m \notin stable[ManifestName(g)]
      <4>1. g = tx.gen
        BY <1>9, <3>3
      <4>2. m = Sealed(tx.idx)
        BY <1>8, <3>3, <4>1 DEF n, Unreadable
      <4>3. stable[DataName(g, s)] = {Data(tx.idx)}
        BY <1>1, <4>1 DEF TypeInv, TxTypes
      <4> QED
        BY <1>5, <3>1, <4>2, <4>3
    <3> QED
      BY <3>2, <3>3
  <2> QED
    BY <1>3, <2>1, <2>2, <2>3 DEF NoThrow
<1> QED
  BY <1>7, <1>13, <1>14, <1>15, <1>16 DEF Core

\* A commit that returns has taken the place of its predecessor, which is then swept.
LEMMA AdoptCore ==
  ASSUME TypeInv, TypeInv', Core, UNCHANGED host, AdoptCommitted
  PROVE  /\ Core' /\ Top' = tx.gen /\ Top < tx.gen /\ tx \in Stages
         /\ dir[ManifestName(tx.gen)] = Sealed(tx.idx)
<1>1. /\ tx # NoTx /\ tx.step = "sealed" /\ tx' = NoTx /\ UNCHANGED <<dir, stable, state>>
      /\ state = "open" /\ sweep = {}
      /\ latest' = Adopted(tx.gen)
      /\ nextGen' = Max({nextGen, tx.gen + 1})
      /\ sweep' = IF latest.gen = tx.gen THEN {} ELSE FilesOf(latest)
  BY DEF AdoptCommitted, Idle, NoTx
<1>2. /\ tx \in Stages /\ tx.gen \in Gens /\ tx.idx \in 0..MaxIndex /\ tx.full = Roles
      /\ dir[ManifestName(tx.gen)] = Sealed(tx.idx)
      /\ stable[ManifestName(tx.gen)] = {Sealed(tx.idx)}
      /\ \A r \in Roles : stable[DataName(tx.gen, r)] = {Data(tx.idx)}
  BY <1>1 DEF TypeInv, TxTypes, Stages
<1>3. Sealed(tx.idx) \notin Unreadable /\ Data(tx.idx) \notin Unreadable
  BY <1>2, FilesAre
<1>4. Settled(tx.gen)
  BY <1>2, <1>3 DEF Settled, Committing, Unreadable
<1>5. latest'.gen = tx.gen /\ Top' = tx.gen
  <2>1. Adopted(tx.gen).gen = tx.gen
    BY <1>2, <1>3, Adopting DEF TypeInv
  <2> QED
    BY <1>1, <2>1 DEF Top
<1>6. Top = latest.gen /\ Top < tx.gen /\ tx.gen = nextGen /\ Top \in 0..MaxGen
  BY <1>1, TopIs DEF Core, Commits
<1>7. tx.gen < nextGen'
  <2> DEFINE S == {nextGen, tx.gen + 1}
  <2>1. S \in SUBSET (0..(MaxGen + 1)) /\ tx.gen + 1 \in S /\ MaxGen + 1 \in Nat
    BY <1>2, <1>6, BoundsAssumption DEF Gens
  <2>2. nextGen' = Max(S)
    BY <1>1
  <2> HIDE DEF S
  <2>3. nextGen' \in S /\ \A y \in S : y <= nextGen'
    BY <2>1, <2>2, MaxOfNats
  <2>4. nextGen' \in Nat /\ tx.gen + 1 <= nextGen' /\ tx.gen \in Nat
    BY <2>1, <2>3, <1>2, BoundsAssumption DEF Gens
  <2> QED
    BY <2>4
<1>8. Commits'
  <2>1. Settled(Top)'
    BY <1>1, <1>4, <1>5 DEF Settled, Committing
  <2>2. latest' = Adopted(latest.gen)'
    BY <1>1, <1>5 DEF Adopted
  <2>3. ASSUME NEW g \in Gens, g > Top', Committing(g)'
        PROVE  FALSE
    <3>1. Committing(g) /\ Committing(tx.gen) /\ g > tx.gen
      BY <1>1, <1>4, <1>5, <2>3 DEF Committing, Settled
    <3>2. g > Top /\ g # tx.gen
      BY <3>1, <1>2, <1>6, BoundsAssumption DEF Gens
    <3> QED
      BY <3>1, <3>2, <1>2, <1>6 DEF Core, Commits
  <2> QED
    BY <1>1, <1>5, <1>7, <2>1, <2>2, <2>3 DEF Commits
<1>9. \A n \in SnapNames : n[2] = latest.gen => n \in sweep'
  <2> SUFFICES ASSUME NEW n \in SnapNames, n[2] = latest.gen PROVE n \in FilesOf(latest)
    BY <1>1, <1>2, <1>6, BoundsAssumption DEF Gens
  <2>1. latest \in Snaps
    <3>1. latest.gen \in Gens
      BY NamesAre
    <3> QED
      BY <3>1 DEF TypeInv, StoreTypes, NoSnap, Gens
  <2>2. latest # NoSnap /\ DOMAIN latest.crc = Roles
    BY <2>1 DEF Snaps, NoSnap, Gens
  <2>3. n = ManifestName(latest.gen) \/ \E r \in Roles : n = DataName(latest.gen, r)
    <3>1. CASE n \in ManifestNames
      BY <3>1, NamesDiffer DEF ManifestNames
    <3>2. CASE n \in DataNames
      BY <3>2, NamesDiffer DEF DataNames
    <3> QED
      BY <3>1, <3>2, NamesAre
  <2> QED
    BY <2>2, <2>3 DEF FilesOf
<1>10. \A n \in sweep' : n[2] = latest.gen
  BY <1>1, NamesDiffer DEF FilesOf
<1>11. Tidy'
  <2>1. ASSUME "locked" \notin host, NEW n \in SnapNames, dir[n] # Absent
        PROVE  n[2] = tx.gen \/ n \in sweep'
    <3>1. \/ n[2] = latest.gen \/ n = ManifestName(nextGen)
          \/ \E r \in tx.made : n = DataName(tx.gen, r)
      BY <1>1, <2>1 DEF Core, Tidy
    <3> QED
      BY <3>1, <1>6, <1>9, NamesDiffer
  <2>2. \A n \in sweep' : n[2] # tx.gen
    BY <1>2, <1>6, <1>10, BoundsAssumption DEF Gens
  <2> QED
    BY <1>1, <1>5, <2>1, <2>2 DEF Tidy
<1>12. NoUndelete'
  BY <1>1 DEF Core, NoUndelete
<1>13. NoThrow'
  <2> SUFFICES ASSUME "flush" \notin host PROVE NoThrow'
    BY DEF NoThrow
  <2>1. \A g \in Gens : Committing(g) => g <= tx.gen
    BY <1>2, <1>6, BoundsAssumption DEF Core, NoThrow, Gens
  <2> QED
    BY <1>1, <1>5, <2>1 DEF Core, NoThrow, Committing
<1> QED
  BY <1>2, <1>5, <1>6, <1>8, <1>11, <1>12, <1>13 DEF Core

LEMMA AbortCore ==
  ASSUME TypeInv, TypeInv', Core, UNCHANGED host, Abort
  PROVE  Core' /\ Top' = Top
<1>1. /\ tx # NoTx /\ tx.step \in {"writing", "failed"} /\ tx' = NoTx
      /\ UNCHANGED <<dir, stable, state, latest, nextGen>>
      /\ state = "open" /\ sweep = {}
      /\ sweep' = {DataName(tx.gen, r) : r \in tx.made}
  BY DEF Abort, Idle, NoTx
<1>2. Top' = Top /\ Top = latest.gen /\ Top \in 0..MaxGen /\ Top < tx.gen /\ tx.gen \in Gens
  BY <1>1, TopIs DEF Top, Core, Commits, TypeInv, TxTypes, Stages
<1>3. Commits'
  <2>1. Top' > 0 => Settled(Top)'
    BY <1>1, <1>2 DEF Core, Commits, Settled, Committing
  <2>2. latest' = Adopted(latest.gen)' /\ latest'.gen < nextGen'
    BY <1>1 DEF Core, Commits, Adopted
  <2>3. \A g, h \in Gens : g > Top' /\ h > Top' /\ Committing(g)' /\ Committing(h)' => g = h
    BY <1>1, <1>2 DEF Core, Commits, Committing
  <2> QED
    BY <1>1, <2>1, <2>2, <2>3 DEF Commits
<1>4. Tidy'
  <2>1. "locked" \notin host => \A n \in SnapNames : dir[n] # Absent =>
          n[2] = latest.gen \/ n = ManifestName(nextGen) \/ n \in sweep'
    BY <1>1 DEF Core, Tidy
  <2>2. \A n \in sweep' : n[2] # latest.gen
    BY <1>1, <1>2, NamesDiffer, BoundsAssumption DEF Gens
  <2> QED
    BY <1>1, <2>1, <2>2 DEF Tidy
<1>5. NoUndelete'
  BY <1>1 DEF Core, NoUndelete
<1>6. NoThrow'
  BY <1>1, <1>2 DEF Core, NoThrow, Committing
<1> QED
  BY <1>2, <1>3, <1>4, <1>5, <1>6 DEF Core

\* A power cut keeps the generation in force valid and may bring in the one above it.
LEMMA CrashCore ==
  ASSUME TypeInv, TypeInv', Core, UNCHANGED host, Crash
  PROVE  /\ Core' /\ Top' \in 0..MaxGen /\ Top <= Top'
         /\ Top' > 0 => Top' \in Gens /\ dir'[ManifestName(Top')] \notin Unreadable
<1>1. /\ \A n \in Names : dir'[n] \in stable[n] /\ stable'[n] = {dir'[n]}
      /\ state' = "down" /\ tx' = NoTx
  BY CrashedFiles DEF Crash, TypeInv
<1>2. \A g \in Gens : /\ ManifestName(g) \in Names
                      /\ \A r \in Roles : DataName(g, r) \in Names
  BY NamesAre
<1>3. FileTypes' /\ Newest'
  <2>1. FileTypes' => Newest'
    BY NewestFound, PTL
  <2> QED
    BY <2>1 DEF TypeInv
<1> DEFINE b == Top'
<1>4. b = NewestValid' /\ b \in 0..MaxGen /\ (b > 0 => b \in Gens)
  BY <1>1, <1>3 DEF Top, Newest
<1>5. ASSUME NEW g \in Gens
      PROVE  /\ Valid(g)' <=> /\ dir'[ManifestName(g)] \notin Unreadable
                              /\ \A r \in Roles : dir'[DataName(g, r)] \notin {Absent, Empty}
             /\ Valid(g)' => g <= b
             /\ g = b => Valid(g)'
  <2>1. dir'[ManifestName(g)] \notin Unreadable => DOMAIN dir'[ManifestName(g)].crc = Roles
    <3>1. /\ dir'[ManifestName(g)] \in stable'[ManifestName(g)]
          /\ stable'[ManifestName(g)] \subseteq Unreadable \cup SealedFiles
      BY <1>2, <1>3, KindsAre DEF FileTypes
    <3> QED
      BY <3>1, FilesAre
  <2>2. Valid(g)' <=> /\ dir'[ManifestName(g)] \notin Unreadable
                      /\ \A r \in Roles : dir'[DataName(g, r)] \notin {Absent, Empty}
    BY <2>1 DEF Valid
  <2>3. Valid(g)' => g <= b
    BY <1>3, <1>4 DEF Newest
  <2>4. g = b => Valid(g)'
    <3> SUFFICES ASSUME g = b PROVE Valid(g)'
      OBVIOUS
    <3>1. g = NewestValid' /\ g > 0
      BY <1>4, BoundsAssumption DEF Gens
    <3> QED
      BY <1>3, <3>1 DEF Newest, Valid
  <2> QED
    BY <2>2, <2>3, <2>4
<1>6. \A g \in Gens : /\ Committing(g)' <=> dir'[ManifestName(g)] \notin Unreadable
                      /\ Committing(g)' => Committing(g)
  BY <1>1, <1>2 DEF Committing
<1>7. Top \in 0..MaxGen /\ (Top > 0 => Top \in Gens)
  BY TopIs
<1>8. Top <= b
  <2>1. CASE Top = 0
    BY <2>1, <1>4
  <2>2. CASE Top > 0
    <3>1. Settled(Top) /\ Top \in Gens
      BY <2>2, <1>7 DEF Core, Commits
    <3>2. dir'[ManifestName(Top)] \in stable[ManifestName(Top)]
      BY <1>1, <1>2, <3>1
    <3>3. dir'[ManifestName(Top)] \notin Unreadable
      BY <3>1, <3>2 DEF Settled, Committing
    <3>4. \A r \in Roles : dir'[DataName(Top, r)] \notin {Absent, Empty}
      BY <1>1, <1>2, <3>1 DEF Settled
    <3>5. PICK g \in Gens : g = Top
      BY <3>1
    <3>6. Valid(g)'
      BY <3>3, <3>4, <3>5, <1>5
    <3> QED
      BY <3>5, <3>6, <1>5
  <2> QED
    BY <2>1, <2>2, <1>7
<1> HIDE DEF b
<1>9. ASSUME b > 0
      PROVE  /\ b \in Gens /\ dir'[ManifestName(b)] \notin Unreadable
             /\ \A r \in Roles : dir'[DataName(b, r)] \notin {Absent, Empty}
  BY <1>4, <1>5, <1>9
<1>10. Commits'
  <2>1. Top' > 0 => Settled(Top)'
    <3>1. ASSUME b > 0
          PROVE  /\ ~ (stable'[ManifestName(b)] \subseteq Unreadable)
                 /\ stable'[ManifestName(b)] = {dir'[ManifestName(b)]}
                 /\ \A r \in Roles : stable'[DataName(b, r)] \cap {Absent, Empty} = {}
      BY <3>1, <1>9, <1>1, <1>2
    <3> QED
      BY <3>1 DEF Settled, Committing, b
  <2>2. ASSUME NEW g \in Gens, NEW h \in Gens, g > b, h > b, Committing(g)', Committing(h)'
        PROVE  g = h
    <3>1. Committing(g) /\ Committing(h) /\ g > Top /\ h > Top
      BY <2>2, <1>4, <1>6, <1>7, <1>8, BoundsAssumption DEF Gens
    <3> QED
      BY <3>1 DEF Core, Commits
  <2> QED
    BY <1>1, <2>1, <2>2 DEF Commits, b
<1>11. Tidy'
  BY <1>1 DEF Tidy
<1>12. NoUndelete'
  BY <1>1, NamesAre DEF NoUndelete
<1>13. NoThrow'
  <2> SUFFICES ASSUME "flush" \notin host PROVE NoThrow'
    BY DEF NoThrow
  <2>1. ASSUME NEW g \in Gens, Committing(g)' PROVE g <= b
    <3>1. Committing(g) /\ dir'[ManifestName(g)] \notin Unreadable
      BY <1>6, <2>1
    <3>2. CASE g <= Top
      BY <3>2, <1>4, <1>7, <1>8, BoundsAssumption DEF Gens
    <3>3. CASE tx # NoTx /\ tx.step # "writing" /\ g = tx.gen
      <4>1. /\ tx.idx \in 0..MaxIndex
            /\ \A r \in Roles : stable[DataName(g, r)] = {Data(tx.idx)}
        BY <3>3 DEF TypeInv, TxTypes, Stages
      <4>2. \A r \in Roles : dir'[DataName(g, r)] \notin {Absent, Empty}
        BY <4>1, <1>1, <1>2, FilesAre DEF Unreadable
      <4> QED
        BY <3>1, <4>2, <1>5
    <3> QED
      BY <3>1, <3>2, <3>3 DEF Core, NoThrow
  <2>2. ASSUME NEW g \in Gens, NEW m \in stable'[ManifestName(g)] \ Unreadable, NEW s \in Roles
        PROVE  stable'[DataName(g, s)] \subseteq {Absent, Data(m.idx)}
    <3>1. m \in stable[ManifestName(g)] \ Unreadable
      BY <1>1, <1>2
    <3>2. stable[DataName(g, s)] \subseteq {Absent, Data(m.idx)}
      BY <3>1 DEF Core, NoThrow
    <3> QED
      BY <3>2, <1>1, <1>2
  <2> QED
    BY <1>1, <2>1, <2>2 DEF NoThrow, b
<1> QED
  BY <1>4, <1>8, <1>9, <1>10, <1>11, <1>12, <1>13 DEF Core, b

LEMMA InitCore == Init => Core
<1> SUFFICES ASSUME Init PROVE Core
  OBVIOUS
<1>1. /\ \A n \in SnapNames : dir[n] = Absent /\ stable[n] = {Absent}
      /\ state = "down" /\ tx = NoTx
  <2>1. /\ dir = [n \in Names |-> IF n = LogName(0) THEN Log(0, 0) ELSE Absent]
        /\ stable = [n \in Names |-> {dir[n]}] /\ state = "down" /\ tx = NoTx
    BY DEF Init
  <2>2. \A n \in SnapNames : n \in Names /\ n # LogName(0)
    BY NamesAre, BoundsAssumption
  <2> QED
    BY <2>1, <2>2
<1>2. \A g \in Gens : ~Committing(g)
  BY <1>1, NamesAre DEF Committing, Unreadable
<1>3. ~ (Top > 0)
  <2> SUFFICES ASSUME Top > 0 PROVE FALSE
    OBVIOUS
  <2>1. Top \in Gens /\ Valid(Top)
    BY <1>1, InitTypes, NewestFound DEF Top, Newest, TypeInv
  <2>2. dir[ManifestName(Top)] = Absent
    BY <1>1, <2>1, NamesAre
  <2> QED
    BY <2>1, <2>2 DEF Valid, Unreadable
<1>4. Commits
  BY <1>1, <1>2, <1>3 DEF Commits
<1>5. \A g \in Gens : stable[ManifestName(g)] = {Absent}
  BY <1>1, NamesAre
<1>6. NoThrow
  BY <1>1, <1>2, <1>5 DEF NoThrow, Unreadable
<1> QED
  BY <1>1, <1>4, <1>6 DEF Core, Tidy, NoUndelete

LEMMA StepCore ==
  ASSUME TypeInv, TypeInv', Core, Ordinary, [Next]_vars
  PROVE  Core'
<1>1. CASE UNCHANGED vars
  <2>1. /\ UNCHANGED <<host, dir, stable, state, latest, nextGen, tx, sweep>>
    BY <1>1 DEF vars
  <2>2. SnapFilesKept
    BY <2>1 DEF SnapFilesKept
  <2> QED
    BY <2>1, <2>2, QuietCore
<1>2. CASE Next
  <2>0. UNCHANGED host
    BY <1>2 DEF Next
  <2>1. CASE Open \/ Opened \/ Close
    BY <2>0, <2>1, OpenCore
  <2>2. CASE \E n \in Names : Remove(n)
    BY <2>0, <2>2, RemoveCore
  <2>3. CASE Begin
    BY <2>0, <2>3, BeginCore
  <2>4. CASE \E r \in Roles : CreateFile(r) \/ FillFile(r)
    BY <2>0, <2>4, DataCore
  <2>5. CASE WriteManifest \/ FlushManifest
    BY <2>0, <2>5, ManifestCore
  <2>6. CASE AdoptCommitted
    BY <2>0, <2>6, AdoptCore
  <2>7. CASE Abort
    BY <2>0, <2>7, AbortCore
  <2>8. CASE AppendLog \/ CreateLogFile \/ CompactLog \/ OpenLog
    BY <2>0, <2>8, LogOpCore
  <2>9. CASE Crash
    BY <2>0, <2>9, CrashCore
  <2>10. ~Kill
    BY DEF Kill, Ordinary
  <2> QED
    BY <1>2, <2>1, <2>2, <2>3, <2>4, <2>5, <2>6, <2>7, <2>8, <2>9, <2>10 DEF Next
<1> QED
  BY <1>1, <1>2

LEMMA StoreStep == StoreInv /\ [Next]_vars => StoreInv'
<1> SUFFICES ASSUME StoreInv, [Next]_vars PROVE StoreInv'
  OBVIOUS
<1>1. TypeInv /\ TypeInv'
  BY StepTypes DEF StoreInv
<1>2. host' = host
  BY DEF Next, vars
<1> QED
  BY <1>1, <1>2, StepCore DEF StoreInv, Ordinary

\* At any time a power cut leaves the generation in force or the one after it, for every
\* ordinary host.
THEOREM StoreInvariant == Spec => []StoreInv
<1>1. Init => StoreInv
  BY InitTypes, InitCore DEF StoreInv
<1> QED
  BY <1>1, StoreStep, PTL DEF Spec

\* Where no commit throws, the adopted files are those the manifest was written for.
LEMMA AdoptedIs == TypeInv /\ Core /\ "flush" \notin host => AdoptedVerifies
<1>1. TypeInv /\ Core /\ "flush" \notin host => AdoptedVerifies
  <2> SUFFICES ASSUME TypeInv, Core, "flush" \notin host, state # "down", NEW r \in DOMAIN latest.crc
               PROVE  dir[DataName(latest.gen, r)] = latest.crc[r] /\ latest.crc[r] = Data(latest.idx)
    BY DEF AdoptedVerifies
  <2>1. TypeInv /\ Core
    OBVIOUS
  <2>2. latest \in Snaps /\ latest.gen \in Gens /\ latest.gen > 0 /\ r \in Roles
    <3>1. latest # NoSnap
      BY DEF NoSnap
    <3>2. latest \in Snaps
      BY <2>1, <3>1 DEF TypeInv, StoreTypes
    <3> QED
      BY <3>2 DEF Snaps, Gens
  <2> DEFINE g == latest.gen
             m == dir[ManifestName(g)]
  <2>3. Settled(g) /\ latest = Adopted(g)
    BY <2>1, <2>2, TopIs DEF Core, Commits
  <2>4. Valid(g) /\ m \in stable[ManifestName(g)]
    BY <2>1, <2>2, <2>3, ValidIs DEF TypeInv
  <2>5. m \in SealedFiles /\ latest.idx = m.idx /\ latest.crc = m.crc
    BY <2>1, <2>2, <2>3, <2>4, Adopting DEF TypeInv, Valid
  <2>6. latest.crc[r] = Data(latest.idx)
    <3> DEFINE i == m.idx
    <3>1. m = Sealed(i)
      BY <2>5, FilesAre
    <3> HIDE DEF m, i
    <3>2. latest.idx = i /\ latest.crc = Sealed(i).crc
      BY <2>5, <3>1 DEF i
    <3>3. Sealed(i).crc = [s \in Roles |-> Data(i)]
      BY FilesAre
    <3> QED
      BY <2>2, <3>2, <3>3
  <2>7. /\ dir[DataName(g, r)] \in stable[DataName(g, r)]
        /\ stable[DataName(g, r)] \subseteq {Absent, Data(m.idx)}
        /\ stable[DataName(g, r)] \cap {Absent, Empty} = {}
    BY <2>1, <2>2, <2>3, <2>4, ValidIs DEF TypeInv, Core, NoThrow, Valid, Settled
  <2>8. dir[DataName(g, r)] = Data(m.idx)
    BY <2>7
  <2> QED
    BY <2>5, <2>6, <2>8
<1> QED
  BY <1>1

\* What is known of the hosts looked at: no process is killed.
Unkilled == \A h \in Hosts : "kill" \notin h

LEMMA HostsUnkilled == Unkilled /\ Spec => []("kill" \notin host)
<1>1. Unkilled /\ Init => "kill" \notin host
  BY DEF Unkilled, Init
<1>2. "kill" \notin host /\ [Next]_vars => ("kill" \notin host)'
  BY DEF Next, vars
<1> QED
  BY <1>1, <1>2, PTL DEF Spec

\* VerifiesUnlessThrown: the adopted files are those the manifest was written for.
THEOREM SnapshotVerifies == Unkilled /\ Spec => []VerifiesUnlessThrown
<1>1. StoreInv /\ "kill" \notin host => VerifiesUnlessThrown
  BY AdoptedIs DEF StoreInv, Ordinary, VerifiesUnlessThrown
<1> QED
  BY <1>1, StoreInvariant, HostsUnkilled, PTL

\* FreshGeneration: a transaction never writes under a manifest that a power cut may leave.
THEOREM SnapshotFresh == Unkilled /\ Spec => []FreshGeneration
<1>1. StoreInv /\ "kill" \notin host => FreshGeneration
  <2> SUFFICES ASSUME StoreInv, "kill" \notin host, "flush" \notin host, tx.step = "writing"
               PROVE  ~Committing(tx.gen)
    BY DEF FreshGeneration, Committing
  <2>1. TypeInv /\ Core
    BY DEF StoreInv, Ordinary
  <2>2. tx # NoTx
    BY DEF NoTx
  <2>3. /\ tx.gen \in Gens /\ state # "down" /\ Top = latest.gen /\ tx.gen = nextGen
        /\ latest.gen < nextGen /\ Top \in 0..MaxGen
    BY <2>1, <2>2, TopIs DEF TypeInv, TxTypes, Stages, Core, Commits
  <2>4. Committing(tx.gen) => tx.gen <= Top
    BY <2>1, <2>3 DEF Core, NoThrow
  <2> QED
    BY <2>3, <2>4, BoundsAssumption DEF Gens
<1> QED
  BY <1>1, StoreInvariant, HostsUnkilled, PTL

-----------------------------------------------------------------------------
(* The committed index and the entry logs.                                 *)

\* Nor does the host take an empty log file for a log.
Sound == Ordinary /\ "trust" \notin host

TopIdx == IF Top = 0 THEN 0 ELSE dir[ManifestName(Top)].idx

\* What a power cut may bring in above the generation in force is not older than it.
Indices ==
  /\ committed <= TopIdx /\ TopIdx <= acked
  /\ \A g \in Gens : \A m \in stable[ManifestName(g)] \ Unreadable :
       m.idx <= acked /\ (g >= Top => TopIdx <= m.idx)
  /\ tx # NoTx => TopIdx <= tx.idx /\ tx.idx <= acked

\* The log n is settled, and it and every readable one above it, which a restart would
\* prefer, hold all acknowledged entries and continue the generation in force.
Anchor(n) ==
  /\ n[2] <= Top /\ dir[n] \notin Unreadable /\ stable[n] = {dir[n]} /\ n \notin sweep
  /\ \A o \in LogNames : o[2] >= n[2] => \A c \in stable[o] \ Unreadable :
       o[2] <= Top /\ c.last = acked /\ c.base <= TopIdx

Logs ==
  /\ \E n \in LogNames : (log # NoLog => n = log) /\ Anchor(n)
  /\ log = NoLog => (\A o \in LogNames : stable[o] = {dir[o]}) /\ sweep \subseteq SnapNames
  /\ log # NoLog => \A o \in LogNames : o[2] > log[2] => o = newlog \/ stable[o] \subseteq Unreadable
  /\ newlog # NoLog => log[2] < newlog[2] /\ newlog[2] <= Top

\* The index of the generation in force.
LEMMA TopIdxIs ==
  ASSUME TypeInv, Core
  PROVE  /\ TopIdx \in 0..MaxIndex
         /\ state # "down" => latest.idx = TopIdx
         /\ Top > 0 => dir[ManifestName(Top)] \notin Unreadable
<1>1. ASSUME Top > 0
      PROVE  /\ Top \in Gens /\ dir[ManifestName(Top)] \notin Unreadable
             /\ dir[ManifestName(Top)].idx \in 0..MaxIndex
             /\ Adopted(Top).idx = dir[ManifestName(Top)].idx
  <2>1. Top \in Gens /\ Settled(Top)
    BY <1>1, TopIs DEF Core, Commits
  <2>2. dir[ManifestName(Top)] \notin Unreadable
    BY <2>1, ValidIs DEF TypeInv, Valid
  <2> QED
    BY <2>1, <2>2, Adopting, FilesAre DEF TypeInv
<1>2. Top \in 0..MaxGen /\ MaxIndex \in Nat /\ MaxGen \in Nat
  BY TopIs, BoundsAssumption
<1>3. TopIdx \in 0..MaxIndex
  BY <1>1, <1>2 DEF TopIdx
<1>4. state # "down" => latest.idx = TopIdx
  <2> SUFFICES ASSUME state # "down" PROVE latest.idx = TopIdx
    OBVIOUS
  <2>1. Top = latest.gen /\ latest = Adopted(latest.gen)
    BY TopIs DEF Core, Commits
  <2>2. CASE Top = 0
    BY <2>1, <2>2 DEF Adopted, NoSnap, TopIdx
  <2>3. CASE Top > 0
    BY <2>1, <2>3, <1>1 DEF TopIdx
  <2> QED
    BY <2>2, <2>3, <1>2
<1> QED
  BY <1>1, <1>3, <1>4

LEMMA IndexTypes ==
  ASSUME TypeInv
  PROVE  /\ acked \in 0..MaxIndex /\ committed \in 0..MaxIndex /\ MaxIndex \in Nat
         /\ tx # NoTx => tx.idx \in 0..MaxIndex
         /\ \A g \in Gens : \A m \in stable[ManifestName(g)] \ Unreadable : m.idx \in 0..MaxIndex
         /\ \A n \in LogNames : \A c \in stable[n] \ Unreadable :
              c \in LogFiles /\ c.last \in 0..MaxIndex /\ c.base \in 0..MaxIndex
         /\ \A n \in LogNames : n[2] \in Nat /\ dir[n] \in stable[n]
<1>1. /\ acked \in 0..MaxIndex /\ committed \in 0..MaxIndex /\ MaxIndex \in Nat
      /\ tx # NoTx => tx.idx \in 0..MaxIndex
  BY BoundsAssumption DEF TypeInv, StoreTypes, TxTypes, Stages
<1>2. \A g \in Gens : stable[ManifestName(g)] \subseteq Unreadable \cup SealedFiles
  BY NamesAre, KindsAre DEF TypeInv, FileTypes
<1>3. \A n \in LogNames : stable[n] \subseteq Unreadable \cup LogFiles /\ dir[n] \in stable[n]
  BY NamesAre, KindsAre DEF TypeInv, FileTypes
<1>4. \A n \in LogNames : n[2] \in Nat
  BY NamesAre, BoundsAssumption
<1> QED
  BY <1>1, <1>2, <1>3, <1>4, FilesAre

\* A step that leaves the adopted manifest alone leaves its index.
LEMMA SameTop ==
  ASSUME Top' = Top, Top # 0 => dir'[ManifestName(Top)] = dir[ManifestName(Top)]
  PROVE  TopIdx' = TopIdx
  BY DEF TopIdx

TopNat == Top \in Nat /\ TopIdx \in Nat

LEMMA TopTypes == TypeInv /\ Core => TopNat
  BY TopIs, TopIdxIs, BoundsAssumption DEF TopNat

\* Steps on the snapshots do not disturb the logs.
LEMMA QuietLogs ==
  ASSUME TypeInv, TypeInv', Core, Core', Logs,
         \A n \in LogNames : dir'[n] = dir[n] /\ stable'[n] = stable[n],
         UNCHANGED <<log, newlog, acked>>, sweep' \subseteq sweep \cup SnapNames,
         Top <= Top', TopIdx <= TopIdx'
  PROVE  Logs'
<1>1. Top \in Nat /\ TopIdx \in Nat
  BY TopTypes DEF TopNat
<1>2. Top' \in Nat /\ TopIdx' \in Nat
  <2>1. TypeInv' /\ Core' => TopNat'
    BY TopTypes, PTL
  <2> QED
    BY <2>1 DEF TopNat
<1>3. PICK n \in LogNames : (log # NoLog => n = log) /\ Anchor(n)
  BY DEF Logs
<1>4. n \notin SnapNames /\ n[2] \in Nat
  BY NamesAre, BoundsAssumption
<1>5. Anchor(n)'
  <2>1. n[2] <= Top' /\ dir'[n] \notin Unreadable /\ stable'[n] = {dir'[n]} /\ n \notin sweep'
    BY <1>1, <1>2, <1>3, <1>4 DEF Anchor
  <2>2. ASSUME NEW o \in LogNames, o[2] >= n[2], NEW c \in stable'[o] \ Unreadable
        PROVE  o[2] <= Top' /\ c.last = acked' /\ c.base <= TopIdx'
    <3>1. /\ o[2] <= Top /\ c.last = acked /\ c.base <= TopIdx
          /\ o[2] \in Nat /\ c.base \in 0..MaxIndex /\ MaxIndex \in Nat
      BY <1>3, <2>2, IndexTypes DEF Anchor
    <3> QED
      BY <3>1, <1>1, <1>2
  <2> QED
    BY <2>1, <2>2 DEF Anchor
<1>6. newlog' # NoLog => log'[2] < newlog'[2] /\ newlog'[2] <= Top'
  <2>1. newlog # NoLog => newlog[2] \in Nat
    BY NamesAre, BoundsAssumption DEF TypeInv, LogTypes
  <2> QED
    BY <1>1, <1>2, <2>1 DEF Logs
<1> QED
  BY <1>3, <1>5, <1>6 DEF Logs

\* A step that leaves the generation in force, its manifest and the indices alone, and at
\* most takes contents away from what a power cut may leave.
LEMMA QuietIndices ==
  ASSUME TypeInv, TypeInv', Indices, Top' = Top, TopIdx' = TopIdx,
         UNCHANGED <<acked, committed>>,
         \A g \in Gens : stable'[ManifestName(g)] \subseteq stable[ManifestName(g)] \cup Unreadable,
         tx' = NoTx \/ (tx # NoTx /\ tx'.idx = tx.idx)
  PROVE  Indices'
<1>1. \A g \in Gens : \A m \in stable'[ManifestName(g)] \ Unreadable :
        m \in stable[ManifestName(g)] \ Unreadable
  OBVIOUS
<1> QED
  BY <1>1 DEF Indices

\* The host's log always is the anchor, so it holds every acknowledged entry.
LEMMA LiveLog ==
  ASSUME TypeInv, Core, Logs, log # NoLog
  PROVE  /\ log \in LogNames /\ dir[log] \in LogFiles
         /\ dir[log].last = acked /\ dir[log].base <= TopIdx
         /\ log[2] <= Top /\ Anchor(log)
<1>1. log \in LogNames /\ Anchor(log) /\ log[2] \in Nat
  BY IndexTypes DEF Logs
<1>2. dir[log] \in stable[log] \ Unreadable
  BY <1>1, IndexTypes DEF Anchor
<1> QED
  BY <1>1, <1>2, IndexTypes DEF Anchor

LEMMA OpenIndices ==
  ASSUME TypeInv, TypeInv', Core, Core', Ordinary, Indices, Logs, UNCHANGED host,
         Open \/ Opened \/ Close \/ Begin \/ Abort
  PROVE  Indices' /\ Logs'
<1>1. Top' = Top
  BY OpenCore, BeginCore, AbortCore
<1>2. /\ UNCHANGED <<dir, stable, log, newlog, acked, committed>>
      /\ sweep' \subseteq sweep \cup SnapNames
      /\ \/ tx' = tx \/ tx' = NoTx
         \/ tx' = [step |-> "writing", gen |-> nextGen, idx |-> acked, made |-> {}, full |-> {}]
  <2>1. CASE Abort
    <3>1. tx # NoTx
      BY <2>1 DEF Abort, NoTx
    <3>2. \A r \in tx.made : DataName(tx.gen, r) \in SnapNames
      BY <3>1, NamesAre DEF TypeInv, TxTypes, Stages
    <3> QED
      BY <2>1, <3>2 DEF Abort
  <2>2. CASE Open
    BY <2>2 DEF Open
  <2>3. CASE Opened \/ Close \/ Begin
    BY <2>3 DEF Opened, Close, Begin
  <2> QED
    BY <2>1, <2>2, <2>3
<1>3. TopIdx' = TopIdx
  BY <1>1, <1>2, SameTop
<1>4. Top <= Top' /\ TopIdx <= TopIdx'
  BY <1>1, <1>3, TopTypes DEF TopNat
<1>5. Logs'
  BY <1>2, <1>4, QuietLogs
<1>6. Indices'
  <2>1. CASE tx' = tx \/ tx' = NoTx
    BY <1>1, <1>2, <1>3, <2>1, QuietIndices
  <2>2. CASE tx' = [step |-> "writing", gen |-> nextGen, idx |-> acked, made |-> {}, full |-> {}]
    <3>1. tx'.idx = acked
      BY <2>2
    <3> QED
      BY <1>1, <1>2, <1>3, <3>1, IndexTypes DEF Indices
  <2> QED
    BY <1>2, <2>1, <2>2
<1> QED
  BY <1>5, <1>6

LEMMA RemoveIndices ==
  ASSUME TypeInv, TypeInv', Core, Core', Indices, Logs, UNCHANGED host,
         NEW n \in Names, Remove(n)
  PROVE  Indices' /\ Logs'
<1>1. /\ n \in sweep /\ sweep' = sweep \ {n} /\ UNCHANGED <<state, latest, nextGen, tx>>
      /\ UNCHANGED <<log, newlog, acked, committed>>
      /\ stable'[n] \subseteq {Absent} \cup stable[n]
      /\ \A m \in Names \ {n} : dir'[m] = dir[m] /\ stable'[m] = stable[m]
  BY RemoveTouches DEF Remove
<1>2. Top' = Top /\ state # "down" /\ Top = latest.gen
  BY <1>1, RemoveCore, TopIs DEF TypeInv, StoreTypes
<1>3. TopIdx' = TopIdx
  <2>1. ASSUME Top # 0 PROVE dir'[ManifestName(Top)] = dir[ManifestName(Top)]
    <3>1. Top \in Gens
      BY <2>1, TopIs, BoundsAssumption
    <3>2. ManifestName(Top) # n /\ ManifestName(Top) \in Names
      BY <3>1, <1>1, <1>2, NamesAre, NamesDiffer DEF Core, Tidy
    <3> QED
      BY <3>2, <1>1
  <2> QED
    BY <2>1, <1>2, SameTop
<1>4. \A m \in Names : stable'[m] \subseteq {Absent} \cup stable[m]
  BY <1>1
<1>5. Indices'
  <2>1. \A g \in Gens : stable'[ManifestName(g)] \subseteq stable[ManifestName(g)] \cup Unreadable
    BY <1>4, NamesAre DEF Unreadable
  <2> QED
    BY <1>1, <1>2, <1>3, <2>1, QuietIndices
<1>6. CASE n \in SnapNames
  <2>1. \A m \in LogNames : dir'[m] = dir[m] /\ stable'[m] = stable[m]
    BY <1>1, <1>6, NamesAre
  <2>2. Top <= Top' /\ TopIdx <= TopIdx'
    BY <1>2, <1>3, TopTypes DEF TopNat
  <2> QED
    BY <1>1, <1>5, <2>1, <2>2, QuietLogs
<1>7. CASE n \notin SnapNames
  <2>1. log # NoLog /\ log # n
    BY <1>1, <1>7 DEF Logs, TypeInv, LogTypes
  <2>2. log \in LogNames /\ Anchor(log)
    BY <2>1, LiveLog
  <2>3. /\ dir'[log] = dir[log] /\ stable'[log] = stable[log] /\ log \notin sweep'
    BY <1>1, <2>1, <2>2, NamesAre DEF TypeInv, LogTypes
  <2>4. \A o \in LogNames : \A c \in stable'[o] \ Unreadable : c \in stable[o] \ Unreadable
    BY <1>4, NamesAre DEF Unreadable
  <2>5. Anchor(log)'
    <3>1. /\ log'[2] <= Top' /\ dir'[log'] \notin Unreadable /\ stable'[log'] = {dir'[log']}
          /\ log' \notin sweep'
      BY <1>1, <1>2, <2>2, <2>3 DEF Anchor
    <3>2. \A o \in LogNames : o[2] >= log'[2] => \A c \in stable'[o] \ Unreadable :
             o[2] <= Top' /\ c.last = acked' /\ c.base <= TopIdx'
      BY <1>1, <1>2, <1>3, <2>2, <2>4 DEF Anchor
    <3> QED
      BY <3>1, <3>2 DEF Anchor
  <2>6. \A o \in LogNames : stable[o] \subseteq Unreadable => stable'[o] \subseteq Unreadable
    BY <2>4
  <2>7. \A o \in LogNames : o[2] > log[2] => o = newlog' \/ stable'[o] \subseteq Unreadable
    BY <1>1, <2>1, <2>6 DEF Logs
  <2>8. \E a \in LogNames : (log' # NoLog => a = log') /\ Anchor(a)'
    <3>1. PICK a \in LogNames : a = log
      BY <2>2
    <3>2. Anchor(a)'
      BY <1>1, <2>5, <3>1 DEF Anchor
    <3> QED
      BY <1>1, <3>1, <3>2
  <2> QED
    BY <1>1, <1>2, <1>5, <2>1, <2>7, <2>8 DEF Logs
<1> QED
  BY <1>6, <1>7

LEMMA WriteIndices ==
  ASSUME TypeInv, TypeInv', Core, Core', Indices, Logs, Ordinary, UNCHANGED host,
         WriteManifest \/ FlushManifest \/ \E r \in Roles : CreateFile(r) \/ FillFile(r)
  PROVE  Indices' /\ Logs'
<1>1. /\ tx # NoTx /\ tx \in Stages /\ tx.gen \in Gens /\ tx.idx \in 0..MaxIndex
      /\ \/ tx' = [tx EXCEPT !.step = "sealing"] \/ tx' = [tx EXCEPT !.step = "sealed"]
         \/ tx' = [tx EXCEPT !.step = "failed"]
         \/ \E r \in Roles : \/ tx' = [tx EXCEPT !.made = @ \cup {r}]
                             \/ tx' = [tx EXCEPT !.full = @ \cup {r}]
  <2>1. CASE WriteManifest \/ FlushManifest
    <3>1. \/ tx' = [tx EXCEPT !.step = "sealing"] \/ tx' = [tx EXCEPT !.step = "sealed"]
          \/ tx' = [tx EXCEPT !.step = "failed"]
      BY <2>1 DEF WriteManifest, FlushManifest
    <3> QED
      BY <2>1, <3>1, ManifestTouches
  <2>2. CASE \E r \in Roles : CreateFile(r) \/ FillFile(r)
    <3>1. PICK r \in Roles : CreateFile(r) \/ FillFile(r)
      BY <2>2
    <3>2. tx' = [tx EXCEPT !.made = @ \cup {r}] \/ tx' = [tx EXCEPT !.full = @ \cup {r}]
      BY <3>1 DEF CreateFile, FillFile
    <3> QED
      BY <3>1, <3>2, DataTouches
  <2> QED
    BY <2>1, <2>2
<1>2. tx'.idx = tx.idx
  <2>1. DOMAIN tx = {"step", "gen", "idx", "made", "full"}
    BY <1>1 DEF Stages
  <2> QED
    BY <1>1, <2>1
<1>3. UNCHANGED <<state, latest, sweep, log, newlog, acked, committed>>
  BY DEF WriteManifest, FlushManifest, CreateFile, FillFile
<1>4. PICK n \in SnapNames :
        /\ n[2] = tx.gen
        /\ \A m \in Names \ {n} : dir'[m] = dir[m] /\ stable'[m] = stable[m]
        /\ \A g \in Gens : stable'[ManifestName(g)] \subseteq
             stable[ManifestName(g)] \cup Unreadable \cup (IF g = tx.gen THEN {Sealed(tx.idx)} ELSE {})
  <2>1. CASE WriteManifest \/ FlushManifest
    <3> DEFINE n == ManifestName(tx.gen)
    <3>1. /\ \A m \in Names \ {n} : dir'[m] = dir[m] /\ stable'[m] = stable[m]
          /\ WriteManifest => stable'[n] = stable[n] \cup {Empty, Garbage, Sealed(tx.idx)}
          /\ FlushManifest => /\ tx'.step \in {"sealed", "failed"}
                              /\ tx'.step = "sealed" => stable'[n] = {Sealed(tx.idx)}
                              /\ tx'.step = "failed" => stable' = stable
      BY <2>1, ManifestTouches
    <3>2. n \in SnapNames /\ n[2] = tx.gen
      BY <1>1, NamesAre, NamesDiffer
    <3>3. \A g \in Gens : ManifestName(g) \in Names /\ (ManifestName(g) = n => g = tx.gen)
      BY NamesAre, NamesDiffer
    <3> HIDE DEF n
    <3>4. stable'[n] \subseteq stable[n] \cup Unreadable \cup {Sealed(tx.idx)}
      BY <2>1, <3>1 DEF Unreadable
    <3>5. ASSUME NEW g \in Gens
          PROVE  stable'[ManifestName(g)] \subseteq
                   stable[ManifestName(g)] \cup Unreadable
                     \cup (IF g = tx.gen THEN {Sealed(tx.idx)} ELSE {})
      <4>1. CASE ManifestName(g) = n
        BY <3>3, <3>4, <4>1
      <4>2. CASE ManifestName(g) # n
        BY <3>1, <3>3, <4>2
      <4> QED
        BY <4>1, <4>2
    <3> QED
      BY <3>1, <3>2, <3>5
  <2>2. CASE \E r \in Roles : CreateFile(r) \/ FillFile(r)
    <3>1. PICK r \in Roles : CreateFile(r) \/ FillFile(r)
      BY <2>2
    <3> DEFINE n == DataName(tx.gen, r)
    <3>2. \A m \in Names \ {n} : dir'[m] = dir[m] /\ stable'[m] = stable[m]
      BY <3>1, DataTouches
    <3>3. n \in SnapNames /\ n[2] = tx.gen
      BY <1>1, NamesAre, NamesDiffer
    <3>4. \A g \in Gens : ManifestName(g) \in Names \ {n}
      BY NamesAre, NamesDiffer
    <3> HIDE DEF n
    <3> QED
      BY <3>2, <3>3, <3>4
  <2> QED
    BY <2>1, <2>2
<1>5. Top' = Top
  BY DataCore, ManifestCore
<1>6. TopIdx' = TopIdx
  <2>1. ASSUME Top # 0 PROVE dir'[ManifestName(Top)] = dir[ManifestName(Top)]
    <3>1. Top \in Gens /\ Top < tx.gen
      BY <1>1, <2>1, TopIs, BoundsAssumption DEF Core, Commits, TypeInv, TxTypes
    <3>2. ManifestName(Top) # n /\ ManifestName(Top) \in Names
      BY <3>1, <1>1, <1>4, NamesAre, NamesDiffer, BoundsAssumption DEF Gens
    <3> QED
      BY <3>2, <1>4
  <2> QED
    BY <2>1, <1>5, SameTop
<1>7. Logs'
  <2>1. \A m \in LogNames : dir'[m] = dir[m] /\ stable'[m] = stable[m]
    BY <1>4, NamesAre
  <2>2. Top <= Top' /\ TopIdx <= TopIdx'
    BY <1>5, <1>6, TopTypes DEF TopNat
  <2> QED
    BY <1>3, <2>1, <2>2, QuietLogs
<1>8. Indices'
  <2>1. TopIdx <= tx.idx /\ tx.idx <= acked
    BY <1>1 DEF Indices
  <2>2. ASSUME NEW g \in Gens, NEW m \in stable'[ManifestName(g)] \ Unreadable
        PROVE  m.idx <= acked /\ (g >= Top => TopIdx <= m.idx)
    <3>1. CASE m \in stable[ManifestName(g)]
      BY <3>1, <2>2 DEF Indices
    <3>2. CASE m = Sealed(tx.idx)
      <4>1. m.idx = tx.idx
        BY <3>2, FilesAre
      <4> QED
        BY <4>1, <2>1
    <3> QED
      BY <1>4, <2>2, <3>1, <3>2
  <2> QED
    BY <1>1, <1>2, <1>3, <1>5, <1>6, <2>1, <2>2 DEF Indices
<1> QED
  BY <1>7, <1>8

LEMMA AdoptIndices ==
  ASSUME TypeInv, TypeInv', Core, Core', Indices, Logs, UNCHANGED host, AdoptCommitted
  PROVE  Indices' /\ Logs'
<1>1. /\ Top' = tx.gen /\ Top < tx.gen /\ tx \in Stages
      /\ dir[ManifestName(tx.gen)] = Sealed(tx.idx)
  BY AdoptCore
<1>2. /\ tx # NoTx /\ tx.step = "sealed" /\ tx' = NoTx /\ committed' = tx.idx
      /\ UNCHANGED <<dir, stable, state, log, newlog, acked>>
      /\ sweep = {} /\ sweep' = IF latest.gen = tx.gen THEN {} ELSE FilesOf(latest)
  BY DEF AdoptCommitted, Idle, NoTx
<1>3. tx.gen \in Gens /\ tx.idx \in 0..MaxIndex /\ tx.gen # 0
  BY <1>1, BoundsAssumption DEF Stages, Gens
<1>4. /\ stable[ManifestName(tx.gen)] = {Sealed(tx.idx)} /\ Sealed(tx.idx) \notin Unreadable
      /\ Sealed(tx.idx).idx = tx.idx
  BY <1>2, <1>3, FilesAre DEF TypeInv, TxTypes
<1>5. TopIdx' = tx.idx
  <2>1. TopIdx' = dir[ManifestName(tx.gen)].idx
    BY <1>1, <1>2, <1>3 DEF TopIdx
  <2> QED
    BY <2>1, <1>1, <1>4
<1>6. TopIdx <= tx.idx /\ tx.idx <= acked
  BY <1>2 DEF Indices
<1>7. sweep' \subseteq SnapNames
  <2>1. CASE latest = NoSnap
    BY <1>2, <2>1 DEF FilesOf
  <2>2. CASE latest \in Snaps
    BY <1>2, <2>2, NamesAre DEF FilesOf, Snaps
  <2> QED
    BY <2>1, <2>2 DEF TypeInv, StoreTypes
<1>8. Logs'
  <2>1. Top <= Top' /\ TopIdx <= TopIdx'
    BY <1>1, <1>3, <1>5, <1>6, TopTypes, BoundsAssumption DEF TopNat, Gens
  <2>2. \A m \in LogNames : dir'[m] = dir[m] /\ stable'[m] = stable[m]
    BY <1>2
  <2>3. sweep' \subseteq sweep \cup SnapNames
    BY <1>7
  <2> QED
    BY <1>2, <2>1, <2>2, <2>3, QuietLogs
<1>9. ASSUME NEW g \in Gens, NEW m \in stable'[ManifestName(g)] \ Unreadable
      PROVE  m.idx <= acked /\ (g >= Top' => TopIdx' <= m.idx)
  <2>1. m \in stable[ManifestName(g)] \ Unreadable
    BY <1>2, <1>9
  <2>2. m.idx <= acked
    BY <2>1 DEF Indices
  <2>3. ASSUME g >= Top' PROVE TopIdx' <= m.idx
    <3>1. Committing(g) /\ Committing(tx.gen)
      BY <2>1, <1>4 DEF Committing
    <3>2. g > Top /\ tx.gen > Top
      BY <1>1, <1>3, <2>3, TopTypes, BoundsAssumption DEF Gens, TopNat
    <3>3. g = tx.gen
      BY <3>1, <3>2, <1>3 DEF Core, Commits
    <3>4. m.idx = tx.idx
      BY <3>3, <2>1, <1>4
    <3> QED
      BY <3>4, <1>3, <1>5
  <2> QED
    BY <2>2, <2>3
<1> QED
  BY <1>2, <1>3, <1>5, <1>6, <1>8, <1>9 DEF Indices

LEMMA CrashIndices ==
  ASSUME TypeInv, TypeInv', Core, Core', Indices, Logs, UNCHANGED host, Crash
  PROVE  Indices' /\ Logs'
<1>1. /\ \A n \in Names : dir'[n] \in stable[n] /\ stable'[n] = {dir'[n]}
      /\ tx' = NoTx /\ sweep' = {} /\ log' = NoLog /\ newlog' = NoLog
      /\ UNCHANGED <<acked, committed>>
  BY CrashedFiles DEF Crash, TypeInv
<1> DEFINE b == Top'
<1>2. /\ b \in 0..MaxGen /\ Top <= b
      /\ b > 0 => b \in Gens /\ dir'[ManifestName(b)] \notin Unreadable
  BY CrashCore
<1>3. /\ Top \in Nat /\ TopIdx \in Nat /\ b \in Nat
      /\ acked \in Nat /\ committed \in Nat
  BY <1>2, TopTypes, IndexTypes, BoundsAssumption DEF TopNat
<1>4. TopIdx' = IF b = 0 THEN 0 ELSE dir'[ManifestName(b)].idx
  BY DEF TopIdx
<1> HIDE DEF b
<1>5. ASSUME b > 0
      PROVE  /\ dir'[ManifestName(b)] \in stable[ManifestName(b)] \ Unreadable
             /\ stable'[ManifestName(b)] = {dir'[ManifestName(b)]}
             /\ dir'[ManifestName(b)].idx <= acked /\ TopIdx <= dir'[ManifestName(b)].idx
             /\ dir'[ManifestName(b)].idx \in Nat
  <2>1. b \in Gens /\ ManifestName(b) \in Names
    BY <1>2, <1>5, NamesAre
  <2>2. /\ dir'[ManifestName(b)] \in stable[ManifestName(b)] \ Unreadable
        /\ stable'[ManifestName(b)] = {dir'[ManifestName(b)]}
    BY <2>1, <1>1, <1>2, <1>5
  <2>3. b >= Top
    BY <1>2, <1>3
  <2> QED
    BY <2>1, <2>2, <2>3, IndexTypes DEF Indices
<1>6. TopIdx <= TopIdx' /\ TopIdx' <= acked /\ TopIdx' \in Nat
  <2>1. CASE b = 0
    <3>1. Top = 0 /\ TopIdx = 0
      BY <2>1, <1>2, <1>3 DEF TopIdx
    <3> QED
      BY <2>1, <3>1, <1>3, <1>4
  <2>2. CASE b > 0
    BY <2>2, <1>3, <1>4, <1>5
  <2> QED
    BY <2>1, <2>2, <1>3
<1>7. ASSUME NEW g \in Gens, NEW m \in stable'[ManifestName(g)] \ Unreadable
      PROVE  m.idx <= acked /\ (g >= b => TopIdx' <= m.idx)
  <2>1. m \in stable[ManifestName(g)] \ Unreadable /\ m = dir'[ManifestName(g)]
    BY <1>1, <1>7, NamesAre
  <2>2. m.idx <= acked /\ m.idx \in Nat /\ (g >= Top => TopIdx <= m.idx)
    BY <2>1, IndexTypes DEF Indices
  <2>3. ASSUME g >= b PROVE TopIdx' <= m.idx
    <3>1. g \in Nat /\ g > 0
      BY BoundsAssumption DEF Gens
    <3>2. CASE b = 0
      BY <3>2, <1>4, <2>2
    <3>3. CASE b > 0 /\ g = b
      BY <3>3, <1>4, <2>1, <2>2
    <3>4. CASE b > 0 /\ g # b /\ Top = b
      <4>1. Settled(Top)
        BY <3>4 DEF Core, Commits
      <4>2. stable[ManifestName(b)] = {dir[ManifestName(b)]}
        BY <3>4, <4>1 DEF Settled
      <4>3. dir'[ManifestName(b)] = dir[ManifestName(b)]
        BY <4>2, <3>4, <1>5
      <4>4. TopIdx' = TopIdx
        BY <4>3, <3>4, SameTop DEF b
      <4> QED
        BY <2>2, <2>3, <3>4, <4>4
    <3>5. CASE b > 0 /\ g # b /\ Top # b
      <4>1. g > Top /\ b > Top /\ b \in Gens
        BY <3>1, <3>5, <2>3, <1>2, <1>3
      <4>2. Committing(g) /\ Committing(b)
        BY <2>1, <1>5, <3>5 DEF Committing
      <4> QED
        BY <4>1, <4>2, <3>5 DEF Core, Commits
    <3> QED
      BY <3>1, <3>2, <3>3, <3>4, <3>5, <1>3
  <2> QED
    BY <2>2, <2>3
<1>8. Indices'
  <2>1. committed' <= TopIdx'
    BY <1>1, <1>3, <1>6 DEF Indices
  <2>2. \A g \in Gens : \A m \in stable'[ManifestName(g)] \ Unreadable :
          m.idx <= acked /\ (g >= Top' => TopIdx' <= m.idx)
    BY <1>7 DEF b
  <2> QED
    BY <1>1, <1>6, <2>1, <2>2 DEF Indices
<1>9. Logs'
  <2>1. PICK n \in LogNames : Anchor(n)
    BY DEF Logs
  <2>2. n \in Names /\ n[2] \in Nat
    BY NamesAre, BoundsAssumption
  <2>3. Anchor(n)'
    <3>1. dir'[n] = dir[n] /\ stable'[n] = {dir'[n]} /\ n[2] <= b
      BY <1>1, <1>2, <1>3, <2>1, <2>2 DEF Anchor
    <3>2. ASSUME NEW o \in LogNames, o[2] >= n[2], NEW c \in stable'[o] \ Unreadable
          PROVE  o[2] <= b /\ c.last = acked /\ c.base <= TopIdx'
      <4>1. c \in stable[o] \ Unreadable
        BY <1>1, <3>2, NamesAre
      <4>2. /\ o[2] <= Top /\ c.last = acked /\ c.base <= TopIdx
            /\ o[2] \in Nat /\ c.base \in 0..MaxIndex
        BY <2>1, <3>2, <4>1, IndexTypes DEF Anchor
      <4> QED
        BY <4>2, <1>2, <1>3, <1>6, BoundsAssumption
    <3> QED
      BY <1>1, <2>1, <3>1, <3>2 DEF Anchor, b
  <2>4. \A o \in LogNames : stable'[o] = {dir'[o]}
    BY <1>1, NamesAre
  <2> QED
    BY <1>1, <2>3, <2>4 DEF Logs
<1> QED
  BY <1>8, <1>9

\* An operation on the logs leaves the commits alone.
LEMMA LogOpIndices ==
  ASSUME TypeInv, TypeInv', Core, Core', Indices, Logs, UNCHANGED host,
         AppendLog \/ CreateLogFile \/ CompactLog \/ OpenLog
  PROVE  /\ Top' = Top /\ TopIdx' = TopIdx /\ Indices'
         /\ AppendLog => acked' = acked + 1
         /\ ~AppendLog => acked' = acked
<1>1. /\ Top' = Top /\ UNCHANGED <<tx, committed>>
      /\ \A n \in SnapNames : dir'[n] = dir[n] /\ stable'[n] = stable[n]
  BY LogOpCore, LogTouches DEF AppendLog, CreateLogFile, CompactLog, OpenLog
<1>2. TopIdx' = TopIdx
  <2>1. ASSUME Top # 0 PROVE dir'[ManifestName(Top)] = dir[ManifestName(Top)]
    <3>1. Top \in Gens
      BY <2>1, TopIs, BoundsAssumption
    <3> QED
      BY <3>1, <1>1, NamesAre
  <2> QED
    BY <2>1, <1>1, SameTop
<1>3. AppendLog => acked' = acked + 1
  <2> SUFFICES ASSUME AppendLog PROVE acked' = acked + 1
    OBVIOUS
  <2>1. log # NoLog /\ acked' = dir[log].last + 1
    BY FilesAre DEF AppendLog
  <2> QED
    BY <2>1, LiveLog
<1>4. ~AppendLog => acked' = acked
  BY DEF CreateLogFile, CompactLog, OpenLog
<1>5. acked <= acked' /\ acked \in Nat /\ acked' \in Nat
  BY <1>3, <1>4, IndexTypes
<1>6. Indices'
  <2>1. ASSUME NEW g \in Gens, NEW m \in stable'[ManifestName(g)] \ Unreadable
        PROVE  m.idx <= acked' /\ (g >= Top => TopIdx <= m.idx)
    <3>1. m \in stable[ManifestName(g)] \ Unreadable
      BY <2>1, <1>1, NamesAre
    <3>2. m.idx <= acked /\ m.idx \in Nat /\ (g >= Top => TopIdx <= m.idx)
      BY <3>1, IndexTypes DEF Indices
    <3> QED
      BY <3>2, <1>5
  <2>2. committed <= TopIdx /\ TopIdx <= acked /\ TopIdx \in Nat
    BY TopTypes DEF Indices, TopNat
  <2>3. TopIdx <= acked'
    BY <2>2, <1>5
  <2>4. tx # NoTx => TopIdx <= tx.idx /\ tx.idx <= acked'
    BY <1>5, IndexTypes DEF Indices
  <2> QED
    BY <1>1, <1>2, <2>1, <2>2, <2>3, <2>4 DEF Indices
<1> QED
  BY <1>1, <1>2, <1>3, <1>4, <1>6

LEMMA AppendLogs ==
  ASSUME TypeInv, TypeInv', Core, Core', Indices, Logs, UNCHANGED host, AppendLog
  PROVE  Logs'
<1>1. /\ log # NoLog /\ newlog = NoLog /\ log' = log /\ newlog' = newlog /\ sweep' = sweep
  BY DEF AppendLog
<1>2. /\ log \in LogNames /\ dir[log] \in LogFiles /\ dir[log].base <= TopIdx
      /\ dir[log].last = acked /\ log[2] <= Top /\ Anchor(log)
  BY <1>1, LiveLog
<1> DEFINE c == Log(dir[log].base, dir[log].last + 1)
<1>3. /\ dir'[log] = c /\ stable'[log] = {c} /\ c \in LogFiles
      /\ \A n \in LogNames \ {log} : dir'[n] = dir[n] /\ stable'[n] = stable[n]
  <2>1. /\ dir'[log] = c /\ stable'[log] = {dir'[log]}
        /\ dir[log].last + 1 \in 0..MaxIndex
        /\ \A n \in Names \ {log} : dir'[n] = dir[n] /\ stable'[n] = stable[n]
    BY LogTouches
  <2>2. c \in LogFiles
    BY <1>2, <2>1, FilesAre
  <2> QED
    BY <2>1, <2>2, NamesAre
<1>4. c.base = dir[log].base /\ c.last = acked + 1 /\ c \notin Unreadable
  BY <1>2, <1>3, FilesAre
<1>5. Top' = Top /\ TopIdx' = TopIdx /\ acked' = acked + 1
  BY LogOpIndices
<1> HIDE DEF c
<1>6. \A o \in LogNames : o[2] > log[2] => o # log /\ stable'[o] \subseteq Unreadable
  <2> SUFFICES ASSUME NEW o \in LogNames, o[2] > log[2]
               PROVE  o # log /\ stable'[o] \subseteq Unreadable
    OBVIOUS
  <2>1. o # log
    BY <1>2, NamesAre, BoundsAssumption
  <2>2. stable[o] \subseteq Unreadable
    BY <1>1, NamesAre DEF Logs
  <2> QED
    BY <1>3, <2>1, <2>2
<1>7. ASSUME NEW o \in LogNames, o[2] >= log[2], NEW d \in stable'[o] \ Unreadable
      PROVE  o[2] <= Top /\ d.last = acked + 1 /\ d.base <= TopIdx
  <2>1. ~ (o[2] > log[2]) /\ o[2] \in Nat /\ log[2] \in Nat
    BY <1>2, <1>6, <1>7, IndexTypes
  <2>2. o = log
    BY <1>2, <1>7, <2>1, NamesAre
  <2> QED
    BY <2>2, <1>2, <1>3, <1>4, <1>7
<1>8. PICK n \in LogNames : n = log
  BY <1>2
<1>9. Anchor(n)'
  <2>1. n[2] <= Top' /\ dir'[n] \notin Unreadable /\ stable'[n] = {dir'[n]} /\ n \notin sweep'
    BY <1>1, <1>2, <1>3, <1>4, <1>5, <1>8 DEF Anchor
  <2>2. \A o \in LogNames : o[2] >= n[2] => \A d \in stable'[o] \ Unreadable :
          o[2] <= Top' /\ d.last = acked' /\ d.base <= TopIdx'
    BY <1>5, <1>7, <1>8
  <2> QED
    BY <2>1, <2>2 DEF Anchor
<1> QED
  BY <1>1, <1>6, <1>8, <1>9 DEF Logs

LEMMA CreateLogs ==
  ASSUME TypeInv, TypeInv', Core, Core', Indices, Logs, UNCHANGED host, CreateLogFile
  PROVE  Logs'
<1> DEFINE n == LogName(latest.gen)
           c == Log(latest.idx, dir[log].last)
<1>1. /\ log # NoLog /\ newlog = NoLog /\ log' = log /\ newlog' = n /\ sweep' = sweep
      /\ state # "down" /\ latest # NoSnap /\ log # n
  BY DEF CreateLogFile, Idle
<1>2. /\ log \in LogNames /\ dir[log] \in LogFiles /\ dir[log].base <= TopIdx
      /\ dir[log].last = acked /\ log[2] <= Top /\ Anchor(log)
  BY <1>1, LiveLog
<1>3. /\ n \in LogNames /\ stable'[n] = stable[n] \cup {Empty, Garbage, c}
      /\ \A m \in LogNames \ {n} : dir'[m] = dir[m] /\ stable'[m] = stable[m]
  BY LogTouches, NamesAre
<1>4. c.base = TopIdx /\ c.last = acked
  BY <1>1, <1>2, FilesAre, TopIdxIs
<1>5. Top' = Top /\ TopIdx' = TopIdx /\ acked' = acked
  <2>1. ~AppendLog
    BY NamesDiffer DEF CreateLogFile, AppendLog
  <2> QED
    BY <2>1, LogOpIndices
<1>6. n[2] = Top /\ log[2] < Top
  <2>1. n[2] = Top
    BY <1>1, TopIs, NamesDiffer
  <2>2. log[2] # Top /\ log[2] \in Nat /\ Top \in Nat
    <3>1. log = LogName(log[2]) /\ log[2] \in Nat
      BY <1>2, NamesAre, BoundsAssumption
    <3>2. n = LogName(Top)
      BY <1>1, TopIs
    <3> HIDE DEF n
    <3>3. log[2] # Top
      BY <1>1, <3>1, <3>2
    <3> QED
      BY <3>1, <3>3, TopTypes DEF TopNat
  <2> QED
    BY <1>2, <2>1, <2>2
<1> HIDE DEF n, c
<1>7. ASSUME NEW o \in LogNames, o[2] >= log[2], NEW d \in stable'[o] \ Unreadable
      PROVE  o[2] <= Top /\ d.last = acked /\ d.base <= TopIdx
  <2>1. CASE d \in stable[o]
    BY <1>2, <1>7, <2>1 DEF Anchor
  <2>2. CASE d \notin stable[o]
    <3>1. o = n
      BY <1>3, <1>7, <2>2
    <3>2. d = c
      BY <3>1, <1>3, <1>7, <2>2 DEF Unreadable
    <3> QED
      BY <3>1, <3>2, <1>4, <1>6, TopTypes DEF TopNat
  <2> QED
    BY <2>1, <2>2
<1>8. PICK a \in LogNames : a = log
  BY <1>2
<1>9. Anchor(a)'
  <2>1. dir'[log] = dir[log] /\ stable'[log] = stable[log]
    BY <1>1, <1>2, <1>3
  <2>2. a[2] <= Top' /\ dir'[a] \notin Unreadable /\ stable'[a] = {dir'[a]} /\ a \notin sweep'
    BY <1>1, <1>2, <1>5, <1>8, <2>1 DEF Anchor
  <2>3. \A o \in LogNames : o[2] >= a[2] => \A d \in stable'[o] \ Unreadable :
          o[2] <= Top' /\ d.last = acked' /\ d.base <= TopIdx'
    BY <1>5, <1>7, <1>8
  <2> QED
    BY <2>2, <2>3 DEF Anchor
<1>10. \A o \in LogNames : o[2] > log[2] => o = newlog' \/ stable'[o] \subseteq Unreadable
  BY <1>1, <1>3, NamesAre DEF Logs
<1>11. log'[2] < newlog'[2] /\ newlog'[2] <= Top'
  BY <1>1, <1>5, <1>6, TopTypes DEF TopNat
<1> QED
  BY <1>1, <1>8, <1>9, <1>10, <1>11 DEF Logs

LEMMA CompactLogs ==
  ASSUME TypeInv, TypeInv', Core, Core', Indices, Logs, UNCHANGED host, CompactLog
  PROVE  Logs'
<1> DEFINE c == Log(latest.idx, dir[log].last)
<1>1. /\ newlog # NoLog /\ log # NoLog /\ log' = newlog /\ newlog' = NoLog /\ state # "down"
      /\ sweep' = {n \in Present \cap LogNames : n # newlog}
  BY DEF CompactLog, Idle, TypeInv, LogTypes
<1>2. /\ log \in LogNames /\ dir[log] \in LogFiles /\ dir[log].last = acked
  BY <1>1, LiveLog
<1>3. /\ newlog \in LogNames /\ dir'[newlog] = c /\ stable'[newlog] = {c}
      /\ \A m \in LogNames \ {newlog} : dir'[m] = dir[m] /\ stable'[m] = stable[m]
  BY LogTouches, NamesAre
<1>4. c.base = TopIdx /\ c.last = acked /\ c \notin Unreadable
  <2>1. c.base = TopIdx /\ c.last = acked
    BY <1>1, <1>2, FilesAre, TopIdxIs
  <2>2. latest.idx \in 0..MaxIndex /\ dir[log].last \in 0..MaxIndex
    BY <1>1, <1>2, TopIdxIs, FilesAre
  <2> QED
    BY <2>1, <2>2, FilesAre
<1>5. Top' = Top /\ TopIdx' = TopIdx /\ acked' = acked
  <2>1. ~AppendLog
    BY <1>1 DEF AppendLog
  <2> QED
    BY <2>1, LogOpIndices
<1>6. log[2] < newlog[2] /\ newlog[2] <= Top /\ log[2] \in Nat /\ newlog[2] \in Nat
  BY <1>1, <1>2, <1>3, IndexTypes DEF Logs
<1> HIDE DEF c
<1>7. ASSUME NEW o \in LogNames, o[2] > newlog[2]
      PROVE  o # newlog /\ stable'[o] \subseteq Unreadable
  <2>1. o # newlog /\ o[2] > log[2]
    <3>1. o[2] \in Nat
      BY NamesAre, BoundsAssumption
    <3> QED
      BY <3>1, <1>6, <1>7
  <2>2. stable[o] \subseteq Unreadable
    BY <1>1, <2>1 DEF Logs
  <2> QED
    BY <1>3, <2>1, <2>2
<1>8. ASSUME NEW o \in LogNames, o[2] >= newlog[2], NEW d \in stable'[o] \ Unreadable
      PROVE  o = newlog /\ d = c
  <2>1. ~ (o[2] > newlog[2]) /\ o[2] \in Nat
    BY <1>7, <1>8, IndexTypes
  <2>2. o = newlog
    BY <1>3, <1>6, <1>8, <2>1, NamesAre
  <2> QED
    BY <2>2, <1>3, <1>8
<1>9. PICK a \in LogNames : a = newlog
  BY <1>3
<1>10. Anchor(a)'
  <2>1. a[2] <= Top' /\ dir'[a] \notin Unreadable /\ stable'[a] = {dir'[a]} /\ a \notin sweep'
    BY <1>1, <1>3, <1>4, <1>5, <1>6, <1>9
  <2>2. \A o \in LogNames : o[2] >= a[2] => \A d \in stable'[o] \ Unreadable :
          o[2] <= Top' /\ d.last = acked' /\ d.base <= TopIdx'
    <3>1. TopIdx <= TopIdx
      BY TopTypes DEF TopNat
    <3> QED
      BY <3>1, <1>4, <1>5, <1>6, <1>8, <1>9
  <2> QED
    BY <2>1, <2>2 DEF Anchor
<1> QED
  BY <1>1, <1>7, <1>9, <1>10 DEF Logs

\* The newest log that opens is not older than the anchor.
LEMMA OpenLogs ==
  ASSUME TypeInv, TypeInv', Core, Core', Indices, Logs, "trust" \notin host, UNCHANGED host,
         OpenLog
  PROVE  Logs'
<1>1. /\ log = NoLog /\ newlog' = newlog /\ sweep' = sweep /\ sweep = {} /\ newlog = NoLog
  BY DEF OpenLog, Idle, TypeInv, LogTypes
<1>2. PICK n \in Present \cap LogNames :
        /\ LogOpens(n) /\ log' = n
        /\ \A o \in Present \cap LogNames : o[2] > n[2] => ~LogOpens(o)
        /\ IF dir[n] = Empty THEN Write(n, Log(latest.idx, latest.idx))
                             ELSE UNCHANGED <<dir, stable>>
  BY DEF OpenLog
<1>3. dir[n] \notin Unreadable /\ n \in LogNames
  BY <1>2 DEF LogOpens
<1>4. dir' = dir /\ stable' = stable
  BY <1>2, <1>3 DEF Unreadable
<1>5. Top' = Top /\ TopIdx' = TopIdx /\ acked' = acked
  <2>1. ~AppendLog
    BY <1>1 DEF AppendLog
  <2> QED
    BY <2>1, LogOpIndices
<1>6. PICK a \in LogNames : Anchor(a)
  BY DEF Logs
<1>7. \A o \in LogNames : o[2] \in Nat /\ stable[o] = {dir[o]}
  BY <1>1, NamesAre, BoundsAssumption DEF Logs
<1>8. a[2] <= n[2]
  <2> SUFFICES ASSUME a[2] > n[2] PROVE FALSE
    BY <1>3, <1>7
  <2>1. dir[a] \notin Unreadable
    BY <1>6 DEF Anchor
  <2>2. a \in Present /\ LogOpens(a)
    BY <2>1, NamesAre DEF Present, LogOpens, Unreadable
  <2> QED
    BY <1>2, <2>2
<1>9. Anchor(n)'
  <2>1. \A o \in LogNames : o[2] >= n[2] => \A d \in stable'[o] \ Unreadable :
          o[2] <= Top' /\ d.last = acked' /\ d.base <= TopIdx'
    <3> SUFFICES ASSUME NEW o \in LogNames, o[2] >= n[2], NEW d \in stable[o] \ Unreadable
                 PROVE  o[2] <= Top /\ d.last = acked /\ d.base <= TopIdx
      BY <1>4, <1>5
    <3>1. o[2] >= a[2]
      BY <1>3, <1>7, <1>8
    <3> QED
      BY <3>1, <1>6 DEF Anchor
  <2>2. dir[n] \in stable[n] \ Unreadable
    BY <1>3, <1>7
  <2>3. n[2] <= Top'
    BY <1>3, <1>4, <1>7, <2>1, <2>2
  <2> QED
    BY <1>1, <1>3, <1>4, <1>7, <2>1, <2>3 DEF Anchor
<1>10. \A o \in LogNames : o[2] > n[2] => stable'[o] \subseteq Unreadable
  <2> SUFFICES ASSUME NEW o \in LogNames, o[2] > n[2] PROVE dir[o] \in Unreadable
    BY <1>4, <1>7
  <2>1. o \notin Present \/ ~LogOpens(o)
    BY <1>2
  <2> QED
    BY <2>1, NamesAre DEF Present, LogOpens, Unreadable
<1>11. log' # NoLog /\ log' = n
  BY <1>2, <1>3, NamesAre
<1> QED
  BY <1>1, <1>3, <1>9, <1>10, <1>11 DEF Logs

RecordInv == StoreInv /\ (Sound => Indices /\ Logs)

LEMMA InitRecords == Init => Indices /\ Logs
<1> SUFFICES ASSUME Init PROVE Indices /\ Logs
  OBVIOUS
<1>1. /\ dir = [n \in Names |-> IF n = LogName(0) THEN Log(0, 0) ELSE Absent]
      /\ stable = [n \in Names |-> {dir[n]}]
      /\ state = "down" /\ tx = NoTx /\ sweep = {} /\ log = NoLog /\ newlog = NoLog
      /\ acked = 0 /\ committed = 0
  BY DEF Init
<1>2. TypeInv /\ Core
  BY InitTypes, InitCore
<1>3. \A g \in Gens : ~Committing(g)
  <2>1. \A n \in SnapNames : n \in Names /\ n # LogName(0)
    BY NamesAre, BoundsAssumption
  <2> QED
    BY <1>1, <2>1, NamesAre DEF Committing, Unreadable
<1>4. Top = 0 /\ TopIdx = 0
  <2>1. ~ (Top > 0)
    BY <1>2, <1>3, TopIs DEF Core, Commits, Settled
  <2> QED
    BY <1>2, <2>1, TopTypes DEF TopNat, TopIdx
<1>5. Indices
  BY <1>1, <1>3, <1>4 DEF Indices, Committing
<1> DEFINE a == LogName(0)
<1>6. a \in LogNames /\ a \in Names /\ a[2] = 0 /\ Log(0, 0) \notin Unreadable
  BY NamesAre, NamesDiffer, FilesAre, BoundsAssumption
<1>7. ASSUME NEW o \in LogNames, NEW c \in stable[o] \ Unreadable
      PROVE  o[2] <= 0 /\ c.last = 0 /\ c.base <= 0
  <2>1. o \in Names /\ dir[o] \notin Unreadable /\ c = dir[o]
    BY <1>1, <1>7, NamesAre
  <2>2. o = a
    BY <1>1, <2>1 DEF Unreadable
  <2>3. c = Log(0, 0)
    BY <1>1, <1>6, <2>1, <2>2
  <2> QED
    BY <1>6, <2>2, <2>3, FilesAre
<1>8. dir[a] = Log(0, 0) /\ stable[a] = {dir[a]}
  BY <1>1, <1>6
<1> HIDE DEF a
<1>9. Anchor(a)
  BY <1>1, <1>4, <1>6, <1>7, <1>8 DEF Anchor
<1>10. \A o \in LogNames : stable[o] = {dir[o]}
  BY <1>1, NamesAre
<1> QED
  BY <1>1, <1>5, <1>6, <1>9, <1>10 DEF Logs

LEMMA StepRecords ==
  ASSUME TypeInv, TypeInv', Core, Core', Sound, Indices, Logs, [Next]_vars
  PROVE  Indices' /\ Logs'
<1>0. Ordinary /\ "trust" \notin host
  BY DEF Sound
<1>1. CASE UNCHANGED vars
  <2>1. /\ UNCHANGED <<host, dir, stable, state, latest, tx, sweep>>
        /\ UNCHANGED <<log, newlog, acked, committed>>
    BY <1>1 DEF vars
  <2>2. NewestValid' = NewestValid
    BY <2>1, KeptFiles DEF SnapFilesKept
  <2>3. Top' = Top
    BY <2>1, <2>2 DEF Top
  <2>4. TopIdx' = TopIdx
    BY <2>1, <2>3, SameTop
  <2>5. Indices'
    BY <2>1, <2>3, <2>4 DEF Indices
  <2>6. Logs'
    BY <2>1, <2>3, <2>4, TopTypes, QuietLogs DEF TopNat
  <2> QED
    BY <2>5, <2>6
<1>2. CASE Next
  <2>0. UNCHANGED host
    BY <1>2 DEF Next
  <2>1. CASE Open \/ Opened \/ Close \/ Begin \/ Abort
    BY <1>0, <2>0, <2>1, OpenIndices
  <2>2. CASE \E n \in Names : Remove(n)
    BY <2>0, <2>2, RemoveIndices
  <2>3. CASE WriteManifest \/ FlushManifest \/ \E r \in Roles : CreateFile(r) \/ FillFile(r)
    BY <1>0, <2>0, <2>3, WriteIndices
  <2>4. CASE AdoptCommitted
    BY <2>0, <2>4, AdoptIndices
  <2>5. CASE AppendLog
    BY <2>0, <2>5, AppendLogs, LogOpIndices
  <2>6. CASE CreateLogFile
    BY <2>0, <2>6, CreateLogs, LogOpIndices
  <2>7. CASE CompactLog
    BY <2>0, <2>7, CompactLogs, LogOpIndices
  <2>8. CASE OpenLog
    BY <1>0, <2>0, <2>8, OpenLogs, LogOpIndices
  <2>9. CASE Crash
    BY <2>0, <2>9, CrashIndices
  <2>10. ~Kill
    BY <1>0 DEF Kill, Ordinary
  <2> QED
    BY <1>2, <2>1, <2>2, <2>3, <2>4, <2>5, <2>6, <2>7, <2>8, <2>9, <2>10 DEF Next
<1> QED
  BY <1>1, <1>2

LEMMA RecordStep == RecordInv /\ [Next]_vars => RecordInv'
<1> SUFFICES ASSUME RecordInv, [Next]_vars PROVE RecordInv'
  OBVIOUS
<1>1. StoreInv /\ StoreInv'
  BY StoreStep DEF RecordInv
<1>2. host' = host
  BY DEF Next, vars
<1>3. TypeInv /\ TypeInv' /\ (Sound => Core /\ Core')
  BY <1>1, <1>2 DEF StoreInv, Sound, Ordinary
<1>4. Sound => Indices' /\ Logs'
  BY <1>3, StepRecords DEF RecordInv
<1>5. Sound' => Sound
  BY <1>2 DEF Sound, Ordinary
<1> QED
  BY <1>1, <1>4, <1>5 DEF RecordInv

\* The committed index, the generation in force and the log stay in step, for every host
\* that is sound.
THEOREM RecordInvariant == Spec => []RecordInv
<1>1. Init => RecordInv
  BY InitTypes, InitCore, InitRecords DEF RecordInv, StoreInv
<1> QED
  BY <1>1, RecordStep, PTL DEF Spec

\* What is known of the hosts looked at: none takes an empty log file for a log.
Untrusting == \A h \in Hosts : "trust" \notin h

LEMMA HostsUntrusting == Untrusting /\ Spec => []("trust" \notin host)
<1>1. Untrusting /\ Init => "trust" \notin host
  BY DEF Untrusting, Init
<1>2. "trust" \notin host /\ [Next]_vars => ("trust" \notin host)'
  BY DEF Next, vars
<1> QED
  BY <1>1, <1>2, PTL DEF Spec

\* CommittedSurvives: no open adopts a snapshot older than the one of the last commit that
\* returned, nor one with files that are not its own.
THEOREM SnapshotSurvives == Untrusting /\ Spec => []CommittedSurvives
<1>1. RecordInv /\ "trust" \notin host => CommittedSurvives
  <2> SUFFICES ASSUME RecordInv, "trust" \notin host, host \cap {"flush", "kill"} = {}, state # "down"
               PROVE  /\ latest.idx >= committed
                      /\ latest # NoSnap =>
                           \A r \in Roles : dir[DataName(latest.gen, r)] = Data(latest.idx)
    BY DEF CommittedSurvives, CommittedKept
  <2>0. Sound /\ "flush" \notin host
    BY DEF Sound, Ordinary
  <2>1. TypeInv /\ Core /\ Indices
    BY <2>0 DEF RecordInv, StoreInv, Sound
  <2>2. latest.idx = TopIdx /\ TopIdx \in Nat /\ committed \in Nat /\ committed <= TopIdx
    BY <2>1, TopIdxIs, IndexTypes, TopTypes, BoundsAssumption DEF Indices, TopNat
  <2>3. ASSUME latest # NoSnap, NEW r \in Roles
        PROVE  dir[DataName(latest.gen, r)] = Data(latest.idx)
    <3>1. DOMAIN latest.crc = Roles
      BY <2>1, <2>3 DEF TypeInv, StoreTypes, Snaps
    <3>2. AdoptedVerifies
      BY <2>0, <2>1, AdoptedIs
    <3> QED
      BY <3>1, <3>2 DEF AdoptedVerifies
  <2> QED
    BY <2>2, <2>3
<1> QED
  BY <1>1, RecordInvariant, HostsUntrusting, PTL

\* Nor may, where a manifest's flush may fail, a deletion fail or be undone.
SoundHosts == Untrusting /\ \A h \in Hosts : "flush" \in h => h \cap {"undelete", "locked"} = {}

LEMMA HostsSound == SoundHosts /\ Spec => []("kill" \notin host => Sound)
<1>1. SoundHosts /\ Init => ("kill" \notin host => Sound)
  BY DEF SoundHosts, Untrusting, Init, Sound, Ordinary
<1>2. ("kill" \notin host => Sound) /\ [Next]_vars => ("kill" \notin host => Sound)'
  BY DEF Sound, Ordinary, Next, vars
<1> QED
  BY <1>1, <1>2, PTL DEF Spec

\* RecoverableUnlessKilled: the log adopted after a restart holds every acknowledged entry
\* and begins no later than the adopted snapshot ends.
THEOREM SnapshotRecoverable == SoundHosts /\ Spec => []RecoverableUnlessKilled
<1>1. RecordInv /\ ("kill" \notin host => Sound) => RecoverableUnlessKilled
  <2> SUFFICES ASSUME RecordInv, Sound, Idle, log # NoLog
               PROVE  dir[log].last = acked /\ dir[log].base <= latest.idx
    BY DEF RecoverableUnlessKilled, Recoverable
  <2>1. TypeInv /\ Core /\ Logs /\ state # "down"
    BY DEF RecordInv, StoreInv, Sound, Idle
  <2> QED
    BY <2>1, LiveLog, TopIdxIs
<1> QED
  BY <1>1, RecordInvariant, HostsSound, PTL
==============================================================================
