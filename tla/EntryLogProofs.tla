---------------------------- MODULE EntryLogProofs ----------------------------
(***************************************************************************)
(* TLAPS proofs about EntryLog, for every value of its constants: the      *)
(* offset table invariant, the safety of answered votes, recovery (the file *)
(* changes only as CommitFile allows, whatever a crash leaves of it can be *)
(* reopened, and the open handle always verifies), that what a durable     *)
(* commit recorded as committed stays readable, and that EntryLog          *)
(* implements RaftLog.                                                     *)
(***************************************************************************)
EXTENDS EntryLogInv, ReplayLoop, NatLemmas

-----------------------------------------------------------------------------
(* The greatest element.                                                   *)

\* MaxOf is defined on every non-empty set of positions.
LEMMA MaxOfPositions ==
  ASSUME NEW n \in Nat, NEW S \in SUBSET (1..n), S # {}
  PROVE  MaxOf(S) \in S /\ \A y \in S : y <= MaxOf(S)
<1> DEFINE T == {n - x : x \in S}
<1>1. PICK e \in S : TRUE
  OBVIOUS
<1>2. T \subseteq Nat /\ n - e \in T
  BY <1>1
<1>3. PICK x \in T : \A y \in T : ~ (<<y, x>> \in Less)
  <2> HIDE DEF T
  <2> QED BY <1>2, LessWF, WFMin
<1>4. \A y \in T : ~ (y < x)
  BY <1>2, <1>3 DEF Less
<1>5. PICK w \in S : x = n - w
  BY <1>3
<1>6. ASSUME NEW y \in S PROVE y <= w
  <2>1. n - y \in T
    OBVIOUS
  <2> HIDE DEF T
  <2> QED BY <2>1, <1>4, <1>5
<1> QED
  BY <1>5, <1>6 DEF MaxOf

-----------------------------------------------------------------------------
(* Well-formed record sequences.                                           *)

\* A log cut at any record has no gap either.
LEMMA WellFormedPrefix ==
  ASSUME NEW f \in Seq(Records), NEW b, WellFormed(f, b), NEW k \in 0..Len(f)
  PROVE  WellFormed(SubSeq(f, 1, k), b)
  BY DEF WellFormed, EntryPos

\* A metadata record of the same base may follow.
LEMMA WellFormedMeta ==
  ASSUME NEW f \in Seq(Records), NEW b \in BaseRecs, WellFormed(f, b), NEW s \in MetaState
  PROVE  /\ Append(f, Metadata(b, s)) \in Seq(Records)
         /\ Append(f, Metadata(b, s))[Len(f) + 1] = Metadata(b, s)
         /\ Len(Append(f, Metadata(b, s))) = Len(f) + 1
         /\ WellFormed(Append(f, Metadata(b, s)), b)
<1> DEFINE md == Metadata(b, s)
           g == Append(f, md)
<1>1. md \in MetaRecs /\ md \in Records /\ md.kind = "meta" /\ md.base = b
  BY DEF Metadata, MetaRecs, Records, MetaState
<1> HIDE DEF md
<1>2. g \in Seq(Records) /\ Len(g) = Len(f) + 1 /\ g[Len(f) + 1] = md
      /\ \A p \in 1..Len(f) : g[p] = f[p]
  BY <1>1
<1>3. EntryPos(g) = EntryPos(f)
  BY <1>1, <1>2 DEF EntryPos
<1>4. WellFormed(g, b)
  BY <1>1, <1>2, <1>3 DEF WellFormed, EntryPos
<1> QED
  BY <1>2, <1>4 DEF md

\* An entry of the next index, or of any index some record already has, may follow.
LEMMA WellFormedEntry ==
  ASSUME NEW f \in Seq(Records), NEW b \in BaseRecs, WellFormed(f, b),
         NEW i \in Indexes, i > b.index,
         i = b.index + 1 \/ \E p \in EntryPos(f) : f[p].index = i - 1,
         NEW e \in EntryRecs, e.index = i
  PROVE  /\ Append(f, e) \in Seq(Records)
         /\ EntryPos(Append(f, e)) = EntryPos(f) \cup {Len(f) + 1}
         /\ WellFormed(Append(f, e), b)
<1> DEFINE g == Append(f, e)
<1>1. e \in Records /\ e.kind = "entry"
  BY DEF EntryRecs, Records
<1>2. g \in Seq(Records) /\ Len(g) = Len(f) + 1 /\ g[Len(f) + 1] = e
      /\ \A p \in 1..Len(f) : g[p] = f[p]
  BY <1>1
<1>3. EntryPos(g) = EntryPos(f) \cup {Len(f) + 1}
  BY <1>1, <1>2 DEF EntryPos
<1>4. ASSUME NEW p \in EntryPos(g)
      PROVE  /\ g[p].index > b.index
             /\ \A j \in (b.index + 1)..g[p].index :
                  \E q \in EntryPos(g) : q <= p /\ g[q].index = j
  <2>1. CASE p \in EntryPos(f)
    BY <2>1, <1>2, <1>3 DEF WellFormed, EntryPos
  <2>2. CASE p = Len(f) + 1
    <3>1. g[p].index = i
      BY <2>2, <1>2
    <3>2. ASSUME NEW j \in (b.index + 1)..i, j # i
          PROVE  \E q \in EntryPos(f) : f[q].index = j
      <4>1. PICK r \in EntryPos(f) : f[r].index = i - 1
        BY <3>2 DEF BaseRecs, Indexes
      <4>2. j \in (b.index + 1)..f[r].index
        BY <3>2, <4>1 DEF BaseRecs, Indexes
      <4> QED
        BY <4>1, <4>2 DEF WellFormed
    <3> QED
      BY <3>1, <3>2, <2>2, <1>2, <1>3 DEF EntryPos
  <2> QED
    BY <2>1, <2>2, <1>3
<1>5. WellFormed(g, b)
  <2> HIDE DEF g
  <2>1. ASSUME NEW p \in 1..Len(g), g[p].kind = "meta" PROVE g[p].base = b
    <3>1. p \in 1..Len(f)
      BY <2>1, <1>1, <1>2
    <3> QED
      BY <3>1, <2>1, <1>2 DEF WellFormed
  <2> QED
    BY <2>1, <1>4 DEF WellFormed
<1> QED
  BY <1>2, <1>3, <1>5

-----------------------------------------------------------------------------
(* The offset table.                                                       *)

\* An element of a log with a kind is of that kind's type.
LEMMA RecordKinds ==
  ASSUME NEW r \in Records
  PROVE  /\ r.kind = "meta" => r \in MetaRecs
         /\ r.kind = "entry" => r \in EntryRecs
  BY DEF Records, Header, EntryRecs, MetaRecs

\* The replay of a log without gaps finds a record for every slot.
LEMMA ReplayFindsSlots ==
  ASSUME NEW f \in Seq(Records), NEW b \in BaseRecs, WellFormed(f, b)
  PROVE  /\ RawLast(f, b) \in Indexes
         /\ RawLast(f, b) >= b.index
         /\ \A i \in (b.index + 1)..RawLast(f, b) :
              SlotPos(f, i) \in EntryPos(f) /\ f[SlotPos(f, i)].index = i
<1>1. Len(f) \in Nat /\ EntryPos(f) \subseteq 1..Len(f)
  BY DEF EntryPos
<1>2. CASE EntryPos(f) = {}
  <2>1. RawLast(f, b) = b.index
    BY <1>2 DEF RawLast
  <2> QED
    BY <2>1 DEF BaseRecs, Indexes
<1>3. CASE EntryPos(f) # {}
  <2> DEFINE last == MaxOf(EntryPos(f))
  <2>1. last \in EntryPos(f) /\ \A y \in EntryPos(f) : y <= last
    BY <1>1, <1>3, MaxOfPositions
  <2>2. RawLast(f, b) = f[last].index
    BY <1>3 DEF RawLast
  <2> HIDE DEF last
  <2>3. f[last] \in EntryRecs
    BY <2>1, RecordKinds DEF EntryPos
  <2>4. f[last].index \in Indexes /\ f[last].index > b.index
    BY <2>1, <2>3 DEF EntryRecs, WellFormed
  <2>5. ASSUME NEW i \in (b.index + 1)..f[last].index
        PROVE  SlotPos(f, i) \in EntryPos(f) /\ f[SlotPos(f, i)].index = i
    <3> DEFINE S == {p \in EntryPos(f) : f[p].index = i}
    <3>1. S \subseteq 1..Len(f) /\ S # {}
      BY <1>1, <2>1 DEF WellFormed
    <3>2. MaxOf(S) \in S
      <4> HIDE DEF S
      <4> QED BY <1>1, <3>1, MaxOfPositions
    <3> QED
      BY <3>2 DEF SlotPos
  <2> QED
    BY <2>2, <2>4, <2>5 DEF BaseRecs, Indexes
<1> QED
  BY <1>2, <1>3

\* What a handle opened on a whole log starts from.
LEMMA Recovered ==
  ASSUME NEW f \in Seq(Records), Openable(f), WholeLog(f)
  PROVE  /\ Len(f) \in Nat \ {0}
         /\ f[Len(f)] \in MetaRecs
         /\ LastBase(f) \in BaseRecs
         /\ RecoveredMeta(f) \in MetaState
         /\ LastBase(f).index <= RecoveredMeta(f).last
         /\ RecoveredMeta(f).n = RecoveredMeta(f).last - LastBase(f).index
         /\ RecoveredEnts(f) \in Seq([off : Nat, term : Terms])
         /\ Slots(RecoveredEnts(f), RecoveredMeta(f).n, LastBase(f), f)
<1> DEFINE md == f[Len(f)]
           b  == md.base
           k  == RawLast(f, b) - b.index
<1>1. Len(f) \in Nat \ {0}
  BY DEF Openable
<1>2. md \in MetaRecs
  BY <1>1, RecordKinds DEF WholeLog
<1>3. b \in BaseRecs /\ b.index \in Indexes /\ md.last \in Indexes
  BY <1>2 DEF MetaRecs, BaseRecs
<1>4. md.last >= b.index /\ RawLast(f, b) >= md.last
  BY DEF Openable
<1>5. WellFormed(f, b)
  BY DEF WholeLog, LastBase
<1>6. /\ RawLast(f, b) \in Indexes
      /\ \A i \in (b.index + 1)..RawLast(f, b) :
           SlotPos(f, i) \in EntryPos(f) /\ f[SlotPos(f, i)].index = i
  BY <1>3, <1>5, ReplayFindsSlots
<1>7. /\ RecoveredMeta(f) \in MetaState
      /\ RecoveredMeta(f).last = md.last
      /\ RecoveredMeta(f).n = md.last - b.index
  BY <1>2, <1>3, <1>4, BoundsAssumption DEF RecoveredMeta, MetaState, MetaRecs, Indexes
<1>8. /\ RecoveredEnts(f) = [j \in 1..k |-> [off  |-> SlotPos(f, b.index + j),
                                              term |-> f[SlotPos(f, b.index + j)].term]]
      /\ k \in Nat
  BY <1>3, <1>4, <1>6 DEF RecoveredEnts, ReplayTable, Indexes
<1> HIDE DEF md, b, k
<1>9. ASSUME NEW j \in 1..k
      PROVE  /\ SlotPos(f, b.index + j) \in EntryPos(f)
             /\ f[SlotPos(f, b.index + j)].index = b.index + j
             /\ f[SlotPos(f, b.index + j)] \in EntryRecs
  <2>1. b.index + j \in (b.index + 1)..RawLast(f, b)
    BY <1>3, <1>6, <1>8 DEF k, Indexes
  <2>2. /\ SlotPos(f, b.index + j) \in EntryPos(f)
        /\ f[SlotPos(f, b.index + j)].index = b.index + j
    BY <2>1, <1>6
  <2> QED
    BY <2>2, RecordKinds DEF EntryPos
<1>10. RecoveredEnts(f) \in Seq([off : Nat, term : Terms]) /\ Len(RecoveredEnts(f)) = k
  BY <1>8, <1>9 DEF EntryPos, EntryRecs
<1>11. Slots(RecoveredEnts(f), md.last - b.index, b, f)
  <2>1. md.last - b.index <= k
    BY <1>3, <1>4, <1>6 DEF k, Indexes
  <2>2. \A j \in 1..(md.last - b.index) : j \in 1..k
    BY <2>1, <1>3, <1>8 DEF Indexes
  <2> QED
    BY <2>1, <2>2, <1>8, <1>9, <1>10 DEF Slots
<1> QED
  BY <1>1, <1>2, <1>3, <1>4, <1>7, <1>10, <1>11 DEF md, b, LastBase

-----------------------------------------------------------------------------
(* The table invariant, action by action.                                  *)

\* The buffer follows the file.
LEMMA ImageFacts ==
  ASSUME TypeOK
  PROVE  /\ Image \in Seq(Records)
         /\ Len(Image) = Len(file) + Len(pend)
         /\ \A p \in 1..Len(file) : Image[p] = file[p]
         /\ pend = <<>> => Image = file
<1>1. file \in Seq(Records) /\ pend \in Seq(Records)
  BY DEF TypeOK, Records
<1> QED
  BY <1>1 DEF Image

\* A commit of any state whose live slots are right, whether the host takes it,
\* refuses it or takes it without syncing.
LEMMA CommitInv ==
  ASSUME TableInv, up,
         NEW s \in MetaState, CommitState(s),
         base.index <= s.last, s.n = s.last - base.index,
         Slots(ents, s.n, base, Image),
         UNCHANGED <<up, base, ents, dst>>, votes' \subseteq Terms \X Node
  PROVE  TableInv'
<1>1. TypeOK /\ OpenState
  BY DEF TableInv
<1> DEFINE g == Append(Image, Metadata(base, s))
<1>2. /\ Image \in Seq(Records)
      /\ Len(Image) = Len(file) + Len(pend)
      /\ \A p \in 1..Len(file) : Image[p] = file[p]
      /\ Len(file) \in Nat /\ Len(pend) \in Nat
  BY <1>1, ImageFacts DEF TypeOK
<1>3. base \in BaseRecs /\ WellFormed(Image, base)
  BY <1>1 DEF TypeOK, OpenState
<1>4. /\ g \in Seq(Records) /\ Len(g) = Len(Image) + 1
      /\ g[Len(g)].kind = "meta" /\ LastBase(g) = base
      /\ WellFormed(g, base)
  BY <1>2, <1>3, WellFormedMeta DEF Metadata, LastBase
<1>5. \A p \in 1..Len(Image) : g[p] = Image[p]
  BY <1>2
<1>6. WholeLog(g) /\ g # <<>>
  BY <1>2, <1>4 DEF WholeLog
<1> HIDE DEF g
<1>7. CASE CommitOk(s)
  <2>1. file' = g /\ pend' = <<>> /\ m' = s /\ cm' = s /\ safe' = Len(g)
    BY <1>7 DEF CommitOk, g
  <2>2. TypeOK'
    BY <2>1, <1>1, <1>2, <1>4 DEF TypeOK
  <2>3. Image' = g
    BY <2>1, <1>4 DEF Image
  <2>4. Slots(ents, s.n, base, g)
    BY <1>2, <1>4, <1>5 DEF Slots, EntryPos
  <2>5. OpenState'
    BY <2>1, <2>3, <2>4, <1>1, <1>4, <1>6 DEF OpenState, MetaState, Indexes
  <2> QED
    BY <2>1, <2>2, <2>5, <1>1, <1>6 DEF TableInv
<1>8. CASE CommitFails(s)
  <2>1. pend' = <<>> /\ m' = cm /\ cm' = cm /\ safe' = safe /\ file' \in {file, g}
    BY <1>8 DEF CommitFails, Discard, g
  <2>2. file' \in Seq(Records) /\ safe' \in 0..Len(file')
    BY <2>1, <1>1, <1>2, <1>4 DEF TypeOK
  <2>3. TypeOK'
    BY <2>1, <2>2, <1>1 DEF TypeOK
  <2>4. Image' = file'
    BY <2>1, <2>2 DEF Image
  <2>5. /\ file' # <<>> /\ WholeLog(file') /\ base = LastBase(file')
        /\ WellFormed(file', base)
    BY <2>1, <1>1, <1>4, <1>6 DEF TableInv, OpenState, WholeLog
  <2>6. Slots(ents, cm.n, base, file')
    <3>1. Slots(ents, cm.n, base, file)
      BY <1>1 DEF OpenState
    <3>2. \A p \in 1..Len(file) : p \in 1..Len(g) /\ g[p] = file[p]
      BY <1>2, <1>4, <1>5
    <3>3. Slots(ents, cm.n, base, g)
      BY <3>1, <3>2 DEF Slots, EntryPos
    <3> QED
      BY <2>1, <3>1, <3>3
  <2>7. OpenState'
    BY <2>1, <2>4, <2>5, <2>6, <1>1 DEF OpenState, TypeOK, MetaState, Indexes
  <2> QED
    BY <2>1, <2>3, <2>5, <2>7 DEF TableInv
<1> QED
  BY <1>7, <1>8 DEF CommitState

\* A new log holds its header and one metadata record.
LEMMA CreateInv ==
  ASSUME TableInv, NEW b \in Bases, Create(b)
  PROVE  TableInv'
<1> DEFINE md == Metadata(b, FreshMeta(b))
<1>1. TypeOK /\ pend = <<>> /\ dst = NoDst
  BY DEF TableInv, ClosedState, Create
<1>2. b \in BaseRecs /\ b.index \in Indexes
  BY BasesAssumption DEF BaseRecs, Indexes, Terms
<1>3. FreshMeta(b) \in MetaState /\ FreshMeta(b).n = 0 /\ FreshMeta(b).last = b.index
  BY <1>2, BoundsAssumption DEF FreshMeta, MetaState, BaseRecs, Indexes
<1>4. md \in Records /\ md.kind = "meta" /\ md.base = b
  BY <1>2, <1>3 DEF Metadata, MetaRecs, Records, MetaState
<1> HIDE DEF md
<1>5. file' = <<Header, md>> /\ pend' = <<>> /\ dst' = <<>> /\ safe' = safe /\ votes' = votes
      /\ up' = TRUE /\ base' = b /\ m' = FreshMeta(b) /\ cm' = FreshMeta(b) /\ ents' = <<>>
  BY <1>1 DEF Create, md, NoDst
<1>6. Header \in Records /\ Header.kind = "header"
  BY DEF Records, Header
<1>7. file' \in Seq(Records) /\ Len(file') = 2 /\ file'[1] = Header /\ file'[2] = md
  BY <1>4, <1>5, <1>6
<1>8. EntryPos(file') = {}
  BY <1>4, <1>6, <1>7 DEF EntryPos
<1>9. WellFormed(file', b) /\ LastBase(file') = b /\ WholeLog(file') /\ file' # <<>>
  <2>1. file'[Len(file')].base = b
    BY <1>4, <1>7
  <2>2. LastBase(file') = b
    BY <2>1 DEF LastBase
  <2>3. file' # <<>>
    BY <1>7
  <2>4. WellFormed(file', b)
    BY <1>4, <1>6, <1>7, <1>8 DEF WellFormed
  <2> QED
    BY <2>2, <2>3, <2>4, <1>4, <1>7 DEF WholeLog
<1>10. safe' \in 0..Len(file')
  BY <1>1, <1>5, <1>7 DEF TypeOK, Create
<1>11. TypeOK'
  BY <1>1, <1>2, <1>3, <1>5, <1>7, <1>10 DEF TypeOK
<1>12. Image' = file'
  BY <1>5, <1>7 DEF Image
<1>13. Slots(<<>>, 0, b, file')
  BY DEF Slots
<1>14. OpenState'
  BY <1>2, <1>3, <1>5, <1>9, <1>12, <1>13 DEF OpenState, Indexes
<1> QED
  BY <1>1, <1>5, <1>9, <1>11, <1>14 DEF TableInv, NoDst

\* A handle opened on a whole log.
LEMMA LoadInv ==
  ASSUME TableInv, NEW f \in Seq(Records), Openable(f), WholeLog(f),
         LoadFrom(f), file' = f, safe' \in 0..Len(f), up' = TRUE,
         pend' = <<>>, dst' = NoDst, votes' = votes
  PROVE  TableInv'
<1>1. /\ Len(f) \in Nat \ {0}
      /\ f[Len(f)] \in MetaRecs
      /\ LastBase(f) \in BaseRecs
      /\ RecoveredMeta(f) \in MetaState
      /\ LastBase(f).index <= RecoveredMeta(f).last
      /\ RecoveredMeta(f).n = RecoveredMeta(f).last - LastBase(f).index
      /\ RecoveredEnts(f) \in Seq([off : Nat, term : Terms])
      /\ Slots(RecoveredEnts(f), RecoveredMeta(f).n, LastBase(f), f)
  BY Recovered
<1>2. base' = LastBase(f) /\ m' = RecoveredMeta(f) /\ cm' = RecoveredMeta(f)
      /\ ents' = RecoveredEnts(f)
  BY DEF LoadFrom, LastBase
<1>3. f # <<>>
  BY <1>1
<1>4. TypeOK'
  BY <1>1, <1>2 DEF TableInv, TypeOK, NoDst
<1>5. Image' = f
  BY DEF Image
<1>6. WellFormed(f, LastBase(f))
  BY DEF WholeLog
<1>7. OpenState'
  BY <1>1, <1>2, <1>3, <1>5, <1>6 DEF OpenState, MetaState, Indexes
<1> QED
  BY <1>4, <1>7 DEF TableInv

\* elog_open on what a crash left.
LEMMA OpenInv ==
  ASSUME TableInv, Open
  PROVE  TableInv'
<1>1. TypeOK /\ pend = <<>> /\ dst = NoDst
  BY DEF TableInv, ClosedState, Open
<1>2. file # <<>> /\ WholeLog(file)
  BY DEF TableInv, Open, Openable
<1> QED
  BY <1>1, <1>2, LoadInv DEF Open, TypeOK

\* elog_open on the file a compaction wrote.
LEMMA AdoptCompactedInv ==
  ASSUME TableInv, AdoptCompacted
  PROVE  TableInv'
<1>1. TypeOK /\ OpenState /\ WholeLog(dst)
  BY DEF TableInv, AdoptCompacted
<1>2. dst \in Seq(Records) /\ Len(dst) \in 0..Len(dst)
  BY <1>1 DEF TypeOK
<1>3. pend = <<>>
  BY DEF TableInv, AdoptCompacted
<1> QED
  BY <1>1, <1>2, <1>3, LoadInv DEF AdoptCompacted

\* A crash leaves a whole log, or nothing.
LEMMA CrashInv ==
  ASSUME TableInv, Crash
  PROVE  TableInv'
<1>1. TypeOK
  BY DEF TableInv
<1>2. PICK k \in CF!CrashPoints(file, safe) : file' = SubSeq(file, 1, k)
  BY DEF Crash
<1>3. /\ k \in 0..Len(file) /\ k >= safe
      /\ k # 0 => file # <<>> /\ file[k].kind = "meta"
  BY <1>1 DEF CF!CrashPoints, CF!CommitEnds, CF!IsMeta, TypeOK
<1>4. file' \in Seq(Records) /\ Len(file') = k /\ \A p \in 1..k : file'[p] = file[p]
  BY <1>1, <1>2, <1>3 DEF TypeOK
<1>5. ASSUME k # 0 PROVE WholeLog(file')
  <2>1. WellFormed(file, LastBase(file))
    BY <1>3, <1>5 DEF TableInv, WholeLog
  <2>2. file[k].base = LastBase(file)
    BY <2>1, <1>3, <1>5 DEF WellFormed
  <2>3. WellFormed(file', LastBase(file))
    BY <2>1, <1>1, <1>2, <1>3, WellFormedPrefix DEF TypeOK
  <2> QED
    BY <2>2, <2>3, <1>3, <1>4, <1>5 DEF WholeLog, LastBase
<1>6. file' # <<>> => k # 0
  BY <1>4
<1>7. NoMeta \in MetaState
  BY BoundsAssumption DEF NoMeta, FreshMeta, MetaState, Indexes, Terms
<1>8. TypeOK'
  <2>1. safe' \in 0..Len(file')
    BY <1>1, <1>3, <1>4 DEF Crash, TypeOK
  <2>2. /\ dst' = <<>> /\ pend' = <<>> /\ up' = FALSE
        /\ m' = NoMeta /\ cm' = NoMeta /\ ents' = <<>> /\ votes' = votes
    BY DEF Crash, NoDst
  <2>3. base' \in BaseRecs
    BY BoundsAssumption DEF Crash, BaseRecs, Indexes, Terms
  <2>4. /\ file' \in Seq(Records) /\ dst' \in Seq(Records) /\ pend' \in Seq(EntryRecs)
        /\ ents' \in Seq([off : Nat, term : Terms])
    BY <1>4, <2>2
  <2>5. up' \in BOOLEAN /\ m' \in MetaState /\ cm' \in MetaState
        /\ votes' \subseteq Terms \X Node
    BY <1>1, <1>7, <2>2 DEF TypeOK
  <2> QED
    BY <2>1, <2>3, <2>4, <2>5 DEF TypeOK
<1> QED
  BY <1>5, <1>6, <1>8 DEF TableInv, ClosedState, Crash

\* elog_sync commits or rolls back the live state.
LEMMA SyncInv ==
  ASSUME TableInv, Sync
  PROVE  TableInv'
<1>1. TypeOK /\ OpenState /\ up
  BY DEF TableInv, Sync, Ready
<1>2. m \in MetaState /\ base.index <= m.last
  BY <1>1 DEF TypeOK, OpenState, MetaState, BaseRecs, Indexes
<1> QED
  BY <1>1, <1>2, CommitInv DEF Sync, OpenState, TypeOK

\* elog_set_hard_state touches no bound of the table.
LEMMA SetHardStateInv ==
  ASSUME TableInv, NEW t \in Terms, NEW v \in Node \cup {NoVote}, SetHardState(t, v)
  PROVE  TableInv'
<1> DEFINE s == HardState(t, v)
<1>1. TypeOK /\ OpenState /\ up
  BY DEF TableInv, SetHardState, Ready
<1>2. s \in MetaState /\ s.last = m.last /\ s.n = m.n
  BY <1>1 DEF TypeOK, MetaState, HardState
<1>3. base.index <= m.last
  BY <1>1 DEF TypeOK, OpenState, MetaState, BaseRecs, Indexes
<1>4. CommitState(s) /\ UNCHANGED <<up, base, ents, dst>>
  BY DEF SetHardState, CommitState
<1>5. votes' \subseteq Terms \X Node
  BY <1>1 DEF SetHardState, TypeOK
<1> QED
  BY <1>1, <1>2, <1>3, <1>4, <1>5, CommitInv DEF OpenState

\* elog_set_commit_index only stages a value.
LEMMA SetCommitIndexInv ==
  ASSUME TableInv, NEW i \in Indexes, SetCommitIndex(i)
  PROVE  TableInv'
<1>1. TypeOK /\ OpenState /\ up
  BY DEF TableInv, SetCommitIndex, Ready
<1>2. /\ m' \in MetaState /\ m'.last = m.last /\ m'.n = m.n
      /\ UNCHANGED <<file, safe, up, pend, base, cm, ents, dst, votes>>
  BY <1>1 DEF SetCommitIndex, TypeOK, MetaState
<1>3. TypeOK' /\ OpenState'
  BY <1>1, <1>2 DEF TypeOK, OpenState, Image
<1> QED
  BY <1>1, <1>2, <1>3 DEF TableInv

\* What TypeOK says of each slot of the offset table.
LEMMA SlotTypes ==
  ASSUME TypeOK
  PROVE  /\ Len(ents) \in Nat
         /\ \A j \in 1..Len(ents) : ents[j].off \in Nat /\ ents[j].term \in Terms
<1>1. ents \in Seq([off : Nat, term : Terms])
  BY DEF TypeOK
<1>2. ASSUME NEW S, NEW q \in Seq(S), NEW j \in 1..Len(q) PROVE q[j] \in S
  OBVIOUS
<1>3. ASSUME NEW j \in 1..Len(ents) PROVE ents[j] \in [off : Nat, term : Terms]
  BY <1>1, <1>2
<1>4. Len(ents) \in Nat
  BY <1>1
<1> QED
  BY <1>3, <1>4

\* The slots below a truncation stay.
LEMMA TruncateFromInv ==
  ASSUME TableInv, NEW i \in Indexes, TruncateFrom(i)
  PROVE  TableInv'
<1>1. TypeOK /\ OpenState /\ up
  BY DEF TableInv, TruncateFrom, Ready
<1> DEFINE k  == i - 1 - base.index
           lt == IF i - 1 = base.index THEN base.term ELSE ents[i - base.index - 1].term
           s  == [m EXCEPT !.last = i - 1, !.lastTerm = lt, !.n = k]
<1>2. /\ i \in Nat /\ m.last \in Nat /\ base.index \in Nat /\ MaxIndex \in Nat
      /\ base.index < i /\ i <= m.last /\ m.last <= MaxIndex
  BY <1>1, BoundsAssumption DEF TruncateFrom, TypeOK, MetaState, BaseRecs, Indexes
<1>3. /\ Slots(ents, m.n, base, Image) /\ m.n = m.last - base.index
      /\ m.n <= Len(ents) /\ Len(ents) \in Nat
  BY <1>1 DEF OpenState, Slots, TypeOK
<1>4. k \in 0..m.n /\ i - 1 \in Indexes /\ k \in Indexes
  BY <1>2, <1>3 DEF Indexes
<1>5. lt \in Terms
  <2>1. CASE i - 1 = base.index
    BY <2>1, <1>1 DEF TypeOK, BaseRecs
  <2>2. CASE i - 1 # base.index
    <3>1. i - base.index - 1 \in 1..Len(ents)
      BY <2>2, <1>2, <1>3
    <3>2. \A j \in 1..Len(ents) : ents[j].term \in Terms
      BY <1>1, SlotTypes
    <3> QED
      BY <2>2, <3>1, <3>2
  <2> QED
    BY <2>1, <2>2
<1>6. CommitState(s) /\ UNCHANGED <<up, base, ents, dst, votes>>
  BY DEF TruncateFrom
<1> HIDE DEF lt
<1>7. s \in MetaState /\ s.last = i - 1 /\ s.n = k
  <2> HIDE DEF k
  <2> QED BY <1>1, <1>4, <1>5 DEF TypeOK, MetaState
<1>8. s.n = s.last - base.index /\ base.index <= s.last
  BY <1>2, <1>7
<1>9. Slots(ents, s.n, base, Image)
  <2> HIDE DEF k, s
  <2>1. s.n <= Len(ents) /\ \A j \in 1..s.n : j \in 1..m.n
    BY <1>2, <1>3, <1>4, <1>7
  <2> QED
    BY <2>1, <1>3 DEF Slots
<1> HIDE DEF s
<1> QED
  BY <1>1, <1>6, <1>7, <1>8, <1>9, CommitInv DEF TypeOK

\* The copy a compaction writes: a header, entries numbered from its base, and one
\* metadata record.
LEMMA CopyWhole ==
  ASSUME NEW b \in BaseRecs, NEW s \in MetaState, NEW E \in Seq(Records),
         \A j \in 1..Len(E) : E[j].kind = "entry" /\ E[j].index = b.index + j
  PROVE  LET g == <<Header>> \o E \o <<Metadata(b, s)>> IN
         g \in Seq(Records) /\ g # <<>> /\ WholeLog(g)
<1> DEFINE md == Metadata(b, s)
           g  == <<Header>> \o E \o <<md>>
           K  == Len(E)
<1>1. md \in Records /\ md.kind = "meta" /\ md.base = b
  BY DEF Metadata, MetaRecs, Records, MetaState
<1>2. Header \in Records /\ Header.kind = "header"
  BY DEF Records, Header
<1> HIDE DEF md
<1>3. K \in Nat /\ b.index \in Nat
  BY BoundsAssumption DEF BaseRecs, Indexes
<1>4. /\ g \in Seq(Records) /\ Len(g) = K + 2
      /\ g[1] = Header /\ g[K + 2] = md
      /\ \A p \in 2..(K + 1) : g[p] = E[p - 1]
  BY <1>1, <1>2, <1>3
<1> HIDE DEF g, K
<1>5. EntryPos(g) = 2..(K + 1)
  <2>1. ASSUME NEW p \in 2..(K + 1) PROVE g[p].kind = "entry"
    BY <1>3, <1>4 DEF K
  <2> QED
    BY <2>1, <1>1, <1>2, <1>3, <1>4 DEF EntryPos
<1>6. \A p \in 2..(K + 1) : g[p].index = b.index + (p - 1)
  <2>1. ASSUME NEW p \in 2..(K + 1) PROVE g[p].index = b.index + (p - 1)
    <3>1. p - 1 \in 1..K
      BY <1>3
    <3> QED
      BY <3>1, <1>4 DEF K
  <2> QED
    BY <2>1
<1>7. \A p \in 1..Len(g) : g[p].kind = "meta" => g[p].base = b
  <2>1. ASSUME NEW p \in 1..Len(g), g[p].kind = "meta" PROVE p = K + 2
    <3>1. p # 1
      BY <2>1, <1>2, <1>4
    <3>2. p \notin 2..(K + 1)
      BY <2>1, <1>5 DEF EntryPos
    <3> QED
      BY <3>1, <3>2, <1>3, <1>4
  <2> QED
    BY <2>1, <1>1, <1>4
<1>8. ASSUME NEW p \in EntryPos(g)
      PROVE  /\ g[p].index > b.index
             /\ \A i \in (b.index + 1)..g[p].index :
                  \E q \in EntryPos(g) : q <= p /\ g[q].index = i
  <2>1. p \in 2..(K + 1) /\ g[p].index = b.index + (p - 1)
    BY <1>5, <1>6
  <2>2. ASSUME NEW i \in (b.index + 1)..g[p].index
        PROVE  \E q \in EntryPos(g) : q <= p /\ g[q].index = i
    <3> DEFINE q == i - b.index + 1
    <3>1. q \in 2..(K + 1) /\ q <= p /\ i = b.index + (q - 1)
      BY <1>3, <2>1, SMTT(40)
    <3> HIDE DEF q
    <3> QED
      BY <3>1, <1>5, <1>6
  <2> QED
    BY <2>1, <2>2, <1>3
<1>9. LastBase(g) = b /\ g[Len(g)].kind = "meta"
  BY <1>1, <1>3, <1>4 DEF LastBase
<1>10. WholeLog(g) /\ g # <<>>
  BY <1>3, <1>4, <1>7, <1>8, <1>9 DEF WholeLog, WellFormed
<1> QED
  BY <1>4, <1>10 DEF g, md

\* elog_compact leaves this log as it is and writes a whole one.
LEMMA CompactInv ==
  ASSUME TableInv, NEW nb \in Indexes, Compact(nb)
  PROVE  TableInv'
<1> DEFINE K == m.last - nb
           E == [j \in 1..K |-> Image[ents[nb - base.index + j].off]]
           b == [index |-> nb, term |-> TermAt(nb)]
           s == [m EXCEPT !.commit = IF @ < nb THEN nb ELSE @]
<1>1. TypeOK /\ OpenState /\ up
  BY DEF TableInv, Compact, Ready
<1>2. /\ nb \in Nat /\ m.last \in Nat /\ base.index \in Nat /\ m.n \in Nat
      /\ base.index <= nb /\ nb <= m.last
      /\ m.n = m.last - base.index /\ m.n <= Len(ents) /\ Len(ents) \in Nat
  BY <1>1, BoundsAssumption DEF Compact, TypeOK, OpenState, Slots, MetaState, BaseRecs, Indexes
<1>3. Image \in Seq(Records) /\ Slots(ents, m.n, base, Image)
  BY <1>1, ImageFacts DEF OpenState
<1>4. TermAt(nb) \in Terms
  <2>1. CASE nb = base.index
    BY <2>1, <1>1 DEF TermAt, TypeOK, BaseRecs
  <2>2. CASE nb # base.index
    <3>1. nb - base.index \in 1..Len(ents)
      BY <2>2, <1>2
    <3> QED
      BY <2>2, <3>1, <1>1, SlotTypes DEF TermAt
  <2> QED
    BY <2>1, <2>2
<1>5. b \in BaseRecs /\ b.index = nb
  BY <1>4 DEF BaseRecs
<1>6. s \in MetaState
  BY <1>1 DEF TypeOK, MetaState
<1>7. ASSUME NEW j \in 1..K
      PROVE  LET r == Image[ents[nb - base.index + j].off] IN
             r \in Records /\ r.kind = "entry" /\ r.index = nb + j
  <2>1. nb - base.index + j \in 1..m.n
    BY <1>2, SMTT(40)
  <2>2. /\ ents[nb - base.index + j].off \in EntryPos(Image)
        /\ Image[ents[nb - base.index + j].off].index = base.index + (nb - base.index + j)
    BY <2>1, <1>3 DEF Slots
  <2> QED
    BY <2>2, <1>2, <1>3, SMTT(40) DEF EntryPos
<1>8. E \in Seq(Records) /\ Len(E) = K
  <2>1. K \in Nat
    BY <1>2
  <2> HIDE DEF K
  <2>2. E \in [1..K -> Records]
    BY <1>7
  <2> HIDE DEF E
  <2> QED
    BY <2>1, <2>2
<1>9. \A j \in 1..Len(E) : E[j].kind = "entry" /\ E[j].index = b.index + j
  BY <1>5, <1>7, <1>8
<1>10. dst' = <<Header>> \o E \o <<Metadata(b, s)>>
  BY DEF Compact, Compacted
<1> HIDE DEF E, b, s
<1>11. dst' \in Seq(Records) /\ dst' # <<>> /\ WholeLog(dst')
  BY <1>5, <1>6, <1>8, <1>9, <1>10, CopyWhole
<1>12. pend = <<>> /\ UNCHANGED <<file, safe, up, pend, base, m, cm, ents, votes>>
  BY DEF Compact
<1>13. TypeOK' /\ OpenState'
  BY <1>1, <1>11, <1>12 DEF TypeOK, OpenState, Image
<1> QED
  BY <1>1, <1>11, <1>12, <1>13 DEF TableInv

\* The new entry takes the slot after the last live one; the slots a rollback
\* returns to are below it.
LEMMA AppendEntryInv ==
  ASSUME TableInv, NEW t \in Terms, NEW v \in Value, AppendEntry(t, v)
  PROVE  TableInv'
<1> DEFINE i == m.last + 1
           e == Entry(i, t, v)
           slot == [off |-> Len(Image) + 1, term |-> t]
<1>1. TypeOK /\ OpenState /\ up /\ dst = NoDst
  BY DEF TableInv, AppendEntry, Ready
<1>2. /\ m.last \in Nat /\ base.index \in Nat /\ m.n \in Nat /\ cm.n \in Nat
      /\ cm.last \in Nat /\ m.last < MaxIndex /\ MaxIndex \in Nat
      /\ base.index <= m.last /\ m.n = m.last - base.index /\ cm.n <= m.n
      /\ base.index <= cm.last /\ cm.last <= m.last
      /\ cm.n = cm.last - base.index /\ m.n <= Len(ents) /\ Len(ents) \in Nat
  <2>1. /\ m.last \in Nat /\ base.index \in Nat /\ m.n \in Nat /\ cm.n \in Nat
        /\ cm.last \in Nat /\ MaxIndex \in Nat
    BY <1>1, BoundsAssumption DEF TypeOK, MetaState, BaseRecs, Indexes
  <2> QED
    BY <2>1, <1>1, SlotTypes, SMTT(40) DEF OpenState, Slots, AppendEntry
<1>3. /\ Image \in Seq(Records) /\ Slots(ents, m.n, base, Image)
      /\ WellFormed(Image, base) /\ base \in BaseRecs
  BY <1>1, ImageFacts DEF OpenState, TypeOK
<1>4. i \in Indexes /\ i > base.index
  BY <1>2, SMTT(40) DEF Indexes
<1>5. e \in EntryRecs /\ e.index = i
  BY <1>4 DEF Entry, EntryRecs
<1>6. UNCHANGED <<file, safe, up, base, cm, dst, votes>>
  BY DEF AppendEntry
<1>7. CASE pend' = Append(pend, e)
           /\ ents' = (IF m.n < Len(ents) THEN [ents EXCEPT ![m.n + 1] = slot]
                                          ELSE Append(ents, slot))
           /\ m' = [m EXCEPT !.last = @ + 1, !.lastTerm = t, !.n = @ + 1]
  <2>1. i = base.index + 1 \/ \E p \in EntryPos(Image) : Image[p].index = i - 1
    <3>1. CASE m.n = 0
      BY <3>1, <1>2
    <3>2. CASE m.n # 0
      <4>1. m.n \in 1..m.n /\ base.index + m.n = i - 1
        BY <3>2, <1>2, SMTT(40)
      <4> HIDE DEF i
      <4> QED
        BY <4>1, <1>3 DEF Slots
    <3> QED
      BY <3>1, <3>2
  <2>2. Image' = Append(Image, e)
    <3>1. file \in Seq(Records) /\ pend \in Seq(Records) /\ e \in Records
      BY <1>1, <1>5 DEF TypeOK, Records
    <3>2. file \o Append(pend, e) = Append(file \o pend, e)
      <4> HIDE DEF e
      <4> QED BY <3>1
    <3> QED
      BY <3>2, <1>6, <1>7 DEF Image
  <2> HIDE DEF e, i
  <2>3. /\ Image' \in Seq(Records)
        /\ EntryPos(Image') = EntryPos(Image) \cup {Len(Image) + 1}
        /\ WellFormed(Image', base)
    BY <2>1, <2>2, <1>3, <1>4, <1>5, WellFormedEntry
  <2>4. /\ Image'[Len(Image) + 1] = e
        /\ \A p \in 1..Len(Image) : Image'[p] = Image[p]
        /\ Len(Image) \in Nat
    BY <2>2, <1>3
  <2>5. slot \in [off : Nat, term : Terms] /\ slot.off = Len(Image) + 1
    BY <2>4
  <2> HIDE DEF slot
  <2>6. /\ ents' \in Seq([off : Nat, term : Terms])
        /\ Len(ents') >= Len(ents) /\ Len(ents') >= m.n + 1
        /\ ents'[m.n + 1] = slot
        /\ \A j \in 1..m.n : ents'[j] = ents[j]
    <3> DEFINE S == [off : Nat, term : Terms]
    <3>1. ents \in Seq(S)
      BY <1>1 DEF TypeOK
    <3> HIDE DEF S
    <3>2. slot \in S
      BY <2>5 DEF S
    <3>3. CASE m.n < Len(ents)
      <4>1. ents' = [ents EXCEPT ![m.n + 1] = slot] /\ m.n + 1 \in 1..Len(ents)
        BY <3>3, <1>2, <1>7
      <4>2. ents' \in Seq(S) /\ Len(ents') = Len(ents)
        BY <4>1, <3>1, <3>2
      <4>3. ents'[m.n + 1] = slot /\ \A j \in 1..m.n : ents'[j] = ents[j]
        BY <4>1, <3>1, <1>2
      <4> QED
        BY <4>2, <4>3, <3>3, <1>2 DEF S
    <3>4. CASE ~ (m.n < Len(ents))
      <4>1. ents' = Append(ents, slot) /\ m.n = Len(ents)
        BY <3>4, <1>2, <1>7
      <4>2. ents' \in Seq(S) /\ Len(ents') = Len(ents) + 1
        BY <4>1, <3>1, <3>2
      <4>3. ents'[m.n + 1] = slot /\ \A j \in 1..m.n : ents'[j] = ents[j]
        BY <4>1, <3>1, <3>2
      <4> QED
        BY <4>1, <4>2, <4>3, <1>2 DEF S
    <3> QED
      BY <3>3, <3>4
  <2>7. /\ m' \in MetaState /\ m'.last = i /\ m'.n = m.n + 1
    <3>1. m.n + 1 \in Indexes
      BY <1>2, SMTT(40) DEF Indexes
    <3> QED
      BY <3>1, <1>1, <1>4, <1>7 DEF i, TypeOK, MetaState
  <2>8. Slots(ents', m.n + 1, base, Image')
    <3>1. ASSUME NEW j \in 1..(m.n + 1)
          PROVE  ents'[j].off \in EntryPos(Image') /\ Image'[ents'[j].off].index = base.index + j
      <4>1. CASE j \in 1..m.n
        <5>1. ents[j].off \in EntryPos(Image) /\ Image[ents[j].off].index = base.index + j
          BY <4>1, <1>3 DEF Slots
        <5>2. ents[j].off \in 1..Len(Image)
          BY <5>1 DEF EntryPos
        <5> QED
          BY <4>1, <5>1, <5>2, <2>3, <2>4, <2>6
      <4>2. CASE j = m.n + 1
        <5>1. ents'[j].off = Len(Image) + 1
          BY <4>2, <2>5, <2>6
        <5>2. i = base.index + j
          BY <4>2, <1>2, SMTT(40) DEF i
        <5> QED
          BY <5>1, <5>2, <1>5, <2>3, <2>4
      <4> QED
        BY <4>1, <4>2, <1>2, SMTT(40)
    <3> QED
      BY <3>1, <2>6 DEF Slots
  <2>9. Slots(ents', cm.n, base, file)
    <3>1. ASSUME NEW j \in 1..cm.n PROVE ents'[j] = ents[j]
      <4>1. j \in 1..m.n
        BY <1>2
      <4> QED
        BY <4>1, <2>6
    <3>2. Slots(ents, cm.n, base, file) /\ cm.n <= Len(ents')
      BY <1>1, <1>2, <2>6 DEF OpenState
    <3> QED
      BY <3>1, <3>2 DEF Slots
  <2>10. OpenState'
    <3>1. cm.last <= m'.last /\ m'.n = m'.last - base.index
      BY <1>2, <2>7, SMTT(40) DEF i
    <3> QED
      BY <3>1, <2>3, <2>7, <2>8, <2>9, <1>1, <1>6 DEF OpenState
  <2>11. pend' \in Seq(EntryRecs)
    BY <1>1, <1>5, <1>7 DEF TypeOK
  <2>12. TypeOK'
    BY <2>6, <2>7, <2>11, <1>1, <1>6 DEF TypeOK
  <2> QED
    BY <2>10, <2>12, <1>1, <1>6 DEF TableInv
<1>8. CASE Discard /\ UNCHANGED ents
  <2>1. pend' = <<>> /\ m' = cm /\ Image' = file
    BY <1>1, <1>6, <1>8 DEF Discard, Image, TypeOK
  <2>2. TypeOK'
    BY <2>1, <1>1, <1>6, <1>8 DEF TypeOK
  <2>3. WellFormed(file, base)
    BY <1>1 DEF TableInv, OpenState, WholeLog
  <2>4. OpenState'
    BY <2>1, <2>3, <1>1, <1>2, <1>6, <1>8 DEF OpenState
  <2> QED
    BY <2>2, <2>4, <1>1, <1>6 DEF TableInv
<1> QED
  BY <1>7, <1>8 DEF AppendEntry

-----------------------------------------------------------------------------
\* No file and no handle: nothing to point at.
LEMMA TableInvInit == Init => TableInv
<1> SUFFICES ASSUME Init PROVE TableInv
  OBVIOUS
<1>1. NoMeta \in MetaState
  BY BoundsAssumption DEF NoMeta, FreshMeta, MetaState, Indexes, Terms
<1>2. base \in BaseRecs
  BY BoundsAssumption DEF Init, BaseRecs, Indexes, Terms
<1>3. file = <<>> /\ safe = 0 /\ up = FALSE /\ pend = <<>> /\ dst = <<>> /\ ents = <<>>
      /\ m = NoMeta /\ cm = NoMeta /\ votes = {}
  BY DEF Init, NoDst
<1>4. /\ file \in Seq(Records) /\ dst \in Seq(Records) /\ pend \in Seq(EntryRecs)
      /\ ents \in Seq([off : Nat, term : Terms]) /\ safe \in 0..Len(file)
  BY <1>3
<1>5. TypeOK
  BY <1>1, <1>2, <1>3, <1>4 DEF TypeOK
<1> QED
  BY <1>3, <1>5 DEF TableInv, ClosedState, NoDst

\* Every step keeps the table invariant, one lemma per action.
LEMMA TableInvStep == TableInv /\ [Next]_vars => TableInv'
<1> SUFFICES ASSUME TableInv, [Next]_vars PROVE TableInv'
  OBVIOUS
<1>1. CASE \E b \in Bases : Create(b)
  BY <1>1, CreateInv
<1>2. CASE Open
  BY <1>2, OpenInv
<1>3. CASE Crash
  BY <1>3, CrashInv
<1>4. CASE \E t \in Terms, v \in Value : AppendEntry(t, v)
  BY <1>4, AppendEntryInv
<1>5. CASE Sync
  BY <1>5, SyncInv
<1>6. CASE \E t \in Terms, v \in Node \cup {NoVote} : SetHardState(t, v)
  BY <1>6, SetHardStateInv
<1>7. CASE \E i \in Indexes : SetCommitIndex(i) \/ TruncateFrom(i) \/ Compact(i)
  BY <1>7, SetCommitIndexInv, TruncateFromInv, CompactInv
<1>8. CASE AdoptCompacted
  BY <1>8, AdoptCompactedInv
<1>9. CASE UNCHANGED vars
  BY <1>9 DEF vars, TableInv, TypeOK, OpenState, ClosedState, Image
<1> QED
  BY <1>1, <1>2, <1>3, <1>4, <1>5, <1>6, <1>7, <1>8, <1>9 DEF Next

\* Every commit, every compacted copy and every offset table of an open handle stay
\* free of gaps (append, truncate, rollback, crash, replay and compaction in
\* entrylog.c).
THEOREM TableInvariant == Spec => []TableInv
  BY TableInvInit, TableInvStep, PTL DEF Spec

\* The variables keep their types.
THEOREM TypeCorrect == Spec => []TypeOK
<1>1. TableInv => TypeOK
  BY DEF TableInv
<1> QED
  BY <1>1, TableInvariant, PTL

-----------------------------------------------------------------------------
(* Answered votes.                                                         *)

\* The end of every commit in the file or about to be appended to it.
LEMMA CommitEndsOfAppend ==
  ASSUME TypeOK, NEW b, NEW s, NEW k \in CF!CommitEnds(Append(Image, Metadata(b, s)))
  PROVE  LET g == Append(Image, Metadata(b, s)) IN
         /\ Len(g) \in Nat \ {0} /\ k \in 0..Len(g)
         /\ g[Len(g)] = Metadata(b, s)
         /\ k = Len(g) \/ (k \in CF!CommitEnds(file) /\ g[k] = file[k]) \/ k = 0
<1> DEFINE md == Metadata(b, s)
           g  == Append(Image, md)
<1>1. /\ Image \in Seq(Records) /\ Len(Image) = Len(file) + Len(pend)
      /\ \A p \in 1..Len(file) : Image[p] = file[p]
      /\ Len(file) \in Nat /\ Len(pend) \in Nat
  BY ImageFacts DEF TypeOK
<1>2. \A p \in (Len(file) + 1)..Len(Image) : Image[p].kind = "entry"
  <2>1. file \in Seq(Records) /\ pend \in Seq(EntryRecs) /\ pend \in Seq(Records)
    BY DEF TypeOK, Records
  <2>2. \A p \in (Len(file) + 1)..Len(Image) :
          p - Len(file) \in 1..Len(pend) /\ Image[p] = pend[p - Len(file)]
    BY <2>1, <1>1 DEF Image
  <2>3. \A j \in 1..Len(pend) : pend[j] \in EntryRecs
    BY <2>1
  <2>4. \A r \in EntryRecs : r.kind = "entry"
    BY DEF EntryRecs
  <2> QED
    BY <2>2, <2>3, <2>4
<1> HIDE DEF md
<1>3. /\ Len(g) = Len(Image) + 1 /\ g[Len(g)] = md
      /\ \A p \in 1..Len(Image) : g[p] = Image[p]
  BY <1>1
<1> HIDE DEF g
<1>4. k = 0 \/ (k \in 1..Len(g) /\ g[k].kind = "meta")
  BY DEF CF!CommitEnds, CF!IsMeta, g, md
<1>5. ASSUME k # 0, k # Len(g) PROVE k \in CF!CommitEnds(file) /\ g[k] = file[k]
  <2>1. k \in 1..Len(Image) /\ Image[k].kind = "meta" /\ g[k] = Image[k]
    BY <1>1, <1>3, <1>4, <1>5
  <2>2. k \in 1..Len(file)
    BY <2>1, <1>1, <1>2
  <2> QED
    BY <2>1, <2>2, <1>1 DEF CF!CommitEnds, CF!IsMeta
<1> QED
  BY <1>1, <1>3, <1>4, <1>5 DEF g, md

\* A durable commit of a state that keeps the votes is the only one left.
LEMMA CommitOkVotes ==
  ASSUME TypeOK, NEW s, CommitOk(s), dst' = NoDst,
         \A v \in votes' : Keeps(s, v),
         \A v, w \in votes' : w[1] = v[1] => w = v
  PROVE  VotesKept'
<1> DEFINE g == Append(Image, Metadata(base, s))
<1>1. file' = g /\ safe' = Len(g) /\ m' = s /\ cm' = s
  BY DEF CommitOk
<1>2. Len(g) \in Nat \ {0} /\ g[Len(g)] = Metadata(base, s)
  BY ImageFacts DEF Metadata
<1>3. \A v \in votes' : Keeps(Metadata(base, s), v)
  BY DEF Keeps, Metadata
<1> HIDE DEF g
<1>4. \A k \in CF!CrashPoints(g, Len(g)) : k = Len(g)
  BY <1>2 DEF CF!CrashPoints, CF!CommitEnds
<1> QED
  BY <1>1, <1>2, <1>3, <1>4 DEF VotesKept

\* Nor does a commit that failed, written or not, lose one.
LEMMA CommitFailsVotes ==
  ASSUME TypeOK, VotesKept, up, NEW s, CommitFails(s),
         UNCHANGED <<up, dst, votes>>,
         \A v \in votes : Keeps(s, v)
  PROVE  VotesKept'
<1> DEFINE g == Append(Image, Metadata(base, s))
<1>1. file' \in {file, g} /\ safe' = safe /\ m' = cm /\ cm' = cm
  BY DEF CommitFails, Discard
<1>2. \A v \in votes : Keeps(Metadata(base, s), v)
  BY DEF Keeps, Metadata
<1>3. ASSUME NEW v \in votes, NEW k \in CF!CrashPoints(g, safe) PROVE Keeps(g[k], v)
  <2>1. k \in CF!CommitEnds(g) /\ k >= safe
    BY <1>3 DEF CF!CrashPoints
  <2>2. /\ g[Len(g)] = Metadata(base, s)
        /\ k = Len(g) \/ (k \in CF!CommitEnds(file) /\ g[k] = file[k]) \/ k = 0
    BY <2>1, CommitEndsOfAppend
  <2>3. k # 0
    BY <2>1 DEF VotesKept, TypeOK
  <2>4. CASE k = Len(g)
    BY <2>2, <2>4, <1>2
  <2>5. CASE k \in CF!CommitEnds(file) /\ g[k] = file[k]
    BY <2>1, <2>5 DEF VotesKept, CF!CrashPoints
  <2> QED
    BY <2>2, <2>3, <2>4, <2>5
<1> HIDE DEF g
<1> QED
  BY <1>1, <1>3 DEF VotesKept

\* The copy ends with the live hard state.
LEMMA CompactedEnd ==
  ASSUME TableInv, NEW nb \in Indexes, Compact(nb)
  PROVE  dst'[Len(dst')].term = m.term /\ dst'[Len(dst')].vote = m.vote
<1> DEFINE K == m.last - nb
           E == [j \in 1..K |-> Image[ents[nb - base.index + j].off]]
           b == [index |-> nb, term |-> TermAt(nb)]
           s == [m EXCEPT !.commit = IF @ < nb THEN nb ELSE @]
           md == Metadata(b, s)
<1>1. TypeOK
  BY DEF TableInv
<1>2. K \in Nat
  BY <1>1, BoundsAssumption, SMTT(40) DEF Compact, TypeOK, MetaState, BaseRecs, Indexes
<1>3. dst' = <<Header>> \o E \o <<md>>
  BY DEF Compact, Compacted
<1>4. md.term = m.term /\ md.vote = m.vote
  BY <1>1 DEF Metadata, TypeOK, MetaState
<1> HIDE DEF K, md
<1>5. Len(dst') = K + 2 /\ dst'[K + 2] = md
  <2> DEFINE S == {Header, md} \cup {E[j] : j \in 1..K}
  <2>1. E \in Seq(S) /\ Len(E) = K /\ <<Header>> \in Seq(S) /\ <<md>> \in Seq(S)
    BY <1>2
  <2> HIDE DEF E, S
  <2> QED
    BY <1>2, <1>3, <2>1
<1> QED
  BY <1>4, <1>5

\* No step loses an answered vote or answers a second one in its term.
LEMMA VotesStep == TableInv /\ VotesKept /\ [Next]_vars => VotesKept'
<1> SUFFICES ASSUME TableInv, VotesKept, [Next]_vars PROVE VotesKept'
  OBVIOUS
<1>1. TypeOK
  BY DEF TableInv
<1>2. ASSUME NEW b \in Bases, Create(b) PROVE VotesKept'
  <2>1. safe = 0
    BY <1>1, <1>2 DEF Create, TypeOK
  <2>2. votes = {}
    BY <2>1 DEF VotesKept
  <2> QED
    BY <2>2, <1>2 DEF Create, VotesKept
<1>3. ASSUME Open PROVE VotesKept'
  <2>1. dst = NoDst /\ WholeLog(file) /\ file # <<>>
    BY <1>3 DEF TableInv, ClosedState, Open, Openable
  <2>2. Len(file) \in CF!CrashPoints(file, safe)
    BY <2>1, <1>1 DEF CF!CrashPoints, CF!CommitEnds, CF!IsMeta, WholeLog, TypeOK
  <2>3. \A v \in votes : Keeps(RecoveredMeta(file), v)
    BY <2>2 DEF VotesKept, RecoveredMeta, Keeps
  <2>4. m' = RecoveredMeta(file) /\ cm' = RecoveredMeta(file)
        /\ UNCHANGED <<file, safe, dst, votes>>
    BY <1>3 DEF Open, LoadFrom
  <2> QED
    BY <2>1, <2>3, <2>4 DEF VotesKept
<1>4. ASSUME Crash PROVE VotesKept'
  <2>1. PICK k \in CF!CrashPoints(file, safe) : file' = SubSeq(file, 1, k)
    BY <1>4 DEF Crash
  <2>2. k \in 0..Len(file)
    BY <2>1, <1>1 DEF CF!CrashPoints, CF!CommitEnds, TypeOK
  <2>3. Len(file') = k /\ \A p \in 1..k : file'[p] = file[p]
    BY <2>1, <2>2, <1>1 DEF TypeOK
  <2>4. ASSUME NEW p \in CF!CrashPoints(file', safe), p # 0
        PROVE  p \in CF!CrashPoints(file, safe) /\ file'[p] = file[p]
    BY <2>2, <2>3, <2>4, <1>1 DEF CF!CrashPoints, CF!CommitEnds, CF!IsMeta, TypeOK
  <2>5. ASSUME NEW v \in votes, NEW p \in CF!CrashPoints(file', safe)
        PROVE  Keeps(file'[p], v)
    <3>1. p # 0
      BY <2>5, <1>1 DEF VotesKept, CF!CrashPoints, TypeOK
    <3> QED
      BY <3>1, <2>4 DEF VotesKept
  <2>6. up' = FALSE /\ dst' = NoDst /\ UNCHANGED <<safe, votes>>
    BY <1>4 DEF Crash
  <2> QED
    BY <2>5, <2>6 DEF VotesKept
<1>5. ASSUME NEW t \in Terms, NEW v \in Value, AppendEntry(t, v) PROVE VotesKept'
  <2>1. /\ (m'.term = m.term /\ m'.vote = m.vote) \/ m' = cm
        /\ up /\ UNCHANGED <<file, safe, up, cm, dst, votes>>
    BY <1>1, <1>5 DEF AppendEntry, Ready, Discard, TypeOK, MetaState
  <2> QED
    BY <2>1 DEF VotesKept, Keeps
<1>6. ASSUME Sync PROVE VotesKept'
  <2>1. up /\ dst = NoDst /\ UNCHANGED <<up, dst, votes>> /\ (CommitOk(m) \/ CommitFails(m))
    BY <1>6 DEF Sync, Ready, CommitState
  <2>2. /\ \A v \in votes : Keeps(m, v)
        /\ \A v, w \in votes : w[1] = v[1] => w = v
    BY <2>1 DEF VotesKept
  <2> QED
    BY <2>1, <2>2, <1>1, CommitOkVotes, CommitFailsVotes
<1>7. ASSUME NEW t \in Terms, NEW v \in Node \cup {NoVote}, SetHardState(t, v)
      PROVE  VotesKept'
  <2> DEFINE s == HardState(t, v)
  <2>1. up /\ dst = NoDst /\ UNCHANGED <<up, dst>> /\ VoteAllowed(t, v)
    BY <1>7 DEF SetHardState, Ready
  <2>2. t \in Nat /\ m.term \in Nat /\ \A w \in votes : w[1] \in Nat /\ w[2] \in Node
    BY <1>1, BoundsAssumption DEF TypeOK, MetaState, Terms
  <2>3. \A w \in votes : Keeps(m, w)
    BY <2>1 DEF VotesKept
  <2>4. s.term = t /\ s.vote = (IF t = m.term /\ v = NoVote THEN m.vote ELSE v)
    BY <1>1 DEF HardState, TypeOK, MetaState
  <2>5. \A w \in votes : Keeps(s, w)
    BY <2>1, <2>2, <2>3, <2>4, NoVoteAssumption DEF Keeps, VoteAllowed
  <2>6. \A w \in votes : v # NoVote /\ w[1] = t => w[2] = v
    BY <2>1, <2>2, <2>3, NoVoteAssumption DEF Keeps, VoteAllowed
  <2> HIDE DEF s
  <2>7. CASE CommitFails(s) /\ UNCHANGED votes
    BY <2>1, <2>5, <2>7, <1>1, CommitFailsVotes
  <2>8. CASE CommitOk(s) /\ votes' = IF v = NoVote THEN votes ELSE votes \cup {<<t, v>>}
    <3>1. \A w \in votes' : Keeps(s, w)
      BY <2>4, <2>5, <2>8 DEF Keeps
    <3>2. \A w, x \in votes : w[1] = x[1] => w = x
      BY DEF VotesKept
    <3>3. \A w \in votes : w = <<w[1], w[2]>>
      BY <1>1 DEF TypeOK
    <3>4. \A w, x \in votes' : w[1] = x[1] => w = x
      BY <2>6, <2>8, <3>2, <3>3
    <3> QED
      BY <2>1, <2>8, <3>1, <3>4, <1>1, CommitOkVotes
  <2> QED
    BY <2>7, <2>8, <1>7 DEF SetHardState, s
<1>8. ASSUME NEW i \in Indexes, SetCommitIndex(i) PROVE VotesKept'
  <2>1. /\ m'.term = m.term /\ m'.vote = m.vote
        /\ UNCHANGED <<file, safe, up, cm, dst, votes>>
    BY <1>1, <1>8 DEF SetCommitIndex, TypeOK, MetaState
  <2> QED
    BY <2>1 DEF VotesKept, Keeps
<1>9. ASSUME NEW i \in Indexes, TruncateFrom(i) PROVE VotesKept'
  <2> DEFINE lt == IF i - 1 = base.index THEN base.term
                                         ELSE ents[i - base.index - 1].term
             s  == [m EXCEPT !.last = i - 1, !.lastTerm = lt, !.n = i - 1 - base.index]
  <2>1. /\ CommitOk(s) \/ CommitFails(s)
        /\ s.term = m.term /\ s.vote = m.vote
    <3>1. CommitOk(s) \/ CommitFails(s)
      BY <1>9 DEF TruncateFrom, CommitState
    <3> HIDE DEF lt
    <3>2. s.term = m.term /\ s.vote = m.vote
      BY <1>1 DEF TypeOK, MetaState
    <3> QED
      BY <3>1, <3>2
  <2> HIDE DEF lt, s
  <2>2. up /\ dst = NoDst /\ UNCHANGED <<up, dst, votes>>
    BY <1>9 DEF TruncateFrom, Ready
  <2>3. /\ \A v \in votes : Keeps(s, v)
        /\ \A v, w \in votes : w[1] = v[1] => w = v
    BY <2>1, <2>2 DEF VotesKept, Keeps
  <2> QED
    BY <2>1, <2>2, <2>3, <1>1, CommitOkVotes, CommitFailsVotes
<1>10. ASSUME NEW i \in Indexes, Compact(i) PROVE VotesKept'
  <2>1. /\ dst'[Len(dst')].term = m.term /\ dst'[Len(dst')].vote = m.vote
        /\ up /\ UNCHANGED <<file, safe, up, m, cm, votes>>
    BY <1>10, CompactedEnd DEF Compact, Ready, TableInv
  <2> QED
    BY <2>1 DEF VotesKept, Keeps
<1>11. ASSUME AdoptCompacted PROVE VotesKept'
  <2>1. /\ file' = dst /\ safe' = Len(dst) /\ dst' = NoDst /\ votes' = votes
        /\ m' = RecoveredMeta(dst) /\ cm' = RecoveredMeta(dst)
        /\ dst # NoDst /\ Openable(dst) /\ dst \in Seq(Records)
    BY <1>1, <1>11 DEF AdoptCompacted, LoadFrom, TypeOK
  <2>2. Len(dst) > 0 /\ \A k \in CF!CrashPoints(dst, Len(dst)) : k = Len(dst)
    BY <2>1 DEF CF!CrashPoints, CF!CommitEnds, Openable
  <2>3. \A v \in votes : Keeps(dst[Len(dst)], v)
    BY <2>1 DEF VotesKept
  <2>4. \A v \in votes : Keeps(RecoveredMeta(dst), v)
    BY <2>3 DEF RecoveredMeta, Keeps
  <2> QED
    BY <2>1, <2>2, <2>3, <2>4 DEF VotesKept
<1>12. ASSUME UNCHANGED vars PROVE VotesKept'
  BY <1>12 DEF vars, VotesKept
<1> QED
  BY <1>2, <1>3, <1>4, <1>5, <1>6, <1>7, <1>8, <1>9, <1>10, <1>11, <1>12 DEF Next

\* An answered vote is never lost and never followed by another one in the same term
\* (elog_set_hard_state, and every later commit, crash, reopen and compaction).
THEOREM VotesSafe == Spec => []VotesKept
<1>1. Init => VotesKept
  BY DEF Init, VotesKept
<1> QED
  BY <1>1, TableInvariant, VotesStep, PTL DEF Spec

-----------------------------------------------------------------------------
(* The file as CommitFile sees it.                                         *)

\* The buffer and a metadata record make one commit.
LEMMA CommitBatch ==
  ASSUME TypeOK, NEW s \in MetaState
  PROVE  LET g == Append(Image, Metadata(base, s))
             b == SubSeq(g, Len(file) + 1, Len(g))
         IN  CF!IsCommit(b) /\ g = file \o b
<1> DEFINE md == Metadata(base, s)
           g  == Append(Image, md)
           b  == SubSeq(g, Len(file) + 1, Len(g))
           F  == Len(file)
           P  == Len(pend)
<1>1. md \in Records /\ md.kind = "meta"
  BY DEF Metadata, MetaRecs, Records, MetaState, TypeOK
<1>2. file \in Seq(Records) /\ pend \in Seq(EntryRecs) /\ pend \in Seq(Records)
  BY DEF TypeOK, Records
<1>3. F \in Nat /\ P \in Nat
  BY <1>2
<1> HIDE DEF md
<1>4. /\ g \in Seq(Records) /\ Len(g) = F + P + 1 /\ g[F + P + 1] = md
      /\ \A p \in 1..F : g[p] = file[p]
      /\ \A i \in 1..P : g[F + i] = pend[i]
  BY <1>1, <1>2 DEF Image
<1> HIDE DEF g
<1>5. /\ b \in Seq(Records) /\ Len(b) = P + 1
      /\ \A i \in 1..(P + 1) : b[i] = g[F + i]
  BY <1>3, <1>4
<1>6. \A i \in 1..P : pend[i].kind = "entry"
  <2>1. \A i \in 1..Len(pend) : pend[i] \in EntryRecs
    BY <1>2
  <2> QED
    BY <2>1 DEF EntryRecs
<1>7. CF!IsCommit(b)
  <2>1. ASSUME NEW i \in 1..(P + 1) PROVE b[i].kind = "meta" <=> i = P + 1
    <3>1. CASE i = P + 1
      BY <3>1, <1>1, <1>3, <1>4, <1>5
    <3>2. CASE i \in 1..P
      BY <3>2, <1>3, <1>4, <1>5, <1>6, SMTT(40)
    <3>3. i = P + 1 \/ i \in 1..P
      BY <1>3
    <3> QED
      BY <3>1, <3>2, <3>3
  <2> HIDE DEF b
  <2> QED
    BY <2>1, <1>3, <1>5 DEF CF!IsCommit, CF!IsMeta
<1>8. g = file \o b
  BY <1>2, <1>3, <1>4, <1>5
<1> QED
  BY <1>7, <1>8 DEF g, md

\* The state elog_truncate_from(i) commits.
Truncated(i) ==
  [m EXCEPT !.last = i - 1,
            !.lastTerm = IF i - 1 = base.index THEN base.term
                         ELSE ents[i - base.index - 1].term,
            !.n = i - 1 - base.index]

\* It has fewer slots, and what is known of the live ones holds for them.
LEMMA TruncatedState ==
  ASSUME TableInv, NEW i \in Indexes, TruncateFrom(i)
  PROVE  LET s == Truncated(i) IN
         /\ s \in MetaState /\ CommitState(s)
         /\ s.last = i - 1 /\ s.n = i - 1 - base.index
         /\ s.lastTerm = IF s.n = 0 THEN base.term ELSE ents[s.n].term
         /\ s.term = m.term /\ s.vote = m.vote /\ s.commit = m.commit
         /\ base.index <= s.last /\ s.last < m.last /\ s.n \in 0..m.n
         /\ s.n = s.last - base.index
         /\ Slots(ents, s.n, base, Image)
<1> DEFINE k  == i - 1 - base.index
           lt == IF i - 1 = base.index THEN base.term ELSE ents[i - base.index - 1].term
           s  == Truncated(i)
<1>1. TypeOK /\ OpenState /\ up
  BY DEF TableInv, TruncateFrom, Ready
<1>2. /\ i \in Nat /\ m.last \in Nat /\ base.index \in Nat /\ MaxIndex \in Nat
      /\ base.index < i /\ i <= m.last /\ m.last <= MaxIndex
  BY <1>1, BoundsAssumption DEF TruncateFrom, TypeOK, MetaState, BaseRecs, Indexes
<1>3. /\ Slots(ents, m.n, base, Image) /\ m.n = m.last - base.index
      /\ m.n <= Len(ents) /\ Len(ents) \in Nat
  BY <1>1 DEF OpenState, Slots, TypeOK
<1>4. k \in 0..m.n /\ i - 1 \in Indexes /\ k \in Indexes
  BY <1>2, <1>3 DEF Indexes
<1>5. lt \in Terms /\ lt = IF k = 0 THEN base.term ELSE ents[k].term
  <2>1. CASE i - 1 = base.index
    BY <2>1, <1>1, <1>2 DEF TypeOK, BaseRecs
  <2>2. CASE i - 1 # base.index
    <3>1. k \in 1..Len(ents) /\ k # 0 /\ i - base.index - 1 = k
      BY <2>2, <1>2, <1>3
    <3>2. \A j \in 1..Len(ents) : ents[j].term \in Terms
      BY <1>1, SlotTypes
    <3> HIDE DEF k
    <3> QED
      BY <2>2, <3>1, <3>2
  <2> QED
    BY <2>1, <2>2
<1>6. CommitState(s)
  BY DEF TruncateFrom, Truncated
<1>7. s = [m EXCEPT !.last = i - 1, !.lastTerm = lt, !.n = k]
  BY DEF Truncated
<1> HIDE DEF lt, s
<1>8. /\ s \in MetaState /\ s.last = i - 1 /\ s.n = k /\ s.lastTerm = lt
      /\ s.term = m.term /\ s.vote = m.vote /\ s.commit = m.commit
  <2> HIDE DEF k
  <2> QED BY <1>1, <1>4, <1>5, <1>7 DEF TypeOK, MetaState
<1>9. Slots(ents, s.n, base, Image)
  <2> HIDE DEF k
  <2>1. s.n <= Len(ents) /\ \A j \in 1..s.n : j \in 1..m.n
    BY <1>2, <1>3, <1>4, <1>8
  <2> QED
    BY <2>1, <1>3 DEF Slots
<1> QED
  BY <1>2, <1>4, <1>5, <1>6, <1>8, <1>9 DEF s

\* A step of elog_* is a commit, a durable commit, a crash or no change of the file.
LEMMA FileStep ==
  ASSUME TableInv, Next
  PROVE  \/ AdoptCompacted
         \/ \E b \in {SubSeq(file', Len(file) + 1, Len(file'))} :
              CF!Commit(b) \/ CF!CommitDurably(b)
         \/ CF!Crash
         \/ UNCHANGED <<file, safe>>
<1> DEFINE b == SubSeq(file', Len(file) + 1, Len(file'))
<1>1. TypeOK
  BY DEF TableInv
<1>2. ASSUME NEW s \in MetaState, CommitState(s)
      PROVE  CF!Commit(b) \/ CF!CommitDurably(b) \/ UNCHANGED <<file, safe>>
  <2> DEFINE g == Append(Image, Metadata(base, s))
  <2>1. /\ CF!IsCommit(SubSeq(g, Len(file) + 1, Len(g)))
        /\ g = file \o SubSeq(g, Len(file) + 1, Len(g))
    BY <1>1, CommitBatch
  <2>2. CASE CommitOk(s)
    <3>1. file' = g /\ safe' = Len(file')
      BY <2>2 DEF CommitOk
    <3> HIDE DEF g
    <3> QED
      BY <2>1, <3>1 DEF CF!CommitDurably
  <2>3. CASE CommitFails(s)
    <3>1. file' \in {file, g} /\ safe' = safe
      BY <2>3 DEF CommitFails
    <3> HIDE DEF g
    <3> QED
      BY <2>1, <3>1 DEF CF!Commit
  <2> QED
    BY <1>2, <2>2, <2>3 DEF CommitState
<1>3. ASSUME NEW c \in Bases, Create(c) PROVE CF!Commit(b)
  <2> DEFINE md == Metadata(c, FreshMeta(c))
  <2>1. file = <<>> /\ file' = <<Header, md>> /\ safe' = safe
    BY <1>3 DEF Create
  <2>2. Header.kind = "header" /\ md.kind = "meta"
    BY DEF Header, Metadata
  <2> DEFINE S == {Header, md}
  <2>3. file' \in Seq(S) /\ Len(file') = 2 /\ file'[1] = Header /\ file'[2] = md
    BY <2>1
  <2>4. file \in Seq(S) /\ Len(file) = 0
    BY <2>1
  <2> HIDE DEF md, S
  <2>5. b \in Seq(S) /\ Len(b) = 2 /\ b[1] = Header /\ b[2] = md
    BY <2>3, <2>4
  <2>6. file' = file \o b
    BY <2>3, <2>4, <2>5
  <2> HIDE DEF b
  <2>7. b # <<>> /\ \A i \in 1..Len(b) : b[i].kind = "meta" <=> i = Len(b)
    <3>1. b # <<>> /\ \A i \in 1..Len(b) : i = 1 \/ i = 2
      BY <2>5
    <3>2. b[1].kind # "meta" /\ b[2].kind = "meta"
      BY <2>2, <2>5
    <3> QED
      BY <3>1, <3>2, <2>5
  <2> QED
    BY <2>1, <2>6, <2>7 DEF CF!Commit, CF!IsCommit, CF!IsMeta
<1>4. CASE Crash
  BY <1>4 DEF Crash, CF!Crash
<1>5. ASSUME NEW t \in Terms, NEW v \in Node \cup {NoVote}, SetHardState(t, v)
      PROVE  \E s \in MetaState : CommitState(s)
  <2>1. HardState(t, v) \in MetaState
    BY <1>1 DEF TypeOK, MetaState, HardState
  <2> QED
    BY <1>5, <2>1 DEF SetHardState, CommitState
<1>6. CASE Sync
  BY <1>1, <1>2, <1>6 DEF Sync, TypeOK
<1>7. ASSUME NEW i \in Indexes, TruncateFrom(i)
      PROVE  \E s \in MetaState : CommitState(s)
  BY <1>7, TruncatedState DEF TableInv
<1>8. CASE Open \/ \E t \in Terms, v \in Value : AppendEntry(t, v)
  BY <1>8 DEF Open, AppendEntry
<1>9. CASE \E i \in Indexes : SetCommitIndex(i) \/ Compact(i)
  BY <1>9 DEF SetCommitIndex, Compact
<1> QED
  BY <1>2, <1>3, <1>4, <1>5, <1>6, <1>7, <1>8, <1>9 DEF Next

\* Except when a compacted log replaces it, the file only has whole commits appended
\* and whole unsynced commits lost (bjfile.c under commit_state of entrylog.c).
THEOREM FileDisciplined == Spec => FileDiscipline
<1>1. TableInv /\ [Next]_vars
        => [ \/ AdoptCompacted
             \/ \E b \in {SubSeq(file', Len(file) + 1, Len(file'))} :
                  CF!Commit(b) \/ CF!CommitDurably(b)
             \/ CF!Crash ]_<<file, safe>>
  BY FileStep DEF vars
<1> QED
  BY <1>1, TableInvariant, PTL DEF Spec, FileDiscipline

-----------------------------------------------------------------------------
(* What a replay finds in a log that grows.                                *)

\* The newest record of an index is the one SlotPos names.
LEMMA SlotPosIs ==
  ASSUME NEW R, NEW f \in Seq(R), NEW i, NEW q \in EntryPos(f), f[q].index = i,
         \A p \in EntryPos(f) : p > q => f[p].index # i
  PROVE  SlotPos(f, i) = q
<1> DEFINE S == {p \in EntryPos(f) : f[p].index = i}
<1>1. Len(f) \in Nat /\ EntryPos(f) \subseteq 1..Len(f)
  BY DEF EntryPos
<1>2. S \in SUBSET (1..Len(f)) /\ q \in S /\ \A p \in S : ~ (p > q)
  BY <1>1
<1>3. SlotPos(f, i) = MaxOf(S)
  BY DEF SlotPos
<1> HIDE DEF S
<1>4. MaxOf(S) \in S /\ \A y \in S : y <= MaxOf(S)
  BY <1>1, <1>2, MaxOfPositions
<1>5. MaxOf(S) \in 1..Len(f) /\ q \in 1..Len(f) /\ q <= MaxOf(S) /\ ~ (MaxOf(S) > q)
  BY <1>1, <1>2, <1>4
<1> HIDE DEF SlotPos
<1> QED
  BY <1>1, <1>3, <1>5

\* RawLast is the index of the last entry record.
LEMMA RawLastIs ==
  ASSUME NEW R, NEW f \in Seq(R), NEW b, NEW q \in EntryPos(f),
         \A p \in EntryPos(f) : p <= q
  PROVE  RawLast(f, b) = f[q].index
<1>1. Len(f) \in Nat /\ EntryPos(f) \in SUBSET (1..Len(f)) /\ EntryPos(f) # {}
  BY DEF EntryPos
<1>2. MaxOf(EntryPos(f)) \in EntryPos(f) /\ \A y \in EntryPos(f) : y <= MaxOf(EntryPos(f))
  BY <1>1, MaxOfPositions
<1>3. MaxOf(EntryPos(f)) = q
  BY <1>1, <1>2
<1> QED
  BY <1>1, <1>3 DEF RawLast

\* A prefix of a replayable log is replayable.
LEMMA ReplaysPrefix ==
  ASSUME NEW f \in Seq(Records), NEW b, Replays(f, b), NEW k \in 0..Len(f)
  PROVE  Replays(SubSeq(f, 1, k), b)
<1> DEFINE h == SubSeq(f, 1, k)
<1>1. h \in Seq(Records) /\ Len(h) = k /\ \A p \in 1..k : h[p] = f[p]
  OBVIOUS
<1>2. ASSUME NEW p \in EntryPos(h)
      PROVE  p \in EntryPos(f) /\ h[p] = f[p] /\ SubSeq(h, 1, p - 1) = SubSeq(f, 1, p - 1)
  <2>1. p \in 1..k
    BY <1>1 DEF EntryPos
  <2>2. p \in EntryPos(f) /\ h[p] = f[p]
    BY <2>1, <1>1 DEF EntryPos
  <2>3. SubSeq(h, 1, p - 1) = SubSeq(f, 1, p - 1)
    BY <2>1
  <2> QED
    BY <2>2, <2>3
<1> HIDE DEF h
<1> QED
  BY <1>2 DEF Replays, h

\* A replay sees nothing in g that it does not see in f.
Skips(f, g, b) ==
  /\ EntryPos(g) = EntryPos(f)
  /\ \A p \in EntryPos(f) : g[p] = f[p]
  /\ RawLast(g, b) = RawLast(f, b)
  /\ \A i : SlotPos(g, i) = SlotPos(f, i)
  /\ Replays(g, b) <=> Replays(f, b)

\* g has the record r after f: it becomes the last, takes the slot of its index, and
\* leaves the log replayable if it is the next one or a lower one.
Takes(f, g, r, b) ==
  /\ EntryPos(g) = EntryPos(f) \cup {Len(f) + 1}
  /\ \A p \in EntryPos(f) : g[p] = f[p]
  /\ RawLast(g, b) = r.index
  /\ SlotPos(g, r.index) = Len(f) + 1
  /\ \A i : i # r.index => SlotPos(g, i) = SlotPos(f, i)
  /\ Replays(g, b) <=> /\ Replays(f, b)
                       /\ r.index > b.index /\ r.index <= RawLast(f, b) + 1

\* A record that is no entry changes nothing a replay sees.
LEMMA ReplaySkips ==
  ASSUME NEW R, NEW f \in Seq(R), NEW b, NEW r \in R, r.kind # "entry"
  PROVE  Skips(f, Append(f, r), b)
<1> DEFINE g == Append(f, r)
<1>1. /\ g \in Seq(R) /\ Len(g) = Len(f) + 1 /\ g[Len(f) + 1] = r
      /\ \A p \in 1..Len(f) : g[p] = f[p]
  OBVIOUS
<1>2. \A p \in 1..Len(f) : SubSeq(g, 1, p - 1) = SubSeq(f, 1, p - 1)
  OBVIOUS
<1> HIDE DEF g
<1>3. EntryPos(g) = EntryPos(f)
  BY <1>1 DEF EntryPos
<1>4. \A p \in EntryPos(f) : p \in 1..Len(f) /\ g[p] = f[p]
  BY <1>1 DEF EntryPos
<1>5. RawLast(g, b) = RawLast(f, b)
  <2>1. CASE EntryPos(f) = {}
    BY <2>1, <1>3 DEF RawLast
  <2>2. CASE EntryPos(f) # {}
    <3>1. MaxOf(EntryPos(f)) \in EntryPos(f)
      <4>1. Len(f) \in Nat /\ EntryPos(f) \in SUBSET (1..Len(f))
        BY <1>4
      <4> QED
        BY <4>1, <2>2, MaxOfPositions
    <3> QED
      BY <3>1, <2>2, <1>3, <1>4 DEF RawLast
  <2> QED
    BY <2>1, <2>2
<1>6. ASSUME NEW i PROVE SlotPos(g, i) = SlotPos(f, i)
  <2>1. {p \in EntryPos(g) : g[p].index = i} = {p \in EntryPos(f) : f[p].index = i}
    BY <1>3, <1>4
  <2> QED
    BY <2>1 DEF SlotPos
<1>7. Replays(g, b) <=> Replays(f, b)
  BY <1>2, <1>3, <1>4 DEF Replays
<1>8. Skips(f, g, b)
  BY <1>3, <1>4, <1>5, <1>6, <1>7 DEF Skips
<1> QED
  BY <1>8 DEF g

\* An entry is taken.
LEMMA ReplayTakes ==
  ASSUME NEW R, NEW f \in Seq(R), NEW b, NEW r \in R, r.kind = "entry"
  PROVE  Takes(f, Append(f, r), r, b)
<1> DEFINE g == Append(f, r)
           n == Len(f) + 1
<1>1. g \in Seq(R) /\ Len(g) = n /\ g[n] = r /\ \A p \in 1..Len(f) : g[p] = f[p]
  OBVIOUS
<1>2. \A p \in 1..Len(f) : SubSeq(g, 1, p - 1) = SubSeq(f, 1, p - 1)
  OBVIOUS
<1>3. SubSeq(g, 1, n - 1) = f
  OBVIOUS
<1>4. Len(f) \in Nat /\ n \notin 1..Len(f) /\ 1..n = (1..Len(f)) \cup {n}
  OBVIOUS
<1> HIDE DEF g, n
<1>5. EntryPos(g) = EntryPos(f) \cup {n}
  BY <1>1, <1>4 DEF EntryPos
<1>6. \A p \in EntryPos(f) : p \in 1..Len(f) /\ g[p] = f[p] /\ p # n
  BY <1>1, <1>4 DEF EntryPos
<1>7. n \in EntryPos(g) /\ \A p \in EntryPos(g) : p <= n /\ ~(p > n)
  BY <1>4, <1>5, <1>6 DEF n
<1>8. RawLast(g, b) = r.index
  BY <1>1, <1>7, RawLastIs
<1>9. SlotPos(g, r.index) = n
  BY <1>1, <1>7, SlotPosIs
<1>10. ASSUME NEW i, i # r.index PROVE SlotPos(g, i) = SlotPos(f, i)
  <2>1. {p \in EntryPos(g) : g[p].index = i} = {p \in EntryPos(f) : f[p].index = i}
    BY <1>1, <1>5, <1>6, <1>10
  <2> QED
    BY <2>1 DEF SlotPos
<1>11. Replays(g, b) <=> /\ Replays(f, b)
                         /\ r.index > b.index /\ r.index <= RawLast(f, b) + 1
  <2>1. \A p \in EntryPos(f) : SubSeq(g, 1, p - 1) = SubSeq(f, 1, p - 1)
    BY <1>2, <1>6
  <2> QED
    BY <2>1, <1>1, <1>3, <1>5, <1>6 DEF Replays
<1>12. Takes(f, g, r, b)
  BY <1>5, <1>6, <1>8, <1>9, <1>10, <1>11 DEF Takes, n
<1> QED
  BY <1>12 DEF g

\* A metadata record changes nothing a replay sees.
LEMMA ReplayMeta ==
  ASSUME NEW f \in Seq(Records), NEW b, NEW md \in Records, md.kind = "meta"
  PROVE  LET g == Append(f, md) IN
         /\ EntryPos(g) = EntryPos(f)
         /\ \A p \in EntryPos(f) : g[p] = f[p]
         /\ RawLast(g, b) = RawLast(f, b)
         /\ Replays(f, b) => Replays(g, b)
<1> DEFINE g == Append(f, md)
<1>1. Skips(f, g, b)
  BY ReplaySkips
<1> HIDE DEF g
<1>2. /\ EntryPos(g) = EntryPos(f)
      /\ \A p \in EntryPos(f) : g[p] = f[p]
      /\ RawLast(g, b) = RawLast(f, b)
      /\ Replays(f, b) => Replays(g, b)
  BY <1>1 DEF Skips
<1> QED
  BY <1>2 DEF g

\* An entry record of the next index, or of a lower one, becomes the last.
LEMMA ReplayEntry ==
  ASSUME NEW f \in Seq(Records), NEW b, NEW e \in EntryRecs
  PROVE  LET g == Append(f, e) IN
         /\ RawLast(g, b) = e.index
         /\ Replays(f, b) /\ e.index > b.index /\ e.index <= RawLast(f, b) + 1
              => Replays(g, b)
<1>1. e \in Records /\ e.kind = "entry"
  BY DEF EntryRecs, Records
<1> DEFINE g == Append(f, e)
<1>2. Takes(f, g, e, b)
  BY <1>1, ReplayTakes
<1> HIDE DEF g
<1>3. /\ RawLast(g, b) = e.index
      /\ Replays(f, b) /\ e.index > b.index /\ e.index <= RawLast(f, b) + 1 => Replays(g, b)
  BY <1>2 DEF Takes
<1> QED
  BY <1>3 DEF g

-----------------------------------------------------------------------------
(* The replay loop.                                                        *)

\* Entries have indexes.
Indexed(R) == \A r \in R : r.kind = "entry" => r.index \in Nat

\* Every slot holds a record.
Filled(h, b) == \A i \in (b.index + 1)..RawLast(h, b) : SlotPos(h, i) \in EntryPos(h)

\* What the loop is at after the records h.
Built(st, h, b) ==
  IF st.failed THEN ~Replays(h, b)
  ELSE /\ Replays(h, b)
       /\ Filled(h, b)
       /\ st.n = RawLast(h, b) - b.index
       /\ st.table = ReplayTable(h, b)

\* The live slots are the whole table.
LoopStates(T) ==
  {st \in [failed : BOOLEAN, n : Nat, table : Seq([off : Nat, term : T])] : st.n = Len(st.table)}

TermsIn(f) == {f[p].term : p \in 1..Len(f)}

\* The last index of a log that replays is no lower than its base.
LEMMA ReplayedLast ==
  ASSUME NEW R, Indexed(R), NEW f \in Seq(R), NEW b, b.index \in Nat, Replays(f, b)
  PROVE  RawLast(f, b) \in Nat /\ RawLast(f, b) >= b.index
<1>1. CASE EntryPos(f) = {}
  BY <1>1 DEF RawLast
<1>2. CASE EntryPos(f) # {}
  <2> DEFINE q == MaxOf(EntryPos(f))
  <2>1. Len(f) \in Nat /\ EntryPos(f) \in SUBSET (1..Len(f))
    BY DEF EntryPos
  <2>2. q \in EntryPos(f)
    BY <2>1, <1>2, MaxOfPositions
  <2>3. RawLast(f, b) = f[q].index
    BY <1>2 DEF RawLast
  <2> HIDE DEF q
  <2>4. f[q].kind = "entry" /\ f[q] \in R /\ f[q].index > b.index
    BY <2>2 DEF EntryPos, Replays
  <2>5. f[q].index \in Nat
    BY <2>4 DEF Indexed
  <2> QED
    BY <2>3, <2>4, <2>5
<1> QED
  BY <1>1, <1>2

LEMMA TableSkips ==
  ASSUME NEW R, Indexed(R), NEW h \in Seq(R), NEW r \in R, NEW b, b.index \in Nat,
         r.kind # "entry", Replays(h, b), Filled(h, b)
  PROVE  LET g == Append(h, r) IN
         Filled(g, b) /\ ReplayTable(g, b) = ReplayTable(h, b)
<1> DEFINE g == Append(h, r)
<1>1. Skips(h, g, b)
  BY ReplaySkips
<1> HIDE DEF g
<1>2. \A p \in EntryPos(h) : g[p] = h[p]
  BY <1>1 DEF Skips
<1>3. RawLast(g, b) = RawLast(h, b)
  BY <1>1 DEF Skips
<1>4. \A i : SlotPos(g, i) = SlotPos(h, i)
  BY <1>1 DEF Skips
<1>5. Filled(g, b)
  BY <1>1, <1>3, <1>4 DEF Filled, Skips
<1> DEFINE N == RawLast(h, b) - b.index
<1>6. ASSUME NEW j \in 1..N
      PROVE  g[SlotPos(g, b.index + j)].term = h[SlotPos(h, b.index + j)].term
  <2>1. b.index + j \in (b.index + 1)..RawLast(h, b)
    BY ReplayedLast
  <2> QED
    BY <2>1, <1>2, <1>4 DEF Filled
<1>7. ReplayTable(g, b) = ReplayTable(h, b)
  BY <1>3, <1>4, <1>6 DEF ReplayTable
<1> QED
  BY <1>5, <1>7 DEF g

LEMMA TableTakes ==
  ASSUME NEW R, Indexed(R), NEW h \in Seq(R), NEW r \in R, NEW b, b.index \in Nat,
         r.kind = "entry", Replays(h, b), Filled(h, b),
         r.index > b.index, r.index <= RawLast(h, b) + 1
  PROVE  LET g == Append(h, r)
             k == r.index - b.index - 1
         IN  /\ Filled(g, b)
             /\ k \in 0..(RawLast(h, b) - b.index)
             /\ Len(ReplayTable(h, b)) = RawLast(h, b) - b.index
             /\ ReplayTable(g, b) = Append(SubSeq(ReplayTable(h, b), 1, k),
                                           [off |-> Len(h) + 1, term |-> r.term])
<1> DEFINE g == Append(h, r)
           k == r.index - b.index - 1
           n == Len(h) + 1
           N == RawLast(h, b) - b.index
           slot == [off |-> n, term |-> r.term]
<1>1. Takes(h, g, r, b)
  BY ReplayTakes
<1>2. g[n] = r
  OBVIOUS
<1> HIDE DEF g
<1>3. \A p \in EntryPos(h) : g[p] = h[p]
  BY <1>1 DEF Takes
<1>4. RawLast(g, b) = r.index
  BY <1>1 DEF Takes
<1>5. SlotPos(g, r.index) = n
  BY <1>1 DEF Takes
<1>6. \A i : i # r.index => SlotPos(g, i) = SlotPos(h, i)
  BY <1>1 DEF Takes
<1>7. r.index \in Nat /\ RawLast(h, b) \in Nat /\ RawLast(h, b) >= b.index
  BY ReplayedLast DEF Indexed
<1> HIDE DEF n
<1>8. k \in 0..N /\ k \in Nat /\ N \in Nat /\ k + 1 = r.index - b.index /\ k <= N
  BY <1>7
<1>9. ASSUME NEW i \in (b.index + 1)..r.index, i # r.index
      PROVE  SlotPos(h, i) \in EntryPos(h)
  <2>1. i \in (b.index + 1)..RawLast(h, b)
    BY <1>7, <1>9
  <2> QED
    BY <2>1 DEF Filled
<1>10. Filled(g, b)
  BY <1>1, <1>4, <1>5, <1>6, <1>9 DEF Filled, Takes, n
<1> DEFINE old == ReplayTable(h, b)
           new == ReplayTable(g, b)
           S == {old[j] : j \in 1..N} \cup {slot}
<1>11. /\ DOMAIN old = 1..N
       /\ \A j \in 1..N : old[j] = [off |-> SlotPos(h, b.index + j), term |-> h[SlotPos(h, b.index + j)].term]
  BY DEF ReplayTable
<1>12. /\ new = [j \in 1..(k + 1) |-> [off |-> SlotPos(g, b.index + j), term |-> g[SlotPos(g, b.index + j)].term]]
  <2>1. RawLast(g, b) - b.index = k + 1
    BY <1>4, <1>8
  <2> QED
    BY <2>1 DEF ReplayTable
<1>13. old = [j \in 1..N |-> old[j]]
  BY DEF ReplayTable
<1> HIDE DEF old, new, slot, k, N
<1>14. old \in Seq(S) /\ Len(old) = N
  <2>1. \A j \in 1..N : old[j] \in S
    OBVIOUS
  <2> HIDE DEF S
  <2>2. old \in [1..N -> S]
    BY <1>13, <2>1
  <2> QED
    BY <2>2, <1>8
<1> DEFINE t == Append(SubSeq(old, 1, k), slot)
<1>15. slot \in S
  OBVIOUS
<1> HIDE DEF S
<1>16. /\ t \in Seq(S) /\ Len(t) = k + 1 /\ t[k + 1] = slot
       /\ \A j \in 1..k : t[j] = old[j]
  <2>1. /\ SubSeq(old, 1, k) \in Seq(S) /\ Len(SubSeq(old, 1, k)) = k
        /\ \A j \in 1..k : SubSeq(old, 1, k)[j] = old[j]
    BY <1>8, <1>14
  <2> DEFINE u == SubSeq(old, 1, k)
  <2> HIDE DEF u
  <2>2. /\ Append(u, slot) \in Seq(S) /\ Len(Append(u, slot)) = k + 1 /\ Append(u, slot)[k + 1] = slot
        /\ \A j \in 1..k : Append(u, slot)[j] = u[j]
    BY <2>1, <1>15, <1>8 DEF u
  <2> QED
    BY <2>1, <2>2 DEF u
<1> HIDE DEF t
<1>17. ASSUME NEW j \in 1..(k + 1)
       PROVE  t[j] = [off |-> SlotPos(g, b.index + j), term |-> g[SlotPos(g, b.index + j)].term]
  <2>1. CASE j = k + 1
    <3>1. b.index + j = r.index
      BY <2>1, <1>7, <1>8
    <3> QED
      BY <3>1, <2>1, <1>5, <1>2, <1>16 DEF slot
  <2>2. CASE j # k + 1
    <3> DEFINE i == b.index + j
    <3>1. j \in 1..k /\ j \in 1..N /\ i # r.index /\ i \in (b.index + 1)..r.index
      BY <2>2, <1>7, <1>8
    <3> HIDE DEF i
    <3>2. SlotPos(g, i) = SlotPos(h, i) /\ SlotPos(h, i) \in EntryPos(h)
      BY <3>1, <1>6, <1>9
    <3>3. t[j] = [off |-> SlotPos(h, i), term |-> h[SlotPos(h, i)].term]
      BY <3>1, <1>11, <1>16 DEF i
    <3> QED
      BY <3>2, <3>3, <1>3 DEF i
  <2> QED
    BY <2>1, <2>2
<1>18. t = [j \in 1..(k + 1) |-> t[j]]
  BY <1>16
<1>19. new = t
  BY <1>12, <1>17, <1>18
<1> QED
  BY <1>8, <1>10, <1>14, <1>19 DEF g, k, n, N, old, new, t, slot

\* One more record of the part that is replayed.
LEMMA LoopStep ==
  ASSUME NEW R, Indexed(R), NEW h \in Seq(R), NEW r \in R, NEW b, b.index \in Nat,
         NEW f, NEW off, NEW good, off = Len(h) + 1, f[off] = r, ~(off >= good),
         NEW T, NEW st \in LoopStates(T), Built(st, h, b)
  PROVE  Built(ReplayStep(st, f, off, good, b), Append(h, r), b)
<1> DEFINE g == Append(h, r)
           k == r.index - b.index - 1
           end == ReplayStep(st, f, off, good, b)
<1> SUFFICES Built(end, g, b)
  OBVIOUS
<1>1. st.failed \in BOOLEAN /\ DOMAIN st = {"failed", "n", "table"}
  BY DEF LoopStates
<1>2. CASE r.kind # "entry"
  <2>1. end = st
    BY <1>2 DEF ReplayStep
  <2>2. Skips(h, g, b)
    BY <1>2, ReplaySkips
  <2>3. RawLast(g, b) = RawLast(h, b) /\ (Replays(g, b) <=> Replays(h, b))
    BY <2>2 DEF Skips
  <2>4. Replays(h, b) /\ Filled(h, b) => Filled(g, b) /\ ReplayTable(g, b) = ReplayTable(h, b)
    BY <1>2, TableSkips
  <2> HIDE DEF g, end
  <2> QED
    BY <2>1, <2>3, <2>4 DEF Built
<1>3. CASE r.kind = "entry" /\ st.failed
  <2>1. end = st
    BY <1>3 DEF ReplayStep
  <2>2. ~Replays(g, b)
    <3>1. ~Replays(h, b)
      BY <1>3 DEF Built
    <3>2. Takes(h, g, r, b)
      BY <1>3, ReplayTakes
    <3> QED
      BY <3>1, <3>2 DEF Takes
  <2> HIDE DEF g, end
  <2> QED
    BY <2>1, <2>2, <1>3 DEF Built
<1>4. CASE r.kind = "entry" /\ ~st.failed
  <2>1. Replays(h, b) /\ Filled(h, b) /\ st.n = RawLast(h, b) - b.index /\ st.table = ReplayTable(h, b)
    BY <1>4 DEF Built
  <2>2. RawLast(h, b) \in Nat /\ RawLast(h, b) >= b.index /\ r.index \in Nat
    BY <2>1, <1>4, ReplayedLast DEF Indexed
  <2>3. Takes(h, g, r, b)
    BY <1>4, ReplayTakes
  <2>4. Replays(g, b) <=> r.index > b.index /\ r.index <= RawLast(h, b) + 1
    BY <2>1, <2>3 DEF Takes
  <2>5. Misplaced(st, r, b) <=> ~(r.index > b.index /\ r.index <= RawLast(h, b) + 1)
    BY <2>1, <2>2 DEF Misplaced
  <2>6. CASE Misplaced(st, r, b)
    <3>1. end = [st EXCEPT !.failed = TRUE]
      BY <2>6, <1>4 DEF ReplayStep
    <3>2. end.failed
      BY <3>1, <1>1
    <3> HIDE DEF g, end
    <3> QED
      BY <3>2, <2>4, <2>5, <2>6 DEF Built
  <2>7. CASE ~Misplaced(st, r, b)
    <3> DEFINE t == Append(SubSeq(st.table, 1, k), [off |-> off, term |-> r.term])
    <3>1. end = [st EXCEPT !.n = k + 1, !.table = t]
      BY <2>7, <1>4 DEF ReplayStep, Place
    <3> HIDE DEF t
    <3>2. end.failed = st.failed /\ end.n = k + 1 /\ end.table = t
      BY <3>1, <1>1
    <3>3. k + 1 = r.index - b.index
      BY <2>2
    <3>4. Filled(g, b) /\ ReplayTable(g, b) = t
      BY <2>1, <2>5, <2>7, <1>4, TableTakes DEF t
    <3>5. RawLast(g, b) = r.index
      BY <2>3 DEF Takes
    <3>6. ~end.failed
      BY <3>2, <1>4
    <3> HIDE DEF g, end, k
    <3> QED
      BY <3>2, <3>3, <3>4, <3>5, <3>6, <2>4, <2>5, <2>7 DEF Built
  <2> QED
    BY <2>6, <2>7
<1> QED
  BY <1>2, <1>3, <1>4

LEMMA Placed ==
  ASSUME NEW A, NEW B, NEW C, NEW st \in [failed : A, n : B, table : C], NEW x \in B, NEW t \in C
  PROVE  LET e == [st EXCEPT !.n = x, !.table = t] IN
         e \in [failed : A, n : B, table : C] /\ e.n = x /\ e.table = t
  OBVIOUS

\* The loop goes from one of its states to another.
LEMMA LoopTypes ==
  ASSUME NEW R, Indexed(R), NEW f \in Seq(R), NEW off \in 1..Len(f), NEW good,
         NEW b, b.index \in Nat, NEW st \in LoopStates(TermsIn(f))
  PROVE  ReplayStep(st, f, off, good, b) \in LoopStates(TermsIn(f))
<1> DEFINE r == f[off]
           k == r.index - b.index - 1
           T == TermsIn(f)
           S == [off : Nat, term : T]
           slot == [off |-> off, term |-> r.term]
<1>1. /\ st.failed \in BOOLEAN /\ st.n \in Nat /\ st.table \in Seq(S) /\ st.n = Len(st.table)
      /\ DOMAIN st = {"failed", "n", "table"}
  BY DEF LoopStates
<1>2. slot \in S
  BY DEF TermsIn
<1> HIDE DEF T
<1>3. CASE st.failed \/ off >= good \/ r.kind # "entry"
  BY <1>3 DEF ReplayStep
<1>4. CASE ~(st.failed \/ off >= good \/ r.kind # "entry") /\ Misplaced(st, r, b)
  <2>1. ReplayStep(st, f, off, good, b) = [st EXCEPT !.failed = TRUE]
    BY <1>4 DEF ReplayStep
  <2> QED
    BY <2>1, <1>1 DEF LoopStates, T
<1>5. CASE ~(st.failed \/ off >= good \/ r.kind # "entry") /\ ~Misplaced(st, r, b)
  <2> DEFINE u == SubSeq(st.table, 1, k)
             t == Append(u, slot)
  <2>1. ReplayStep(st, f, off, good, b) = [st EXCEPT !.n = k + 1, !.table = t]
    BY <1>5 DEF ReplayStep, Place
  <2>2. k \in Nat /\ k <= Len(st.table)
    <3>1. r \in R /\ r.index \in Nat
      BY <1>5 DEF Indexed
    <3> QED
      BY <3>1, <1>1, <1>5 DEF Misplaced
  <2> HIDE DEF k, slot, S
  <2>3. u \in Seq(S) /\ Len(u) = k
    BY <2>2, <1>1
  <2> HIDE DEF u
  <2>4. t \in Seq(S) /\ Len(t) = k + 1
    BY <2>3, <1>2
  <2> HIDE DEF t
  <2>5. k + 1 \in Nat
    BY <2>2
  <2>6. st \in [failed : BOOLEAN, n : Nat, table : Seq(S)]
    BY DEF LoopStates, S, T
  <2> DEFINE e == [st EXCEPT !.n = k + 1, !.table = t]
  <2>7. e \in [failed : BOOLEAN, n : Nat, table : Seq(S)] /\ e.n = k + 1 /\ e.table = t
    BY <2>4, <2>5, <2>6, Placed
  <2> HIDE DEF e
  <2> QED
    BY <2>1, <2>4, <2>7 DEF LoopStates, S, T, e
<1> QED
  BY <1>3, <1>4, <1>5

\* v is the states the loop goes through.
LoopRun(v, f, good, b) ==
  /\ Replayed(f, good, b) = v[Len(f)]
  /\ v[0] = Start
  /\ \A i \in 1..Len(f) : v[i] = ReplayStep(v[i - 1], f, i, good, b)

LEMMA LoopRuns ==
  ASSUME NEW R, Indexed(R), NEW f \in Seq(R), NEW good, NEW b, b.index \in Nat
  PROVE  \E v \in [0..Len(f) -> LoopStates(TermsIn(f))] : LoopRun(v, f, good, b)
<1> DEFINE n == Len(f)
           X == LoopStates(TermsIn(f))
           step == [x \in (1..n) \X X |-> ReplayStep(x[2], f, x[1], good, b)]
           Runs(v) == v = [off \in 0..n |->
                             IF off = 0 THEN Start ELSE ReplayStep(v[off - 1], f, off, good, b)]
           v == CHOOSE u : Runs(u)
<1>1. n \in Nat
  OBVIOUS
<1>2. ASSUME NEW i \in 1..n, NEW st \in X PROVE ReplayStep(st, f, i, good, b) \in X
  BY LoopTypes
<1>3. Start \in X
  BY DEF Start, LoopStates
<1>4. Replayed(f, good, b) = v[n]
  BY DEF Replayed
<1> HIDE DEF X, n
<1>5. /\ step \in [(1..n) \X X -> X]
      /\ \A i \in 1..n, st \in X : step[<<i, st>>] = ReplayStep(st, f, i, good, b)
  BY <1>2
<1> HIDE DEF step
<1>6. PICK u \in [0..n -> X] : Recurses(u, Start, n, step)
  BY <1>1, <1>3, <1>5, Recursion
<1>7. ASSUME NEW i \in 0..n
      PROVE  u[i] = IF i = 0 THEN Start ELSE ReplayStep(u[i - 1], f, i, good, b)
  <2>1. CASE i = 0
    BY <2>1, <1>6 DEF Recurses
  <2>2. CASE i # 0
    <3>1. i \in 1..n /\ i - 1 \in 0..n
      BY <2>2, <1>1
    <3>2. u[i - 1] \in X
      BY <3>1, <1>6
    <3>3. u[i] = step[<<i, u[i - 1]>>]
      BY <2>2, <1>6 DEF Recurses
    <3> QED
      BY <3>1, <3>2, <3>3, <2>2, <1>5
  <2> QED
    BY <2>1, <2>2
<1>8. u = [i \in 0..n |-> u[i]]
  BY <1>6 DEF Recurses
<1>9. Runs(u)
  BY <1>7, <1>8
<1>10. Runs(v)
  <2> HIDE DEF Runs
  <2> QED
    BY <1>9, Zenon
<1> HIDE DEF v
<1>11. /\ DOMAIN v = 0..n
       /\ \A i \in 0..n : v[i] = IF i = 0 THEN Start ELSE ReplayStep(v[i - 1], f, i, good, b)
  BY <1>10
<1> HIDE DEF Runs
<1>12. v[0] = Start /\ \A i \in 1..n : v[i] = ReplayStep(v[i - 1], f, i, good, b)
  BY <1>1, <1>11
<1> DEFINE S == {i \in 0..n : v[i] \in X}
<1>13. 0 \in S
  BY <1>1, <1>3, <1>12
<1>14. ASSUME NEW i \in 0..n, i < n, i \in S PROVE i + 1 \in S
  <2>1. i + 1 \in 1..n /\ i + 1 \in 0..n /\ (i + 1) - 1 = i
    BY <1>14, <1>1
  <2>2. v[i + 1] = ReplayStep(v[i], f, i + 1, good, b)
    BY <2>1, <1>12
  <2>3. v[i] \in X
    BY <1>14
  <2> QED
    BY <2>1, <2>2, <2>3, <1>2
<1>15. \A i \in 0..n : i \in S
  <2> HIDE DEF S
  <2> QED
    BY <1>1, <1>13, <1>14, UpTo
<1>16. v = [i \in 0..n |-> v[i]]
  <2>1. v = [i \in 0..n |-> IF i = 0 THEN Start ELSE ReplayStep(v[i - 1], f, i, good, b)]
    BY <1>10 DEF Runs
  <2> QED
    BY <2>1, <1>11
<1>17. v \in [0..n -> X]
  BY <1>15, <1>16
<1> QED
  BY <1>4, <1>12, <1>17 DEF X, n, LoopRun

\* The loop has built the table of the records it has replayed, and stops at the last
\* good commit: good is the first record after it.
LEMMA LoopBuilds ==
  ASSUME NEW R, Indexed(R), NEW f \in Seq(R), NEW good \in {Len(f), Len(f) + 1},
         NEW b, b.index \in Nat
  PROVE  LET end  == Replayed(f, good, b)
             part == SubSeq(f, 1, good - 1)
         IN  IF end.failed THEN ~Replays(part, b)
             ELSE Replays(part, b) /\ end.table = ReplayTable(part, b)
<1> DEFINE n == Len(f)
           T == TermsIn(f)
<1>1. n \in Nat
  OBVIOUS
<1>2. PICK v \in [0..n -> LoopStates(T)] : LoopRun(v, f, good, b)
  BY LoopRuns
<1>3. /\ Replayed(f, good, b) = v[n]
      /\ v[0] = Start
      /\ \A i \in 1..n : v[i] = ReplayStep(v[i - 1], f, i, good, b)
  BY <1>2 DEF LoopRun
<1>4. Built(Start, <<>>, b)
  <2>1. EntryPos(<<>>) = {}
    BY DEF EntryPos
  <2>2. RawLast(<<>>, b) = b.index
    BY <2>1 DEF RawLast
  <2>3. ReplayTable(<<>>, b) = <<>>
    <3>1. 1..(RawLast(<<>>, b) - b.index) = {}
      BY <2>2
    <3> QED
      BY <3>1 DEF ReplayTable
  <2>4. Replays(<<>>, b) /\ Filled(<<>>, b)
    BY <2>1, <2>2 DEF Replays, Filled
  <2> QED
    BY <2>2, <2>3, <2>4 DEF Built, Start
<1>5. CASE good = 0
  <2>1. n = 0 /\ SubSeq(f, 1, good - 1) = <<>>
    BY <1>5, <1>1
  <2> QED
    BY <2>1, <1>3, <1>4 DEF Built, Start
<1>6. CASE good # 0
  <2> DEFINE stop == good - 1
             S == {p \in 0..stop : Built(v[p], SubSeq(f, 1, p), b)}
  <2>1. stop \in Nat /\ stop <= n /\ stop + 1 = good /\ (stop = n \/ stop + 1 = n)
    BY <1>1, <1>6
  <2>2. 0 \in S
    <3>1. SubSeq(f, 1, 0) = <<>>
      OBVIOUS
    <3> QED
      BY <3>1, <2>1, <1>3, <1>4
  <2> HIDE DEF stop, n, T
  <2>3. ASSUME NEW p \in 0..stop, p < stop, p \in S PROVE p + 1 \in S
    <3> DEFINE h == SubSeq(f, 1, p)
               r == f[p + 1]
    <3>1. p \in Nat /\ p + 1 \in 0..stop /\ p + 1 \in 1..n /\ p \in 0..n /\ (p + 1) - 1 = p /\ ~(p + 1 >= good)
      BY <2>1, <2>3, <1>1
    <3>2. h \in Seq(R) /\ Len(h) = p /\ r \in R /\ SubSeq(f, 1, p + 1) = Append(h, r)
      BY <3>1, <1>1 DEF n
    <3>3. v[p] \in LoopStates(T) /\ v[p + 1] = ReplayStep(v[p], f, p + 1, good, b)
      BY <3>1, <1>2, <1>3
    <3>4. Built(v[p], h, b)
      BY <2>3
    <3> HIDE DEF h, r, S
    <3>5. Built(ReplayStep(v[p], f, p + 1, good, b), Append(h, r), b)
      BY <3>1, <3>2, <3>3, <3>4, LoopStep DEF r
    <3> QED
      BY <3>1, <3>2, <3>3, <3>5 DEF S
  <2>4. \A p \in 0..stop : p \in S
    <3> HIDE DEF S
    <3> QED
      BY <2>1, <2>2, <2>3, UpTo
  <2>5. Built(v[stop], SubSeq(f, 1, stop), b)
    BY <2>1, <2>4
  <2>6. v[n] = v[stop]
    <3>1. CASE stop = n
      BY <3>1
    <3>2. CASE stop + 1 = n
      <4>1. n \in 1..n /\ n - 1 = stop /\ n >= good
        BY <3>2, <2>1, <1>1
      <4>2. v[n] = ReplayStep(v[stop], f, n, good, b)
        BY <4>1, <1>3
      <4> QED
        BY <4>1, <4>2 DEF ReplayStep
    <3> QED
      BY <3>1, <3>2, <2>1
  <2>7. Replayed(f, good, b) = v[stop]
    BY <2>6, <1>3
  <2> QED
    BY <2>5, <2>7 DEF Built, stop
<1> QED
  BY <1>5, <1>6

\* elog_open (entrylog.c): whatever was rolled back and appended again, the loop fails
\* exactly on the files Replays rejects, and otherwise ends with one slot per index, each
\* holding the last record of its index. This is what lets the other invariants speak of
\* the table without the loop.
THEOREM LoopCorrect == Spec => []LoopComputesTable
<1>1. TypeOK => LoopComputesTable
  <2> SUFFICES ASSUME TypeOK, NEW f \in Files, NEW b \in Bases, NEW good \in {Len(f), Len(f) + 1}
               PROVE  LET end  == Replayed(f, good, b)
                          part == SubSeq(f, 1, good - 1)
                      IN  IF end.failed THEN ~Replays(part, b)
                          ELSE Replays(part, b) /\ end.table = ReplayTable(part, b)
    BY DEF LoopComputesTable
  <2>1. b.index \in Nat
    BY BasesAssumption, BoundsAssumption
  <2> DEFINE E == [kind : {"entry"}, index : Indexes, term : Terms]
             R == Records \cup E
  <2>2. Indexed(R)
    BY BoundsAssumption DEF Indexed, Records, EntryRecs, MetaRecs, Header, Indexes
  <2>3. f \in Seq(R)
    <3>1. CASE up
      BY <3>1 DEF Files
    <3>2. CASE ~up /\ file # <<>>
      <4>1. f = file
        BY <3>2 DEF Files
      <4> QED
        BY <4>1 DEF TypeOK
    <3>3. CASE ~up /\ file = <<>>
      <4>1. f \in BoundedSeq(E, MaxRecs - 3)
        BY <3>3 DEF Files
      <4> HIDE DEF E
      <4>2. PICK j \in 0..(MaxRecs - 3) : f \in [1..j -> E]
        BY <4>1 DEF BoundedSeq, SeqOf
      <4>3. j \in Nat
        BY <4>2
      <4>4. \A i \in 1..j : f[i] \in R
        BY <4>2
      <4> HIDE DEF R
      <4>5. f \in [1..j -> R]
        BY <4>2, <4>4
      <4> QED
        BY <4>3, <4>5
    <3> QED
      BY <3>1, <3>2, <3>3
  <2> HIDE DEF R
  <2> QED
    BY <2>1, <2>2, <2>3, LoopBuilds
<1> QED
  BY <1>1, TypeCorrect, PTL

-----------------------------------------------------------------------------
(* Opening a log: the table a replay builds.                               *)

\* The slots below n of a log that elog_open accepts.
LEMMA RecoveredSlots ==
  ASSUME NEW f \in Seq(Records), Openable(f), WholeLog(f)
  PROVE  LET b == LastBase(f)
             n == RecoveredMeta(f).n
         IN
         /\ n \in Nat /\ n <= Len(RecoveredEnts(f))
         /\ \A j \in 1..n :
              /\ SlotPos(f, b.index + j) \in EntryPos(f)
              /\ f[SlotPos(f, b.index + j)].index = b.index + j
              /\ \A p \in EntryPos(f) : f[p].index = b.index + j => p <= SlotPos(f, b.index + j)
              /\ RecoveredEnts(f)[j].off = SlotPos(f, b.index + j)
              /\ RecoveredEnts(f)[j].term = f[SlotPos(f, b.index + j)].term
<1> DEFINE b == LastBase(f)
           n == RecoveredMeta(f).n
           k == RawLast(f, b) - b.index
<1>1. /\ b \in BaseRecs /\ f[Len(f)] \in MetaRecs /\ WellFormed(f, b) /\ Len(f) \in Nat
      /\ n = f[Len(f)].last - b.index /\ b.index <= f[Len(f)].last
      /\ f[Len(f)].last <= RawLast(f, b)
  BY Recovered DEF WholeLog, Openable, RecoveredMeta, LastBase
<1>2. /\ b.index \in Nat /\ f[Len(f)].last \in Nat
  BY <1>1 DEF BaseRecs, MetaRecs, Indexes
<1>3. /\ RawLast(f, b) \in Nat
      /\ \A i \in (b.index + 1)..RawLast(f, b) :
           SlotPos(f, i) \in EntryPos(f) /\ f[SlotPos(f, i)].index = i
  BY <1>1, ReplayFindsSlots DEF Indexes
<1>4. RecoveredEnts(f) = [j \in 1..k |-> [off  |-> SlotPos(f, b.index + j),
                                          term |-> f[SlotPos(f, b.index + j)].term]]
  BY DEF RecoveredEnts, ReplayTable, LastBase
<1>5. n \in Nat /\ k \in Nat /\ n <= k
  BY <1>1, <1>2, <1>3
<1>6. Len(RecoveredEnts(f)) = k
  BY <1>4, <1>5
<1>7. ASSUME NEW j \in 1..n
      PROVE  /\ SlotPos(f, b.index + j) \in EntryPos(f)
             /\ f[SlotPos(f, b.index + j)].index = b.index + j
             /\ \A p \in EntryPos(f) : f[p].index = b.index + j => p <= SlotPos(f, b.index + j)
             /\ RecoveredEnts(f)[j].off = SlotPos(f, b.index + j)
             /\ RecoveredEnts(f)[j].term = f[SlotPos(f, b.index + j)].term
  <2> DEFINE i == b.index + j
             S == {p \in EntryPos(f) : f[p].index = i}
  <2>1. i \in (b.index + 1)..RawLast(f, b) /\ j \in 1..k
    BY <1>2, <1>3, <1>5
  <2>2. SlotPos(f, i) \in S
    BY <2>1, <1>3
  <2>3. S \in SUBSET (1..Len(f))
    BY DEF EntryPos
  <2>4. \A p \in S : p <= SlotPos(f, i)
    <3>1. SlotPos(f, i) = MaxOf(S)
      BY DEF SlotPos
    <3> HIDE DEF S
    <3> QED
      BY <3>1, <2>2, <2>3, <1>1, MaxOfPositions
  <2> QED
    BY <2>1, <2>2, <2>4, <1>4
<1> QED
  BY <1>5, <1>6, <1>7

\* So they are current, and the recovered bounds agree with them.
LEMMA RecoveredCurrent ==
  ASSUME NEW f \in Seq(Records), Openable(f), WholeLog(f)
  PROVE  /\ Current(RecoveredEnts(f), RecoveredMeta(f).n, LastBase(f), f)
         /\ Bounds(RecoveredMeta(f), RecoveredEnts(f), LastBase(f))
<1> DEFINE b  == LastBase(f)
           md == f[Len(f)]
           n  == RecoveredMeta(f).n
           T  == RecoveredEnts(f)
<1>1. /\ n \in Nat
      /\ \A j \in 1..n :
           /\ SlotPos(f, b.index + j) \in EntryPos(f)
           /\ \A p \in EntryPos(f) : f[p].index = b.index + j => p <= SlotPos(f, b.index + j)
           /\ T[j].off = SlotPos(f, b.index + j)
           /\ T[j].term = f[SlotPos(f, b.index + j)].term
  BY RecoveredSlots
<1>2. \A p \in EntryPos(f) : p \in Nat
  BY DEF EntryPos
<1>3. Current(T, n, b, f)
  <2> HIDE DEF T, n, b
  <2> QED
    BY <1>1, <1>2 DEF Current
<1>4. /\ b \in BaseRecs /\ md \in MetaRecs /\ n = md.last - b.index
      /\ md.base = b
  BY Recovered DEF RecoveredMeta, LastBase
<1>5. b.index \in Nat /\ md.last \in Nat
  BY <1>4 DEF BaseRecs, MetaRecs, Indexes
<1>6. md.lastTerm = IF n = 0 THEN b.term ELSE T[n].term
  <2>1. md.lastTerm = IF md.last = b.index THEN b.term ELSE f[SlotPos(f, md.last)].term
    BY <1>4 DEF Openable
  <2>2. CASE n = 0
    <3>1. md.last = b.index
      BY <2>2, <1>4, <1>5
    <3> QED
      BY <2>1, <2>2, <3>1
  <2>3. CASE n # 0
    <3>1. md.last # b.index /\ n \in 1..n /\ md.last = b.index + n
      BY <2>3, <1>1, <1>4, <1>5
    <3>2. T[n].term = f[SlotPos(f, md.last)].term
      <4> HIDE DEF T, n, b
      <4> QED
        BY <3>1, <1>1
    <3> QED
      BY <2>1, <2>3, <3>1, <3>2
  <2> QED
    BY <2>2, <2>3
<1>7. Bounds(RecoveredMeta(f), T, b)
  <2>1. /\ RecoveredMeta(f).lastTerm = md.lastTerm /\ RecoveredMeta(f).term = md.term
        /\ RecoveredMeta(f).commit = md.commit /\ RecoveredMeta(f).last = md.last
    BY DEF RecoveredMeta
  <2>2. md.term >= md.lastTerm /\ md.commit <= md.last
    BY DEF Openable
  <2> HIDE DEF T, n, b
  <2> QED
    BY <1>6, <2>1, <2>2 DEF Bounds, n
<1> QED
  BY <1>3, <1>7

\* A handle opened on a sound log is ready to recover again.
LEMMA LoadRecovery ==
  ASSUME TableInv, NEW f \in Seq(Records), Sound(f), WholeLog(f),
         LoadFrom(f), file' = f, pend' = <<>>
  PROVE  OpenRecovery'
<1>1. base' = LastBase(f) /\ m' = RecoveredMeta(f) /\ cm' = RecoveredMeta(f)
      /\ ents' = RecoveredEnts(f)
  BY DEF LoadFrom, LastBase
<1>2. Image' = f
  BY DEF Image
<1>3. /\ Replays(f, LastBase(f)) /\ RawLast(f, LastBase(f)) >= RecoveredMeta(f).last
  BY DEF Sound, Openable, LastBase, RecoveredMeta
<1>4. /\ Current(RecoveredEnts(f), RecoveredMeta(f).n, LastBase(f), f)
      /\ Bounds(RecoveredMeta(f), RecoveredEnts(f), LastBase(f))
      /\ Rising(RecoveredEnts(f), RecoveredMeta(f).n, LastBase(f))
  BY RecoveredCurrent DEF Sound
<1> QED
  BY <1>1, <1>2, <1>3, <1>4 DEF OpenRecovery

-----------------------------------------------------------------------------
(* Committing: what a reopen will read.                                    *)

\* A reopen of the next commit of state s comes back to s and to its slots.
LEMMA CommitRecovers ==
  ASSUME TableInv, RecoveryInv, up, NEW s \in MetaState,
         base.index <= s.last, s.n = s.last - base.index, s.n \in 0..m.n,
         Bounds(s, ents, base)
  PROVE  LET g == Append(Image, Metadata(base, s)) IN
         /\ g \in Seq(Records) /\ WholeLog(g) /\ LastBase(g) = base
         /\ Sound(g)
         /\ RecoveredMeta(g) = s
         /\ \A j \in 1..s.n : /\ RecoveredEnts(g)[j].off = ents[j].off
                              /\ RecoveredEnts(g)[j].term = ents[j].term
                              /\ ents[j].off \in 1..Len(Image)
<1> DEFINE md == Metadata(base, s)
           g  == Append(Image, md)
<1>1. TypeOK /\ OpenState /\ OpenRecovery
  BY DEF TableInv, RecoveryInv
<1>2. Image \in Seq(Records) /\ base \in BaseRecs /\ WellFormed(Image, base)
  BY <1>1, ImageFacts DEF TypeOK, OpenState
<1>3. /\ md \in Records /\ md.kind = "meta" /\ md.base = base /\ md.last = s.last
      /\ md.lastTerm = s.lastTerm /\ md.term = s.term /\ md.vote = s.vote
      /\ md.commit = s.commit
  BY <1>2 DEF Metadata, MetaRecs, Records, MetaState
<1>4. /\ g \in Seq(Records) /\ Len(g) = Len(Image) + 1 /\ Len(Image) \in Nat
      /\ g[Len(g)] = md /\ WellFormed(g, base) /\ g # <<>>
  BY <1>2, WellFormedMeta
<1>5. /\ EntryPos(g) = EntryPos(Image)
      /\ \A p \in EntryPos(Image) : g[p] = Image[p]
      /\ RawLast(g, base) = RawLast(Image, base)
      /\ Replays(g, base)
  BY <1>1, <1>2, <1>3, ReplayMeta DEF OpenRecovery
<1> HIDE DEF md, g
<1>6. LastBase(g) = base /\ WholeLog(g)
  BY <1>3, <1>4 DEF LastBase, WholeLog
<1>7. /\ s.last \in Nat /\ base.index \in Nat /\ m.n \in Nat /\ m.last \in Nat /\ s.n \in Nat
      /\ m.n = m.last - base.index /\ s.last <= m.last
  BY <1>1 DEF TypeOK, MetaState, BaseRecs, Indexes, OpenState
<1>8. ASSUME NEW j \in 1..s.n
      PROVE  /\ SlotPos(g, base.index + j) = ents[j].off
             /\ g[ents[j].off].term = ents[j].term
             /\ ents[j].off \in 1..Len(Image)
  <2>1. j \in 1..m.n
    BY <1>7
  <2>2. /\ ents[j].off \in EntryPos(Image)
        /\ Image[ents[j].off].index = base.index + j
        /\ ents[j].term = Image[ents[j].off].term
        /\ \A p \in EntryPos(Image) : p > ents[j].off => Image[p].index # base.index + j
    BY <2>1, <1>1 DEF OpenState, Slots, OpenRecovery, Current
  <2>3. SlotPos(g, base.index + j) = ents[j].off
    <3> DEFINE i == base.index + j
               q == ents[j].off
    <3>1. /\ g \in Seq(Records) /\ q \in EntryPos(g) /\ g[q].index = i
          /\ \A p \in EntryPos(g) : p > q => g[p].index # i
      BY <2>2, <1>4, <1>5
    <3> HIDE DEF g, i, q
    <3>2. SlotPos(g, i) = q
      BY <3>1, SlotPosIs
    <3> QED
      BY <3>2 DEF i, q
  <2> QED
    BY <2>2, <2>3, <1>5 DEF EntryPos
<1>9. Rising(ents, s.n, base)
  <2>1. \A j \in 1..s.n : j \in 1..m.n
    BY <1>7
  <2> QED
    BY <2>1, <1>1 DEF OpenRecovery, Rising
<1>10. s.lastTerm >= base.term
  <2>1. CASE s.n = 0
    BY <2>1, <1>1 DEF Bounds, TypeOK, BaseRecs, Terms
  <2>2. CASE s.n # 0
    <3>1. s.n \in 1..s.n
      BY <2>2, <1>7
    <3> QED
      BY <2>2, <3>1, <1>9 DEF Rising, Bounds
  <2> QED
    BY <2>1, <2>2
<1>11. s.lastTerm = IF s.last = base.index THEN base.term ELSE g[SlotPos(g, s.last)].term
  <2>1. CASE s.n = 0
    BY <2>1, <1>7 DEF Bounds
  <2>2. CASE s.n # 0
    <3>1. s.n \in 1..s.n /\ base.index + s.n = s.last /\ s.last # base.index
      BY <2>2, <1>7
    <3>2. SlotPos(g, s.last) = ents[s.n].off /\ g[ents[s.n].off].term = ents[s.n].term
      BY <3>1, <1>8
    <3> QED
      BY <2>2, <3>1, <3>2 DEF Bounds
  <2> QED
    BY <2>1, <2>2
<1>12. Openable(g)
  <2>1. RawLast(g, base) >= s.last
    <3>1. RawLast(Image, base) \in Nat
      BY <1>2, ReplayFindsSlots DEF Indexes
    <3> QED
      BY <3>1, <1>1, <1>5, <1>7 DEF OpenRecovery
  <2>2. CF!IsMeta(g[Len(g)])
    BY <1>3, <1>4 DEF CF!IsMeta
  <2>3. s.term >= s.lastTerm /\ s.commit <= s.last /\ s.last >= base.index
    BY <1>7 DEF Bounds
  <2> QED
    BY <2>1, <2>2, <2>3, <1>3, <1>4, <1>5, <1>10, <1>11 DEF Openable
<1>13. RecoveredMeta(g) = s
  <2>1. RecoveredMeta(g) = [last |-> s.last, lastTerm |-> s.lastTerm, term |-> s.term,
                            vote |-> s.vote, commit |-> s.commit, n |-> s.n]
    BY <1>3, <1>4 DEF RecoveredMeta
  <2> QED
    BY <2>1 DEF MetaState
<1>14. ASSUME NEW j \in 1..s.n
       PROVE  /\ RecoveredEnts(g)[j].off = ents[j].off
              /\ RecoveredEnts(g)[j].term = ents[j].term
  BY <1>4, <1>6, <1>8, <1>12, <1>13, RecoveredSlots
<1>15. Rising(RecoveredEnts(g), s.n, base)
  <2>1. \A j \in 1..s.n : \A i \in 1..j : i \in 1..s.n
    BY <1>7
  <2> QED
    BY <2>1, <1>9, <1>14 DEF Rising
<1>16. Sound(g)
  BY <1>6, <1>12, <1>13, <1>15 DEF Sound
<1> QED
  BY <1>4, <1>6, <1>8, <1>13, <1>14, <1>16 DEF g, md

\* Live slots stay current in a sequence of the same entry records, or in a prefix
\* that has their own.
LEMMA CurrentIn ==
  ASSUME NEW f, NEW h, NEW tbl, NEW b, NEW n \in Nat, Current(tbl, n, b, f),
         NEW k \in 0..n, Slots(tbl, k, b, h),
         \A p \in EntryPos(h) : p \in EntryPos(f) /\ h[p] = f[p]
  PROVE  Current(tbl, k, b, h)
  BY DEF Current, Slots

\* Commits keep every state recoverable, whatever the host answers.
LEMMA CommitRecovery ==
  ASSUME TableInv, RecoveryInv, up, dst = NoDst,
         NEW s \in MetaState, CommitState(s),
         base.index <= s.last, s.n = s.last - base.index, s.n \in 0..m.n,
         Bounds(s, ents, base),
         UNCHANGED <<up, base, ents, dst>>
  PROVE  RecoveryInv'
<1> DEFINE g == Append(Image, Metadata(base, s))
<1>1. TypeOK /\ OpenState /\ OpenRecovery
  BY DEF TableInv, RecoveryInv
<1>2. /\ Image \in Seq(Records) /\ base \in BaseRecs /\ file \in Seq(Records)
      /\ Len(Image) = Len(file) + Len(pend) /\ Len(file) \in Nat /\ Len(pend) \in Nat
      /\ \A p \in 1..Len(file) : Image[p] = file[p]
  BY <1>1, ImageFacts DEF TypeOK
<1>3. Sound(g) /\ g \in Seq(Records)
  BY CommitRecovers
<1>4. Metadata(base, s) \in Records /\ Metadata(base, s).kind = "meta"
  BY <1>2 DEF Metadata, MetaRecs, Records, MetaState
<1>5. /\ EntryPos(g) = EntryPos(Image)
      /\ \A p \in EntryPos(Image) : g[p] = Image[p]
      /\ RawLast(g, base) = RawLast(Image, base)
      /\ Replays(g, base)
  <2> HIDE DEF g
  <2> QED
    BY <1>1, <1>2, <1>4, ReplayMeta DEF OpenRecovery, g
<1>6. /\ m.n \in Nat /\ cm.n \in 0..m.n /\ cm.last <= m.last /\ s.last <= m.last
      /\ m.last \in Nat /\ cm.last \in Nat /\ s.last \in Nat
  BY <1>1, SMTT(40) DEF TypeOK, MetaState, BaseRecs, Indexes, OpenState
<1>7. RawLast(Image, base) >= s.last /\ RawLast(Image, base) >= cm.last
  <2>1. RawLast(Image, base) \in Nat
    BY <1>1, <1>2, ReplayFindsSlots DEF Indexes, OpenState
  <2> QED
    BY <2>1, <1>1, <1>6 DEF OpenRecovery
<1>8. Slots(ents, s.n, base, g) /\ Slots(ents, cm.n, base, g)
  <2>1. Slots(ents, m.n, base, Image) /\ m.n <= Len(ents) /\ Len(ents) \in Nat
    BY <1>1 DEF OpenState, Slots, TypeOK
  <2>2. \A j \in 1..s.n : j \in 1..m.n
    BY <1>6
  <2>3. \A j \in 1..cm.n : j \in 1..m.n
    BY <1>6
  <2>4. s.n <= Len(ents) /\ cm.n <= Len(ents)
    BY <2>1, <1>6
  <2> QED
    BY <2>1, <2>2, <2>3, <2>4, <1>5 DEF Slots
<1>9. Current(ents, s.n, base, g) /\ Current(ents, cm.n, base, g)
  BY <1>1, <1>5, <1>6, <1>8, CurrentIn DEF OpenRecovery
<1>10. Rising(ents, s.n, base) /\ Rising(ents, cm.n, base)
  <2>1. /\ \A j \in 1..s.n : j \in 1..m.n
        /\ \A j \in 1..cm.n : j \in 1..m.n
    BY <1>6
  <2> QED
    BY <2>1, <1>1 DEF OpenRecovery, Rising
<1>11. ASSUME NEW k \in CF!CrashPoints(g, safe), k > 0 PROVE Sound(SubSeq(g, 1, k))
  <2>1. k \in CF!CommitEnds(g) /\ k >= safe
    BY <1>11 DEF CF!CrashPoints
  <2>2. k = Len(g) \/ k \in CF!CommitEnds(file) \/ k = 0
    BY <2>1, <1>1, CommitEndsOfAppend
  <2>3. CASE k = Len(g)
    <3>1. SubSeq(g, 1, k) = g
      <4> HIDE DEF g
      <4> QED
        BY <2>3, <1>3
    <3> QED
      BY <3>1, <1>3
  <2>4. CASE k \in CF!CommitEnds(file)
    <3>1. k \in CF!CrashPoints(file, safe)
      BY <2>1, <2>4 DEF CF!CrashPoints
    <3>2. k \in 0..Len(file)
      BY <2>4, <1>2 DEF CF!CommitEnds
    <3>3. SubSeq(g, 1, k) = SubSeq(file, 1, k)
      BY <3>2, <1>2
    <3> QED
      BY <3>1, <3>3, <1>11 DEF RecoveryInv
  <2> QED
    BY <2>2, <2>3, <2>4, <1>11
<1>12. CASE CommitOk(s)
  <2>1. file' = g /\ pend' = <<>> /\ m' = s /\ cm' = s /\ safe' = Len(g)
    BY <1>12 DEF CommitOk
  <2>2. safe <= Len(g) /\ Len(g) \in Nat
    BY <1>1, <1>2 DEF TypeOK
  <2> HIDE DEF g
  <2>3. Image' = g
    BY <2>1, <1>3 DEF Image
  <2>4. OpenRecovery'
    BY <2>1, <2>3, <1>5, <1>7, <1>9, <1>10 DEF OpenRecovery
  <2>5. CF!CrashPoints(g, safe') \subseteq CF!CrashPoints(g, safe)
    BY <2>1, <2>2, <1>1 DEF CF!CrashPoints, CF!CommitEnds, TypeOK
  <2> QED
    BY <2>1, <2>4, <2>5, <1>11 DEF RecoveryInv
<1>13. CASE CommitFails(s)
  <2>1. pend' = <<>> /\ m' = cm /\ cm' = cm /\ safe' = safe /\ file' \in {file, g}
    BY <1>13 DEF CommitFails, Discard
  <2>2. Image' = file'
    <3> HIDE DEF g
    <3> QED
      BY <2>1, <1>2, <1>3 DEF Image
  <2>3. CASE file' = file
    <3>1. Slots(ents, cm.n, base, file)
      BY <1>1 DEF OpenState
    <3>2. \A p \in EntryPos(file) : p \in EntryPos(Image) /\ file[p] = Image[p]
      BY <1>2 DEF EntryPos
    <3>3. Current(ents, cm.n, base, file)
      BY <3>1, <3>2, <1>1, <1>6, CurrentIn DEF OpenRecovery
    <3>4. file = SubSeq(Image, 1, Len(file))
      BY <1>2
    <3>5. Replays(file, base)
      <4>1. Len(file) \in 0..Len(Image)
        BY <1>2
      <4>2. Replays(SubSeq(Image, 1, Len(file)), base)
        BY <4>1, <1>1, <1>2, ReplaysPrefix DEF OpenRecovery
      <4> QED
        BY <3>4, <4>2
    <3>6. OpenRecovery'
      BY <2>1, <2>2, <2>3, <3>3, <3>5, <1>1, <1>10 DEF OpenRecovery
    <3> QED
      BY <2>1, <2>3, <3>6 DEF RecoveryInv
  <2>4. CASE file' = g
    <3> HIDE DEF g
    <3>1. OpenRecovery'
      BY <2>1, <2>2, <2>4, <1>1, <1>5, <1>7, <1>9, <1>10 DEF OpenRecovery
    <3> QED
      BY <2>1, <2>4, <3>1, <1>11 DEF RecoveryInv
  <2> QED
    BY <2>1, <2>3, <2>4
<1> QED
  BY <1>12, <1>13 DEF CommitState

-----------------------------------------------------------------------------
(* RecoveryInv, action by action.                                          *)

\* What elog_create_at leaves in the file and in the handle.
LEMMA CreatedFile ==
  ASSUME TableInv, NEW b \in Bases, Create(b)
  PROVE  /\ file' \in Seq(Records) /\ Len(file') = 2 /\ safe' = 0 /\ pend' = <<>>
         /\ EntryPos(file') = {} /\ file'[1].kind = "header"
         /\ file'[2] = Metadata(b, FreshMeta(b))
         /\ b \in BaseRecs /\ b.index \in Nat /\ b.term \in Nat
<1>1. safe = 0 /\ pend = <<>> /\ UNCHANGED <<safe, pend>>
  BY DEF TableInv, TypeOK, ClosedState, Create
<1>2. b \in BaseRecs /\ b.index \in Indexes /\ b.term \in Terms
  BY BasesAssumption DEF BaseRecs, Indexes, Terms
<1>3. FreshMeta(b) \in MetaState
  BY <1>2, BoundsAssumption DEF FreshMeta, MetaState, Indexes
<1> DEFINE md == Metadata(b, FreshMeta(b))
<1>4. md \in Records /\ md.kind = "meta"
  BY <1>2, <1>3 DEF Metadata, MetaRecs, Records, MetaState
<1>5. file' = <<Header, md>>
  BY DEF Create
<1>6. Header \in Records /\ Header.kind = "header"
  BY DEF Records, Header
<1> HIDE DEF md
<1>7. file' \in Seq(Records) /\ Len(file') = 2 /\ file'[1] = Header /\ file'[2] = md
  BY <1>4, <1>5, <1>6
<1>8. EntryPos(file') = {}
  BY <1>4, <1>6, <1>7 DEF EntryPos
<1> QED
  BY <1>1, <1>2, <1>6, <1>7, <1>8 DEF md, Indexes, Terms

\* A new log is sound.
LEMMA CreateRecovery ==
  ASSUME TableInv, NEW b \in Bases, Create(b)
  PROVE  RecoveryInv'
<1> DEFINE s  == FreshMeta(b)
           md == Metadata(b, s)
<1>1. /\ file' \in Seq(Records) /\ Len(file') = 2 /\ safe' = 0 /\ pend' = <<>>
      /\ EntryPos(file') = {} /\ file'[1].kind = "header" /\ file'[2] = md
      /\ b \in BaseRecs /\ b.index \in Nat /\ b.term \in Nat
  BY CreatedFile
<1>2. /\ base' = b /\ m' = s /\ cm' = s /\ ents' = <<>> /\ dst' = NoDst
  BY DEF Create, TableInv, ClosedState
<1>3. /\ s.last = b.index /\ s.lastTerm = b.term /\ s.term = b.term
      /\ s.commit = b.index /\ s.n = 0
  BY DEF FreshMeta
<1>4. /\ md.kind = "meta" /\ md.base = b /\ md.last = b.index /\ md.lastTerm = b.term
      /\ md.term = b.term /\ md.commit = b.index
  BY <1>3 DEF Metadata
<1> HIDE DEF s, md
<1>5. RawLast(file', b) = b.index /\ Replays(file', b)
  BY <1>1 DEF RawLast, Replays
<1>6. /\ file'[Len(file')] = md /\ LastBase(file') = b /\ file' # <<>>
  <2>1. file'[Len(file')] = md
    BY <1>1
  <2>2. file' # <<>>
    <3>1. Len(file') = 2
      BY <1>1
    <3> QED
      BY <3>1
  <2> QED
    BY <2>1, <2>2, <1>4 DEF LastBase
<1>7. Openable(file')
  BY <1>1, <1>4, <1>5, <1>6 DEF Openable, CF!IsMeta
<1>8. RecoveredMeta(file').n = 0
  BY <1>1, <1>4, <1>6 DEF RecoveredMeta
<1>9. Sound(file')
  BY <1>7, <1>8 DEF Sound, Rising
<1>10. ASSUME NEW k \in CF!CrashPoints(file', safe'), k > 0 PROVE Sound(SubSeq(file', 1, k))
  <2>1. k \in 1..2 /\ file'[k].kind = "meta"
    BY <1>1, <1>10 DEF CF!CrashPoints, CF!CommitEnds, CF!IsMeta
  <2>2. k = 2
    BY <2>1, <1>1
  <2>3. SubSeq(file', 1, 2) = file'
    BY <1>1
  <2> QED
    BY <2>2, <2>3, <1>9
<1>11. Image' = file'
  BY <1>1 DEF Image
<1>12. OpenRecovery'
  BY <1>1, <1>2, <1>3, <1>5, <1>11 DEF OpenRecovery, Current, Rising, Bounds
<1> QED
  BY <1>2, <1>10, <1>12 DEF RecoveryInv

\* What a crash keeps, a later crash may keep.
LEMMA CrashRecovery ==
  ASSUME TableInv, RecoveryInv, Crash
  PROVE  RecoveryInv'
<1>1. file \in Seq(Records) /\ safe \in Nat
  BY DEF TableInv, TypeOK
<1>2. PICK k \in CF!CrashPoints(file, safe) : file' = SubSeq(file, 1, k)
  BY DEF Crash
<1>3. k \in 0..Len(file)
  BY <1>1, <1>2 DEF CF!CrashPoints, CF!CommitEnds
<1>4. Len(file') = k /\ \A p \in 1..k : file'[p] = file[p]
  BY <1>1, <1>2, <1>3
<1>5. ASSUME NEW p \in CF!CrashPoints(file', safe), p > 0
      PROVE  Sound(SubSeq(file', 1, p))
  <2>1. p \in 1..k /\ file'[p].kind = "meta" /\ p >= safe
    BY <1>3, <1>4, <1>5 DEF CF!CrashPoints, CF!CommitEnds, CF!IsMeta
  <2>2. p \in CF!CrashPoints(file, safe)
    BY <2>1, <1>1, <1>3, <1>4 DEF CF!CrashPoints, CF!CommitEnds, CF!IsMeta
  <2>3. SubSeq(file', 1, p) = SubSeq(file, 1, p)
    BY <2>1, <1>1, <1>2, <1>3
  <2> QED
    BY <2>2, <2>3, <1>5 DEF RecoveryInv
<1>6. up' = FALSE /\ dst' = NoDst /\ safe' = safe
  BY DEF Crash
<1> QED
  BY <1>5, <1>6 DEF RecoveryInv

\* The whole file is one of the states a crash may leave.
LEMMA WholeFileSound ==
  ASSUME TableInv, RecoveryInv, file # <<>>
  PROVE  Sound(file) /\ WholeLog(file) /\ Len(file) \in CF!CrashPoints(file, safe)
<1>1. file \in Seq(Records) /\ safe \in 0..Len(file) /\ Len(file) > 0
  BY DEF TableInv, TypeOK
<1>2. WholeLog(file)
  BY DEF TableInv
<1>3. Len(file) \in CF!CrashPoints(file, safe)
  BY <1>1, <1>2 DEF WholeLog, CF!CrashPoints, CF!CommitEnds, CF!IsMeta
<1>4. SubSeq(file, 1, Len(file)) = file
  BY <1>1
<1> QED
  BY <1>1, <1>2, <1>3, <1>4 DEF RecoveryInv

\* elog_open.
LEMMA OpenRecovered ==
  ASSUME TableInv, RecoveryInv, Open
  PROVE  RecoveryInv'
<1>1. Sound(file) /\ WholeLog(file) /\ file \in Seq(Records)
  BY WholeFileSound DEF Open, Openable, TableInv, TypeOK
<1>2. UNCHANGED <<file, safe, dst>> /\ pend' = <<>> /\ LoadFrom(file)
  BY DEF Open, TableInv, ClosedState
<1>3. OpenRecovery'
  BY <1>1, <1>2, LoadRecovery
<1> QED
  BY <1>2, <1>3 DEF RecoveryInv

\* elog_open on the compacted copy, which the host has flushed.
LEMMA AdoptRecovery ==
  ASSUME TableInv, RecoveryInv, AdoptCompacted
  PROVE  RecoveryInv'
<1>1. /\ Sound(dst) /\ WholeLog(dst) /\ dst \in Seq(Records) /\ pend = <<>>
  BY DEF AdoptCompacted, TableInv, RecoveryInv, TypeOK
<1>2. /\ file' = dst /\ safe' = Len(dst) /\ dst' = NoDst /\ pend' = <<>> /\ LoadFrom(dst)
  BY <1>1 DEF AdoptCompacted
<1>3. OpenRecovery'
  BY <1>1, <1>2, LoadRecovery
<1>4. ASSUME NEW k \in CF!CrashPoints(dst, Len(dst)), k > 0 PROVE Sound(SubSeq(dst, 1, k))
  <2>1. k = Len(dst)
    BY <1>1, <1>4 DEF CF!CrashPoints, CF!CommitEnds
  <2>2. SubSeq(dst, 1, Len(dst)) = dst
    BY <1>1
  <2> QED
    BY <2>1, <2>2, <1>1
<1> QED
  BY <1>2, <1>3, <1>4 DEF RecoveryInv

\* Staging a commit index moves no record and no slot.
LEMMA SetCommitIndexRecovery ==
  ASSUME TableInv, RecoveryInv, NEW i \in Indexes, SetCommitIndex(i)
  PROVE  RecoveryInv'
<1>1. TypeOK /\ OpenRecovery /\ up
  BY DEF TableInv, RecoveryInv, SetCommitIndex, Ready
<1>2. /\ m'.last = m.last /\ m'.n = m.n /\ m'.lastTerm = m.lastTerm /\ m'.term = m.term
      /\ m'.commit = i /\ i <= m.last
      /\ UNCHANGED <<file, safe, up, pend, base, cm, ents, dst>>
  BY <1>1 DEF SetCommitIndex, TypeOK, MetaState
<1>3. Image' = Image
  BY <1>2 DEF Image
<1>4. Bounds(m', ents, base)
  BY <1>1, <1>2 DEF OpenRecovery, Bounds
<1>5. OpenRecovery'
  BY <1>1, <1>2, <1>3, <1>4 DEF OpenRecovery
<1> QED
  BY <1>2, <1>5 DEF RecoveryInv

\* What elog_append does to the handle when the host accepts the record.
LEMMA AppendedState ==
  ASSUME TableInv, NEW t \in Terms, NEW v \in Value, AppendEntry(t, v), ~ Discard
  PROVE  LET e == Entry(m.last + 1, t, v) IN
         /\ e \in EntryRecs /\ e.index = m.last + 1 /\ e.term = t /\ e.val = v
         /\ Image' = Append(Image, e)
         /\ Len(ents') >= m.n + 1
         /\ ents'[m.n + 1] = [off |-> Len(Image) + 1, term |-> t]
         /\ \A j \in 1..m.n : ents'[j] = ents[j]
         /\ m'.last = m.last + 1 /\ m'.n = m.n + 1 /\ m'.lastTerm = t
         /\ m'.term = m.term /\ m'.vote = m.vote /\ m'.commit = m.commit
<1> DEFINE e == Entry(m.last + 1, t, v)
           slot == [off |-> Len(Image) + 1, term |-> t]
<1>1. TypeOK /\ OpenState
  BY DEF TableInv, AppendEntry, Ready
<1>2. /\ pend' = Append(pend, e)
      /\ ents' = (IF m.n < Len(ents) THEN [ents EXCEPT ![m.n + 1] = slot]
                                     ELSE Append(ents, slot))
      /\ m' = [m EXCEPT !.last = @ + 1, !.lastTerm = t, !.n = @ + 1]
      /\ UNCHANGED file /\ m.last < MaxIndex
  BY DEF AppendEntry
<1>3. /\ m.last \in Nat /\ m.n \in Nat /\ m.n <= Len(ents) /\ Len(ents) \in Nat
      /\ MaxIndex \in Nat
  BY <1>1, BoundsAssumption, SlotTypes DEF TypeOK, MetaState, Indexes, OpenState, Slots
<1>4. e \in EntryRecs /\ e.index = m.last + 1 /\ e.term = t /\ e.val = v
  BY <1>2, <1>3 DEF Entry, EntryRecs, Indexes
<1>5. /\ m'.last = m.last + 1 /\ m'.n = m.n + 1 /\ m'.lastTerm = t
      /\ m'.term = m.term /\ m'.vote = m.vote /\ m'.commit = m.commit
  BY <1>1, <1>2 DEF TypeOK, MetaState
<1> HIDE DEF e
<1>6. Image' = Append(Image, e)
  <2>1. file \in Seq(Records) /\ pend \in Seq(Records) /\ e \in Records
    BY <1>1, <1>4 DEF TypeOK, Records
  <2>2. file \o Append(pend, e) = Append(file \o pend, e)
    BY <2>1
  <2> QED
    BY <2>2, <1>2 DEF Image
<1>7. /\ Len(ents') >= m.n + 1 /\ ents'[m.n + 1] = slot
      /\ \A j \in 1..m.n : ents'[j] = ents[j]
  <2> DEFINE S == [off : Nat, term : Terms]
  <2>1. ents \in Seq(S)
    BY <1>1 DEF TypeOK
  <2>2. slot \in S
    BY <1>1, ImageFacts
  <2> HIDE DEF S, slot
  <2>3. CASE m.n < Len(ents)
    <3>1. ents' = [ents EXCEPT ![m.n + 1] = slot] /\ m.n + 1 \in 1..Len(ents)
      BY <2>3, <1>2, <1>3
    <3> QED
      BY <3>1, <2>1, <2>2, <1>3
  <2>4. CASE ~ (m.n < Len(ents))
    <3>1. ents' = Append(ents, slot) /\ m.n = Len(ents)
      BY <2>4, <1>2, <1>3
    <3> QED
      BY <3>1, <2>1, <2>2, <1>3
  <2> QED
    BY <2>3, <2>4
<1> QED
  BY <1>4, <1>5, <1>6, <1>7 DEF e

\* A rollback goes back to the slots of the last commit.
LEMMA DiscardRecovery ==
  ASSUME TableInv, RecoveryInv, up, Discard,
         UNCHANGED <<file, safe, up, base, cm, ents, dst>>
  PROVE  RecoveryInv'
<1>1. TypeOK /\ OpenState /\ OpenRecovery
  BY DEF TableInv, RecoveryInv
<1>2. /\ Image \in Seq(Records) /\ file \in Seq(Records) /\ Len(file) \in 0..Len(Image)
      /\ \A p \in 1..Len(file) : Image[p] = file[p]
  BY <1>1, ImageFacts DEF TypeOK
<1>3. m.n \in Nat /\ cm.n \in 0..m.n
  BY <1>1 DEF TypeOK, MetaState, BaseRecs, Indexes, OpenState
<1>4. \A p \in EntryPos(file) : p \in EntryPos(Image) /\ file[p] = Image[p]
  BY <1>2 DEF EntryPos
<1>5. Current(ents, cm.n, base, file)
  BY <1>1, <1>3, <1>4, CurrentIn DEF OpenRecovery, OpenState
<1>6. Replays(file, base)
  <2>1. file = SubSeq(Image, 1, Len(file))
    BY <1>2
  <2>2. Replays(SubSeq(Image, 1, Len(file)), base)
    BY <1>1, <1>2, ReplaysPrefix DEF OpenRecovery
  <2> QED
    BY <2>1, <2>2
<1>7. Rising(ents, cm.n, base)
  <2>1. \A j \in 1..cm.n : j \in 1..m.n
    BY <1>3
  <2> QED
    BY <2>1, <1>1 DEF OpenRecovery, Rising
<1>8. pend' = <<>> /\ m' = cm /\ Image' = file
  BY <1>2 DEF Discard, Image
<1>9. OpenRecovery'
  BY <1>1, <1>5, <1>6, <1>7, <1>8 DEF OpenRecovery
<1> QED
  BY <1>9 DEF RecoveryInv

\* elog_append.
LEMMA AppendEntryRecovery ==
  ASSUME TableInv, RecoveryInv, NEW t \in Terms, NEW v \in Value, AppendEntry(t, v)
  PROVE  RecoveryInv'
<1>1. TypeOK /\ OpenState /\ OpenRecovery /\ up
  BY DEF TableInv, RecoveryInv, AppendEntry, Ready
<1>2. UNCHANGED <<file, safe, up, base, cm, dst>> /\ t >= m.lastTerm /\ t <= m.term
  BY DEF AppendEntry
<1>3. CASE Discard
  <2>1. CASE UNCHANGED ents
    BY <2>1, <1>1, <1>2, <1>3, DiscardRecovery
  <2>2. CASE pend' = Append(pend, Entry(m.last + 1, t, v))
    <3>1. pend' # <<>>
      <4>1. pend \in Seq(EntryRecs)
        BY <1>1 DEF TypeOK
      <4> QED
        BY <4>1, <2>2
    <3> QED
      BY <3>1, <1>3 DEF Discard
  <2> QED
    BY <2>1, <2>2 DEF AppendEntry
<1>4. CASE ~ Discard
  <2> DEFINE e == Entry(m.last + 1, t, v)
             n == Len(Image) + 1
  <2>1. /\ e \in EntryRecs /\ e.index = m.last + 1 /\ e.term = t
        /\ Image' = Append(Image, e)
        /\ ents'[m.n + 1] = [off |-> n, term |-> t]
        /\ \A j \in 1..m.n : ents'[j] = ents[j]
        /\ m'.last = m.last + 1 /\ m'.n = m.n + 1 /\ m'.lastTerm = t
        /\ m'.term = m.term /\ m'.commit = m.commit
    BY <1>4, AppendedState
  <2> HIDE DEF e
  <2>2. /\ Image \in Seq(Records) /\ Len(Image) \in Nat
        /\ e \in Records /\ e.kind = "entry"
    BY <2>1, <1>1, ImageFacts DEF EntryRecs, Records
  <2>3. /\ m.last \in Nat /\ base.index \in Nat /\ m.n \in Nat /\ cm.n \in 0..m.n
        /\ m.n = m.last - base.index /\ cm.last \in Nat /\ cm.last <= m.last
        /\ base.index <= m.last
        /\ base.term \in Nat /\ m.term \in Nat /\ m.lastTerm \in Nat /\ t \in Nat
        /\ m.commit \in Nat
    <3>1. /\ m.last \in Nat /\ base.index \in Nat /\ m.n \in Nat /\ cm.n \in Nat
          /\ cm.last \in Nat /\ m.commit \in Nat
          /\ base.term \in Nat /\ m.term \in Nat /\ m.lastTerm \in Nat /\ t \in Nat
      BY <1>1, BoundsAssumption DEF TypeOK, MetaState, BaseRecs, Indexes, Terms
    <3>2. /\ base.index <= cm.last /\ cm.last <= m.last
          /\ m.n = m.last - base.index /\ cm.n = cm.last - base.index
      BY <1>1 DEF OpenState
    <3> QED
      BY <3>1, <3>2
  <2>4. /\ Image'[n] = e /\ \A p \in 1..Len(Image) : Image'[p] = Image[p]
        /\ EntryPos(Image') = EntryPos(Image) \cup {n}
    BY <2>1, <2>2 DEF EntryPos
  <2>5. /\ RawLast(Image', base) = m.last + 1
        /\ Replays(Image', base)
    <3>1. RawLast(Image, base) \in Nat /\ RawLast(Image, base) >= m.last
      BY <1>1, <2>2, ReplayFindsSlots DEF OpenRecovery, OpenState, TypeOK, Indexes
    <3>2. e.index > base.index /\ e.index <= RawLast(Image, base) + 1
      <4>1. e.index = m.last + 1
        BY <2>1
      <4> QED
        BY <3>1, <4>1, <2>3
    <3> QED
      BY <3>2, <2>1, <2>2, <1>1, ReplayEntry DEF OpenRecovery
  <2>6. Current(ents', m.n + 1, base, Image')
    <3>1. ASSUME NEW j \in 1..(m.n + 1)
          PROVE  /\ ents'[j].term = Image'[ents'[j].off].term
                 /\ \A p \in EntryPos(Image') :
                      p > ents'[j].off => Image'[p].index # base.index + j
      <4>1. CASE j \in 1..m.n
        <5>1. /\ ents'[j] = ents[j] /\ ents[j].off \in EntryPos(Image)
              /\ ents[j].term = Image[ents[j].off].term
              /\ \A p \in EntryPos(Image) : p > ents[j].off => Image[p].index # base.index + j
          BY <4>1, <2>1, <1>1 DEF OpenState, Slots, OpenRecovery, Current
        <5>2. \A p \in EntryPos(Image) : p \in 1..Len(Image)
          BY DEF EntryPos
        <5>3. Image'[n].index # base.index + j
          BY <4>1, <2>1, <2>3, <2>4, SMTT(40)
        <5> QED
          BY <5>1, <5>2, <5>3, <2>4
      <4>2. CASE j = m.n + 1
        <5>1. ents'[j].off = n /\ ents'[j].term = t
          BY <4>2, <2>1
        <5>2. \A p \in EntryPos(Image') : ~ (p > n)
          BY <2>2, <2>4 DEF EntryPos
        <5> QED
          BY <5>1, <5>2, <2>1, <2>4
      <4> QED
        BY <4>1, <4>2, <2>3
    <3> QED
      BY <3>1 DEF Current
  <2>7. ASSUME NEW j \in 1..m.n
        PROVE  ents[j].term \in Nat /\ ents[j].term <= t /\ ents[j].term >= base.term
    <3>1. m.n \in 1..m.n /\ j \in 1..m.n /\ m.n # 0
      BY <2>3
    <3>2. /\ ents[j].term <= ents[m.n].term /\ m.lastTerm = ents[m.n].term
          /\ ents[j].term >= base.term
      BY <3>1, <1>1 DEF OpenRecovery, Rising, Bounds
    <3>3. m.n <= Len(ents)
      BY <1>1 DEF OpenState, Slots
    <3>4. ents[j].term \in Nat
      BY <3>3, <2>3, <1>1, SlotTypes, SMTT(40) DEF Terms
    <3> QED
      BY <3>2, <3>4, <2>3, <1>2
  <2>8. t >= base.term
    <3>1. CASE m.n = 0
      BY <3>1, <1>1, <1>2 DEF OpenRecovery, Bounds
    <3>2. CASE m.n # 0
      <4>1. m.n \in 1..m.n
        BY <3>2, <2>3
      <4> QED
        BY <4>1, <2>3, <2>7
    <3> QED
      BY <3>1, <3>2
  <2>9. Rising(ents', m.n + 1, base)
    <3>1. ASSUME NEW j \in 1..(m.n + 1)
          PROVE  /\ ents'[j].term >= base.term
                 /\ \A i \in 1..j : ents'[i].term <= ents'[j].term
      <4>1. CASE j \in 1..m.n
        <5>1. \A i \in 1..j : i \in 1..m.n
          BY <4>1, <2>3
        <5> QED
          BY <4>1, <5>1, <2>1, <2>7, <1>1 DEF OpenRecovery, Rising
      <4>2. CASE j = m.n + 1
        <5>1. ents'[j].term = t
          BY <4>2, <2>1
        <5>2. ASSUME NEW i \in 1..j PROVE ents'[i].term <= t
          <6>1. i = m.n + 1 \/ i \in 1..m.n
            BY <4>2, <2>3
          <6>2. CASE i = m.n + 1
            BY <6>2, <5>1, <4>2, <2>3
          <6>3. CASE i \in 1..m.n
            <7>1. ents'[i] = ents[i]
              BY <6>3, <2>1
            <7> QED
              BY <6>3, <7>1, <2>7
          <6> QED
            BY <6>1, <6>2, <6>3
        <5> QED
          BY <5>1, <5>2, <2>8
      <4> QED
        BY <4>1, <4>2, <2>3
    <3> QED
      BY <3>1 DEF Rising
  <2>10. Bounds(m', ents', base)
    <3>1. m'.n # 0 /\ m'.lastTerm = ents'[m'.n].term
      BY <2>1, <2>3, SMTT(40)
    <3>2. m.commit <= m.last
      BY <1>1 DEF OpenRecovery, Bounds
    <3> QED
      BY <3>1, <3>2, <2>1, <2>3, <1>2, SMTT(40) DEF Bounds
  <2>11. Bounds(cm, ents', base)
    <3>1. ASSUME cm.n # 0 PROVE ents'[cm.n] = ents[cm.n]
      <4>1. cm.n \in 1..m.n
        BY <3>1, <2>3
      <4> QED
        BY <4>1, <2>1
    <3> QED
      BY <3>1, <1>1 DEF OpenRecovery, Bounds
  <2>12. OpenRecovery'
    <3>1. m'.last <= RawLast(Image', base)
      BY <2>1, <2>3, <2>5
    <3> QED
      BY <3>1, <2>1, <2>5, <2>6, <2>9, <2>10, <2>11, <1>1, <1>2 DEF OpenRecovery
  <2> QED
    BY <2>12, <1>2 DEF RecoveryInv
<1> QED
  BY <1>3, <1>4

-----------------------------------------------------------------------------
(* Compaction.                                                             *)

\* A copy of consecutive entries whose terms never fall is a sound log, and reopens
\* as just these entries.
LEMMA CopySound ==
  ASSUME NEW b \in BaseRecs, NEW s \in MetaState, NEW E \in Seq(Records),
         Len(E) = s.last - b.index, b.index <= s.last,
         \A j \in 1..Len(E) :
           /\ E[j].kind = "entry" /\ E[j].index = b.index + j
           /\ E[j].term >= b.term
           /\ \A i \in 1..j : E[i].term <= E[j].term,
         s.lastTerm = IF Len(E) = 0 THEN b.term ELSE E[Len(E)].term,
         s.term >= s.lastTerm, s.commit <= s.last
  PROVE  LET g == <<Header>> \o E \o <<Metadata(b, s)>> IN
         /\ g \in Seq(Records) /\ WholeLog(g) /\ LastBase(g) = b /\ Sound(g)
         /\ RecoveredMeta(g) = [last |-> s.last, lastTerm |-> s.lastTerm, term |-> s.term,
                                vote |-> s.vote, commit |-> s.commit, n |-> Len(E)]
         /\ \A j \in 1..Len(E) : /\ RecoveredEnts(g)[j].off = j + 1
                                 /\ RecoveredEnts(g)[j].term = E[j].term
                                 /\ g[j + 1] = E[j]
<1> DEFINE md == Metadata(b, s)
           g  == <<Header>> \o E \o <<md>>
           K  == Len(E)
<1>1. /\ md \in Records /\ md.kind = "meta" /\ md.base = b /\ md.last = s.last
      /\ md.lastTerm = s.lastTerm /\ md.term = s.term /\ md.vote = s.vote
      /\ md.commit = s.commit
  BY DEF Metadata, MetaRecs, Records, MetaState
<1>2. Header \in Records /\ Header.kind = "header"
  BY DEF Records, Header
<1>3. g \in Seq(Records) /\ g # <<>> /\ WholeLog(g)
  BY CopyWhole
<1> HIDE DEF md
<1>4. /\ K \in Nat /\ b.index \in Nat /\ b.term \in Nat /\ s.last \in Nat
      /\ s.lastTerm \in Nat /\ K = s.last - b.index
  BY BoundsAssumption DEF BaseRecs, MetaState, Indexes, Terms
<1>5. /\ Len(g) = K + 2 /\ g[1] = Header /\ g[K + 2] = md
      /\ \A j \in 1..K : g[j + 1] = E[j]
  <2>1. /\ Len(g) = K + 2 /\ g[1] = Header /\ g[K + 2] = md
        /\ \A p \in 2..(K + 1) : g[p] = E[p - 1]
    BY <1>1, <1>2, <1>4
  <2> HIDE DEF g, K
  <2>2. ASSUME NEW j \in 1..K PROVE g[j + 1] = E[j]
    <3>1. j + 1 \in 2..(K + 1) /\ (j + 1) - 1 = j
      BY <1>4
    <3>2. g[j + 1] = E[(j + 1) - 1]
      BY <3>1, <2>1
    <3> QED
      BY <3>1, <3>2
  <2> QED
    BY <2>1, <2>2
<1> HIDE DEF g, K
<1>6. \A j \in 1..K : j + 1 \in EntryPos(g) /\ g[j + 1].index = b.index + j
  BY <1>4, <1>5, SMTT(40) DEF EntryPos, K
<1>7. ASSUME NEW p \in EntryPos(g) PROVE p - 1 \in 1..K /\ p = (p - 1) + 1
  <2>1. p \in 1..(K + 2) /\ g[p].kind = "entry"
    BY <1>5 DEF EntryPos
  <2>2. p # 1 /\ p # K + 2
    BY <2>1, <1>1, <1>2, <1>5
  <2> QED
    BY <2>1, <2>2, <1>4
<1>8. LastBase(g) = b
  BY <1>1, <1>5 DEF LastBase
<1>9. RawLast(g, b) = s.last
  <2>1. CASE K = 0
    <3>1. EntryPos(g) = {}
      BY <2>1, <1>7
    <3> QED
      BY <2>1, <3>1, <1>4 DEF RawLast
  <2>2. CASE K # 0
    <3>1. K + 1 \in EntryPos(g) /\ g[K + 1].index = b.index + K
      BY <2>2, <1>4, <1>6
    <3>2. \A p \in EntryPos(g) : p <= K + 1
      BY <1>4, <1>7 DEF EntryPos
    <3>3. RawLast(g, b) = g[K + 1].index
      BY <3>1, <3>2, <1>3, RawLastIs
    <3> QED
      BY <3>1, <3>3, <1>4
  <2> QED
    BY <2>1, <2>2
<1>10. Replays(g, b)
  <2>1. ASSUME NEW p \in EntryPos(g)
        PROVE  /\ g[p].index > b.index
               /\ g[p].index <= RawLast(SubSeq(g, 1, p - 1), b) + 1
    <3> DEFINE h == SubSeq(g, 1, p - 1)
               j == p - 1
    <3>1. j \in 1..K /\ p = j + 1
      BY <1>7
    <3>2. g[p].index = b.index + j
      BY <3>1, <1>6
    <3>3. p \in 1..Len(g) /\ Len(g) \in Nat
      BY <1>3 DEF EntryPos
    <3>4. h \in Seq(Records) /\ Len(h) = j /\ \A q \in 1..j : h[q] = g[q]
      BY <3>3, <1>3
    <3> HIDE DEF h
    <3>5. RawLast(h, b) = b.index + (j - 1)
      <4>1. CASE j = 1
        <5>1. EntryPos(h) = {}
          BY <4>1, <3>4, <1>2, <1>5 DEF EntryPos
        <5> QED
          BY <4>1, <5>1, <1>4 DEF RawLast
      <4>2. CASE j # 1
        <5>1. j - 1 \in 1..K /\ j \in EntryPos(g) /\ g[j].index = b.index + (j - 1)
          <6>1. j - 1 \in 1..K /\ (j - 1) + 1 = j
            BY <4>2, <3>1, <1>4
          <6> HIDE DEF j
          <6> QED
            BY <6>1, <1>6
        <5>2. j \in EntryPos(h) /\ h[j] = g[j] /\ \A q \in EntryPos(h) : q <= j
          BY <5>1, <3>1, <3>4, <1>4, SMTT(40) DEF EntryPos
        <5>3. RawLast(h, b) = h[j].index
          BY <5>2, <3>4, RawLastIs
        <5> QED
          BY <5>1, <5>2, <5>3
      <4> QED
        BY <4>1, <4>2
    <3> HIDE DEF j
    <3>6. b.index + j > b.index /\ b.index + j <= (b.index + (j - 1)) + 1
      BY <3>1, <1>4
    <3> QED
      BY <3>2, <3>5, <3>6 DEF h
  <2> QED
    BY <2>1 DEF Replays
<1>11. ASSUME NEW j \in 1..K PROVE SlotPos(g, b.index + j) = j + 1
  <2>1. j + 1 \in EntryPos(g) /\ g[j + 1].index = b.index + j
    BY <1>6
  <2>2. ASSUME NEW p \in EntryPos(g), p > j + 1 PROVE g[p].index # b.index + j
    <3>1. p - 1 \in 1..K /\ p = (p - 1) + 1
      BY <1>7
    <3>2. g[p].index = b.index + (p - 1)
      BY <3>1, <1>6
    <3> QED
      BY <2>2, <3>1, <3>2, <1>4
  <2> QED
    BY <2>1, <2>2, <1>3, SlotPosIs
<1>12. s.lastTerm >= b.term
  <2>1. CASE K = 0
    BY <2>1, <1>4 DEF K
  <2>2. CASE K # 0
    BY <2>2, <1>4 DEF K
  <2> QED
    BY <2>1, <2>2
<1>13. s.lastTerm = IF s.last = b.index THEN b.term ELSE g[SlotPos(g, s.last)].term
  <2>1. CASE K = 0
    BY <2>1, <1>4 DEF K
  <2>2. CASE K # 0
    <3>1. K \in 1..K /\ b.index + K = s.last /\ s.last # b.index
      BY <2>2, <1>4
    <3>2. SlotPos(g, s.last) = K + 1 /\ g[K + 1] = E[K]
      BY <3>1, <1>5, <1>11
    <3> QED
      BY <2>2, <3>1, <3>2 DEF K
  <2> QED
    BY <2>1, <2>2
<1>14. Openable(g)
  <2>1. g[Len(g)] = md
    BY <1>5
  <2> QED
    BY <2>1, <1>1, <1>3, <1>4, <1>9, <1>10, <1>12, <1>13 DEF Openable, CF!IsMeta
<1>15. RecoveredMeta(g) = [last |-> s.last, lastTerm |-> s.lastTerm, term |-> s.term,
                           vote |-> s.vote, commit |-> s.commit, n |-> K]
  BY <1>1, <1>4, <1>5 DEF RecoveredMeta
<1>16. ASSUME NEW j \in 1..K
       PROVE  RecoveredEnts(g)[j].off = j + 1 /\ RecoveredEnts(g)[j].term = E[j].term
  <2>1. j \in 1..RecoveredMeta(g).n
    BY <1>15
  <2> QED
    BY <2>1, <1>3, <1>5, <1>8, <1>11, <1>14, RecoveredSlots, SMTT(40)
<1>17. Sound(g)
  <2>1. \A j \in 1..K : \A i \in 1..j : i \in 1..K
    BY <1>4
  <2>2. Rising(RecoveredEnts(g), K, b)
    BY <2>1, <1>16 DEF Rising, K
  <2> QED
    BY <2>2, <1>8, <1>14, <1>15 DEF Sound
<1> QED
  BY <1>3, <1>5, <1>8, <1>15, <1>16, <1>17 DEF g, md, K

\* What elog_compact copies, and the base and state it records.
CopyBase(nb)    == [index |-> nb, term |-> TermAt(nb)]
CopyState(nb)   == [m EXCEPT !.commit = IF @ < nb THEN nb ELSE @]
CopyEntries(nb) == [j \in 1..(m.last - nb) |-> Image[ents[nb - base.index + j].off]]

\* They are a sound log's.
LEMMA CompactedCopy ==
  ASSUME TableInv, RecoveryInv, up, NEW nb \in base.index..m.last
  PROVE  LET b == CopyBase(nb)
             s == CopyState(nb)
             E == CopyEntries(nb)
         IN
         /\ Compacted(nb) = <<Header>> \o E \o <<Metadata(b, s)>>
         /\ b \in BaseRecs /\ b.index = nb /\ b.term = TermAt(nb)
         /\ s \in MetaState /\ s.last = m.last /\ s.lastTerm = m.lastTerm
         /\ s.term = m.term /\ s.vote = m.vote
         /\ s.commit = IF m.commit < nb THEN nb ELSE m.commit
         /\ E \in Seq(Records) /\ Len(E) = m.last - nb
         /\ \A j \in 1..Len(E) :
              /\ nb - base.index + j \in 1..m.n
              /\ E[j] = Image[ents[nb - base.index + j].off]
              /\ E[j].term = ents[nb - base.index + j].term
              /\ E[j].kind = "entry" /\ E[j].index = b.index + j
              /\ E[j].term >= b.term
              /\ \A i \in 1..j : E[i].term <= E[j].term
         /\ s.lastTerm = IF Len(E) = 0 THEN b.term ELSE E[Len(E)].term
         /\ s.term >= s.lastTerm /\ s.commit <= s.last
<1> DEFINE b == CopyBase(nb)
           s == CopyState(nb)
           E == CopyEntries(nb)
           d == nb - base.index
           K == m.last - nb
<1>1. TypeOK /\ OpenState /\ OpenRecovery
  BY DEF TableInv, RecoveryInv
<1>2. /\ nb \in Nat /\ m.last \in Nat /\ base.index \in Nat /\ m.n \in Nat
      /\ base.index <= nb /\ nb <= m.last /\ m.n = m.last - base.index
      /\ m.n <= Len(ents) /\ Len(ents) \in Nat /\ m.last <= MaxIndex /\ MaxIndex \in Nat
  BY <1>1, BoundsAssumption, SMTT(40) DEF TypeOK, OpenState, Slots, MetaState, BaseRecs, Indexes
<1>3. d \in Nat /\ K \in Nat /\ d + K = m.n /\ nb \in Indexes
  BY <1>2 DEF Indexes
<1>4. Image \in Seq(Records)
  BY <1>1, ImageFacts
<1>5. TermAt(nb) = IF d = 0 THEN base.term ELSE ents[d].term
  BY <1>2 DEF TermAt
<1> HIDE DEF K, d
<1>6. TermAt(nb) \in Terms
  <2>1. CASE d = 0
    BY <2>1, <1>1, <1>5 DEF TypeOK, BaseRecs
  <2>2. CASE d # 0
    <3>1. d \in 1..Len(ents)
      BY <2>2, <1>2, <1>3
    <3> QED
      BY <2>2, <3>1, <1>1, <1>5, SlotTypes
  <2> QED
    BY <2>1, <2>2
<1>7. b \in BaseRecs /\ b.index = nb /\ b.term = TermAt(nb)
  BY <1>3, <1>6 DEF BaseRecs, CopyBase
<1>8. /\ s \in MetaState /\ s.last = m.last /\ s.lastTerm = m.lastTerm
      /\ s.term = m.term /\ s.vote = m.vote
      /\ s.commit = IF m.commit < nb THEN nb ELSE m.commit
  BY <1>1, <1>3 DEF TypeOK, MetaState, CopyState
<1>9. ASSUME NEW j \in 1..K
      PROVE  /\ d + j \in 1..m.n
             /\ LET r == Image[ents[d + j].off] IN
                /\ r \in Records /\ r.kind = "entry" /\ r.index = nb + j
                /\ r.term = ents[d + j].term
             /\ ents[d + j].term >= TermAt(nb)
             /\ \A i \in 1..j : ents[d + i].term <= ents[d + j].term
  <2>1. d + j \in 1..m.n /\ base.index + (d + j) = nb + j
    BY <1>2, <1>3, SMTT(40) DEF d
  <2>2. /\ ents[d + j].off \in EntryPos(Image)
        /\ Image[ents[d + j].off].index = base.index + (d + j)
        /\ ents[d + j].term = Image[ents[d + j].off].term
    BY <2>1, <1>1 DEF OpenState, OpenRecovery, Slots, Current
  <2>3. /\ ents[d + j].term >= base.term
        /\ \A i \in 1..(d + j) : ents[i].term <= ents[d + j].term
    BY <2>1, <1>1 DEF OpenRecovery, Rising
  <2>4. ents[d + j].term >= TermAt(nb)
    <3>1. CASE d = 0
      BY <3>1, <2>3, <1>5
    <3>2. CASE d # 0
      <4>1. d \in 1..(d + j) /\ d \in 1..Len(ents) /\ d + j \in 1..Len(ents)
        BY <3>2, <2>1, <1>2, <1>3
      <4>2. ents[d].term \in Nat /\ ents[d + j].term \in Nat
        BY <4>1, <1>1, SlotTypes, BoundsAssumption DEF Terms
      <4>3. ents[d].term <= ents[d + j].term
        BY <4>1, <2>3
      <4> QED
        BY <3>2, <4>2, <4>3, <1>5
    <3> QED
      BY <3>1, <3>2
  <2>5. \A i \in 1..j : d + i \in 1..(d + j)
    BY <1>3
  <2> QED
    BY <2>1, <2>2, <2>3, <2>4, <2>5, <1>4 DEF EntryPos
<1>10. E = [j \in 1..K |-> Image[ents[d + j].off]]
  BY DEF CopyEntries, K, d
<1> HIDE DEF b, s, E
<1>11. E \in Seq(Records) /\ Len(E) = K /\ \A j \in 1..K : E[j] = Image[ents[d + j].off]
  <2>1. E \in [1..K -> Records]
    BY <1>9, <1>10
  <2> QED
    BY <2>1, <1>3, <1>10
<1>12. m.lastTerm = IF K = 0 THEN TermAt(nb) ELSE ents[d + K].term
  <2>1. m.lastTerm = IF m.n = 0 THEN base.term ELSE ents[m.n].term
    BY <1>1 DEF OpenRecovery, Bounds
  <2>2. CASE K = 0
    BY <2>1, <2>2, <1>3, <1>5
  <2>3. CASE K # 0
    BY <2>1, <2>3, <1>3
  <2> QED
    BY <2>2, <2>3
<1>13. \A j \in 1..K : /\ E[j].term = ents[d + j].term /\ E[j].term >= b.term
                       /\ \A i \in 1..j : E[i].term <= E[j].term
  <2>1. \A j \in 1..K : E[j].term = ents[d + j].term
    BY <1>9, <1>11
  <2>2. \A j \in 1..K : \A i \in 1..j : i \in 1..K
    BY <1>3
  <2> QED
    BY <2>1, <2>2, <1>7, <1>9
<1>14. s.lastTerm = IF K = 0 THEN b.term ELSE E[K].term
  <2>1. K # 0 => K \in 1..K
    BY <1>3
  <2> QED
    BY <2>1, <1>7, <1>8, <1>12, <1>13
<1>15. s.term >= s.lastTerm /\ s.commit <= s.last
  BY <1>1, <1>2, <1>8 DEF OpenRecovery, Bounds
<1>16. Compacted(nb) = <<Header>> \o E \o <<Metadata(b, s)>>
  BY DEF Compacted, CopyBase, CopyState, CopyEntries, b, s, E
<1>17. /\ Len(E) = K
       /\ \A j \in 1..K :
            /\ d + j \in 1..m.n
            /\ E[j] = Image[ents[d + j].off] /\ E[j].term = ents[d + j].term
            /\ E[j].kind = "entry" /\ E[j].index = b.index + j
            /\ E[j].term >= b.term
            /\ \A i \in 1..j : E[i].term <= E[j].term
  BY <1>7, <1>9, <1>11, <1>13
<1> QED
  BY <1>7, <1>8, <1>11, <1>14, <1>15, <1>16, <1>17, Zenon DEF b, s, E, K, d

\* elog_compact writes a sound log.
LEMMA CompactRecovery ==
  ASSUME TableInv, RecoveryInv, NEW nb \in Indexes, Compact(nb)
  PROVE  RecoveryInv'
<1> DEFINE b == CopyBase(nb)
           s == CopyState(nb)
           E == CopyEntries(nb)
<1>1. up /\ nb \in base.index..m.last /\ dst' = Compacted(nb)
      /\ UNCHANGED <<file, safe, up, pend, base, m, cm, ents>>
  BY DEF Compact, Ready
<1>2. /\ Compacted(nb) = <<Header>> \o E \o <<Metadata(b, s)>>
      /\ b \in BaseRecs /\ s \in MetaState /\ E \in Seq(Records)
      /\ b.index = nb /\ s.last = m.last /\ Len(E) = m.last - nb
      /\ \A j \in 1..Len(E) : /\ E[j].kind = "entry" /\ E[j].index = b.index + j
                              /\ E[j].term >= b.term
                              /\ \A i \in 1..j : E[i].term <= E[j].term
      /\ s.lastTerm = IF Len(E) = 0 THEN b.term ELSE E[Len(E)].term
      /\ s.term >= s.lastTerm /\ s.commit <= s.last
  BY <1>1, CompactedCopy
<1> HIDE DEF b, s, E
<1>3. Len(E) = s.last - b.index /\ b.index <= s.last
  BY <1>1, <1>2
<1>4. Sound(Compacted(nb))
  BY <1>2, <1>3, CopySound
<1>5. Image' = Image
  BY <1>1 DEF Image
<1>6. OpenRecovery'
  BY <1>1, <1>5 DEF OpenRecovery, RecoveryInv
<1> QED
  BY <1>1, <1>4, <1>6 DEF RecoveryInv

\* What an open handle's state satisfies.
LEMMA OpenHandle ==
  ASSUME TableInv, RecoveryInv, up
  PROVE  /\ TypeOK /\ m \in MetaState /\ Bounds(m, ents, base) /\ m.n \in Nat
         /\ base.index <= m.last /\ m.n = m.last - base.index
         /\ m.last \in Nat /\ base.index \in Nat
<1>1. TypeOK /\ OpenState /\ OpenRecovery
  BY DEF TableInv, RecoveryInv
<1> QED
  BY <1>1 DEF OpenRecovery, OpenState, TypeOK, MetaState, BaseRecs, Indexes

\* The operation at hand commits the state s, whose bounds agree with the table.
Commits(s) ==
  /\ up /\ dst = NoDst /\ s \in MetaState /\ CommitState(s)
  /\ base.index <= s.last /\ s.n = s.last - base.index /\ s.n \in 0..m.n
  /\ Bounds(s, ents, base)
  /\ UNCHANGED <<up, base, ents, dst>>

\* elog_sync commits the live state.
LEMMA SyncCommits ==
  ASSUME TableInv, RecoveryInv, Sync
  PROVE  Commits(m)
<1>1. up /\ dst = NoDst /\ CommitState(m) /\ UNCHANGED <<up, base, ents, dst>>
  BY DEF Sync, Ready
<1>2. m.n \in 0..m.n
  BY <1>1, OpenHandle
<1> QED
  BY <1>1, <1>2, OpenHandle DEF Commits

\* elog_set_hard_state commits the new term and vote.
LEMMA HardStateCommits ==
  ASSUME TableInv, RecoveryInv,
         NEW t \in Terms, NEW v \in Node \cup {NoVote}, SetHardState(t, v)
  PROVE  Commits(HardState(t, v))
<1> DEFINE s == HardState(t, v)
<1>1. /\ up /\ dst = NoDst /\ UNCHANGED <<up, base, ents, dst>>
      /\ CommitState(s) /\ VoteAllowed(t, v)
  BY DEF SetHardState, Ready, CommitState
<1>2. /\ TypeOK /\ Bounds(m, ents, base) /\ m.n \in Nat
      /\ base.index <= m.last /\ m.n = m.last - base.index
      /\ m.last \in Nat /\ base.index \in Nat
  BY <1>1, OpenHandle
<1>3. /\ s \in MetaState /\ s.last = m.last /\ s.n = m.n /\ s.lastTerm = m.lastTerm
      /\ s.commit = m.commit /\ s.term = t
  BY <1>2 DEF TypeOK, MetaState, HardState
<1>4. t >= m.term /\ t \in Nat /\ m.term \in Nat /\ m.lastTerm \in Nat
  BY <1>2, <1>1, BoundsAssumption DEF VoteAllowed, TypeOK, MetaState, Terms
<1> HIDE DEF s
<1>5. Bounds(s, ents, base)
  BY <1>2, <1>1, <1>3, <1>4 DEF Bounds
<1>6. s.n \in 0..m.n /\ base.index <= s.last /\ s.n = s.last - base.index
  BY <1>2, <1>1, <1>3
<1> QED
  BY <1>1, <1>3, <1>5, <1>6 DEF Commits, s

\* elog_truncate_from commits the bounds before the cut.
LEMMA TruncationCommits ==
  ASSUME TableInv, RecoveryInv, NEW i \in Indexes, TruncateFrom(i)
  PROVE  Commits(Truncated(i))
<1> DEFINE s == Truncated(i)
<1>1. up /\ dst = NoDst /\ UNCHANGED <<up, base, ents, dst>> /\ i > m.commit
  BY DEF TruncateFrom, Ready
<1>2. /\ TypeOK /\ Bounds(m, ents, base) /\ m.n \in Nat
      /\ base.index <= m.last /\ m.n = m.last - base.index
      /\ m.last \in Nat /\ base.index \in Nat
  BY <1>1, OpenHandle
<1>3. /\ s \in MetaState /\ CommitState(s) /\ s.last = i - 1
      /\ s.lastTerm = IF s.n = 0 THEN base.term ELSE ents[s.n].term
      /\ s.term = m.term /\ s.commit = m.commit
      /\ base.index <= s.last /\ s.n \in 0..m.n /\ s.n = s.last - base.index
  BY TruncatedState
<1> HIDE DEF s
<1>4. m.term >= s.lastTerm
  <2>1. m.lastTerm \in Nat /\ m.term \in Nat /\ m.term >= m.lastTerm /\ base.term \in Nat
    <3>1. m.lastTerm \in Nat /\ m.term \in Nat /\ base.term \in Nat
      BY <1>2, BoundsAssumption DEF TypeOK, MetaState, BaseRecs, Terms
    <3>2. m.term >= m.lastTerm
      BY <1>2 DEF Bounds
    <3> QED
      BY <3>1, <3>2
  <2>2. /\ m.lastTerm = IF m.n = 0 THEN base.term ELSE ents[m.n].term
        /\ Rising(ents, m.n, base) /\ m.n <= Len(ents) /\ Len(ents) \in Nat
    BY <1>2, <1>1, SlotTypes DEF TableInv, OpenState, Slots, RecoveryInv, OpenRecovery, Bounds
  <2>3. CASE s.n = 0 /\ m.n = 0
    BY <2>1, <2>2, <2>3, <1>3
  <2>4. CASE s.n = 0 /\ m.n # 0
    <3>1. m.n \in 1..m.n
      BY <2>4, <1>2, <1>1
    <3> QED
      BY <2>1, <2>2, <2>4, <3>1, <1>3 DEF Rising
  <2>5. CASE s.n # 0
    <3>1. m.n \in 1..m.n /\ s.n \in 1..m.n /\ m.n # 0 /\ s.n \in 1..Len(ents)
      BY <2>2, <2>5, <1>2, <1>1, <1>3
    <3>2. ents[s.n].term <= ents[m.n].term /\ ents[s.n].term \in Nat
      BY <2>2, <3>1, <1>2, SlotTypes, BoundsAssumption DEF Rising, Terms
    <3> QED
      BY <2>1, <2>2, <2>5, <3>1, <3>2, <1>3
  <2> QED
    BY <2>3, <2>4, <2>5
<1>5. s.commit <= s.last
  <2>1. m.commit \in Nat /\ i \in Nat
    BY <1>2, BoundsAssumption DEF TypeOK, MetaState, Indexes
  <2> QED
    BY <2>1, <1>1, <1>3
<1>6. Bounds(s, ents, base)
  BY <1>3, <1>4, <1>5 DEF Bounds
<1> QED
  BY <1>1, <1>3, <1>6 DEF Commits, s

\* They keep everything recoverable.
LEMMA CommittingRecovery ==
  ASSUME TableInv, RecoveryInv,
         \/ Sync
         \/ \E t \in Terms, v \in Node \cup {NoVote} : SetHardState(t, v)
         \/ \E i \in Indexes : TruncateFrom(i)
  PROVE  RecoveryInv'
<1>1. \E s : Commits(s)
  BY SyncCommits, HardStateCommits, TruncationCommits
<1> QED
  BY <1>1, CommitRecovery DEF Commits

\* Every step keeps everything recoverable.
LEMMA RecoveryStep == TableInv /\ RecoveryInv /\ [Next]_vars => RecoveryInv'
<1> SUFFICES ASSUME TableInv, RecoveryInv, [Next]_vars PROVE RecoveryInv'
  OBVIOUS
<1>1. CASE \E b \in Bases : Create(b)
  BY <1>1, CreateRecovery
<1>2. CASE Open
  BY <1>2, OpenRecovered
<1>3. CASE Crash
  BY <1>3, CrashRecovery
<1>4. CASE \E t \in Terms, v \in Value : AppendEntry(t, v)
  BY <1>4, AppendEntryRecovery
<1>5. ASSUME \/ Sync
             \/ \E t \in Terms, v \in Node \cup {NoVote} : SetHardState(t, v)
             \/ \E i \in Indexes : TruncateFrom(i)
      PROVE  RecoveryInv'
  BY <1>5, CommittingRecovery
<1>6. CASE \E i \in Indexes : SetCommitIndex(i) \/ Compact(i)
  BY <1>6, SetCommitIndexRecovery, CompactRecovery
<1>7. CASE AdoptCompacted
  BY <1>7, AdoptRecovery
<1>8. CASE UNCHANGED vars
  BY <1>8 DEF vars, RecoveryInv, OpenRecovery, Image
<1> QED
  BY <1>1, <1>2, <1>3, <1>4, <1>5, <1>6, <1>7, <1>8 DEF Next

\* Nothing is there to recover.
LEMMA RecoveryInit == Init => RecoveryInv
<1> SUFFICES ASSUME Init PROVE RecoveryInv
  OBVIOUS
<1>1. file = <<>> /\ safe = 0 /\ up = FALSE /\ dst = NoDst
  BY DEF Init
<1>2. CF!CrashPoints(file, safe) = {0}
  BY <1>1 DEF CF!CrashPoints, CF!CommitEnds
<1> QED
  BY <1>1, <1>2 DEF RecoveryInv

\* No sequence of appends, truncations, failed or unsynced commits, crashes, reopens
\* and compactions makes a replay meet a gap, fall short of the metadata or
\* contradict its last term (elog_open in entrylog.c).
THEOREM RecoveryInvariant == Spec => []RecoveryInv
  BY RecoveryInit, RecoveryStep, TableInvariant, PTL DEF Spec

\* elog_open accepts whatever a crash leaves of the file, and whatever a compaction
\* wrote.
THEOREM AlwaysReopenable == Spec => []Reopenable
<1>1. RecoveryInv => Reopenable
  BY DEF RecoveryInv, Sound, Reopenable
<1> QED
  BY <1>1, RecoveryInvariant, PTL

\* elog_verify finds nothing wrong with an open handle at any time.
THEOREM AlwaysVerifies == Spec => []Verifies
<1>1. TableInv /\ RecoveryInv => Verifies
  <2> SUFFICES ASSUME TableInv, RecoveryInv, up PROVE Verifies
    BY DEF Verifies
  <2>1. TypeOK /\ OpenState /\ OpenRecovery
    BY DEF TableInv, RecoveryInv
  <2>2. /\ base.index \in Nat /\ m.last \in Nat /\ m.n \in Nat
        /\ m.n = m.last - base.index /\ m.n <= Len(ents)
    BY <2>1 DEF TypeOK, MetaState, BaseRecs, Indexes, OpenState, Slots
  <2>3. ASSUME NEW j \in 1..m.n
        PROVE  /\ ents[j].off \in EntryPos(Image)
               /\ Image[ents[j].off].index = base.index + j
               /\ Image[ents[j].off].term = ents[j].term
               /\ ents[j].term >= TermAt(base.index + j - 1)
    <3>1. /\ ents[j].off \in EntryPos(Image)
          /\ Image[ents[j].off].index = base.index + j
          /\ Image[ents[j].off].term = ents[j].term
      BY <2>1 DEF OpenState, Slots, OpenRecovery, Current
    <3>2. ents[j].term >= base.term /\ \A i \in 1..j : ents[i].term <= ents[j].term
      BY <2>1 DEF OpenRecovery, Rising
    <3>3. ents[j].term >= TermAt(base.index + j - 1)
      <4>1. CASE j = 1
        <5>1. base.index + j - 1 = base.index
          BY <4>1, <2>2
        <5> QED
          BY <5>1, <3>2 DEF TermAt
      <4>2. CASE j # 1
        <5>1. /\ base.index + j - 1 # base.index /\ j - 1 \in 1..j /\ j - 1 \in 1..Len(ents)
              /\ j \in 1..Len(ents) /\ (base.index + j - 1) - base.index = j - 1
          BY <4>2, <2>2
        <5>2. ents[j - 1].term <= ents[j].term
          BY <5>1, <3>2
        <5>3. ents[j - 1].term \in Nat /\ ents[j].term \in Nat
          BY <5>1, <2>1, SlotTypes, BoundsAssumption DEF Terms
        <5>4. TermAt(base.index + j - 1) = ents[j - 1].term
          BY <5>1 DEF TermAt
        <5> QED
          BY <5>2, <5>3, <5>4
      <4> QED
        BY <4>1, <4>2
    <3> QED
      BY <3>1, <3>3
  <2>4. m.lastTerm = TermAt(m.last)
    BY <2>1, <2>2 DEF OpenRecovery, Bounds, TermAt
  <2>5. m.term >= m.lastTerm /\ m.commit <= m.last
    BY <2>1 DEF OpenRecovery, Bounds
  <2> QED
    BY <2>2, <2>3, <2>4, <2>5 DEF Verifies
<1> QED
  BY <1>1, TableInvariant, RecoveryInvariant, PTL

-----------------------------------------------------------------------------
(* The floor under the durable commit index.                               *)

\* Floor of what the file holds after the first q records: nothing rewrites an index
\* at or below the commit index recorded at q.
Above(f, q) ==
  \A p \in (q + 1)..Len(f) :
    /\ f[p].kind = "entry" => f[p].index > f[q].commit
    /\ f[p].kind = "meta" => f[p].commit >= f[q].commit

\* A step keeps the first q records, writes above them and syncs no less.
Extends(q) ==
  /\ safe' >= q /\ Len(file') >= q
  /\ \A p \in 1..q : file'[p] = file[p]
  /\ Above(file', q)

\* A commit of a state whose commit index has not fallen.
LEMMA CommitFloor ==
  ASSUME TableInv, FloorInv, up, dst = NoDst, NEW s \in MetaState, CommitState(s),
         s.commit >= m.commit, UNCHANGED <<up, base, ents, dst>>
  PROVE  /\ FloorInv'
         /\ safe > 0 => Extends(safe)
<1> DEFINE md == Metadata(base, s)
           g  == Append(Image, md)
           c  == file[safe].commit
<1>1. TypeOK
  BY DEF TableInv
<1>2. /\ Image \in Seq(Records) /\ file \in Seq(Records)
      /\ Len(Image) = Len(file) + Len(pend) /\ Len(file) \in Nat /\ Len(pend) \in Nat
      /\ \A p \in 1..Len(file) : Image[p] = file[p]
      /\ safe \in 0..Len(file)
  BY <1>1, ImageFacts DEF TypeOK
<1>3. md \in MetaRecs /\ md \in Records /\ md.kind = "meta" /\ md.commit = s.commit
  BY <1>1 DEF Metadata, MetaRecs, Records, MetaState, TypeOK
<1> HIDE DEF md
<1>4. /\ g \in Seq(Records) /\ Len(g) = Len(Image) + 1 /\ g[Len(g)] = md
      /\ \A p \in 1..Len(Image) : g[p] = Image[p]
  BY <1>2, <1>3
<1>5. \/ /\ file' = g /\ safe' = Len(g) /\ m' = s /\ cm' = s /\ pend' = <<>>
      \/ /\ file' \in {file, g} /\ safe' = safe /\ m' = cm /\ cm' = cm /\ pend' = <<>>
  BY DEF CommitState, CommitOk, CommitFails, Discard, md
<1> HIDE DEF g
<1>6. Image' = file'
  BY <1>2, <1>4, <1>5 DEF Image
<1>7. ASSUME safe > 0
      PROVE  /\ Above(g, safe) /\ Above(file, safe)
             /\ s.commit \in Nat /\ m.commit \in Nat /\ c \in Nat /\ s.commit >= c
             /\ m.commit >= c /\ cm.commit >= c
             /\ \A p \in 1..safe : g[p] = file[p]
             /\ file[safe].kind = "meta"
  <2>1. /\ file[safe].kind = "meta" /\ m.commit >= c /\ cm.commit >= c
        /\ \A p \in (safe + 1)..Len(Image) :
            /\ Image[p].kind = "entry" => Image[p].index > c
            /\ Image[p].kind = "meta" => Image[p].commit >= c
    BY <1>7 DEF FloorInv, CF!IsMeta
  <2>2. file[safe] \in MetaRecs
    BY <2>1, <1>2, <1>7, RecordKinds
  <2>3. s.commit \in Nat /\ m.commit \in Nat /\ c \in Nat
    BY <2>2, <1>1 DEF TypeOK, MetaState, MetaRecs, Indexes
  <2>4. s.commit >= c
    BY <2>1, <2>3
  <2>5. \A p \in 1..safe : g[p] = file[p]
    BY <1>2, <1>4, SMTT(40)
  <2>6. g[safe] = file[safe]
    BY <2>5, <1>2, <1>7
  <2>7. ASSUME NEW p \in (safe + 1)..Len(g)
        PROVE  /\ g[p].kind = "entry" => g[p].index > c
               /\ g[p].kind = "meta" => g[p].commit >= c
    <3>1. CASE p = Len(g)
      BY <3>1, <2>4, <1>3, <1>4
    <3>2. CASE p # Len(g)
      <4>1. p \in (safe + 1)..Len(Image) /\ p \in 1..Len(Image)
        BY <3>2, <1>2, <1>4
      <4>2. g[p] = Image[p]
        BY <4>1, <1>4
      <4> QED
        BY <4>1, <4>2, <2>1
    <3> QED
      BY <3>1, <3>2
  <2>8. Above(g, safe)
    BY <2>6, <2>7 DEF Above
  <2>9. Above(file, safe)
    <3>1. \A p \in (safe + 1)..Len(file) : p \in (safe + 1)..Len(Image) /\ file[p] = Image[p]
      BY <1>2
    <3> QED
      BY <2>1, <3>1 DEF Above
  <2> QED
    BY <2>1, <2>3, <2>4, <2>5, <2>8, <2>9
<1>8. ASSUME safe > 0
      PROVE  /\ safe' >= safe /\ Len(file') >= safe
             /\ \A p \in 1..safe : file'[p] = file[p]
             /\ Above(file', safe)
  BY <1>2, <1>4, <1>5, <1>7, <1>8
<1>9. CASE file' = g /\ safe' = Len(g) /\ m' = s /\ cm' = s /\ pend' = <<>>
  <2>1. file'[safe'] = md /\ Len(Image') = safe' /\ safe' \in Nat
    BY <1>2, <1>4, <1>6, <1>9
  <2>2. s.commit >= s.commit
    BY <1>1 DEF MetaState, Indexes
  <2>3. FloorInv'
    BY <2>1, <2>2, <1>3, <1>9 DEF FloorInv, CF!IsMeta
  <2> QED
    BY <2>3, <1>8 DEF Extends
<1>10. CASE file' \in {file, g} /\ safe' = safe /\ m' = cm /\ cm' = cm /\ pend' = <<>>
  <2>1. ASSUME safe > 0
        PROVE  /\ CF!IsMeta(file'[safe])
               /\ file'[safe] = file[safe]
               /\ m'.commit >= c /\ cm'.commit >= c
    <3>1. safe \in 1..safe
      BY <1>2, <2>1
    <3> QED
      BY <3>1, <2>1, <1>7, <1>8, <1>10 DEF CF!IsMeta
  <2>2. FloorInv'
    BY <2>1, <1>6, <1>8, <1>10 DEF FloorInv, Above
  <2> QED
    BY <2>2, <1>8 DEF Extends
<1> QED
  BY <1>5, <1>9, <1>10

\* Nothing else moves the floor.
LEMMA FloorStep ==
  ASSUME TableInv, RecoveryInv, FloorInv, [Next]_vars
  PROVE  FloorInv' /\ (safe > 0 => AdoptCompacted \/ Extends(safe))
<1> DEFINE c == file[safe].commit
<1>1. TypeOK
  BY DEF TableInv
<1>2. /\ Image \in Seq(Records) /\ file \in Seq(Records)
      /\ Len(Image) = Len(file) + Len(pend) /\ Len(file) \in Nat /\ Len(pend) \in Nat
      /\ \A p \in 1..Len(file) : Image[p] = file[p]
      /\ safe \in 0..Len(file)
  BY <1>1, ImageFacts DEF TypeOK
<1>3. ASSUME safe > 0
      PROVE  /\ file[safe].kind = "meta" /\ c \in Nat /\ Above(file, safe)
             /\ \A p \in (safe + 1)..Len(Image) :
                 /\ Image[p].kind = "entry" => Image[p].index > c
                 /\ Image[p].kind = "meta" => Image[p].commit >= c
             /\ up => m.commit >= c /\ cm.commit >= c
  <2>1. /\ file[safe].kind = "meta"
        /\ \A p \in (safe + 1)..Len(Image) :
            /\ Image[p].kind = "entry" => Image[p].index > c
            /\ Image[p].kind = "meta" => Image[p].commit >= c
        /\ up => m.commit >= c /\ cm.commit >= c
    BY <1>3 DEF FloorInv, CF!IsMeta
  <2>2. file[safe] \in MetaRecs
    BY <2>1, <1>2, <1>3, RecordKinds
  <2>3. c \in Nat
    BY <2>2 DEF MetaRecs, Indexes
  <2>4. \A p \in (safe + 1)..Len(file) : p \in (safe + 1)..Len(Image) /\ file[p] = Image[p]
    BY <1>2
  <2>5. Above(file, safe)
    BY <2>1, <2>4 DEF Above
  <2> QED
    BY <2>1, <2>3, <2>5
<1>4. UNCHANGED <<file, safe>> => (safe > 0 => Extends(safe))
  BY <1>2, <1>3 DEF Extends
<1>5. ASSUME NEW b \in Bases, Create(b) PROVE FloorInv' /\ safe = 0
  <2>1. safe = 0 /\ safe' = 0 /\ dst' = NoDst
    BY <1>2, <1>5 DEF Create, TableInv, ClosedState
  <2> QED
    BY <2>1 DEF FloorInv
<1>6. CASE Open
  <2>1. /\ UNCHANGED <<file, safe, pend, dst>> /\ file # <<>> /\ pend = <<>> /\ dst = NoDst
        /\ m' = RecoveredMeta(file) /\ cm' = RecoveredMeta(file)
    BY <1>6 DEF Open, Openable, LoadFrom, TableInv, ClosedState
  <2>2. Len(file) > 0 /\ file[Len(file)].kind = "meta" /\ Image' = Image /\ Image = file
    BY <2>1, <1>1, <1>2, ImageFacts DEF TableInv, WholeLog, Image
  <2>3. ASSUME safe > 0 PROVE file[Len(file)].commit >= c
    <3>1. CASE safe = Len(file)
      BY <3>1, <2>3, <1>3
    <3>2. CASE safe # Len(file)
      <4>1. Len(file) \in (safe + 1)..Len(file)
        BY <3>2, <1>2
      <4> QED
        BY <4>1, <2>2, <2>3, <1>3
    <3> QED
      BY <3>1, <3>2
  <2>4. RecoveredMeta(file).commit = file[Len(file)].commit
    BY DEF RecoveredMeta
  <2>5. FloorInv'
    BY <2>1, <2>2, <2>3, <2>4 DEF FloorInv
  <2> QED
    BY <2>1, <2>5, <1>4
<1>7. CASE Crash
  <2>1. PICK k \in CF!CrashPoints(file, safe) : file' = SubSeq(file, 1, k)
    BY <1>7 DEF Crash
  <2>2. k \in 0..Len(file) /\ k >= safe
    BY <2>1, <1>2 DEF CF!CrashPoints, CF!CommitEnds
  <2>3. file' \in Seq(Records) /\ Len(file') = k /\ \A p \in 1..k : file'[p] = file[p]
    BY <2>1, <2>2, <1>2
  <2>4. pend' = <<>> /\ up' = FALSE /\ dst' = NoDst /\ safe' = safe /\ Image' = file'
    BY <2>3, <1>7 DEF Crash, Image
  <2>5. ASSUME safe > 0
        PROVE  /\ file'[safe] = file[safe] /\ Above(file', safe)
    <3>1. safe \in 1..k
      BY <2>2, <2>5, <1>2
    <3>2. \A p \in (safe + 1)..Len(file') : p \in (safe + 1)..Len(file) /\ file'[p] = file[p]
      BY <2>2, <2>3, <1>2
    <3> QED
      BY <3>1, <3>2, <2>3, <2>5, <1>3 DEF Above
  <2>6. FloorInv'
    BY <2>4, <2>5, <1>3 DEF FloorInv, Above, CF!IsMeta
  <2>7. safe > 0 => Extends(safe)
    BY <2>2, <2>3, <2>4, <2>5, <1>2 DEF Extends
  <2> QED
    BY <2>6, <2>7
<1>8. ASSUME NEW t \in Terms, NEW v \in Value, AppendEntry(t, v)
      PROVE  FloorInv' /\ UNCHANGED <<file, safe>>
  <2>1. up /\ dst = NoDst /\ UNCHANGED <<file, safe, up, cm, dst>>
    BY <1>8 DEF AppendEntry, Ready
  <2>2. CASE Discard
    <3>1. pend' = <<>> /\ m' = cm /\ Image' = file
      BY <2>1, <2>2, <1>2 DEF Discard, Image
    <3> QED
      BY <3>1, <2>1, <1>3 DEF FloorInv, Above, CF!IsMeta
  <2>3. CASE ~ Discard
    <3> DEFINE e == Entry(m.last + 1, t, v)
    <3>1. /\ e \in EntryRecs /\ e.index = m.last + 1 /\ Image' = Append(Image, e)
          /\ m'.commit = m.commit
      BY <2>3, <1>8, AppendedState, ZenonT(60)
    <3>2. m.last \in Nat /\ m.commit \in Nat /\ m.commit <= m.last
      BY <2>1, <1>1 DEF TypeOK, MetaState, Indexes, RecoveryInv, OpenRecovery, Bounds
    <3>3. e.kind = "entry" /\ e \in Records
      BY <3>1 DEF EntryRecs, Records
    <3> HIDE DEF e
    <3>4. /\ Len(Image') = Len(Image) + 1 /\ Image'[Len(Image) + 1] = e
          /\ \A p \in 1..Len(Image) : Image'[p] = Image[p]
      BY <3>1, <3>3, <1>2
    <3>5. ASSUME safe > 0, NEW p \in (safe + 1)..Len(Image')
          PROVE  /\ Image'[p].kind = "entry" => Image'[p].index > c
                 /\ Image'[p].kind = "meta" => Image'[p].commit >= c
      <4>1. CASE p = Len(Image) + 1
        <5>1. e.index > c
          BY <3>1, <3>2, <3>5, <2>1, <1>3
        <5> QED
          BY <4>1, <5>1, <3>3, <3>4
      <4>2. CASE p # Len(Image) + 1
        <5>1. p \in (safe + 1)..Len(Image) /\ p \in 1..Len(Image)
          BY <4>2, <3>4, <3>5, <1>2
        <5> QED
          BY <5>1, <3>4, <3>5, <1>3
      <4> QED
        BY <4>1, <4>2
    <3> QED
      BY <3>1, <3>5, <2>1, <1>3 DEF FloorInv, CF!IsMeta
  <2> QED
    BY <2>1, <2>2, <2>3
<1>9. CASE Sync
  <2>1. /\ up /\ dst = NoDst /\ CommitState(m) /\ UNCHANGED <<up, base, ents, dst>>
        /\ m \in MetaState /\ m.commit >= m.commit
    BY <1>1, <1>9 DEF Sync, Ready, TypeOK, MetaState, Indexes
  <2> QED
    BY <2>1, CommitFloor
<1>10. ASSUME NEW t \in Terms, NEW v \in Node \cup {NoVote}, SetHardState(t, v)
       PROVE  FloorInv' /\ (safe > 0 => Extends(safe))
  <2> DEFINE s == HardState(t, v)
  <2>1. /\ up /\ dst = NoDst /\ UNCHANGED <<up, base, ents, dst>> /\ CommitState(s)
    BY <1>10 DEF SetHardState, Ready, CommitState
  <2>2. s \in MetaState /\ s.commit = m.commit
    BY <1>1 DEF TypeOK, MetaState, HardState
  <2> HIDE DEF s
  <2>3. s.commit >= m.commit
    BY <2>2 DEF MetaState, Indexes
  <2> QED
    BY <2>1, <2>2, <2>3, CommitFloor
<1>11. ASSUME NEW i \in Indexes, TruncateFrom(i)
       PROVE  FloorInv' /\ (safe > 0 => Extends(safe))
  <2> DEFINE s == Truncated(i)
  <2>1. up /\ dst = NoDst /\ UNCHANGED <<up, base, ents, dst>>
    BY <1>11 DEF TruncateFrom, Ready
  <2>2. s \in MetaState /\ CommitState(s) /\ s.commit = m.commit
    BY <1>11, TruncatedState
  <2>3. s.commit >= m.commit
    BY <2>2 DEF MetaState, Indexes
  <2> HIDE DEF s
  <2> QED
    BY <2>1, <2>2, <2>3, CommitFloor
<1>12. ASSUME NEW i \in Indexes, SetCommitIndex(i)
       PROVE  FloorInv' /\ UNCHANGED <<file, safe>>
  <2>1. /\ up /\ m'.commit = i /\ i >= m.commit /\ m.commit \in Nat /\ i \in Nat /\ dst = NoDst
        /\ UNCHANGED <<file, safe, up, pend, cm, dst>> /\ Image' = Image
    BY <1>1, <1>12 DEF SetCommitIndex, Ready, TypeOK, MetaState, Indexes, Image
  <2> QED
    BY <2>1, <1>3 DEF FloorInv, CF!IsMeta
<1>13. ASSUME NEW i \in Indexes, Compact(i)
       PROVE  FloorInv' /\ UNCHANGED <<file, safe>>
  <2>1. /\ i \in base.index..m.last /\ dst' = Compacted(i)
        /\ UNCHANGED <<file, safe, up, pend, base, m, cm, ents>>
    BY <1>13 DEF Compact
  <2>2. Image' = Image
    BY <2>1 DEF Image
  <2>3. Compacted(i)' = Compacted(i)
    BY <2>1, <2>2 DEF Compacted, TermAt
  <2> QED
    BY <2>1, <2>2, <2>3 DEF FloorInv
<1>14. CASE AdoptCompacted
  <2>1. /\ file' = dst /\ safe' = Len(dst) /\ dst' = NoDst /\ pend' = <<>>
        /\ m' = RecoveredMeta(dst) /\ cm' = RecoveredMeta(dst)
        /\ WholeLog(dst) /\ dst \in Seq(Records)
    BY <1>1, <1>14 DEF AdoptCompacted, LoadFrom, TableInv, TypeOK
  <2>2. Image' = dst
    BY <2>1 DEF Image
  <2>3. \A p \in (Len(dst) + 1)..Len(dst) : FALSE
    BY <2>1
  <2>4. RecoveredMeta(dst).commit = dst[Len(dst)].commit
    BY DEF RecoveredMeta
  <2>5. ASSUME Len(dst) > 0 PROVE dst[Len(dst)].commit >= dst[Len(dst)].commit
    <3>1. dst[Len(dst)] \in MetaRecs
      BY <2>1, <2>5, RecordKinds DEF WholeLog
    <3> QED
      BY <3>1 DEF MetaRecs, Indexes
  <2>6. FloorInv'
    BY <2>1, <2>2, <2>3, <2>4, <2>5 DEF FloorInv, CF!IsMeta, WholeLog
  <2> QED
    BY <2>6, <1>14
<1>15. CASE UNCHANGED vars
  <2>1. UNCHANGED <<file, safe, up, pend, base, m, cm, ents, dst>>
    BY <1>15 DEF vars
  <2>2. Image' = Image
    BY <2>1 DEF Image
  <2>3. \A nb \in base.index..m.last : Compacted(nb)' = Compacted(nb)
    BY <2>1, <2>2 DEF Compacted, TermAt
  <2>4. FloorInv'
    BY <2>1, <2>2, <2>3 DEF FloorInv
  <2> QED
    BY <2>1, <2>4, <1>4
<1> QED
  BY <1>4, <1>5, <1>6, <1>7, <1>8, <1>9, <1>10, <1>11, <1>12, <1>13, <1>14, <1>15 DEF Next

\* No record at or below a durable commit index is ever superseded, and a compaction in
\* flight is a copy of the live log.
LEMMA FloorInvariant == Spec => []FloorInv
<1>1. Init => FloorInv
  BY DEF Init, FloorInv
<1> QED
  BY <1>1, FloorStep, TableInvariant, RecoveryInvariant, PTL DEF Spec

-----------------------------------------------------------------------------
(* What a reopen reads.                                                    *)

\* The slots a reopened log shows.
LEMMA ReopenedLog ==
  ASSUME NEW f \in Seq(Records), Sound(f), WholeLog(f)
  PROVE  LET b == LastBase(f)
             n == RecoveredMeta(f).n
         IN
         /\ b \in BaseRecs /\ b.index \in Nat /\ n \in Nat
         /\ f[Len(f)].last = b.index + n /\ f[Len(f)].commit <= f[Len(f)].last
         /\ Reopened(f).base = b /\ Reopened(f).commit = f[Len(f)].commit
         /\ Reopened(f).term = f[Len(f)].term /\ Reopened(f).vote = f[Len(f)].vote
         /\ Len(Reopened(f).log) = n
         /\ \A j \in 1..n : Reopened(f).log[j] = [term |-> RecoveredEnts(f)[j].term,
                                                  val  |-> f[RecoveredEnts(f)[j].off].val]
<1> DEFINE b == LastBase(f)
           n == RecoveredMeta(f).n
<1>1. Openable(f)
  BY DEF Sound
<1>2. /\ b \in BaseRecs /\ f[Len(f)] \in MetaRecs /\ RecoveredMeta(f) \in MetaState
      /\ n = f[Len(f)].last - b.index
  BY <1>1, Recovered DEF RecoveredMeta
<1>3. n \in Nat
  BY <1>1, RecoveredSlots
<1>4. b.index \in Nat /\ f[Len(f)].last \in Nat
  BY <1>2 DEF BaseRecs, MetaRecs, Indexes
<1>5. f[Len(f)].last = b.index + n
  BY <1>2, <1>3, <1>4
<1>6. f[Len(f)].commit <= f[Len(f)].last
  BY <1>1 DEF Openable
<1>7. Reopened(f) = Shown(b, RecoveredMeta(f), RecoveredEnts(f), f)
  BY DEF Reopened, LastBase
<1> HIDE DEF n
<1>8. /\ Reopened(f).base = b /\ Reopened(f).commit = RecoveredMeta(f).commit
      /\ Reopened(f).term = RecoveredMeta(f).term /\ Reopened(f).vote = RecoveredMeta(f).vote
      /\ Reopened(f).log = [j \in 1..n |-> [term |-> RecoveredEnts(f)[j].term,
                                            val  |-> f[RecoveredEnts(f)[j].off].val]]
  BY <1>7 DEF Shown, n
<1>9. /\ RecoveredMeta(f).commit = f[Len(f)].commit /\ RecoveredMeta(f).term = f[Len(f)].term
      /\ RecoveredMeta(f).vote = f[Len(f)].vote
  BY DEF RecoveredMeta
<1>10. Len(Reopened(f).log) = n
  BY <1>3, <1>8
<1> QED
  BY <1>2, <1>3, <1>4, <1>5, <1>6, <1>8, <1>9, <1>10 DEF n

\* A cut of a log at a metadata record is a whole log of its base.
LEMMA CutWhole ==
  ASSUME NEW f \in Seq(Records), NEW b, WellFormed(f, b), NEW k \in 1..Len(f),
         f[k].kind = "meta"
  PROVE  LET h == SubSeq(f, 1, k) IN
         /\ h \in Seq(Records) /\ Len(h) = k /\ h[k] = f[k]
         /\ \A p \in 1..k : h[p] = f[p]
         /\ EntryPos(h) = {p \in EntryPos(f) : p <= k}
         /\ WholeLog(h) /\ LastBase(h) = b
<1> DEFINE h == SubSeq(f, 1, k)
<1>1. h \in Seq(Records) /\ Len(h) = k /\ \A p \in 1..k : h[p] = f[p]
  OBVIOUS
<1>2. WellFormed(h, b)
  BY WellFormedPrefix
<1> HIDE DEF h
<1>3. EntryPos(h) = {p \in EntryPos(f) : p <= k}
  BY <1>1 DEF EntryPos
<1>4. LastBase(h) = b
  BY <1>1 DEF LastBase, WellFormed
<1> QED
  BY <1>1, <1>2, <1>3, <1>4 DEF WholeLog, h

\* Two cuts of one log, with nothing written below the commit index of the first in
\* between, show the same entries up to it.
LEMMA CutsAgree ==
  ASSUME NEW f \in Seq(Records), NEW b, WellFormed(f, b),
         NEW q \in 1..Len(f), f[q].kind = "meta", Sound(SubSeq(f, 1, q)),
         NEW k \in q..Len(f), f[k].kind = "meta", Sound(SubSeq(f, 1, k)),
         Above(f, q)
  PROVE  LET s == Reopened(SubSeq(f, 1, q))
             r == Reopened(SubSeq(f, 1, k))
         IN
         /\ s.base = b /\ r.base = b /\ s.commit = f[q].commit /\ b.index \in Nat
         /\ \A j \in 1..(s.commit - b.index) :
              /\ j \in 1..Len(s.log) /\ j \in 1..Len(r.log)
              /\ s.log[j] = r.log[j]
<1> DEFINE g == SubSeq(f, 1, q)
           h == SubSeq(f, 1, k)
           s == Reopened(g)
           r == Reopened(h)
           n == RecoveredMeta(g).n
           l == RecoveredMeta(h).n
<1>1. k \in 1..Len(f) /\ q <= k /\ Len(f) \in Nat
  OBVIOUS
<1>2. /\ g \in Seq(Records) /\ Len(g) = q /\ \A p \in 1..q : g[p] = f[p]
      /\ EntryPos(g) = {p \in EntryPos(f) : p <= q}
      /\ WholeLog(g) /\ LastBase(g) = b
  BY CutWhole
<1>3. /\ h \in Seq(Records) /\ Len(h) = k /\ \A p \in 1..k : h[p] = f[p]
      /\ EntryPos(h) = {p \in EntryPos(f) : p <= k}
      /\ WholeLog(h) /\ LastBase(h) = b
  BY <1>1, CutWhole
<1> HIDE DEF g, h
<1>4. /\ b.index \in Nat /\ n \in Nat
      /\ g[q].last = b.index + n /\ g[q].commit <= g[q].last
      /\ s.base = b /\ s.commit = g[q].commit /\ Len(s.log) = n
      /\ \A j \in 1..n : s.log[j] = [term |-> RecoveredEnts(g)[j].term,
                                     val  |-> g[RecoveredEnts(g)[j].off].val]
  BY <1>2, ReopenedLog DEF g
<1>5. /\ l \in Nat
      /\ h[k].last = b.index + l /\ h[k].commit <= h[k].last
      /\ r.base = b /\ Len(r.log) = l
      /\ \A j \in 1..l : r.log[j] = [term |-> RecoveredEnts(h)[j].term,
                                     val  |-> h[RecoveredEnts(h)[j].off].val]
  BY <1>3, ReopenedLog DEF h
<1>6. g[q] = f[q] /\ h[k] = f[k]
  BY <1>1, <1>2, <1>3
<1>7. f[k].commit >= f[q].commit /\ f[q].commit \in Nat /\ f[k].commit \in Nat
  <2>1. f[q] \in MetaRecs /\ f[k] \in MetaRecs
    BY <1>1, RecordKinds
  <2>2. f[q].commit \in Nat /\ f[k].commit \in Nat
    BY <2>1 DEF MetaRecs, Indexes
  <2>3. CASE k = q
    BY <2>2, <2>3
  <2>4. CASE k # q
    <3>1. k \in (q + 1)..Len(f)
      BY <2>4, <1>1
    <3> QED
      BY <3>1, <2>2 DEF Above
  <2> QED
    BY <2>2, <2>3, <2>4
<1> HIDE DEF s, r, n, l
<1>8. ASSUME NEW j \in 1..(f[q].commit - b.index)
      PROVE  j \in 1..n /\ j \in 1..l /\ s.log[j] = r.log[j]
  <2>1. j \in 1..n /\ j \in 1..l /\ b.index + j <= f[q].commit
    <3>1. f[q].commit <= b.index + n /\ b.index \in Nat /\ n \in Nat
      BY <1>4, <1>6
    <3>2. f[k].commit <= b.index + l /\ l \in Nat
      BY <1>5, <1>6
    <3>3. f[q].commit <= f[k].commit /\ f[q].commit \in Nat /\ f[k].commit \in Nat
      BY <1>7
    <3> QED
      BY <3>1, <3>2, <3>3, SMTT(40)
  <2> DEFINE i == b.index + j
             o == SlotPos(g, i)
  <2>2. /\ o \in EntryPos(g) /\ g[o].index = i
        /\ \A p \in EntryPos(g) : g[p].index = i => p <= o
        /\ RecoveredEnts(g)[j].off = o /\ RecoveredEnts(g)[j].term = g[o].term
    BY <2>1, <1>2, RecoveredSlots DEF Sound, n, g
  <2>3. /\ RecoveredEnts(h)[j].off = SlotPos(h, i)
        /\ RecoveredEnts(h)[j].term = h[SlotPos(h, i)].term
    BY <2>1, <1>3, RecoveredSlots DEF Sound, l, h
  <2> HIDE DEF o
  <2>4. o \in EntryPos(f) /\ o \in 1..q /\ o \in EntryPos(h) /\ h[o] = g[o]
    BY <2>2, <1>1, <1>2, <1>3 DEF EntryPos
  <2>5. ASSUME NEW p \in EntryPos(h), p > o PROVE h[p].index # i
    <3>1. p \in EntryPos(f) /\ p \in 1..k /\ h[p] = f[p] /\ f[p].kind = "entry"
      BY <2>5, <1>3 DEF EntryPos
    <3>2. CASE p <= q
      <4>1. p \in EntryPos(g) /\ g[p] = f[p]
        BY <3>1, <3>2, <1>1, <1>2
      <4> QED
        BY <4>1, <3>1, <2>2, <2>4, <2>5
    <3>3. CASE ~ (p <= q)
      <4>1. p \in (q + 1)..Len(f)
        BY <3>1, <3>3, <1>1
      <4>2. f[p].index > f[q].commit /\ f[p] \in EntryRecs
        BY <4>1, <3>1, <1>1, RecordKinds DEF Above
      <4>3. f[p].index \in Nat
        BY <4>2 DEF EntryRecs, Indexes
      <4> QED
        BY <4>2, <4>3, <3>1, <2>1, <1>4, <1>7, SMTT(40)
    <3> QED
      BY <3>2, <3>3
  <2>6. SlotPos(h, i) = o
    BY <2>2, <2>4, <2>5, <1>3, SlotPosIs, SMTT(40)
  <2>7. s.log[j] = [term |-> g[o].term, val |-> g[o].val]
    <3>1. s.log[j] = [term |-> RecoveredEnts(g)[j].term, val |-> g[RecoveredEnts(g)[j].off].val]
      BY <2>1, <1>4
    <3> QED
      BY <3>1, <2>2
  <2>8. r.log[j] = [term |-> h[o].term, val |-> h[o].val]
    <3>1. r.log[j] = [term |-> RecoveredEnts(h)[j].term, val |-> h[RecoveredEnts(h)[j].off].val]
      BY <2>1, <1>5
    <3> QED
      BY <3>1, <2>3, <2>6
  <2> QED
    BY <2>1, <2>4, <2>7, <2>8
<1> QED
  BY <1>4, <1>5, <1>6, <1>8 DEF s, r, g, h

\* The newest durable commit is sound, and is one of the states a crash may leave.
LEMMA DurableSound ==
  ASSUME TableInv, RecoveryInv, FloorInv, safe > 0
  PROVE  /\ safe \in 1..Len(file) /\ file[safe].kind = "meta"
         /\ WellFormed(file, LastBase(file))
         /\ Sound(SubSeq(file, 1, safe))
<1>1. safe \in 1..Len(file) /\ file \in Seq(Records)
  BY DEF TableInv, TypeOK
<1>2. file[safe].kind = "meta"
  BY DEF FloorInv, CF!IsMeta
<1>3. safe \in CF!CrashPoints(file, safe)
  BY <1>1, <1>2 DEF CF!CrashPoints, CF!CommitEnds, CF!IsMeta
<1>4. file # <<>>
  BY <1>1
<1> QED
  BY <1>1, <1>2, <1>3, <1>4 DEF RecoveryInv, TableInv, WholeLog

\* Commits, crashes and reopens keep every entry of the newest durable commit's
\* committed prefix.
LEMMA ExtendsKeepsCommitted ==
  ASSUME TableInv, RecoveryInv, FloorInv, TableInv', RecoveryInv', safe > 0, Extends(safe),
         NEW e \in Committed(SubSeq(file, 1, safe)), NEW k \in CF!CrashPoints(file', safe')
  PROVE  LET s == Reopened(SubSeq(file', 1, k)) IN
         /\ e[1] <= s.base.index + Len(s.log)
         /\ s.log[e[1] - s.base.index] = [term |-> e[2], val |-> e[3]]
<1> DEFINE f == file'
           b == LastBase(f)
           g == SubSeq(file, 1, safe)
           s == Reopened(SubSeq(f, 1, k))
           r == Reopened(g)
<1>1. /\ safe \in 1..Len(file) /\ file[safe].kind = "meta" /\ Sound(g)
      /\ file \in Seq(Records)
  BY DurableSound DEF TableInv, TypeOK
<1>2. /\ safe' >= safe /\ Len(f) >= safe /\ Above(f, safe)
      /\ \A p \in 1..safe : f[p] = file[p]
  BY DEF Extends
<1>3. f \in Seq(Records) /\ safe' \in Nat /\ Len(f) \in Nat
  BY DEF TableInv, TypeOK
<1>4. k \in safe..Len(f) /\ f[k].kind = "meta" /\ k > 0
  BY <1>1, <1>2, <1>3 DEF CF!CrashPoints, CF!CommitEnds, CF!IsMeta
<1>5. safe \in 1..Len(f) /\ f[safe].kind = "meta"
  BY <1>1, <1>2, <1>3
<1>6. WellFormed(f, b)
  <2>1. f # <<>>
    BY <1>3, <1>5
  <2> QED
    BY <2>1 DEF TableInv, WholeLog
<1>7. Sound(SubSeq(f, 1, k))
  BY <1>4 DEF RecoveryInv
<1>8. SubSeq(f, 1, safe) = g
  <2>1. /\ SubSeq(f, 1, safe) \in Seq(Records) /\ Len(SubSeq(f, 1, safe)) = safe
        /\ \A p \in 1..safe : SubSeq(f, 1, safe)[p] = f[p]
    BY <1>3, <1>5
  <2>2. g \in Seq(Records) /\ Len(g) = safe /\ \A p \in 1..safe : g[p] = file[p]
    BY <1>1
  <2> QED
    BY <2>1, <2>2, <1>2
<1> HIDE DEF f, b, g
<1>9. /\ r.base = b /\ s.base = b /\ b.index \in Nat
      /\ \A j \in 1..(r.commit - b.index) : j \in 1..Len(s.log) /\ r.log[j] = s.log[j]
  <2> DEFINE d == Reopened(SubSeq(f, 1, safe))
  <2>1. Sound(SubSeq(f, 1, safe))
    BY <1>1, <1>8
  <2>2. /\ d.base = b /\ s.base = b /\ b.index \in Nat
        /\ \A j \in 1..(d.commit - b.index) : j \in 1..Len(s.log) /\ d.log[j] = s.log[j]
    BY <2>1, <1>2, <1>3, <1>4, <1>5, <1>6, <1>7, CutsAgree
  <2>3. d = r
    BY <1>8
  <2> HIDE DEF d, r, s
  <2> QED
    BY <2>2, <2>3
<1> HIDE DEF s
<1>10. PICK j \in 1..(r.commit - b.index) :
         e = <<b.index + j, r.log[j].term, r.log[j].val>>
  <2>1. e \in Committed(g)
    BY DEF g
  <2> HIDE DEF r
  <2>2. e \in {<<r.base.index + j, r.log[j].term, r.log[j].val>> :
                 j \in 1..(r.commit - r.base.index)}
    BY <2>1 DEF Committed, r
  <2> QED
    BY <2>2, <1>9
<1>11. j \in 1..Len(s.log) /\ e[1] = b.index + j /\ e[1] - s.base.index = j
  BY <1>9, <1>10
<1>12. r.log[j] = [term |-> r.log[j].term, val |-> r.log[j].val]
  <2>1. /\ g \in Seq(Records) /\ WholeLog(g) /\ Sound(g) /\ Len(g) = safe
        /\ g[safe] = file[safe] /\ LastBase(g) = LastBase(file)
    BY DurableSound, CutWhole, <1>1 DEF g
  <2>2. /\ r.commit <= g[safe].last /\ r.commit = g[safe].commit
        /\ g[safe].last = r.base.index + RecoveredMeta(g).n
        /\ RecoveredMeta(g).n \in Nat
        /\ \A i \in 1..RecoveredMeta(g).n :
             r.log[i] = [term |-> RecoveredEnts(g)[i].term,
                         val  |-> g[RecoveredEnts(g)[i].off].val]
    BY <2>1, ReopenedLog
  <2>3. g[safe] \in MetaRecs
    BY <2>1, <1>1, RecordKinds
  <2>4. r.commit \in Nat
    BY <2>2, <2>3 DEF MetaRecs, Indexes
  <2> HIDE DEF r
  <2>5. j \in 1..RecoveredMeta(g).n
    BY <2>2, <2>4, <1>9
  <2>6. r.log[j] = [term |-> RecoveredEnts(g)[j].term,
                    val  |-> g[RecoveredEnts(g)[j].off].val]
    BY <2>2, <2>5
  <2> QED
    BY <2>6
<1> HIDE DEF r
<1>13. e[1] <= s.base.index + Len(s.log)
  BY <1>9, <1>11
<1>14. s.log[e[1] - s.base.index] = [term |-> e[2], val |-> e[3]]
  BY <1>9, <1>10, <1>11, <1>12
<1> QED
  BY <1>13, <1>14 DEF s, f

\* A compacted copy reads back as the live log from the new base on.
CopyReading(nb) ==
  [base   |-> [index |-> nb, term |-> TermAt(nb)],
   term   |-> m.term, vote |-> m.vote,
   commit |-> IF m.commit < nb THEN nb ELSE m.commit,
   log    |-> [j \in 1..(m.last - nb) |->
                 [term |-> ents[nb - base.index + j].term,
                  val  |-> Image[ents[nb - base.index + j].off].val]]]

LEMMA CopyReads ==
  ASSUME TableInv, RecoveryInv, up, NEW nb \in base.index..m.last
  PROVE  Compacted(nb) \in Seq(Records) /\ Reopened(Compacted(nb)) = CopyReading(nb)
<1> DEFINE cb == CopyBase(nb)
           cs == CopyState(nb)
           E  == CopyEntries(nb)
           d  == nb - base.index
           f  == <<Header>> \o E \o <<Metadata(cb, cs)>>
           r  == RecoveredEnts(f)
<1>1. /\ Compacted(nb) = f
      /\ cb \in BaseRecs /\ cb.index = nb /\ cb.term = TermAt(nb)
      /\ cs \in MetaState /\ cs.last = m.last /\ cs.lastTerm = m.lastTerm
      /\ cs.term = m.term /\ cs.vote = m.vote
      /\ cs.commit = IF m.commit < nb THEN nb ELSE m.commit
      /\ E \in Seq(Records) /\ Len(E) = m.last - nb
      /\ \A j \in 1..Len(E) : /\ E[j] = Image[ents[d + j].off]
                              /\ E[j].term = ents[d + j].term
                              /\ E[j].kind = "entry" /\ E[j].index = cb.index + j
                              /\ E[j].term >= cb.term
                              /\ \A i \in 1..j : E[i].term <= E[j].term
      /\ cs.lastTerm = IF Len(E) = 0 THEN cb.term ELSE E[Len(E)].term
      /\ cs.term >= cs.lastTerm /\ cs.commit <= cs.last
  BY CompactedCopy
<1>2. base.index \in Nat /\ m.last \in Nat /\ base.index <= m.last
  BY DEF TableInv, TypeOK, OpenState, BaseRecs, MetaState, Indexes
<1>3. nb <= m.last
  BY <1>2
<1>4. Len(E) = cs.last - cb.index /\ cb.index <= cs.last
  BY <1>1, <1>3
<1> HIDE DEF cb, cs, E, d
<1>5. /\ f \in Seq(Records) /\ WholeLog(f) /\ LastBase(f) = cb /\ Sound(f)
      /\ RecoveredMeta(f) = [last |-> cs.last, lastTerm |-> cs.lastTerm, term |-> cs.term,
                             vote |-> cs.vote, commit |-> cs.commit, n |-> Len(E)]
      /\ \A j \in 1..Len(E) : /\ RecoveredEnts(f)[j].off = j + 1
                              /\ RecoveredEnts(f)[j].term = E[j].term
                              /\ f[j + 1] = E[j]
  BY <1>1, <1>4, CopySound
<1> HIDE DEF f
<1>6. \A j \in 1..Len(E) : /\ r[j].term = ents[d + j].term
                           /\ f[r[j].off].val = Image[ents[d + j].off].val
  <2> TAKE j \in 1..Len(E)
  <2>1. r[j].off = j + 1 /\ r[j].term = E[j].term /\ f[j + 1] = E[j]
    BY <1>5
  <2>2. E[j] = Image[ents[d + j].off] /\ E[j].term = ents[d + j].term
    BY <1>1
  <2> QED
    BY <2>1, <2>2
<1> HIDE DEF r
<1>7. Reopened(f) = [base |-> cb, term |-> cs.term, vote |-> cs.vote, commit |-> cs.commit,
                     log |-> [j \in 1..Len(E) |-> [term |-> r[j].term,
                                                   val  |-> f[r[j].off].val]]]
  BY <1>5 DEF Reopened, Shown, LastBase, r
<1>8. cb = [index |-> nb, term |-> TermAt(nb)]
  BY <1>1 DEF BaseRecs
<1>9. [j \in 1..Len(E) |-> [term |-> r[j].term, val |-> f[r[j].off].val]]
        = [j \in 1..(m.last - nb) |-> [term |-> ents[d + j].term,
                                       val  |-> Image[ents[d + j].off].val]]
  BY <1>1, <1>6
<1> QED
  BY <1>1, <1>5, <1>7, <1>8, <1>9 DEF CopyReading, d

\* So does the switch to a compacted log, for those above its base.
LEMMA AdoptKeepsCommitted ==
  ASSUME TableInv, RecoveryInv, FloorInv, safe > 0, AdoptCompacted,
         NEW e \in Committed(SubSeq(file, 1, safe)), NEW k \in CF!CrashPoints(file', safe'),
         e[1] > Reopened(SubSeq(file', 1, k)).base.index
  PROVE  LET s == Reopened(SubSeq(file', 1, k)) IN
         /\ e[1] <= s.base.index + Len(s.log)
         /\ s.log[e[1] - s.base.index] = [term |-> e[2], val |-> e[3]]
<1> DEFINE g == SubSeq(file, 1, safe)
           r == Reopened(g)
           s == Reopened(dst)
           c == file[safe].commit
<1>1. /\ safe \in 1..Len(file) /\ file[safe].kind = "meta" /\ Sound(g)
      /\ file \in Seq(Records) /\ WellFormed(file, LastBase(file))
  BY DurableSound DEF TableInv, TypeOK
<1>2. /\ up /\ dst \in Seq(Records) /\ file' = dst /\ safe' = Len(dst) /\ Len(dst) \in Nat
      /\ pend = <<>> /\ OpenState /\ OpenRecovery /\ TypeOK
  BY DEF AdoptCompacted, TableInv, RecoveryInv, TypeOK
<1>3. PICK nb \in base.index..m.last : dst = Compacted(nb)
  BY DEF FloorInv, AdoptCompacted
<1>4. Reopened(SubSeq(file', 1, k)) = s
  <2>1. k = Len(dst)
    <3>1. dst # <<>>
      BY DEF AdoptCompacted, Openable
    <3> QED
      BY <3>1, <1>2 DEF CF!CrashPoints, CF!CommitEnds
  <2>2. SubSeq(dst, 1, Len(dst)) = dst
    BY <1>2
  <2> QED
    BY <2>1, <2>2, <1>2
<1> HIDE DEF s
\* What the copy shows.
<1> DEFINE d == nb - base.index
<1>5. /\ s.base.index = nb /\ base.index \in Nat /\ m.last \in Nat /\ base.index <= m.last
      /\ s.log = [j \in 1..(m.last - nb) |-> [term |-> ents[d + j].term,
                                              val  |-> Image[ents[d + j].off].val]]
  <2>1. s = CopyReading(nb)
    BY <1>2, <1>3, CopyReads DEF s
  <2>2. base.index \in Nat /\ m.last \in Nat /\ base.index <= m.last
    BY <1>2 DEF TypeOK, OpenState, BaseRecs, MetaState, Indexes
  <2> QED
    BY <2>1, <2>2 DEF CopyReading
<1>5a. Len(s.log) = m.last - nb /\ nb \in Nat /\ m.last - nb \in Nat /\ d \in Nat
  <2>1. nb \in Nat /\ m.last - nb \in Nat /\ d \in Nat
    BY <1>5
  <2> QED
    BY <1>5, <2>1
\* What the newest durable commit shows of its committed entries.
<1>6. /\ g \in Seq(Records) /\ Len(g) = safe /\ g[safe] = file[safe]
      /\ \A p \in 1..safe : g[p] = file[p]
      /\ EntryPos(g) = {p \in EntryPos(file) : p <= safe}
      /\ WholeLog(g) /\ LastBase(g) = LastBase(file) /\ base = LastBase(file)
  BY <1>1, <1>2, CutWhole DEF OpenState
<1>7. /\ r.base = base /\ r.commit = c /\ base.index \in Nat
      /\ c <= g[safe].last /\ g[safe].last = base.index + RecoveredMeta(g).n
      /\ RecoveredMeta(g).n \in Nat
      /\ \A j \in 1..RecoveredMeta(g).n :
           r.log[j] = [term |-> RecoveredEnts(g)[j].term,
                       val  |-> g[RecoveredEnts(g)[j].off].val]
  <2> HIDE DEF g
  <2> QED
    BY <1>1, <1>6, ReopenedLog
<1>8. PICK j \in 1..(c - base.index) : e = <<base.index + j, r.log[j].term, r.log[j].val>>
  <2>1. e \in Committed(g)
    OBVIOUS
  <2> HIDE DEF g, c, r
  <2>2. e \in {<<r.base.index + i, r.log[i].term, r.log[i].val>> :
                 i \in 1..(r.commit - r.base.index)}
    BY <2>1 DEF Committed, r
  <2> QED
    BY <2>2, <1>7
<1> HIDE DEF g, r
<1>9. /\ c \in Nat /\ m.last \in Nat /\ m.n \in Nat /\ m.n = m.last - base.index
      /\ m.commit \in Nat /\ c <= m.commit /\ m.commit <= m.last
  <2>1. file[safe] \in MetaRecs
    BY <1>1, RecordKinds
  <2>2. c \in Nat /\ m.last \in Nat /\ m.n \in Nat /\ m.commit \in Nat
    BY <2>1, <1>2 DEF MetaRecs, Indexes, TypeOK, MetaState
  <2>3. m.commit >= c /\ m.commit <= m.last /\ m.n = m.last - base.index
    BY <1>2 DEF FloorInv, OpenState, OpenRecovery, Bounds
  <2> QED
    BY <2>2, <2>3
<1>10. j \in 1..RecoveredMeta(g).n /\ j \in 1..m.n /\ base.index + j <= c
  <2> HIDE DEF c
  <2>1. j \in Nat /\ 1 <= j /\ base.index + j <= c
    BY <1>5, <1>9
  <2>2. base.index + j <= base.index + RecoveredMeta(g).n
    BY <2>1, <1>5, <1>7, <1>9
  <2>3. base.index + j <= m.last
    BY <2>1, <1>5, <1>9
  <2>4. j <= RecoveredMeta(g).n
    BY <2>1, <2>2, <1>5, <1>7
  <2>5. j <= m.n
    BY <2>1, <2>3, <1>5, <1>9
  <2> QED
    BY <2>1, <2>4, <2>5, <1>7, <1>9
\* The live slot of such an entry is the durable one.
<1> DEFINE i == base.index + j
           o == SlotPos(g, i)
<1>11. /\ o \in EntryPos(g) /\ g[o].index = i
       /\ RecoveredEnts(g)[j].off = o /\ RecoveredEnts(g)[j].term = g[o].term
  BY <1>1, <1>6, <1>10, RecoveredSlots DEF Sound
<1>12. /\ ents[j].off \in EntryPos(Image) /\ Image[ents[j].off].index = i
       /\ Image[ents[j].off].term = ents[j].term
       /\ \A p \in EntryPos(Image) : p > ents[j].off => Image[p].index # i
  BY <1>2, <1>10 DEF OpenState, OpenRecovery, Slots, Current
<1>13. Image = file
  BY <1>2, ImageFacts
<1> HIDE DEF o
<1>14. ents[j].off <= safe
  <2>1. ents[j].off \in 1..Len(file) /\ file[ents[j].off].kind = "entry"
    BY <1>12, <1>13 DEF EntryPos
  <2>2. CASE ents[j].off \in (safe + 1)..Len(Image)
    <3>1. Image[ents[j].off].index > c
      BY <2>1, <2>2, <1>13 DEF FloorInv
    <3> QED
      BY <3>1, <1>7, <1>9, <1>10, <1>12
  <2> QED
    BY <2>1, <2>2, <1>1, <1>13
<1>15. ents[j].off = o
  <2>1. ents[j].off \in EntryPos(g) /\ g[ents[j].off] = file[ents[j].off]
    BY <1>6, <1>12, <1>13, <1>14 DEF EntryPos
  <2>2. \A p \in EntryPos(g) : p \in EntryPos(Image) /\ g[p] = Image[p]
    BY <1>6, <1>13 DEF EntryPos
  <2>3. SlotPos(g, i) = ents[j].off
    BY <2>1, <2>2, <1>6, <1>12, <1>13, SlotPosIs, SMTT(40)
  <2> QED
    BY <2>3 DEF o
<1>16. r.log[j] = [term |-> ents[j].term, val |-> Image[ents[j].off].val]
  <2>1. o \in 1..safe /\ g[o] = Image[o]
    BY <1>6, <1>11, <1>13 DEF EntryPos
  <2>2. r.log[j] = [term |-> g[o].term, val |-> g[o].val]
    BY <1>7, <1>10, <1>11
  <2> QED
    BY <2>1, <2>2, <1>12, <1>15
<1>17. /\ j - d \in 1..(m.last - nb) /\ d + (j - d) = j
       /\ e[1] = base.index + j /\ e[1] - s.base.index = j - d /\ j - d <= m.last - nb
  <2>1. e[1] = base.index + j
    BY <1>7, <1>8
  <2>2. e[1] > nb
    BY <1>4, <1>5
  <2>3. j \in Nat /\ base.index + j <= m.last
    BY <1>5, <1>9, <1>10
  <2>4. /\ j - (nb - base.index) \in 1..(m.last - nb)
        /\ (nb - base.index) + (j - (nb - base.index)) = j
        /\ (base.index + j) - nb = j - (nb - base.index)
        /\ j - (nb - base.index) <= m.last - nb
    <3>1. base.index + j > nb
      BY <2>1, <2>2
    <3>2. \A b, n, l, x \in Nat :
            n <= l /\ b + x > n /\ b + x <= l =>
              /\ x - (n - b) \in 1..(l - n) /\ (n - b) + (x - (n - b)) = x
              /\ (b + x) - n = x - (n - b) /\ x - (n - b) <= l - n
      OBVIOUS
    <3>3. nb <= m.last
      BY <1>5
    <3>4. base.index \in Nat /\ m.last \in Nat /\ nb \in Nat
      BY <1>5, <1>5a
    <3>5. \A b, n, l, x \in Nat :
            b = base.index /\ n = nb /\ l = m.last /\ x = j =>
              n <= l /\ b + x > n /\ b + x <= l
      BY <3>1, <3>3, <2>3
    <3> QED
      BY <3>2, <3>4, <3>5, <2>3
  <2> QED
    BY <2>1, <2>4, <1>5
<1> HIDE DEF d
<1>18. s.log[j - d] = [term |-> ents[j].term, val |-> Image[ents[j].off].val]
  <2> DEFINE x == j - d
  <2>1. x \in 1..(m.last - nb) /\ d + x = j
    BY <1>17
  <2> HIDE DEF x
  <2>2. s.log[x] = [term |-> ents[d + x].term, val |-> Image[ents[d + x].off].val]
    BY <1>5, <2>1
  <2>3. s.log[x] = [term |-> ents[j].term, val |-> Image[ents[j].off].val]
    BY <2>1, <2>2
  <2> QED
    BY <2>3 DEF x
<1>19. e[2] = ents[j].term /\ e[3] = Image[ents[j].off].val
  BY <1>8, <1>16
<1>20. e[1] <= s.base.index + Len(s.log)
  BY <1>5, <1>5a, <1>17, <1>10, <1>9, SMTT(40)
<1> QED
  BY <1>4, <1>17, <1>18, <1>19, <1>20

\* Every step keeps what the newest durable commit recorded as committed.
LEMMA CommittedStep ==
  ASSUME TableInv, RecoveryInv, FloorInv, TableInv', RecoveryInv', [Next]_vars
  PROVE  safe > 0 =>
           \A e \in Committed(SubSeq(file, 1, safe)) :
             \A k \in CF!CrashPoints(file', safe') :
               LET s == Reopened(SubSeq(file', 1, k)) IN
               e[1] > s.base.index =>
                 /\ e[1] <= s.base.index + Len(s.log)
                 /\ s.log[e[1] - s.base.index] = [term |-> e[2], val |-> e[3]]
<1> SUFFICES ASSUME safe > 0,
                    NEW e \in Committed(SubSeq(file, 1, safe)),
                    NEW k \in CF!CrashPoints(file', safe'),
                    e[1] > Reopened(SubSeq(file', 1, k)).base.index
             PROVE  LET s == Reopened(SubSeq(file', 1, k)) IN
                    /\ e[1] <= s.base.index + Len(s.log)
                    /\ s.log[e[1] - s.base.index] = [term |-> e[2], val |-> e[3]]
  OBVIOUS
<1>1. AdoptCompacted \/ Extends(safe)
  BY FloorStep
<1>2. CASE AdoptCompacted
  BY <1>2, AdoptKeepsCommitted
<1>3. CASE Extends(safe)
  BY <1>3, ExtendsKeepsCommitted
<1> QED
  BY <1>1, <1>2, <1>3

\* An entry a durable commit recorded as committed is readable in every state any
\* later crash can lead to, until a compaction moves it below the base.
THEOREM CommittedSafe == Spec => CommittedNeverLost
<1>1. /\ TableInv /\ RecoveryInv /\ FloorInv /\ TableInv' /\ RecoveryInv' /\ [Next]_vars
      => [safe > 0 =>
            \A e \in Committed(SubSeq(file, 1, safe)) :
              \A k \in CF!CrashPoints(file', safe') :
                LET s == Reopened(SubSeq(file', 1, k)) IN
                e[1] > s.base.index =>
                  /\ e[1] <= s.base.index + Len(s.log)
                  /\ s.log[e[1] - s.base.index] = [term |-> e[2], val |-> e[3]]]_vars
  BY CommittedStep
<1> QED
  BY <1>1, TableInvariant, RecoveryInvariant, FloorInvariant, PTL DEF Spec, CommittedNeverLost

-----------------------------------------------------------------------------
(* The refinement of RaftLog.                                              *)

\* The refinement mapping.
Live   == IF up THEN Shown(base, m, ents, Image) ELSE Down
Saved  == IF up THEN Shown(base, cm, ents, file) ELSE Down
StateAt(f, k) == IF k = 0 THEN Absent ELSE Reopened(SubSeq(f, 1, k))
Stable == {StateAt(file, k) : k \in CF!CrashPoints(file, safe)}

-----------------------------------------------------------------------------
(* What the mapping yields.                                                *)

\* Slots with the same terms and payloads show the same state.
LEMMA ShownAgrees ==
  ASSUME NEW b, NEW s, NEW tbl, NEW f, NEW tbl2, NEW f2,
         \A j \in 1..s.n : /\ tbl2[j].term = tbl[j].term
                           /\ f2[tbl2[j].off].val = f[tbl[j].off].val
  PROVE  Shown(b, s, tbl2, f2) = Shown(b, s, tbl, f)
  BY DEF Shown

\* A log state is shown.
LEMMA ShownState ==
  ASSUME NEW b \in BaseRecs, NEW s \in MetaState, NEW tbl, NEW f \in Seq(Records),
         Slots(tbl, s.n, b, f), \A j \in 1..s.n : tbl[j].term \in Terms
  PROVE  LET r == Shown(b, s, tbl, f) IN
         /\ r \in LogStates /\ r # Down /\ r # Absent
         /\ r.base = b /\ r.term = s.term /\ r.vote = s.vote /\ r.commit = s.commit
         /\ Len(r.log) = s.n /\ s.n \in Nat
         /\ r.log = [j \in 1..s.n |-> [term |-> tbl[j].term, val |-> f[tbl[j].off].val]]
<1> DEFINE r == Shown(b, s, tbl, f)
           L == [j \in 1..s.n |-> [term |-> tbl[j].term, val |-> f[tbl[j].off].val]]
<1>1. /\ s.n \in Nat /\ s.term \in Terms /\ s.commit \in Indexes
      /\ s.vote \in Node \cup {NoVote}
  BY BoundsAssumption DEF MetaState, Indexes
<1>2. ASSUME NEW j \in 1..s.n
      PROVE  [term |-> tbl[j].term, val |-> f[tbl[j].off].val] \in [term : Terms, val : Value]
  <2>1. tbl[j].off \in 1..Len(f) /\ f[tbl[j].off].kind = "entry"
    BY DEF Slots, EntryPos
  <2>2. f[tbl[j].off] \in Records
    BY <2>1
  <2>3. f[tbl[j].off] \in EntryRecs
    BY <2>1, <2>2, RecordKinds
  <2> QED
    BY <2>3 DEF EntryRecs
<1>3. L \in Seq([term : Terms, val : Value]) /\ Len(L) = s.n
  <2> DEFINE S == [term : Terms, val : Value]
  <2>1. L \in [1..s.n -> S] /\ DOMAIN L = 1..s.n
    BY <1>2
  <2> HIDE DEF L, S
  <2>2. L \in Seq(S) /\ Len(L) = s.n
    BY <1>1, <2>1
  <2> QED
    BY <2>2 DEF S
<1>4. r = [base |-> b, term |-> s.term, vote |-> s.vote, commit |-> s.commit, log |-> L]
  BY DEF Shown
<1> HIDE DEF r, L
<1>5. r \in LogStates
  BY <1>1, <1>3, <1>4 DEF LogStates
<1>6. r # Down /\ r # Absent
  BY <1>5, MarkersAssumption
<1>7. r.base = b /\ r.term = s.term /\ r.vote = s.vote /\ r.commit = s.commit /\ r.log = L
  BY <1>4
<1>8. Len(r.log) = s.n
  BY <1>3, <1>7
<1> QED
  BY <1>1, <1>5, <1>6, <1>7, <1>8, Zenon DEF r, L

\* An open handle's two states.
LEMMA OpenStates ==
  ASSUME TableInv, up
  PROVE  /\ Live = Shown(base, m, ents, Image) /\ Live # Down /\ Live \in LogStates
         /\ Live.base = base /\ Live.term = m.term /\ Live.vote = m.vote
         /\ Live.commit = m.commit
         /\ Len(Live.log) = m.n /\ m.n \in Nat
         /\ Live.log = [j \in 1..m.n |-> [term |-> ents[j].term,
                                          val  |-> Image[ents[j].off].val]]
         /\ Saved = Shown(base, cm, ents, file)
         /\ cm.n \in 0..m.n
<1>1. TypeOK /\ OpenState
  BY DEF TableInv
<1>2. /\ base \in BaseRecs /\ m \in MetaState /\ cm \in MetaState
      /\ m.n \in Nat /\ cm.n \in Nat /\ m.last \in Nat /\ cm.last \in Nat /\ base.index \in Nat
  BY <1>1, BoundsAssumption DEF TypeOK, MetaState, BaseRecs, Indexes
<1>3. Image \in Seq(Records) /\ Slots(ents, m.n, base, Image)
  BY <1>1, ImageFacts DEF OpenState
<1>4. \A j \in 1..m.n : ents[j].term \in Terms
  BY <1>1, <1>2, SlotTypes DEF OpenState, Slots
<1>5. cm.n \in 0..m.n
  BY <1>1, <1>2 DEF OpenState
<1>6. Live = Shown(base, m, ents, Image) /\ Saved = Shown(base, cm, ents, file)
  BY DEF Live, Saved
<1> QED
  BY <1>2, <1>3, <1>4, <1>5, <1>6, ShownState

\* A sound log reopens to a log state.
LEMMA ReopenedState ==
  ASSUME NEW f \in Seq(Records), Sound(f), WholeLog(f)
  PROVE  Reopened(f) \in LogStates /\ Reopened(f) # Absent /\ Reopened(f) # Down
<1>1. /\ LastBase(f) \in BaseRecs /\ RecoveredMeta(f) \in MetaState
      /\ RecoveredEnts(f) \in Seq([off : Nat, term : Terms])
      /\ Slots(RecoveredEnts(f), RecoveredMeta(f).n, LastBase(f), f)
  BY Recovered DEF Sound
<1>2. RecoveredMeta(f).n \in Nat /\ RecoveredMeta(f).n <= Len(RecoveredEnts(f))
  BY RecoveredSlots DEF Sound
<1>3. \A j \in 1..RecoveredMeta(f).n : RecoveredEnts(f)[j].term \in Terms
  <2> DEFINE tbl == RecoveredEnts(f)
             n   == RecoveredMeta(f).n
             S   == [off : Nat, term : Terms]
  <2>1. tbl \in Seq(S) /\ n \in Nat /\ n <= Len(tbl)
    BY <1>1, <1>2
  <2> SUFFICES ASSUME NEW j \in 1..n PROVE tbl[j].term \in Terms
    OBVIOUS
  <2> HIDE DEF tbl, n, S
  <2>2. tbl[j] \in S
    BY <2>1
  <2> QED
    BY <2>2 DEF S
<1>4. Reopened(f) = Shown(LastBase(f), RecoveredMeta(f), RecoveredEnts(f), f)
  BY DEF Reopened, LastBase
<1>5. Shown(LastBase(f), RecoveredMeta(f), RecoveredEnts(f), f) \in LogStates
  BY <1>1, <1>3, ShownState
<1> QED
  BY <1>4, <1>5, MarkersAssumption

\* Where a crash leaves a log, it reopens to a log state.
LEMMA CutState ==
  ASSUME TableInv, RecoveryInv, NEW k \in CF!CrashPoints(file, safe)
  PROVE  k # 0 => /\ StateAt(file, k) = Reopened(SubSeq(file, 1, k))
                  /\ StateAt(file, k) \in LogStates /\ StateAt(file, k) # Absent
<1> SUFFICES ASSUME k # 0
             PROVE  Reopened(SubSeq(file, 1, k)) \in LogStates
                    /\ Reopened(SubSeq(file, 1, k)) # Absent
  BY DEF StateAt
<1>1. /\ file \in Seq(Records) /\ k \in 1..Len(file) /\ file[k].kind = "meta"
      /\ file # <<>>
  BY DEF CF!CrashPoints, CF!CommitEnds, CF!IsMeta, TableInv, TypeOK
<1>2. WellFormed(file, LastBase(file))
  BY <1>1 DEF TableInv, WholeLog
<1>3. SubSeq(file, 1, k) \in Seq(Records) /\ WholeLog(SubSeq(file, 1, k))
  BY <1>1, <1>2, CutWhole
<1>4. Sound(SubSeq(file, 1, k))
  BY <1>1 DEF RecoveryInv
<1> QED
  BY <1>3, <1>4, ReopenedState

-----------------------------------------------------------------------------
(* Durability points.                                                      *)

\* RaftLog's durability point, on the mapping.
PersistTo(st) ==
  \/ Live' = st /\ Saved' = st /\ Stable' = {st}
  \/ Live' = Saved /\ Saved' = Saved /\ Stable' \in {Stable, Stable \cup {st}}

\* What the host acknowledges, and the two ways in which it fails, are the abstract
\* durability point for the state the commit was about.
LEMMA CommitPersists ==
  ASSUME TableInv, RecoveryInv, up, dst = NoDst,
         NEW s \in MetaState, CommitState(s),
         base.index <= s.last, s.n = s.last - base.index, s.n \in 0..m.n,
         Bounds(s, ents, base),
         UNCHANGED <<up, base, ents, dst>>
  PROVE  PersistTo(Shown(base, s, ents, Image))
<1> DEFINE md == Metadata(base, s)
           g  == Append(Image, md)
           st == Shown(base, s, ents, Image)
<1>1. /\ TypeOK /\ Slots(ents, cm.n, base, file)
      /\ Image \in Seq(Records) /\ file \in Seq(Records)
      /\ Len(Image) \in Nat /\ Len(file) \in 0..Len(Image)
      /\ safe \in 0..Len(file)
      /\ \A p \in 1..Len(file) : Image[p] = file[p]
  <2>1. TypeOK /\ OpenState
    BY DEF TableInv
  <2>2. pend \in Seq(Records)
    BY <2>1 DEF TypeOK, Records
  <2> QED
    BY <2>1, <2>2, ImageFacts DEF OpenState, TypeOK
<1>2. /\ g \in Seq(Records) /\ LastBase(g) = base /\ RecoveredMeta(g) = s
      /\ \A j \in 1..s.n : /\ RecoveredEnts(g)[j].off = ents[j].off
                           /\ RecoveredEnts(g)[j].term = ents[j].term
                           /\ ents[j].off \in 1..Len(Image)
      /\ md.kind = "meta"
  BY CommitRecovers DEF Metadata
<1>3. /\ Len(g) = Len(Image) + 1 /\ g[Len(g)] = md
      /\ \A p \in 1..Len(Image) : g[p] = Image[p]
  BY <1>1
<1>4. Reopened(g) = st /\ Shown(base, s, ents, g) = st
  <2> HIDE DEF g
  <2>1. Reopened(g) = Shown(base, s, RecoveredEnts(g), g)
    BY <1>2 DEF Reopened, LastBase
  <2>2. \A j \in 1..s.n : g[ents[j].off].val = Image[ents[j].off].val
    BY <1>2, <1>3
  <2>3. Shown(base, s, RecoveredEnts(g), g) = st
    BY <1>2, <2>2, ShownAgrees, SMTT(40)
  <2>4. Shown(base, s, ents, g) = st
    BY <2>2, ShownAgrees
  <2> QED
    BY <2>1, <2>3, <2>4
<1>5. CF!CommitEnds(g) = CF!CommitEnds(file) \cup {Len(g)}
  <2>1. ASSUME NEW k \in CF!CommitEnds(g)
        PROVE  k \in CF!CommitEnds(file) \/ k = Len(g)
    <3>1. k = Len(g) \/ k \in CF!CommitEnds(file) \/ k = 0
      BY <1>1, CommitEndsOfAppend
    <3> QED
      BY <3>1 DEF CF!CommitEnds
  <2> HIDE DEF g, md
  <2>2. Len(g) \in CF!CommitEnds(g)
    BY <1>1, <1>2, <1>3 DEF CF!CommitEnds, CF!IsMeta
  <2>3. ASSUME NEW k \in CF!CommitEnds(file)
        PROVE  k \in CF!CommitEnds(g)
    BY <1>1, <1>3 DEF CF!CommitEnds, CF!IsMeta
  <2> QED
    BY <2>1, <2>2, <2>3
<1>6. /\ StateAt(g, Len(g)) = st
      /\ \A k \in 0..Len(file) : StateAt(g, k) = StateAt(file, k)
  <2> HIDE DEF g
  <2>1. SubSeq(g, 1, Len(g)) = g /\ Len(g) # 0
    BY <1>1, <1>2, <1>3
  <2>2. ASSUME NEW k \in 0..Len(file) PROVE SubSeq(g, 1, k) = SubSeq(file, 1, k)
    BY <1>1, <1>2, <1>3
  <2> QED
    BY <2>1, <2>2, <1>4 DEF StateAt
<1>7. Saved = Shown(base, cm, ents, file) /\ Shown(base, cm, ents, g) = Saved
  <2>1. \A j \in 1..cm.n : ents[j].off \in 1..Len(file)
    BY <1>1 DEF Slots, EntryPos
  <2> HIDE DEF g
  <2>2. \A j \in 1..cm.n : g[ents[j].off].val = file[ents[j].off].val
    <3> SUFFICES ASSUME NEW j \in 1..cm.n
                 PROVE  g[ents[j].off].val = file[ents[j].off].val
      OBVIOUS
    <3>1. ents[j].off \in 1..Len(file)
      BY <2>1
    <3>2. ents[j].off \in 1..Len(Image)
      BY <3>1, <1>1
    <3>3. g[ents[j].off] = Image[ents[j].off]
      BY <3>2, <1>3
    <3> QED
      BY <3>1, <3>3, <1>1
  <2> QED
    BY <2>2, ShownAgrees DEF Saved
<1> HIDE DEF g, st
<1>8. CASE CommitOk(s)
  <2>1. file' = g /\ safe' = Len(g) /\ pend' = <<>> /\ m' = s /\ cm' = s
    BY <1>8 DEF CommitOk, g
  <2>2. Image' = g
    BY <2>1, <1>2 DEF Image
  <2>3. Live' = st /\ Saved' = st
    BY <2>1, <2>2, <1>4 DEF Live, Saved
  <2>4. CF!CrashPoints(g, Len(g)) = {Len(g)}
    BY <1>1, <1>3, <1>5 DEF CF!CrashPoints, CF!CommitEnds
  <2>5. Stable' = {st}
    BY <2>1, <2>4, <1>6 DEF Stable
  <2> QED
    BY <2>3, <2>5 DEF PersistTo, st
<1>9. CASE CommitFails(s)
  <2>1. /\ pend' = <<>> /\ m' = cm /\ cm' = cm /\ safe' = safe
        /\ file' = file \/ file' = g
    BY <1>9 DEF CommitFails, Discard, g
  <2>2. Image' = file'
    BY <2>1, <1>1, <1>2 DEF Image
  <2>3. Live' = Saved /\ Saved' = Saved
    BY <2>1, <2>2, <1>7 DEF Live, Saved
  <2>4. Stable' \in {Stable, Stable \cup {st}}
    <3>1. CASE file' = file
      BY <3>1, <2>1 DEF Stable
    <3>2. CASE file' = g
      <4>1. CF!CrashPoints(g, safe) = CF!CrashPoints(file, safe) \cup {Len(g)}
        BY <1>1, <1>3, <1>5 DEF CF!CrashPoints
      <4>2. CF!CrashPoints(file, safe) \subseteq 0..Len(file)
        BY <1>1 DEF CF!CrashPoints, CF!CommitEnds
      <4>3. Stable' = {StateAt(g, k) : k \in CF!CrashPoints(g, safe)}
        BY <3>2, <2>1 DEF Stable
      <4>4. Stable' = Stable \cup {st}
        <5>1. \A k \in CF!CrashPoints(file, safe) : StateAt(g, k) = StateAt(file, k)
          BY <4>2, <1>6
        <5>2. Stable' = {StateAt(g, k) : k \in CF!CrashPoints(file, safe)} \cup {st}
          BY <4>1, <4>3, <1>6
        <5>3. {StateAt(g, k) : k \in CF!CrashPoints(file, safe)} = Stable
          BY <5>1 DEF Stable
        <5> QED
          BY <5>2, <5>3
      <4> QED
        BY <4>4
    <3> QED
      BY <3>1, <3>2, <2>1
  <2> QED
    BY <2>3, <2>4 DEF PersistTo, st
<1> QED
  BY <1>8, <1>9 DEF CommitState

\* A committed state is an abstract durability point.
LEMMA CommitsPersist ==
  ASSUME TableInv, RecoveryInv, NEW s, Commits(s)
  PROVE  PersistTo(Shown(base, s, ents, Image))
  BY CommitPersists DEF Commits

\* elog_sync.
LEMMA SyncRefines ==
  ASSUME TableInv, RecoveryInv, Sync
  PROVE  RL!Sync
<1>1. up /\ Live = Shown(base, m, ents, Image) /\ Live # Down
  BY OpenStates DEF Sync, Ready
<1>2. PersistTo(Shown(base, m, ents, Image))
  BY SyncCommits, CommitsPersist
<1>3. PersistTo(Live)
  BY <1>1, <1>2
<1> QED
  BY <1>1, <1>3 DEF RL!Sync, RL!Persist, PersistTo, Live, Saved, Stable, StateAt

\* What is shown is the fields of a state and a log.
ShownLog(n) == [j \in 1..n |-> [term |-> ents[j].term, val |-> Image[ents[j].off].val]]

LEMMA ShownFields ==
  ASSUME NEW s
  PROVE  Shown(base, s, ents, Image)
           = [base |-> base, term |-> s.term, vote |-> s.vote, commit |-> s.commit,
              log |-> ShownLog(s.n)]
  BY DEF Shown, ShownLog

\* elog_set_hard_state: the three ways to be allowed are the abstract ones.
LEMMA SetHardStateRefines ==
  ASSUME TableInv, RecoveryInv,
         NEW t \in Terms, NEW v \in Node \cup {NoVote}, SetHardState(t, v)
  PROVE  RL!SetHardState(t, v)
<1> DEFINE s  == HardState(t, v)
           st == Shown(base, s, ents, Image)
<1>1. /\ up /\ VoteAllowed(t, v) /\ m \in MetaState
  BY DEF SetHardState, Ready, TableInv, TypeOK
<1>2. /\ Live = Shown(base, m, ents, Image) /\ Live # Down
      /\ Live.term = m.term /\ Live.vote = m.vote
  BY <1>1, OpenStates
<1>3. PersistTo(st)
  BY HardStateCommits, CommitsPersist
<1>4. CASE t = m.term /\ v = NoVote
  <2>1. s = m
    BY <1>1, <1>4 DEF HardState, MetaState
  <2>2. st = Live
    BY <1>2, <2>1
  <2>3. PersistTo(Live)
    BY <1>3, <2>2
  <2> QED
    BY <1>2, <1>4, <2>3 DEF RL!SetHardState, RL!Persist, PersistTo, Live, Saved, Stable, StateAt
<1>5. CASE t = m.term /\ v # NoVote
  <2>1. s = [m EXCEPT !.vote = v]
    BY <1>1, <1>5 DEF HardState, MetaState
  <2>2. st = [Live EXCEPT !.vote = v]
    <3>1. /\ s.term = m.term /\ s.vote = v /\ s.commit = m.commit /\ s.n = m.n
      BY <1>1, <2>1 DEF MetaState
    <3>2. /\ Live = [base |-> base, term |-> m.term, vote |-> m.vote,
                     commit |-> m.commit, log |-> ShownLog(m.n)]
          /\ st = [base |-> base, term |-> s.term, vote |-> s.vote,
                   commit |-> s.commit, log |-> ShownLog(s.n)]
      BY <1>2, ShownFields
    <3> HIDE DEF s, st
    <3> QED
      BY <3>1, <3>2
  <2>3. PersistTo([Live EXCEPT !.vote = v])
    BY <1>3, <2>2
  <2>4. Live.vote \in {NoVote, v}
    BY <1>1, <1>2, <1>5, BoundsAssumption DEF VoteAllowed, MetaState, Terms
  <2> QED
    BY <1>2, <1>5, <2>3, <2>4 DEF RL!SetHardState, RL!Persist, PersistTo, Live, Saved, Stable, StateAt
<1>6. CASE t # m.term
  <2>1. s = [m EXCEPT !.term = t, !.vote = v]
    BY <1>1, <1>6 DEF HardState, MetaState
  <2>2. st = [Live EXCEPT !.term = t, !.vote = v]
    <3>1. /\ s.term = t /\ s.vote = v /\ s.commit = m.commit /\ s.n = m.n
      BY <1>1, <2>1 DEF MetaState
    <3>2. /\ Live = [base |-> base, term |-> m.term, vote |-> m.vote,
                     commit |-> m.commit, log |-> ShownLog(m.n)]
          /\ st = [base |-> base, term |-> s.term, vote |-> s.vote,
                   commit |-> s.commit, log |-> ShownLog(s.n)]
      BY <1>2, ShownFields
    <3>3. [Live EXCEPT !.term = t, !.vote = v] = [[Live EXCEPT !.term = t] EXCEPT !.vote = v]
      OBVIOUS
    <3>4. \A b, tm, vt, c, l :
            [[base |-> b, term |-> tm, vote |-> vt, commit |-> c, log |-> l] EXCEPT !.term = t]
              = [base |-> b, term |-> t, vote |-> vt, commit |-> c, log |-> l]
      OBVIOUS
    <3>5. \A b, tm, vt, c, l :
            [[base |-> b, term |-> tm, vote |-> vt, commit |-> c, log |-> l] EXCEPT !.vote = v]
              = [base |-> b, term |-> tm, vote |-> v, commit |-> c, log |-> l]
      OBVIOUS
    <3> HIDE DEF s, st
    <3>6. [Live EXCEPT !.term = t] = [base |-> base, term |-> t, vote |-> m.vote,
                                      commit |-> m.commit, log |-> ShownLog(m.n)]
      BY <3>2, <3>4
    <3>7. [[Live EXCEPT !.term = t] EXCEPT !.vote = v]
            = [base |-> base, term |-> t, vote |-> v, commit |-> m.commit,
               log |-> ShownLog(m.n)]
      <4> DEFINE x == [Live EXCEPT !.term = t]
      <4>1. x = [base |-> base, term |-> t, vote |-> m.vote,
                 commit |-> m.commit, log |-> ShownLog(m.n)]
        BY <3>6
      <4> HIDE DEF x
      <4>2. [x EXCEPT !.vote = v] = [base |-> base, term |-> t, vote |-> v,
                                     commit |-> m.commit, log |-> ShownLog(m.n)]
        BY <3>5, <4>1
      <4> QED
        BY <4>2 DEF x
    <3> QED
      BY <3>1, <3>2, <3>3, <3>7
  <2>3. PersistTo([Live EXCEPT !.term = t, !.vote = v])
    BY <1>3, <2>2
  <2>4. t > Live.term
    BY <1>1, <1>2, <1>6 DEF VoteAllowed
  <2> QED
    BY <1>2, <2>3, <2>4 DEF RL!SetHardState, RL!Persist, PersistTo, Live, Saved, Stable, StateAt
<1> QED
  BY <1>4, <1>5, <1>6

\* elog_truncate_from: the entries before the cut stay.
LEMMA TruncateFromRefines ==
  ASSUME TableInv, RecoveryInv, NEW i \in Indexes, TruncateFrom(i)
  PROVE  RL!TruncateFrom(i)
<1> DEFINE s  == Truncated(i)
           n  == i - 1 - base.index
           st == Shown(base, s, ents, Image)
           L  == Live.log
<1>1. /\ up /\ i > m.commit /\ i <= m.last /\ i > base.index /\ i \in Nat
      /\ m \in MetaState /\ m.commit \in Nat
  <2>1. up /\ i > m.commit /\ i \in (base.index + 1)..m.last
    BY DEF TruncateFrom, Ready
  <2>2. /\ base.index \in Nat /\ m.last \in Nat /\ m \in MetaState /\ m.commit \in Nat
    BY BoundsAssumption DEF TableInv, TypeOK, MetaState, BaseRecs, Indexes
  <2> QED
    BY <2>1, <2>2
<1>2. /\ Live = Shown(base, m, ents, Image) /\ Live # Down
      /\ Live.base = base /\ Live.commit = m.commit /\ Len(L) = m.n
      /\ L = [j \in 1..m.n |-> [term |-> ents[j].term, val |-> Image[ents[j].off].val]]
  BY <1>1, OpenStates
<1>3. PersistTo(st)
  BY TruncationCommits, CommitsPersist
<1>4. /\ m.n \in Nat /\ m.last \in Nat /\ base.index \in Nat /\ m.n = m.last - base.index
  BY <1>1, OpenHandle
<1>5. s.n = n /\ n \in 0..m.n /\ s.term = m.term /\ s.vote = m.vote /\ s.commit = m.commit
  BY TruncatedState
<1> HIDE DEF n, s
<1>6. SubSeq(L, 1, n) = [j \in 1..n |-> [term |-> ents[j].term, val |-> Image[ents[j].off].val]]
  BY <1>2, <1>4, <1>5
<1>7. st = [Live EXCEPT !.log = SubSeq(L, 1, n)]
  <2>1. /\ Live = [base |-> base, term |-> m.term, vote |-> m.vote,
                   commit |-> m.commit, log |-> ShownLog(m.n)]
        /\ st = [base |-> base, term |-> s.term, vote |-> s.vote,
                 commit |-> s.commit, log |-> ShownLog(s.n)]
    BY <1>2, ShownFields
  <2>2. SubSeq(L, 1, n) = ShownLog(s.n)
    BY <1>5, <1>6 DEF ShownLog
  <2>3. \A b, tm, vt, c, l, l2 :
          [[base |-> b, term |-> tm, vote |-> vt, commit |-> c, log |-> l] EXCEPT !.log = l2]
            = [base |-> b, term |-> tm, vote |-> vt, commit |-> c, log |-> l2]
    OBVIOUS
  <2> HIDE DEF L, st
  <2> QED
    BY <2>1, <2>2, <2>3, <1>5, SMTT(40)
<1>8. PersistTo([Live EXCEPT !.log = SubSeq(@, 1, n)])
  BY <1>3, <1>7
<1>9. i \in (Live.commit + 1)..(Live.base.index + Len(Live.log))
  BY <1>1, <1>2, <1>4
<1>10. n = i - 1 - Live.base.index
  BY <1>2 DEF n
<1> QED
  BY <1>2, <1>8, <1>9, <1>10 DEF RL!TruncateFrom, RL!LastIndex, RL!Persist, PersistTo, Live, Saved, Stable, StateAt

-----------------------------------------------------------------------------
(* Operations that only touch the handle.                                  *)

\* They leave what a restart may come back to alone.
LEMMA StableSame ==
  ASSUME UNCHANGED <<file, safe>>
  PROVE  Stable' = Stable
  BY DEF Stable

\* elog_append: the entry is buffered, or everything buffered is lost.
LEMMA AppendEntryRefines ==
  ASSUME TableInv, RecoveryInv, NEW t \in Terms, NEW v \in Value, AppendEntry(t, v)
  PROVE  RL!AppendEntry(t, v) \/ RL!LoseBuffered
<1>1. /\ up /\ TypeOK /\ OpenState /\ UNCHANGED <<file, safe, up, base, cm>>
      /\ t >= m.lastTerm /\ t <= m.term /\ m.last < MaxIndex
  BY DEF AppendEntry, Ready, TableInv
<1>2. /\ Live = Shown(base, m, ents, Image) /\ Live # Down
      /\ Live.base = base /\ Live.term = m.term /\ Len(Live.log) = m.n
      /\ Live.log = ShownLog(m.n)
      /\ Saved = Shown(base, cm, ents, file) /\ cm.n \in 0..m.n /\ m.n \in Nat
  BY <1>1, OpenStates DEF ShownLog
<1>3. Stable' = Stable
  BY <1>1, StableSame
<1>4. CASE Discard
  <2>1. m' = cm /\ Image' = file' /\ ents' = ents
    <3>1. pend' = <<>> /\ m' = cm /\ file \in Seq(Records)
      BY <1>1, <1>4 DEF Discard, TypeOK
    <3>2. UNCHANGED ents
      <4>1. ASSUME pend' = Append(pend, Entry(m.last + 1, t, v)) PROVE FALSE
        <5>1. pend \in Seq(EntryRecs)
          BY <1>1 DEF TypeOK
        <5>2. Len(pend') = Len(pend) + 1 /\ Len(pend) \in Nat
          BY <4>1, <5>1
        <5> QED
          BY <3>1, <5>2
      <4> QED
        BY <4>1 DEF AppendEntry
    <3> QED
      BY <3>1, <3>2, <1>1 DEF Image
  <2>2. Live' = Saved /\ Saved' = Saved
    BY <2>1, <1>1 DEF Live, Saved
  <2> QED
    BY <2>2, <1>2, <1>3 DEF RL!LoseBuffered, Live, Saved, Stable, StateAt
<1>5. CASE ~ Discard
  <2> DEFINE e == Entry(m.last + 1, t, v)
             x == [term |-> t, val |-> v]
  <2>1. /\ e.term = t /\ e.val = v /\ Image' = Append(Image, e)
        /\ ents'[m.n + 1] = [off |-> Len(Image) + 1, term |-> t]
        /\ \A j \in 1..m.n : ents'[j] = ents[j]
        /\ m'.n = m.n + 1 /\ m'.term = m.term /\ m'.vote = m.vote /\ m'.commit = m.commit
    BY <1>5, AppendedState
  <2>2. /\ Image \in Seq(Records) /\ Len(Image) \in Nat
        /\ \A j \in 1..m.n : ents[j].off \in 1..Len(Image)
        /\ \A j \in 1..cm.n : ents[j].off \in 1..Len(file)
    BY <1>1, ImageFacts DEF OpenState, Slots, EntryPos
  <2> HIDE DEF e
  <2>3. /\ Image'[Len(Image) + 1] = e
        /\ \A p \in 1..Len(Image) : Image'[p] = Image[p]
    BY <2>1, <2>2
  <2>4. Saved' = Saved
    <3>1. Saved' = Shown(base, cm, ents', file)
      BY <1>1 DEF Saved
    <3>2. \A j \in 1..cm.n : ents'[j] = ents[j]
      BY <1>2, <2>1
    <3> QED
      BY <3>1, <3>2, <1>2, ShownAgrees
  <2>5. Live' = [base |-> base, term |-> m.term, vote |-> m.vote, commit |-> m.commit,
                 log |-> ShownLog(m.n)']
    <3>1. Live' = Shown(base, m', ents', Image')
      BY <1>1 DEF Live
    <3> QED
      BY <3>1, <2>1 DEF Shown, ShownLog
  <2>6. ShownLog(m.n)' = Live.log \o <<x>>
    <3> DEFINE L2 == [j \in 1..(m.n + 1) |-> [term |-> ents'[j].term,
                                              val  |-> Image'[ents'[j].off].val]]
               L == Live.log
    <3>1. ShownLog(m.n)' = L2
      BY <2>1 DEF ShownLog
    <3>2. \A j \in 1..m.n : L2[j] = L[j]
      <4> SUFFICES ASSUME NEW j \in 1..m.n PROVE L2[j] = L[j]
        OBVIOUS
      <4>1. j \in 1..(m.n + 1)
        BY <1>2
      <4>2. L2[j] = [term |-> ents'[j].term, val |-> Image'[ents'[j].off].val]
        BY <4>1
      <4>3. L[j] = [term |-> ents[j].term, val |-> Image[ents[j].off].val]
        BY <1>2 DEF ShownLog
      <4>4. ents'[j] = ents[j] /\ Image'[ents[j].off] = Image[ents[j].off]
        BY <2>1, <2>2, <2>3
      <4> QED
        BY <4>2, <4>3, <4>4
    <3>3. L2[m.n + 1] = x
      <4>1. m.n + 1 \in 1..(m.n + 1)
        BY <1>2
      <4>2. ents'[m.n + 1].off = Len(Image) + 1 /\ ents'[m.n + 1].term = t
        BY <2>1
      <4> QED
        BY <4>1, <4>2, <2>1, <2>3
    <3>4. Len(L) = m.n /\ DOMAIN L2 = 1..(m.n + 1) /\ L = [j \in 1..m.n |-> L[j]]
      BY <1>2 DEF ShownLog
    <3>5. L2 = [j \in 1..(m.n + 1) |-> L2[j]]
      OBVIOUS
    <3> HIDE DEF L2, x, L
    <3>6. L \o <<x>> = [j \in 1..(m.n + 1) |-> IF j <= m.n THEN L[j] ELSE x]
      BY <3>4, <1>2
    <3>7. ASSUME NEW j \in 1..(m.n + 1)
          PROVE  L2[j] = IF j <= m.n THEN L[j] ELSE x
      <4>1. j \in 1..m.n \/ j = m.n + 1
        BY <1>2
      <4> QED
        BY <4>1, <3>2, <3>3, <1>2
    <3>8. L2 = L \o <<x>>
      BY <3>5, <3>6, <3>7
    <3> QED
      BY <3>1, <3>8 DEF L
  <2>7. Live' = [Live EXCEPT !.log = @ \o <<x>>]
    <3>1. Live = [base |-> base, term |-> m.term, vote |-> m.vote,
                  commit |-> m.commit, log |-> ShownLog(m.n)]
      BY <1>2, ShownFields
    <3>2. \A b, tm, vt, c, l, l2 :
            [[base |-> b, term |-> tm, vote |-> vt, commit |-> c, log |-> l] EXCEPT !.log = l2]
              = [base |-> b, term |-> tm, vote |-> vt, commit |-> c, log |-> l2]
      OBVIOUS
    <3> DEFINE l2 == Live.log \o <<x>>
    <3>3. Live' = [base |-> base, term |-> m.term, vote |-> m.vote,
                   commit |-> m.commit, log |-> l2]
      BY <2>5, <2>6
    <3> HIDE DEF l2
    <3>4. [Live EXCEPT !.log = l2] = Live'
      BY <3>1, <3>2, <3>3
    <3> QED
      BY <3>4 DEF l2
  <2>8. RL!LastIndex(Live) = m.last /\ RL!LastTerm(Live) = m.lastTerm
    <3>1. /\ m.n = m.last - base.index /\ m.last \in Nat /\ base.index \in Nat
          /\ Bounds(m, ents, base)
      BY <1>1, OpenHandle
    <3>2. RL!LastIndex(Live) = m.last
      BY <3>1, <1>2 DEF RL!LastIndex
    <3>3. CASE m.n = 0
      <4>1. m.last = base.index /\ m.lastTerm = base.term
        BY <3>1, <3>3 DEF Bounds
      <4> QED
        BY <4>1, <3>2, <1>2 DEF RL!LastTerm, RL!TermAt
    <3>4. CASE m.n # 0
      <4>1. m.last # base.index /\ m.lastTerm = ents[m.n].term /\ m.n \in 1..m.n
        BY <3>1, <3>4, <1>2 DEF Bounds
      <4>2. Live.log[m.n].term = ents[m.n].term
        BY <1>2, <4>1 DEF ShownLog
      <4> QED
        BY <4>1, <4>2, <3>1, <3>2, <1>2 DEF RL!LastTerm, RL!TermAt
    <3> QED
      BY <3>2, <3>3, <3>4
  <2> QED
    BY <2>4, <2>7, <2>8, <1>1, <1>2, <1>3
       DEF RL!AppendEntry, Live, Saved, Stable, StateAt
<1> QED
  BY <1>4, <1>5

\* elog_set_commit_index only stages a value.
LEMMA SetCommitIndexRefines ==
  ASSUME TableInv, RecoveryInv, NEW i \in Indexes, SetCommitIndex(i)
  PROVE  RL!SetCommitIndex(i)
<1>1. /\ up /\ i \in m.commit..m.last /\ m' = [m EXCEPT !.commit = i]
      /\ UNCHANGED <<file, safe, up, pend, base, cm, ents>>
  BY DEF SetCommitIndex, Ready
<1>2. /\ Live = Shown(base, m, ents, Image) /\ Live # Down
      /\ Live.base = base /\ Live.commit = m.commit /\ Len(Live.log) = m.n
      /\ Saved = Shown(base, cm, ents, file)
  BY <1>1, OpenStates
<1>3. Stable' = Stable /\ Saved' = Saved
  BY <1>1, StableSame DEF Saved
<1>4. Live' = [Live EXCEPT !.commit = i]
  <2>1. m'.n = m.n /\ m'.term = m.term /\ m'.vote = m.vote /\ m'.commit = i
    BY <1>1, OpenHandle DEF MetaState
  <2>2. Live' = [base |-> base, term |-> m.term, vote |-> m.vote, commit |-> i,
                 log |-> ShownLog(m.n)]
    <3>1. Live' = Shown(base, m', ents, Image)
      BY <1>1 DEF Live, Image
    <3>2. Shown(base, m', ents, Image) = [base |-> base, term |-> m'.term, vote |-> m'.vote,
                                          commit |-> m'.commit, log |-> ShownLog(m'.n)]
      BY DEF Shown, ShownLog
    <3> QED
      BY <3>1, <3>2, <2>1
  <2>3. Live = [base |-> base, term |-> m.term, vote |-> m.vote,
                commit |-> m.commit, log |-> ShownLog(m.n)]
    BY <1>2, ShownFields
  <2>4. \A b, tm, vt, c, l :
          [[base |-> b, term |-> tm, vote |-> vt, commit |-> c, log |-> l] EXCEPT !.commit = i]
            = [base |-> b, term |-> tm, vote |-> vt, commit |-> i, log |-> l]
    OBVIOUS
  <2> QED
    BY <2>2, <2>3, <2>4
<1>5. i \in Live.commit..(Live.base.index + Len(Live.log))
  <2>1. m.n = m.last - base.index /\ m.last \in Nat /\ base.index \in Nat
    BY <1>1, OpenHandle
  <2> QED
    BY <2>1, <1>1, <1>2
<1> QED
  BY <1>2, <1>3, <1>4, <1>5 DEF RL!SetCommitIndex, RL!LastIndex, Live, Saved, Stable, StateAt

\* A compaction in flight is not part of the log yet.
LEMMA CompactStutters ==
  ASSUME NEW i \in Indexes, Compact(i)
  PROVE  UNCHANGED <<Live, Saved, Stable>>
<1>1. UNCHANGED <<file, safe, up, pend, base, m, cm, ents>>
  BY DEF Compact
<1> QED
  BY <1>1 DEF Live, Saved, Stable, Image

-----------------------------------------------------------------------------
(* Creating, opening and losing the log.                                   *)

\* A log without entries.
LEMMA ShownEmpty ==
  ASSUME NEW b, NEW s, NEW tbl, NEW f, s.n = 0
  PROVE  Shown(b, s, tbl, f)
           = [base |-> b, log |-> <<>>, term |-> s.term, vote |-> s.vote, commit |-> s.commit]
<1> DEFINE L == [j \in 1..0 |-> [term |-> tbl[j].term, val |-> f[tbl[j].off].val]]
<1>1. L = <<>>
  OBVIOUS
<1>2. Shown(b, s, tbl, f)
        = [base |-> b, log |-> L, term |-> s.term, vote |-> s.vote, commit |-> s.commit]
  BY DEF Shown
<1> HIDE DEF L
<1> QED
  BY <1>1, <1>2

\* The fresh log reads back as itself, and may still be lost.
LEMMA CreateRefines ==
  ASSUME TableInv, NEW b \in Bases, Create(b)
  PROVE  RL!Create(b)
<1> DEFINE f  == file'
           fm == FreshMeta(b)
           st == [base |-> b, log |-> <<>>, term |-> b.term, vote |-> NoVote,
                  commit |-> b.index]
<1>1. /\ ~up /\ file = <<>> /\ up' = TRUE /\ base' = b /\ m' = fm /\ cm' = fm
      /\ safe = 0
  BY DEF Create, TableInv, TypeOK
<1>2. /\ f \in Seq(Records) /\ Len(f) = 2 /\ safe' = 0
      /\ f[1].kind = "header" /\ f[2] = Metadata(b, fm) /\ b.index \in Nat
  BY CreatedFile
<1>3. fm.n = 0 /\ fm.term = b.term /\ fm.vote = NoVote /\ fm.commit = b.index /\ fm.last = b.index
  BY DEF FreshMeta
<1>4. Live = Down /\ Saved = Down
  BY <1>1 DEF Live, Saved
<1>5. Stable = {Absent}
  <2>1. CF!CrashPoints(file, safe) = {0}
    BY <1>1 DEF CF!CrashPoints, CF!CommitEnds
  <2> QED
    BY <2>1 DEF Stable, StateAt
<1>6. Live' = st /\ Saved' = st
  <2>1. Live' = Shown(b, fm, ents', Image') /\ Saved' = Shown(b, fm, ents', file')
    BY <1>1 DEF Live, Saved
  <2> HIDE DEF fm
  <2> QED
    BY <2>1, <1>3, ShownEmpty
<1> HIDE DEF f
<1>7. Reopened(f) = st
  <2> DEFINE rm == RecoveredMeta(f)
  <2>1. /\ f[2].base = b /\ f[2].last = b.index /\ f[2].term = b.term
        /\ f[2].vote = NoVote /\ f[2].commit = b.index /\ f[2].kind = "meta"
    BY <1>2, <1>3 DEF Metadata
  <2>2. rm.n = b.index - b.index /\ rm.term = b.term /\ rm.vote = NoVote /\ rm.commit = b.index
    BY <1>2, <2>1 DEF RecoveredMeta
  <2> HIDE DEF rm
  <2>3. rm.n = 0
    BY <2>2, <1>2
  <2>4. Reopened(f) = Shown(b, rm, RecoveredEnts(f), f)
    BY <1>2, <2>1 DEF Reopened, rm
  <2> QED
    BY <2>2, <2>3, <2>4, ShownEmpty
<1>8. Stable' = {Absent, st}
  <2>1. f[2].kind = "meta"
    BY <1>2 DEF Metadata
  <2>2. CF!CrashPoints(f, 0) = {0, 2}
    BY <1>2, <2>1 DEF CF!CrashPoints, CF!CommitEnds, CF!IsMeta
  <2>3. SubSeq(f, 1, 2) = f
    BY <1>2
  <2>4. StateAt(f, 0) = Absent /\ StateAt(f, 2) = st
    <3> HIDE DEF st
    <3>1. StateAt(f, 0) = Absent /\ StateAt(f, 2) = Reopened(SubSeq(f, 1, 2))
      BY DEF StateAt
    <3> QED
      BY <3>1, <2>3, <1>7
  <2>5. Stable' = {StateAt(f, k) : k \in CF!CrashPoints(f, 0)}
    BY <1>2 DEF Stable, f
  <2> QED
    BY <2>2, <2>4, <2>5
<1> QED
  BY <1>4, <1>5, <1>6, <1>8 DEF RL!Create, RL!Fresh, Live, Saved, Stable, StateAt

\* elog_open comes back to what the file held.
LEMMA OpenRefines ==
  ASSUME TableInv, RecoveryInv, Open
  PROVE  RL!Open
<1>1. /\ ~up /\ Openable(file) /\ up' = TRUE /\ LoadFrom(file)
      /\ UNCHANGED <<file, safe, pend>> /\ file \in Seq(Records)
  BY DEF Open, TableInv, TypeOK
<1>2. file # <<>> /\ pend = <<>>
  BY <1>1 DEF Openable, TableInv, ClosedState
<1>3. Image' = file
  BY <1>1, <1>2 DEF Image
<1>4. Live' = Reopened(file) /\ Saved' = Reopened(file)
  BY <1>1, <1>3 DEF Live, Saved, LoadFrom, Reopened
<1>5. /\ Len(file) \in CF!CrashPoints(file, safe) /\ Len(file) # 0
      /\ SubSeq(file, 1, Len(file)) = file
  BY <1>1, <1>2, WholeFileSound
<1>6. Reopened(file) = StateAt(file, Len(file))
  BY <1>5 DEF StateAt
<1>7. Reopened(file) \in Stable /\ Reopened(file) # Absent
  BY <1>5, <1>6, CutState DEF Stable
<1>8. Stable' = Stable /\ Live = Down
  BY <1>1, StableSame DEF Live
<1> QED
  BY <1>4, <1>7, <1>8 DEF RL!Open, Live, Saved, Stable, StateAt

\* Losing unsynced commits only narrows what a restart may come back to.
LEMMA CrashRefines ==
  ASSUME TableInv, Crash
  PROVE  RL!Crash
<1>1. /\ file \in Seq(Records) /\ safe \in 0..Len(file) /\ UNCHANGED safe /\ up' = FALSE
  BY DEF TableInv, TypeOK, Crash
<1>2. PICK k \in CF!CrashPoints(file, safe) : file' = SubSeq(file, 1, k)
  BY DEF Crash
<1>3. k \in 0..Len(file) /\ k >= safe /\ k \in Nat
  BY <1>1, <1>2 DEF CF!CrashPoints, CF!CommitEnds
<1>4. Len(file') = k /\ \A p \in 1..k : file'[p] = file[p]
  BY <1>1, <1>2, <1>3
<1>5. ASSUME NEW j \in CF!CrashPoints(file', safe)
      PROVE  j \in CF!CrashPoints(file, safe) /\ StateAt(file', j) = StateAt(file, j)
  <2>1. j \in 0..k /\ j >= safe
    BY <1>3, <1>4, <1>5 DEF CF!CrashPoints, CF!CommitEnds
  <2>2. j \in CF!CrashPoints(file, safe)
    BY <1>3, <1>4, <1>5, <2>1 DEF CF!CrashPoints, CF!CommitEnds, CF!IsMeta
  <2>3. SubSeq(file', 1, j) = SubSeq(file, 1, j)
    BY <1>1, <1>2, <1>3, <2>1
  <2> QED
    BY <2>2, <2>3 DEF StateAt
<1>6. Stable' = {StateAt(file', j) : j \in CF!CrashPoints(file', safe)}
  BY <1>1 DEF Stable
<1>7. Stable' \subseteq Stable
  BY <1>5, <1>6 DEF Stable
<1>8. k \in CF!CrashPoints(file', safe)
  BY <1>2, <1>3, <1>4 DEF CF!CrashPoints, CF!CommitEnds, CF!IsMeta
<1>9. Stable' # {}
  BY <1>6, <1>8
<1>10. Live' = Down /\ Saved' = Down
  BY <1>1 DEF Live, Saved
<1> QED
  BY <1>7, <1>9, <1>10 DEF RL!Crash, Live, Saved, Stable, StateAt

\* Adopting a compacted log moves the base up and keeps everything above it.
LEMMA AdoptRefines ==
  ASSUME TableInv, RecoveryInv, FloorInv, AdoptCompacted
  PROVE  \E nb \in Indexes : RL!Rebase(nb)
<1>1. /\ up /\ dst # NoDst /\ Openable(dst) /\ file' = dst /\ safe' = Len(dst)
      /\ LoadFrom(dst) /\ UNCHANGED <<up, pend>> /\ pend = <<>>
      /\ dst \in Seq(Records) /\ WholeLog(dst) /\ TypeOK
  BY DEF AdoptCompacted, TableInv, TypeOK
<1>2. PICK nb \in base.index..m.last : dst = Compacted(nb)
  BY <1>1 DEF FloorInv
<1>3. /\ Live = Shown(base, m, ents, Image) /\ Live # Down
      /\ Live.base = base /\ Live.commit = m.commit /\ Len(Live.log) = m.n /\ m.n \in Nat
      /\ Live.log = ShownLog(m.n)
  BY <1>1, OpenStates DEF ShownLog
<1>4. /\ m.n = m.last - base.index /\ m.last \in Nat /\ base.index \in Nat /\ nb \in Nat
      /\ base.index <= nb /\ nb <= m.last /\ nb \in Indexes
  <2>1. m.n = m.last - base.index /\ m.last \in Nat /\ base.index \in Nat
    BY <1>1, OpenHandle
  <2>2. m.last \in Indexes
    BY <1>1 DEF TypeOK, MetaState
  <2>3. nb \in Nat /\ base.index <= nb /\ nb <= m.last
    BY <2>1
  <2> QED
    BY <2>1, <2>2, <2>3, BoundsAssumption DEF Indexes
<1> DEFINE r == CopyReading(nb)
           d == nb - base.index
           L == [j \in 1..(m.last - nb) |->
                   [term |-> ents[d + j].term, val |-> Image[ents[d + j].off].val]]
<1>5. Reopened(dst) = r
  BY <1>1, <1>2, CopyReads
<1>6. Live' = r /\ Saved' = r
  <2>1. Image' = dst
    BY <1>1 DEF Image
  <2>2. Live' = Reopened(dst) /\ Saved' = Reopened(dst)
    BY <1>1, <2>1 DEF Live, Saved, LoadFrom, Reopened
  <2> QED
    BY <2>2, <1>5
<1>7. Stable' = {r}
  <2>1. Len(dst) \in 1..Len(dst) /\ dst[Len(dst)].kind = "meta" /\ SubSeq(dst, 1, Len(dst)) = dst
    BY <1>1 DEF WholeLog, NoDst
  <2>2. CF!CrashPoints(dst, Len(dst)) = {Len(dst)}
    BY <2>1 DEF CF!CrashPoints, CF!CommitEnds, CF!IsMeta
  <2>3. StateAt(dst, Len(dst)) = r
    <3> HIDE DEF r
    <3>1. Len(dst) # 0
      BY <2>1
    <3>2. StateAt(dst, Len(dst)) = Reopened(SubSeq(dst, 1, Len(dst)))
      BY <3>1 DEF StateAt
    <3> QED
      BY <3>2, <2>1, <1>5
  <2>4. Stable' = {StateAt(dst, k) : k \in CF!CrashPoints(dst, Len(dst))}
    BY <1>1 DEF Stable
  <2> QED
    BY <2>2, <2>3, <2>4
<1>8. r = [base |-> [index |-> nb, term |-> TermAt(nb)], term |-> m.term, vote |-> m.vote,
           commit |-> IF m.commit < nb THEN nb ELSE m.commit, log |-> L]
  BY DEF CopyReading
<1>9. TermAt(nb) = RL!TermAt(Live, nb)
  <2>1. CASE nb = base.index
    BY <2>1, <1>3 DEF TermAt, RL!TermAt
  <2>2. CASE nb # base.index
    <3>1. d \in 1..m.n
      BY <2>2, <1>4
    <3> HIDE DEF d
    <3>2. Live.log[d].term = ents[d].term
      BY <3>1, <1>3 DEF ShownLog
    <3>3. TermAt(nb) = ents[d].term
      BY <2>2 DEF TermAt, d
    <3>4. RL!TermAt(Live, nb) = Live.log[d].term
      BY <2>2, <1>3 DEF RL!TermAt, d
    <3> QED
      BY <3>2, <3>3, <3>4
  <2> QED
    BY <2>1, <2>2
<1>10. SubSeq(Live.log, d + 1, Len(Live.log)) = L
  <2> DEFINE K == Live.log
             k == m.last - nb
  <2>1. d \in Nat /\ d + k = m.n /\ k \in Nat /\ d <= m.n
    BY <1>4
  <2>2. Len(K) = m.n /\ K = [j \in 1..m.n |-> K[j]]
    BY <1>3 DEF ShownLog
  <2>3. ASSUME NEW j \in 1..k
        PROVE  K[d + j] = [term |-> ents[d + j].term, val |-> Image[ents[d + j].off].val]
    <3>1. d + j \in 1..m.n
      BY <2>1
    <3> HIDE DEF d
    <3> QED
      BY <3>1, <1>3 DEF ShownLog
  <2>4. L = [j \in 1..k |-> K[d + j]]
    BY <2>3
  <2> HIDE DEF d, k, K, L
  <2>5. SubSeq(K, d + 1, Len(K)) = [j \in 1..k |-> K[d + j]]
    <3> DEFINE S == [term : Terms, val : Value]
               T == SubSeq(K, d + 1, m.n)
    <3>1. K \in Seq(S)
      BY <1>1, OpenStates DEF LogStates, K
    <3> HIDE DEF S
    <3>2. T \in Seq(S) /\ Len(T) = k /\ \A j \in 1..k : T[j] = K[d + j]
      <4>1. \A n \in Nat, e \in Nat, q \in Seq(S) :
              e <= n /\ n = Len(q) =>
                LET u == SubSeq(q, e + 1, n) IN
                u \in Seq(S) /\ Len(u) = n - e /\ \A j \in 1..(n - e) : u[j] = q[e + j]
        OBVIOUS
      <4>2. m.n - d = k
        BY <2>1, <1>3
      <4> QED
        BY <4>1, <4>2, <3>1, <2>1, <2>2, <1>3
    <3> HIDE DEF T
    <3>3. T = [j \in 1..k |-> T[j]]
      BY <3>2
    <3> QED
      BY <3>2, <3>3, <2>2 DEF T
  <2> QED
    BY <2>4, <2>5 DEF K
<1> DEFINE s == [Live EXCEPT
                   !.base   = [index |-> nb, term |-> RL!TermAt(Live, nb)],
                   !.log    = SubSeq(@, nb - Live.base.index + 1, Len(@)),
                   !.commit = IF @ < nb THEN nb ELSE @]
<1>11. s = r
  <2> DEFINE bb == [index |-> nb, term |-> RL!TermAt(Live, nb)]
             ll == SubSeq(Live.log, nb - Live.base.index + 1, Len(Live.log))
             cc == IF Live.commit < nb THEN nb ELSE Live.commit
             x  == [Live EXCEPT !.base = bb]
             y  == [x EXCEPT !.log = ll]
  <2>1. s = [Live EXCEPT !.base = bb, !.log = ll, !.commit = cc]
    OBVIOUS
  <2>2. bb = r.base /\ ll = r.log /\ cc = r.commit
    <3>1. bb = r.base
      BY <1>8, <1>9
    <3>2. ll = r.log
      <4>1. nb - Live.base.index + 1 = d + 1
        BY <1>3
      <4> HIDE DEF d, L, r
      <4> QED
        BY <4>1, <1>8, <1>10
    <3>3. cc = r.commit
      BY <1>3, <1>8
    <3> QED
      BY <3>1, <3>2, <3>3
  <2>3. r = [base |-> r.base, term |-> m.term, vote |-> m.vote, commit |-> r.commit,
             log |-> r.log]
    BY <1>8
  <2>4. Live = [base |-> base, term |-> m.term, vote |-> m.vote,
                commit |-> m.commit, log |-> ShownLog(m.n)]
    BY <1>3, ShownFields
  <2> HIDE DEF bb, ll, cc, r
  <2>5. [Live EXCEPT !.base = bb, !.log = ll, !.commit = cc] = [y EXCEPT !.commit = cc]
    OBVIOUS
  <2>6. x = [base |-> bb, term |-> m.term, vote |-> m.vote,
             commit |-> m.commit, log |-> ShownLog(m.n)]
    BY <2>4
  <2> HIDE DEF x
  <2>7. y = [base |-> bb, term |-> m.term, vote |-> m.vote,
             commit |-> m.commit, log |-> ll]
    BY <2>6
  <2> HIDE DEF y
  <2>8. [y EXCEPT !.commit = cc] = [base |-> bb, term |-> m.term, vote |-> m.vote,
                                    commit |-> cc, log |-> ll]
    BY <2>7
  <2> QED
    BY <2>1, <2>2, <2>3, <2>5, <2>8 DEF x, y
<1>12. nb \in Live.base.index..RL!LastIndex(Live)
  BY <1>3, <1>4 DEF RL!LastIndex
<1>13. Live' = s /\ Saved' = s /\ Stable' = {s}
  BY <1>6, <1>7, <1>11
<1>14. RL!Rebase(nb)
  BY <1>3, <1>12, <1>13 DEF RL!Rebase, Live, Saved, Stable, StateAt
<1> QED
  BY <1>4, <1>14

-----------------------------------------------------------------------------
(* The refinement.                                                         *)

\* An empty directory is a log that was never created.
LEMMA InitRefines == Init => RL!Init
<1> SUFFICES ASSUME Init PROVE RL!Init
  OBVIOUS
<1>1. ~up /\ file = <<>> /\ safe = 0
  BY DEF Init
<1>2. CF!CrashPoints(file, safe) = {0}
  BY <1>1 DEF CF!CrashPoints, CF!CommitEnds
<1>3. Live = Down /\ Saved = Down /\ Stable = {Absent}
  BY <1>1, <1>2 DEF Live, Saved, Stable, StateAt
<1> QED
  BY <1>3 DEF RL!Init, Live, Saved, Stable, StateAt

\* Every step of the file is one step of the abstract log, or none.
LEMMA StepRefines ==
  TableInv /\ RecoveryInv /\ FloorInv /\ [Next]_vars => [RL!Next]_(RL!vars)
<1> SUFFICES ASSUME TableInv, RecoveryInv, FloorInv, [Next]_vars
             PROVE  RL!Next \/ UNCHANGED <<Live, Saved, Stable>>
  BY DEF RL!vars, Live, Saved, Stable, StateAt
<1>1. ASSUME NEW b \in Bases, Create(b) PROVE RL!Next
  BY <1>1, CreateRefines DEF RL!Next
<1>2. CASE Open
  BY <1>2, OpenRefines DEF RL!Next
<1>3. CASE Crash
  BY <1>3, CrashRefines DEF RL!Next
<1>4. ASSUME NEW t \in Terms, NEW v \in Value, AppendEntry(t, v) PROVE RL!Next
  BY <1>4, AppendEntryRefines DEF RL!Next
<1>5. CASE Sync
  BY <1>5, SyncRefines DEF RL!Next
<1>6. ASSUME NEW t \in Terms, NEW v \in Node \cup {NoVote}, SetHardState(t, v) PROVE RL!Next
  BY <1>6, SetHardStateRefines DEF RL!Next
<1>7. ASSUME NEW i \in Indexes, SetCommitIndex(i) PROVE RL!Next
  BY <1>7, SetCommitIndexRefines DEF RL!Next, Indexes
<1>8. ASSUME NEW i \in Indexes, TruncateFrom(i) PROVE RL!Next
  BY <1>8, TruncateFromRefines DEF RL!Next, Indexes
<1>9. ASSUME NEW i \in Indexes, Compact(i) PROVE UNCHANGED <<Live, Saved, Stable>>
  BY <1>9, CompactStutters
<1>10. CASE AdoptCompacted
  BY <1>10, AdoptRefines DEF RL!Next, Indexes
<1>11. CASE UNCHANGED vars
  BY <1>11 DEF vars, Live, Saved, Stable, StateAt, Image, Shown
<1> QED
  BY <1>1, <1>2, <1>3, <1>4, <1>5, <1>6, <1>7, <1>8, <1>9, <1>10, <1>11 DEF Next

\* The file with its crashes, failed commits and compactions is the log entrylog.h
\* promises a Raft node.
THEOREM ImplementsRaftLog == Spec => RaftLogSpec
<1>1. Init => RL!Init
  BY InitRefines
<1>2. TableInv /\ RecoveryInv /\ FloorInv /\ [Next]_vars => [RL!Next]_(RL!vars)
  BY StepRefines
<1> QED
  BY <1>1, <1>2, TableInvariant, RecoveryInvariant, FloorInvariant, PTL
     DEF Spec, RaftLogSpec, RL!Spec

=============================================================================
