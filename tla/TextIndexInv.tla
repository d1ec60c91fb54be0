------------------------------ MODULE TextIndexInv ------------------------------
(***************************************************************************)
(* The inductive invariant of TextIndex: what the maps of the trees hold,    *)
(* what is left of the call in progress, what the records of the journal     *)
(* stand for, and what a host may rely on of the operations that returned,   *)
(* and the definitions that its proofs are about.                            *)
(***************************************************************************)
EXTENDS TextIndex

IsSeq(s) == s \in Seq(ToSet(s))
IsFcn(f) == f = [x \in DOMAIN f |-> f[x]]

-----------------------------------------------------------------------------
(* The maps of the three trees.                                            *)

\* Only blocks are numbered.
Keys == {k \in (Terms \cup {NoTerm}) \X {"header", "block", "blob", "sum"} \X Nat :
           k[2] # "block" => k[3] = 0}
Dict == Seq(Docs \X (Nat \ {0}))

\* A chain has at least one block.
ValueOK(k, v) ==
  /\ k[2] = "header" => v \in Nat \ {0}
  /\ k[2] \in {"block", "blob"} => v \in Dict

IndexMap(m) ==
  /\ IsFcn(m) /\ DOMAIN m \subseteq Keys
  /\ \A k \in DOMAIN m : ValueOK(k, m[k])
  /\ \E n \in {0} \cup {k[3] : k \in DOMAIN m} : \A k \in DOMAIN m : k[3] <= n

DocSets == {S \in SUBSET Docs : IsFiniteSet(S)}
DocMaps == UNION {[S -> Texts \cup Range(Legacy)] : S \in DocSets}
LengthMap(m) == IsFcn(m) /\ DOMAIN m \in DocSets

MapOK(tr, m) ==
  CASE tr = "index" -> IndexMap(m)
    [] tr = "terms" -> m \in DocMaps
    [] tr = "lengths" -> LengthMap(m)

VersionOK(tr, v) ==
  v = Version(v.map, v.applied) /\ v.applied \in Nat /\ MapOK(tr, v.map)

RecordOK(s, r) ==
  /\ r = [txn |-> r.txn, lens |-> r.lens]
  /\ r.txn \in Nat \ {0} /\ r.lens \in [Trees -> Nat \ {0}]
  /\ r.txn % 2 = 1 <=> s = 0

TypeInv ==
  /\ tree = [tr \in Trees |-> tree[tr]]
  /\ \A tr \in Trees : /\ IsSeq(tree[tr])
                       /\ \A i \in DOMAIN tree[tr] : VersionOK(tr, tree[tr][i])
                       /\ state = "open" => tree[tr] # <<>>
  /\ staged \in [Trees -> Nat] /\ safe \in [Trees -> Nat]
  /\ \A tr \in Trees : safe[tr] <= Len(tree[tr])
  /\ slot = [s \in Slots |-> slot[s]]
  /\ \A s \in Slots : slot[s] = Blank \/ RecordOK(s, slot[s])
  /\ state \in {"down", "open", "failed", "refused"}
  /\ IsSeq(todo) /\ (Busy => state = "open")
  /\ log \in Seq(Operations) /\ base \in {<<>>, Legacy}
  /\ finished \in 0..Len(log) /\ stale \subseteq Recorded
  /\ lost \in BOOLEAN /\ exposed \in BOOLEAN

-----------------------------------------------------------------------------
(* The call in progress.                                                   *)

IndexWrite(w) ==
  \/ w.kind = "put" /\ w = Put("index", w.key, w.val) /\ w.key \in Keys /\ ValueOK(w.key, w.val)
  \/ w.kind = "del" /\ w = Del("index", w.key) /\ w.key \in Keys

TermsWrite(o) ==
  IF o.op = "add" THEN Put("terms", o.doc, o.text) ELSE Del("terms", o.doc)
LengthsWrite(o) ==
  IF o.op = "add" THEN Put("lengths", o.doc, Length(o.text)) ELSE Del("lengths", o.doc)

\* Postings, then the document, its length, the stored sum and the record.
Updating(ws, o) ==
  LET n == Len(ws) IN
  /\ n >= 1 /\ ws[n] = Record
  /\ n > 1 => ws[n - 1] = Put("index", SumKey, ws[n - 1].val)
  /\ n > 2 => ws[n - 2] = LengthsWrite(o)
  /\ n > 3 => ws[n - 3] = TermsWrite(o)
  /\ \A i \in 1..(n - 4) : IndexWrite(ws[i])

Clearing(ws) ==
  Len(ws) \in 1..5 /\ \A i \in 1..Len(ws) : ws[i] = ClearWrites[5 - Len(ws) + i]

Clear(a) == log[a].op = "clear"

CallInv ==
  Busy =>
    LET a == staged["index"]
        n == Len(todo)
    IN  /\ a \in 1..Len(log) /\ staged = [tr \in Trees |-> a]
        /\ ~Clear(a) => /\ Updating(todo, log[a])
                        /\ n <= 1 => Last(tree["index"]).applied = a
        /\ Clear(a) => /\ Clearing(todo)
                       /\ n <= 4 => Recorded = {}
                       /\ n <= 3 => tree["index"] = <<Version(<<>>, a)>>
                       /\ n <= 2 => tree["terms"] = <<Version(<<>>, a)>>
                       /\ n <= 1 => tree["lengths"] = <<Version(<<>>, a)>>

\* The version of a tree the next open goes back to.
Back(tr) ==
  IF Recorded = {} THEN Last(Opened(tree[tr])) ELSE tree[tr][slot[Newest(Usable)].lens[tr]]

\* What an index says it has applied is in the log.
HostInv ==
  /\ state = "open" => \E tr \in Trees : staged[tr] <= Len(log)
  /\ ~Busy /\ (Recorded # {} => Usable # {}) => \E tr \in Trees : Back(tr).applied <= Len(log)

\* Before a crash took commits, the trees have what the records say.
LossInv ==
  /\ state = "refused" => lost
  /\ ~lost => /\ stale = {} /\ \A s \in Recorded : Satisfied(s)
              /\ \A tr \in Trees : tree[tr] # <<>>
              /\ \A r, s \in Recorded : slot[r].txn < slot[s].txn =>
                   \A tr \in Trees : slot[r].lens[tr] <= slot[s].lens[tr]

Inv == TypeInv /\ CallInv /\ HostInv /\ LossInv

-----------------------------------------------------------------------------
(* What the records and the open index stand for.                          *)

LengthsOf(docs) == [d \in DOMAIN docs |-> Length(docs[d])]

\* A term has a chain of blocks, or a blob, or neither when no document has it; no dict
\* has two entries for a document.
LaidOut(m, t) ==
  LET head == HeaderKey(t) \in DOMAIN m
      blob == BlobKey(t) \in DOMAIN m
  IN  /\ head => ~blob /\ BlocksOf(m, t) = 0..(m[HeaderKey(t)] - 1)
      /\ ~head => BlocksOf(m, t) = {}
      /\ \A i \in DOMAIN Dicts(m, t) :
           LET b == Dicts(m, t)[i] IN \A x, y \in DOMAIN b : b[x][1] = b[y][1] => x = y
      /\ (head \/ blob) <=> DOMAIN LoadPostings(m, t) # {}

\* The postings are those of the documents.
PostingsOK(m, docs) ==
  /\ \A k \in DOMAIN m : k[2] \in {"header", "blob"} => k[1] \in Terms
  /\ \A t \in Terms :
       /\ LaidOut(m, t)
       /\ LoadPostings(m, t) = [d \in {e \in DOMAIN docs : t \in DOMAIN docs[e]} |-> docs[d][t]]

SumOK(m, docs) == SumKey \in DOMAIN m => m[SumKey] = SumFunction(LengthsOf(docs))

Serves(m, docs) == PostingsOK(m, docs) /\ SumOK(m, docs)

\* The maps are those of the documents after the first a operations.
Shows(a, index, terms, lens) ==
  terms = Contents(a) /\ lens = LengthsOf(terms) /\ Serves(index, terms)

\* The versions of a record are of one operation, and of no later one what is before them.
Point(s) == tree["terms"][slot[s].lens["terms"]].applied

Good(s) ==
  LET at(tr) == tree[tr][slot[s].lens[tr]] IN
  /\ Satisfied(s) /\ Point(s) <= Len(log)
  /\ \A tr \in Trees : at(tr).applied = Point(s) /\
                       \A i \in 1..slot[s].lens[tr] : tree[tr][i].applied <= Point(s)
  /\ Shows(Point(s), at("index").map, at("terms").map, at("lengths").map)

RecordsInv ==
  ~exposed =>
    /\ \A tr \in Trees : \A i \in DOMAIN tree[tr] :
         tree[tr][i].applied <= (IF state = "open" THEN staged["index"] ELSE Len(log))
    /\ (stale = {} /\ Recorded # {}) => Good(Newest(Recorded))
    /\ ~Busy /\ Usable # {} => Good(Newest(Usable))
    /\ ~lost => \A s \in Recorded : Good(s)
    /\ ~Busy /\ Recorded = {} =>
         /\ \A tr \in Trees : Len(tree[tr]) = 1 /\ tree[tr][1].applied = 0
         /\ Shows(0, tree["index"][1].map, tree["terms"][1].map, tree["lengths"][1].map)

\* What the index holds while a call is writing, and what the rest of it makes of it.
HalfDone(ws, a) ==
  LET n == Len(ws)
      post == AfterAll(Map("index"), SubSeq(ws, 1, n - 4))
  IN  /\ n > 3 => Map("terms") = Contents(a - 1)
      /\ n <= 3 => Map("terms") = Contents(a) /\ Last(tree["terms"]).applied = a
      /\ n > 2 => /\ Map("lengths") = LengthsOf(Contents(a - 1))
                  /\ log[a].op = "remove" => log[a].doc \in DOMAIN Map("lengths")
      /\ n <= 2 => Map("lengths") = LengthsOf(Contents(a)) /\ Last(tree["lengths"]).applied = a
      /\ n > 1 => /\ PostingsOK(post, Contents(a))
                  /\ ws[n - 1].val = SumFunction(LengthsOf(Contents(a)))
      /\ n <= 1 => Serves(Map("index"), Contents(a))

ShownInv ==
  state = "open" /\ ~exposed =>
    LET a == staged["index"] IN
    /\ staged = [tr \in Trees |-> a] /\ a <= Len(log)
    /\ ~Busy => Shows(a, Map("index"), Map("terms"), Map("lengths"))
    /\ Busy /\ ~Clear(a) => HalfDone(todo, a)

-----------------------------------------------------------------------------
(* The operations that returned.                                           *)

\* From the a-th operation on, those that returned changed nothing.
Settled(a) == \A j \in a..finished : Contents(j) = Contents(a)

\* Where the newest record has a tree, or the tree ends.
Kept(tr) == IF Recorded = {} THEN Len(tree[tr]) ELSE slot[Newest(Recorded)].lens[tr]

\* The clears that are behind the index.
Over(j) ==
  /\ Clear(j)
  /\ \/ j <= finished
     \/ state = "open" /\ (IF Busy THEN j < staged["index"] ELSE \A tr \in Trees : j <= staged[tr])

FinishedInv ==
  ~lost =>
    /\ \A j \in 1..Len(log) : Over(j) =>
         \A tr \in Trees : \A i \in DOMAIN tree[tr] : i >= Kept(tr) => j <= tree[tr][i].applied
    /\ \A j \in 1..finished : Clear(j) /\ state = "open" =>
         (\A tr \in Trees : j <= staged[tr]) /\ (Busy => j < staged["index"])
    /\ ~exposed =>
         /\ Recorded # {} => Point(Newest(Recorded)) <= finished /\ Settled(Point(Newest(Recorded)))
         /\ ~Busy /\ Recorded = {} => Settled(0)
         /\ Idle => staged["index"] <= finished /\ Settled(staged["index"])
         /\ Busy => staged["index"] <= finished + 1 /\ Settled(staged["index"])

FullInv == Inv /\ RecordsInv /\ ShownInv /\ FinishedInv

-----------------------------------------------------------------------------
(* The writes of one tree, one after the other.                            *)

\* The maps of some keys to some values, and the writes of such.
MapsOf(K, V) == UNION {[S -> V] : S \in SUBSET K}

WritesOf(K, V) ==
  {Put("index", k, v) : k \in K, v \in V} \cup {Del("index", k) : k \in K}

\* The maps in between.
Runs(v, m, ws) == v[0] = m /\ \A i \in 1..Len(ws) : v[i] = After(v[i - 1], ws[i])

-----------------------------------------------------------------------------
(* The map of the postings tree keeps its type.                            *)

\* The writes of postings.
PostWrites == {w \in WritesOf(Keys, Nat \cup Dict) : IndexWrite(w)}

\* What the values of a map and of the writes to it are taken from.
Values(m) == {m[k] : k \in DOMAIN m} \cup Nat \cup Dict

\* The split of a blob into the blocks of a chain.
UpToBlock(b, i) == Min({i * BlockDocs, Len(b)})

Block(b, i) == SubSeq(b, (i - 1) * BlockDocs + 1, UpToBlock(b, i))

\* What Rewrites issues for the i-th block of a chain, and how many it looks at.
RewriteOf(m, t, d, i) ==
  IF i \in BlocksOf(m, t) /\ d \in DictDocs(m[BlockKey(t, i)])
  THEN <<Put("index", BlockKey(t, i), DictRemove(m[BlockKey(t, i)], d))>>
  ELSE <<>>

BlockBound(m, t) == Max({0} \cup {i + 1 : i \in BlocksOf(m, t)})

\* What deletes a chain of n blocks.
DropChain(t, n) ==
  [i \in 1..n |-> Del("index", BlockKey(t, i - 1))] \o <<Del("index", HeaderKey(t))>>

\* PostRemove in its three cases.
Empties(m, t, d) == \A i \in BlocksOf(m, t) : DictRemove(m[BlockKey(t, i)], d) = <<>>

\* The maps between the terms of a document.
DropsUp(v, m, d, S) ==
  LET ts == InOrder(S) IN
  \A i \in 1..Len(ts) : v[i] = v[i - 1] \o PostRemove(AfterAll(m, v[i - 1]), ts[i], d)

AddsUp(v, m, d, x) ==
  LET ts == InOrder(DOMAIN x) IN
  \A i \in 1..Len(ts) : v[i] = v[i - 1] \o PostAdd(AfterAll(m, v[i - 1]), ts[i], d, x[ts[i]])

-----------------------------------------------------------------------------
(* What the dicts of a term say.                                           *)

\* No two entries are for one document.
Single(b) == \A x, y \in DOMAIN b : b[x][1] = b[y][1] => x = y

Has(b, d, v) == \E x \in DOMAIN b : b[x] = <<d, v>>

-----------------------------------------------------------------------------
(* What a chain of dicts says.                                             *)

Holding(c, d) == {i \in DOMAIN c : d \in DictDocs(c[i])}

Loaded(c) ==
  [d \in UNION {DictDocs(c[i]) : i \in DOMAIN c} |->
     c[Max(Holding(c, d))][Entry(c[Max(Holding(c, d))], d)][2]]

ChainOK(c) ==
  /\ \A i \in DOMAIN c : i \in Nat /\ c[i] \in Dict /\ Single(c[i])
  /\ \E n \in Nat : DOMAIN c \subseteq 0..n

\* The last dict that has the document gives its frequency.
Says(c, d, v) ==
  \E i \in DOMAIN c : Has(c[i], d, v) /\ \A j \in DOMAIN c : j > i => d \notin DictDocs(c[j])

Names(c, d) == \E i \in DOMAIN c : d \in DictDocs(c[i])

\* The last dict takes an entry, or a new one has it.
OthersSame(b, c, k, d) ==
  \A e, w : e # d => (Has(b[k], e, w) <=> k \in DOMAIN c /\ Has(c[k], e, w))

Later(b, c, k, d, v) ==
  /\ ChainOK(c) /\ k \in Nat /\ DOMAIN c \in {0..k, 0..(k - 1)}
  /\ DOMAIN b = 0..k /\ \A i \in 0..(k - 1) : b[i] = c[i]
  /\ d \in Docs /\ b[k] \in Dict /\ Single(b[k]) /\ Has(b[k], d, v) /\ OthersSame(b, c, k, d)

-----------------------------------------------------------------------------
(* What writes make of a map, key by key.                                  *)

SameAt(f, m, k) == (k \in DOMAIN f <=> k \in DOMAIN m) /\ (k \in DOMAIN m => f[k] = m[k])

Written(f, w) ==
  /\ w.kind = "put" => w.key \in DOMAIN f /\ f[w.key] = w.val
  /\ w.kind = "del" => w.key \notin DOMAIN f

\* Writes to as many keys as there are writes.
Distinct(ws) == \A i, j \in 1..Len(ws) : ws[i].key = ws[j].key => i = j

-----------------------------------------------------------------------------
(* The postings of a term in a map.                                        *)

\* A term with a chain of n blocks, and one without.
Chained(m, t, n) ==
  /\ HeaderKey(t) \in DOMAIN m /\ m[HeaderKey(t)] = n /\ BlobKey(t) \notin DOMAIN m
  /\ \A i \in Nat : BlockKey(t, i) \in DOMAIN m <=> i < n

Unchained(m, t) ==
  HeaderKey(t) \notin DOMAIN m /\ \A i \in Nat : BlockKey(t, i) \notin DOMAIN m

Chain(m, t, n) == [i \in 0..(n - 1) |-> m[BlockKey(t, i)]]

Filled(m, t) ==
  HeaderKey(t) \in DOMAIN m \/ BlobKey(t) \in DOMAIN m <=> DOMAIN LoadPostings(m, t) # {}

\* Maps that agree on the keys of a term have the same postings of it.
SameTerm(f, m, t) ==
  SameAt(f, m, HeaderKey(t)) /\ SameAt(f, m, BlobKey(t)) /\ \A i \in Nat : SameAt(f, m, BlockKey(t, i))

\* The term has other postings, and no other key of the map changed.
Changed(f, m, t, g) ==
  /\ IndexMap(f) /\ LaidOut(f, t) /\ LoadPostings(f, t) = g
  /\ \A k : k[1] # t => SameAt(f, m, k)

JoinOf(z, x, y, k, l) ==
  /\ Len(z) = k + l
  /\ \A i \in 1..k : z[i] = x[i]
  /\ \A i \in 1..l : z[k + i] = y[i]

\* The writes that make a chain of a blob, or of nothing.
Parted(t, blk, n) == [i \in 1..n |-> Put("index", BlockKey(t, i - 1), Block(blk, i))]

NoBlob(m, t) == IF BlobKey(t) \in DOMAIN m THEN <<Del("index", BlobKey(t))>> ELSE <<>>

CutPlan(ws, m, t, blk, n) ==
  /\ ws \in Seq(PostWrites) /\ Distinct(ws)
  /\ Len(ws) = IF BlobKey(t) \in DOMAIN m THEN n + 2 ELSE n + 1
  /\ \A j \in 1..n : ws[j] = Put("index", BlockKey(t, j - 1), Block(blk, j))
  /\ ws[n + 1] = Put("index", HeaderKey(t), n)
  /\ BlobKey(t) \in DOMAIN m => ws[n + 2] = Del("index", BlobKey(t))

\* What is in the map when a blob was cut.
CutDone(f, m, t, blk, n) ==
  /\ \A j \in 1..n : BlockKey(t, j - 1) \in DOMAIN f /\ f[BlockKey(t, j - 1)] = Block(blk, j)
  /\ HeaderKey(t) \in DOMAIN f /\ f[HeaderKey(t)] = n
  /\ BlobKey(t) \notin DOMAIN f
  /\ \A k : k # HeaderKey(t) /\ k # BlobKey(t) /\ (\A i \in 0..(n - 1) : k # BlockKey(t, i)) => SameAt(f, m, k)

-----------------------------------------------------------------------------
(* A document is taken out of a term.                                      *)

\* The blocks have lost the document, and nothing else changed.
Rewritten(f, m, t, d) ==
  /\ \A i \in Nat : BlockKey(t, i) \in DOMAIN f <=> BlockKey(t, i) \in DOMAIN m
  /\ \A i \in Nat : BlockKey(t, i) \in DOMAIN m =>
       f[BlockKey(t, i)] = DictRemove(m[BlockKey(t, i)], d)
  /\ \A k : (\A i \in Nat : k # BlockKey(t, i)) => SameAt(f, m, k)

\* The first n of the blocks have.
RewrittenTo(f, m, t, d, n) ==
  /\ \A i \in Nat : BlockKey(t, i) \in DOMAIN f <=> BlockKey(t, i) \in DOMAIN m
  /\ \A i \in Nat : BlockKey(t, i) \in DOMAIN m =>
       f[BlockKey(t, i)] = IF i < n THEN DictRemove(m[BlockKey(t, i)], d) ELSE m[BlockKey(t, i)]
  /\ \A k : (\A i \in Nat : k # BlockKey(t, i)) => SameAt(f, m, k)

-----------------------------------------------------------------------------
(* A document's terms one after the other.                                 *)

HeadsOK(m) == \A k \in DOMAIN m : k[2] \in {"header", "blob"} => k[1] \in Terms

TidyMap(m) == IndexMap(m) /\ HeadsOK(m) /\ \A t \in Terms : LaidOut(m, t)

\* The terms of S have lost the document, the others are as they were.
Dropped(f, m, d, S) ==
  \A t \in Terms :
    LoadPostings(f, t) = IF t \in S THEN Without(LoadPostings(m, t), d) ELSE LoadPostings(m, t)

\* The terms of x have the document with their frequency, the others are as they were.
Posted(f, m, d, x, S) ==
  \A t \in Terms :
    LoadPostings(f, t) = IF t \in S THEN With(LoadPostings(m, t), d, x[t]) ELSE LoadPostings(m, t)

-----------------------------------------------------------------------------
(* The documents after a prefix of a log.                                  *)

Effect(docs, o) ==
  CASE o.op = "add"    -> With(docs, o.doc, o.text)
    [] o.op = "remove" -> Without(docs, o.doc)
    [] o.op = "clear"  -> <<>>

DocsAfter(b, l, a) ==
  LET docs[n \in 0..a] == IF n = 0 THEN b ELSE LET o == l[n] IN
             CASE o.op = "add"    -> With(docs[n - 1], o.doc, o.text)
               [] o.op = "remove" -> Without(docs[n - 1], o.doc)
               [] o.op = "clear"  -> <<>>
  IN  docs[a]

\* A sequence and four more elements.
EndsIn(ws, p, a, b, c, e) ==
  /\ IsSeq(ws) /\ Len(ws) = Len(p) + 4 /\ Len(p) \in Nat
  /\ SubSeq(ws, 1, Len(ws) - 4) = p
  /\ \A i \in 1..Len(p) : ws[i] = p[i]
  /\ ws[Len(ws) - 3] = a /\ ws[Len(ws) - 2] = b /\ ws[Len(ws) - 1] = c /\ ws[Len(ws)] = e

\* An operation's writes of postings, and the others.
Planned(ws, o, ps, v) ==
  /\ IsSeq(ws) /\ ws # <<>> /\ Updating(ws, o) /\ Len(ws) > 3
  /\ SubSeq(ws, 1, Len(ws) - 4) = ps /\ ws[Len(ws) - 1].val = v

\* The writes of postings of an add and of a remove, and the sum they store.
AddPosts(m, terms, o) ==
  Posts(m, o.doc, o.text, Drops(m, o.doc, DOMAIN At(terms, o.doc, <<>>) \ DOMAIN o.text))

RemovePosts(m, terms, o) == Drops(m, o.doc, DOMAIN terms[o.doc])

NewSum(m, terms, lens, o) ==
  IF o.op = "add"
  THEN CorpusLength(m, With(lens, o.doc, Length(o.text)),
                    Length(o.text) - Length(At(terms, o.doc, <<>>)))
  ELSE CorpusLength(m, Without(lens, o.doc), -Length(terms[o.doc]))

-----------------------------------------------------------------------------
(* What the documents make of the postings.                                *)

\* The lengths an operation leaves.
NewLens(lens, o) ==
  IF o.op = "add" THEN With(lens, o.doc, Length(o.text)) ELSE Without(lens, o.doc)

Having(docs, t) == [d \in {e \in DOMAIN docs : t \in DOMAIN docs[e]} |-> docs[d][t]]

\* The blob of an older file has one entry for each document with the term.
BlobOf(docs, t) ==
  LET ds == SetToSeq({d \in DOMAIN docs : t \in DOMAIN docs[d]}) IN
  [i \in DOMAIN ds |-> <<ds[i], docs[ds[i]][t]>>]

-----------------------------------------------------------------------------
(* The records of the journal, of a journal sl and trees vs.               *)

RecordsOf(sl) == {s \in Slots : sl[s] # Blank}

SlotsOK(sl) == sl = [s \in Slots |-> sl[s]] /\ \A s \in Slots : sl[s] = Blank \/ RecordOK(s, sl[s])

SatisfiedBy(vs, r) == \A tr \in Trees : r.lens[tr] <= Len(vs[tr])

UsableOf(vs, sl) == {s \in RecordsOf(sl) : SatisfiedBy(vs, sl[s])}

Latest(sl, S) == CHOOSE s \in S : \A r \in S : sl[r].txn <= sl[s].txn

\* A journal with one more record, the newest.
RecordAdded(sl, lens) ==
  /\ SlotsOK(sl) /\ RecordsOf(sl) = Recorded \cup {NextSlot} /\ NextSlot \in Slots
  /\ sl[NextSlot].txn = NewestTxn + 1 /\ sl[NextSlot].lens = lens
  /\ \A s \in Slots : s # NextSlot => sl[s] = slot[s]
  /\ \A s \in RecordsOf(sl) : s # NextSlot => sl[s].txn < sl[NextSlot].txn

-----------------------------------------------------------------------------
(* The versions of the trees.                                              *)

TreesOK(vs) ==
  /\ vs = [tr \in Trees |-> vs[tr]]
  /\ \A tr \in Trees : IsSeq(vs[tr]) /\ \A i \in DOMAIN vs[tr] : VersionOK(tr, vs[tr][i])

\* One more version.
GrownBy(t, s, v) ==
  /\ IsSeq(t) /\ Len(t) = Len(s) + 1 /\ t # <<>> /\ Last(t) = v /\ t[Len(s) + 1] = v
  /\ \A i \in 1..Len(s) : t[i] = s[i]

\* The first n versions.
CutTo(t, s, n) == IsSeq(t) /\ Len(t) = n /\ \A i \in 1..n : t[i] = s[i]

\* A record of a journal.
PointOf(vs, r) == vs["terms"][r.lens["terms"]].applied

ShowsOf(b, l, a, index, terms, lens) ==
  terms = DocsAfter(b, l, a) /\ lens = LengthsOf(terms) /\ Serves(index, terms)

MapsGood(vs, r, l, b) ==
  ShowsOf(b, l, PointOf(vs, r), vs["index"][r.lens["index"]].map, vs["terms"][r.lens["terms"]].map,
          vs["lengths"][r.lens["lengths"]].map)

AppliedGood(vs, r) ==
  \A tr \in Trees : /\ vs[tr][r.lens[tr]].applied = PointOf(vs, r)
                    /\ \A i \in 1..r.lens[tr] : vs[tr][i].applied <= PointOf(vs, r)

GoodOf(vs, r, l, b) ==
  SatisfiedBy(vs, r) /\ PointOf(vs, r) <= Len(l) /\ AppliedGood(vs, r) /\ MapsGood(vs, r, l, b)

\* A record is as good when its versions stay, and the operations before them.
Agree(vs, ws, n) ==
  \A tr \in Trees : n[tr] <= Len(ws[tr]) /\ \A i \in 1..n[tr] : ws[tr][i] = vs[tr][i]

-----------------------------------------------------------------------------
(* The next write of a call.                                               *)

TailOf(t, ws) ==
  /\ IsSeq(t) /\ Len(ws) \in Nat \ {0} /\ Len(t) = Len(ws) - 1
  /\ (t = <<>> <=> Len(ws) = 1)
  /\ \A i \in 1..(Len(ws) - 1) : t[i] = ws[i + 1]
  /\ Head(ws) = ws[1]

-----------------------------------------------------------------------------
(* What a step does to the trees.                                          *)

Adds(tr, v) ==
  tree' = [tree EXCEPT ![tr] = Append(tree[tr], v)] /\ UNCHANGED <<safe, slot, stale>>

Stays == UNCHANGED <<tree, safe, slot, stale>>

Restarts(tr, v) ==
  tree' = [tree EXCEPT ![tr] = <<v>>] /\ safe' = [safe EXCEPT ![tr] = 0] /\ UNCHANGED <<slot, stale>>

PostStep(a) ==
  /\ ~Clear(a) /\ Len(todo) > 4 /\ IndexWrite(Head(todo))
  /\ LET m == After(Map("index"), Head(todo)) IN
     Adds("index", Version(m, a)) \/ (Stays /\ m = Map("index"))

TermsStep(a) ==
  /\ ~Clear(a) /\ Len(todo) = 4
  /\ LET m == Effect(Map("terms"), log[a]) IN
     \/ Adds("terms", Version(m, a))
     \/ Stays /\ m = Map("terms") /\ log[a].op = "remove" /\ log[a].doc \notin DOMAIN Map("terms")

LengthsStep(a) ==
  /\ ~Clear(a) /\ Len(todo) = 3
  /\ LET m == NewLens(Map("lengths"), log[a]) IN
     \/ Adds("lengths", Version(m, a))
     \/ Stays /\ m = Map("lengths") /\ log[a].op = "remove" /\ log[a].doc \notin DOMAIN Map("lengths")

SumStep(a) ==
  /\ ~Clear(a) /\ Len(todo) = 2
  /\ Adds("index", Version(With(Map("index"), SumKey, todo[Len(todo) - 1].val), a))

RecordStep(a) == Len(todo) = 1 /\ CommitRecord /\ UNCHANGED <<tree, safe>>

TruncateStep(a) ==
  /\ Clear(a) /\ Len(todo) = 5 /\ slot' = [s \in Slots |-> Blank] /\ stale' = {}
  /\ UNCHANGED <<tree, safe>>

ResetStep(a) ==
  /\ Clear(a) /\ Recorded = {}
  /\ \/ Len(todo) = 4 /\ Restarts("index", Version(<<>>, a))
     \/ Len(todo) = 3 /\ Restarts("terms", Version(<<>>, a))
     \/ Len(todo) = 2 /\ Restarts("lengths", Version(<<>>, a))

\* A step is one of these, and goes on to the next write.
GoesOn(a) ==
  /\ Busy /\ state = "open" /\ a \in 1..Len(log) /\ a = staged["index"] /\ staged = [tr \in Trees |-> a]
  /\ log[a] \in Operations /\ TailOf(todo', todo)
  /\ ~Clear(a) => Updating(todo, log[a]) /\ (Len(todo) > 1 => Updating(todo', log[a]))
  /\ Clear(a) => Clearing(todo) /\ (Len(todo) > 1 => Clearing(todo'))
  /\ todo' = Tail(todo) /\ (todo' = <<>> <=> Len(todo) = 1)
  /\ finished' = IF Len(todo) = 1 THEN Max({finished, a}) ELSE finished
  /\ exposed' = IF Len(todo) = 1 /\ Clear(a) THEN FALSE ELSE exposed
  /\ UNCHANGED <<staged, state, log, base, lost>>

\* Some trees have more versions, of operation a.
Extends(a) ==
  /\ TreesOK(tree')
  /\ \A tr \in Trees :
       /\ Len(tree'[tr]) \in Nat /\ Len(tree[tr]) <= Len(tree'[tr])
       /\ \A i \in 1..Len(tree[tr]) : tree'[tr][i] = tree[tr][i]
       /\ \A i \in 1..Len(tree'[tr]) : i > Len(tree[tr]) => tree'[tr][i].applied = a
  /\ UNCHANGED <<safe, slot, stale>>

WriteStep(a) == PostStep(a) \/ TermsStep(a) \/ LengthsStep(a) \/ SumStep(a)

\* A step is a write to a tree, the record that ends the call, or one of a clear.
StepKinds(a) == WriteStep(a) \/ RecordStep(a) \/ TruncateStep(a) \/ ResetStep(a)

\* What every step goes from.
AStep(a) ==
  /\ TypeInv /\ CallInv /\ TypeInv' /\ a = staged["index"] /\ a \in Nat
  /\ GoesOn(a) /\ StepKinds(a)

\* What the records stand for, in terms of the trees, the journal and the log.
RecordsFull(a, busy) ==
  /\ \A tr \in Trees : \A i \in 1..Len(tree[tr]) : tree[tr][i].applied <= a
  /\ (stale = {} /\ Recorded # {}) => GoodOf(tree, slot[Newest(Recorded)], log, base)
  /\ ~busy /\ Usable # {} => GoodOf(tree, slot[Newest(Usable)], log, base)
  /\ ~lost => \A s \in Recorded : GoodOf(tree, slot[s], log, base)
  /\ ~busy /\ Recorded = {} =>
       /\ \A tr \in Trees : Len(tree[tr]) = 1 /\ tree[tr][1].applied = 0
       /\ ShowsOf(base, log, 0, tree["index"][1].map, tree["terms"][1].map, tree["lengths"][1].map)

\* HalfDone of what the trees end with and the documents before and after the operation.
HalfOf(ws, m, terms, lens, ta, la, old, new, o, a) ==
  LET n == Len(ws) IN
  /\ n > 3 => terms = old
  /\ n <= 3 => terms = new /\ ta = a
  /\ n > 2 => lens = LengthsOf(old) /\ (o.op = "remove" => o.doc \in DOMAIN lens)
  /\ n <= 2 => lens = LengthsOf(new) /\ la = a
  /\ n > 1 => /\ PostingsOK(AfterAll(m, SubSeq(ws, 1, n - 4)), new)
              /\ ws[n - 1].val = SumFunction(LengthsOf(new))
  /\ n <= 1 => Serves(m, new)

HalfNow(ws, a) ==
  HalfOf(ws, Map("index"), Map("terms"), Map("lengths"),
         Last(tree["terms"]).applied, Last(tree["lengths"]).applied,
         DocsAfter(base, log, a - 1), DocsAfter(base, log, a), log[a], a)

ShownFull(a, busy, clear) ==
  /\ staged = [tr \in Trees |-> a] /\ a <= Len(log)
  /\ ~busy => ShowsOf(base, log, a, Map("index"), Map("terms"), Map("lengths"))
  /\ busy /\ ~clear => HalfNow(todo, a)

-----------------------------------------------------------------------------
(* The operations that returned, after a step.                             *)

SettledOf(b, l, f, a) == \A j \in a..f : DocsAfter(b, l, j) = DocsAfter(b, l, a)

Behind == \A j \in 1..Len(log) : Over(j) =>
            \A tr \in Trees : \A i \in 1..Len(tree[tr]) : i >= Kept(tr) => j <= tree[tr][i].applied

ClearsStaged(open, busy) ==
  \A j \in 1..finished : Clear(j) /\ open =>
    (\A tr \in Trees : j <= staged[tr]) /\ (busy => j < staged["index"])

Counted(open, busy) ==
  /\ Recorded # {} => /\ PointOf(tree, slot[Newest(Recorded)]) <= finished
                      /\ SettledOf(base, log, finished, PointOf(tree, slot[Newest(Recorded)]))
  /\ ~busy /\ Recorded = {} => SettledOf(base, log, finished, 0)
  /\ open /\ ~busy => staged["index"] <= finished /\ SettledOf(base, log, finished, staged["index"])
  /\ busy => staged["index"] <= finished + 1 /\ SettledOf(base, log, finished, staged["index"])

-----------------------------------------------------------------------------
(* The index closed, failed, or down after a crash.                        *)

Stops ==
  /\ TypeInv /\ TypeInv' /\ state' \notin {"open", "refused"} /\ ~Busy'
  /\ log' = log /\ base' = base /\ finished' = finished /\ TornSlot
  /\ \A tr \in Trees : /\ Len(tree'[tr]) <= Len(tree[tr])
                       /\ \A i \in 1..Len(tree'[tr]) : tree'[tr][i] = tree[tr][i]
  /\ lost => tree' = tree
  /\ ~lost' => ~lost /\ tree' = tree /\ stale' = {}
  /\ ~exposed' => ~exposed /\ ((Busy \/ tree' # tree) => ~Uncovered)
  /\ ~exposed' /\ stale' = {} /\ Recorded # {} =>
       /\ GoodOf(tree, slot[Newest(Recorded)], log, base)
       /\ SatisfiedBy(tree', slot[Newest(Recorded)])

\* A call of the a-th operation o.
Calls(a, o) ==
  /\ TypeInv /\ state = "open" /\ ~Busy /\ a \in 1..Len(log') /\ o \in Operations /\ log'[a] = o
  /\ log' \in Seq(Operations) /\ Len(log) <= Len(log') /\ \A i \in 1..Len(log) : log'[i] = log[i]
  /\ a - 1 <= Len(log) /\ \A tr \in Trees : a - 1 <= staged[tr]
  /\ \E tr \in Trees : a - 1 = staged[tr]
  /\ staged' = [tr \in Trees |-> a] /\ todo' = Writes(o)
  /\ finished' = IF todo' = <<>> THEN Max({finished, a}) ELSE finished
  /\ UNCHANGED <<tree, safe, slot, state, base, lost, stale, exposed>>

\* The open index is the one the journal stands for.
OpenAs ==
  \/ /\ Recorded # {} /\ Usable = {} /\ state' = "refused" /\ tree' = tree /\ log' = log
  \/ /\ Recorded = {} /\ state' = "open" /\ \A tr \in Trees : tree'[tr] = Opened(tree[tr])
  \/ /\ Usable # {} /\ state' = "open" /\ Newest(Usable) \in Usable /\ Newest(Usable)' = Newest(Usable)
     /\ Newest(Usable) \in Usable'
     /\ \A tr \in Trees : CutTo(tree'[tr], tree[tr], slot[Newest(Usable)].lens[tr])

Opens ==
  /\ TypeInv /\ TypeInv' /\ ~Busy /\ ~Busy' /\ state = "down" /\ OpenAs
  /\ UNCHANGED <<slot, base, lost, stale, exposed>>
  /\ Recorded' = Recorded /\ Newest(Recorded)' = Newest(Recorded)
  /\ Len(log') <= Len(log) /\ \A i \in 1..Len(log') : log'[i] = log[i]
  /\ finished' <= finished /\ finished' <= Len(log') /\ (finished' = finished \/ finished' = Len(log'))
  /\ log' # log => state' = "open" /\ \A tr \in Trees : Len(log') <= staged'[tr]
  /\ state' = "open" => \A tr \in Trees : /\ tree'[tr] # <<>> /\ staged'[tr] = Last(tree'[tr]).applied
                                          /\ Back(tr) = Last(tree'[tr]) /\ Back(tr)' = Last(tree'[tr])
  /\ log' = log \/ Len(log') = Len(log) \/ \E tr \in Trees : Len(log') = staged'[tr]

\* An open index that nothing exposes has applied p operations.
OpensAt(p) ==
  /\ staged' = [tr \in Trees |-> p] /\ p <= Len(log') /\ p <= Len(log)
  /\ \A tr \in Trees : \A i \in 1..Len(tree'[tr]) : tree'[tr][i].applied <= p
  /\ ShowsOf(base', log', p, Map("index")', Map("terms")', Map("lengths")')
  /\ Recorded = {} => p = 0 /\ tree' = tree /\ \A tr \in Trees : Len(tree[tr]) = 1 /\ tree[tr][1].applied = 0
  /\ Recorded # {} => /\ Newest(Usable) \in Recorded
                      /\ GoodOf(tree, slot[Newest(Usable)], log, base)
                      /\ PointOf(tree, slot[Newest(Usable)]) = p
                      /\ GoodOf(tree', slot'[Newest(Usable)], log', base')
                      /\ PointOf(tree', slot'[Newest(Usable)]) = p

=============================================================================
