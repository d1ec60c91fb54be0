------------------------------- MODULE TextIndex -------------------------------
(***************************************************************************)
(* src/textindex.c and the TextIndex class of structures-core.js: a full-   *)
(* text index over three B+ trees (postings, term maps, document lengths), *)
(* whose add and remove are many commits of three files, and the journal   *)
(* that makes one operation of them.                                       *)
(*                                                                         *)
(* A tree is the sequence of its committed versions (BPlusTree implements  *)
(* them), all commits have one size, and a document is a bag of stems.     *)
(* The host applies a replicated log: it stages the index of an operation  *)
(* before it calls it and goes on after appliedIndex() when it restarts;   *)
(* a host without a log is one that forgets what was not applied.          *)
(***************************************************************************)
EXTENDS Integers, Sequences, SequencesExt, FiniteSetsExt, Functions, TLC

CONSTANTS
  Docs, Terms,
  Texts,         \* the documents: functions from some terms to their frequency
  BlockDocs,     \* TIX_BLOCK_DOCS
  Legacy,        \* documents an old index may start with
  MaxOps,        \* bound: operations in the log and documents it started from
  Faults,        \* "tail": a crash may take unsynced commits of a tree;
                 \* "write": a tree may fail to commit
  NoTerm

ASSUME BoundsAssumption == BlockDocs \in Nat \ {0} /\ MaxOps \in Nat

\* A text is a bag of finitely many stems; an old index is a finite map to such.
IsText(x) == /\ IsFiniteSet(DOMAIN x) /\ DOMAIN x \subseteq Terms
             /\ x = [t \in DOMAIN x |-> x[t]] /\ \A t \in DOMAIN x : x[t] \in Nat \ {0}

ASSUME TextsAssumption ==
  /\ \A x \in Texts \cup Range(Legacy) : IsText(x)
  /\ IsFiniteSet(DOMAIN Legacy) /\ DOMAIN Legacy \subseteq Docs
  /\ Legacy = [d \in DOMAIN Legacy |-> Legacy[d]]

Trees == {"index", "terms", "lengths"}
Slots == {0, 1}

VARIABLES
  tree,          \* the versions of each tree: its map and its applied index
  staged,        \* of each tree: the applied index its next commit carries
  safe,          \* of each tree: the versions no crash takes
  slot,          \* the journal
  state,         \* "down", "open", "failed" or "refused"
  todo,          \* the writes the call in progress still has to issue
  log,           \* the operations the host has issued, by their index
  base,          \* history: the documents of the files the index started from
  finished,      \* history: the last operation that returned
  lost,          \* history: a crash has taken a commit
  stale,         \* history: the slots whose lengths a tree no longer had
  exposed        \* history: an operation was cut short with no record to go back to

vars == <<tree, staged, safe, slot, state, todo, log, base, finished, lost, stale, exposed>>

history == <<base, finished, lost, stale, exposed>>

-----------------------------------------------------------------------------
(* Keys and values of the postings tree.                                   *)

HeaderKey(t)   == <<t, "header", 0>>
BlockKey(t, i) == <<t, "block", i>>
BlobKey(t)     == <<t, "blob", 0>>
SumKey         == <<NoTerm, "sum", 0>>

\* A dict: the pairs of document and frequency in the order they came.
DictDocs(b) == {b[i][1] : i \in DOMAIN b}

DictSet(b, d, v) ==
  IF d \in DictDocs(b) THEN [i \in DOMAIN b |-> IF b[i][1] = d THEN <<d, v>> ELSE b[i]]
  ELSE Append(b, <<d, v>>)

\* The entry of a document in a dict that has one.
Entry(b, d) == CHOOSE i \in DOMAIN b : b[i][1] = d

DictRemove(b, d) == IF d \in DictDocs(b) THEN RemoveAt(b, Entry(b, d)) ELSE b

At(m, k, default) == IF k \in DOMAIN m THEN m[k] ELSE default

\* The numbers of a term's blocks.
BlocksOf(m, t) == {k[3] : k \in {j \in DOMAIN m : j[1] = t /\ j[2] = "block"}}

\* The dicts that hold a term's postings: its blocks, or the blob of an older file.
\* Blocks without a header count for nothing.
Dicts(m, t) ==
  IF HeaderKey(t) \in DOMAIN m /\ BlocksOf(m, t) # {}
  THEN [i \in BlocksOf(m, t) |-> m[BlockKey(t, i)]]
  ELSE [i \in {0} |-> At(m, BlobKey(t), <<>>)]

\* The frequency of each document, which a later block replaces.
LoadPostings(m, t) ==
  LET dict == Dicts(m, t)
      last(d) == dict[Max({i \in DOMAIN dict : d \in DictDocs(dict[i])})]
  IN  [d \in UNION {DictDocs(dict[i]) : i \in DOMAIN dict} |->
         last(d)[Entry(last(d), d)][2]]

-----------------------------------------------------------------------------
(* Writes: each is one commit of a tree or one write of the journal.        *)

Put(tr, k, v) == [kind |-> "put", tree |-> tr, key |-> k, val |-> v]
Del(tr, k)    == [kind |-> "del", tree |-> tr, key |-> k]
Reset(tr)     == [kind |-> "reset", tree |-> tr]
Record        == [kind |-> "record"]
Truncate      == [kind |-> "truncate"]

With(m, k, v) == [x \in DOMAIN m \cup {k} |-> IF x = k THEN v ELSE m[x]]
Without(m, k) == Restrict(m, DOMAIN m \ {k})

After(m, w) ==
  CASE w.kind = "put"   -> With(m, w.key, w.val)
    [] w.kind = "del"   -> Without(m, w.key)
    [] w.kind = "reset" -> <<>>

AfterAll(m, ws) ==
  LET after[n \in 0..Len(ws)] == IF n = 0 THEN m ELSE After(after[n - 1], ws[n])
  IN  after[Len(ws)]

PostAdd(m, t, d, v) ==
  IF HeaderKey(t) \in DOMAIN m
  THEN LET n   == m[HeaderKey(t)]
           blk == At(m, BlockKey(t, n - 1), <<>>)
       IN  IF d \notin DictDocs(blk) /\ Len(blk) >= BlockDocs
           THEN <<Put("index", BlockKey(t, n), <<<<d, v>>>>),
                  Put("index", HeaderKey(t), n + 1)>>
           ELSE <<Put("index", BlockKey(t, n - 1), DictSet(blk, d, v))>>
  ELSE LET blk == DictSet(At(m, BlobKey(t), <<>>), d, v)
           n   == (Len(blk) + BlockDocs - 1) \div BlockDocs
           upTo(i) == Min({i * BlockDocs, Len(blk)})
       IN  [i \in 1..n |-> Put("index", BlockKey(t, i - 1),
                               SubSeq(blk, (i - 1) * BlockDocs + 1, upTo(i)))]
             \o <<Put("index", HeaderKey(t), n)>>
             \o (IF BlobKey(t) \in DOMAIN m THEN <<Del("index", BlobKey(t))>> ELSE <<>>)

\* The blocks that hold the document are rewritten, in the order of their keys.
Rewrites(m, t, d) ==
  LET all == BlocksOf(m, t)
      block(i) == m[BlockKey(t, i)]
      rewrite(i) == IF i \in all /\ d \in DictDocs(block(i))
                    THEN <<Put("index", BlockKey(t, i), DictRemove(block(i), d))>>
                    ELSE <<>>
      ws[n \in 0..Max({0} \cup {i + 1 : i \in all})] ==
        IF n = 0 THEN <<>> ELSE ws[n - 1] \o rewrite(n - 1)
  IN  ws[Max({0} \cup {i + 1 : i \in all})]

\* A chain none of whose blocks has an entry left is deleted.
PostRemove(m, t, d) ==
  IF HeaderKey(t) \in DOMAIN m
  THEN Rewrites(m, t, d)
       \o (IF \E i \in BlocksOf(m, t) : DictRemove(m[BlockKey(t, i)], d) # <<>> THEN <<>>
           ELSE [i \in 1..m[HeaderKey(t)] |-> Del("index", BlockKey(t, i - 1))]
                  \o <<Del("index", HeaderKey(t))>>)
  ELSE IF BlobKey(t) \notin DOMAIN m THEN <<>>
  ELSE LET post == DictRemove(m[BlobKey(t)], d) IN
       IF post = <<>> THEN <<Del("index", BlobKey(t))>>
                      ELSE <<Put("index", BlobKey(t), post)>>

-----------------------------------------------------------------------------
(* What the calls write, in the order they write it.                       *)

Length(x) == SumFunction(x)

\* The stored sum moves by the difference; an index without one has it counted, the
\* document lengths being up to date by then.
CorpusLength(m, lens, delta) ==
  IF SumKey \in DOMAIN m THEN m[SumKey] + delta ELSE SumFunction(lens)

\* The terms of a document are visited in the order they came.
InOrder(S) == SetToSeq(S)

\* The document's postings of the terms in gone are not taken out.
Drops_None(m, d, gone) == <<>>

Drops(m, d, gone) ==
  LET ts == InOrder(gone)
      ws[n \in 0..Len(ts)] ==
        IF n = 0 THEN <<>> ELSE ws[n - 1] \o PostRemove(AfterAll(m, ws[n - 1]), ts[n], d)
  IN  ws[Len(ts)]

\* The writes before them and those of the postings of the document.
Posts(m, d, x, before) ==
  LET ts == InOrder(DOMAIN x)
      ws[n \in 0..Len(ts)] ==
        IF n = 0 THEN before
        ELSE ws[n - 1] \o PostAdd(AfterAll(m, ws[n - 1]), ts[n], d, x[ts[n]])
  IN  ws[Len(ts)]

\* tix_add: a document added again is replaced.
AddWrites(m, terms, lens, d, x) ==
  LET old   == At(terms, d, <<>>)
      posts == Posts(m, d, x, Drops(m, d, DOMAIN old \ DOMAIN x))
  IN  posts \o <<Put("terms", d, x), Put("lengths", d, Length(x)),
                 Put("index", SumKey,
                     CorpusLength(m, With(lens, d, Length(x)), Length(x) - Length(old))),
                 Record>>

\* tix_remove: nothing is written for a document that is not there.
RemoveWrites(m, terms, lens, d) ==
  IF d \notin DOMAIN terms THEN <<>>
  ELSE Drops(m, d, DOMAIN terms[d])
       \o <<Del("terms", d), Del("lengths", d),
            Put("index", SumKey, CorpusLength(m, Without(lens, d), -Length(terms[d]))),
            Record>>

\* tix_clear, which empties the journal first.
ClearWrites == <<Truncate, Reset("index"), Reset("terms"), Reset("lengths"), Record>>

AddOp(d, x) == [op |-> "add", doc |-> d, text |-> x]
RemoveOp(d)  == [op |-> "remove", doc |-> d]
ClearOp      == [op |-> "clear"]
Operations == {AddOp(d, x) : d \in Docs, x \in Texts} \cup {RemoveOp(d) : d \in Docs} \cup {ClearOp}

Map(tr) == Last(tree[tr]).map

Writes(o) ==
  CASE o.op = "add"    -> AddWrites(Map("index"), Map("terms"), Map("lengths"), o.doc, o.text)
    [] o.op = "remove" -> RemoveWrites(Map("index"), Map("terms"), Map("lengths"), o.doc)
    [] o.op = "clear"  -> ClearWrites

-----------------------------------------------------------------------------
(* The journal.                                                            *)

Blank == [txn |-> 0, lens |-> <<>>]    \* never written, truncated, or torn

Lengths == [tr \in Trees |-> Len(tree[tr])]

Recorded == {s \in Slots : slot[s] # Blank}
NewestTxn == Max({slot[s].txn : s \in Slots})

\* Every record goes to the first slot.
NextSlot_Fixed == 0

\* Odd transactions go to the first slot, even ones to the second.
NextSlot == IF (NewestTxn + 1) % 2 = 1 THEN 0 ELSE 1

\* A record of the postings tree alone.
CommitRecord_OneTree ==
  /\ slot' = [slot EXCEPT ![NextSlot] =
               [txn |-> NewestTxn + 1, lens |-> [tr \in {"index"} |-> Len(tree[tr])]]]
  /\ stale' = stale \ {NextSlot}

\* tixj_commit.
CommitRecord ==
  /\ slot' = [slot EXCEPT ![NextSlot] = [txn |-> NewestTxn + 1, lens |-> Lengths]]
  /\ stale' = stale \ {NextSlot}

\* A tree no longer than the record is not enough.
Satisfied_Strictly(s) == \A tr \in Trees : slot[s].lens[tr] < Len(tree[tr])

Satisfied(s) == \A tr \in Trees : slot[s].lens[tr] <= Len(tree[tr])

\* The records a recovery can go back to, the newest of them.
Usable == {s \in Recorded : Satisfied(s)}
Newest(S) == CHOOSE s \in S : \A r \in S : slot[r].txn <= slot[s].txn

-----------------------------------------------------------------------------
Version(m, a) == [map |-> m, applied |-> a]

\* What the commits carry.
AppliedIndex_Committed == Min({Last(tree[tr]).applied : tr \in Trees})

\* appliedIndex: the least of the three.
AppliedIndex == Min({staged[tr] : tr \in Trees})

Busy == todo # <<>>
Idle == state = "open" /\ ~Busy

\* The files of an index of the older layout: a blob for each term, no sum.
LegacyMap(docs) ==
  LET used == {t \in Terms : \E d \in DOMAIN docs : t \in DOMAIN docs[d]} IN
  [k \in {BlobKey(t) : t \in used} |->
     LET ds == SetToSeq({d \in DOMAIN docs : k[1] \in DOMAIN docs[d]}) IN
     [i \in DOMAIN ds |-> <<ds[i], docs[ds[i]][k[1]]>>]]

Init ==
  /\ base \in {<<>>, Legacy}
  /\ tree = [tr \in Trees |-> <<Version(CASE tr = "index"   -> LegacyMap(base)
                                          [] tr = "terms"   -> base
                                          [] tr = "lengths" -> [d \in DOMAIN base |-> Length(base[d])],
                                        0)>>]
  /\ staged = [tr \in Trees |-> 0]
  /\ safe = [tr \in Trees |-> 1]
  /\ slot = [s \in Slots |-> Blank]
  /\ state = "open" /\ todo = <<>> /\ log = <<>>
  /\ finished = 0 /\ lost = FALSE /\ stale = {} /\ exposed = FALSE

\* The host calls for the operation after the applied ones: the next of its log, or a
\* new one (a bound for TLC: the clear that repairs an exposed index, which nothing
\* interrupts).
Call ==
  /\ Idle
  /\ LET a == AppliedIndex + 1 IN
     \E o \in IF a <= Len(log) THEN {log[a]} ELSE IF exposed THEN {ClearOp} ELSE Operations :
       /\ a + Cardinality(DOMAIN base) <= MaxOps
       /\ log' = IF a <= Len(log) THEN log ELSE Append(log, o)
       /\ staged' = [tr \in Trees |-> a]
       /\ todo' = Writes(o)
       /\ finished' = IF todo' = <<>> THEN Max({finished, a}) ELSE finished
  /\ UNCHANGED <<tree, safe, slot, state, base, lost, stale, exposed>>

\* One commit of one tree.  Deleting what is not there commits nothing.
TreeCommit(w) ==
  /\ w.kind \in {"put", "del", "reset"}
  /\ LET tr   == w.tree
         next == Version(After(Map(tr), w), staged[tr])
     IN  /\ tree' = [tree EXCEPT ![tr] =
              CASE w.kind = "reset" -> <<next>>
                [] w.kind = "del" /\ w.key \notin DOMAIN Map(tr) -> @
                [] OTHER -> Append(@, next)]
         /\ safe' = IF w.kind = "reset" THEN [safe EXCEPT ![tr] = 0] ELSE safe
  /\ UNCHANGED <<slot, stale>>

JournalWrite(w) ==
  /\ \/ w.kind = "record" /\ CommitRecord
     \/ w.kind = "truncate" /\ slot' = [s \in Slots |-> Blank] /\ stale' = {}
  /\ UNCHANGED <<tree, safe>>

\* The next write of the call in progress, which returns after its last one.
Step ==
  /\ Busy
  /\ TreeCommit(Head(todo)) \/ JournalWrite(Head(todo))
  /\ todo' = Tail(todo)
  /\ finished' = IF todo' = <<>> THEN Max({finished, staged["index"]}) ELSE finished
  /\ exposed' = IF todo' = <<>> /\ log[staged["index"]].op = "clear" THEN FALSE ELSE exposed
  /\ UNCHANGED <<staged, state, log, base, lost>>

\* What the write of a record may leave when it is cut short.
TornSlot ==
  \/ UNCHANGED slot
  \/ Busy /\ Head(todo) = Record /\ slot' = [slot EXCEPT ![NextSlot] = Blank]

\* No record says how far the trees may be trusted.
Uncovered == Recorded = {} \/ stale # {}

\* A write fails and the call with it; the host closes the index and opens it again.
Fail ==
  /\ "write" \in Faults
  /\ Busy /\ ~exposed
  /\ todo' = <<>> /\ state' = "failed"
  /\ TornSlot
  /\ exposed' = (exposed \/ Uncovered)
  /\ stale' = {s \in stale : slot'[s] # Blank}
  /\ UNCHANGED <<tree, staged, safe, log, base, finished, lost>>

\* The journal and the trees are flushed; what a crash between the flushes leaves is
\* what one before them may leave.
Close ==
  /\ ~Busy /\ state \in {"open", "failed"}
  /\ state' = "down"
  /\ safe' = Lengths
  /\ UNCHANGED <<tree, staged, slot, todo, log, history>>

\* The versions of a tree a crash may leave.
Left(tr) == (IF "tail" \in Faults /\ ~lost THEN safe[tr] ELSE Len(tree[tr]))..Len(tree[tr])

\* The end of the process, which may tear the slot being written, or of the machine,
\* which may also take unsynced commits.
Crash ==
  /\ state \in {"open", "failed"} /\ ~exposed
  /\ \E x \in Left("index"), y \in Left("terms"), z \in Left("lengths") :
       tree' = [index   |-> SubSeq(tree["index"], 1, x),
                terms   |-> SubSeq(tree["terms"], 1, y),
                lengths |-> SubSeq(tree["lengths"], 1, z)]
  /\ lost' = (lost \/ tree' # tree)
  /\ exposed' = (exposed \/ ((Busy \/ tree' # tree) /\ Uncovered))
  /\ TornSlot
  /\ stale' = {s \in Slots : slot'[s] # Blank /\
                 \E tr \in Trees : slot'[s].lens[tr] > Len(tree'[tr])}
  /\ state' = "down" /\ todo' = <<>>
  /\ UNCHANGED <<staged, safe, log, base, finished>>

\* bpt_open, or bpt_create on an empty file.
Opened(vs) == IF vs = <<>> THEN <<Version(<<>>, 0)>> ELSE vs

\* tix_recover: the trees go back to the newest record they satisfy; with no record
\* they are taken as they are.
Recover ==
  IF Recorded = {}
  THEN state' = "open" /\ tree' = [tr \in Trees |-> Opened(tree[tr])]
  ELSE IF Usable = {}
  THEN state' = "refused" /\ UNCHANGED tree
  ELSE /\ state' = "open"
       /\ tree' = [tr \in Trees |-> SubSeq(Opened(tree[tr]), 1, slot[Newest(Usable)].lens[tr])]

\* A host without its log starts a new one after what the index has applied.
Open ==
  /\ state = "down"
  /\ Recover
  /\ staged' = [tr \in Trees |-> IF state' = "open" THEN Last(tree'[tr]).applied ELSE 0]
  /\ safe' = [tr \in Trees |-> Min({safe[tr], Len(tree'[tr])})]
  /\ log' \in {log} \cup
       (IF state' = "open" THEN {SubSeq(log, 1, Min({Len(log)} \cup Range(staged')))} ELSE {})
  /\ finished' = Min({finished, Len(log')})
  /\ UNCHANGED <<slot, todo, base, lost, stale, exposed>>

Next == Call \/ Step \/ Fail \/ Close \/ Crash \/ Open

\* A call that was begun goes on, and the host replays its log; nobody has to close,
\* open or call for anything new.  Stated of the variables Step and Call move, which
\* they can whenever these are enabled.
Advance == Busy /\ todo' = Tail(todo)
Replay  == /\ Idle /\ AppliedIndex < Len(log)
           /\ staged' = [tr \in Trees |-> AppliedIndex + 1]

Spec == Init /\ [][Next]_vars /\ WF_todo(Advance) /\ WF_staged(Replay)

-----------------------------------------------------------------------------
(* Correctness.                                                            *)

\* The documents after the first a operations of the log.
Contents(a) ==
  LET docs[n \in 0..a] ==
        IF n = 0 THEN base
        ELSE LET o == log[n] IN
             CASE o.op = "add"    -> With(docs[n - 1], o.doc, o.text)
               [] o.op = "remove" -> Without(docs[n - 1], o.doc)
               [] o.op = "clear"  -> <<>>
  IN  docs[a]

\* The variables keep their types, and no record promises more than it can.
TypeOK ==
  /\ \A tr \in Trees : /\ safe[tr] \in 0..Len(tree[tr])
                       /\ state = "open" => tree[tr] # <<>>
  /\ \A s \in Slots : slot[s] = Blank \/ DOMAIN slot[s].lens = Trees
  /\ state \in {"down", "open", "failed", "refused"}
  /\ Busy => state = "open"
  /\ stale \subseteq Recorded
  /\ finished \in 0..Len(log)
  /\ lost \in BOOLEAN /\ exposed \in BOOLEAN

\* Between calls the index is the one its log describes up to the applied index it
\* reports, whatever crashes cut short: none of an operation that did not finish, all
\* of one that did.  What an operation that returned has done outlives the end of the
\* process.
DocumentsMatchLog ==
  Idle /\ ~exposed =>
    /\ Map("terms") = Contents(AppliedIndex)
    /\ ~lost => Map("terms") = Contents(finished)

\* Documents a term's postings name, as queries see them.
Hits(t) == DOMAIN LoadPostings(Map("index"), t)

\* tix_query_all for the terms ts, tix_term_count.
QueryAll(ts) == {d \in Docs : \A t \in ts : d \in Hits(t)}
TermCount ==
  Cardinality({k \in DOMAIN Map("index") : k[2] \in {"header", "blob"}})

\* Postings and term maps say the same of every document, so that queries find
\* exactly the documents that contain their terms, with their frequencies.
PostingsAgree ==
  LET docs == Map("terms") IN
  /\ \A t \in Terms :
       LoadPostings(Map("index"), t) =
         [d \in {e \in DOMAIN docs : t \in DOMAIN docs[e]} |-> docs[d][t]]
  /\ \A ts \in (SUBSET Terms) \ {{}} :
       QueryAll(ts) = {d \in DOMAIN docs : ts \subseteq DOMAIN docs[d]}
  /\ TermCount = Cardinality({t \in Terms : Hits(t) # {}})

\* What tix_query scores a document by: its length, how often each term of the query
\* is in it, and the number and the length of all documents.
Query(ts) ==
  [total |-> Cardinality(DOMAIN Map("lengths")),
   sum   |-> CorpusLength(Map("index"), Map("lengths"), 0),
   found |-> [d \in UNION {Hits(t) : t \in ts} |->
                [length |-> At(Map("lengths"), d, 0),
                 counts |-> [t \in {u \in ts : d \in Hits(u)} |->
                               LoadPostings(Map("index"), t)[d]]]]]

StatisticsAgree ==
  LET docs == Map("terms") IN
    \A ts \in (SUBSET Terms) \ {{}} :
      Query(ts) =
        [total |-> Cardinality(DOMAIN docs),
         sum   |-> SumFunction([d \in DOMAIN docs |-> Length(docs[d])]),
         found |-> [d \in {e \in DOMAIN docs : DOMAIN docs[e] \cap ts # {}} |->
                      [length |-> Length(docs[d]),
                       counts |-> [t \in ts \cap DOMAIN docs[d] |-> docs[d][t]]]]]

\* Between calls queries find the documents there are and the statistics of the ranking
\* are theirs, whichever operations, older files and crashes they went through.
QueriesMatchDocuments == Idle /\ ~exposed => PostingsAgree /\ StatisticsAgree

\* Open refuses only where a crash took commits.
RefusesOnlyLoss == state = "refused" => lost

\* A host that resumes after appliedIndex() gets its whole log into the index and can
\* stop, once nothing fails or closes the index any more.
LogApplied ==
  <>[](state = "open") => []<>(Idle /\ AppliedIndex >= Len(log))

\* structures-core.js:2216-2218 of every add, remove and clear: a crash between tree
\* writes is rolled back on the next open.
CrashRolledBack == Idle => PostingsAgree
=============================================================================
