----------------------------- MODULE TiledTextLogInv -----------------------------
(***************************************************************************)
(* The inductive invariant of TiledTextLog: every file is a chain of        *)
(* versions each of which makes its text from the one before it, the files   *)
(* follow one another, and the handles and calls under way stand where the  *)
(* files do.                                                               *)
(***************************************************************************)
EXTENDS TiledTextLog

IsSeq(s) == s \in Seq(ToSet(s))

-----------------------------------------------------------------------------
(* One file.                                                               *)

Header(b) == [type |-> "header", md |-> Metadata(b, b, 0, FALSE)]

\* The i-th commit of a file based at b: a version one above the one before it, whose
\* record makes its text from that one's, with one that is no delta at most md.diffs back.
VersionAt(b, c, i) ==
  LET e == c[i] IN
  /\ e.version = b + i - 1 /\ e.hash \in AllTexts
  /\ e.md.diffs \in Nat /\ e.md = Metadata(b + i - 1, b, e.md.diffs, TRUE)
  /\ e.type \in {"snapshot", "delta", "patch"}
  /\ e.type = "snapshot" => e.data = e.hash
  /\ e.type # "snapshot" => i > 2 /\ ApplyEntry(Done(c[i - 1].hash), e) = Done(e.hash)
  /\ e.type = "delta" => e.md.diffs <= DiffsPerSnapshot
  /\ \E j \in 2..i : i - j <= e.md.diffs /\ c[j].type # "delta"

Chain(b, c) ==
  /\ IsSeq(c)
  /\ c # <<>> => c[1] = Header(b)
  /\ \A i \in 2..Len(c) : VersionAt(b, c, i)

\* The last version of a file, its base where it has none.
Newest(f) == f.base + (IF f.commits = <<>> THEN 0 ELSE Len(f.commits) - 1)

FileOK(f) ==
  /\ f = [base |-> f.base, commits |-> f.commits, synced |-> f.synced]
  /\ f.base \in Nat /\ f.synced \in 0..Len(f.commits)
  /\ Chain(f.base, f.commits) /\ Newest(f) <= MaxVersions

-----------------------------------------------------------------------------
(* All files, and the texts they hold.                                     *)

FilesInv ==
  /\ IsSeq(file) /\ (file # <<>> => file[1].base = 0)
  /\ \A t \in DOMAIN file : FileOK(file[t])
  /\ \A t, u \in DOMAIN file : t < u => Newest(file[t]) <= file[u].base

WrittenInv ==
  /\ written = [v \in DOMAIN written |-> written[v]]
  /\ DOMAIN written = Stored(file)
  /\ \A t \in DOMAIN file : \A i \in 2..Len(file[t].commits) :
       written[file[t].commits[i].version] = file[t].commits[i].hash

-----------------------------------------------------------------------------
(* The open log.                                                           *)

Closed ==
  /\ tiles = 0 /\ version = 0 /\ logs = <<>> /\ lru = <<>>
  /\ writer = Idle /\ reader = Idle

\* What the handle of a file says of it.
HandleOK(f, log) ==
  /\ f.commits # <<>>
  /\ log = [md |-> Last(f.commits).md, text |-> log.text]
  /\ log.text # NoText => Len(f.commits) > 1 /\ log.text = Last(f.commits).hash

CacheInv ==
  /\ IsSeq(lru) /\ ToSet(lru) \subseteq 1..tiles
  /\ logs = [t \in ToSet(lru) |-> logs[t]]
  /\ \A t \in ToSet(lru) : HandleOK(file[t], logs[t])

WriterInv ==
  \/ writer = Idle
  \/ /\ writer \in [pc : {"opening", "got", "rolling", "written"}, text : Texts,
                    tile : {tiles}, rolled : BOOLEAN]
     /\ writer.pc \in {"got", "written"} => tiles \in DOMAIN logs
     /\ writer.pc # "written" => version < MaxVersions

\* A version asked for is one of those reported, and its tile the one that has it.
ReaderInv ==
  \/ reader = Idle
  \/ /\ reader \in [pc : {"opening", "got"}, version : 1..version, tile : 1..tiles]
     /\ reader.tile = TileFor(reader.version)
  \/ /\ reader \in {[pc |-> "read", version |-> v, result |-> r] :
                       v \in 1..version, r \in {Failed} \cup {Done(x) : x \in AllTexts}}
     /\ IF reader.version \in DOMAIN written THEN reader.result = Done(written[reader.version])
        ELSE ~reader.result.ok

\* A rolled file is known a step after it is made, and a version a step after it is written.
OpenInv ==
  /\ tiles \in Nat \ {0}
  /\ IF writer.pc = "rolling" THEN Len(file) = tiles + 1 /\ file[Len(file)] = NewFile(version)
     ELSE Len(file) = tiles
  /\ version = Newest(file[tiles]) - (IF writer.pc = "written" THEN 1 ELSE 0)
  /\ version \in Nat
  /\ CacheInv /\ WriterInv /\ ReaderInv

Inv ==
  /\ FilesInv /\ WrittenInv /\ up \in BOOLEAN
  /\ IF up THEN OpenInv ELSE Closed

\* A torn first commit is in a file that has no whole one.
TornInv == \A t \in torn : t \in DOMAIN file /\ file[t].commits = <<>>
=============================================================================
