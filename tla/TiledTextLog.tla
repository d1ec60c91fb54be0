------------------------------ MODULE TiledTextLog ------------------------------
(***************************************************************************)
(* The TiledTextLog class of structures-core.js over TextLog: the versions   *)
(* of one text in a sequence of files, of which only a few are open.        *)
(*                                                                         *)
(* Calls are asynchronous: one that adds and one that reads may be under     *)
(* way together and give way to each other at every await.  The host awaits *)
(* an add before it begins the next one, and both before it closes the log. *)
(* All commits have one size.  A standalone TextLog is a log that never     *)
(* rolls.                                                                   *)
(***************************************************************************)
EXTENDS TextLog

CONSTANTS
  Texts,          \* the texts that are added
  OlderTexts,     \* the versions an older file may hold: sequences of texts
  TileSizes,      \* what maxTileBytes may be, in commits
  MaxOpenTiles,   \* maxOpenTiles
  MaxVersions,    \* bound
  MaxTiles,       \* bound: no more versions are added than so many files hold
  Faults          \* "write": a write may fail; "power": a crash may take unsynced commits

ASSUME TileAssumption == TileSizes \subseteq Nat \ {0} /\ MaxOpenTiles \in Nat \ {0}

AllTexts == Texts \cup UNION {ToSet(s) : s \in OlderTexts}
Symbols  == UNION {ToSet(x) : x \in AllTexts}

ASSUME TextAssumption == AllTexts \subseteq Seq(Symbols) /\ NoText \notin AllTexts

\* An older file is one whose versions can be read: every patch in it applies.
ASSUME OlderAssumption ==
  /\ MaxVersions \in Nat /\ MaxTiles \in Nat
  /\ OlderTexts \subseteq Seq(AllTexts)
  /\ \A s \in OlderTexts :
       /\ Len(s) <= MaxVersions
       /\ \A v \in 2..Len(s) : ApplyPatch(s[v - 1], CreatePatch(s[v - 1], s[v])) = Done(s[v])

VARIABLES
  maxTile,        \* maxTileBytes
  file,           \* the provider's files: base version, commits and how many are synced
  torn,           \* the files with a part of a first commit, and nothing whole
  up,             \* the log is open
  tiles,          \* how many files the open log knows (their order is the files')
  version,        \* the version the log reports
  logs,           \* the open tiles, each with the handle of its TextLog
  lru,            \* the open tiles, the last used one last
  writer,         \* the add under way
  reader,         \* the read under way
  written         \* history: the text last added under each version still on storage

vars == <<maxTile, file, torn, up, tiles, version, logs, lru, writer, reader, written>>

Active == tiles      \* the newest of the known files
Idle   == [pc |-> "idle"]

\* _tileFor: the last tile based below the version.
TileFor(v) == Max({1} \cup {t \in 1..tiles : file[t].base < v})

Synced(f) == [f EXCEPT !.synced = Len(f.commits)]

\* The new tile repeats the last version.
NewFile_Behind(base) == [base |-> Max({0, base - 1}), commits |-> <<>>, synced |-> 0]
NewFile(base) == [base |-> base, commits |-> <<>>, synced |-> 0]

Init ==
  /\ \E older \in OlderTexts \cup {<<>>} :
       /\ file = IF older = <<>> THEN <<>>
                 ELSE <<Synced([base |-> 0, commits |-> OlderFile(older), synced |-> 0])>>
       /\ written = older
  /\ maxTile \in TileSizes /\ torn = {}
  /\ up = FALSE /\ tiles = 0 /\ version = 0
  /\ logs = <<>> /\ lru = <<>>
  /\ writer = Idle /\ reader = Idle

\* The sequence s without the tiles in out.
Without(s, out) ==
  LET kept[n \in 0..Len(s)] == IF n = 0 THEN <<>>
                               ELSE IF s[n] \in out THEN kept[n - 1]
                               ELSE Append(kept[n - 1], s[n])
  IN  kept[Len(s)]

Used(t, order) == Append(Without(order, {t}), t)

\* _evict takes the tile used longest ago, whichever it is.
Victims_Any(order, active) == order

\* The active tile stays open.
Victims(order, active) == Without(order, {active})

\* One tile too many is closed.
Evicted_AtLimit(order, active) ==
  LET vs == Victims(order, active) IN
  SubSeq(vs, 1, Min({Len(vs), Max({0, Len(order) - MaxOpenTiles + 1})}))

\* The tiles _evict closes, in its order.
Evicted(order, active) ==
  LET vs == Victims(order, active) IN
  SubSeq(vs, 1, Min({Len(vs), Max({0, Len(order) - MaxOpenTiles})}))

\* The end of _openTile: the file is opened, or created where it is empty, its log goes
\* into the cache and the tiles that are too many are closed, which flushes them.
OpenTile(t, active) ==
  LET commits == IF file[t].commits = <<>> THEN CreateAt(file[t].base) ELSE file[t].commits
      order   == Used(t, lru)
      out     == ToSet(Evicted(order, active))
  IN  /\ t \notin torn
      /\ file' = [u \in DOMAIN file |->
                    LET f == IF u = t THEN [file[t] EXCEPT !.commits = commits] ELSE file[u]
                    IN  IF u \in out THEN Synced(f) ELSE f]
      /\ logs' = [u \in ToSet(order) \ out |-> IF u = t THEN Adopt(commits) ELSE logs[u]]
      /\ lru'  = Without(order, out)

\* It throws where the file has bytes and no whole commit, and where the first commit
\* cannot be written, which may leave a part of it.
OpenThrows(t) ==
  /\ t \in torn \/ ("write" \in Faults /\ file[t].commits = <<>>)
  /\ torn' \in {torn, torn \cup {t}}

-----------------------------------------------------------------------------
(* open, flush, close.                                                     *)

\* The tiles are listed, the first one is created where there is none, and the newest
\* is opened.
Open ==
  /\ ~up
  /\ IF file = <<>>
     THEN /\ file' = <<[NewFile(0) EXCEPT !.commits = CreateAt(0)]>>
          /\ logs' = <<Adopt(CreateAt(0))>> /\ lru' = <<1>>
     ELSE OpenTile(Len(file), Len(file))
  /\ up' = TRUE /\ tiles' = Len(file')
  /\ version' = logs'[Len(file')].md.version
  /\ UNCHANGED <<torn, writer, reader, written>>

OpenFails ==
  /\ ~up
  /\ IF file = <<>> THEN "write" \in Faults /\ file' = <<NewFile(0)>> /\ torn' \in {{}, {1}}
     ELSE OpenThrows(Len(file)) /\ file' = file
  /\ UNCHANGED <<up, tiles, version, logs, lru, writer, reader, written>>

\* flush: of the active tile alone.
Flush ==
  /\ up /\ Active \in DOMAIN logs
  /\ file' = [file EXCEPT ![Active] = Synced(@)]
  /\ UNCHANGED <<torn, up, tiles, version, logs, lru, writer, reader, written>>

\* The cache keeps tiles that are closed.
Reset_KeepsTiles == up' = FALSE /\ tiles' = 0 /\ version' = 0 /\ UNCHANGED <<logs, lru>>
                    /\ writer' = Idle /\ reader' = Idle

Reset == up' = FALSE /\ tiles' = 0 /\ version' = 0 /\ logs' = <<>> /\ lru' = <<>>
         /\ writer' = Idle /\ reader' = Idle

Close ==
  /\ up /\ writer = Idle /\ reader = Idle
  /\ file' = [t \in DOMAIN file |-> IF t \in DOMAIN logs THEN Synced(file[t]) ELSE file[t]]
  /\ Reset
  /\ UNCHANGED <<torn, written>>

\* The versions the files hold.
Stored(fs) == UNION {{e.version : e \in ToSet(Entries(fs[t].commits))} : t \in DOMAIN fs}

\* The process ends, or the power: files keep at least what was synced, and where that is
\* nothing maybe a part of their first commit.
Crash ==
  /\ up
  /\ \E left \in [DOMAIN file -> 0..Max({Len(f.commits) : f \in ToSet(file)})] :
       /\ \A t \in DOMAIN file :
            /\ left[t] \in (IF "power" \in Faults THEN file[t].synced
                            ELSE Len(file[t].commits))..Len(file[t].commits)
       /\ file' = [t \in DOMAIN file |->
                     [file[t] EXCEPT !.commits = SubSeq(@, 1, left[t]), !.synced = left[t]]]
       /\ torn' \in SUBSET {t \in DOMAIN file : left[t] = 0 /\ (file[t].commits # <<>> \/ t \in torn)}
       /\ "power" \in Faults \/ torn \subseteq torn'
  /\ written' = Restrict(written, Stored(file'))
  /\ Reset

-----------------------------------------------------------------------------
(* addVersion.                                                             *)

\* The active tile is asked for.
AddCall ==
  /\ up /\ writer = Idle /\ version < MaxVersions /\ version < MaxTiles * (maxTile - 1)
  /\ \E x \in Texts : writer' = [pc |-> IF Active \in DOMAIN logs THEN "got" ELSE "opening",
                                 text |-> x, tile |-> Active, rolled |-> FALSE]
  /\ lru' = IF Active \in DOMAIN logs THEN Used(Active, lru) ELSE lru
  /\ UNCHANGED <<file, torn, up, tiles, version, logs, reader, written>>

AddOpened ==
  /\ writer.pc = "opening"
  /\ OpenTile(writer.tile, Active)
  /\ writer' = [writer EXCEPT !.pc = "got"]
  /\ UNCHANGED <<torn, up, tiles, version, reader, written>>

\* A tile that has no version of its own never rolls.
MustRoll == version > file[Active].base /\ Len(file[Active].commits) >= maxTile

\* The new tile is based on the version reported now.
AddRoll ==
  /\ writer.pc = "got" /\ ~writer.rolled /\ MustRoll
  /\ file' = Append(file, NewFile(version))
  /\ writer' = [writer EXCEPT !.pc = "rolling"]
  /\ UNCHANGED <<torn, up, tiles, version, logs, lru, reader, written>>

AddRolled ==
  /\ writer.pc = "rolling"
  /\ tiles' = Len(file)
  /\ writer' = [writer EXCEPT !.pc = "opening", !.tile = Len(file), !.rolled = TRUE]
  /\ UNCHANGED <<file, torn, up, version, logs, lru, reader, written>>

\* The version is written, or the write fails and the call with it.
AddWrite ==
  LET t == writer.tile IN
  /\ writer.pc = "got" /\ (writer.rolled \/ ~MustRoll)
  /\ t \in DOMAIN logs /\ CanAdd(file[t].commits, logs[t])
  /\ \E c \in {VersionCommit(file[t].commits, logs[t], writer.text)} :
     /\ file' = [file EXCEPT ![t].commits = Append(@, c)]
     /\ logs' = [logs EXCEPT ![t] = [md |-> c.md, text |-> writer.text]]
     /\ written' = [v \in DOMAIN written \cup {c.version} |->
                      IF v = c.version THEN writer.text ELSE written[v]]
     /\ writer' = [writer EXCEPT !.pc = "written"]
  /\ UNCHANGED <<torn, up, tiles, version, lru, reader>>

AddReturn ==
  /\ writer.pc = "written"
  /\ version' = logs[writer.tile].md.version
  /\ writer' = Idle
  /\ UNCHANGED <<file, torn, up, tiles, logs, lru, reader, written>>

\* A tile that cannot be opened or a version that cannot be written.
AddFails ==
  /\ \/ writer.pc = "opening" /\ OpenThrows(writer.tile)
     \/ writer.pc = "got" /\ "write" \in Faults /\ UNCHANGED torn
  /\ writer' = Idle
  /\ UNCHANGED <<file, up, tiles, version, logs, lru, reader, written>>

Add == AddCall \/ AddOpened \/ AddRoll \/ AddRolled \/ AddWrite \/ AddReturn \/ AddFails

-----------------------------------------------------------------------------
(* getVersion.                                                             *)

ReadCall ==
  /\ up /\ reader = Idle
  /\ \E v \in 1..version :
       /\ reader' = [pc |-> IF TileFor(v) \in DOMAIN logs THEN "got" ELSE "opening",
                     version |-> v, tile |-> TileFor(v)]
       /\ lru' = IF TileFor(v) \in DOMAIN logs THEN Used(TileFor(v), lru) ELSE lru
  /\ UNCHANGED <<file, torn, up, tiles, version, logs, writer, written>>

ReadOpened ==
  /\ reader.pc = "opening"
  /\ OpenTile(reader.tile, Active)
  /\ reader' = [reader EXCEPT !.pc = "got"]
  /\ UNCHANGED <<torn, up, tiles, version, writer, written>>

ReadFails ==
  /\ reader.pc = "opening"
  /\ OpenThrows(reader.tile)
  /\ reader' = Idle
  /\ UNCHANGED <<file, up, tiles, version, logs, lru, writer, written>>

\* The text is read, unless the tile has been closed in the meantime.
ReadReturn ==
  LET t == reader.tile IN
  /\ reader.pc = "got"
  /\ IF t \in DOMAIN logs
     THEN \E r \in {GetVersion(file[t].commits, logs[t], reader.version)} :
            /\ reader' = [pc |-> "read", version |-> reader.version, result |-> r]
            /\ logs' = [logs EXCEPT ![t] = Remember(@, reader.version, r)]
     ELSE reader' = Idle /\ UNCHANGED logs
  /\ UNCHANGED <<file, torn, up, tiles, version, lru, writer, written>>

\* The caller has the text.
ReadDone == /\ reader.pc = "read" /\ reader' = Idle
            /\ UNCHANGED <<file, torn, up, tiles, version, logs, lru, writer, written>>

Read == ReadCall \/ ReadOpened \/ ReadFails \/ ReadReturn \/ ReadDone

Next == (Open \/ OpenFails \/ Flush \/ Close \/ Crash \/ Add \/ Read) /\ UNCHANGED maxTile

Spec == Init /\ [][Next]_vars

-----------------------------------------------------------------------------
(* Correctness.                                                            *)

TypeOK ==
  /\ \A t \in DOMAIN file : file[t].base \in Nat /\ file[t].synced \in 0..Len(file[t].commits)
  /\ \A t \in torn : t \in DOMAIN file /\ file[t].commits = <<>>
  /\ tiles \in 0..Len(file) /\ (up => tiles > 0)
  /\ DOMAIN logs = ToSet(lru) /\ DOMAIN logs \subseteq 1..tiles
  /\ DOMAIN written \subseteq 1..MaxVersions

\* What a new process would read for a version.
FileOf(v) == Max({1} \cup {t \in DOMAIN file : file[t].base < v})
ReadBack(v) ==
  LET c == file[FileOf(v)].commits IN
  IF file = <<>> \/ c = <<>> THEN Failed ELSE GetVersion(c, Adopt(c), v)

\* Every version on storage reads back as the text that was added under its number,
\* whatever deltas, snapshots, rolls, failed writes and power cuts it has been through.
\* A read beside an add returns that text, or fails where its tile was closed meanwhile or
\* could not be opened (ReadsGetTheirTile); it does not return another.
VersionsReadBack ==
  /\ \A v \in DOMAIN written : ReadBack(v) = Done(written[v])
  /\ reader.pc = "read" => IF reader.version \in DOMAIN written
                           THEN reader.result = Done(written[reader.version])
                           ELSE ~reader.result.ok

\* A tile that a read has opened or asked for stays open until it is read, but for an add
\* that opens another one meanwhile.  That is so with two open tiles or more: with one,
\* OpenTile closes the older tile it has just opened, and every read outside the active
\* tile fails.
ReadsGetTheirTile ==
  [][(/\ reader'.pc = "got" /\ reader'.tile \notin DOMAIN logs'
      /\ reader.pc = "got" => reader.tile \in DOMAIN logs)
     => writer.pc = "opening" /\ writer'.pc = "got"]_vars

\* An open tile stands where its file does, and the text it remembers is its newest.
\* What is read beside an add never closes the tile the add goes on with.
LogsAgree ==
  /\ \A t \in DOMAIN logs :
       /\ logs[t].md = Last(file[t].commits).md
       /\ logs[t].text # NoText => logs[t].text = written[logs[t].md.version]
  /\ writer.pc \in {"got", "written"} => writer.tile \in DOMAIN logs

\* No two files hold the same version, a file holds those after its base without a gap,
\* and at most DiffsPerSnapshot deltas are applied to read any of them.
TilesInOrder ==
  /\ \A t \in DOMAIN file : \A i \in DOMAIN Entries(file[t].commits) :
       Entries(file[t].commits)[i].version = file[t].base + i
  /\ \A t, u \in DOMAIN file :
       t < u => \A e \in ToSet(Entries(file[t].commits)) : e.version <= file[u].base
  /\ \A t \in DOMAIN file : LET c == Entries(file[t].commits) IN
       \A i \in DOMAIN c : c[i].type = "delta" =>
         \E j \in Max({1, i - DiffsPerSnapshot})..i : c[j].type # "delta"

\* Between any two texts, the patch of an older log turns one into the other; so does
\* what getDiff prints where neither is empty (the line it names for an empty side is not
\* adjusted); and no shorter script of changes exists.
\* (No state is looked at, so it is evaluated where there is no file yet.)
ChangesIn(a, b) ==
  LET cs == EditScript(TokenizeLines(a), TokenizeLines(b)) IN
  FoldLeft(LAMBDA n, c : IF c.kind = "same" THEN n ELSE n + c.count, 0, cs)

\* The least number of lines to take out and put in, one row of the table at a time.
EditDistance(old, new) ==
  LET js == [j \in DOMAIN new |-> j]
      row(above, i) ==
        FoldLeft(LAMBDA r, j : Append(r, IF old[i] = new[j] THEN above[j]
                                         ELSE 1 + Min({above[j + 1], Last(r)})), <<i>>, js)
  IN  Last(FoldLeft(row, <<0>> \o js, [i \in DOMAIN old |-> i]))

DiffsExact ==
  file = <<>> => \A a, b \in AllTexts :
    /\ ApplyPatch(a, CreatePatch(a, b)) = Done(b)
    /\ a # <<>> /\ b # <<>> => ApplyPatch(a, GetDiff(a, b)) = Done(b)
    /\ ChangesIn(a, b) = EditDistance(TokenizeLines(a), TokenizeLines(b))

\* The log implements the history of versions: none is replaced, numbers only grow, and
\* what was flushed, or was in a tile that was closed, survives a power cut.
\* (VersionsReadBack says that the history is what the files hold.)
History == INSTANCE TextHistory WITH
  texts <- written,
  safe  <- Stored([t \in DOMAIN file |->
                     [file[t] EXCEPT !.commits = SubSeq(@, 1, file[t].synced)]])
HistorySpec == History!Spec
=============================================================================
