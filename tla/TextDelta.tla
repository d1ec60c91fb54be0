------------------------------- MODULE TextDelta -------------------------------
(***************************************************************************)
(* src/diff.c: the binary copy/insert delta a text log stores between two   *)
(* versions, and the line diff and unified patch of older logs and of       *)
(* getDiff.  A text is a sequence of symbols, NL the newline; there are no   *)
(* carriage returns, so that no line endings are converted.                 *)
(***************************************************************************)
EXTENDS Integers, Sequences, SequencesExt, FiniteSetsExt, Functions

CONSTANTS
  NL,
  DeltaK,      \* DELTA_K: the shortest match
  Slot(_),     \* the slot of the hash table a gram falls into
  Context      \* lines of context around a hunk

ASSUME DeltaAssumption == DeltaK \in Nat \ {0}

Failed == [ok |-> FALSE]
Done(x) == [ok |-> TRUE, text |-> x]

\* How many symbols (or lines) of s from i on agree with those of t from j on.
CommonRun(s, i, t, j) ==
  LET limit == Min({Len(s) - i, Len(t) - j}) IN
  Max({n \in 0..limit : \A k \in 1..n : s[i + k] = t[j + k]})

\* The same, backwards, no further than limit.
CommonBefore(s, i, t, j, limit) ==
  Max({n \in 0..limit : \A k \in 0..(n - 1) : s[i - k] = t[j - k]})

-----------------------------------------------------------------------------
(* Deltas.                                                                 *)

Insert(x)    == IF x = <<>> THEN <<>> ELSE <<[op |-> "insert", bytes |-> x]>>
Copy(off, n) == <<[op |-> "copy", off |-> off, len |-> n]>>

Gram(s, i) == SubSeq(s, i + 1, i + DeltaK)

\* Where the table says the gram of tgt at j is in src: the last gram in its slot.
Candidates(src, tgt, j) ==
  {i \in 0..(Len(src) - DeltaK) : Slot(Gram(src, i)) = Slot(Gram(tgt, j))}

Matches(src, tgt, j) ==
  LET c == Candidates(src, tgt, j) IN c # {} /\ Gram(src, Max(c)) = Gram(tgt, j)

\* A match is not extended backwards over what is already copied: the limit.
BackLimit_None(sp, st) == Min({sp, st.j})
BackLimit(sp, st) == Min({sp, st.j - st.ins})

\* One round of the loop: st.ins..st.j is yet to be inserted.
DeltaStep(src, tgt, st) ==
  IF st.j + DeltaK > Len(tgt) THEN st
  ELSE IF ~Matches(src, tgt, st.j) THEN [st EXCEPT !.j = @ + 1]
  ELSE LET sp == Max(Candidates(src, tgt, st.j))
           n  == CommonRun(src, sp, tgt, st.j)
           b  == CommonBefore(src, sp, tgt, st.j, BackLimit(sp, st))
       IN  [j |-> st.j + n, ins |-> st.j + n,
            out |-> st.out \o Insert(SubSeq(tgt, st.ins + 1, st.j - b)) \o Copy(sp - b, n + b)]

NothingFound == [j |-> 0, ins |-> 0, out |-> <<>>]

\* A round passes at least one symbol of tgt.
CreateDelta(src, tgt) ==
  LET after[n \in 0..Len(tgt)] ==
        IF n = 0 THEN NothingFound ELSE DeltaStep(src, tgt, after[n - 1])
      end == after[Len(tgt)]
  IN  end.out \o Insert(SubSeq(tgt, end.ins + 1, Len(tgt)))

\* The bytes an operation of a delta gives.
Bytes(src, d) == IF d.op = "insert" THEN d.bytes ELSE SubSeq(src, d.off + 1, d.off + d.len)

ApplyDelta(src, delta) ==
  LET out[n \in 0..Len(delta)] == IF n = 0 THEN <<>> ELSE out[n - 1] \o Bytes(src, delta[n])
  IN  IF \E i \in DOMAIN delta : delta[i].op = "copy" /\ delta[i].off + delta[i].len > Len(src)
      THEN Failed
      ELSE Done(out[Len(delta)])

-----------------------------------------------------------------------------
(* Lines.                                                                  *)

\* The pieces between newlines; one more than there are newlines.
SplitNl(s) ==
  FoldLeft(LAMBDA ls, c : IF c = NL THEN Append(ls, <<>>)
                          ELSE [ls EXCEPT ![Len(ls)] = Append(@, c)],
           << <<>> >>, s)

JoinNl(ls) == IF ls = <<>> THEN <<>> ELSE
  FoldLeft(LAMBDA s, l : s \o <<NL>> \o l, Head(ls), Tail(ls))

\* The lines with their newlines; the last one may have none.
TokenizeLines(s) ==
  LET ls == SplitNl(s) IN
  [i \in 1..(Len(ls) - 1) |-> Append(ls[i], NL)]
    \o (IF Last(ls) = <<>> THEN <<>> ELSE <<Last(ls)>>)

-----------------------------------------------------------------------------
(* The shortest edit script: Myers' greedy search over diagonals.          *)

\* A change of the same kind as the last one is counted with it.
AddChange(changes, kind) ==
  IF changes # <<>> /\ Last(changes).kind = kind
  THEN [changes EXCEPT ![Len(changes)].count = @ + 1]
  ELSE Append(changes, [kind |-> kind, count |-> 1])

NoPath == [present |-> FALSE]
Path(oldPos, changes) == [present |-> TRUE, oldPos |-> oldPos, changes |-> changes]

\* The path along its diagonal as far as the lines agree (positions are those of the
\* last line passed, from -1 on).
ExtractCommon(old, new, path, diagonal) ==
  LET n == CommonRun(old, path.oldPos + 1, new, path.oldPos - diagonal + 1) IN
  Path(path.oldPos + n,
       IF n = 0 THEN path.changes
       ELSE Append(path.changes, [kind |-> "same", count |-> n]))

AtOldEnd(old, path)           == path.oldPos + 1 >= Len(old)
AtNewEnd(new, path, diagonal) == path.oldPos - diagonal + 1 >= Len(new)

\* Whether the path that removes is the better one to go on from.
PrefersAdd_Never(rp, ap) == FALSE
PrefersAdd(rp, ap) == rp.oldPos < ap.oldPos

DiffStep(old, new, st, d) ==
  LET rp == st.best[d - 1]
      ap == st.best[d + 1]
      canAdd    == ap.present /\ ap.oldPos - d \in 0..(Len(new) - 1)
      canRemove == rp.present /\ rp.oldPos + 1 < Len(old)
      base == IF ~canRemove \/ (canAdd /\ PrefersAdd(rp, ap))
              THEN Path(ap.oldPos, AddChange(ap.changes, "add"))
              ELSE Path(rp.oldPos + 1, AddChange(rp.changes, "remove"))
      path == ExtractCommon(old, new, base, d)
      rest == [st.best EXCEPT ![d - 1] = NoPath]
  IN  IF st.found # <<>> THEN st
      ELSE IF ~canAdd /\ ~canRemove THEN [st EXCEPT !.best = [rest EXCEPT ![d] = NoPath]]
      ELSE IF AtOldEnd(old, path) /\ AtNewEnd(new, path, d) THEN [st EXCEPT !.found = path.changes]
      ELSE [st EXCEPT !.best = [rest EXCEPT ![d] = path],
                      !.max = IF AtOldEnd(old, path) THEN Min({@, d - 1}) ELSE @,
                      !.min = IF AtNewEnd(new, path, d) THEN Max({@, d + 1}) ELSE @]

\* The diagonals of one round.
Diagonals(st, n) ==
  LET from == Max({-n, st.min})
      to   == Min({n, st.max})
  IN  [k \in 1..((to - from) \div 2 + 1) |-> from + 2 * (k - 1)]

EditScript(old, new) ==
  LET most  == Len(old) + Len(new)
      seed  == ExtractCommon(old, new, Path(-1, <<>>), 0)
      start == [best  |-> [d \in -(most + 1)..(most + 1) |-> IF d = 0 THEN seed ELSE NoPath],
                found |-> <<>>, min |-> -most, max |-> most]
      round(st, n) == FoldLeft(LAMBDA s, d : DiffStep(old, new, s, d), st, Diagonals(st, n))
  IN  IF AtOldEnd(old, seed) /\ AtNewEnd(new, seed, 0) THEN seed.changes
      ELSE FoldLeft(round, start, [n \in 1..most |-> n]).found

\* The changes with their lines.
DiffLines(a, b) ==
  LET old == TokenizeLines(a)
      new == TokenizeLines(b)
      add(st, c) ==
        [old |-> st.old + (IF c.kind = "add" THEN 0 ELSE c.count),
         new |-> st.new + (IF c.kind = "remove" THEN 0 ELSE c.count),
         out |-> Append(st.out,
                   [kind  |-> c.kind,
                    lines |-> IF c.kind = "remove" THEN SubSeq(old, st.old + 1, st.old + c.count)
                              ELSE SubSeq(new, st.new + 1, st.new + c.count)])]
  IN  FoldLeft(add, [old |-> 0, new |-> 0, out |-> <<>>], EditScript(old, new)).out

-----------------------------------------------------------------------------
(* Unified patches.                                                        *)

Marked(op, lines) == [i \in DOMAIN lines |-> <<op, lines[i]>>]
Leading(lines)    == SubSeq(lines, 1, Min({Len(lines), Context}))
Trailing(lines)   == SubSeq(lines, Len(lines) - Min({Len(lines), Context}) + 1, Len(lines))

\* Two hunks with so few common lines between them are one.
Joins(lines) == Len(lines) <= Context * 2

Unchanged == [kind |-> "same", lines |-> <<>>]

\* One component of the diff: a change opens a hunk after the context before it or
\* grows it, common lines join it to the next or close it.
PatchStep(cs, st, i) ==
  LET c == cs[i]
      n == Len(c.lines)
      before == IF st.open \/ i = 1 THEN <<>> ELSE Trailing(cs[i - 1].lines)
      begun  == IF st.open THEN st
                ELSE [st EXCEPT !.open = TRUE, !.oldStart = st.oldLine - Len(before),
                                !.newStart = st.newLine - Len(before), !.cur = Marked(" ", before)]
      after  == Leading(c.lines)
      closed == [oldStart |-> st.oldStart, oldLines |-> st.oldLine - st.oldStart + Len(after),
                 newStart |-> st.newStart, newLines |-> st.newLine - st.newStart + Len(after),
                 lines |-> st.cur \o Marked(" ", after)]
      moved  == [st EXCEPT !.oldLine = @ + n, !.newLine = @ + n]
  IN  CASE c.kind = "add"    -> [begun EXCEPT !.cur = @ \o Marked("+", c.lines), !.newLine = @ + n]
        [] c.kind = "remove" -> [begun EXCEPT !.cur = @ \o Marked("-", c.lines), !.oldLine = @ + n]
        [] c.kind = "same" /\ ~st.open -> moved
        [] c.kind = "same" /\ st.open /\ Joins(c.lines) /\ i < Len(cs) - 1 ->
             [moved EXCEPT !.cur = @ \o Marked(" ", c.lines)]
        [] OTHER -> [moved EXCEPT !.open = FALSE, !.cur = <<>>, !.hunks = Append(@, closed)]

Hunks(cs) ==
  FoldLeft(LAMBDA st, i : PatchStep(cs, st, i),
           [open |-> FALSE, oldStart |-> 0, newStart |-> 0, oldLine |-> 1, newLine |-> 1,
            cur |-> <<>>, hunks |-> <<>>], [i \in DOMAIN cs |-> i]).hunks

\* Newlines are dropped from the lines, and a line that has none is marked.
EndMarks(hunks) ==
  LET marked(l) == IF Last(l[2]) = NL THEN << <<l[1], Front(l[2])>> >>
                   ELSE << l, <<"\\", <<>> >> >>
  IN  [h \in DOMAIN hunks |->
         [hunks[h] EXCEPT !.lines = FlattenSeq([i \in DOMAIN @ |-> marked(@[i])])]]

StructuredPatch(a, b) == EndMarks(Hunks(Append(DiffLines(a, b), Unchanged)))

\* The header of a hunk without lines of one side names the line before it.
FormatPatch(hunks) ==
  [h \in DOMAIN hunks |->
     [hunks[h] EXCEPT !.oldStart = IF hunks[h].oldLines = 0 THEN @ - 1 ELSE @,
                      !.newStart = IF hunks[h].newLines = 0 THEN @ - 1 ELSE @]]

ParsePatch(hunks) ==
  [h \in DOMAIN hunks |->
     [hunks[h] EXCEPT !.oldStart = IF hunks[h].oldLines = 0 THEN @ + 1 ELSE @,
                      !.newStart = IF hunks[h].newLines = 0 THEN @ + 1 ELSE @]]

CreatePatch(a, b) == FormatPatch(StructuredPatch(a, b))

\* getDiff prints the hunks as they are.
GetDiff(a, b) == StructuredPatch(a, b)

\* A hunk against the lines from pos on (pos lines are before it): the lines it puts in
\* their place, its trailing context left out.
ApplyHunk(h, lines, pos) ==
  LET at(p, x) == p + 1 \in DOMAIN lines /\ lines[p + 1] = x
      step(st, l) ==
        CASE l[1] = "+"  -> [st EXCEPT !.out = Append(@, l[2]), !.context = 0]
          [] l[1] = "-"  -> [st EXCEPT !.ok = @ /\ at(st.pos, l[2]), !.pos = @ + 1, !.context = 0]
          [] l[1] = " "  -> [st EXCEPT !.ok = @ /\ at(st.pos, l[2]), !.pos = @ + 1,
                                       !.context = @ + 1, !.out = Append(@, l[2])]
          [] l[1] = "\\" -> st
      cut(st) == [ok |-> st.ok, out |-> SubSeq(st.out, 1, Len(st.out) - st.context),
                  next |-> st.pos - st.context]
  IN  cut(FoldLeft(step, [ok |-> TRUE, pos |-> pos, context |-> 0, out |-> <<>>], h.lines))

\* Where a hunk is tried: where it says, then ever further away.
Places(start, least, most) ==
  <<start>> \o FlattenSeq([k \in 1..Max({start - least, most - start, 0}) |->
                 (IF start + k <= most THEN <<start + k>> ELSE <<>>)
                   \o (IF start - k >= least THEN <<start - k>> ELSE <<>>)])

\* The first place where it fits.
ApplyHunks(lines, hunks) ==
  LET placed(st, h, p, done) ==
        [ok |-> TRUE, next |-> done.next, offset |-> p + 1 - h.oldStart,
         out |-> st.out \o SubSeq(lines, st.next + 1, p) \o done.out]
      first(st, h, fits) ==
        IF ~st.ok \/ fits = <<>> THEN [st EXCEPT !.ok = FALSE]
        ELSE placed(st, h, fits[1], ApplyHunk(h, lines, fits[1]))
      step(st, h) ==
        first(st, h, SelectSeq(Places(h.oldStart + st.offset - 1, st.next, Len(lines) - h.oldLines),
                               LAMBDA p : ApplyHunk(h, lines, p).ok))
      joined(st) ==
        IF st.ok THEN Done(JoinNl(st.out \o SubSeq(lines, st.next + 1, Len(lines)))) ELSE Failed
  IN  joined(FoldLeft(step, [ok |-> TRUE, next |-> 0, offset |-> 0, out |-> <<>>], hunks))

\* The mark of a missing newline after an added or a removed line of the last hunk.
EndMarkAfter(hunks, op) ==
  LET ls == Last(hunks).lines IN
  \E i \in 2..Len(ls) : ls[i][1] = "\\" /\ ls[i - 1][1] = op

\* The last line is taken for what the marks say of it.
ApplyPatch(src, patch) ==
  LET drops == EndMarkAfter(patch, "+")
      adds  == EndMarkAfter(patch, "-")
      lines == SplitNl(src)
      ended == Last(lines) = <<>>
  IN  CASE patch = <<>> -> Done(src)
        [] patch # <<>> /\ ((drops /\ ~adds /\ ~ended) \/ (adds /\ ended)) -> Failed
        [] OTHER -> ApplyHunks(IF drops /\ ~adds THEN Front(lines)
                               ELSE IF adds /\ ~drops THEN Append(lines, <<>>)
                               ELSE lines,
                               ParsePatch(patch))
=============================================================================
