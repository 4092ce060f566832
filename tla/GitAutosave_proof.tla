--------------------------- MODULE GitAutosave_proof ---------------------------
(***************************************************************************)
(* The markdown export of a mount and the autosave of its directory: with  *)
(* no work left the files show the table, and the last commit the files,   *)
(* but for what failed, overlapped or was missed; for any rows, titles,    *)
(* edits, rebuilds and failures.                                           *)
(***************************************************************************)
EXTENDS GitAutosave, TLAPS

Title == UNION {Titles[r] : r \in Row}
Entry == {Gone} \cup (Title \X Nat)

Hand == [row : Row, as : Entry, step : {"render", "unlink", "write"},
         previous : {"none"} \cup Title]
Sweep == {Sweeping(files) : files \in SUBSET Path}
Piece == [n : Nat, kind : {"flush", "batch", "rebuild"}, todo : SUBSET Row,
          cur : {None, Swept} \cup Sweep \cup Hand, scan : {None} \cup [Row -> Entry],
          was : SUBSET Row]

\* A row as it may be, and a row in hand.
Of(r, row) == row = Gone \/ row[1] \in Titles[r]
HandTyped(hand) ==
    /\ Of(hand.row, hand.as)
    /\ hand.step # "unlink" => hand.as # Gone
    /\ hand.step = "unlink" => hand.previous \in Titles[hand.row]

\* Only a rebuild sweeps; what has been scanned is there, and of a rebuild that
\* has not cleared the file state all of it is still to be written.
Typed(job) ==
    /\ job \in Piece
    /\ job.cur \in Hand => HandTyped(job.cur)
    /\ job.cur \in IF job.kind = "rebuild" THEN {None, Swept} \cup Sweep ELSE {None} \cup Hand
    /\ job.kind # "batch" =>
          /\ job.scan \in [Row -> Entry]
          /\ \A r \in Row : Of(r, job.scan[r]) /\ (r \in job.todo => job.scan[r] # Gone)
    /\ job.kind = "rebuild" /\ job.cur # Swept => \A r \in Row \ job.todo : job.scan[r] = Gone

ExportType ==
    /\ table \in [Row -> Entry] /\ (\A r \in Row : Of(r, table[r]))
    /\ disk \in [Path -> Nat]
    /\ fileState \in [Row -> {"none"} \cup Title]
    /\ \A r \in Row : fileState[r] \in {"none"} \cup Titles[r]
    /\ \A job \in jobs : Typed(job)
    /\ stage \in {"gated", "flushing", "observing", "failed"} /\ gate \in BOOLEAN
    /\ ending \in {"none", "draining", "done"} /\ late \in BOOLEAN
    /\ blurred \subseteq Row /\ orphans \subseteq Path
    /\ used \in [edits : Nat, rebuilds : Nat, failures : Nat]

GitType ==
    /\ git \in {"none", "starting", "on", "off"}
    /\ {events, dirty, index, dropped, missed} \subseteq SUBSET Path /\ timer \in BOOLEAN
    /\ commits \subseteq [batch : SUBSET Path, retried : BOOLEAN, added : BOOLEAN]
    /\ head \in [Path -> Nat]

TypeInv == ExportType /\ GitType

\* The row in hand, and what a piece of work holds of a row: InHand.
Holds(job, r) == job.cur \in Hand /\ job.cur.row = r
Takes(job, r) == job.kind = "rebuild" \/ (job.kind = "flush" /\ r \in job.todo) \/ Holds(job, r)

Queued(r) == \E job \in jobs : job.kind = "batch" /\ r \in job.todo
Current(r, row) == row = table[r] \/ Queued(r)
FlushComes == stage = "gated" /\ (gate \/ ~isDisposed)

\* The files of a row are as `row` is.
Match(r, row) ==
    /\ fileState[r] = IF row = Gone THEN "none" ELSE row[1]
    /\ \A t \in Titles[r] : IF row # Gone /\ row[1] = t
                            THEN disk[<<r, t>>] = row[2]
                            ELSE Leftover(<<r, t>>)

\* Left out, as the code does not keep it, is what holds of a row that is blurred.
\* No two pieces of work have it in hand.
Alone(r) == \A j, k \in jobs : Takes(j, r) /\ Takes(k, r) => j = k

\* Who has it in hand does what the table says, or a batch will do it again.
InStep(hand) ==
    /\ Current(hand.row, hand.as)
    /\ hand.step = "unlink" => /\ hand.previous = fileState[hand.row]
                               /\ hand.as = Gone \/ hand.as[1] # fileState[hand.row]
    /\ hand.step = "write" =>
          \A t \in Titles[hand.row] \ {hand.as[1]} : Leftover(<<hand.row, t>>)
Own(job, r) ==
    /\ job.kind = "rebuild" \/ (job.kind = "flush" /\ r \in job.todo) =>
          Current(r, job.scan[r])
    /\ Holds(job, r) => InStep(job.cur)
    /\ job.cur \in Sweep =>
          \A t \in Titles[r] : <<r, t>> \in job.cur.files \/ Leftover(<<r, t>>)
    /\ job.cur = Swept => Match(r, IF r \in job.todo THEN Gone ELSE job.scan[r])

\* Unless a rebuild sweeps its files, or took it over blurred, it is tidy, and
\* what nobody has in hand is exported or somebody will do it.
Before(r) == \A job \in jobs : job.kind = "rebuild" => job.cur = None /\ r \notin job.was
Free(r) == \A job \in jobs : job.kind = "rebuild" \/ ~Takes(job, r)
Exported(r) == Match(r, table[r]) \/ Queued(r) \/ (FlushComes /\ table[r] # Gone)
Shown(r) == Before(r) => Tidy(r) /\ (Free(r) => Exported(r))

RowInv(r) == Alone(r) /\ (\A job \in jobs : Own(job, r)) /\ Shown(r)

Stages ==
    /\ stage = "gated" => \A job \in jobs : job.kind # "flush"
    /\ ending = "done" /\ ~late => ~FlushComes /\ (\A job \in jobs : job.kind = "rebuild")

ExportInv == ExportType /\ Stages /\ (\A r \in Row \ blurred : RowInv(r))

\* A changed file is reported, marked, in a batch, or known to be dropped or missed.
History ==
    git \in {"starting", "on"} /\ ~isDisposed =>
        \A p \in Path : \/ head[p] = disk[p]
                        \/ p \in dropped \cup missed \cup events \cup dirty
                        \/ \E commit \in commits : p \in commit.batch

-----------------------------------------------------------------------------
(* Rows in hand                                                            *)

\* What stands for no row in hand is no row in hand, and no state of a rebuild is
\* another one.
LEMMA HandIs ==
    /\ None # Swept
    /\ \A hand \in Hand : hand \notin {None, Swept} \cup Sweep /\ hand.row \in Row
    /\ \A cur \in Sweep : /\ cur \notin {None, Swept} \cup Hand /\ cur.row = "sweep"
                          /\ cur.files \subseteq Path
    /\ \A files \in SUBSET Path : Sweeping(files) \in Sweep /\ Sweeping(files).files = files
<1>1. None.row = "none" /\ Swept.row = "swept"
  BY DEF None, Swept
<1>2. ASSUME NEW files \in SUBSET Path
      PROVE  /\ Sweeping(files) \in Sweep /\ Sweeping(files).files = files
             /\ Sweeping(files).row = "sweep"
  BY DEF Sweep, Sweeping
<1>3. ASSUME NEW cur \in Sweep PROVE cur.row = "sweep" /\ cur.files \subseteq Path
  <2>1. PICK files \in SUBSET Path : cur = Sweeping(files)
    BY DEF Sweep
  <2> QED
    BY <1>2, <2>1
<1>4. ASSUME NEW hand \in Hand
      PROVE  hand.row \in Row /\ hand.row \notin {"none", "sweep", "swept"}
  <2>1. hand.row \in Row
    BY DEF Hand
  <2> QED
    BY <2>1, NamesAssumption
<1> QED
  BY <1>1, <1>2, <1>3, <1>4

\* A row that is about to be done.
LEMMA InHandAsIs ==
    ASSUME ExportType, NEW r \in Row, NEW row \in Entry,
           NEW step \in {"render", "unlink", "write"}
    PROVE  /\ InHandAs(r, row, step) \in Hand
           /\ InHandAs(r, row, step).row = r /\ InHandAs(r, row, step).as = row
           /\ InHandAs(r, row, step).step = step
           /\ step = "unlink" => InHandAs(r, row, step).previous = fileState[r]
<1>1. fileState[r] \in {"none"} \cup Title
  BY DEF ExportType
<1>2. PICK previous \in {"none"} \cup Title :
         previous = IF step = "unlink" THEN fileState[r] ELSE "none"
  BY <1>1
<1>3. InHandAs(r, row, step) = [row |-> r, as |-> row, step |-> step, previous |-> previous]
  BY <1>2 DEF InHandAs
<1> QED
  BY <1>2, <1>3 DEF Hand

\* A step of a row in hand is one of a piece of work that is no rebuild.
LEMMA AtIs ==
    ASSUME NEW job, Typed(job), NEW step, At(job, step)
    PROVE  /\ job.cur \in Hand /\ job.cur.step = step /\ job.cur.row \in Row
           /\ HandTyped(job.cur) /\ job.kind # "rebuild" /\ Holds(job, job.cur.row)
           /\ Takes(job, job.cur.row)
<1>1. job.cur.row \in Row /\ job.cur.step = step
  BY DEF At
<1>2. job.cur.row \notin {"none", "sweep", "swept"}
  BY <1>1, NamesAssumption
<1>3. job.cur \notin {None, Swept} \cup Sweep
  <2>1. None.row = "none" /\ Swept.row = "swept"
    BY DEF None, Swept
  <2> QED
    BY <1>2, <2>1, HandIs
<1>4. job.cur \in Hand /\ job.kind # "rebuild"
  BY <1>3 DEF Typed
<1> QED
  BY <1>1, <1>4 DEF Typed, Holds, Takes

\* What is in hand is what a piece of work holds.
LEMMA InHandIs ==
    ASSUME NEW job, Typed(job), NEW r \in Row
    PROVE  r \in InHand(job) <=> Takes(job, r)
<1>1. /\ job.cur \in {None, Swept} \cup Sweep \cup Hand
      /\ job.kind \in {"flush", "batch", "rebuild"}
  BY DEF Typed, Piece
<1>2. r \in {job.cur.row} \cap Row <=> Holds(job, r)
  <2>1. CASE job.cur \in Hand
    BY <2>1 DEF Holds
  <2>2. CASE job.cur \notin Hand
    <3>1. job.cur.row \in {"none", "sweep", "swept"}
      <4>1. None.row = "none" /\ Swept.row = "swept"
        BY DEF None, Swept
      <4> QED
        BY <1>1, <2>2, <4>1, HandIs
    <3>2. job.cur.row \notin Row
      BY <3>1, NamesAssumption
    <3> QED
      BY <2>2, <3>2 DEF Holds
  <2> QED
    BY <2>1, <2>2
<1>3. CASE job.kind = "rebuild"
  BY <1>3 DEF InHand, Takes
<1>4. CASE job.kind = "flush"
  <2>1. InHand(job) = job.todo \cup ({job.cur.row} \cap Row)
    BY <1>4 DEF InHand
  <2> QED
    BY <1>2, <1>4, <2>1 DEF Takes
<1>5. CASE job.kind = "batch"
  <2>1. InHand(job) = {job.cur.row} \cap Row
    BY <1>5 DEF InHand
  <2> QED
    BY <1>2, <1>5, <2>1 DEF Takes
<1> QED
  BY <1>1, <1>3, <1>4, <1>5

\* A file has a row and one of its titles.
LEMMA PathIs ==
    /\ \A r \in Row : \A t \in Titles[r] : <<r, t>> \in Path /\ t # "none"
    /\ \A p \in Path : p = <<p[1], p[2]>> /\ p[1] \in Row /\ p[2] \in Titles[p[1]]
BY NamesAssumption DEF Path

\* A failure is counted.
LEMMA FailIs ==
    ASSUME ExportType, Fail
    PROVE  used' \in [edits : Nat, rebuilds : Nat, failures : Nat]
BY DEF ExportType, Fail

\* A file stays as it is.
Stays(p) == disk'[p] = disk[p] /\ (p \in orphans' <=> p \in orphans)
OthersStay(r, t) ==
    /\ \A u \in Titles[r] \ {t} : Stays(<<r, u>>)
    /\ \A x \in Row \ {r} : \A u \in Titles[x] : Stays(<<x, u>>)

\* A file is written or removed; all others stay.
LEMMA FilePut ==
    ASSUME NEW r \in Row, NEW t \in Titles[r], \A p \in Path \ {<<r, t>>} : Stays(p)
    PROVE  OthersStay(r, t)
<1>1. \A u \in Titles[r] \ {t} : <<r, u>> \in Path \ {<<r, t>>}
  BY PathIs
<1>2. \A x \in Row \ {r} : \A u \in Titles[x] : <<x, u>> \in Path \ {<<r, t>>}
  BY PathIs
<1> QED
  BY <1>1, <1>2 DEF OthersStay

\* What is removed, or could not be, is left over at most.
LEMMA RemovesIs ==
    ASSUME ExportType, NEW r \in Row, NEW t \in Titles[r], Removes(<<r, t>>)
    PROVE  /\ disk' \in [Path -> Nat] /\ orphans' \subseteq Path
           /\ used' \in [edits : Nat, rebuilds : Nat, failures : Nat]
           /\ Leftover(<<r, t>>)' /\ OthersStay(r, t)
<1>1. PICK p \in Path : p = <<r, t>>
  BY PathIs
<1>2. disk \in [Path -> Nat] /\ orphans \subseteq Path /\ Absent \in Nat
  BY DEF ExportType, Absent
<1>3. \/ disk' = [disk EXCEPT ![p] = Absent] /\ orphans' = orphans \ {p} /\ used' = used
      \/ Fail /\ orphans' = orphans \cup {p} /\ disk' = disk
  BY <1>1 DEF Removes
<1>4. used' \in [edits : Nat, rebuilds : Nat, failures : Nat]
  BY <1>3, FailIs DEF ExportType
<1>5. disk' \in [Path -> Nat] /\ orphans' \subseteq Path /\ Leftover(p)'
  BY <1>2, <1>3 DEF Leftover
<1>6. \A q \in Path \ {<<r, t>>} : Stays(q)
  BY <1>1, <1>2, <1>3 DEF Stays
<1> QED
  BY <1>1, <1>4, <1>5, <1>6, FilePut

\* A row is written to the file of its title.
LEMMA WritesIs ==
    ASSUME ExportType, NEW r \in Row, NEW row \in Entry, row # Gone, row[1] \in Titles[r],
           Writes(r, row)
    PROVE  /\ disk' \in [Path -> Nat] /\ orphans' \subseteq Path
           /\ disk'[<<r, row[1]>>] = row[2] /\ OthersStay(r, row[1])
           /\ fileState' \in [Row -> {"none"} \cup Title]
           /\ \A x \in Row : fileState'[x] = IF x = r THEN row[1] ELSE fileState[x]
<1>1. PICK t \in Titles[r] : t = row[1]
  OBVIOUS
<1>2. PICK v \in Nat : v = row[2]
  BY DEF Entry
<1>3. PICK p \in Path : p = <<r, t>>
  BY PathIs
<1>4. disk \in [Path -> Nat] /\ orphans \subseteq Path /\ fileState \in [Row -> {"none"} \cup Title]
  BY DEF ExportType
<1>5. /\ disk' = [disk EXCEPT ![p] = v] /\ orphans' = orphans \ {p}
      /\ fileState' = [fileState EXCEPT ![r] = t]
  BY <1>1, <1>2, <1>3 DEF Writes
<1>6. disk' \in [Path -> Nat] /\ orphans' \subseteq Path /\ disk'[p] = v
  BY <1>4, <1>5
<1>7. t \in Title
  BY DEF Title
<1>8. /\ fileState' \in [Row -> {"none"} \cup Title]
      /\ \A x \in Row : fileState'[x] = IF x = r THEN t ELSE fileState[x]
  BY <1>4, <1>5, <1>7
<1>9. \A q \in Path \ {<<r, t>>} : Stays(q)
  BY <1>3, <1>4, <1>5 DEF Stays
<1>10. OthersStay(r, t)
  BY <1>9, FilePut
<1> QED
  BY <1>1, <1>2, <1>3, <1>6, <1>8, <1>10

-----------------------------------------------------------------------------
(* What a step does not touch                                              *)

\* Nothing about a row changes, but the work on it.
Same(r) ==
    /\ table'[r] = table[r] /\ fileState'[r] = fileState[r]
    /\ \A t \in Titles[r] : Stays(<<r, t>>)
    /\ FlushComes => FlushComes'

\* Then it is as tidy, as exported, and as current as before.
LEMMA SameRow ==
    ASSUME NEW r \in Row, Same(r)
    PROVE  /\ \A t \in Titles[r] : Leftover(<<r, t>>)' <=> Leftover(<<r, t>>)
           /\ Tidy(r)' <=> Tidy(r)
           /\ \A row : Match(r, row)' <=> Match(r, row)
           /\ (Queued(r) => Queued(r)') /\ Exported(r) => Exported(r)'
           /\ \A job : (Queued(r) => Queued(r)') /\ Own(job, r) => Own(job, r)'
<1>1. ASSUME NEW t \in Titles[r] PROVE Leftover(<<r, t>>)' <=> Leftover(<<r, t>>)
  BY DEF Same, Stays, Leftover
<1>2. Tidy(r)' <=> Tidy(r)
  BY <1>1 DEF Same, Tidy
<1>3. \A row : Match(r, row)' <=> Match(r, row)
  BY <1>1 DEF Same, Stays, Match
<1>4. (Queued(r) => Queued(r)') /\ Exported(r) => Exported(r)'
  BY <1>3 DEF Same, Exported
<1>5. ASSUME NEW job, Queued(r) => Queued(r)', Own(job, r) PROVE Own(job, r)'
  <2>1. \A row : Current(r, row) => Current(r, row)'
    BY <1>5 DEF Current, Same
  <2>2. ASSUME Holds(job, r) PROVE InStep(job.cur)'
    <3>1. job.cur.row = r /\ InStep(job.cur)
      BY <1>5, <2>2 DEF Own, Holds
    <3>2. fileState'[r] = fileState[r]
      BY DEF Same
    <3> QED
      BY <1>1, <2>1, <3>1, <3>2 DEF InStep
  <2>3. Holds(job, r)' <=> Holds(job, r)
    BY DEF Holds
  <2> QED
    BY <1>1, <1>3, <1>5, <2>1, <2>2, <2>3 DEF Own
<1> QED
  BY <1>1, <1>2, <1>3, <1>4, <1>5

\* A step of one piece of work is none for a row it has not in hand, whatever
\* else it will have.
LEMMA StepElsewhere ==
    ASSUME NEW r \in Row, RowInv(r), Same(r),
           NEW job \in jobs, NEW next, Becomes(job, next), Typed(job), Typed(next),
           next.kind = job.kind, next.scan = job.scan, next.was = job.was,
           r \in next.todo <=> r \in job.todo, job.kind = "rebuild" => next.cur = job.cur,
           ~Holds(job, r), ~Holds(next, r)
    PROVE  RowInv(r)'
<1>1. jobs' = (jobs \ {job}) \cup {next}
  BY DEF Becomes
<1>2. Takes(next, r) <=> Takes(job, r)
  BY DEF Takes
<1>3. Queued(r)' <=> Queued(r)
  BY <1>1 DEF Queued
<1>4. Alone(r)'
  <2> SUFFICES ASSUME NEW j \in jobs', NEW k \in jobs', Takes(j, r), Takes(k, r) PROVE j = k
    BY DEF Alone, Takes, Holds
  <2>1. Alone(r)
    BY DEF RowInv
  <2> QED
    BY <1>1, <1>2, <2>1 DEF Alone
<1>5. \A j \in jobs : Own(j, r)'
  BY <1>3, SameRow DEF RowInv
<1>6. Own(next, r)'
  <2>1. Own(job, r)'
    BY <1>5
  <2>2. job.kind # "rebuild" => next.cur \notin Sweep \cup {Swept}
    BY HandIs DEF Typed
  <2> QED
    BY <2>1, <2>2 DEF Own, Holds
<1>7. Before(r)' => Before(r)
  BY <1>1 DEF Before
<1>8. Free(r)' => Free(r)
  <2> SUFFICES ASSUME \A j \in jobs' : j.kind = "rebuild" \/ ~Takes(j, r) PROVE Free(r)
    BY DEF Free, Takes, Holds
  <2> QED
    BY <1>1, <1>2 DEF Free
<1>9. Shown(r)'
  BY <1>3, <1>7, <1>8, SameRow DEF RowInv, Shown
<1> QED
  BY <1>1, <1>4, <1>5, <1>6, <1>9 DEF RowInv

\* The end of a piece of work is nothing for a row it has neither in hand nor
\* still to do.
LEMMA EndElsewhere ==
    ASSUME NEW r \in Row, RowInv(r), Same(r),
           NEW job \in jobs, Ends(job), ~Takes(job, r), r \notin job.todo
    PROVE  RowInv(r)'
<1>1. jobs' = jobs \ {job} /\ job.kind # "rebuild"
  BY DEF Ends, Takes
<1>2. Queued(r)' <=> Queued(r)
  BY <1>1 DEF Queued
<1>3. Alone(r)'
  BY <1>1 DEF RowInv, Alone, Takes, Holds
<1>4. \A j \in jobs : Own(j, r)'
  BY <1>2, SameRow DEF RowInv
<1>5. Before(r)' => Before(r)
  BY <1>1 DEF Before
<1>6. Free(r)' => Free(r)
  BY <1>1 DEF Free, Takes, Holds
<1>7. Shown(r)'
  BY <1>2, <1>5, <1>6, SameRow DEF RowInv, Shown
<1> QED
  BY <1>1, <1>3, <1>4, <1>7 DEF RowInv

\* Nor is a batch that begins with other rows, or no work at all.
LEMMA BeginElsewhere ==
    ASSUME NEW r \in Row, RowInv(r), Same(r), NEW new,
           jobs' = jobs \/ (jobs' = jobs \cup {new} /\ new.kind = "batch" /\ new.cur = None)
    PROVE  RowInv(r)'
<1>1. new.kind = "batch" /\ new.cur = None =>
          ~Takes(new, r) /\ new.cur \notin Sweep \cup {Swept}
  BY HandIs DEF Takes, Holds
<1>2. Queued(r) => Queued(r)'
  BY DEF Queued
<1>3. Alone(r)'
  BY <1>1 DEF RowInv, Alone, Takes, Holds
<1>4. \A j \in jobs : Own(j, r)'
  BY <1>2, SameRow DEF RowInv
<1>5. new.kind = "batch" /\ new.cur = None => Own(new, r)'
  BY <1>1 DEF Own, Takes, Holds
<1>6. Before(r)' => Before(r)
  BY DEF Before
<1>7. Free(r)' => Free(r)
  BY DEF Free, Takes, Holds
<1>8. Shown(r)'
  BY <1>2, <1>6, <1>7, SameRow DEF RowInv, Shown
<1> QED
  BY <1>3, <1>4, <1>5, <1>8 DEF RowInv

\* Who has a row in hand that is not blurred has it alone.
LEMMA OthersDoNot ==
    ASSUME NEW r, RowInv(r), NEW job \in jobs, Takes(job, r)
    PROVE  \A k \in jobs \ {job} : ~Takes(k, r)
BY DEF RowInv, Alone

\* So that all there is to show of it is about the piece of work that has it.
LEMMA Sole ==
    ASSUME NEW r \in Row, NEW next,
           \A k \in jobs' : Typed(k) \/ k = next,
           \A k \in jobs' \ {next} : ~Takes(k, r),
           next \in jobs' => Own(next, r)',
           \/ next \in jobs' /\ next.kind = "rebuild" /\ (next.cur # None \/ r \in next.was)
           \/ /\ Tidy(r)'
              /\ Exported(r)' \/ (next \in jobs' /\ next.kind # "rebuild" /\ Takes(next, r))
    PROVE  RowInv(r)'
<1>1. ASSUME NEW k \in jobs' \ {next}
      PROVE  k.kind # "rebuild" /\ k.cur \notin Sweep \cup {Swept}
  <2>1. Typed(k) /\ k.kind # "rebuild"
    BY <1>1 DEF Takes
  <2> QED
    BY <2>1, HandIs DEF Typed
<1>2. Alone(r)'
  BY DEF Alone, Takes, Holds
<1>3. ASSUME NEW k \in jobs' PROVE Own(k, r)'
  <2>1. CASE k = next
    BY <1>3, <2>1
  <2>2. CASE k # next
    BY <1>1, <1>3, <2>2 DEF Own, Takes, Holds
  <2> QED
    BY <2>1, <2>2
<1>4. Shown(r)'
  <2> SUFFICES ASSUME \A k \in jobs' : k.kind = "rebuild" => k.cur = None /\ r \notin k.was
               PROVE  /\ Tidy(r)'
                      /\ (\A k \in jobs' : k.kind = "rebuild" \/ ~Takes(k, r)) => Exported(r)'
    BY DEF Shown, Before, Free, Takes, Holds
  <2> QED
    OBVIOUS
<1> QED
  BY <1>2, <1>3, <1>4 DEF RowInv

-----------------------------------------------------------------------------
(* The rows of a piece of work                                             *)

\* A piece of work that takes up a row, or is done with one, is what it was.
LEMMA StaysTyped ==
    ASSUME NEW job, Typed(job), job.kind # "rebuild", NEW next \in Piece,
           next.kind = job.kind, next.scan = job.scan, next.todo \subseteq job.todo,
           next.cur = None \/ (next.cur \in Hand /\ HandTyped(next.cur))
    PROVE  Typed(next)
BY HandIs DEF Typed

\* No work of a kind that was not there brings the flush back or reopens the drain.
LEMMA StagesKept ==
    ASSUME Stages, UNCHANGED <<stage, gate, ending, late>>,
           \A k \in jobs' : \E j \in jobs : k.kind = j.kind
    PROVE  Stages' /\ (FlushComes <=> FlushComes')
<1>1. FlushComes <=> FlushComes'
  BY DEF FlushComes, isDisposed
<1> QED
  BY <1>1 DEF Stages

\* A render that has returned.
LEMMA RenderedStep == ASSUME ExportInv, NEW job \in jobs, Rendered(job) PROVE ExportInv'
<1> DEFINE r == job.cur.row
           row == job.cur.as
<1>1. /\ ExportType /\ Stages /\ Typed(job) /\ At(job, "render")
      /\ UNCHANGED <<table, disk, fileState, stage, gate, ending, late, blurred, orphans, used>>
  BY DEF ExportInv, ExportType, Rendered
<1>2. /\ job.cur \in Hand /\ r \in Row /\ HandTyped(job.cur) /\ job.kind # "rebuild"
      /\ Holds(job, r) /\ Takes(job, r) /\ job.cur.step = "render"
  BY <1>1, AtIs
<1>3. PICK step \in {"unlink", "write"} : step = IF Unlinks(r, row) THEN "unlink" ELSE "write"
  OBVIOUS
<1>4. PICK hand : hand = InHandAs(r, row, step)
  OBVIOUS
<1>5. row \in Entry /\ row # Gone /\ row[1] \in Titles[r]
  BY <1>2 DEF HandTyped, Of, Hand
<1>6. /\ hand \in Hand /\ hand.row = r /\ hand.as = row /\ hand.step = step
      /\ step = "unlink" => hand.previous = fileState[r]
  BY <1>1, <1>2, <1>3, <1>4, <1>5, InHandAsIs
<1>7. HandTyped(hand)
  BY <1>1, <1>2, <1>3, <1>5, <1>6 DEF HandTyped, Of, Unlinks, ExportType
<1>8. PICK next : next = [job EXCEPT !.cur = hand]
  OBVIOUS
<1>9. Becomes(job, next)
  BY <1>3, <1>4, <1>8 DEF Rendered
<1>10. /\ next \in Piece /\ next.kind = job.kind /\ next.scan = job.scan /\ next.was = job.was
       /\ next.todo = job.todo /\ next.cur = hand
  BY <1>1, <1>6, <1>8 DEF Typed, Piece
<1>11. Typed(next) /\ next.cur # Swept /\ Holds(next, r) /\ jobs' = (jobs \ {job}) \cup {next}
  BY <1>1, <1>2, <1>6, <1>7, <1>9, <1>10, StaysTyped, HandIs DEF Holds, Becomes
<1>12. ExportType'
  BY <1>1, <1>11 DEF ExportType
<1>13. Stages' /\ (FlushComes <=> FlushComes')
  BY <1>1, <1>10, <1>11, StagesKept
<1>14. ASSUME NEW x \in Row \ blurred' PROVE RowInv(x)'
  <2>1. x \in Row /\ RowInv(x) /\ Same(x)
    BY <1>1, <1>13, <1>14 DEF ExportInv, Same, Stays
  <2>2. CASE x # r
    <3>1. ~Holds(job, x) /\ ~Holds(next, x)
      BY <1>2, <1>6, <1>10, <2>2, HandIs DEF Holds
    <3> QED
      BY <1>1, <1>2, <1>9, <1>10, <1>11, <2>1, <3>1, StepElsewhere
  <2>3. CASE x = r
    <3>1. \A k \in jobs \ {job} : ~Takes(k, r)
      BY <1>2, <2>1, <2>3, OthersDoNot
    <3>2. Takes(next, r) /\ next.kind # "rebuild" /\ next \in jobs'
      BY <1>2, <1>10, <1>11 DEF Takes
    <3>3. Before(r) /\ Own(job, r) /\ Tidy(r)
      <4>1. Before(r)
        BY <1>2, <3>1 DEF Before, Takes
      <4> QED
        BY <2>1, <2>3, <4>1 DEF RowInv, Shown
    <3>4. Tidy(r)' /\ (Queued(r) => Queued(r)')
      BY <1>10, <1>11, <2>1, <2>3, <3>3, SameRow DEF Queued
    <3>5. Own(next, r)'
      <4>1. Own(job, r)'
        BY <2>1, <2>3, <3>3, <3>4, SameRow
      <4>2. Current(r, row)'
        BY <1>2, <4>1 DEF Own, InStep, Holds
      <4>3. step = "unlink" => row[1] # fileState[r]
        BY <1>3, <1>5 DEF Unlinks
      <4>4. step = "write" => \A t \in Titles[r] \ {row[1]} : Leftover(<<r, t>>)
        <5>1. step = "write" => fileState[r] \in {"none", row[1]}
          BY <1>3, <1>5 DEF Unlinks
        <5> QED
          BY <1>2, <3>3, <5>1, NamesAssumption DEF Tidy
      <4>5. InStep(hand)'
        BY <1>1, <1>3, <1>6, <4>2, <4>3, <4>4 DEF InStep, Leftover
      <4> QED
        BY <1>6, <1>10, <1>11, <4>1, <4>5, HandIs DEF Own
    <3> QED
      BY <1>2, <1>11, <1>12, <3>1, <3>2, <3>4, <3>5, <2>3, Sole DEF ExportType
  <2> QED
    BY <2>2, <2>3
<1> QED
  BY <1>12, <1>13, <1>14 DEF ExportInv

\* A render that has failed leaves its row blurred.
LEMMA RenderFailsStep == ASSUME ExportInv, NEW job \in jobs, RenderFails(job) PROVE ExportInv'
<1> DEFINE r == job.cur.row
<1>1. /\ ExportType /\ Stages /\ Typed(job) /\ At(job, "render") /\ Fail
      /\ blurred' = blurred \cup {r}
      /\ UNCHANGED <<table, disk, fileState, stage, gate, ending, late, orphans>>
  BY DEF ExportInv, ExportType, RenderFails
<1>2. r \in Row /\ job.kind # "rebuild" /\ job.cur \in Hand
  BY <1>1, AtIs
<1>3. PICK next : next = [job EXCEPT !.cur = None]
  OBVIOUS
<1>4. Becomes(job, next)
  BY <1>3 DEF RenderFails
<1>5. /\ next \in Piece /\ next.kind = job.kind /\ next.scan = job.scan /\ next.was = job.was
      /\ next.todo = job.todo /\ next.cur = None
  BY <1>1, <1>3 DEF Typed, Piece
<1>6. Typed(next) /\ jobs' = (jobs \ {job}) \cup {next}
  BY <1>1, <1>2, <1>4, <1>5, StaysTyped DEF Becomes
<1>7. ExportType'
  BY <1>1, <1>2, <1>6, FailIs DEF ExportType
<1>8. Stages' /\ (FlushComes <=> FlushComes')
  BY <1>1, <1>5, <1>6, StagesKept
<1>9. ASSUME NEW x \in Row \ blurred' PROVE RowInv(x)'
  <2>1. x \in Row /\ RowInv(x) /\ Same(x) /\ x # r
    BY <1>1, <1>8, <1>9 DEF ExportInv, Same, Stays
  <2>2. ~Holds(job, x) /\ ~Holds(next, x)
    BY <1>2, <1>5, <2>1, HandIs DEF Holds
  <2> QED
    BY <1>1, <1>2, <1>4, <1>5, <1>6, <2>1, <2>2, StepElsewhere
<1> QED
  BY <1>7, <1>8, <1>9 DEF ExportInv

\* The file of the previous title has been removed, and with no row left that is all.
LEMMA UnlinkedStep == ASSUME ExportInv, NEW job \in jobs, Unlinked(job) PROVE ExportInv'
<1> DEFINE r == job.cur.row
           row == job.cur.as
           previous == job.cur.previous
<1>1. /\ ExportType /\ Stages /\ Typed(job) /\ At(job, "unlink")
      /\ Removes(<<r, previous>>)
      /\ UNCHANGED <<table, stage, gate, ending, late, blurred>>
  BY DEF ExportInv, ExportType, Unlinked
<1>2. /\ job.cur \in Hand /\ r \in Row /\ HandTyped(job.cur) /\ job.kind # "rebuild"
      /\ Holds(job, r) /\ Takes(job, r) /\ job.cur.step = "unlink"
  BY <1>1, AtIs
<1>3. previous \in Titles[r] /\ row \in Entry /\ Of(r, row) /\ previous # "none"
  BY <1>2, NamesAssumption DEF HandTyped, Hand
<1>4. PICK cur : cur = IF row = Gone THEN None ELSE InHandAs(r, row, "write")
  OBVIOUS
<1>5. \/ row = Gone /\ cur = None /\ fileState' = [fileState EXCEPT ![r] = "none"]
      \/ row # Gone /\ cur = InHandAs(r, row, "write") /\ fileState' = fileState
  BY <1>4 DEF Unlinked
<1>6. \/ cur = None
      \/ /\ cur \in Hand /\ cur.row = r /\ cur.as = row /\ cur.step = "write"
         /\ row # Gone
  BY <1>1, <1>2, <1>3, <1>5, InHandAsIs
<1>7. cur \in Hand => HandTyped(cur)
  BY <1>3, <1>6, HandIs DEF HandTyped, Of
<1>8. PICK next : next = [job EXCEPT !.cur = cur]
  OBVIOUS
<1>9. Becomes(job, next)
  BY <1>4, <1>8 DEF Unlinked
<1>10. /\ next \in Piece /\ next.kind = job.kind /\ next.scan = job.scan /\ next.was = job.was
       /\ next.todo = job.todo /\ next.cur = cur
  BY <1>1, <1>6, <1>8 DEF Typed, Piece
<1>11. Typed(next) /\ jobs' = (jobs \ {job}) \cup {next}
  BY <1>1, <1>2, <1>6, <1>7, <1>9, <1>10, StaysTyped DEF Becomes
<1>12. /\ disk' \in [Path -> Nat] /\ orphans' \subseteq Path
       /\ used' \in [edits : Nat, rebuilds : Nat, failures : Nat]
       /\ Leftover(<<r, previous>>)' /\ OthersStay(r, previous)
  BY <1>1, <1>2, <1>3, RemovesIs
<1>13. /\ fileState' \in [Row -> {"none"} \cup Title]
       /\ \A x \in Row : fileState'[x] = IF x = r /\ row = Gone THEN "none" ELSE fileState[x]
  BY <1>1, <1>2, <1>5 DEF ExportType
<1>14. ExportType'
  BY <1>1, <1>11, <1>12, <1>13 DEF ExportType
<1>15. Stages' /\ (FlushComes <=> FlushComes')
  BY <1>1, <1>10, <1>11, StagesKept
<1>16. ASSUME NEW x \in Row \ blurred' PROVE RowInv(x)'
  <2>1. x \in Row /\ RowInv(x)
    BY <1>1, <1>16 DEF ExportInv
  <2>2. CASE x # r
    <3>1. ~Holds(job, x) /\ ~Holds(next, x)
      BY <1>2, <1>6, <1>10, <2>2, HandIs DEF Holds
    <3>2. Same(x)
      BY <1>1, <1>12, <1>13, <1>15, <2>1, <2>2 DEF Same, OthersStay
    <3> QED
      BY <1>1, <1>2, <1>9, <1>10, <1>11, <2>1, <3>1, <3>2, StepElsewhere
  <2>3. CASE x = r
    <3>1. \A k \in jobs \ {job} : ~Takes(k, r)
      BY <1>2, <2>1, <2>3, OthersDoNot
    <3>2. Before(r) /\ Own(job, r) /\ Tidy(r)
      <4>1. Before(r)
        BY <1>2, <3>1 DEF Before, Takes
      <4> QED
        BY <2>1, <2>3, <4>1 DEF RowInv, Shown
    <3>3. InStep(job.cur) /\ previous = fileState[r]
      BY <1>2, <3>2 DEF Own, InStep
    <3>4. \A t \in Titles[r] : Leftover(<<r, t>>)'
      <4>1. \A t \in Titles[r] \ {previous} : Leftover(<<r, t>>)
        BY <3>2, <3>3 DEF Tidy
      <4> QED
        BY <1>12, <4>1 DEF OthersStay, Stays, Leftover
    <3>5. Tidy(r)'
      BY <3>4 DEF Tidy
    <3>6. (Queued(r) => Queued(r)') /\ Current(r, row)'
      <4>1. Queued(r) => Queued(r)'
        BY <1>10, <1>11 DEF Queued
      <4> QED
        BY <1>1, <3>3, <4>1 DEF InStep, Current
    <3>7. \A v : Current(r, v) => Current(r, v)'
      BY <1>1, <3>6 DEF Current
    <3>8. ASSUME Holds(next, r) PROVE InStep(next.cur)'
      <4>1. /\ next.cur = cur /\ cur.row = r /\ cur.as = row /\ cur.step = "write"
        BY <1>6, <1>10, <3>8, HandIs DEF Holds
      <4> QED
        BY <3>4, <3>6, <4>1 DEF InStep
    <3>9. next.cur \notin Sweep \cup {Swept}
      BY <1>6, <1>10, HandIs
    <3>10. Own(next, r)'
      <4>1. job.kind = "flush" /\ r \in job.todo => Current(r, job.scan[r])'
        BY <3>2, <3>7 DEF Own
      <4>2. Holds(next, r)' <=> Holds(next, r)
        BY DEF Holds
      <4> QED
        BY <1>2, <1>10, <3>8, <3>9, <4>1, <4>2 DEF Own
    <3>11. Exported(r)' \/ Takes(next, r)
      <4>1. CASE row = Gone
        <5>1. Match(r, Gone)'
          BY <1>2, <1>13, <3>4, <4>1 DEF Match
        <5> QED
          BY <3>6, <4>1, <5>1 DEF Current, Exported
      <4>2. CASE row # Gone
        BY <1>6, <1>5, <1>10, <4>2, HandIs, InHandAsIs, <1>1, <1>2, <1>3 DEF Takes, Holds
      <4> QED
        BY <4>1, <4>2
    <3> QED
      BY <1>2, <1>10, <1>11, <1>14, <3>1, <3>5, <3>10, <3>11, <2>3, Sole DEF ExportType
  <2> QED
    BY <2>2, <2>3
<1> QED
  BY <1>14, <1>15, <1>16 DEF ExportInv

\* The file of a row has been written.
LEMMA WrittenStep == ASSUME ExportInv, NEW job \in jobs, Written(job) PROVE ExportInv'
<1> DEFINE r == job.cur.row
           row == job.cur.as
<1>1. /\ ExportType /\ Stages /\ Typed(job) /\ At(job, "write") /\ Writes(r, row)
      /\ UNCHANGED <<table, stage, gate, ending, late, blurred, used>>
  BY DEF ExportInv, ExportType, Written
<1>2. /\ job.cur \in Hand /\ r \in Row /\ HandTyped(job.cur) /\ job.kind # "rebuild"
      /\ Holds(job, r) /\ Takes(job, r) /\ job.cur.step = "write"
  BY <1>1, AtIs
<1>3. row # Gone /\ row \in Entry /\ row[1] \in Titles[r]
  BY <1>2 DEF HandTyped, Hand, Of
<1>4. PICK next : next = [job EXCEPT !.cur = None]
  OBVIOUS
<1>5. Becomes(job, next)
  BY <1>4 DEF Written
<1>6. /\ next \in Piece /\ next.kind = job.kind /\ next.scan = job.scan /\ next.was = job.was
      /\ next.todo = job.todo /\ next.cur = None
  BY <1>1, <1>4 DEF Typed, Piece
<1>7. Typed(next) /\ jobs' = (jobs \ {job}) \cup {next}
  BY <1>1, <1>2, <1>5, <1>6, StaysTyped DEF Becomes
<1>8. /\ disk' \in [Path -> Nat] /\ orphans' \subseteq Path
      /\ disk'[<<r, row[1]>>] = row[2] /\ OthersStay(r, row[1])
      /\ fileState' \in [Row -> {"none"} \cup Title]
      /\ \A x \in Row : fileState'[x] = IF x = r THEN row[1] ELSE fileState[x]
  BY <1>1, <1>2, <1>3, WritesIs
<1>9. \A x \in Row : fileState'[x] \in {"none"} \cup Titles[x]
  BY <1>1, <1>3, <1>8 DEF ExportType
<1>10. ExportType'
  BY <1>1, <1>3, <1>7, <1>8, <1>9 DEF ExportType
<1>11. Stages' /\ (FlushComes <=> FlushComes')
  BY <1>1, <1>6, <1>7, StagesKept
<1>12. ASSUME NEW x \in Row \ blurred' PROVE RowInv(x)'
  <2>1. x \in Row /\ RowInv(x)
    BY <1>1, <1>12 DEF ExportInv
  <2>2. ~Holds(next, x) /\ next.cur \notin Sweep \cup {Swept}
    BY <1>2, <1>6, HandIs DEF Holds
  <2>3. CASE x # r
    <3>1. ~Holds(job, x)
      BY <2>3 DEF Holds
    <3>2. Same(x)
      BY <1>1, <1>8, <1>11, <2>1, <2>3 DEF Same, OthersStay
    <3> QED
      BY <1>1, <1>2, <1>5, <1>6, <1>7, <2>1, <2>2, <3>1, <3>2, StepElsewhere
  <2>4. CASE x = r
    <3>1. \A k \in jobs \ {job} : ~Takes(k, r)
      BY <1>2, <2>1, <2>4, OthersDoNot
    <3>2. Own(job, r)
      BY <2>1, <2>4 DEF RowInv
    <3>3. InStep(job.cur)
      BY <1>2, <3>2 DEF Own
    <3>4. \A t \in Titles[r] \ {row[1]} : Leftover(<<r, t>>)'
      BY <1>2, <1>8, <3>3 DEF InStep, OthersStay, Stays, Leftover
    <3>5. Match(r, row)' /\ Tidy(r)'
      BY <1>2, <1>3, <1>8, <3>4 DEF Match, Tidy
    <3>6. Queued(r) => Queued(r)'
      BY <1>6, <1>7 DEF Queued
    <3>7. \A v : Current(r, v) => Current(r, v)'
      BY <1>1, <3>6 DEF Current
    <3>8. Exported(r)'
      <4>1. Current(r, row)'
        BY <3>3, <3>7 DEF InStep
      <4> QED
        BY <3>5, <4>1 DEF Current, Exported
    <3>9. Own(next, r)'
      <4>1. job.kind = "flush" /\ r \in job.todo => Current(r, job.scan[r])'
        BY <3>2, <3>7 DEF Own
      <4>2. ~Holds(next, r)'
        BY <2>2, <2>4 DEF Holds
      <4> QED
        BY <1>2, <1>6, <2>2, <4>1, <4>2 DEF Own
    <3> QED
      BY <1>7, <1>10, <2>4, <3>1, <3>5, <3>8, <3>9, Sole DEF ExportType
  <2> QED
    BY <2>3, <2>4
<1> QED
  BY <1>10, <1>11, <1>12 DEF ExportInv

\* A row is taken up as it was scanned, or as it is; if it is in other hands it is
\* blurred, and if nothing is left of it in the files that is all.  A batch that has it
\* alone brings it up to date again.
LEMMA NextRowStep == ASSUME ExportInv, NEW job \in jobs, NextRow(job) PROVE ExportInv'
<1>1. /\ ExportType /\ Stages /\ Typed(job) /\ job.kind # "rebuild" /\ job.cur = None
      /\ UNCHANGED <<table, disk, fileState, stage, gate, ending, late, orphans, used>>
  BY DEF ExportInv, ExportType, NextRow
<1>2. PICK r \in job.todo :
         LET row == IF job.kind = "flush" THEN job.scan[r] ELSE table[r]
             rest == [job EXCEPT !.todo = @ \ {r}]
             step == IF row # Gone THEN "render" ELSE "unlink"
         IN  /\ Becomes(job, IF row = Gone /\ ~Unlinks(r, row) THEN rest
                             ELSE [rest EXCEPT !.cur = InHandAs(r, row, step)])
             /\ blurred' = IF r \in InOtherHands(job) THEN blurred \cup {r}
                           ELSE IF job.kind = "batch" /\ Tidy(r) THEN blurred \ {r}
                           ELSE blurred
  BY DEF NextRow
<1>3. PICK row : row = IF job.kind = "flush" THEN job.scan[r] ELSE table[r]
  OBVIOUS
<1>4. PICK rest : rest = [job EXCEPT !.todo = @ \ {r}]
  OBVIOUS
<1>5. PICK step \in {"render", "unlink"} : step = IF row # Gone THEN "render" ELSE "unlink"
  OBVIOUS
<1>6. PICK cur : cur = IF row = Gone /\ ~Unlinks(r, row) THEN None ELSE InHandAs(r, row, step)
  OBVIOUS
<1>7. r \in Row /\ job.todo \subseteq Row /\ row \in Entry /\ Of(r, row)
  BY <1>1, <1>2, <1>3 DEF Typed, Piece, ExportType
<1>8. /\ rest \in Piece /\ rest.kind = job.kind /\ rest.scan = job.scan /\ rest.was = job.was
      /\ rest.todo = job.todo \ {r} /\ rest.cur = None
  BY <1>1, <1>4, <1>7 DEF Typed, Piece
<1>9. \/ row # Gone /\ cur \in Hand /\ cur.row = r /\ cur.as = row /\ cur.step = "render"
      \/ /\ row = Gone /\ Unlinks(r, row) /\ cur \in Hand /\ cur.row = r /\ cur.as = row
         /\ cur.step = "unlink" /\ cur.previous = fileState[r]
      \/ row = Gone /\ ~Unlinks(r, row) /\ cur = None
  BY <1>1, <1>5, <1>6, <1>7, InHandAsIs
<1>10. cur \in Hand => HandTyped(cur)
  BY <1>1, <1>7, <1>9, HandIs DEF HandTyped, Unlinks, ExportType
<1>11. PICK next : next = IF cur = None THEN rest ELSE [rest EXCEPT !.cur = cur]
  OBVIOUS
<1>12. /\ next \in Piece /\ next.kind = job.kind /\ next.scan = job.scan /\ next.was = job.was
       /\ next.todo = job.todo \ {r} /\ next.cur = cur
  BY <1>8, <1>9, <1>11 DEF Piece
<1>13. Becomes(job, next)
  <2>1. ~(row = Gone /\ ~Unlinks(r, row)) => cur # None
    BY <1>9, HandIs
  <2>2. next = IF row = Gone /\ ~Unlinks(r, row) THEN rest
               ELSE [rest EXCEPT !.cur = InHandAs(r, row, step)]
    BY <1>6, <1>11, <2>1
  <2> QED
    BY <1>2, <1>3, <1>4, <1>5, <2>2
<1>14. \/ r \in InOtherHands(job) /\ blurred' = blurred \cup {r}
       \/ r \notin InOtherHands(job) /\ blurred' = blurred
       \/ /\ r \notin InOtherHands(job) /\ job.kind = "batch" /\ Tidy(r)
          /\ blurred' = blurred \ {r}
  BY <1>2
<1>15. Typed(next) /\ jobs' = (jobs \ {job}) \cup {next}
  BY <1>1, <1>9, <1>10, <1>12, <1>13, StaysTyped, HandIs DEF Becomes
<1>16. ExportType'
  BY <1>1, <1>7, <1>14, <1>15 DEF ExportType
<1>17. Stages' /\ (FlushComes <=> FlushComes')
  BY <1>1, <1>12, <1>15, StagesKept
<1>18. next.cur \notin Sweep \cup {Swept}
  BY <1>1, <1>9, <1>12, HandIs
<1>19. ASSUME NEW x \in Row \ blurred' PROVE RowInv(x)'
  <2>1. x \in Row /\ Same(x)
    BY <1>1, <1>17, <1>19 DEF Same, Stays
  <2>2. x \notin blurred => RowInv(x)
    BY <2>1 DEF ExportInv
  <2>3. CASE x # r
    <3>1. ~Holds(job, x) /\ ~Holds(next, x)
      BY <1>1, <1>9, <1>12, <2>3, HandIs DEF Holds
    <3>2. RowInv(x)
      BY <1>14, <1>19, <2>2, <2>3
    <3> QED
      BY <1>1, <1>12, <1>13, <1>15, <2>1, <2>3, <3>1, <3>2, StepElsewhere
  <2>4. CASE x = r
    <3>1. \A k \in jobs \ {job} : ~Takes(k, r)
      <4>1. r \notin InOtherHands(job)
        BY <1>14, <1>19, <2>4
      <4> QED
        BY <1>1, <1>7, <4>1, InHandIs DEF InOtherHands, ExportType
    <3>2. RowInv(r) => Own(job, r) /\ Tidy(r)
      <4>1. Before(r)
        BY <1>1, <3>1 DEF Before, Takes
      <4> QED
        BY <4>1 DEF RowInv, Shown
    <3>3. Tidy(r) /\ (job.kind = "batch" \/ Own(job, r))
      BY <1>14, <1>19, <2>2, <2>4, <3>2
    <3>4. \A v : job.kind # "batch" /\ Current(r, v) => Current(r, v)'
      BY <1>1, <1>15 DEF Current, Queued
    <3>5. Current(r, row)'
      <4>1. CASE job.kind = "flush"
        <5>1. Current(r, row)
          BY <1>2, <1>3, <3>3, <4>1 DEF Own
        <5> QED
          BY <3>4, <4>1, <5>1
      <4>2. CASE job.kind # "flush"
        BY <1>1, <1>3, <4>2 DEF Current
      <4> QED
        BY <4>1, <4>2
    <3>6. Tidy(r)'
      BY <2>1, <2>4, <3>3, SameRow
    <3>7. ASSUME Holds(next, r) PROVE InStep(next.cur)'
      BY <1>1, <1>9, <1>12, <3>5, <3>7, HandIs DEF Holds, InStep
    <3>8. Own(next, r)'
      <4>1. Holds(next, r)' <=> Holds(next, r)
        BY DEF Holds
      <4> QED
        BY <1>1, <1>12, <1>18, <3>7, <4>1 DEF Own
    <3>9. Exported(r)' \/ Takes(next, r)
      <4>1. CASE cur \in Hand
        BY <1>9, <1>12, <4>1, HandIs DEF Takes, Holds
      <4>2. CASE cur \notin Hand
        <5>1. row = Gone /\ fileState[r] = "none"
          BY <1>9, <4>2 DEF Unlinks
        <5>2. Match(r, Gone)'
          BY <1>1, <1>7, <3>6, <5>1, NamesAssumption DEF Match, Tidy
        <5> QED
          BY <3>5, <5>1, <5>2 DEF Current, Exported
      <4> QED
        BY <4>1, <4>2
    <3> QED
      BY <1>1, <1>7, <1>12, <1>15, <1>16, <2>4, <3>1, <3>6, <3>8, <3>9, Sole DEF ExportType
  <2> QED
    BY <2>3, <2>4
<1> QED
  BY <1>16, <1>17, <1>19 DEF ExportInv

\* Only the end of the flush ends its stage.
LEMMA StagesEnd ==
    ASSUME Stages, NEW job \in jobs, Ends(job),
           stage' = stage \/ (job.kind = "flush" /\ stage' \in {"observing", "failed"}),
           UNCHANGED <<gate, ending, late>>
    PROVE  Stages' /\ (FlushComes => FlushComes')
<1>1. jobs' \subseteq jobs
  BY DEF Ends
<1>2. (stage' = "gated" => stage = "gated") /\ (stage = "gated" => stage' = stage)
  BY DEF Stages
<1>3. FlushComes <=> FlushComes'
  BY <1>2 DEF FlushComes, isDisposed
<1> QED
  BY <1>1, <1>2, <1>3 DEF Stages

\* A write that has failed leaves blurred what is not done: of a batch its rows, of
\* a flush or a rebuild, whose files are gone, all.
LEMMA WriteFailsStep == ASSUME ExportInv, NEW job \in jobs, WriteFails(job) PROVE ExportInv'
<1>1. /\ ExportType /\ Stages /\ Typed(job) /\ (At(job, "write") \/ job.cur = Swept) /\ Fail
      /\ Ends(job)
      /\ blurred' = IF job.kind = "batch" THEN blurred \cup {job.cur.row} \cup job.todo ELSE Row
      /\ stage' = IF job.kind = "flush" THEN "failed" ELSE stage
      /\ UNCHANGED <<table, disk, fileState, gate, ending, late, orphans>>
  BY DEF ExportInv, ExportType, WriteFails
<1>2. job.kind = "batch" => job.cur.row \in Row
  BY <1>1, AtIs, HandIs DEF Typed
<1>3. jobs' \subseteq jobs /\ job.todo \subseteq Row
  BY <1>1 DEF Ends, Typed, Piece
<1>4. ExportType'
  BY <1>1, <1>2, <1>3, FailIs DEF ExportType
<1>5. Stages' /\ (FlushComes => FlushComes')
  BY <1>1, StagesEnd
<1>6. ASSUME NEW x \in Row \ blurred' PROVE RowInv(x)'
  <2>1. job.kind = "batch"
    BY <1>1, <1>6
  <2>2. x \in Row /\ RowInv(x) /\ Same(x) /\ x # job.cur.row /\ x \notin job.todo
    BY <1>1, <1>5, <1>6, <2>1 DEF ExportInv, Same, Stays
  <2>3. ~Takes(job, x)
    BY <2>1, <2>2 DEF Takes, Holds
  <2> QED
    BY <1>1, <2>2, <2>3, EndElsewhere
<1> QED
  BY <1>4, <1>5, <1>6 DEF ExportInv

\* What a piece of work that is done had to do is exported.
LEMMA FinishedStep == ASSUME ExportInv, NEW job \in jobs, Finished(job) PROVE ExportInv'
<1>1. /\ ExportType /\ Stages /\ Typed(job)
      /\ job.cur = IF job.kind = "rebuild" THEN Swept ELSE None
      /\ job.todo = {} /\ Ends(job)
      /\ stage' = IF job.kind = "flush" THEN "observing" ELSE stage
      /\ UNCHANGED <<table, disk, fileState, gate, ending, late, blurred, orphans, used>>
  BY DEF ExportInv, ExportType, Finished
<1>2. jobs' = jobs \ {job}
  BY <1>1 DEF Ends
<1>3. ExportType'
  BY <1>1, <1>2 DEF ExportType
<1>4. Stages' /\ (FlushComes => FlushComes')
  BY <1>1, StagesEnd
<1>5. ASSUME NEW x \in Row \ blurred' PROVE RowInv(x)'
  <2>1. x \in Row /\ RowInv(x) /\ Same(x)
    BY <1>1, <1>4, <1>5 DEF ExportInv, Same, Stays
  <2>2. CASE job.kind # "rebuild"
    <3>1. ~Takes(job, x)
      BY <1>1, <2>2, HandIs DEF Takes, Holds
    <3> QED
      BY <1>1, <2>1, <3>1, EndElsewhere
  <2>3. CASE job.kind = "rebuild"
    <3>1. \A k \in jobs \ {job} : ~Takes(k, x)
      BY <2>1, <2>3, OthersDoNot DEF Takes
    <3>2. Own(job, x)
      BY <2>1 DEF RowInv
    <3>3. Match(x, job.scan[x]) /\ Current(x, job.scan[x])
      BY <1>1, <2>3, <3>2 DEF Own
    <3>4. Queued(x)' <=> Queued(x)
      BY <1>1, <1>2 DEF Queued
    <3>5. Exported(x)'
      BY <2>1, <3>3, <3>4, SameRow DEF Current, Exported, Same
    <3>6. Tidy(x)'
      <4>1. Tidy(x)
        BY <3>3 DEF Tidy, Match
      <4> QED
        BY <2>1, <4>1, SameRow
    <3> QED
      BY <1>2, <1>3, <2>1, <3>1, <3>5, <3>6, Sole DEF ExportType
  <2> QED
    BY <2>2, <2>3
<1> QED
  BY <1>3, <1>4, <1>5 DEF ExportInv

\* A rebuild that fails before it has touched a file leaves them as they were, and
\* blurred what was.
LEMMA RebuildRenderFailsStep ==
    ASSUME ExportInv, NEW job \in jobs, RebuildRenderFails(job)
    PROVE  ExportInv'
<1>1. /\ ExportType /\ Stages /\ Typed(job)
      /\ job.kind = "rebuild" /\ job.cur = None /\ Fail
      /\ Ends(job) /\ blurred' = blurred \cup job.was
      /\ UNCHANGED <<table, disk, fileState, stage, gate, ending, late, orphans>>
  BY DEF ExportInv, ExportType, RebuildRenderFails
<1>2. jobs' = jobs \ {job} /\ job.was \subseteq Row
  BY <1>1 DEF Ends, Typed, Piece
<1>3. ExportType'
  BY <1>1, <1>2, FailIs DEF ExportType
<1>4. Stages' /\ (FlushComes => FlushComes')
  BY <1>1, StagesEnd
<1>5. ASSUME NEW x \in Row \ blurred' PROVE RowInv(x)'
  <2>1. x \in Row /\ RowInv(x) /\ Same(x) /\ x \notin job.was
    BY <1>1, <1>4, <1>5 DEF ExportInv, Same, Stays
  <2>2. \A k \in jobs \ {job} : ~Takes(k, x)
    BY <1>1, <2>1, OthersDoNot DEF Takes
  <2>3. Before(x) /\ Free(x)
    BY <1>1, <2>1, <2>2, HandIs DEF Before, Free, Takes
  <2>4. Tidy(x) /\ Exported(x)
    BY <2>1, <2>3 DEF RowInv, Shown
  <2>5. Queued(x)' <=> Queued(x)
    BY <1>1, <1>2 DEF Queued
  <2>6. Tidy(x)' /\ Exported(x)'
    BY <2>1, <2>4, <2>5, SameRow
  <2> QED
    BY <1>2, <1>3, <2>1, <2>2, <2>6, Sole DEF ExportType
<1> QED
  BY <1>3, <1>4, <1>5 DEF ExportInv

\* A rebuild goes on to sweep.
SweepsOn(job, files) == [job EXCEPT !.cur = Sweeping(files)]

\* It is the rebuild it was.
LEMMA SweepingIs ==
    ASSUME NEW job, Typed(job), job.kind = "rebuild", job.cur # Swept,
           NEW files \in SUBSET Path, NEW next, next = SweepsOn(job, files)
    PROVE  /\ Typed(next) /\ next.kind = job.kind /\ next.scan = job.scan
           /\ next.was = job.was /\ next.todo = job.todo
           /\ next.cur = Sweeping(files) /\ next.cur \in Sweep /\ next.cur.files = files
           /\ next.cur # None /\ next.cur # Swept /\ next.cur \notin Hand
<1>1. PICK cur \in Sweep : cur = Sweeping(files) /\ cur.files = files
  BY HandIs
<1>2. next = [job EXCEPT !.cur = cur]
  BY <1>1 DEF SweepsOn
<1>3. /\ next \in Piece /\ next.kind = job.kind /\ next.scan = job.scan
      /\ next.was = job.was /\ next.todo = job.todo /\ next.cur = cur
  BY <1>2 DEF Typed, Piece
<1>4. cur \notin {None, Swept} \cup Hand
  BY HandIs
<1>5. Typed(next)
  BY <1>3, <1>4 DEF Typed
<1> QED
  BY <1>1, <1>3, <1>4, <1>5

\* A rebuild sweeps: what it has not listed, or is done with, is left over at most.
LEMMA SweepingStep ==
    ASSUME ExportInv, NEW job \in jobs, job.kind = "rebuild", job.cur # Swept,
           NEW files \in SUBSET Path, NEW next, next = SweepsOn(job, files), Becomes(job, next),
           UNCHANGED <<table, fileState, stage, gate, ending, late, blurred>>,
           disk' \in [Path -> Nat], orphans' \subseteq Path,
           used' \in [edits : Nat, rebuilds : Nat, failures : Nat],
           \A r \in Row \ blurred : \A t \in Titles[r] :
               <<r, t>> \in files \/ Leftover(<<r, t>>)'
    PROVE  ExportInv'
<1>1. ExportType /\ Stages /\ Typed(job)
  BY DEF ExportInv, ExportType
<1>3. /\ Typed(next) /\ next.kind = job.kind /\ next.scan = job.scan
      /\ next.cur # None /\ next.cur # Swept /\ next.cur \notin Hand /\ next.cur.files = files
      /\ next.todo = job.todo
  BY <1>1, SweepingIs
<1>4. jobs' = (jobs \ {job}) \cup {next}
  BY DEF Becomes
<1>5. ExportType'
  BY <1>1, <1>3, <1>4 DEF ExportType
<1>6. Stages' /\ (FlushComes <=> FlushComes')
  BY <1>1, <1>3, <1>4, StagesKept
<1>7. ASSUME NEW x \in Row \ blurred' PROVE RowInv(x)'
  <2>1. x \in Row \ blurred /\ RowInv(x)
    BY <1>7 DEF ExportInv
  <2>2. \A k \in jobs \ {job} : ~Takes(k, x)
    BY <2>1, OthersDoNot DEF Takes
  <2>3. Current(x, job.scan[x])'
    <3>1. Current(x, job.scan[x])
      BY <2>1 DEF RowInv, Own
    <3>2. Queued(x)' <=> Queued(x)
      BY <1>3, <1>4 DEF Queued
    <3> QED
      BY <3>1, <3>2 DEF Current
  <2>4. Own(next, x)'
    BY <1>3, <2>1, <2>3 DEF Own, Holds
  <2> QED
    BY <1>3, <1>4, <1>5, <2>1, <2>2, <2>4, Sole DEF ExportType
<1> QED
  BY <1>5, <1>6, <1>7 DEF ExportInv

\* A rebuild has listed the files; those it has not are not there, or left for good.
LEMMA ListsStep == ASSUME ExportInv, NEW job \in jobs, Lists(job) PROVE ExportInv'
<1>1. /\ ExportType /\ job.kind = "rebuild" /\ job.cur = None
      /\ UNCHANGED <<table, disk, fileState, stage, gate, ending, late, blurred>>
  BY DEF ExportInv, Lists
<1>2. PICK files \in SUBSET Path :
         /\ Becomes(job, SweepsOn(job, files))
         /\ \/ files = OnDisk /\ UNCHANGED <<orphans, used>>
            \/ files = {} /\ Fail /\ orphans' = orphans \cup OnDisk
  <2>1. OnDisk \in SUBSET Path /\ {} \in SUBSET Path
    BY DEF OnDisk
  <2> QED
    BY <2>1 DEF Lists, SweepsOn
<1>3. OnDisk \subseteq Path /\ \A p \in Path \ OnDisk : disk[p] = Absent
  BY DEF OnDisk
<1>4. disk' \in [Path -> Nat] /\ orphans' \subseteq Path
  BY <1>1, <1>2, <1>3 DEF ExportType
<1>5. used' \in [edits : Nat, rebuilds : Nat, failures : Nat]
  BY <1>1, <1>2, FailIs DEF ExportType
<1>6. \A p \in Path : p \in files \/ Leftover(p)'
  BY <1>1, <1>2, <1>3 DEF Leftover
<1>7. \A r \in Row \ blurred : \A t \in Titles[r] : <<r, t>> \in files \/ Leftover(<<r, t>>)'
  BY <1>6, PathIs
<1>8. job.cur # Swept
  BY <1>1, HandIs
<1> QED
  BY <1>1, <1>2, <1>4, <1>5, <1>7, <1>8, SweepingStep

\* A file that was listed is gone, or could not be removed.
LEMMA SweepsStep == ASSUME ExportInv, NEW job \in jobs, Sweeps(job) PROVE ExportInv'
<1>1. /\ ExportType /\ Typed(job) /\ job.cur.row = "sweep"
      /\ UNCHANGED <<table, fileState, stage, gate, ending, late, blurred>>
  BY DEF ExportInv, ExportType, Sweeps
<1>2. job.kind = "rebuild" /\ job.cur \in Sweep /\ job.cur # Swept /\ job.cur.files \subseteq Path
  <2>1. None.row = "none" /\ Swept.row = "swept"
    BY DEF None, Swept
  <2>2. job.cur \notin {None, Swept} \cup Hand
    BY <1>1, <2>1, HandIs, NamesAssumption
  <2> QED
    BY <1>1, <2>2, HandIs DEF Typed
<1>3. PICK p \in job.cur.files :
         Removes(p) /\ Becomes(job, [job EXCEPT !.cur = Sweeping(@.files \ {p})])
  BY DEF Sweeps
<1>4. PICK q \in Row : q = p[1]
  BY <1>2, <1>3, PathIs
<1>5. PICK t \in Titles[q] : t = p[2]
  BY <1>2, <1>3, <1>4, PathIs
<1>6. p = <<q, t>>
  BY <1>2, <1>3, <1>4, <1>5, PathIs
<1>7. /\ disk' \in [Path -> Nat] /\ orphans' \subseteq Path
      /\ used' \in [edits : Nat, rebuilds : Nat, failures : Nat]
      /\ Leftover(<<q, t>>)' /\ OthersStay(q, t)
  BY <1>1, <1>3, <1>6, RemovesIs
<1>8. PICK files \in SUBSET Path : files = job.cur.files \ {p}
  BY <1>2
<1>9. Becomes(job, SweepsOn(job, files))
  BY <1>3, <1>8 DEF SweepsOn
<1>10. ASSUME NEW r \in Row \ blurred, NEW u \in Titles[r]
       PROVE  <<r, u>> \in files \/ Leftover(<<r, u>>)'
  <2>1. CASE r = q /\ u = t
    BY <1>7, <2>1
  <2>2. CASE ~(r = q /\ u = t)
    <3>1. <<r, u>> # p
      BY <1>6, <2>2
    <3>2. <<r, u>> \in job.cur.files \/ Leftover(<<r, u>>)
      BY <1>2, <1>10 DEF ExportInv, RowInv, Own
    <3>3. Stays(<<r, u>>)
      BY <1>7, <2>2 DEF OthersStay
    <3> QED
      BY <1>8, <3>1, <3>2, <3>3 DEF Stays, Leftover
  <2> QED
    BY <2>1, <2>2
<1> QED
  BY <1>1, <1>2, <1>7, <1>9, <1>10, SweepingStep

\* All files are gone, or left for good, and what was scanned is to be written.
LEMMA ClearsStep == ASSUME ExportInv, NEW job \in jobs, Clears(job) PROVE ExportInv'
<1>1. /\ ExportType /\ Stages /\ Typed(job) /\ job.cur = Sweeping({})
      /\ fileState' = [r \in Row |-> "none"]
      /\ UNCHANGED <<table, disk, stage, gate, ending, late, blurred, orphans, used>>
  BY DEF ExportInv, ExportType, Clears
<1>2. job.kind = "rebuild" /\ job.cur \in Sweep /\ job.cur # Swept /\ job.cur.files = {}
  BY <1>1, HandIs DEF Typed
<1>3. PICK next : next = [job EXCEPT !.cur = Swept]
  OBVIOUS
<1>4. Becomes(job, next)
  BY <1>3 DEF Clears
<1>5. /\ next \in Piece /\ next.kind = job.kind /\ next.scan = job.scan /\ next.was = job.was
      /\ next.todo = job.todo /\ next.cur = Swept
  BY <1>1, <1>3 DEF Typed, Piece
<1>6. Typed(next) /\ jobs' = (jobs \ {job}) \cup {next}
  BY <1>1, <1>2, <1>4, <1>5, HandIs DEF Typed, Becomes
<1>7. ExportType'
  BY <1>1, <1>6 DEF ExportType
<1>8. Stages' /\ (FlushComes <=> FlushComes')
  BY <1>1, <1>5, <1>6, StagesKept
<1>9. ASSUME NEW x \in Row \ blurred' PROVE RowInv(x)'
  <2>1. x \in Row /\ RowInv(x)
    BY <1>1, <1>9 DEF ExportInv
  <2>2. \A k \in jobs \ {job} : ~Takes(k, x)
    BY <1>2, <2>1, OthersDoNot DEF Takes
  <2>3. Match(x, Gone)'
    <3>1. \A t \in Titles[x] : Leftover(<<x, t>>)
      BY <1>2, <2>1 DEF RowInv, Own
    <3> QED
      BY <1>1, <2>1, <3>1 DEF Match, Leftover
  <2>4. x \notin job.todo => job.scan[x] = Gone
    BY <1>1, <1>2, <2>1 DEF Typed
  <2>5. Current(x, job.scan[x])'
    <3>1. Current(x, job.scan[x])
      BY <1>2, <2>1 DEF RowInv, Own
    <3>2. Queued(x)' <=> Queued(x)
      BY <1>2, <1>5, <1>6 DEF Queued
    <3> QED
      BY <1>1, <3>1, <3>2 DEF Current
  <2>6. Own(next, x)'
    BY <1>5, <2>3, <2>4, <2>5, HandIs DEF Own, Holds
  <2> QED
    BY <1>2, <1>5, <1>6, <1>7, <2>1, <2>2, <2>6, HandIs, Sole DEF ExportType
<1> QED
  BY <1>7, <1>8, <1>9 DEF ExportInv

\* A row of the scan has been written.
LEMMA RebuildWritesStep == ASSUME ExportInv, NEW job \in jobs, RebuildWrites(job) PROVE ExportInv'
<1>1. /\ ExportType /\ Stages /\ Typed(job) /\ job.cur = Swept /\ job.kind = "rebuild"
      /\ UNCHANGED <<table, stage, gate, ending, late, blurred, used>>
  <2>1. /\ ExportType /\ Stages /\ Typed(job) /\ job.cur = Swept
        /\ UNCHANGED <<table, stage, gate, ending, late, blurred, used>>
    BY DEF ExportInv, ExportType, RebuildWrites
  <2>2. job.kind = "rebuild"
    BY <2>1, HandIs DEF Typed
  <2> QED
    BY <2>1, <2>2
<1>2. PICK r \in job.todo : Writes(r, job.scan[r]) /\ Becomes(job, [job EXCEPT !.todo = @ \ {r}])
  BY DEF RebuildWrites
<1>3. /\ r \in Row /\ job.todo \subseteq Row /\ job.scan[r] # Gone
      /\ job.scan[r] \in Entry /\ Of(r, job.scan[r])
  BY <1>1, <1>2 DEF Typed, Piece
<1>4. PICK row : row = job.scan[r]
  OBVIOUS
<1>5. row \in Entry /\ row # Gone /\ row[1] \in Titles[r]
  BY <1>3, <1>4 DEF Of
<1>6. PICK next : next = [job EXCEPT !.todo = @ \ {r}]
  OBVIOUS
<1>7. Becomes(job, next) /\ jobs' = (jobs \ {job}) \cup {next}
  BY <1>2, <1>6 DEF Becomes
<1>8. /\ next \in Piece /\ next.kind = job.kind /\ next.scan = job.scan /\ next.was = job.was
      /\ next.todo = job.todo \ {r} /\ next.cur = Swept
  BY <1>1, <1>3, <1>6 DEF Typed, Piece
<1>9. Typed(next)
  BY <1>1, <1>8, HandIs DEF Typed
<1>10. /\ disk' \in [Path -> Nat] /\ orphans' \subseteq Path
       /\ disk'[<<r, row[1]>>] = row[2] /\ OthersStay(r, row[1])
       /\ fileState' \in [Row -> {"none"} \cup Title]
       /\ \A x \in Row : fileState'[x] = IF x = r THEN row[1] ELSE fileState[x]
  BY <1>1, <1>2, <1>3, <1>4, <1>5, WritesIs
<1>11. \A x \in Row : fileState'[x] \in {"none"} \cup Titles[x]
  BY <1>1, <1>5, <1>10 DEF ExportType
<1>12. ExportType'
  BY <1>1, <1>3, <1>7, <1>9, <1>10, <1>11 DEF ExportType
<1>13. Stages' /\ (FlushComes <=> FlushComes')
  BY <1>1, <1>7, <1>8, StagesKept
<1>14. ASSUME NEW x \in Row \ blurred' PROVE RowInv(x)'
  <2>1. x \in Row /\ RowInv(x)
    BY <1>1, <1>14 DEF ExportInv
  <2>2. ~Holds(job, x) /\ ~Holds(next, x)
    BY <1>1, <1>8, HandIs DEF Holds
  <2>3. CASE x # r
    <3>1. Same(x)
      BY <1>1, <1>10, <1>13, <2>1, <2>3 DEF Same, OthersStay
    <3> QED
      BY <1>1, <1>7, <1>8, <1>9, <2>1, <2>2, <2>3, <3>1, StepElsewhere
  <2>4. CASE x = r
    <3>1. \A k \in jobs \ {job} : ~Takes(k, r)
      BY <1>1, <2>1, <2>4, OthersDoNot DEF Takes
    <3>2. Match(r, Gone) /\ Current(r, job.scan[r])
      BY <1>1, <1>2, <2>1, <2>4 DEF RowInv, Own
    <3>3. Match(r, job.scan[r])'
      BY <1>3, <1>4, <1>5, <1>10, <3>2 DEF Match, OthersStay, Stays, Leftover
    <3>4. Current(r, job.scan[r])'
      <4>1. Queued(r)' <=> Queued(r)
        BY <1>1, <1>7, <1>8 DEF Queued
      <4> QED
        BY <1>1, <3>2, <4>1 DEF Current
    <3>5. Own(next, r)'
      BY <1>8, <2>2, <2>4, <3>3, <3>4, HandIs DEF Own, Holds
    <3> QED
      BY <1>1, <1>7, <1>8, <1>12, <2>1, <2>4, <3>1, <3>5, HandIs, Sole DEF ExportType
  <2> QED
    BY <2>3, <2>4
<1> QED
  BY <1>12, <1>13, <1>14 DEF ExportInv

-----------------------------------------------------------------------------
(* The work that begins, and disposal                                      *)

\* A piece of work that begins.
LEMMA JobIs ==
    ASSUME ExportType, NEW n \in Nat, NEW kind \in {"flush", "batch", "rebuild"},
           NEW todo \in SUBSET Row, kind # "batch" => todo = Present
    PROVE  /\ Typed(Job(n, kind, todo))
           /\ Job(n, kind, todo).kind = kind /\ Job(n, kind, todo).todo = todo
           /\ Job(n, kind, todo).cur = None
           /\ kind # "batch" => Job(n, kind, todo).scan = table
           /\ Job(n, kind, todo).was = IF kind = "rebuild" THEN blurred ELSE {}
<1>1. PICK scan \in {None} \cup [Row -> Entry] : scan = IF kind = "batch" THEN None ELSE table
  BY DEF ExportType
<1>2. PICK was \in SUBSET Row : was = IF kind = "rebuild" THEN blurred ELSE {}
  BY DEF ExportType
<1>3. PICK job : job = Job(n, kind, todo)
  OBVIOUS
<1>4. job = [n |-> n, kind |-> kind, todo |-> todo, cur |-> None, scan |-> scan, was |-> was]
  BY <1>1, <1>2, <1>3 DEF Job
<1>5. /\ job \in Piece /\ job.kind = kind /\ job.todo = todo /\ job.cur = None
      /\ job.scan = scan /\ job.was = was
  BY <1>4 DEF Piece
<1>6. kind # "batch" =>
          /\ scan = table /\ \A r \in Row : Of(r, scan[r]) /\ (r \in todo <=> scan[r] # Gone)
  BY <1>1 DEF ExportType, Present
<1>7. Typed(job)
  BY <1>1, <1>5, <1>6, HandIs DEF Typed, ExportType
<1> QED
  BY <1>1, <1>2, <1>3, <1>5, <1>7

\* What nobody has in hand, nobody has; it was exported, unless it was blurred.
LEMMA NobodyHas ==
    ASSUME ExportInv, NEW r \in Row, r \notin AllInHand
    PROVE  /\ \A job \in jobs : ~Takes(job, r) /\ job.kind # "rebuild"
           /\ r \notin blurred => Tidy(r) /\ Exported(r)
<1>1. \A job \in jobs : ~Takes(job, r)
  BY InHandIs DEF ExportInv, ExportType, AllInHand
<1>2. \A job \in jobs : job.kind # "rebuild"
  BY <1>1 DEF Takes
<1>3. Before(r) /\ Free(r)
  BY <1>1, <1>2 DEF Before, Free
<1> QED
  BY <1>1, <1>2, <1>3 DEF ExportInv, RowInv, Shown

\* What is in hand are rows.
LEMMA InHandRows == ASSUME ExportType PROVE AllInHand \subseteq Row
<1>1. ASSUME NEW job \in jobs PROVE InHand(job) \subseteq Row
  <2>1. job.todo \subseteq Row
    BY <1>1 DEF ExportType, Typed, Piece
  <2> QED
    BY <2>1 DEF InHand
<1> QED
  BY <1>1 DEF AllInHand

\* A change of the table is queued as a batch, or leaves its rows blurred.
LEMMA EditStep == ASSUME ExportInv, Edit PROVE ExportInv'
<1>1. /\ ExportType /\ Stages /\ ~isDisposed
      /\ used' = [used EXCEPT !.edits = @ + 1]
      /\ UNCHANGED <<disk, fileState, stage, gate, ending, late, orphans>>
  BY DEF ExportInv, Edit
<1>2. PICK rows \in (SUBSET Row) \ {{}} :
          /\ \E new \in [rows -> UNION {AsRow(r, used'.edits) : r \in rows}] :
                /\ \A r \in rows : new[r] \in AsRow(r, used'.edits) \ {table[r]}
                /\ table' = [r \in Row |-> IF r \in rows THEN new[r] ELSE table[r]]
          /\ IF stage = "observing"
             THEN /\ jobs' = jobs \cup {Job(used'.edits, "batch", rows)}
                  /\ UNCHANGED blurred
             ELSE /\ blurred' = blurred \cup rows
                  /\ UNCHANGED jobs
  BY DEF Edit
<1>3. PICK new \in [rows -> UNION {AsRow(r, used'.edits) : r \in rows}] :
          /\ \A r \in rows : new[r] \in AsRow(r, used'.edits) \ {table[r]}
          /\ table' = [r \in Row |-> IF r \in rows THEN new[r] ELSE table[r]]
  BY <1>2
<1>4. PICK n \in Nat : n = used'.edits
  BY <1>1 DEF ExportType
<1>5. used' \in [edits : Nat, rebuilds : Nat, failures : Nat]
  BY <1>1 DEF ExportType
<1>6. /\ table' \in [Row -> Entry] /\ \A r \in Row : Of(r, table'[r])
      /\ \A r \in Row \ rows : table'[r] = table[r]
  <2>1. \A r \in rows : new[r] \in Entry /\ Of(r, new[r])
    <3>1. ASSUME NEW r \in rows
          PROVE  AsRow(r, n) \subseteq Entry /\ \A row \in AsRow(r, n) : Of(r, row)
      <4>1. r \in Row /\ Content(n) \in Nat
        BY <1>2, <3>1 DEF Content
      <4> QED
        BY <4>1 DEF AsRow, Entry, Title, Of
    <3> QED
      BY <1>3, <1>4, <3>1
  <2>2. table \in [Row -> Entry] /\ \A r \in Row : Of(r, table[r])
    BY <1>1 DEF ExportType
  <2> QED
    BY <1>2, <1>3, <2>1, <2>2
<1>7. PICK job : job = Job(n, "batch", rows)
  OBVIOUS
<1>8. Typed(job) /\ job.kind = "batch" /\ job.cur = None /\ job.todo = rows
  BY <1>1, <1>2, <1>4, <1>7, JobIs
<1>9. \/ stage = "observing" /\ jobs' = jobs \cup {job} /\ blurred' = blurred
      \/ stage # "observing" /\ jobs' = jobs /\ blurred' = blurred \cup rows
  BY <1>2, <1>4, <1>7
<1>10. ExportType'
  BY <1>1, <1>2, <1>5, <1>6, <1>8, <1>9 DEF ExportType
<1>11. Stages' /\ (FlushComes => FlushComes')
  <2>1. FlushComes => FlushComes'
    BY <1>1 DEF FlushComes, isDisposed
  <2>2. ending' # "done"
    BY <1>1 DEF isDisposed
  <2>3. stage' = "gated" => \A k \in jobs' : k.kind # "flush"
    BY <1>1, <1>9 DEF Stages
  <2> QED
    BY <2>1, <2>2, <2>3 DEF Stages
<1>12. ASSUME NEW x \in Row \ blurred' PROVE RowInv(x)'
  <2>1. x \in Row /\ RowInv(x)
    BY <1>9, <1>12 DEF ExportInv
  <2>2. CASE x \notin rows
    <3>1. Same(x)
      BY <1>1, <1>6, <1>11, <2>1, <2>2 DEF Same, Stays
    <3> QED
      BY <1>8, <1>9, <2>1, <3>1, BeginElsewhere
  <2>3. CASE x \in rows
    <3>1. jobs' = jobs \cup {job} /\ Queued(x)'
      BY <1>8, <1>9, <1>12, <2>3 DEF Queued
    <3>2. ~Takes(job, x) /\ job.cur \notin Sweep \cup {Swept}
      BY <1>8, HandIs DEF Takes, Holds
    <3>3. Alone(x)'
      BY <2>1, <3>1, <3>2 DEF RowInv, Alone, Takes, Holds
    <3>4. \A row : Current(x, row)'
      BY <3>1 DEF Current
    <3>5. /\ \A t \in Titles[x] : Leftover(<<x, t>>)' <=> Leftover(<<x, t>>)
          /\ \A row : Match(x, row)' <=> Match(x, row)
      BY <1>1 DEF Match, Leftover
    <3>6. ASSUME NEW k \in jobs PROVE Own(k, x)'
      <4>1. Own(k, x)
        BY <2>1, <3>6 DEF RowInv
      <4>2. ASSUME Holds(k, x) PROVE InStep(k.cur)'
        <5>1. k.cur.row = x /\ InStep(k.cur)
          BY <4>1, <4>2 DEF Own, Holds
        <5> QED
          BY <1>1, <3>4, <3>5, <5>1 DEF InStep
      <4>3. Holds(k, x)' <=> Holds(k, x)
        BY DEF Holds
      <4> QED
        BY <3>4, <3>5, <4>1, <4>2, <4>3 DEF Own
    <3>7. Own(job, x)'
      BY <3>2 DEF Own, Takes, Holds
    <3>8. Before(x)' => Before(x)
      BY <3>1 DEF Before
    <3>9. Shown(x)'
      <4>1. Tidy(x) <=> Tidy(x)'
        BY <1>1, <3>5 DEF Tidy
      <4>2. Exported(x)'
        BY <3>1 DEF Exported
      <4> QED
        BY <2>1, <3>8, <4>1, <4>2 DEF RowInv, Shown
    <3> QED
      BY <3>1, <3>3, <3>6, <3>7, <3>9 DEF RowInv
  <2> QED
    BY <2>2, <2>3
<1> QED
  BY <1>10, <1>11, <1>12 DEF ExportInv

\* The flush takes every row there is, but what a file is left behind of, or what a
\* rebuild has in hand, stays blurred.
LEMMA FlushBeginsStep == ASSUME ExportInv, FlushBegins PROVE ExportInv'
<1>1. PICK next : next = Job(0, "flush", Present)
  OBVIOUS
<1>2. /\ ExportType /\ Stages /\ stage = "gated" /\ gate' = TRUE
      /\ \/ isDisposed /\ ~gate /\ stage' = "failed" /\ jobs' = jobs /\ used' = used
         \/ /\ gate \/ ~isDisposed
            /\ stage' = "flushing" /\ jobs' = jobs \cup {next} /\ used' = used
         \/ (gate \/ ~isDisposed) /\ stage' = "failed" /\ Fail /\ jobs' = jobs
      /\ blurred' = IF stage' = "failed" THEN Row
                    ELSE (blurred \ {r \in Present : Tidy(r)}) \cup AllInHand
      /\ UNCHANGED <<table, disk, fileState, ending, late, orphans>>
  BY <1>1 DEF ExportInv, FlushBegins
<1>3. Present \subseteq Row /\ AllInHand \subseteq Row
  BY <1>2, InHandRows DEF Present
<1>4. /\ Typed(next) /\ next.kind = "flush" /\ next.todo = Present /\ next.cur = None
      /\ next.scan = table
  BY <1>1, <1>2, <1>3, JobIs
<1>5. used' \in [edits : Nat, rebuilds : Nat, failures : Nat]
  BY <1>2, FailIs DEF ExportType
<1>6. ExportType'
  BY <1>2, <1>3, <1>4, <1>5 DEF ExportType
<1>7. Stages'
  <2>1. stage' # "gated"
    BY <1>2
  <2>2. ending = "done" /\ ~late => jobs' = jobs
    BY <1>2 DEF Stages, FlushComes, isDisposed
  <2> QED
    BY <1>2, <2>1, <2>2 DEF Stages, FlushComes
<1>8. ASSUME NEW x \in Row \ blurred' PROVE RowInv(x)'
  <2>1. /\ jobs' = jobs \cup {next} /\ x \in Row /\ x \notin AllInHand
        /\ x \notin blurred \/ (x \in Present /\ Tidy(x))
    BY <1>2, <1>8
  <2>2. /\ \A job \in jobs : ~Takes(job, x)
        /\ x \notin blurred => Tidy(x) /\ Exported(x)
    BY <2>1, NobodyHas
  <2>3. Tidy(x)'
    BY <1>2, <2>1, <2>2 DEF Tidy, Leftover
  <2>4. Own(next, x)'
    BY <1>2, <1>4, HandIs DEF Own, Current, Holds
  <2>5. Exported(x)' \/ Takes(next, x)
    <3>1. CASE x \in Present
      BY <1>4, <3>1 DEF Takes
    <3>2. CASE x \notin Present
      <4>1. Match(x, table[x]) \/ Queued(x)
        BY <2>1, <2>2, <3>2 DEF Exported, Present
      <4>2. Queued(x) => Queued(x)'
        BY <2>1 DEF Queued
      <4>3. Match(x, table[x]) => Match(x, table[x])'
        BY <1>2 DEF Match, Leftover
      <4> QED
        BY <4>1, <4>2, <4>3 DEF Exported
    <3> QED
      BY <3>1, <3>2
  <2> QED
    BY <1>4, <1>6, <2>1, <2>2, <2>3, <2>4, <2>5, Sole DEF ExportType
<1> QED
  BY <1>6, <1>7, <1>8 DEF ExportInv

\* A rebuild takes every row, and remembers which were blurred.
LEMMA RebuildBeginsStep == ASSUME ExportInv, RebuildBegins PROVE ExportInv'
<1>1. PICK n \in Nat : n = MaxEdits + 1 + used.rebuilds
  BY ExportAssumption DEF ExportInv, ExportType
<1>2. PICK next : next = Job(n, "rebuild", Present)
  OBVIOUS
<1>3. /\ ExportType /\ Stages
      /\ used' = [used EXCEPT !.rebuilds = @ + 1]
      /\ jobs' = jobs \cup {next} /\ blurred' = AllInHand
      /\ UNCHANGED <<table, disk, fileState, stage, gate, ending, late, orphans>>
  BY <1>1, <1>2 DEF ExportInv, RebuildBegins
<1>4. Present \subseteq Row /\ AllInHand \subseteq Row
  BY <1>3, InHandRows DEF Present
<1>5. /\ Typed(next) /\ next.kind = "rebuild" /\ next.todo = Present /\ next.cur = None
      /\ next.scan = table /\ next.was = blurred
  BY <1>2, <1>3, <1>4, JobIs
<1>6. used' \in [edits : Nat, rebuilds : Nat, failures : Nat]
  BY <1>3 DEF ExportType
<1>7. ExportType'
  BY <1>3, <1>4, <1>5, <1>6 DEF ExportType
<1>8. Stages' /\ (FlushComes => FlushComes')
  <2>1. FlushComes <=> FlushComes'
    BY <1>3 DEF FlushComes, isDisposed
  <2> QED
    BY <1>3, <1>5, <2>1 DEF Stages
<1>9. ASSUME NEW x \in Row \ blurred' PROVE RowInv(x)'
  <2>1. x \in Row /\ x \notin AllInHand
    BY <1>3, <1>9
  <2>2. /\ \A job \in jobs : ~Takes(job, x)
        /\ x \notin blurred => Tidy(x) /\ Exported(x)
    BY <2>1, NobodyHas
  <2>3. Own(next, x)'
    BY <1>3, <1>5, HandIs DEF Own, Current, Holds
  <2>4. x \notin blurred => Tidy(x)' /\ Exported(x)'
    <3>1. Same(x)
      BY <1>3, <1>8 DEF Same, Stays
    <3>2. Queued(x) => Queued(x)'
      BY <1>3 DEF Queued
    <3> QED
      BY <2>1, <2>2, <3>1, <3>2, SameRow
  <2> QED
    BY <1>3, <1>5, <1>7, <2>1, <2>2, <2>3, <2>4, Sole DEF ExportType
<1> QED
  BY <1>7, <1>8, <1>9 DEF ExportInv

\* A disposal before the gate has opened leaves all blurred.
LEMMA ExportDisposesStep == ASSUME ExportInv, ExportDisposes PROVE ExportInv'
<1>1. /\ ExportType /\ Stages
      /\ ending' = "draining" /\ blurred' = IF gate THEN blurred ELSE Row
      /\ UNCHANGED <<table, disk, fileState, jobs, stage, gate, late, orphans, used>>
  BY DEF ExportInv, ExportDisposes
<1>2. ExportType'
  BY <1>1 DEF ExportType
<1>3. Stages'
  BY <1>1 DEF Stages
<1>4. ASSUME NEW x \in Row \ blurred' PROVE RowInv(x)'
  <2>1. gate /\ x \in Row /\ RowInv(x)
    BY <1>1, <1>4 DEF ExportInv
  <2>2. FlushComes => FlushComes'
    BY <1>1, <2>1 DEF FlushComes
  <2>3. Same(x)
    BY <1>1, <2>2 DEF Same, Stays
  <2> QED
    BY <1>1, <2>1, <2>3, BeginElsewhere
<1> QED
  BY <1>2, <1>3, <1>4 DEF ExportInv

\* A drain that was not given up has seen the flush and the batches end.
LEMMA DrainedStep == ASSUME ExportInv, Drained PROVE ExportInv'
<1>1. /\ ExportType /\ Stages
      /\ ending = "draining" /\ ending' = "done" /\ late' = Owed
      /\ UNCHANGED <<table, disk, fileState, jobs, stage, gate, blurred, orphans, used>>
  BY DEF ExportInv, Drained
<1>2. Owed \in BOOLEAN
  BY DEF Owed
<1>3. ExportType'
  BY <1>1, <1>2 DEF ExportType
<1>4. FlushComes <=> FlushComes'
  BY <1>1 DEF FlushComes, isDisposed
<1>5. Stages'
  <2>1. isDisposed
    BY <1>1 DEF isDisposed
  <2>2. ~late' => ~FlushComes /\ \A job \in jobs : job.kind = "rebuild"
    BY <1>1, <2>1 DEF Owed, FlushComes
  <2>3. stage' = "gated" => \A job \in jobs' : job.kind # "flush"
    BY <1>1 DEF Stages
  <2> QED
    BY <1>1, <1>4, <2>2, <2>3 DEF Stages
<1>6. ASSUME NEW x \in Row \ blurred' PROVE RowInv(x)'
  <2>1. x \in Row /\ RowInv(x) /\ Same(x)
    BY <1>1, <1>4, <1>6 DEF ExportInv, Same, Stays
  <2> QED
    BY <1>1, <2>1, BeginElsewhere
<1> QED
  BY <1>3, <1>5, <1>6 DEF ExportInv

-----------------------------------------------------------------------------
(* The export                                                              *)

\* At first the flush is to come, and the files are of an earlier session.
LEMMA ExportInitially == ASSUME ExportInit PROVE ExportInv
<1>1. /\ table \in [Row -> UNION {AsRow(r, 0) : r \in Row}]
      /\ \A r \in Row : table[r] \in AsRow(r, 0)
      /\ disk \in [Path -> {Absent, Old}] /\ fileState = [r \in Row |-> "none"]
      /\ jobs = {} /\ stage = "gated" /\ gate \in BOOLEAN
      /\ ending = "none" /\ late = FALSE /\ blurred = {} /\ orphans = {}
      /\ used \in [edits : 0 .. MaxEdits, rebuilds : 0 .. MaxRebuilds,
                   failures : 0 .. MaxFailures]
  BY DEF ExportInit
<1>2. ExportType
  <2>1. ASSUME NEW r \in Row PROVE table[r] \in Entry /\ Of(r, table[r])
    <3>1. Content(0) \in Nat
      BY DEF Content
    <3> QED
      BY <1>1, <2>1, <3>1 DEF AsRow, Entry, Title, Of
  <2>2. table \in [Row -> Entry]
    BY <1>1, <2>1
  <2>3. disk \in [Path -> Nat]
    BY <1>1 DEF Absent, Old
  <2>4. used \in [edits : Nat, rebuilds : Nat, failures : Nat]
    BY <1>1
  <2> QED
    BY <1>1, <2>1, <2>2, <2>3, <2>4 DEF ExportType
<1>3. Stages
  BY <1>1 DEF Stages
<1>4. ASSUME NEW r \in Row PROVE RowInv(r)
  <2>1. FlushComes
    BY <1>1 DEF FlushComes, isDisposed
  <2>2. \A t \in Titles[r] : Leftover(<<r, t>>)
    BY <1>1, PathIs DEF Leftover
  <2>3. Tidy(r)
    BY <2>2 DEF Tidy
  <2>4. Match(r, Gone)
    BY <1>1, <2>2 DEF Match
  <2>5. Exported(r)
    BY <2>1, <2>4 DEF Exported
  <2> QED
    BY <1>1, <2>3, <2>5 DEF RowInv, Alone, Shown
<1> QED
  BY <1>1, <1>2, <1>3, <1>4 DEF ExportInv

\* What the export does.
LEMMA ExportSteps ==
    ASSUME ExportInv, ExportWork \/ RebuildBegins \/ ExportFails
    PROVE  ExportInv'
<1>1. CASE FlushBegins
  BY <1>1, FlushBeginsStep
<1>2. CASE Drained
  BY <1>2, DrainedStep
<1>3. ASSUME NEW job \in jobs,
             \/ NextRow(job) \/ Rendered(job) \/ Unlinked(job) \/ Written(job) \/ Finished(job)
             \/ Lists(job) \/ Sweeps(job) \/ Clears(job) \/ RebuildWrites(job)
      PROVE  ExportInv'
  BY <1>3, NextRowStep, RenderedStep, UnlinkedStep, WrittenStep, FinishedStep, ListsStep,
     SweepsStep, ClearsStep, RebuildWritesStep
<1>4. CASE RebuildBegins
  BY <1>4, RebuildBeginsStep
<1>5. ASSUME NEW job \in jobs, RenderFails(job) \/ WriteFails(job) \/ RebuildRenderFails(job)
      PROVE  ExportInv'
  BY <1>5, RenderFailsStep, WriteFailsStep, RebuildRenderFailsStep
<1> QED
  BY <1>1, <1>2, <1>3, <1>4, <1>5 DEF ExportWork, ExportFails

\* Nothing but the failures that are counted.
LEMMA OnlyUsed ==
    ASSUME ExportInv,
           UNCHANGED <<table, disk, fileState, jobs, stage, gate, ending, late, blurred>>,
           orphans' = orphans,
           used' \in [edits : Nat, rebuilds : Nat, failures : Nat]
    PROVE  ExportInv'
<1>1. ExportType'
  BY DEF ExportInv, ExportType
<1>2. FlushComes <=> FlushComes'
  BY DEF FlushComes, isDisposed
<1>3. Stages'
  BY <1>2 DEF ExportInv, Stages
<1>4. ASSUME NEW x \in Row \ blurred' PROVE RowInv(x)'
  <2>1. x \in Row /\ RowInv(x) /\ Same(x)
    BY <1>2, <1>4 DEF ExportInv, Same, Stays
  <2> QED
    BY <2>1, BeginElsewhere
<1> QED
  BY <1>1, <1>3, <1>4 DEF ExportInv

\* Every step of the mount keeps the export as it is to be.
LEMMA ExportKept == ASSUME ExportInv, [Next]_vars PROVE ExportInv'
<1>1. CASE Table
  BY <1>1, EditStep DEF Table
<1>2. CASE Exports
  BY <1>2, ExportSteps DEF Exports
<1>3. CASE Disposes
  BY <1>3, ExportDisposesStep DEF Disposes
<1>4. used \in [edits : Nat, rebuilds : Nat, failures : Nat]
  BY DEF ExportInv, ExportType
<1>5. CASE Autosaves \/ UNCHANGED vars
  BY <1>4, <1>5, OnlyUsed DEF Autosaves, vars, exportVars
<1>6. CASE GitFails
  <2>1. Fail => used' \in [edits : Nat, rebuilds : Nat, failures : Nat]
    BY FailIs DEF ExportInv
  <2>2. Fail \/ UNCHANGED used
    BY <1>6 DEF GitFails
  <2> QED
    BY <1>4, <1>6, <2>1, <2>2, OnlyUsed DEF GitFails
<1> QED
  BY <1>1, <1>2, <1>3, <1>5, <1>6 DEF Next

-----------------------------------------------------------------------------
(* The autosave                                                            *)

\* A commit is of files.
Commits == [batch : SUBSET Path, retried : BOOLEAN, added : BOOLEAN]

\* What the last session has not committed is missed.
LEMMA GitInitially == ASSUME Init PROVE GitType /\ History
<1>1. /\ git \in {"none", "starting"} /\ events = {} /\ dirty = {} /\ timer = FALSE
      /\ commits = {} /\ head \in [Path -> {Absent, Old}]
      /\ index = {p \in Path : head[p] # Absent}
      /\ dropped = {} /\ missed = {p \in Path : head[p] # disk[p]}
  BY DEF Init, GitInit
<1>2. head \in [Path -> Nat]
  BY <1>1 DEF Absent, Old
<1>3. index \in SUBSET Path /\ missed \in SUBSET Path
  BY <1>1
<1>4. GitType
  BY <1>1, <1>2, <1>3 DEF GitType
<1>5. History
  BY <1>1 DEF History
<1> QED
  BY <1>4, <1>5

\* A change of files is seen by the watcher, or known to be missed.
LEMMA FilesChangeStep ==
    ASSUME GitType, History, FilesChange, ~isDisposed' => ~isDisposed
    PROVE  GitType' /\ History'
<1> DEFINE changed == {p \in Path : disk'[p] # disk[p]}
<1>1. /\ events' = IF git = "on" /\ ~isDisposed THEN events \cup changed ELSE events
      /\ missed' = IF git = "starting" THEN missed \cup changed ELSE missed
      /\ UNCHANGED <<git, dirty, timer, commits, index, head, dropped>>
  BY DEF FilesChange
<1>2. changed \in SUBSET Path
  OBVIOUS
<1>3. GitType'
  BY <1>1, <1>2 DEF GitType
<1>4. History'
  <2> SUFFICES ASSUME git \in {"starting", "on"}, ~isDisposed, History, NEW p \in Path
               PROVE  \/ head[p] = disk'[p]
                      \/ p \in dropped \cup missed' \cup events' \cup dirty
                      \/ \E commit \in commits : p \in commit.batch
    BY <1>1 DEF History
  <2>1. CASE p \in changed
    BY <1>1, <2>1
  <2>2. CASE p \notin changed
    BY <1>1, <2>2 DEF History
  <2> QED
    BY <2>1, <2>2
<1> QED
  BY <1>3, <1>4

\* A batch that goes on is the batch it was.
LEMMA GivesStep ==
    ASSUME GitType, History, NEW commit \in commits, NEW next \in Commits,
           next.batch = commit.batch, Gives(commit, next),
           index' \subseteq Path, UNCHANGED <<git, events, dirty, timer, head, dropped, missed>>,
           \A p \in Path : disk'[p] = disk[p], ending' = ending
    PROVE  GitType' /\ History'
<1>1. commits' = (commits \ {commit}) \cup {next}
  BY DEF Gives
<1>2. GitType'
  BY <1>1 DEF GitType, Commits
<1>3. \A p \in Path : (\E c \in commits : p \in c.batch) => \E c \in commits' : p \in c.batch
  BY <1>1
<1>4. History'
  BY <1>3 DEF History, isDisposed
<1> QED
  BY <1>2, <1>4

\* A batch that is over has been committed or is dropped.
LEMMA OverStep ==
    ASSUME GitType, History, NEW commit \in commits, Over(commit),
           head' \in [Path -> Nat], index' \subseteq Path, dropped' \subseteq Path,
           missed' \subseteq Path, UNCHANGED <<git, events, dirty, timer>>,
           \A p \in Path \ commit.batch :
               head'[p] = head[p] /\ (p \in dropped \cup missed => p \in dropped' \cup missed'),
           \A p \in Path \cap commit.batch : head'[p] = disk[p] \/ p \in dropped',
           \A p \in Path : disk'[p] = disk[p], ending' = ending
    PROVE  GitType' /\ History'
<1>1. commits' = commits \ {commit}
  BY DEF Over
<1>2. GitType'
  BY <1>1 DEF GitType
<1>3. History'
  <2> SUFFICES ASSUME git \in {"starting", "on"}, ~isDisposed, NEW p \in Path
               PROVE  \/ head'[p] = disk[p]
                      \/ p \in dropped' \cup missed' \cup events \cup dirty
                      \/ \E c \in commits \ {commit} : p \in c.batch
    BY <1>1 DEF History, isDisposed
  <2> QED
    BY DEF History
<1> QED
  BY <1>2, <1>3

\* What a step of a batch tracks are files.
LEMMA TracksIs ==
    ASSUME GitType, NEW batch \in SUBSET Path, Tracks(batch)
    PROVE  index' \subseteq Path
BY DEF GitType, Tracks

\* The watcher, the timer and the git commands.
LEMMA AutosavesStep ==
    ASSUME ExportType, GitType, History, Autosaves
    PROVE  GitType' /\ History'
<1>1. ending' = ending /\ disk' = disk
  BY DEF Autosaves, exportVars
<1>2. CASE ensureEnabled
  BY <1>1, <1>2 DEF ensureEnabled, GitType, History, isDisposed
<1>3. ASSUME NEW p \in events, Reported(p) PROVE GitType' /\ History'
  <2>1. p \in Path
    BY <1>3 DEF GitType
  <2>2. GitType'
    BY <1>3, <2>1 DEF Reported, GitType
  <2>3. History'
    BY <1>1, <1>3 DEF Reported, History, isDisposed
  <2> QED
    BY <2>2, <2>3
<1>4. CASE stageAndCommit
  <2>1. PICK new : new = [batch |-> dirty, retried |-> FALSE, added |-> FALSE]
    OBVIOUS
  <2>2. new \in Commits /\ new.batch = dirty
    BY <2>1 DEF Commits, GitType
  <2>3. /\ timer' = FALSE /\ dirty' = {} /\ commits' = commits \cup {new}
        /\ UNCHANGED <<git, events, index, head, dropped, missed>>
    BY <1>4, <2>1 DEF stageAndCommit
  <2>4. GitType'
    BY <2>2, <2>3 DEF GitType, Commits
  <2>5. History'
    BY <1>1, <2>2, <2>3 DEF History, isDisposed
  <2> QED
    BY <2>4, <2>5
<1>5. ASSUME NEW commit \in commits, Added(commit) PROVE GitType' /\ History'
  <2>1. commit \in Commits /\ commit.batch \in SUBSET Path
    BY <1>5 DEF GitType, Commits
  <2>2. CASE commit.batch \subseteq index \cup OnDisk
    <3>1. PICK next : next = [commit EXCEPT !.added = TRUE]
      OBVIOUS
    <3>2. next \in Commits /\ next.batch = commit.batch
      BY <2>1, <3>1 DEF Commits
    <3>3. /\ Gives(commit, next) /\ index' \subseteq Path
          /\ UNCHANGED <<git, events, dirty, timer, head, dropped, missed>>
      BY <1>5, <2>1, <2>2, <3>1, TracksIs DEF Added
    <3> QED
      BY <1>1, <3>2, <3>3, GivesStep
  <2>3. CASE ~(commit.batch \subseteq index \cup OnDisk)
    <3>1. /\ Over(commit) /\ dropped' = dropped \cup commit.batch
          /\ UNCHANGED <<git, events, dirty, timer, index, head, missed>>
      BY <1>5, <2>3 DEF Added
    <3> QED
      BY <1>1, <2>1, <3>1, OverStep DEF GitType
  <2> QED
    BY <2>2, <2>3
<1>6. ASSUME NEW commit \in commits, Committed(commit) PROVE GitType' /\ History'
  <2>1. commit.batch \in SUBSET Path
    BY <1>6 DEF GitType
  <2>2. /\ Over(commit) /\ index' \subseteq Path
        /\ dropped' = dropped \ commit.batch /\ missed' = missed \ commit.batch
        /\ head' = [p \in Path |-> IF p \in commit.batch THEN disk[p] ELSE head[p]]
        /\ UNCHANGED <<git, events, dirty, timer>>
    BY <1>6, <2>1, TracksIs DEF Committed
  <2>3. head' \in [Path -> Nat]
    BY <2>2 DEF ExportType, GitType
  <2> QED
    BY <1>1, <2>1, <2>2, <2>3, OverStep DEF GitType
<1> QED
  BY <1>2, <1>3, <1>4, <1>5, <1>6 DEF Autosaves

\* A git command that fails.
LEMMA GitFailsStep == ASSUME GitType, History, GitFails PROVE GitType' /\ History'
<1>1. ending' = ending /\ disk' = disk
  BY DEF GitFails
<1>2. ASSUME NEW commit \in commits, Locked(commit) PROVE GitType' /\ History'
  <2>1. commit \in Commits /\ commit.batch \in SUBSET Path
    BY <1>2 DEF GitType, Commits
  <2>2. CASE commit.retried
    <3>1. /\ Over(commit) /\ dropped' = dropped \cup commit.batch
          /\ UNCHANGED <<git, events, dirty, timer, index, head, missed>>
      BY <1>2, <2>2 DEF Locked
    <3> QED
      BY <1>1, <2>1, <3>1, OverStep DEF GitType
  <2>3. CASE ~commit.retried
    <3>1. PICK next : next = [commit EXCEPT !.retried = TRUE, !.added = FALSE]
      OBVIOUS
    <3>2. next \in Commits /\ next.batch = commit.batch
      BY <2>1, <3>1 DEF Commits
    <3>3. /\ Gives(commit, next)
          /\ UNCHANGED <<git, events, dirty, timer, index, head, dropped, missed>>
      BY <1>2, <2>3, <3>1 DEF Locked
    <3> QED
      BY <1>1, <3>2, <3>3, GivesStep DEF GitType
  <2> QED
    BY <2>2, <2>3
<1>3. ASSUME NEW commit \in commits, CommitFails(commit) PROVE GitType' /\ History'
  <2>1. /\ Over(commit) /\ dropped' = dropped \cup commit.batch
        /\ UNCHANGED <<git, events, dirty, timer, index, head, missed>>
    BY <1>3 DEF CommitFails
  <2>2. commit.batch \in SUBSET Path
    BY <1>3 DEF GitType
  <2> QED
    BY <1>1, <2>1, <2>2, OverStep DEF GitType
<1>4. ASSUME NEW p \in events, Unnamed(p) PROVE GitType' /\ History'
  <2>1. p \in Path
    BY <1>4 DEF GitType
  <2>2. GitType'
    BY <1>4, <2>1 DEF Unnamed, GitType
  <2>3. History'
    BY <1>1, <1>4 DEF Unnamed, History, isDisposed
  <2> QED
    BY <2>2, <2>3
<1> QED
  BY <1>2, <1>3, <1>4 DEF GitFails

\* Every step of the mount keeps the history as it is to be.
LEMMA HistoryKept ==
    ASSUME ExportType, GitType, History, [Next]_vars
    PROVE  GitType' /\ History'
<1>1. CASE Table
  <2>1. UNCHANGED gitVars /\ disk' = disk /\ ending' = ending
    BY <1>1 DEF Table, Edit
  <2> QED
    BY <2>1 DEF gitVars, GitType, History, isDisposed
<1>2. CASE Exports
  <2>1. ~isDisposed' => ~isDisposed
    BY <1>2 DEF Exports, ExportWork, ExportFails, FlushBegins, Drained, NextRow, Rendered,
                Unlinked, Written, Finished, Lists, Sweeps, Clears, RebuildWrites, RebuildBegins,
                RenderFails, WriteFails, RebuildRenderFails, isDisposed
  <2> QED
    BY <1>2, <2>1, FilesChangeStep DEF Exports
<1>3. CASE Disposes
  <2>1. isDisposed'
    BY <1>3 DEF Disposes, ExportDisposes, isDisposed
  <2>2. GitType'
    BY <1>3 DEF Disposes, GitDisposes, GitType
  <2> QED
    BY <2>1, <2>2 DEF History
<1>4. CASE Autosaves
  BY <1>4, AutosavesStep
<1>5. CASE GitFails
  BY <1>5, GitFailsStep
<1>6. CASE UNCHANGED vars
  BY <1>6 DEF vars, exportVars, gitVars, GitType, History, isDisposed
<1> QED
  BY <1>1, <1>2, <1>3, <1>4, <1>5, <1>6 DEF Next

-----------------------------------------------------------------------------
(* The theorems                                                            *)

MountInv == ExportInv /\ GitType /\ History

\* The inductive invariant.
LEMMA Invariant == Spec => []MountInv
<1>1. Init => MountInv
  BY ExportInitially, GitInitially DEF Init, MountInv
<1>2. MountInv /\ [Next]_vars => MountInv'
  BY ExportKept, HistoryKept DEF MountInv, ExportInv
<1> QED
  BY <1>1, <1>2, PTL DEF Spec

\* Every variable keeps to its type: a piece of work holds a row of its table under a
\* title that row may have, and a batch of the autosave holds files of the export.
THEOREM TypeCorrect == Spec => []TypeInv
<1>1. MountInv => TypeInv
  BY DEF MountInv, ExportInv, TypeInv
<1> QED
  BY <1>1, Invariant, PTL

\* With no work under way and no flush to come, a row that was not left blurred has
\* its file, under its title and as the row is now; another file of this session is
\* one whose remove failed.
LEMMA IdleFilesExact ==
    ASSUME ExportInv, ~FlushComes, jobs = {}
    PROVE  FilesExact
<1> SUFFICES ASSUME NEW r \in Row \ blurred, NEW t \in Titles[r]
             PROVE  IF table[r] # Gone /\ table[r][1] = t
                    THEN disk[<<r, t>>] = table[r][2]
                    ELSE Leftover(<<r, t>>)
  BY DEF FilesExact
<1>1. Before(r) /\ Free(r) /\ ~Queued(r)
  BY DEF Before, Free, Queued
<1>2. Match(r, table[r])
  BY <1>1 DEF ExportInv, RowInv, Shown, Exported
<1> QED
  BY <1>2 DEF Match

\* Whenever the batches, the flush and the rebuilds have ended, a row has its file,
\* under its title and as the row is now, whichever way the awaits of export.ts
\* interleaved, and no other file of this session.  Two things are excepted: the rows
\* left blurred, by work that overlapped, failed or fell before the observer, until a
\* batch, a flush or a rebuild has them alone; and the files whose remove failed,
\* which the export has forgotten.
THEOREM FilesSettleExact == Spec => []SettledFilesExact
<1>1. MountInv => SettledFilesExact
  <2> SUFFICES ASSUME MountInv, stage = "observing", jobs = {} PROVE FilesExact
    BY DEF SettledFilesExact
  <2> QED
    BY IdleFilesExact DEF MountInv, FlushComes
<1> QED
  BY <1>1, Invariant, PTL

\* A disposal whose drain ran to its end has waited for the initial flush and for every
\* batch.  Unless a rebuild, which it does not await, is under way, what it leaves in the
\* directory is exact, but for the rows left blurred and the files whose remove failed.
THEOREM DrainLeavesExact == Spec => []DrainedFilesExact
<1>1. MountInv => DrainedFilesExact
  <2> SUFFICES ASSUME MountInv, ending = "done", ~late, \A job \in jobs : job.kind # "rebuild"
               PROVE  FilesExact
    BY DEF DrainedFilesExact
  <2>1. ~FlushComes /\ jobs = {}
    BY DEF MountInv, ExportInv, Stages
  <2> QED
    BY <2>1, IdleFilesExact DEF MountInv
<1> QED
  BY <1>1, Invariant, PTL

\* With nothing reported, marked or under way, the last commit of git-autosave.ts holds
\* the files as they are: no change that the watcher marked falls between the timer and
\* the batches.  Excepted are the files of a batch that was dropped, and those whose
\* change was not marked: what differed from the history at first, what changed before
\* the watcher ran, and what an event did not name.
THEOREM HistorySettlesExact == Spec => []SettledHistoryExact
<1>1. MountInv => SettledHistoryExact
  BY DEF MountInv, History, SettledHistoryExact
<1> QED
  BY <1>1, Invariant, PTL

=============================================================================
