---------------------------- MODULE MarkdownExport ----------------------------
(***************************************************************************)
(* The markdown export of a workspace table                                *)
(* (document/materializer/markdown/export.ts): an initial flush, then one  *)
(* batch of writes per change, each batch on its own, rebuilds, and a      *)
(* bounded drain at disposal.                                              *)
(*                                                                         *)
(* A row is exported to a file whose name holds its id and may follow its  *)
(* title.  Rendering and every file operation is awaited: a step is what   *)
(* runs between two awaits, a file operation takes effect in its step, and *)
(* the steps of different pieces of work interleave.                       *)
(***************************************************************************)
EXTENDS Naturals, FiniteSets

CONSTANTS
    Row,
    Titles,        \* Titles[r]: the titles row r may have
    MaxEdits,      \* bound: changes of the table
    MaxRebuilds,   \* bound: calls of rebuild
    MaxFailures    \* bound: renders, writes and removes that fail

ASSUME ExportAssumption == {MaxEdits, MaxRebuilds, MaxFailures} \subseteq Nat

\* The names that stand for no title and no row are none.
ASSUME NamesAssumption ==
    \A r \in Row : "none" \notin Titles[r] /\ r \notin {"none", "sweep", "swept"}

VARIABLES
    table,       \* the rows: Gone, or the title and the content
    disk,        \* the content of the files
    fileState,   \* the title of the file last written for a row, or "none"
    jobs,        \* the pieces of work under way
    stage,       \* initialize: "gated", "flushing", "observing", "failed"
    gate,        \* isGateOpen
    ending,      \* disposal: "none", "draining", "done"
    late,        \* the drain was given up
    blurred,     \* history: rows that may be stale, see FilesExact
    orphans,     \* history: files whose last remove failed
    used         \* edits, rebuilds and failures so far; any number may be left

exportVars == <<table, disk, fileState, jobs, stage, gate, ending, late, blurred,
                orphans, used>>

Path == UNION {{r} \X Titles[r] : r \in Row}

\* Contents are told apart by the change that made them.
Absent == 0      \* no file
Old == 1         \* a file of an earlier session
Content(n) == 2 + n
Gone == <<>>     \* no row
AsRow(r, n) == {Gone} \cup Titles[r] \X {Content(n)}

isDisposed == ending # "none"

OnDisk == {p \in Path : disk[p] # Absent}

\* A piece of work: the rows it has to do, the rows as it scanned them, and the
\* row in hand with what is to be done next for it, or where a rebuild is with
\* the files it listed.
None == [row |-> "none"]
Sweeping(files) == [row |-> "sweep", files |-> files]
Swept == [row |-> "swept"]
At(job, step) == job.cur.row \in Row /\ job.cur.step = step
Job(n, kind, todo) ==
    [n |-> n, kind |-> kind, todo |-> todo, cur |-> None,
     scan |-> IF kind = "batch" THEN None ELSE table,
     was |-> IF kind = "rebuild" THEN blurred ELSE {}]
Present == {r \in Row : table[r] # Gone}

\* The rows whose files a piece of work may touch now.
InHand(job) ==
    CASE job.kind = "rebuild" -> Row
      [] job.kind = "flush"   -> job.todo \cup ({job.cur.row} \cap Row)
      [] OTHER                -> {job.cur.row} \cap Row
AllInHand == UNION {InHand(job) : job \in jobs}
InOtherHands(job) == UNION {InHand(other) : other \in jobs \ {job}}

Becomes(job, next) == jobs' = (jobs \ {job}) \cup {next}
Ends(job) == jobs' = jobs \ {job}
Fail == used.failures < MaxFailures /\ used' = [used EXCEPT !.failures = @ + 1]

\* The directory may hold files of an earlier session, under any title.
ExportInit ==
    /\ table \in [Row -> UNION {AsRow(r, 0) : r \in Row}]
    /\ \A r \in Row : table[r] \in AsRow(r, 0)
    /\ disk \in [Path -> {Absent, Old}]
    /\ fileState = [r \in Row |-> "none"]
    /\ jobs = {}
    /\ stage = "gated" /\ gate \in BOOLEAN
    /\ ending = "none" /\ late = FALSE
    /\ blurred = {} /\ orphans = {}
    /\ used \in [edits : 0 .. MaxEdits, rebuilds : 0 .. MaxRebuilds, failures : 0 .. MaxFailures]

-----------------------------------------------------------------------------
(* Changes and the work they start                                         *)

\* A transaction on the table; the observer starts a batch for its rows.  A
\* change between the scan of the flush and the observer starts nothing.
Edit ==
    /\ ~isDisposed
    /\ used.edits < MaxEdits
    /\ used' = [used EXCEPT !.edits = @ + 1]
    /\ \E rows \in (SUBSET Row) \ {{}} :
          /\ \E new \in [rows -> UNION {AsRow(r, used'.edits) : r \in rows}] :
                /\ \A r \in rows : new[r] \in AsRow(r, used'.edits) \ {table[r]}
                /\ table' = [r \in Row |-> IF r \in rows THEN new[r] ELSE table[r]]
          /\ IF stage = "observing"
             THEN /\ jobs' = jobs \cup {Job(used'.edits, "batch", rows)}
                  /\ UNCHANGED blurred
             ELSE /\ blurred' = blurred \cup rows
                  /\ UNCHANGED jobs
    /\ UNCHANGED <<disk, fileState, stage, gate, ending, late, orphans>>

\* A file that is none of this session, or one that could not be removed.
Leftover(p) == disk[p] \in {Absent, Old} \/ p \in orphans

\* No other file of this session is there under a title that is not the last one.
Tidy(r) == \A t \in Titles[r] \ {fileState[r]} : Leftover(<<r, t>>)

\* initialize behind waitFor; the directory may not be claimed.  The flush brings
\* a row up to date that nobody has in hand, unless a file of it is left behind.
FlushBegins ==
    /\ stage = "gated"
    /\ gate' = TRUE
    /\ \/ /\ isDisposed /\ ~gate
          /\ stage' = "failed"
          /\ UNCHANGED <<jobs, used>>
       \/ /\ gate \/ ~isDisposed
          /\ stage' = "flushing"
          /\ jobs' = jobs \cup {Job(0, "flush", Present)}
          /\ UNCHANGED used
       \/ /\ gate \/ ~isDisposed
          /\ stage' = "failed" /\ Fail
          /\ UNCHANGED jobs
    /\ blurred' = IF stage' = "failed" THEN Row
                  ELSE (blurred \ {r \in Present : Tidy(r)}) \cup AllInHand
    /\ UNCHANGED <<table, disk, fileState, ending, late, orphans>>

\* rebuildTable renders every row of its scan before it touches a file.
RebuildBegins ==
    /\ used.rebuilds < MaxRebuilds
    /\ used' = [used EXCEPT !.rebuilds = @ + 1]
    /\ jobs' = jobs \cup {Job(MaxEdits + 1 + used.rebuilds, "rebuild", Present)}
    /\ blurred' = AllInHand
    /\ UNCHANGED <<table, disk, fileState, stage, gate, ending, late, orphans>>

-----------------------------------------------------------------------------
(* The rows of a piece of work                                             *)

\* What is to be done for a row: the file of its previous title goes first.
Unlinks(r, row) == fileState[r] # "none" /\ (row = Gone \/ fileState[r] # row[1])
InHandAs(r, row, step) ==
    [row |-> r, as |-> row, step |-> step,
     previous |-> IF step = "unlink" THEN fileState[r] ELSE "none"]

\* The next row of a flush as it was scanned, of a batch as it is now: which brings
\* the row up to date, like the flush, if nobody else has it in hand.
NextRow(job) ==
    /\ job.kind # "rebuild" /\ job.cur = None
    /\ \E r \in job.todo :
          LET row == IF job.kind = "flush" THEN job.scan[r] ELSE table[r]
              rest == [job EXCEPT !.todo = @ \ {r}]
              step == IF row # Gone THEN "render" ELSE "unlink"
          IN  /\ Becomes(job, IF row = Gone /\ ~Unlinks(r, row) THEN rest
                              ELSE [rest EXCEPT !.cur = InHandAs(r, row, step)])
              /\ blurred' = IF r \in InOtherHands(job) THEN blurred \cup {r}
                            ELSE IF job.kind = "batch" /\ Tidy(r) THEN blurred \ {r}
                            ELSE blurred
    /\ UNCHANGED <<table, disk, fileState, stage, gate, ending, late, orphans, used>>

\* Bug: the file of the previous title is left behind.
Rendered_NoUnlink(job) ==
    /\ At(job, "render")
    /\ Becomes(job, [job EXCEPT !.cur = InHandAs(@.row, @.as, "write")])
    /\ UNCHANGED <<table, disk, fileState, stage, gate, ending, late, blurred, orphans, used>>

Rendered(job) ==
    /\ At(job, "render")
    /\ LET step == IF Unlinks(job.cur.row, job.cur.as) THEN "unlink" ELSE "write"
       IN  Becomes(job, [job EXCEPT !.cur = InHandAs(@.row, @.as, step)])
    /\ UNCHANGED <<table, disk, fileState, stage, gate, ending, late, blurred, orphans, used>>

\* A row that cannot be rendered keeps the file it has.
RenderFails(job) ==
    /\ At(job, "render")
    /\ Fail
    /\ Becomes(job, [job EXCEPT !.cur = None])
    /\ blurred' = blurred \cup {job.cur.row}
    /\ UNCHANGED <<table, disk, fileState, stage, gate, ending, late, orphans>>

\* tryUnlink ignores a file that is not there, and a remove that failed.
Removes(p) ==
    \/ disk' = [disk EXCEPT ![p] = Absent] /\ orphans' = orphans \ {p} /\ UNCHANGED used
    \/ Fail /\ orphans' = orphans \cup {p} /\ UNCHANGED disk

\* Either way the file is forgotten, or that of the new title is written.
Unlinked(job) ==
    /\ At(job, "unlink")
    /\ Removes(<<job.cur.row, job.cur.previous>>)
    /\ IF job.cur.as = Gone
       THEN /\ fileState' = [fileState EXCEPT ![job.cur.row] = "none"]
            /\ Becomes(job, [job EXCEPT !.cur = None])
       ELSE /\ Becomes(job, [job EXCEPT !.cur = InHandAs(@.row, @.as, "write")])
            /\ UNCHANGED fileState
    /\ UNCHANGED <<table, stage, gate, ending, late, blurred>>

Writes(r, row) ==
    /\ disk' = [disk EXCEPT ![<<r, row[1]>>] = row[2]]
    /\ orphans' = orphans \ {<<r, row[1]>>}
    /\ fileState' = [fileState EXCEPT ![r] = row[1]]

Written(job) ==
    /\ At(job, "write")
    /\ Writes(job.cur.row, job.cur.as)
    /\ Becomes(job, [job EXCEPT !.cur = None])
    /\ UNCHANGED <<table, stage, gate, ending, late, blurred, used>>

\* A write that fails ends the piece of work: what it had left is not done, and
\* after a flush nothing observes the table.
WriteFails(job) ==
    /\ At(job, "write") \/ job.cur = Swept
    /\ Fail
    /\ Ends(job)
    /\ blurred' = IF job.kind = "batch" THEN blurred \cup {job.cur.row} \cup job.todo ELSE Row
    /\ stage' = IF job.kind = "flush" THEN "failed" ELSE stage
    /\ UNCHANGED <<table, disk, fileState, gate, ending, late, orphans>>

\* Nothing is left.  After the flush the table is observed, unless the export was
\* disposed meanwhile.
Finished(job) ==
    /\ job.cur = IF job.kind = "rebuild" THEN Swept ELSE None
    /\ job.todo = {}
    /\ Ends(job)
    /\ stage' = IF job.kind = "flush" THEN "observing" ELSE stage
    /\ UNCHANGED <<table, disk, fileState, gate, ending, late, blurred, orphans, used>>

-----------------------------------------------------------------------------
(* rebuildTable                                                            *)

RebuildRenderFails(job) ==
    /\ job.kind = "rebuild" /\ job.cur = None /\ job.todo # {}
    /\ Fail
    /\ Ends(job)
    /\ blurred' = blurred \cup job.was
    /\ UNCHANGED <<table, disk, fileState, stage, gate, ending, late, orphans>>

\* All is rendered, and the files are listed; a readdir that fails is taken for
\* an empty directory.
Lists(job) ==
    /\ job.kind = "rebuild" /\ job.cur = None
    /\ \/ /\ Becomes(job, [job EXCEPT !.cur = Sweeping(OnDisk)])
          /\ UNCHANGED <<orphans, used>>
       \/ /\ Becomes(job, [job EXCEPT !.cur = Sweeping({})])
          /\ Fail /\ orphans' = orphans \cup OnDisk
    /\ UNCHANGED <<table, disk, fileState, stage, gate, ending, late, blurred>>

\* One file listed goes after the other, if it can be removed.
Sweeps(job) ==
    /\ job.cur.row = "sweep"
    /\ \E p \in job.cur.files :
          /\ Removes(p)
          /\ Becomes(job, [job EXCEPT !.cur = Sweeping(@.files \ {p})])
    /\ UNCHANGED <<table, fileState, stage, gate, ending, late, blurred>>

\* fileState.clear, whatever is left.
Clears(job) ==
    /\ job.cur = Sweeping({})
    /\ fileState' = [r \in Row |-> "none"]
    /\ Becomes(job, [job EXCEPT !.cur = Swept])
    /\ UNCHANGED <<table, disk, stage, gate, ending, late, blurred, orphans, used>>

RebuildWrites(job) ==
    /\ job.cur = Swept
    /\ \E r \in job.todo : Writes(r, job.scan[r]) /\ Becomes(job, [job EXCEPT !.todo = @ \ {r}])
    /\ UNCHANGED <<table, stage, gate, ending, late, blurred, used>>

-----------------------------------------------------------------------------
(* Disposal                                                                *)

\* dispose, in the destruction of the document.
ExportDisposes ==
    /\ ~isDisposed
    /\ ending' = "draining"
    /\ blurred' = IF gate THEN blurred ELSE Row
    /\ UNCHANGED <<table, disk, fileState, jobs, stage, gate, late, orphans, used>>

\* Bug: only the batches are awaited, not the initial flush.
Owed_BatchesOnly == {job \in jobs : job.kind = "batch"} # {}

\* whenFlushed and the batches under way; a rebuild is not tracked.
Owed ==
    \/ \E job \in jobs : job.kind # "rebuild"
    \/ stage = "gated" /\ gate

\* drainPendingWork has settled, or was given up after disposeTimeoutMs.
Drained ==
    /\ ending = "draining"
    /\ ending' = "done"
    /\ late' = Owed
    /\ UNCHANGED <<table, disk, fileState, jobs, stage, gate, blurred, orphans, used>>

ExportWork ==
    \/ FlushBegins \/ Drained
    \/ \E job \in jobs :
          \/ NextRow(job) \/ Rendered(job) \/ Unlinked(job) \/ Written(job) \/ Finished(job)
          \/ Lists(job) \/ Sweeps(job) \/ Clears(job) \/ RebuildWrites(job)

ExportFails == \E job \in jobs : RenderFails(job) \/ WriteFails(job) \/ RebuildRenderFails(job)

-----------------------------------------------------------------------------
(* Properties                                                              *)

\* A row has one file of this session, under its title and as the row is now;
\* another file of it is one whose remove failed.  Left out are the rows the code
\* leaves stale: those two pieces of work had in hand at once, those changed
\* between the scan of the flush and the observer, those a failed render or write
\* left undone, and all after a closed gate or a failed flush or rebuild; until
\* the next change of the row, or a rebuild, brings it up to date again.
FilesExact ==
    \A r \in Row \ blurred : \A t \in Titles[r] :
        IF table[r] # Gone /\ table[r][1] = t
        THEN disk[<<r, t>>] = table[r][2]
        ELSE Leftover(<<r, t>>)

\* With no work left the files are exact.
SettledFilesExact == stage = "observing" /\ jobs = {} => FilesExact

\* A disposal that was not given up, with no rebuild under way, leaves them exact.
DrainedFilesExact ==
    ending = "done" /\ ~late /\ (\A job \in jobs : job.kind # "rebuild") => FilesExact

=============================================================================
