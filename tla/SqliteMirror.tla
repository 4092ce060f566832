----------------------------- MODULE SqliteMirror -----------------------------
(***************************************************************************)
(* The SQLite mirror of a workspace table in the daemon                    *)
(* (document/materializer/sqlite/core.ts): an initial load, an observer    *)
(* that collects changed rows, a debounced flush, rebuilds, all through    *)
(* one serial queue of database work, and a bounded drain at disposal.     *)
(*                                                                         *)
(* The code awaits every statement: a step is what runs between two        *)
(* awaits, and the table may change between any two steps.  The rows of a  *)
(* scan are written in any order.                                          *)
(***************************************************************************)
EXTENDS Naturals, Sequences

CONSTANTS
    Row,
    MaxEdits,      \* bound: changes of the table
    MaxRebuilds,   \* bound: calls of rebuild
    MaxFailures    \* bound: statements that throw or hang

ASSUME MirrorAssumption == {MaxEdits, MaxRebuilds, MaxFailures} \subseteq Nat

VARIABLES
    table,       \* the rows of the workspace table; what is unreadable is "gone"
    mirror,      \* the rows of the SQLite table, uncommitted ones included
    saved,       \* what a rollback returns to
    pending,     \* pendingSync
    timer,       \* flushAfterDebounce is armed
    queue,       \* dbQueue: the work under way and behind it what waits
    load,        \* initialize: "gated", "loading", "loaded", "observing", "failed"
    gate,        \* isGateOpen
    drain,       \* disposal: "none", "awaitLoad", "flushing", "settled", "closed"
    late,        \* the drain was given up
    hung,        \* a statement never returns, and no work behind it runs
    excused,     \* history: rows the code leaves stale, see RestingMirrorExact
    spent        \* edits, rebuilds and failures so far

mirrorVars == <<table, mirror, saved, pending, timer, queue, load, gate, drain, late,
                hung, excused, spent>>

\* The agent a row names: this daemon's or another's; or there is no such row.
Value == {"gone", "mine", "other"}

None == <<>>
Job(kind) == [kind |-> kind, begun |-> FALSE, todo |-> {}, item |-> None, was |-> {}]
Enqueue(kind) == queue' = Append(queue, Job(kind))
Front == Head(queue)
Running(kinds) == queue # <<>> /\ Front.kind \in kinds /\ ~hung /\ drain # "closed"
InTransaction == queue # <<>> /\ Front.kind \in {"load", "rebuild"} /\ Front.begun
Step(job) == queue' = <<job>> \o Tail(queue)

isDisposed == drain # "none"
Closed == drain = "closed"

\* A file of an earlier session holds anything; the table is what was replayed.
MirrorInit ==
    /\ table \in [Row -> Value] /\ mirror \in [Row -> Value]
    /\ saved = mirror
    /\ pending = {} /\ timer = FALSE
    /\ queue = <<>>
    /\ load = "gated" /\ gate \in BOOLEAN
    /\ drain = "none" /\ late = FALSE /\ hung = FALSE
    /\ excused = {}
    /\ spent = [edits |-> 0, rebuilds |-> 0, failures |-> 0]

-----------------------------------------------------------------------------
(* The table and the observer                                              *)

\* Bug: no timer is armed while database work is under way.
scheduleSync_WhenIdle(r) ==
    /\ pending' = pending \cup {r}
    /\ timer' = (timer \/ queue = <<>>)

scheduleSync(r) ==
    /\ pending' = pending \cup {r}
    /\ timer' = TRUE

\* A change of the table.  One that falls between the scan of the load and the
\* registration of the observer is seen by neither.
MirrorSees(r, v) ==
    /\ spent.edits < MaxEdits
    /\ spent' = [spent EXCEPT !.edits = @ + 1]
    /\ table[r] # v
    /\ table' = [table EXCEPT ![r] = v]
    /\ IF load = "observing"
       THEN scheduleSync(r) /\ UNCHANGED excused
       ELSE /\ excused' = IF load = "gated" /\ queue = <<>> THEN excused ELSE excused \cup {r}
            /\ UNCHANGED <<pending, timer>>
    /\ UNCHANGED <<mirror, saved, queue, load, gate, drain, late, hung>>

TimerFires ==
    /\ timer
    /\ timer' = FALSE
    /\ Enqueue("flush")
    /\ UNCHANGED <<table, mirror, saved, pending, load, gate, drain, late, hung, excused, spent>>

-----------------------------------------------------------------------------
(* Initial load and rebuild                                                *)

\* initialize behind waitFor.
GateOpens ==
    /\ load = "gated"
    /\ gate' = TRUE
    /\ IF isDisposed /\ ~gate
       THEN load' = "failed" /\ UNCHANGED queue
       ELSE load' = "loading" /\ Enqueue("load")
    /\ UNCHANGED <<table, mirror, saved, pending, timer, drain, late, hung, excused, spent>>

rebuild ==
    /\ ~isDisposed
    /\ spent.rebuilds < MaxRebuilds
    /\ spent' = [spent EXCEPT !.rebuilds = @ + 1]
    /\ Enqueue("rebuild")
    /\ UNCHANGED <<table, mirror, saved, pending, timer, load, gate, drain, late, hung, excused>>

Scan == {<<r, table[r]>> : r \in {s \in Row : table[s] # "gone"}}

\* BEGIN and the scan.  The load only upserts, so a row that vanished while the
\* daemon was down stays in the mirror; a rebuild deletes all rows first, and
\* does nothing when the mirror was disposed while it waited.
BeginLoad ==
    /\ Running({"load", "rebuild"}) /\ ~Front.begun
    /\ IF Front.kind = "rebuild" /\ isDisposed
       THEN queue' = Tail(queue) /\ UNCHANGED <<mirror, saved, excused>>
       ELSE /\ Step([Front EXCEPT !.begun = TRUE, !.todo = Scan, !.was = excused])
            /\ saved' = mirror
            /\ IF Front.kind = "rebuild"
               THEN mirror' = [r \in Row |-> "gone"] /\ excused' = {}
               ELSE /\ excused' = {r \in Row : table[r] = "gone" /\ mirror[r] # "gone"}
                    /\ UNCHANGED mirror
    /\ UNCHANGED <<table, pending, timer, load, gate, drain, late, hung, spent>>

LoadRow ==
    /\ Running({"load", "rebuild"}) /\ Front.begun
    /\ \E row \in Front.todo :
          /\ mirror' = [mirror EXCEPT ![row[1]] = row[2]]
          /\ Step([Front EXCEPT !.todo = @ \ {row}])
    /\ UNCHANGED <<table, saved, pending, timer, load, gate, drain, late, hung, excused, spent>>

Commit ==
    /\ Running({"load", "rebuild"}) /\ Front.begun /\ Front.todo = {}
    /\ queue' = Tail(queue)
    /\ load' = IF Front.kind = "load" THEN "loaded" ELSE load
    /\ UNCHANGED <<table, mirror, saved, pending, timer, gate, drain, late, hung, excused, spent>>

\* initialize behind its load; a mirror disposed meanwhile observes nothing.
Observe ==
    /\ load = "loaded"
    /\ load' = "observing"
    /\ UNCHANGED <<table, mirror, saved, pending, timer, queue, gate, drain, late, hung, excused, spent>>

-----------------------------------------------------------------------------
(* flushPendingSync                                                        *)

BeginFlush ==
    /\ Running({"flush", "drain"}) /\ ~Front.begun
    /\ Step([Front EXCEPT !.begun = TRUE, !.todo = pending])
    /\ pending' = {}
    /\ UNCHANGED <<table, mirror, saved, timer, load, gate, drain, late, hung, excused, spent>>

\* table.get, then the statement that writes what it returned.
FlushReads ==
    /\ Running({"flush", "drain"}) /\ Front.begun /\ Front.item = None
    /\ \E r \in Front.todo :
          Step([Front EXCEPT !.todo = @ \ {r}, !.item = <<r, table[r]>>])
    /\ UNCHANGED <<table, mirror, saved, pending, timer, load, gate, drain, late, hung, excused, spent>>

FlushWrites ==
    /\ Running({"flush", "drain"}) /\ Front.item # None
    /\ mirror' = [mirror EXCEPT ![Front.item[1]] = Front.item[2]]
    /\ excused' = excused \ {Front.item[1]}
    /\ Step([Front EXCEPT !.item = None])
    /\ UNCHANGED <<table, saved, pending, timer, load, gate, drain, late, hung, spent>>

\* The flush a disposal waits for settles it.
Settle == drain' = IF Front.kind = "drain" /\ drain = "flushing" THEN "settled" ELSE drain

\* Bug: the pending rows are cleared once more when the flush is done.
FlushEnds_Clears ==
    /\ Running({"flush", "drain"}) /\ Front.begun /\ Front.item = None /\ Front.todo = {}
    /\ queue' = Tail(queue)
    /\ Settle
    /\ pending' = {}
    /\ UNCHANGED <<table, mirror, saved, timer, load, gate, late, hung, excused, spent>>

FlushEnds ==
    /\ Running({"flush", "drain"}) /\ Front.begun /\ Front.item = None /\ Front.todo = {}
    /\ queue' = Tail(queue)
    /\ Settle
    /\ UNCHANGED <<table, mirror, saved, pending, timer, load, gate, late, hung, excused, spent>>

\* A statement throws: a transaction is rolled back, the rest of a flush lost.
\* A failed load leaves the mirror without an observer.
Throws ==
    /\ Running({"load", "rebuild", "flush", "drain"}) /\ Front.begun
    /\ spent.failures < MaxFailures
    /\ spent' = [spent EXCEPT !.failures = @ + 1]
    /\ queue' = Tail(queue)
    /\ Settle
    /\ \/ /\ Front.kind \in {"load", "rebuild"}
          /\ mirror' = saved
          /\ load' = IF Front.kind = "load" THEN "failed" ELSE load
          /\ excused' = IF Front.kind = "load" THEN Row ELSE excused \cup Front.was
       \/ /\ Front.kind \in {"flush", "drain"}
          /\ excused' = excused \cup Front.todo \cup
                           (IF Front.item = None THEN {} ELSE {Front.item[1]})
          /\ UNCHANGED <<mirror, load>>
    /\ UNCHANGED <<table, saved, pending, timer, gate, late, hung>>

\* A statement never returns.
Hangs ==
    /\ Running({"load", "rebuild", "flush", "drain"}) /\ Front.begun
    /\ spent.failures < MaxFailures
    /\ spent' = [spent EXCEPT !.failures = @ + 1]
    /\ hung' = TRUE
    /\ UNCHANGED <<table, mirror, saved, pending, timer, queue, load, gate, drain, late, excused>>

-----------------------------------------------------------------------------
(* Disposal                                                                *)

\* dispose, with the drain up to its first await.  A mirror whose gate is still
\* closed has loaded nothing, and never will.
MirrorDisposes ==
    /\ ~isDisposed
    /\ timer' = FALSE
    /\ IF gate
       THEN drain' = "awaitLoad" /\ UNCHANGED <<queue, excused>>
       ELSE drain' = "flushing" /\ Enqueue("drain") /\ excused' = Row
    /\ UNCHANGED <<table, mirror, saved, pending, load, gate, late, hung, spent>>

\* Bug: the drain does not wait for the initial load.
DrainFlushes_NoWait ==
    /\ drain = "awaitLoad"
    /\ drain' = "flushing"
    /\ Enqueue("drain")
    /\ UNCHANGED <<table, mirror, saved, pending, timer, load, gate, late, hung, excused, spent>>

\* whenFlushed has settled.
DrainFlushes ==
    /\ drain = "awaitLoad"
    /\ load \in {"observing", "failed"}
    /\ drain' = "flushing"
    /\ Enqueue("drain")
    /\ UNCHANGED <<table, mirror, saved, pending, timer, load, gate, late, hung, excused, spent>>

\* Bug: only the flush is bounded, not the wait for the load before it.
DrainTimesOut_FlushOnly ==
    /\ drain = "flushing"
    /\ drain' = "settled" /\ late' = TRUE
    /\ UNCHANGED <<table, mirror, saved, pending, timer, queue, load, gate, hung, excused, spent>>

\* settledWithin(drain, disposeTimeoutMs).
DrainTimesOut ==
    /\ drain \in {"awaitLoad", "flushing"}
    /\ drain' = "settled" /\ late' = TRUE
    /\ UNCHANGED <<table, mirror, saved, pending, timer, queue, load, gate, hung, excused, spent>>

\* db.close, and whenDisposed resolves.  A transaction under way is lost; what
\* waits in the queue throws.
Closes ==
    /\ drain = "settled"
    /\ drain' = "closed"
    /\ mirror' = IF InTransaction THEN saved ELSE mirror
    /\ UNCHANGED <<table, saved, pending, timer, queue, load, gate, late, hung, excused, spent>>

MirrorWork ==
    \/ GateOpens \/ TimerFires \/ Observe
    \/ BeginLoad \/ LoadRow \/ Commit
    \/ BeginFlush \/ FlushReads \/ FlushWrites \/ FlushEnds
    \/ DrainFlushes \/ Closes

-----------------------------------------------------------------------------
(* Properties                                                              *)

\* With no work left, the mirror shows the table as it is, but for the rows the
\* code leaves stale until they change again or a rebuild: changed between the
\* scan of the load and the observer; gone while the daemon was down; taken by a
\* flush, the drain's own included, and not yet written when a statement of it
\* threw; and all of them when the load failed, or never ran before the disposal.
RestingMirrorExact ==
    load = "observing" /\ ~isDisposed /\ queue = <<>> /\ pending = {} =>
        \A r \in Row \ excused : mirror[r] = table[r]

\* A changed row is mirrored in the end, unless a statement hangs or the load failed.
MirrorConverges ==
    \A r \in Row :
        []<>(\/ mirror[r] = table[r] \/ r \in excused
             \/ hung \/ isDisposed \/ load = "failed")

=============================================================================
