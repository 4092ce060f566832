---------------------------- MODULE ChildDocWorker ----------------------------
(***************************************************************************)
(* The daemon's child document worker (document/child-doc-worker.ts): it   *)
(* hosts one body per row bound to its agent and follows the table.  A     *)
(* body is a row and a stamp that tells it from earlier bodies of the row. *)
(* Its log is closed when it is destroyed; its collaboration ends later.   *)
(***************************************************************************)
EXTENDS Naturals

VARIABLES
    hosted,     \* connected bodies
    closing,    \* bodies destroyed because of their row, whom nobody waits for
    draining,   \* bodies whose teardown the disposal waits for
    stopped,    \* disposed
    owed        \* history: the bodies the disposal found

workerVars == <<hosted, closing, draining, stopped, owed>>

\* Attached before the update log is replayed, which then opens what it shows.
WorkerInit(wanted) ==
    /\ hosted = wanted \X {0}
    /\ closing = {} /\ draining = {} /\ owed = {}
    /\ stopped = FALSE

Kept(wanted) == {body \in hosted : body[1] \in wanted}

\* What is wanted is opened, then what is not is closed.
reconcile(wanted, stamp) ==
    /\ IF stopped
       THEN UNCHANGED <<hosted, closing>>
       ELSE /\ hosted' = Kept(wanted)
                  \cup (wanted \ {body[1] : body \in Kept(wanted)}) \X {stamp}
            /\ closing' = closing \cup (hosted \ Kept(wanted))
    /\ UNCHANGED <<draining, stopped, owed>>

WorkerDisposes ==
    /\ ~stopped
    /\ stopped' = TRUE
    /\ hosted' = {}
    /\ draining' = hosted
    /\ owed' = hosted
    /\ UNCHANGED closing

\* A body's socket is closed.
BodyGone(body) ==
    /\ \/ body \in closing /\ closing' = closing \ {body} /\ UNCHANGED draining
       \/ body \in draining /\ draining' = draining \ {body} /\ UNCHANGED closing
    /\ UNCHANGED <<hosted, stopped, owed>>

\* whenDisposed has resolved.
WorkerDrained == stopped /\ draining = {}

=============================================================================
