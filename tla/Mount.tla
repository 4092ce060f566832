--------------------------------- MODULE Mount ---------------------------------
(***************************************************************************)
(* A mount of the daemon (document/workspace.ts mount, daemon/             *)
(* attach-mount-infrastructure.ts): a workspace document with the SQLite   *)
(* mirror and the child document worker composed around one table, and the *)
(* disposal that destroys the document and waits for all of them.          *)
(***************************************************************************)
EXTENDS SqliteMirror, ChildDocWorker

VARIABLE root    \* collaboration of the root document: "up", "closing", "gone"

vars == <<mirrorVars, workerVars, root>>

\* connectMountWorkers: the rows bound to this daemon's agent.
isDesignated(rows) == {r \in Row : rows[r] = "mine"}

Init == MirrorInit /\ WorkerInit(isDesignated(table)) /\ root = "up"

\* A change by a peer or by the daemon reaches the observers in one transaction.
Edit ==
    /\ ~isDisposed
    /\ \E r \in Row, v \in Value :
          /\ MirrorSees(r, v)
          /\ reconcile(isDesignated(table'), spent'.edits)
    /\ UNCHANGED root

Mirrors == MirrorWork /\ UNCHANGED <<workerVars, root>>
Rebuilds == rebuild /\ UNCHANGED <<workerVars, root>>
Fails == (Throws \/ Hangs) /\ UNCHANGED <<workerVars, root>>
GivesUp == DrainTimesOut /\ UNCHANGED <<workerVars, root>>

\* [Symbol.asyncDispose] up to its await: destroy runs every handler at once.
asyncDispose ==
    /\ root = "up" /\ root' = "closing"
    /\ MirrorDisposes
    /\ WorkerDisposes

BodyCloses == (\E body \in closing \cup draining : BodyGone(body)) /\ UNCHANGED <<mirrorVars, root>>

RootCloses ==
    /\ root = "closing" /\ root' = "gone"
    /\ UNCHANGED <<mirrorVars, workerVars>>

\* The await of asyncDispose: collaboration and every registered drain.
Disposed == root = "gone" /\ Closed /\ WorkerDrained

Next ==
    \/ Edit \/ Mirrors \/ Rebuilds \/ Fails \/ GivesUp
    \/ asyncDispose \/ BodyCloses \/ RootCloses

Spec == Init /\ [][Next]_vars

\* Promises and timers run, waitFor resolves, and a closing socket is closed in
\* the end; nothing forces an edit, a rebuild, a failure or the disposal.
Fairness == WF_vars(Mirrors) /\ WF_vars(GivesUp) /\ WF_vars(BodyCloses) /\ WF_vars(RootCloses)

FairSpec == Spec /\ Fairness

-----------------------------------------------------------------------------
(* Properties                                                              *)

\* A shutdown drops nothing else: unless the drain was given up, the file is as
\* the table was, but for the rows listed at RestingMirrorExact (those lost with
\* a statement that threw, in the drain's own flush too), and no body the shutdown
\* found connected is still closing.  A body that was already closing with its row
\* is not waited for.
DrainedAtShutdown ==
    Disposed =>
        /\ late \/ \A r \in Row \ excused : mirror[r] = table[r]
        /\ owed \cap (closing \cup draining) = {}

\* A disposal ends, although a statement hangs.
DisposalEnds == (root = "closing") ~> Disposed

=============================================================================
