------------------------------ MODULE GitAutosave ------------------------------
(***************************************************************************)
(* The markdown export of a mount with the autosave of its directory       *)
(* (daemon/mount-runtime.ts attachMountMarkdown, markdown/git-autosave.ts):*)
(* a watcher marks changed files, a timer takes the marked files as a      *)
(* batch, and the batch is added and committed.  Batches may overlap.      *)
(*                                                                         *)
(* The quiet and the longest wait are armed and cleared together: without  *)
(* a clock they are one timer.                                             *)
(***************************************************************************)
EXTENDS MarkdownExport

VARIABLES
    git,        \* "none": not configured; "starting", then "on" or "off"
    events,     \* changed files the watcher has not reported yet
    dirty,      \* changed files the next batch takes
    timer,      \* a batch will be taken
    commits,    \* batches under way
    index,      \* files git tracks
    head,       \* the files of the last commit
    dropped,    \* history: files of a batch that was dropped
    missed      \* history: files whose change the watcher did not mark

gitVars == <<git, events, dirty, timer, commits, index, head, dropped, missed>>
vars == <<exportVars, gitVars>>

\* The history of the directory is of an earlier session; it may miss its last.
GitInit ==
    /\ git \in {"none", "starting"}
    /\ events = {} /\ dirty = {} /\ timer = FALSE
    /\ commits = {}
    /\ head \in [Path -> {Absent, Old}]
    /\ index = {p \in Path : head[p] # Absent}
    /\ dropped = {} /\ missed = {p \in Path : head[p] # disk[p]}

-----------------------------------------------------------------------------
(* The watcher                                                             *)

\* A change of a file, which a watcher that does not run yet misses.
FilesChange ==
    LET changed == {p \in Path : disk'[p] # disk[p]}
    IN  /\ events' = IF git = "on" /\ ~isDisposed THEN events \cup changed ELSE events
        /\ missed' = IF git = "starting" THEN missed \cup changed ELSE missed
        /\ UNCHANGED <<git, dirty, timer, commits, index, head, dropped>>

\* whenWatching: the answer whether this is a repository is kept for good.
ensureEnabled ==
    /\ git = "starting" /\ ~isDisposed
    /\ git' \in {"on", "off"}
    /\ UNCHANGED <<events, dirty, timer, commits, index, head, dropped, missed>>

\* Bug: no timer is armed while a batch is under way.
Reported_WhenIdle(p) ==
    /\ events' = events \ {p}
    /\ dirty' = dirty \cup {p}
    /\ timer' = (timer \/ commits = {})
    /\ UNCHANGED <<git, commits, index, head, dropped, missed>>

\* The callback of the watcher, with schedule.
Reported(p) ==
    /\ events' = events \ {p}
    /\ dirty' = dirty \cup {p}
    /\ timer' = TRUE
    /\ UNCHANGED <<git, commits, index, head, dropped, missed>>

\* An event that does not name its file.
Unnamed(p) ==
    /\ events' = events \ {p}
    /\ missed' = missed \cup {p}
    /\ UNCHANGED <<git, dirty, timer, commits, index, head, dropped>>

-----------------------------------------------------------------------------
(* A batch                                                                 *)

stageAndCommit ==
    /\ timer /\ timer' = FALSE
    /\ dirty' = {}
    /\ commits' = commits \cup {[batch |-> dirty, retried |-> FALSE, added |-> FALSE]}
    /\ UNCHANGED <<git, events, index, head, dropped, missed>>

Over(commit) == commits' = commits \ {commit}
Gives(commit, next) == commits' = (commits \ {commit}) \cup {next}
Tracks(batch) == index' = (index \ batch) \cup (batch \cap OnDisk)

\* git add.  One file that is neither there nor tracked fails them all.
Added(commit) ==
    /\ ~commit.added
    /\ IF commit.batch \subseteq index \cup OnDisk
       THEN /\ Tracks(commit.batch)
            /\ Gives(commit, [commit EXCEPT !.added = TRUE])
            /\ UNCHANGED dropped
       ELSE /\ Over(commit)
            /\ dropped' = dropped \cup commit.batch
            /\ UNCHANGED index
    /\ UNCHANGED <<git, events, dirty, timer, head, missed>>

\* git commit of the named files, as they are now.
Committed(commit) ==
    /\ commit.added
    /\ Over(commit)
    /\ Tracks(commit.batch)
    /\ head' = [p \in Path |-> IF p \in commit.batch THEN disk[p] ELSE head[p]]
    /\ dropped' = dropped \ commit.batch
    /\ missed' = missed \ commit.batch
    /\ UNCHANGED <<git, events, dirty, timer>>

\* Bug: a batch that met the lock is taken for committed.
Locked_NoRetry(commit) ==
    /\ Over(commit)
    /\ UNCHANGED <<git, events, dirty, timer, index, head, dropped, missed>>

\* Another process, or another batch, holds the index: once the batch is tried
\* again from its start, then it is dropped.
Locked(commit) ==
    /\ IF commit.retried
       THEN Over(commit) /\ dropped' = dropped \cup commit.batch
       ELSE Gives(commit, [commit EXCEPT !.retried = TRUE, !.added = FALSE]) /\ UNCHANGED dropped
    /\ UNCHANGED <<git, events, dirty, timer, index, head, missed>>

\* Any other failure drops the batch.
CommitFails(commit) ==
    /\ commit.added
    /\ Over(commit)
    /\ dropped' = dropped \cup commit.batch
    /\ UNCHANGED <<git, events, dirty, timer, index, head, missed>>

\* dispose: what is marked is forgotten, a batch under way goes on.
GitDisposes ==
    /\ events' = {} /\ dirty' = {} /\ timer' = FALSE
    /\ UNCHANGED <<git, commits, index, head, dropped, missed>>

-----------------------------------------------------------------------------
Init == ExportInit /\ GitInit

Table == Edit /\ UNCHANGED gitVars
Exports == (ExportWork \/ RebuildBegins \/ ExportFails) /\ FilesChange
Disposes == ExportDisposes /\ GitDisposes

Autosaves ==
    /\ \/ ensureEnabled
       \/ \E p \in events : Reported(p)
       \/ stageAndCommit
       \/ \E commit \in commits : Added(commit) \/ Committed(commit)
    /\ UNCHANGED exportVars

GitFails ==
    /\ \/ \E p \in events : Unnamed(p) /\ Fail
       \/ \E commit \in commits :
             \/ Locked(commit) /\ (Fail \/ (Cardinality(commits) > 1 /\ UNCHANGED used))
             \/ CommitFails(commit) /\ Fail
    /\ UNCHANGED <<table, disk, fileState, jobs, stage, gate, ending, late, blurred, orphans>>

Next == Table \/ Exports \/ Disposes \/ Autosaves \/ GitFails

Spec == Init /\ [][Next]_vars

\* The watcher reports, timers fire and git commands return.
Fairness == WF_vars(Autosaves)

FairSpec == Spec /\ Fairness

-----------------------------------------------------------------------------
(* Properties                                                              *)

\* With nothing marked and no batch under way the last commit holds the files as
\* they are, but for those of a dropped batch, and those whose change was missed:
\* what was exported before the watcher ran, next to which the initial flush
\* starts, what differed from the history already, and what an event did not name.
\* Nothing commits those before they change again.
SettledHistoryExact ==
    git = "on" /\ ~isDisposed /\ events = {} /\ dirty = {} /\ commits = {} =>
        \A p \in Path \ (dropped \cup missed) : head[p] = disk[p]

\* A change of a file that the watcher marked is committed in the end, unless its
\* batch is dropped.
ChangesCommitted ==
    \A p \in Path :
        []<>(head[p] = disk[p] \/ p \in dropped \cup missed \/ git # "on" \/ isDisposed)

=============================================================================
