------------------------------- MODULE LocalDocs -------------------------------
(***************************************************************************)
(* The documents a browser tab keeps of one workspace: the root document,  *)
(* and one body document per row opened through a refcounted cache with a  *)
(* grace period (workspace.ts connect and connectTableChildDocs over       *)
(* cache/disposable-cache.ts), each with its IndexedDB connection          *)
(* (attach-indexed-db.ts), and the wipe that deletes the databases while   *)
(* other tabs may hold them open (wipe-local-storage.ts).                  *)
(*                                                                         *)
(* A document is told by its tab, its database and its number there; a     *)
(* reloaded page starts counting anew.  What IndexedDB itself does (opens, *)
(* closes, deletions in the order asked for) is external, and so is the    *)
(* teardown of the root's relay connection (SyncSupervisor).               *)
(***************************************************************************)
EXTENDS Naturals, Sequences, FiniteSets

CONSTANTS
    Tab,
    Wiper,        \* the tabs that may wipe
    Row,
    Root,         \* the database of the root document
    BodiesOf,     \* bound: per tab, documents of one row built in one page
    MaxBodies,    \* bound: the largest of them
    MaxHandles,   \* bound: handles held on one body
    MaxReloads    \* bound: reloads of a page

ASSUME LocalDocsAssumption ==
    /\ Wiper \subseteq Tab
    /\ Root \notin Row
    /\ {MaxBodies, MaxHandles} \subseteq Nat \ {0}
    /\ BodiesOf \in [Tab -> 0..MaxBodies]
    /\ MaxReloads \in Nat

VARIABLES
    docs,       \* per tab and database, the documents this page built
    cache,      \* entries: per tab and row, the number of the cached document, 0 if none
    closing,    \* the tabs whose relay connection, destroyed with the root, has not
                \* ended: collaboration.whenDisposed is pending
    wipe,       \* per tab: "none", "draining", "deleting" or "done"
    awaiting,   \* the documents whose whenDisposed a wipe waits for
    deleting,   \* per database, the tabs that asked for its deletion
    stored,     \* the databases that exist
    reloads,    \* reloads so far
    evicted     \* the tabs about to reload

vars == <<docs, cache, closing, wipe, awaiting, deleting, stored, reloads, evicted>>

Db == Row \cup {Root}

\* count is the entry's openCount, held the handles not yet disposed; ahead,
\* the deletions asked for before this open; late, history: built when the
\* root was destroyed already, which nothing prevents.
Built(ahead, late) ==
    [conn |-> "opening", ahead |-> ahead, torndown |-> FALSE, destroyed |-> FALSE,
     count |-> 0, held |-> 0, armed |-> FALSE, late |-> late]

Page(ahead) == [d \in Db |-> IF d = Root THEN <<Built(ahead, FALSE)>> ELSE <<>>]
NoEntries == [r \in Row |-> 0]

\* Every document the page built so far.
Family(t) == {a \in Db \X (1..MaxBodies) : a[2] \in DOMAIN docs[t][a[1]]}
Set(t, d, g, doc) == docs' = [docs EXCEPT ![t][d][g] = doc]

IsOpen(t) == docs[t][Root] # <<>>
RootLive(t) == IsOpen(t) /\ ~docs[t][Root][1].destroyed

Init ==
    /\ docs = [t \in Tab |-> Page({})]
    /\ cache = [t \in Tab |-> NoEntries]
    /\ closing = {}
    /\ wipe = [t \in Tab |-> "none"]
    /\ awaiting = [t \in Tab |-> {}]
    /\ deleting = [d \in Db |-> {}]
    /\ stored \in {{}, Db}
    /\ reloads = [t \in Tab |-> 0]
    /\ evicted = {}

-----------------------------------------------------------------------------
(* The cache of bodies                                                     *)

\* ydoc.destroy: the attachment is torn down in the same call.
Destroyed(doc) == [doc EXCEPT !.destroyed = TRUE, !.torndown = TRUE, !.armed = FALSE]

\* Bug: a reopen leaves the grace timer running.
Reopened_TimerRuns(doc) == [doc EXCEPT !.count = @ + 1, !.held = @ + 1]

Reopened(doc) == [doc EXCEPT !.count = @ + 1, !.held = @ + 1, !.armed = FALSE]

open(t, r) ==
    /\ IsOpen(t)
    /\ LET g == cache[t][r]
       IN  IF g = 0
           THEN /\ Len(docs[t][r]) < BodiesOf[t]
                /\ docs' = [docs EXCEPT ![t][r] =
                               Append(@, Reopened(Built(deleting[r], ~RootLive(t))))]
                /\ cache' = [cache EXCEPT ![t][r] = Len(docs'[t][r])]
           ELSE /\ docs[t][r][g].held < MaxHandles
                /\ Set(t, r, g, Reopened(docs[t][r][g]))
                /\ UNCHANGED cache
    /\ UNCHANGED <<closing, wipe, awaiting, deleting, stored, reloads, evicted>>

\* Bug: the last release never arms the timer.
Released_NoTimer(doc) ==
    IF doc.destroyed THEN [doc EXCEPT !.held = @ - 1]
    ELSE [doc EXCEPT !.held = @ - 1, !.count = @ - 1]

Released(doc) ==
    IF doc.destroyed THEN [doc EXCEPT !.held = @ - 1]
    ELSE [doc EXCEPT !.held = @ - 1, !.count = @ - 1, !.armed = doc.count = 1]

\* Bug: the entry leaves the map when its grace period begins.
Release_DropsEntry(t, r, g) ==
    /\ g \in DOMAIN docs[t][r] /\ docs[t][r][g].held > 0
    /\ Set(t, r, g, Released(docs[t][r][g]))
    /\ cache' = IF docs[t][r][g].count = 1 THEN [cache EXCEPT ![t][r] = 0] ELSE cache
    /\ UNCHANGED <<closing, wipe, awaiting, deleting, stored, reloads, evicted>>

\* The handle's own dispose, which runs once per handle.
Release(t, r, g) ==
    /\ g \in DOMAIN docs[t][r] /\ docs[t][r][g].held > 0
    /\ Set(t, r, g, Released(docs[t][r][g]))
    /\ UNCHANGED <<cache, closing, wipe, awaiting, deleting, stored, reloads, evicted>>

\* The grace period ends: disposeEntry.
GraceEnds(t, r, g) ==
    /\ g \in DOMAIN docs[t][r] /\ docs[t][r][g].armed
    /\ Set(t, r, g, Destroyed(docs[t][r][g]))
    /\ cache' = IF cache[t][r] = g THEN [cache EXCEPT ![t][r] = 0] ELSE cache
    /\ UNCHANGED <<closing, wipe, awaiting, deleting, stored, reloads, evicted>>

\* The root's destroy and, through it, the disposal of the cache; once.  Without a
\* relay, or a socket of it, nothing is left to close; only a wipe waits for it.
DisposeWorkspace(t) ==
    /\ docs' = [docs EXCEPT ![t] = [d \in Db |-> [g \in DOMAIN docs[t][d] |->
                   IF d = Root \/ cache[t][d] = g
                   THEN Destroyed(docs[t][d][g]) ELSE docs[t][d][g]]]]
    /\ cache' = [cache EXCEPT ![t] = NoEntries]
    /\ closing' \in {closing, closing \cup ({t} \cap Wiper)}

\* The collaboration.whenDisposed of a destroyed root resolves: its supervisor is
\* done, which takes the close event of its socket.
RelayCloses(t) ==
    /\ t \in closing
    /\ closing' = closing \ {t}
    /\ UNCHANGED <<docs, cache, wipe, awaiting, deleting, stored, reloads, evicted>>

Dispose(t) ==
    /\ RootLive(t)
    /\ DisposeWorkspace(t)
    /\ UNCHANGED <<wipe, awaiting, deleting, stored, reloads, evicted>>

-----------------------------------------------------------------------------
(* The wipe                                                                *)

\* Bug: only the root's storage is waited for.
Wipe_RootOnly(t) ==
    /\ t \in Wiper
    /\ IsOpen(t) /\ wipe[t] = "none"
    /\ IF RootLive(t) THEN DisposeWorkspace(t) ELSE UNCHANGED <<docs, cache, closing>>
    /\ wipe' = [wipe EXCEPT ![t] = "draining"]
    /\ awaiting' = [awaiting EXCEPT ![t] = {<<Root, 1>>}]
    /\ UNCHANGED <<deleting, stored, reloads, evicted>>

\* wipe: dispose, then wait for the storage of every document opened so far, and
\* for the relay of the root.
Wipe(t) ==
    /\ t \in Wiper
    /\ IsOpen(t) /\ wipe[t] = "none"
    /\ IF RootLive(t) THEN DisposeWorkspace(t) ELSE UNCHANGED <<docs, cache, closing>>
    /\ wipe' = [wipe EXCEPT ![t] = "draining"]
    /\ awaiting' = [awaiting EXCEPT ![t] = Family(t)]
    /\ UNCHANGED <<deleting, stored, reloads, evicted>>

\* The databases are listed and the deletion of each asked for.
WipeDeletes(t) ==
    /\ wipe[t] = "draining"
    /\ \A a \in awaiting[t] : docs[t][a[1]][a[2]].conn = "closed"
    /\ t \notin closing
    /\ deleting' = [d \in Db |-> IF d \in stored THEN deleting[d] \cup {t} ELSE deleting[d]]
    /\ wipe' = [wipe EXCEPT ![t] = IF stored = {} THEN "done" ELSE "deleting"]
    /\ UNCHANGED <<docs, cache, closing, awaiting, stored, reloads, evicted>>

-----------------------------------------------------------------------------
(* Connections                                                             *)

\* The open succeeds, behind the deletions asked for earlier.
Opened(t, d, g) ==
    /\ docs[t][d][g].conn = "opening" /\ docs[t][d][g].ahead = {}
    /\ Set(t, d, g, [docs[t][d][g] EXCEPT !.conn = "loading"])
    /\ stored' = stored \cup {d}
    /\ UNCHANGED <<cache, closing, wipe, awaiting, deleting, reloads, evicted>>

\* whenSynced: the stored updates are in the document and the eviction guard
\* replaces the handler of lib0.
Loaded(t, d, g) ==
    /\ docs[t][d][g].conn = "loading" /\ ~docs[t][d][g].torndown
    /\ Set(t, d, g, [docs[t][d][g] EXCEPT !.conn = "open"])
    /\ UNCHANGED <<cache, closing, wipe, awaiting, deleting, stored, reloads, evicted>>

\* teardown ends: the connection is closed and whenDisposed resolves.
Closed(t, d, g) ==
    /\ docs[t][d][g].torndown /\ docs[t][d][g].conn \in {"loading", "open", "lost"}
    /\ Set(t, d, g, [docs[t][d][g] EXCEPT !.conn = "closed"])
    /\ UNCHANGED <<cache, closing, wipe, awaiting, deleting, stored, reloads, evicted>>

\* Bug: the guard replaces the handler of lib0 and does nothing.
VersionChange_Ignored(t, d, g) ==
    /\ deleting[d] # {}
    /\ docs[t][d][g].conn = "loading"
    /\ Set(t, d, g, [docs[t][d][g] EXCEPT !.conn = "lost"])
    /\ UNCHANGED <<cache, closing, wipe, awaiting, deleting, stored, reloads, evicted>>

\* A deletion asks this connection to close.  Before whenSynced, the handler of
\* lib0 closes it under a document that goes on; then the guard tears the
\* attachment down and reloads the page, unless a teardown is under way.
VersionChange(t, d, g) ==
    /\ deleting[d] # {}
    /\ LET doc == docs[t][d][g]
       IN  \/ /\ doc.conn = "loading"
              /\ Set(t, d, g, [doc EXCEPT !.conn = "lost"])
              /\ UNCHANGED evicted
           \/ /\ doc.conn = "open" /\ ~doc.torndown
              /\ Set(t, d, g, [doc EXCEPT !.torndown = TRUE])
              /\ evicted' = evicted \cup {t}
    /\ UNCHANGED <<cache, closing, wipe, awaiting, deleting, stored, reloads>>

\* The deletion of t is done once no connection asked for before it is left.
Deleted(t, d) ==
    /\ t \in deleting[d]
    /\ \A u \in Tab : \A g \in DOMAIN docs[u][d] :
          docs[u][d][g].conn \in {"opening", "loading", "open"} => t \in docs[u][d][g].ahead
    /\ deleting' = [deleting EXCEPT ![d] = @ \ {t}]
    /\ stored' = stored \ {d}
    /\ docs' = [u \in Tab |-> [docs[u] EXCEPT ![d] = [g \in DOMAIN docs[u][d] |->
                   [docs[u][d][g] EXCEPT !.ahead = @ \ {t}]]]]
    /\ wipe' = IF wipe[t] = "deleting" /\ \A e \in Db : t \notin deleting'[e]
               THEN [wipe EXCEPT ![t] = "done"] ELSE wipe
    /\ UNCHANGED <<cache, closing, awaiting, reloads, evicted>>

\* reloadOnEviction takes effect; behind the bound, the tab is closed.
Reload(t) ==
    /\ t \in evicted
    /\ evicted' = evicted \ {t}
    /\ IF reloads[t] < MaxReloads
       THEN /\ docs' = [docs EXCEPT ![t] = Page(deleting[Root])]
            /\ reloads' = [reloads EXCEPT ![t] = @ + 1]
       ELSE /\ docs' = [docs EXCEPT ![t] = [d \in Db |-> <<>>]]
            /\ UNCHANGED reloads
    /\ closing' = closing \ {t}
    /\ cache' = [cache EXCEPT ![t] = NoEntries]
    /\ wipe' = [wipe EXCEPT ![t] = "none"]
    /\ awaiting' = [awaiting EXCEPT ![t] = {}]
    /\ UNCHANGED <<deleting, stored>>

-----------------------------------------------------------------------------
Connection ==
    \E t \in Tab : \E d \in Db : \E g \in DOMAIN docs[t][d] :
        Opened(t, d, g) \/ Loaded(t, d, g) \/ Closed(t, d, g) \/ VersionChange(t, d, g)

\* What happens without the user.
Progress ==
    \/ Connection
    \/ \E t \in Tab :
          \/ WipeDeletes(t) \/ Reload(t)
          \/ \E d \in Db : Deleted(t, d)
          \/ \E r \in Row : \E g \in 1..MaxBodies : GraceEnds(t, r, g)

Next ==
    \/ Progress
    \/ \E t \in Tab :
          \/ Dispose(t) \/ Wipe(t) \/ RelayCloses(t)
          \/ \E r \in Row : open(t, r) \/ \E g \in 1..MaxBodies : Release(t, r, g)

Spec == Init /\ [][Next]_vars

\* Within the bounds only finitely many steps of Progress can be taken, so one
\* weak fairness condition is as strong as one for each of them: IndexedDB
\* settles its requests, timers and promises run, a reload happens.  That the
\* relay's socket gets its close event is not assumed.
FairSpec == Spec /\ WF_vars(Progress)

-----------------------------------------------------------------------------
(* Properties                                                              *)

\* While the workspace is live, a body somebody holds a handle of is not
\* destroyed under them, whatever other handles, timers and reopens do.
HeldBodyLives ==
    \A t \in Tab : RootLive(t) =>
        \A r \in Row : \A g \in DOMAIN docs[t][r] :
            docs[t][r][g].held > 0 => ~docs[t][r][g].destroyed

\* All users of a row share one document: a page never has two live ones, whose
\* edits would meet only through storage ("same rowId -> one shared Y.Doc").
OneLiveBody ==
    \A t \in Tab : \A r \in Row :
        Cardinality({g \in DOMAIN docs[t][r] : ~docs[t][r][g].destroyed}) <= 1

\* A wipe deletes databases only when no document its page had opened while the
\* workspace was live has them open: it never evicts or blocks itself over one.
WipeWaitsForOwn ==
    \A t \in Tab : wipe[t] \in {"deleting", "done"} =>
        \A d \in Db : \A g \in DOMAIN docs[t][d] :
            ~docs[t][d][g].late => docs[t][d][g].conn = "closed"

\* A wipe ends, or its page is reloaded: every database connection that stands in
\* its way, of this tab or another, is told and gives way.  Two things keep it:
\* a body opened between a dispose and the wipe, which nothing destroys, and, when
\* signed in, a teardown of the relay's socket that hangs (DisposeCompletes of
\* SyncSupervisor says when), as collaboration.whenDisposed is awaited without a limit.
WipeEnds ==
    \A t \in Wiper :
        LET under == /\ wipe[t] \in {"draining", "deleting"}
                     /\ \A a \in awaiting[t] : ~docs[t][a[1]][a[2]].late
        IN  under ~> (~under \/ [](t \in closing))

\* A body nobody holds is destroyed, or somebody opens it again.
IdleBodyReleased ==
    \A t \in Tab : \A r \in Row : \A g \in 1..MaxBodies :
        LET idle == g \in DOMAIN docs[t][r] /\ ~docs[t][r][g].destroyed /\ docs[t][r][g].held = 0
        IN  idle ~> ~idle

=============================================================================
