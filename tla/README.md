# Whispering / Epicenter: formal models of the local-first core

This directory holds TLA+ specifications of the core of the Epicenter monorepo (the repository of
Whispering): the sync of documents, what a browser tab and the daemon keep of them, and the auth
session their connections use, the TLC configurations that check them and TLAPS proofs about them.
Every definition is read off the source; `PROJECT.json` maps each to its lines.

## 1. Inventory

The applications (Whispering, Opensidian, Honeycrisp, Vocab, ...) share one local-first stack. A
workspace is a Yjs document, its tables are last-writer-wins maps inside it, and the document is
kept in sync through a *room* on a server, which also tells the connected devices of each other.

| component | source | state | operations | what makes it correct |
|---|---|---|---|---|
| room core: presence | `packages/server/src/room/core.ts` | `connections` Map, one debounce timer | add and remove a connection, presence publish, lifetime check, sweep | a live device is never hidden from a peer, a gone one disappears, no socket outlives its lifetime |
| room core: document | same, `packages/sync/src/protocol.ts`, `update-log.ts` (two backends) | `Y.Doc`, update log | STEP1/STEP2/UPDATE, append, fan-out, replay, compaction | nothing acknowledged or shown is lost, replicas converge |
| Durable Object backend | `room/backends/cloudflare/durable-object.ts` | sockets and attachments kept by the runtime, one alarm | fetch, message, close, alarm, constructor | hibernation loses no connection, the alarm is never lost |
| Bun backend | `room/backends/bun/registry.ts` | Map of rooms, eviction timers, sqlite handles | upgrade, open, message, close, evict, sweep | one core and one writer per room, idle rooms go away |
| sync supervisor | `packages/workspace/src/document/internal/sync-supervisor.ts` | status, one cycle and one master `AbortController`, backoff, the socket | attempt, backoff, park, `reconnect()`, destroy | no socket left behind, no hot loop, always trying, teardown ends |
| open collaboration | `.../document/open-collaboration.ts` | peers, composition of the above | peer list, publish, dispose | follows the supervisor and the room |
| y-keyvalue-lww | `.../document/y-keyvalue/y-keyvalue-lww.ts` | Y.Array, index Map, pending writes and deletes | set, bulkSet, delete, bulkDelete, observer | read-your-writes, map = winner, convergence |
| tables, KV, workspaces | `.../document/table.ts`, `kv.ts`, `workspace.ts` | parse caches; the documents of a tab or a mount | row reads and writes; `connect`, `wipe`, `mount`, dispose | typed facade of the former; a wipe and a disposal wait for what is theirs and end |
| child document worker | `.../document/child-doc-worker.ts` | open child documents | open and close with their rows | follows its table |
| local persistence | `.../document/attach-yjs-log.ts`, `attach-indexed-db.ts`, `wipe-local-storage.ts` | sqlite log; IndexedDB connections | append, compact, read; open, close, delete | as the room log; a deletion is not blocked for good |
| disposable cache | `packages/workspace/src/cache/disposable-cache.ts` | reference counts, grace timers | open, dispose, dispose all | one live value per key, built once |
| materializers, git autosave | `.../document/materializer` | queues, dirty sets | write, flush, commit | the last write wins, no batch is lost |
| daemon, mounts | `packages/workspace/src/daemon` | lease file, mounts | start, stop | one daemon per root |
| agent loop | `packages/workspace/src/agent` | messages, pending approvals | turn, tool call, interrupt | every call gets one result |
| client auth | `packages/auth/src` | session, refresh in flight | sign-in, refresh, verify, sign-out | a sign-out is final |
| attach relay | `packages/server/src/attach-relay` | host and guest sockets, grants | attach, relay, revoke | a guest needs a live grant |
| server auth, blobs, billing | `packages/server/src/auth`, `routes`, `apps/api/worker` | rows in external databases | one request, one answer | left to those services |
| encryption, filesystem, CLI, matter | their packages | mostly none | pure functions, indexes | -- |
| desktop (Tauri) | `apps/epicenter/src-tauri` | recorder thread, model cache, keyboard tap | commands | one recording at a time, no model loaded twice |
| Whispering, local mail, local books | their apps | pipelines and mirrors | record, transcribe, sync | -- |

How they interact. A client's supervisor opens a WebSocket to a room route; the backend accepts it
and calls `addConnection` of the room core, which sends a SyncStep1 and the presence list. Binary
frames carry the document both ways, text frames carry presence. Closes reach the core from the
runtime as events, never as return values. In a Durable Object the core's memory may vanish between
any two events, with the sockets kept (hibernation) or not (restart); in a Bun host a timer evicts a
room without sockets. Nothing but the update log and, in a Durable Object, the socket attachments
and the alarm survives.

In a browser tab `connect` puts an IndexedDB connection next to each document, the root one and those
opened per row through the disposable cache; `wipe` closes the tab's own and then deletes the
databases, which other tabs may hold open. In the daemon `mount` puts a log, mirrors (sqlite,
markdown, git) and the child document worker around a document: they follow its table through
observers and are drained when the mount is disposed. Every connection to a server asks the auth
session for its bearer.

What is hard here: the order of joins, hand-offs, closes and timers of several sockets of one
device; the un-awaited alarm check; a document log replayed after losing memory; frames in flight on
two sockets of one client; `reconnect()` and `destroy()` in any await of the supervisor; a timer
between upgrade and open; a grace timer against a reopen and a wipe; a token refresh against a
sign-out; a table that changes while a mirror awaits a statement. `PROJECT.json` lists these as
hazards, at the line where each bites.

## 2. Modules

| module | models | correspondence |
|---|---|---|
| `RoomPresence` | presence and lifetimes of one room core | `connections` is the Map (a socket is its accept number, so numbers give the Map's insertion order, which breaks ties in `snapshotPeers`); `list[s]` is the last presence frame sent to `s`; `pendingRebroadcast` is the armed timer. One action per `addConnection`, `removeConnection` (with the close code), timer, closing frame, publish, sweep. Only 4401 is distinguished among close codes, as in the code |
| `DurableRoom` | the Durable Object around it; EXTENDS `RoomPresence` and conjoins its actions with the object's | `phase` is awake, asleep, or waking while the constructor's loop runs (one `Restore` per iteration, so that peers' lists between iterations are visible); `attachment` is `serializeAttachment`; `ensuring[s]` is where the un-awaited `ensureSweepAlarm` of the fetch of `s` is suspended |
| `BunRooms` | the in-process registry for one room | entries are numbered as they are created so that two entries for one room would be seen; `handles` are open sqlite handles, `held` and `file` the updates in memory and on disk, `answer` the status of the last upgrade (history, read by one property only) |
| `SharedDoc` | abstract: what a synced document promises | `made`, `stored`, `shown` per author, no sockets or memory |
| `DocSync` | the sync protocol, the room's document and its log | a Yjs document is a state vector and the operations waiting for a predecessor; frames are queues per socket and direction; each end notices a close on its own, so a client can reconnect while its old socket lives at the room; `unsent` is history: the sockets that were not sent what their own frame released at the room, see the observations |
| `SyncSupervisor` | the client's loop | `pc` is the await the loop is suspended at; continuations whose promise has settled run before the next event (`Macrotask`), callers may act in between; the close event of a socket that had opened need not come (`CloseHangs`) |
| `DurableRoom_proof` (with the theorems about `RoomPresence`), `BunRooms_proof`, `DocSync_proof`, `Client_proof` (the theorems about `SyncSupervisor` and `AuthSession`), `YKeyValueLww_proof`, `LocalDocs_proof`, `Mount_proof`, `GitAutosave_proof` | proofs | section 5 |
| `YKeyValueLww` | the last-writer-wins map over a Yjs array, for one key on several replicas | `order` is the order Yjs gives all entries ever pushed, `seen` and `gone` what a replica knows and has deleted; `map`, `write`, `hides` are `_map`, `pendingWrites`, `pendingDeletes`; a caller's transaction is open while `fresh` or `dropped` holds something, and `Commit` is the observer at its close; `erased` is history |
| `AuthSession` | the OAuth session of a client | a `persistedAuth` object is the index of the grant it holds, as the code compares these objects by identity; `memory` and `access` are the runtime's state, `cell` the storage, `writes` its queue; `refresh` and `verify` are the flights of each session, `caller` where each `authedFetch` is suspended, `current` the sign-in whose generation counts; `confirmed`, `signedOut`, `lastWrite` are history |
| `LocalDocs` | a tab's documents, the disposable cache, IndexedDB and the wipe | documents are numbered per tab and database; IndexedDB (opening, version change, deletion in order) is external; `closing` are the signed-in tabs whose relay teardown a wipe awaits (`collaboration.whenDisposed`), which need not end; a reload starts a page anew, and what the old page held is closed |
| `SqliteMirror` | the sqlite mirror of a mount | `queue` is the serial queue of statements, with load, flush, rebuild and drain as what it runs; `excused` is history: the rows the code itself leaves stale, see the observations |
| `ChildDocWorker` | the daemon's worker of bodies | a body is a row and a stamp; `closing` are bodies closed because their row went, `draining` those a disposal waits for |
| `Mount` | the disposal of a mount; EXTENDS both | one `Edit` reaches both observers; `asyncDispose` runs every handler and waits for their drains |
| `MarkdownExport` | the files of a table | each batch, rebuild and the initial flush is a piece of work of its own that is suspended between two file operations; a rebuild lists the files, removes them one by one and clears `fileState`; a remove or a listing may fail, which the code ignores; `blurred` (rows that may be stale) and `orphans` (files whose last remove failed) are history |
| `GitAutosave` | the commits of that directory; EXTENDS `MarkdownExport` | watcher events, dirty set, timer and overlapping batches; `index` and `head` are git's; `dropped` (files of a dropped batch) and `missed` (files whose change the watcher did not mark) are history |
| `MC*` | what TLC runs: the module with its symmetry sets and the restriction of its initial states, if any | |

Operators named `X_Suffix`, introduced by a comment "Bug:", are deliberately wrong variants of `X`.
Nothing uses them; put in the place of `X` they show that a property can fail (section 4).

## 3. Runs

Bounds are constants named in the modules and occur only in guards of the actions they bound.

| cfg | question | result |
|---|---|---|
| `RoomPresence` | three nodes, four sockets: are lists right at all times, do departed nodes go off them? | holds, the latter under fairness of timers and of the close handshake. Four sockets let a node hand off while another joins; a third node is what makes a broadcast bypass the timer |
| `DurableRoom` | hibernation, restore, restart, alarm; is a silent socket of a sleeping room closed? | holds, with a published agent in the attachment: the alarm is in storage |
| `BunRooms` | eviction between upgrade and open, crash, refused upgrades; is an empty room evicted? | holds, unless the last upgrade of the room was refused (426): see the observations |
| `SyncSupervisor` | all orders of socket events, timers, `reconnect()`, destroy | holds; that a teardown ends, and that the loop keeps trying, unless a socket that had opened stays in its close handshake for good (observations) |
| `DocSync` | two writers, operations that overtake others, two sockets of one client at once, a reconnect, a loss of memory: durability, refinement of `SharedDoc`, convergence | holds, convergence under fair delivery and for clients that stay connected in the end and are not `unsent`. 0.8 million states |
| `DocSyncAppend` | "every live update is persisted" | violated when `append` throws |
| `YKeyValueLww` | two writing replicas and a reader, three writes: index and array, newest write, reads in a transaction, convergence | holds; for reads, unless the key was new in the transaction and was deleted in it |
| `YKeyValueLwwResurrect` | the same without that exception | violated: set, set, delete of a new key brings the second value back |
| `AuthSession` | two requests, two principals, three grants, two sign-ins, a sign-out, a failed write, a reload: which bearer leaves, is a sign-out final, does storage follow memory? | holds; storage follows memory up to the age of the grant (observations). 6.1 million states |
| `LocalDocs` | two tabs, one of which wipes, one row, two bodies and handles, a reload: is a held body alive, do wipes wait for their own documents and end? | holds, for pages that open no body once they wipe, and unless the relay teardown of the page that wipes hangs (observations). 0.36 million states |
| `Mount` | two rows, two edits, a rebuild, a failed or hanging statement: is the mirror right at rest and after the drain, does a disposal end? | holds, but for the rows listed in the observations. 1.1 million states |
| `GitAutosave` | two rows, one of which may be renamed, two rebuilds, a failed render, write, remove, listing or commit: do the files follow the table and the commits the files? | holds, but for the rows left stale, until work that has them alone, the files whose remove failed, dropped batches and files the watcher did not mark (observations). 1.5 million states |

Why the bounds are enough to be interesting: every disjunct of every next-state relation is taken in
some passing run; sockets outnumber nodes or clients wherever a hand-off matters. In `DocSync` that
takes a third socket, with which not everything is combined: `MCDocSync` has plans. With two sockets
all orders are allowed. With three, either all is written before anybody connects and nothing is
lost ("offline first"), or the first socket brings what its client wrote offline and everything else
follows, the rest of the writing or a loss of memory. So a client converges that has reconnected, or
has two sockets, and a bug that only its first socket escapes is found (`addConnection_FirstOnly`).
Entries in `BunRooms` outnumber one so that eviction and re-creation both happen; `MaxCycles = 3`
lets a `reconnect()` hit an attempt that itself followed one; two operations of one author are what
it takes for one to overtake the other. In `YKeyValueLww` two timestamps and three entries make
ties, late entries and conflicts of three replicas, and the reader, which writes nothing, is what
constructs its wrapper over a document that already holds duplicates. A merge there brings a whole
state, as a handshake does. In `AuthSession` two callers are what it takes to share a flight or to
be in different ones, and two principals to replace a session by somebody else's; three grants are
one stored, one refreshed, one signed in. In `LocalDocs` the second tab is what a deletion has to
wait for, and the reload what makes it go on; the tab that wipes is the one that opens bodies
(`OneOpens`). In `Mount` one edit may fall into a flush and a second one behind it. `MCMount` and
`MCGitAutosave` restrict the initial states to keep the runs small: `FewStarts` lets one row exist
at the start and the mirror of it be missing, stale or left over; `FewFiles` lets one file be left
over; `FewChances` says which of the closed gate, edits, rebuilds, failures and the autosave occur
together. Two rebuilds may overlap and leave two files of a row, which nothing but a later rebuild
cleans up.

Deadlock is checked in `AuthSession`, where a request can always be made. Elsewhere it is not:
bounded behaviours stop when the bound on sockets, cycles or ticks is used up and every socket is
closed.

`SharedDoc` lets a client show an operation before it is stored. The stricter promise is false: the
room passes waiting operations on in its STEP2, and if it then loses its memory before the missing
operation arrives, the client integrates both while the store has neither. Found with one writer,
two operations, three sockets and one loss.

Fairness. Timers fire and promises settle (the event loop). In `RoomPresence` and `Mount` a close
handshake once begun ends in a close event; at the server the runtime sees to that, in `Mount` it is
an assumption. In `SyncSupervisor` only a socket that never opened is sure to get its close event:
one that had opened awaits its peer, and both liveness properties except the behaviour in which it
waits for ever (`CloseHangs`). `LocalDocs` likewise excepts a relay teardown that does not end. The
room in `DocSync` accepts sockets and delivers frames; no client is assumed to stay connected,
`Convergence` has that as a premise. In `DurableRoom` an alarm that is due, or a closed socket,
wakes the object, and as the object may fall asleep between any two events, these two need strong
fairness. In `YKeyValueLww` transactions close, as they are synchronous, and every replica keeps
receiving the others' state; nobody is assumed to construct a wrapper or to write. In `LocalDocs`
promises and timers run and IndexedDB does what it was asked for (`Progress`), but a relay need not
close; nobody is assumed to open, release, wipe or reload. In `Mount` a statement that does not hang
returns, the drain's timer fires, and sockets close in the end; in `GitAutosave` the watcher
reports, timers fire and git returns. Neither assumes an edit, a rebuild, a failure or a disposal.
`AuthSession` states no liveness: every wait in it is for a server that may not answer.

Observations that are not properties:

- An update that releases operations the room kept waiting integrates them with the origin of its
  own frame, and the fan-out skips the origin (`core.ts:200`), so that client is not sent them. It
  can lack them. Let a's UPDATE(1) be delayed on a socket a has given up while UPDATE(2), on the next
  one, waits at the room; b's handshake gives b operation 2, to keep waiting; the room's memory is
  lost and it wakes up, asking b; UPDATE(1) arrives, which gives b both, and then UPDATE(3) waits at
  the room for 2, until b's answer brings it. 2 and 3 are integrated with origin b. b stays connected
  and idle without 3, until it reconnects or the room wakes up again, although "Yjs's CRDT semantics
  keep every replica eventually consistent regardless of message order"
  (`SYNC_ARCHITECTURE.md:3`). Nothing is lost, as the room has it. The three edits, three sockets and
  loss this takes are beyond the bounds of the `DocSync` run: the attempt to prove `IdleClientInSync`
  without `unsent` found it, and TLC confirmed it under a next-state relation that leaves out the
  other steps. `IdleClientInSync`, `NothingPendingWhenIdle` and `Convergence` are therefore about
  clients that are not in `unsent`; they leave it with the answer to their next handshake.
- A peer's list shows the attributes of a node's newest socket as of the last broadcast; a second
  socket of the node is not announced, so the list keeps the first one's until something else
  changes ("Subsequent tabs of the same node leave the list unchanged").
- The join of another node within the grace window sends the whole list, so peers do see a departure
  that the window was to hide ("before peers ever see the flap").
- On wake-up `addConnection` sends each restored socket, and those before it, a list of what is
  restored so far.
- A refused upgrade (426) cancels the eviction of an empty room, and nothing arms it again. It takes
  a request with an `Upgrade: websocket` header, which `routes/rooms.ts` tests, and an otherwise
  malformed handshake.
- The supervisor's `status` stays `connected` during the backoff sleep after a session;
  `waitForWsClose` is never entered with a live socket, since the loop has awaited its close; the
  eviction timer's `connectionCount` check is redundant, since every attach cancels the timer.
- set and delete of a new key in one transaction leave the key in `pendingDeletes`, as its entry is
  in neither list of the Yjs event; the next write or remote entry clears it, and until then it
  hides nothing.
- A remote update applied inside a local transaction is outside `YKeyValueLww`: a test does it, no
  code path was found that does.
- Supervisor: the 4401 of an attempt that `reconnect()` aborted parks the new cycle
  (`sync-supervisor.ts:383`, against `SYNC_ARCHITECTURE.md:178`). The 1000 ms failsafe of the
  teardown, which "should not block teardown indefinitely" (672-674), comes after the loop (541),
  and the loop awaits the close event of its socket (442, 446) with no bound: a peer that never
  answers the close handshake blocks the teardown for good, which `DisposeCompletes` and
  `KeepsTrying` except as `CloseHangs`.
- Auth: the second 401 of a request pauses whatever session is in memory by then (331). A refresh that
  cannot reach its server pauses as a refused one does; a test pins this. A verification that
  completes after a pause lifts it. A refresh and a sign-in of the same principal may be written in
  the order opposite to that in which they reach memory, which leaves the older grant in storage.
- Local documents: a wipe of a signed-in workspace awaits `collaboration.whenDisposed`
  (`workspace.ts:883`), that is, the teardown above, with no bound, before it deletes anything: it
  hangs with it (`WipeEnds` excepts that). A body opened between an explicit dispose and a later
  `wipe()` is awaited by it and never destroyed, so the wipe hangs; one opened behind the wipe's own
  dispose makes the wipe reload its own page. A foreign deletion that comes before `whenSynced`
  finds lib0's handler, which closes the connection below a document that keeps listening.
- Mounts: bodies closed with their row before a shutdown are not awaited by it; a statement of the
  drain's own flush that throws loses rows of a drain that was not given up; the drains of the
  worker and of the collaboration are not bounded, although `attach-mount-infrastructure.ts:50-51`
  says each drain is.
- Sqlite mirror: the load only upserts, so rows deleted while the daemon was down stay; a row changed
  between the scan of the load and the registration of the observer stays stale; a failed load leaves
  no observer; a statement that throws loses the rest of its flush. A mount passes no `waitFor`; the
  gate covers other embedders.
- Markdown: batches of different transactions run side by side, contrary to the comment at
  `export.ts:532-533`: a stale render can overwrite a newer one, and a batch can unlink a file
  another one wrote. A write that fails after the unlink of a rename leaves the row without a file.
  Such a row is right again after a batch that has it alone, as its next change starts, a flush or a
  rebuild (`blurred`). A remove that fails is ignored (446-448, 611-616), and so is a listing
  (618-620): the row goes on to its new file, the old one is forgotten and stays until a rebuild can
  remove it (`orphans`). Edits between the initial scan and the observer are missed. The index of
  files is empty after a restart, so files of rows gone meanwhile stay; so does one a rebuild before
  the initial flush wrote for a row then removed. Two rows that swap file names lose one. A rebuild
  is not among what the drain waits for (253-257).
- Git: `isEnabled` is kept once it was false, although the comment at 225-227 says a later `git
  init` turns the autosave on. The watcher starts behind that check (218-220) while the initial
  flush is already writing: what it wrote until then, what differed from the last commit before, and
  a change whose event names no file (221) are not committed until the file changes again
  (`missed`). `git add` of a file made and removed within the quiet window fails and drops the
  batch; `index.lock` is retried once, then the batch is dropped. A disposal forgets the dirty set,
  so the last writes of the drain are not committed.

## 4. Deliberate bugs

Each property of a passing run is paired in `PROJECT.json` with one wrong operator that breaks it
under the same configuration (a missing broadcast, a timer cancelled too often, an attachment not
rewritten, a signal not re-checked after an await, a log row dropped, a handle leaked, ...).

## 5. Proofs

Of `RoomPresence`, in `DurableRoom_proof`, for every set of nodes and agents and every bound:

- `TypeCorrect`: `Spec => []TypeOK`.
- `NoLiveNodeHidden`: `Spec => []LiveNodesListed`.
- `SettledListsExact`: `Spec => []ListsExactWhenSettled`.

The inductive invariant is the type invariant, the two properties and the fact that an open socket
is in the Map only if accepted. It relies on what `snapshotPeers` and `Broadcast` return (lemmas);
that `NewestSocket`'s CHOOSE finds a socket needs a least element of a finite order, taken from the
library's well-foundedness of the naturals.

Of `DurableRoom`, in the same module:

- `MapSurvivesHibernation`: `DurableSpec => []AttachmentsMirrorMap`.
- `AlarmNeverLost`: `DurableSpec => []SweepAlarmCovers`.
- `ListsSurviveHibernation`: `DurableSpec => []ListsExactAcrossHibernation`.

`Mirror` relates the Map to the attachments in all three phases: while the constructor runs, the Map
is the attachments less those still to restore. That alone is inductive and gives the first theorem.
`Cover` needs `Mirror`, since the alarm re-arms itself by what is in the Map, and a socket must not be
attached behind its back. The lists need the room's own invariant, which holds of the Map even when
it is half restored, because a step of the constructor's loop is a join like any other
(`AddConnectionIInv`, shared with `Connect`); and `Asleep`, which keeps what that invariant said for
as long as the Map is gone.

`DocSync_proof`, for every set of clients and every bound on edits, sockets and losses:

- `ImplementsSharedDoc`: `Spec => RefinesSharedDoc`, that is, the room, its log and its clients
  implement `SharedDoc`. It does not assume that appends succeed.
- `RestartLosesNothing`: `~AppendFails /\ Spec => []LogHoldsDoc`. With failing appends this is false,
  as `DocSyncAppend` shows.
- `IdleClientsAgree`: `~AppendFails /\ Spec => []IdleClientInSync`.
- `NothingWaitsWhenIdle`: `~AppendFails /\ Spec => []NothingPendingWhenIdle`. Both are about clients
  that are not in `unsent`: without that they are false (observations). Their proofs need that
  appends succeed: what an append refuses is in memory and is not fanned out.

The argument starts from what `applyUpdate` returns: it adds exactly the given operations to what a
document knows (`ApplyEncodes`) and integrates what is consecutive (`ApplyUpdate`, where its CHOOSE
needs a first gap, again by well-foundedness). `Shape` says that documents, log and frames in flight
hold only what the authors made, and that the log holds nothing the room's document does not know.
Compaction and replay then give the log back as a set, so it only grows, and what it stores stays
between what it stored before and what is made: a `Store` or a stutter. An author knows all its own
operations, so what a client receives is a `Show` of somebody else's or nothing. For the second
theorem `LogExact` adds that what is integrated is logged and that nobody's next operation waits;
both ends of the log's reach are then fixed (`ExactOrder`).

For idle clients, `InSync` says of each socket that is live at both ends what its two queues owe
(`Flow`). Upwards, the room knows all of the client's replica but what the queue carries, or a STEP1
is on its way down, whose answer will bring the rest; downwards, the client knows all the room has
integrated but what that queue carries, or a STEP1 is on its way up, or the socket is connecting or
`unsent`. An answer is complete only if its STEP1 asks from a clock the asker still has (`Behind`),
which is where `LogExact` is needed: a load loses what waited at the room and no more
(`LoadKeepsClock`). A frame may then carry what the room has lost, but only ahead of the STEP1 of the
wake-up (`Fresh`). `OneAttempt` keeps what one socket brings a client from being owed on another.
With both queues empty each end knows what the other has integrated, and as what waits in a document
lies beyond a gap (`Gaps`), neither is ahead (`NoneAhead`).

Of `SyncSupervisor`, in `Client_proof`, for any number of reconnects:

- `NoSocketLeftBehind`: `SupervisorSpec => []NoOrphanSocket`.
- `NoLoopWithoutPause`: `SupervisorSpec => NoHotLoop`, an action property.

`Attended` says of each await of the loop which states the socket may be in there, and that an
aborted attempt has closed its own. `Rested` says where the loop is on its way to another attempt and
why that has rested: the signal of an attempt that is no longer the cycle's is one a `reconnect()`
replaced, and a socket that closed after a long session has rested for that reason.

`BunRooms_proof`, for every number of sockets and entries:

- `TypeCorrect`, `LiveSocketsAlwaysServed`, `OneWriterPerFile`, `CoreAlwaysHoldsFile`.

The strengthening is `TimersOfEntry`: an armed eviction timer belongs to the entry in the Map. With
it an eviction closes the only open handle and finds no member.

Of `AuthSession`, in the same module, for every set of callers and principals and every bound:

- `BearersAlwaysConfirmed`: `Spec => []BearerConfirmed`.
- `SignOutsAreFinal`: `Spec => []SignOutIsFinal`.
- `StorageFollowsMemory`: `Spec => []CellFollowsMemory`.
- `PrincipalsNeverSwitch`: `Spec => NoDirectPrincipalSwitch`, an action property.

All rest on the shape of the state (`ShapesInv`). For the first, a session in memory is verified only
if confirmed, and whatever a sign-in has queued for storage is confirmed already
(`SignInsConfirmed`), since the write that settles installs it as verified. For the second, no
sign-in is current behind a sign-out, and in the queue of writes every session still to be stored is
ahead of a sign-out's own write (`AheadOfSignOut`); when the last of these has settled, only clears
are left (`OnlyNone`). The run allows one sign-out; the theorem any number, where an earlier
sign-out's write may be followed by a sign-in's that the later one overrides.

The other two share `FollowInv`. What is stored when the queue has settled is its last write, so the
invariant says of the last write in the queue what memory is or is about to be (`LastFollows`): a
clear follows memory, a refresh is of the principal in memory, a sign-in is the current one. To keep
that when a sign-in installs its session, nothing but refreshes may be queued behind its write
(`RefreshesBehind`), and those are of the principal it replaces or continues (`Underway`). That a
refresh is of that principal needs that a queued write is what its owner waits for, and that nobody
waits for two (`QueueOwned`). `Underway` is also why no principal replaces another: a sign-in that
reaches its write has found memory empty or of its own principal, and whatever happens to memory in
between keeps it so. Without `RefreshesBehind` or the uniqueness in `QueueOwned` the invariant is not
inductive.

`YKeyValueLww_proof`, for every set of replicas and any number of writes and timestamps:

- `KvTypeCorrect`: `Spec => [](TypeInv /\ Placed)`; an entry has one place in the array.
- `IndexIsArray`: `Spec => []IndexFollowsArray`.
- `NewestIsRead`: `Spec => []NewestWriteKept`.
- `ReadsSurviveCommit`: `Spec => CommitKeepsReads`, an action property.

Between transactions the first two are nearly inductive; inside one they say nothing, so the
invariant describes an open transaction. `Differs` says that it changes the array on top of what the
index has seen of it and adds to the right of the indexed entry, above its timestamp; `Overlaid` says
what the overlays then mean: a pending write is the newest entry the transaction added, and without
one a user has erased all it added. `Accounted` is the reason no clean-up costs the newest write:
what a replica has deleted a user erased, or an entry that the replica knows beats it. It survives a
merge because both sides hold it, and a push because the order of the entries there does not change.

What the observer's loop leaves (`LoopMeets`) is proved without an induction theorem: the loop is a
recursive function, whose existence is proved by taking the least place at which it would have no
value (`LoopRuns`), and its invariant by taking the least place at which that would fail: the indexed
entry beats all met so far, and what it beat is among the losers. `Winner` and `Latest` rest on
greatest elements in the same way, and `Beats` is a strict order of the entries of an array
(`BeatsOrders`).

`LocalDocs_proof`, for every set of tabs and rows and every bound:

- `TypeCorrect`: `Spec => []TypeInv`.
- `HeldBodiesLive`: `Spec => []HeldBodyLives`.
- `BodiesAreShared`: `Spec => []OneLiveBody`.
- `WipesWaitForOwn`: `Spec => []WipeWaitsForOwn`.

`Entries` says that the cache's entry of a row is its one live document, that the entry counts
exactly the handles out there, and that a grace timer is armed only for a document nobody holds; the
first two theorems follow, as the timer and the disposal are all that destroys. `Wipes` says that what
a draining wipe does not await is closed or built behind the disposal; that nothing of a tab is live
behind a disposal makes it inductive, since a document opened then is `late`.

`Mount_proof`, for every set of rows and every bound:

- `TypeCorrect`: `Spec => []TypeInv`.
- `MirrorRestsExact`: `Spec => []RestingMirrorExact`.
- `ShutdownDropsNothing`: `Spec => []DrainedAtShutdown`.

Both except the rows in `excused`: those a flush had not written when one of its statements threw,
the drain's own flush included, those changed between the scan of the load and the observer, those
gone while the daemon was down, and all after a failed load. The second leaves out bodies that were
closing already.

`Coverage` is the argument: once the load has scanned the table, each row is mirrored as it is, or is
pending, or is in the hands of the flush or the transaction under way, or is known to be stale; and
the same of the state a rollback of a rebuild returns to (`SavedCovers`). Work in hand must be up to
date or pending again (`Fresh`), only the front of the queue has begun (`Serial`), and the flush a
disposal waits for is the last work there is and leaves nothing pending (`Draining`). `Bodies` is the
worker's part: a body the shutdown owes is not one it had been closing already. Of a mirror whose
drain was given up nothing is claimed.

`GitAutosave_proof`, for every set of rows, titles and every bound:

- `TypeCorrect`: `Spec => []TypeInv`.
- `FilesSettleExact`: `Spec => []SettledFilesExact`.
- `DrainLeavesExact`: `Spec => []DrainedFilesExact`.
- `HistorySettlesExact`: `Spec => []SettledHistoryExact`.

The first two except the rows in `blurred` and the files in `orphans`, the second also a rebuild
under way; the third the files in `dropped` and `missed`.

`RowInv` is said of each row that is not blurred: only one piece of work has it in hand (`Alone`),
what that one is about to do is what the table says or a batch will do it again (`Own`), and a row
nobody has in hand is exported or will be (`Shown`). Of a rebuild under way `Own` says that a file
it has not listed, or is done with, is left over at most, so that when it clears `fileState` no row
has a file of this session but one whose remove failed. A batch that takes up a blurred row alone
puts it back under `RowInv`, for which it has to be tidy (`Tidy`). `History` says of each file that
it is as committed, or that its change is reported, marked, in a batch or known to be dropped or
missed.

The attempt to prove the export's part found the history variable `blurred` wrong: a flush took a row
off it although overlapping rebuilds had left two files of it, of which the flush unlinks one. Now the
initial flush takes only tidy rows off (`Tidy`), and two rebuilds are in the run, which fails under the
earlier definition.

Assumptions used are those named in the modules (`RoomAssumption`, `PublisherAssumption`,
`RegistryAssumption`, `SyncAssumption`, `AuthAssumption`, `KvAssumption`, `LocalDocsAssumption`,
`MirrorAssumption`, `ExportAssumption`, `NamesAssumption`), which TLC evaluates in the runs. They
bound the bounds, but for `NamesAssumption` and a part of `KvAssumption`: no title, row or entry is
one of the names that stand for none.

The `TypeCorrect` theorems and `OneWriterPerFile` are about invariants that no run names; nor does
one name `DurableTypeOK` and the `TypeOK` of `SyncSupervisor`. TLC finds them, and the inductive
invariants of the last four modules, `FollowInv` and `InSync`, to hold when they are added to a cfg.

Only model-checked: everything about liveness and fairness, which this prover does not do, with the
convergence of `DocSync` and of `YKeyValueLww`; and what the two runs that end in a violation show.
Every invariant that a passing run checks is the subject of a theorem.

## 6. Not modelled, and the plan

Left out for good: user interfaces, formatting and rendering, cryptography and audio (pure
functions), Better Auth, S3, Stripe/Autumn and model providers (external services), Yjs itself (used
through its external behaviour). Frame sizes are not modelled, hence not the retry loop of a document
whose STEP2 exceeds `MAX_PAYLOAD_BYTES`.

The local Yjs log is synchronous: it appends on each update, compacts in one transaction and closes
with its document; it has the shape of the room log in `DocSync` and no interleavings of its own.
Composed modules abstract each other: `Mount` has no network, `LocalDocs` no contents of documents.

Planned, in order:

1. `AgentLoop` (approvals and interruption), `AttachRelay` (grants and their expiry), the `Daemon`
   lease.
2. `Recorder`, `ModelCache`, `KeyboardSupervisor` of the desktop host; the Whispering pipeline; the
   mailbox sync of local mail.
3. The path index of the filesystem over a table after merges.
4. `YKeyValueLww` against an abstract map with timestamps.
