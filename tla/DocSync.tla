-------------------------------- MODULE DocSync --------------------------------
(***************************************************************************)
(* One Yjs document kept in sync by its room: clients that edit on and off *)
(* line, sockets that break on either side, STEP1 / STEP2 / UPDATE frames  *)
(* in order per socket, the room's in-memory document and its durable      *)
(* update log with compaction, crash, eviction and hibernation.            *)
(* packages/sync/src/protocol.ts, packages/server/src/room/core.ts and the *)
(* doc handlers of sync-supervisor.ts.                                     *)
(*                                                                         *)
(* Yjs is external: a document is, per author, the number of consecutive   *)
(* operations integrated (its state vector), and the operations that wait  *)
(* for a missing one (pendingStructs).  Deletions and content are left out.*)
(***************************************************************************)
EXTENDS Naturals, Sequences

CONSTANTS
    Client,      \* replicas; each is one author
    EditsOf,     \* bound: operations each author makes
    MaxEdits,    \* the largest of those bounds
    MaxSockets,  \* bound: sockets accepted in a behaviour
    MaxLosses,   \* bound: times the room's memory is lost
    AppendFails  \* updateLog.append may throw (a row over the backend's cap)

ASSUME SyncAssumption ==
    /\ MaxEdits \in Nat
    /\ EditsOf \in [Client -> 0..MaxEdits]
    /\ MaxSockets \in Nat
    /\ MaxLosses \in Nat
    /\ AppendFails \in BOOLEAN

VARIABLES
    replica,     \* each client's Y.Doc
    doc,         \* the room's Y.Doc
    log,         \* the room's update log: a sequence of sets of operations
    owner,       \* the client of each accepted socket
    clientSide,  \* a socket's state at its client
    connections, \* sockets in the room's Map
    up, down,    \* frames in flight from and to each client
    losses,      \* losses of memory so far
    unsent       \* history: sockets that were not sent what their own frame
                 \* released at the room

vars == <<replica, doc, log, owner, clientSide, connections, up, down, losses, unsent>>

Socket == 1..MaxSockets
Op == Client \X (1..MaxEdits)

Empty == [clock |-> [c \in Client |-> 0], pend |-> {}]
Integrated(d) == {op \in Op : op[2] <= d.clock[op[1]]}

\* Y.applyUpdateV2: integrate what has become consecutive, keep the rest.
applyUpdate(d, ops) ==
    LET all == d.pend \cup ops
        reach(a) == CHOOSE m \in d.clock[a]..MaxEdits :
                       /\ \A k \in d.clock[a] + 1 .. m : <<a, k>> \in all
                       /\ <<a, m + 1>> \notin all
        clock == [a \in Client |-> reach(a)]
    IN  [clock |-> clock, pend |-> {op \in all : op[2] > clock[op[1]]}]

\* Bug: the difference starts one operation late.
encodeStateAsUpdate_Late(d, sv) ==
    {op \in Integrated(d) \cup d.pend : op[2] > sv[op[1]] + 1}

\* Y.encodeStateAsUpdateV2(doc, stateVector): pending operations go along.
encodeStateAsUpdate(d, sv) ==
    {op \in Integrated(d) \cup d.pend : op[2] > sv[op[1]]}

encodeDoc(d) == Integrated(d) \cup d.pend

STEP1(sv)   == [type |-> "STEP1", sv |-> sv]
STEP2(ops)  == [type |-> "STEP2", ops |-> ops]
UPDATE(ops) == [type |-> "UPDATE", ops |-> ops]

\* Sockets whose client would see a frame the room sends now.
Reachable == {s \in connections : clientSide[s] # "closed"}

\* ws.send from either end; a frame to an end that is gone is lost.
SendDown(d, sockets, frame) ==
    [s \in Socket |-> IF s \in sockets \cap Reachable THEN Append(d[s], frame) ELSE d[s]]

SendUp(u, s, frame) ==
    IF s \in connections THEN [u EXCEPT ![s] = Append(@, frame)] ELSE u

-----------------------------------------------------------------------------
Init ==
    /\ replica = [c \in Client |-> Empty]
    /\ doc = Empty
    /\ log = <<>>
    /\ owner = <<>>
    /\ clientSide = [s \in Socket |-> "none"]
    /\ connections = {}
    /\ up = [s \in Socket |-> <<>>]
    /\ down = [s \in Socket |-> <<>>]
    /\ losses = 0
    /\ unsent = {}

OpenSocket(c) == {s \in DOMAIN owner : owner[s] = c /\ clientSide[s] = "open"}

\* A local transaction; handleDocUpdate sends it if the socket is OPEN.
Edit(c) ==
    /\ replica[c].clock[c] < EditsOf[c]
    /\ LET k == replica[c].clock[c] + 1
       IN  /\ replica' = [replica EXCEPT ![c].clock[c] = k]
           /\ up' = [s \in Socket |->
                        IF s \in OpenSocket(c) \cap connections
                        THEN Append(up[s], UPDATE({<<c, k>>})) ELSE up[s]]
    /\ UNCHANGED <<doc, log, owner, clientSide, connections, down, losses, unsent>>

\* The supervisor runs one attempt at a time.
Offline(c) == \A s \in DOMAIN owner : owner[s] = c => clientSide[s] = "closed"

\* Bug: only a client's first socket is asked for what the room misses.
addConnection_FirstOnly(c) ==
    /\ Len(owner) < MaxSockets
    /\ Offline(c)
    /\ LET s == Len(owner) + 1
           again == \E i \in DOMAIN owner : owner[i] = c
       IN  /\ owner' = Append(owner, c)
           /\ clientSide' = [clientSide EXCEPT ![s] = "connecting"]
           /\ connections' = connections \cup {s}
           /\ down' = [down EXCEPT ![s] = IF again THEN <<>> ELSE <<STEP1(doc.clock)>>]
    /\ UNCHANGED <<replica, doc, log, up, losses, unsent>>

\* The room accepts a socket: addConnection sends the room's SyncStep1.
addConnection(c) ==
    /\ Len(owner) < MaxSockets
    /\ Offline(c)
    /\ LET s == Len(owner) + 1
       IN  /\ owner' = Append(owner, c)
           /\ clientSide' = [clientSide EXCEPT ![s] = "connecting"]
           /\ connections' = connections \cup {s}
           /\ down' = [down EXCEPT ![s] = <<STEP1(doc.clock)>>]
    /\ UNCHANGED <<replica, doc, log, up, losses, unsent>>

\* Bug: the client leaves the handshake to the room.
OnOpen_NoStep1(s) ==
    /\ clientSide[s] = "connecting"
    /\ clientSide' = [clientSide EXCEPT ![s] = "open"]
    /\ UNCHANGED <<replica, doc, log, owner, connections, up, down, losses, unsent>>

\* The client's onopen sends its own SyncStep1.
OnOpen(s) ==
    /\ clientSide[s] = "connecting"
    /\ clientSide' = [clientSide EXCEPT ![s] = "open"]
    /\ up' = SendUp(up, s, STEP1(replica[owner[s]].clock))
    /\ UNCHANGED <<replica, doc, log, owner, connections, down, losses, unsent>>

\* Bug: the received operations are logged and relayed, without those that had
\* waited for them.
RoomApplies_FrameOnly(ops, origin) ==
    LET after == applyUpdate(doc, ops)
        update == (Integrated(after) \ Integrated(doc)) \cap ops
    IN  /\ doc' = after
        /\ IF update = {}
           THEN UNCHANGED <<log, down>>
           ELSE /\ log' = Append(log, update)
                /\ down' = SendDown(down, connections \ {origin}, UPDATE(update))
        /\ UNCHANGED unsent

\* The room's updateV2 listeners: append to the log, fan out to the others.
\* They run only when something was integrated; if the first throws, the second
\* does not run, and handleMessage drops the error.  What the frame released has
\* the frame's origin as well, which is not sent it.
RoomApplies(ops, origin) ==
    LET after == applyUpdate(doc, ops)
        update == Integrated(after) \ Integrated(doc)
    IN  /\ doc' = after
        /\ \/ /\ update = {} \/ AppendFails
              /\ UNCHANGED <<log, down>>
           \/ /\ update # {}
              /\ log' = Append(log, update)
              /\ down' = SendDown(down, connections \ {origin}, UPDATE(update))
        /\ unsent' = IF update \subseteq ops THEN unsent ELSE unsent \cup {origin}

\* handleMessage: a STEP1 is answered with the difference.
RoomReceives(s) ==
    /\ s \in connections /\ up[s] # <<>>
    /\ up' = [up EXCEPT ![s] = Tail(@)]
    /\ LET frame == Head(up[s])
       IN  IF frame.type = "STEP1"
           THEN /\ down' = SendDown(down, {s}, STEP2(encodeStateAsUpdate(doc, frame.sv)))
                /\ unsent' = unsent \ {s}
                /\ UNCHANGED <<doc, log>>
           ELSE RoomApplies(frame.ops, s)
    /\ UNCHANGED <<replica, owner, clientSide, connections, losses>>

\* The client's onmessage; SYNC_ORIGIN keeps what it applies from echoing.
ClientReceives(s) ==
    /\ clientSide[s] = "open" /\ down[s] # <<>>
    /\ down' = [down EXCEPT ![s] = Tail(@)]
    /\ LET frame == Head(down[s])
           c == owner[s]
       IN  IF frame.type = "STEP1"
           THEN /\ up' = SendUp(up, s, STEP2(encodeStateAsUpdate(replica[c], frame.sv)))
                /\ UNCHANGED replica
           ELSE /\ replica' = [replica EXCEPT ![c] = applyUpdate(@, frame.ops)]
                /\ UNCHANGED up
    /\ UNCHANGED <<doc, log, owner, clientSide, connections, losses, unsent>>

\* The client sees its socket close; what was sent to it is lost, what it sent
\* may still arrive.
ClientCloses(s) ==
    /\ clientSide[s] \in {"connecting", "open"}
    /\ clientSide' = [clientSide EXCEPT ![s] = "closed"]
    /\ down' = [down EXCEPT ![s] = <<>>]
    /\ UNCHANGED <<replica, doc, log, owner, connections, up, losses, unsent>>

\* The room sees the socket close; what the client sent is lost, what was sent
\* to it may still arrive.
RoomCloses(s) ==
    /\ s \in connections
    /\ connections' = connections \ {s}
    /\ up' = [up EXCEPT ![s] = <<>>]
    /\ UNCHANGED <<replica, doc, log, owner, clientSide, down, losses, unsent>>

\* compactUpdateLog: one row unless there is at most one already, or the blob
\* is over the cap.
Compacted(l, d, fits) == IF Len(l) <= 1 \/ ~fits THEN l ELSE <<encodeDoc(d)>>

\* The idle alarm, or the eviction timer of an empty room.
compact(fits) ==
    /\ connections = {}
    /\ Len(log) > 1
    /\ log' = Compacted(log, doc, fits)
    /\ UNCHANGED <<replica, doc, owner, clientSide, connections, up, down, losses, unsent>>

\* Bug: only the last row is replayed.
Replay_LastRow(l) == applyUpdate(Empty, IF l = <<>> THEN {} ELSE l[Len(l)])

\* createRoomCore over the log: replay every row, then compact.
Replay(l) == applyUpdate(Empty, UNION {l[i] : i \in DOMAIN l})

Load(fits) ==
    /\ losses < MaxLosses
    /\ losses' = losses + 1
    /\ doc' = Replay(log)
    /\ log' = Compacted(log, Replay(log), fits)

\* The room's process dies, or an empty room is evicted and loaded again.
Restart(fits) ==
    /\ Load(fits)
    /\ connections' = {}
    /\ up' = [s \in Socket |-> <<>>]
    /\ UNCHANGED <<replica, owner, clientSide, down, unsent>>

\* A Durable Object wakes from hibernation with its sockets: each is
\* registered anew, hence sent a SyncStep1.
WakeUp(fits) ==
    /\ connections # {}
    /\ Load(fits)
    /\ down' = SendDown(down, connections, STEP1(doc'.clock))
    /\ UNCHANGED <<replica, owner, clientSide, connections, up, unsent>>

Next ==
    \/ \E c \in Client : Edit(c) \/ addConnection(c)
    \/ \E s \in Socket : OnOpen(s) \/ RoomReceives(s) \/ ClientReceives(s)
    \/ \E s \in Socket : ClientCloses(s) \/ RoomCloses(s)
    \/ \E fits \in BOOLEAN : compact(fits) \/ Restart(fits) \/ WakeUp(fits)

\* What happens without the user or a failure: both event loops keep running, an
\* end that is alone sees the close, and somebody who is offline tries again.
Progress ==
    \/ \E s \in Socket :
          \/ OnOpen(s) \/ RoomReceives(s) \/ ClientReceives(s)
          \/ s \notin connections /\ ClientCloses(s)
          \/ clientSide[s] = "closed" /\ RoomCloses(s)
    \/ \E c \in Client : addConnection(c)

\* Within the bounds only finitely many steps can be taken, so one weak fairness
\* condition serves every socket and every client.
Fairness == WF_vars(Progress)

Spec == Init /\ [][Next]_vars
FairSpec == Spec /\ Fairness

-----------------------------------------------------------------------------
(* Properties *)

\* What the room holds in memory is always what a restart would load: nothing
\* integrated is unlogged, and compaction drops nothing.
LogHoldsDoc == Replay(log).clock = doc.clock

\* core.ts:149-150, "Subscribes to `updateV2` so every live update is persisted
\* and fanned out to peer sockets".
EveryUpdatePersisted == Integrated(doc) \subseteq UNION {log[i] : i \in DOMAIN log}

\* The sockets of a client that are open at both ends, without those that wait
\* for a handshake to be sent what their own frame released.
Current(c) == (OpenSocket(c) \cap connections) \ unsent

\* Such a client, with no frame on its way.
Online(c) == \E s \in Current(c) : up[s] = <<>> /\ down[s] = <<>>

\* A client that is connected and has nothing in flight has integrated exactly
\* what the room has, its own operations included, whatever it wrote offline or
\* in the middle of the handshake, and across a wake-up that lost the room's
\* pending operations.  Only a client whose own frame released operations of
\* others, which the room kept waiting, misses those until its next handshake.
IdleClientInSync ==
    \A c \in Client : Online(c) => replica[c].clock = doc.clock

\* When every client is so, outside unsent too, nobody is left with an operation
\* that waits.
NothingPendingWhenIdle ==
    (\A c \in Client : Online(c)) => \A c \in Client : doc.pend = {} /\ replica[c].pend = {}

\* Through crash, hibernation, compaction and broken sockets the room is a
\* durable store that never forgets an operation, and no replica ever goes
\* back, or integrates what its author does not have.
Shared == INSTANCE SharedDoc WITH
    made   <- [a \in Client |-> replica[a].clock[a]],
    stored <- Replay(log).clock,
    shown  <- [c \in Client |-> replica[c].clock]
RefinesSharedDoc == Shared!Spec

\* If the sockets eventually stay up, every replica converges on the room's
\* document, which holds every edit made.
StaysConnected == \A c \in Client : Current(c) # {}
Agreement ==
    \A c \in Client : replica[c] = doc /\ \A a \in Client : doc.clock[a] = replica[a].clock[a]
Convergence == <>[]StaysConnected => <>[]Agreement
=============================================================================
