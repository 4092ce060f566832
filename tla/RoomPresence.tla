----------------------------- MODULE RoomPresence -----------------------------
(***************************************************************************)
(* Server-owned presence and the connection lifetime of one sync room:     *)
(* packages/server/src/room/core.ts.  `connections` is the source of       *)
(* truth; each socket is sent whole peer lists, and list[s] is the last    *)
(* one sent to s (frames of a socket are delivered in order and each       *)
(* replaces the one before, so the client's list is some earlier list[s]). *)
(*                                                                         *)
(* A socket is its accept number: the order of the numbers is the          *)
(* insertion order of the `connections` Map, which breaks ties in          *)
(* snapshotPeers.  A closed socket is never used again, and its list is    *)
(* reset since nobody reads it.                                            *)
(***************************************************************************)
EXTENDS Naturals

CONSTANTS
    Node,        \* presence participants (nodeId)
    Agent,       \* catalog agents a node may publish
    NoAgent,     \* agentId is undefined
    MaxSockets,  \* bound: sockets accepted in a behaviour
    MaxNow,      \* bound: clock ticks in a behaviour
    Lifetime     \* MAX_CONNECTION_LIFETIME_MS, in ticks

ASSUME RoomAssumption ==
    /\ MaxSockets \in Nat
    /\ MaxNow \in Nat
    /\ Lifetime \in Nat \ {0}
    /\ NoAgent \notin Agent

VARIABLES
    connections,        \* the Map: socket -> Connection
    accepted,           \* number of sockets accepted so far
    readyState,         \* the WebSocket readyState the server sees
    list,               \* the last presence list sent to each socket
    pendingRebroadcast, \* the debounce timer is armed
    now                 \* Date.now()

roomVars == <<connections, accepted, readyState, list, pendingRebroadcast, now>>

Socket == 1..MaxSockets
Connection == [nodeId : Node, connectedAt : 0..MaxNow, agentId : Agent \cup {NoAgent}]
Peer == [connectedAt : 0..MaxNow, agentId : Agent \cup {NoAgent}]

AuthFailed == 4401
CloseCode == {AuthFailed, 1000}  \* every code but 4401 takes the same path

NodesOf(conns) == {conns[s].nodeId : s \in DOMAIN conns}

\* The connection snapshotPeers keeps for a node: the newest, and of equally
\* new ones the first inserted.
NewestSocket(conns, n) ==
    CHOOSE s \in DOMAIN conns :
        /\ conns[s].nodeId = n
        /\ \A t \in DOMAIN conns : conns[t].nodeId = n =>
              \/ conns[t].connectedAt < conns[s].connectedAt
              \/ conns[t].connectedAt = conns[s].connectedAt /\ s <= t

\* The list sent to a socket of `self`: one peer per other connected node.
snapshotPeers(conns, self) ==
    [n \in NodesOf(conns) \ {self} |->
        LET c == conns[NewestSocket(conns, n)]
        IN  [connectedAt |-> c.connectedAt, agentId |-> c.agentId]]

\* The lists after broadcastPresence(exclude) over conns.
Broadcast(conns, exclude) ==
    [s \in Socket |->
        IF s \in DOMAIN conns \ exclude /\ readyState[s] = "open"
        THEN snapshotPeers(conns, conns[s].nodeId)
        ELSE list[s]]

NodeSockets(conns, n) == {s \in DOMAIN conns : conns[s].nodeId = n}

EmptyMap == [x \in {} |-> x]
Put(f, x, v) == [y \in DOMAIN f \cup {x} |-> IF y = x THEN v ELSE f[y]]
Delete(f, x) == [y \in DOMAIN f \ {x} |-> f[y]]

-----------------------------------------------------------------------------
Init ==
    /\ connections = EmptyMap
    /\ accepted = 0
    /\ readyState = [s \in Socket |-> "new"]
    /\ list = [s \in Socket |-> EmptyMap]
    /\ pendingRebroadcast = FALSE
    /\ now = 0

\* Bug: the new socket gets its list, its peers are not told.
addConnection_NoBroadcast(s, c) ==
    LET conns == Put(connections, s, c)
    IN  /\ connections' = conns
        /\ list' = [list EXCEPT ![s] = snapshotPeers(conns, c.nodeId)]
        /\ UNCHANGED pendingRebroadcast

\* Bug: every join cancels the timer, one that tells nobody included.
addConnection_AlwaysCancels(s, c) ==
    LET conns == Put(connections, s, c)
        first == NodeSockets(conns, c.nodeId) = {s}
        own   == snapshotPeers(conns, c.nodeId)
    IN  /\ connections' = conns
        /\ list' = IF first
                   THEN [Broadcast(conns, {s}) EXCEPT ![s] = own]
                   ELSE [list EXCEPT ![s] = own]
        /\ pendingRebroadcast' = FALSE

\* The connect-time presence flow: the new socket gets its own list; peers get
\* one only when it is the first socket of its node.
addConnection(s, c) ==
    LET conns == Put(connections, s, c)
        first == NodeSockets(conns, c.nodeId) = {s}
        own   == snapshotPeers(conns, c.nodeId)
    IN  /\ connections' = conns
        /\ list' = IF first
                   THEN [Broadcast(conns, {s}) EXCEPT ![s] = own]
                   ELSE [list EXCEPT ![s] = own]
        /\ pendingRebroadcast' = IF first THEN FALSE ELSE pendingRebroadcast

Connect(n) ==
    /\ accepted < MaxSockets
    /\ accepted' = accepted + 1
    /\ readyState' = [readyState EXCEPT ![accepted + 1] = "open"]
    /\ addConnection(accepted + 1,
                     [nodeId |-> n, connectedAt |-> now, agentId |-> NoAgent])
    /\ UNCHANGED now

\* Bug: only a 4401 close tells the peers.
removeConnection_NoGrace(s, code) ==
    LET n     == connections[s].nodeId
        conns == Delete(connections, s)
        last  == NodeSockets(conns, n) = {}
    IN  /\ connections' = conns
        /\ list' = [IF last /\ code = AuthFailed THEN Broadcast(conns, {}) ELSE list
                      EXCEPT ![s] = EmptyMap]
        /\ UNCHANGED pendingRebroadcast

\* The last socket of a node: told at once on 4401, otherwise after the grace.
removeConnection(s, code) ==
    LET n     == connections[s].nodeId
        conns == Delete(connections, s)
        last  == NodeSockets(conns, n) = {}
    IN  /\ connections' = conns
        /\ list' = [IF last /\ code = AuthFailed THEN Broadcast(conns, {}) ELSE list
                      EXCEPT ![s] = EmptyMap]
        /\ pendingRebroadcast' = IF last THEN code # AuthFailed ELSE pendingRebroadcast

\* The runtime's close event: after a close handshake or out of the blue.
Close(s, code) ==
    /\ s \in DOMAIN connections
    /\ removeConnection(s, code)
    /\ readyState' = [readyState EXCEPT ![s] = "closed"]
    /\ UNCHANGED <<accepted, now>>

\* The debounce timer of schedulePresenceRebroadcast fires.
Rebroadcast ==
    /\ pendingRebroadcast
    /\ pendingRebroadcast' = FALSE
    /\ list' = Broadcast(connections, {})
    /\ UNCHANGED <<connections, accepted, readyState, now>>

\* The lifetime check, of a frame and of the sweep.
Expired(s) == now - connections[s].connectedAt >= Lifetime

\* socket.close(code): the close event follows later.
StartClosing(sockets) ==
    readyState' = [s \in Socket |-> IF s \in sockets THEN "closing" ELSE readyState[s]]

\* The client, or the network under it, begins the close handshake.
ClientCloses(s) ==
    /\ s \in DOMAIN connections
    /\ readyState[s] = "open"
    /\ StartClosing({s})
    /\ UNCHANGED <<connections, accepted, list, pendingRebroadcast, now>>

\* handleMessage closes the socket: over-age (any frame), or over-size, not
\* JSON, or of an unknown type.
CloseOnMessage(s) ==
    /\ s \in DOMAIN connections
    /\ readyState[s] = "open"
    /\ StartClosing({s})
    /\ UNCHANGED <<connections, accepted, list, pendingRebroadcast, now>>

\* handleMessage -> handleTextFrame -> handlePresencePublish.
Publish(s, a) ==
    /\ s \in DOMAIN connections
    /\ ~Expired(s)
    /\ LET conns == [connections EXCEPT ![s].agentId = a]
       IN  /\ connections' = conns
           /\ list' = Broadcast(conns, {})
    /\ UNCHANGED <<accepted, readyState, pendingRebroadcast, now>>

sweepExpiredConnections ==
    /\ \E s \in DOMAIN connections : Expired(s) /\ readyState[s] = "open"
    /\ StartClosing({s \in DOMAIN connections : Expired(s)})
    /\ UNCHANGED <<connections, accepted, list, pendingRebroadcast, now>>

Tick ==
    /\ now < MaxNow
    /\ now' = now + 1
    /\ UNCHANGED <<connections, accepted, readyState, list, pendingRebroadcast>>

Next ==
    \/ \E n \in Node : Connect(n)
    \/ \E s \in Socket, code \in CloseCode : Close(s, code)
    \/ Rebroadcast
    \/ \E s \in Socket : ClientCloses(s) \/ CloseOnMessage(s)
    \/ \E s \in Socket, a \in Agent \cup {NoAgent} : Publish(s, a)
    \/ sweepExpiredConnections
    \/ Tick

\* Timers fire; a close handshake that was begun ends in a close event.
Fairness ==
    /\ WF_roomVars(Rebroadcast)
    /\ WF_roomVars(sweepExpiredConnections)
    /\ \A s \in Socket :
          WF_roomVars(readyState[s] = "closing" /\ \E code \in CloseCode : Close(s, code))

Spec == Init /\ [][Next]_roomVars
FairSpec == Spec /\ Fairness

-----------------------------------------------------------------------------
(* Properties *)

PresenceList == UNION {[N -> Peer] : N \in SUBSET Node}

\* Every variable has its type; the Map holds only accepted sockets.
TypeOK ==
    /\ accepted \in 0..MaxSockets
    /\ DOMAIN connections \subseteq 1..accepted
    /\ connections \in [DOMAIN connections -> Connection]
    /\ readyState \in [Socket -> {"new", "open", "closing", "closed"}]
    /\ list \in [Socket -> PresenceList]
    /\ pendingRebroadcast \in BOOLEAN
    /\ now \in 0..MaxNow

OpenSockets == {s \in DOMAIN connections : readyState[s] = "open"}
Others(s) == NodesOf(connections) \ {connections[s].nodeId}

\* A connected node is on the list of every open socket of another node: no
\* interleaving of joins, hand-offs, closes and the debounce timer (which a
\* join cancels) leaves a peer that cannot see a live one.
LiveNodesListed ==
    \A s \in OpenSockets : Others(s) \subseteq DOMAIN list[s]

\* When no rebroadcast is owed, every open socket lists exactly the other
\* connected nodes: a departure is never forgotten, although addConnection
\* cancels the timer that was to announce it.
ListsExactWhenSettled ==
    ~pendingRebroadcast => \A s \in OpenSockets : DOMAIN list[s] = Others(s)

\* A node that left, and stays away, disappears from every open socket's list.
DepartureAnnounced ==
    \A n \in Node :
        n \notin NodesOf(connections) ~>
            \/ n \in NodesOf(connections)
            \/ \A s \in OpenSockets : n \notin DOMAIN list[s]

=============================================================================
