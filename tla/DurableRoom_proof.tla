-------------------------- MODULE DurableRoom_proof --------------------------
(***************************************************************************)
(* The presence of a room, and what hibernation, wake-ups and restarts of  *)
(* the Durable Object keep of it: types, the exactness of presence lists,  *)
(* the Map, and the alarm, for every set of nodes and agents and every     *)
(* bound.  The first half is about RoomPresence alone; the lemmas about    *)
(* its actions serve the second.                                           *)
(***************************************************************************)
EXTENDS DurableRoom, WellFoundedInduction, TLAPS

\* The values `connections` takes.
ConnMap(conns) ==
    /\ DOMAIN conns \subseteq Socket
    /\ conns \in [DOMAIN conns -> Connection]

-----------------------------------------------------------------------------
(* The list a socket is sent *)

\* Every non-empty set of naturals has a least element: the library's
\* well-foundedness of <, restated.
LEMMA LeastNat ==
    ASSUME NEW T \in SUBSET Nat, T # {}
    PROVE  \E x \in T : \A y \in T : x <= y
<1>1. PICK x \in T : \A y \in T : <<y, x>> \notin OpToRel(<, Nat)
  BY NatLessThanWellFounded, WFMin, Zenon
<1>2. \A y \in T : ~(y < x)
  BY <1>1 DEF OpToRel
<1> QED BY <1>2

\* A connected node has a newest socket, so the CHOOSE of snapshotPeers picks
\* one of the node's own connections.
LEMMA NewestSocketExists ==
    ASSUME NEW conns, ConnMap(conns), NEW n \in NodesOf(conns)
    PROVE  /\ NewestSocket(conns, n) \in DOMAIN conns
           /\ conns[NewestSocket(conns, n)].nodeId = n
<1> DEFINE S == NodeSockets(conns, n)
           Ages == {MaxNow - conns[s].connectedAt : s \in S}
<1>1. /\ S # {}
      /\ S \subseteq DOMAIN conns
      /\ S \subseteq Nat
      /\ \A s \in S : conns[s].connectedAt \in 0..MaxNow
  BY DEF NodeSockets, NodesOf, ConnMap, Socket, Connection
<1>2. Ages \in SUBSET Nat /\ Ages # {}
  BY <1>1, RoomAssumption
<1>3. PICK a \in Ages : \A b \in Ages : a <= b
  <2> HIDE DEF Ages
  <2> QED BY <1>2, LeastNat
<1> DEFINE T == {s \in S : MaxNow - conns[s].connectedAt = a}
<1>4. T \in SUBSET Nat /\ T # {}
  BY <1>1, <1>3
<1>5. PICK s \in T : \A t \in T : s <= t
  <2> HIDE DEF T
  <2> QED BY <1>4, LeastNat
<1>6. \A t \in S : \/ conns[t].connectedAt < conns[s].connectedAt
                   \/ conns[t].connectedAt = conns[s].connectedAt /\ s <= t
  <2> TAKE t \in S
  <2>1. /\ conns[t].connectedAt \in 0..MaxNow
        /\ conns[s].connectedAt \in 0..MaxNow
    BY <1>1, <1>5
  <2>2. MaxNow - conns[s].connectedAt <= MaxNow - conns[t].connectedAt
    BY <1>3, <1>5
  <2>3. MaxNow - conns[t].connectedAt = a => s <= t
    BY <1>5
  <2>4. MaxNow - conns[s].connectedAt = a
    BY <1>5
  <2> QED BY <2>1, <2>2, <2>3, <2>4, RoomAssumption
<1>7. \E u \in DOMAIN conns :
         /\ conns[u].nodeId = n
         /\ \A t \in DOMAIN conns : conns[t].nodeId = n =>
               \/ conns[t].connectedAt < conns[u].connectedAt
               \/ conns[t].connectedAt = conns[u].connectedAt /\ u <= t
  <2>1. s \in DOMAIN conns /\ conns[s].nodeId = n
    BY <1>5 DEF NodeSockets
  <2> QED BY <1>6, <2>1 DEF NodeSockets
<1> QED BY <1>7 DEF NewestSocket

\* A list holds one well-formed peer for each connected node but the receiver's.
LEMMA SnapshotType ==
    ASSUME NEW conns, ConnMap(conns), NEW self
    PROVE  /\ snapshotPeers(conns, self) \in PresenceList
           /\ DOMAIN snapshotPeers(conns, self) = NodesOf(conns) \ {self}
<1> DEFINE N == NodesOf(conns) \ {self}
<1>1. N \in SUBSET Node
  BY DEF NodesOf, ConnMap, Connection
<1>2. ASSUME NEW n \in N
      PROVE  LET c == conns[NewestSocket(conns, n)]
             IN  [connectedAt |-> c.connectedAt, agentId |-> c.agentId] \in Peer
  <2>1. NewestSocket(conns, n) \in DOMAIN conns
    BY NewestSocketExists
  <2>2. conns[NewestSocket(conns, n)] \in Connection
    BY <2>1 DEF ConnMap
  <2> QED BY <2>2 DEF Connection, Peer
<1>3. snapshotPeers(conns, self) \in [N -> Peer]
  BY <1>2 DEF snapshotPeers
<1> QED BY <1>1, <1>3 DEF PresenceList, snapshotPeers

\* A broadcast leaves every open socket it reaches with the exact list, and
\* every other list alone.
LEMMA BroadcastExact ==
    ASSUME NEW conns, ConnMap(conns), NEW ex,
           list \in [Socket -> PresenceList]
    PROVE  /\ Broadcast(conns, ex) \in [Socket -> PresenceList]
           /\ \A s \in DOMAIN conns \ ex :
                 readyState[s] = "open" =>
                    DOMAIN Broadcast(conns, ex)[s] = NodesOf(conns) \ {conns[s].nodeId}
<1>1. ASSUME NEW s \in Socket
      PROVE  (IF s \in DOMAIN conns \ ex /\ readyState[s] = "open"
              THEN snapshotPeers(conns, conns[s].nodeId) ELSE list[s]) \in PresenceList
  BY SnapshotType
<1>2. Broadcast(conns, ex) \in [Socket -> PresenceList]
  BY <1>1 DEF Broadcast
<1>3. ASSUME NEW s \in DOMAIN conns \ ex, readyState[s] = "open"
      PROVE  DOMAIN Broadcast(conns, ex)[s] = NodesOf(conns) \ {conns[s].nodeId}
  <2>1. s \in Socket
    BY DEF ConnMap
  <2>2. Broadcast(conns, ex)[s] = snapshotPeers(conns, conns[s].nodeId)
    BY <1>3, <2>1 DEF Broadcast
  <2> QED BY <2>2, SnapshotType
<1> QED BY <1>2, <1>3

-----------------------------------------------------------------------------
(* The inductive invariant *)

\* LiveNodesListed and ListsExactWhenSettled carry each other through a join
\* (which cancels the timer) and a departure (which arms it); the bound of
\* TypeOK on the Map's sockets makes the next socket number fresh.
IInv == TypeOK /\ LiveNodesListed /\ ListsExactWhenSettled

\* The two list invariants say of one socket with list l, among conns:
Lists(conns, s, l, owed) ==
    /\ NodesOf(conns) \ {conns[s].nodeId} \subseteq DOMAIN l
    /\ ~owed => DOMAIN l = NodesOf(conns) \ {conns[s].nodeId}

\* Lists, of every open socket, is what the two properties say.
LEMMA ListsIff ==
    (LiveNodesListed /\ ListsExactWhenSettled)
    <=> \A s \in OpenSockets : Lists(connections, s, list[s], pendingRebroadcast)
BY DEF LiveNodesListed, ListsExactWhenSettled, Others, Lists

\* The type of the Map.
LEMMA TypeConnMap == TypeOK => ConnMap(connections)
BY RoomAssumption DEF TypeOK, ConnMap, Socket

\* The invariant holds of an empty room.
LEMMA InitIInv == Init => IInv
<1> SUFFICES ASSUME Init PROVE IInv
  OBVIOUS
<1>1. EmptyMap \in PresenceList
  <2>1. EmptyMap \in [{} -> Peer]
    BY DEF EmptyMap
  <2> QED BY <2>1 DEF PresenceList
<1>2. TypeOK
  <2>1. connections \in [DOMAIN connections -> Connection] /\ DOMAIN connections = {}
    BY DEF Init, EmptyMap
  <2>2. /\ readyState \in [Socket -> {"new", "open", "closing", "closed"}]
        /\ list \in [Socket -> PresenceList]
    BY <1>1 DEF Init
  <2>3. accepted \in 0..MaxSockets /\ now \in 0..MaxNow
    BY RoomAssumption DEF Init
  <2>4. pendingRebroadcast \in BOOLEAN
    BY DEF Init
  <2> QED BY <2>1, <2>2, <2>3, <2>4 DEF Init, TypeOK
<1>3. OpenSockets = {}
  BY DEF Init, OpenSockets, EmptyMap
<1> QED BY <1>2, <1>3 DEF IInv, LiveNodesListed, ListsExactWhenSettled

\* A new socket is the first of its node, and everybody is told; or the node
\* was connected already and nobody's list needs a new node.
LEMMA AddConnectionIInv ==
    ASSUME IInv, NEW s \in Socket, s \notin DOMAIN connections, NEW c \in Connection,
           addConnection(s, c),
           accepted' \in 0..MaxSockets, accepted <= accepted', s <= accepted',
           readyState' \in [Socket -> {"new", "open", "closing", "closed"}],
           \A t \in Socket : t # s => readyState'[t] = readyState[t],
           UNCHANGED now
    PROVE  IInv'
<1> DEFINE n == c.nodeId
           conns == Put(connections, s, c)
           first == NodeSockets(conns, n) = {s}
<1>1. /\ DOMAIN connections \subseteq 1..accepted
      /\ s \in 1..accepted' /\ 1..accepted \subseteq 1..accepted'
      /\ connections \in [DOMAIN connections -> Connection]
      /\ list \in [Socket -> PresenceList]
  BY RoomAssumption DEF IInv, TypeOK, Socket
<1>2. /\ connections' = conns
      /\ DOMAIN conns = DOMAIN connections \cup {s}
      /\ conns[s] = c
      /\ \A t \in DOMAIN connections : conns[t] = connections[t]
  BY <1>1 DEF addConnection, Put
<1>3. ConnMap(conns)
  BY <1>1, <1>2, TypeConnMap DEF ConnMap, IInv, Put
<1>4. /\ snapshotPeers(conns, n) \in PresenceList
      /\ DOMAIN snapshotPeers(conns, n) = NodesOf(conns) \ {n}
  BY <1>3, SnapshotType
<1>5. /\ first => /\ list' = [Broadcast(conns, {s}) EXCEPT ![s] = snapshotPeers(conns, n)]
                  /\ pendingRebroadcast' = FALSE
      /\ ~first => /\ list' = [list EXCEPT ![s] = snapshotPeers(conns, n)]
                   /\ pendingRebroadcast' = pendingRebroadcast
  BY DEF addConnection
<1> HIDE DEF n, conns, first
<1>6. Broadcast(conns, {s}) \in [Socket -> PresenceList]
  BY <1>1, <1>3, BroadcastExact
<1>7. list' \in [Socket -> PresenceList]
  BY <1>1, <1>4, <1>5, <1>6
<1>8. TypeOK'
  <2>1. DOMAIN connections' \subseteq 1..accepted'
    BY <1>1, <1>2
  <2>2. connections' \in [DOMAIN connections' -> Connection]
    BY <1>2, <1>3 DEF ConnMap
  <2>3. readyState' \in [Socket -> {"new", "open", "closing", "closed"}]
    OBVIOUS
  <2>4. pendingRebroadcast' \in BOOLEAN
    BY <1>5, Zenon DEF IInv, TypeOK
  <2>5. now' \in 0..MaxNow
    BY DEF IInv, TypeOK
  <2> QED BY <1>1, <1>7, <2>1, <2>2, <2>3, <2>4, <2>5 DEF TypeOK
<1>9. ASSUME NEW t \in OpenSockets'
      PROVE  Lists(connections', t, list'[t], pendingRebroadcast')
  <2>1. t \in DOMAIN conns /\ t \in Socket
    BY <1>2, <1>3 DEF OpenSockets, ConnMap
  <2>2. CASE t = s
    <3>1. list'[t] = snapshotPeers(conns, n) /\ conns[t].nodeId = n
      BY <1>1, <1>2, <1>5, <1>6, <2>2 DEF n
    <3> QED BY <1>2, <1>4, <3>1 DEF Lists
  <2>3. CASE t # s /\ first
    <3>1. readyState[t] = "open"
      BY <1>2, <2>1, <2>3 DEF OpenSockets, IInv, TypeOK
    <3>2. list'[t] = Broadcast(conns, {s})[t]
      BY <1>5, <1>6, <2>1, <2>3
    <3>3. DOMAIN list'[t] = NodesOf(conns) \ {conns[t].nodeId}
      BY <1>1, <1>3, <2>1, <2>3, <3>1, <3>2, BroadcastExact
    <3> QED BY <1>2, <3>3 DEF Lists
  <2>4. CASE t # s /\ ~first
    <3>1. t \in OpenSockets
      BY <1>2, <2>1, <2>4 DEF OpenSockets, IInv, TypeOK
    <3>2. Lists(connections, t, list[t], pendingRebroadcast)
      BY <3>1, ListsIff DEF IInv
    <3>3. list'[t] = list[t] /\ pendingRebroadcast' = pendingRebroadcast
      BY <1>1, <1>5, <2>1, <2>4
    <3>4. NodesOf(conns) = NodesOf(connections)
      <4>1. PICK u \in DOMAIN conns : u # s /\ conns[u].nodeId = n
        BY <1>2, <2>4 DEF first, n, NodeSockets
      <4>2. u \in DOMAIN connections /\ connections[u].nodeId = n
        BY <1>2, <4>1
      <4> QED BY <1>1, <1>2, <4>2 DEF NodesOf, n
    <3>5. conns[t].nodeId = connections[t].nodeId
      BY <1>2, <2>1, <2>4
    <3> QED BY <1>2, <3>2, <3>3, <3>4, <3>5 DEF Lists
  <2> QED BY <2>2, <2>3, <2>4
<1>10. LiveNodesListed' /\ ListsExactWhenSettled'
  BY <1>9 DEF LiveNodesListed, ListsExactWhenSettled, Others, Lists
<1> QED BY <1>8, <1>10 DEF IInv

\* An upgrade accepts the next socket and adds its connection.
LEMMA ConnectIInv ==
    ASSUME IInv, NEW n \in Node, Connect(n)
    PROVE  IInv'
<1> DEFINE s == accepted + 1
           c == [nodeId |-> n, connectedAt |-> now, agentId |-> NoAgent]
<1>1. /\ s \in Socket /\ s \notin DOMAIN connections
      /\ accepted' = s /\ accepted' \in 0..MaxSockets /\ accepted <= accepted'
      /\ c \in Connection
      /\ UNCHANGED now
  BY RoomAssumption DEF IInv, TypeOK, Connect, Socket, Connection
<1>2. /\ readyState' \in [Socket -> {"new", "open", "closing", "closed"}]
      /\ \A t \in Socket : t # s => readyState'[t] = readyState[t]
  BY DEF IInv, TypeOK, Connect
<1>3. addConnection(s, c)
  BY DEF Connect
<1> HIDE DEF s, c
<1> QED BY <1>1, <1>2, <1>3, AddConnectionIInv DEF Socket

\* The last socket of a node goes: peers are told now, or later by the timer.
LEMMA CloseIInv ==
    ASSUME IInv, NEW s \in Socket, NEW code \in CloseCode, Close(s, code)
    PROVE  IInv'
<1> DEFINE n == connections[s].nodeId
           conns == Delete(connections, s)
           last == NodeSockets(conns, n) = {}
           told == last /\ code = AuthFailed
<1>1. /\ s \in DOMAIN connections
      /\ TypeOK
      /\ ConnMap(connections)
  BY TypeConnMap DEF IInv, Close
<1>2. /\ connections' = conns
      /\ DOMAIN conns = DOMAIN connections \ {s}
      /\ \A t \in DOMAIN conns : conns[t] = connections[t]
      /\ readyState' = [readyState EXCEPT ![s] = "closed"]
      /\ accepted' = accepted /\ now' = now
  BY DEF Close, removeConnection, Delete
<1>3. ConnMap(conns)
  BY <1>1, <1>2 DEF ConnMap, Delete
<1>4. /\ told => list' = [Broadcast(conns, {}) EXCEPT ![s] = EmptyMap]
      /\ ~told => list' = [list EXCEPT ![s] = EmptyMap]
      /\ last => pendingRebroadcast' = (code # AuthFailed)
      /\ ~last => pendingRebroadcast' = pendingRebroadcast
  BY DEF Close, removeConnection
<1> HIDE DEF conns, last, told
<1>5. EmptyMap \in PresenceList
  <2>1. EmptyMap \in [{} -> Peer]
    BY DEF EmptyMap
  <2> QED BY <2>1 DEF PresenceList
<1>6. list \in [Socket -> PresenceList] /\ Broadcast(conns, {}) \in [Socket -> PresenceList]
  BY <1>1, <1>3, BroadcastExact DEF TypeOK
<1>7. TypeOK'
  <2>1. DOMAIN connections' \subseteq 1..accepted'
    BY <1>1, <1>2 DEF TypeOK
  <2>2. connections' \in [DOMAIN connections' -> Connection]
    BY <1>2, <1>3 DEF ConnMap
  <2>3. readyState' \in [Socket -> {"new", "open", "closing", "closed"}]
    BY <1>1, <1>2 DEF TypeOK
  <2>4. list' \in [Socket -> PresenceList]
    BY <1>4, <1>5, <1>6
  <2>5. pendingRebroadcast' \in BOOLEAN
    BY <1>1, <1>4, Zenon DEF TypeOK
  <2> QED BY <1>1, <1>2, <2>1, <2>2, <2>3, <2>4, <2>5 DEF TypeOK
<1>8. ASSUME NEW t \in OpenSockets'
      PROVE  Lists(connections', t, list'[t], pendingRebroadcast')
  <2>1. /\ t \in DOMAIN conns /\ t \in Socket /\ t # s
        /\ conns[t] = connections[t]
        /\ t \in OpenSockets /\ readyState[t] = "open"
    BY <1>1, <1>2, <1>3 DEF OpenSockets, ConnMap, TypeOK
  <2>2. Lists(connections, t, list[t], pendingRebroadcast)
    BY <2>1, ListsIff DEF IInv
  <2>3. CASE told
    <3>1. list'[t] = Broadcast(conns, {})[t]
      BY <1>4, <1>6, <2>1, <2>3
    <3> QED BY <1>2, <1>3, <1>6, <2>1, <3>1, BroadcastExact DEF Lists
  <2>4. CASE ~told /\ last
    <3>1. list'[t] = list[t]
      BY <1>4, <1>6, <2>1, <2>4
    <3>2. pendingRebroadcast'
      BY <1>4, <2>4 DEF told
    <3>3. NodesOf(conns) \subseteq NodesOf(connections)
      BY <1>2 DEF NodesOf
    <3> QED BY <1>2, <2>1, <2>2, <3>1, <3>2, <3>3 DEF Lists
  <2>5. CASE ~last
    <3>1. list'[t] = list[t] /\ pendingRebroadcast' = pendingRebroadcast
      BY <1>4, <1>6, <2>1, <2>5 DEF told
    <3>2. PICK u \in DOMAIN conns : conns[u].nodeId = n
      BY <2>5 DEF last, NodeSockets
    <3>3. NodesOf(conns) = NodesOf(connections)
      BY <1>1, <1>2, <3>2 DEF NodesOf
    <3> QED BY <1>2, <2>1, <2>2, <3>1, <3>3 DEF Lists
  <2> QED BY <2>3, <2>4, <2>5
<1>9. LiveNodesListed' /\ ListsExactWhenSettled'
  BY <1>8 DEF LiveNodesListed, ListsExactWhenSettled, Others, Lists
<1> QED BY <1>7, <1>9 DEF IInv

\* The debounce timer settles every open socket's list.
LEMMA RebroadcastIInv ==
    ASSUME IInv, Rebroadcast
    PROVE  IInv'
<1>1. TypeOK /\ ConnMap(connections)
  BY TypeConnMap DEF IInv
<1>2. /\ list' = Broadcast(connections, {})
      /\ pendingRebroadcast' = FALSE
      /\ UNCHANGED <<connections, accepted, readyState, now>>
  BY DEF Rebroadcast
<1>3. TypeOK'
  BY <1>1, <1>2, BroadcastExact DEF TypeOK
<1>4. ASSUME NEW t \in OpenSockets'
      PROVE  Lists(connections', t, list'[t], pendingRebroadcast')
  BY <1>1, <1>2, BroadcastExact DEF OpenSockets, Lists, TypeOK
<1> QED BY <1>3, <1>4 DEF IInv, LiveNodesListed, ListsExactWhenSettled, Others, Lists

\* A publish changes an agent, not who is connected, and tells everyone.
LEMMA PublishIInv ==
    ASSUME IInv, NEW s \in Socket, NEW a \in Agent \cup {NoAgent}, Publish(s, a)
    PROVE  IInv'
<1> DEFINE conns == [connections EXCEPT ![s].agentId = a]
<1>1. TypeOK /\ ConnMap(connections) /\ s \in DOMAIN connections
  BY TypeConnMap DEF IInv, Publish
<1>2. /\ connections' = conns
      /\ list' = Broadcast(conns, {})
      /\ UNCHANGED <<accepted, readyState, pendingRebroadcast, now>>
  BY DEF Publish
<1>3. DOMAIN conns = DOMAIN connections
  OBVIOUS
<1>4. ConnMap(conns)
  <2>1. [connections[s] EXCEPT !.agentId = a] \in Connection
    BY <1>1 DEF ConnMap, Connection
  <2> QED BY <1>1, <1>3, <2>1 DEF ConnMap
<1> HIDE DEF conns
<1>5. TypeOK'
  <2>1. list' \in [Socket -> PresenceList]
    BY <1>1, <1>2, <1>4, BroadcastExact DEF TypeOK
  <2> QED BY <1>1, <1>2, <1>3, <1>4, <2>1 DEF TypeOK, ConnMap
<1>6. ASSUME NEW t \in OpenSockets'
      PROVE  Lists(connections', t, list'[t], pendingRebroadcast')
  <2>1. t \in DOMAIN conns /\ readyState[t] = "open"
    BY <1>2 DEF OpenSockets
  <2> QED BY <1>1, <1>2, <1>4, <2>1, BroadcastExact DEF Lists, TypeOK
<1> QED BY <1>5, <1>6 DEF IInv, LiveNodesListed, ListsExactWhenSettled, Others, Lists

\* Beginning to close sockets only shrinks the set the invariant speaks of.
LEMMA StartClosingIInv ==
    ASSUME IInv, NEW sockets, StartClosing(sockets),
           UNCHANGED <<connections, accepted, list, pendingRebroadcast, now>>
    PROVE  IInv'
<1>1. TypeOK'
  BY DEF IInv, TypeOK, StartClosing
<1>2. DOMAIN connections \subseteq Socket
  BY TypeConnMap DEF IInv, ConnMap
<1>3. OpenSockets' \subseteq OpenSockets
  BY <1>2 DEF OpenSockets, StartClosing
<1> QED BY <1>1, <1>3 DEF IInv, LiveNodesListed, ListsExactWhenSettled, Others

\* Every action of the room preserves the invariant.
LEMMA NextIInv == IInv /\ [Next]_roomVars => IInv'
<1> SUFFICES ASSUME IInv, [Next]_roomVars PROVE IInv'
  OBVIOUS
<1>1. ASSUME NEW n \in Node, Connect(n) PROVE IInv'
  BY <1>1, ConnectIInv
<1>2. ASSUME NEW s \in Socket, NEW code \in CloseCode, Close(s, code) PROVE IInv'
  BY <1>2, CloseIInv
<1>3. CASE Rebroadcast
  BY <1>3, RebroadcastIInv
<1>4. ASSUME NEW s \in Socket, ClientCloses(s) \/ CloseOnMessage(s) PROVE IInv'
  BY <1>4, StartClosingIInv DEF ClientCloses, CloseOnMessage
<1>5. ASSUME NEW s \in Socket, NEW a \in Agent \cup {NoAgent}, Publish(s, a) PROVE IInv'
  BY <1>5, PublishIInv
<1>6. CASE sweepExpiredConnections
  BY <1>6, StartClosingIInv DEF sweepExpiredConnections
<1>7. CASE Tick
  BY <1>7, RoomAssumption DEF Tick, IInv, TypeOK, LiveNodesListed, ListsExactWhenSettled,
     OpenSockets, Others, NodesOf
<1>8. CASE UNCHANGED roomVars
  BY <1>8 DEF roomVars, IInv, TypeOK, LiveNodesListed, ListsExactWhenSettled,
     OpenSockets, Others, NodesOf
<1> QED BY <1>1, <1>2, <1>3, <1>4, <1>5, <1>6, <1>7, <1>8 DEF Next

-----------------------------------------------------------------------------
(* The theorems *)

\* Every reachable state of a room is well typed.
THEOREM TypeCorrect == Spec => []TypeOK
<1>1. IInv => TypeOK
  BY DEF IInv
<1> QED BY <1>1, InitIInv, NextIInv, PTL DEF Spec

\* No interleaving of joins, hand-offs, publishes, closes and timers hides a
\* connected node from an open socket of another node.
THEOREM NoLiveNodeHidden == Spec => []LiveNodesListed
<1>1. IInv => LiveNodesListed
  BY DEF IInv
<1> QED BY <1>1, InitIInv, NextIInv, PTL DEF Spec

\* Unless the debounced rebroadcast is owed, membership lists are exact.
THEOREM SettledListsExact == Spec => []ListsExactWhenSettled
<1>1. IInv => ListsExactWhenSettled
  BY DEF IInv
<1> QED BY <1>1, InitIInv, NextIInv, PTL DEF Spec

-----------------------------------------------------------------------------
(* The Durable Object                                                      *)

\* The Map is what is attached, nothing at all, or what has been restored.
Mirror ==
    /\ phase \in {"awake", "asleep", "waking"}
    /\ attachment = [s \in DOMAIN attachment |-> attachment[s]]
    /\ phase = "awake" => connections = attachment
    /\ phase = "asleep" => connections = EmptyMap
    /\ phase = "waking" =>
          connections = [s \in DOMAIN attachment \ toRestore |-> attachment[s]]
    /\ phase # "waking" => toRestore = {}
    /\ toRestore \subseteq DOMAIN attachment

\* The alarm is set, or some fetch is about to see to it.
Cover == ensuring \in [Socket -> {"idle", "getAlarm", "setAlarm"}] /\ SweepAlarmCovers

\* What is attached was accepted; asleep, the lists are right for it.
Asleep ==
    /\ DOMAIN attachment \subseteq 1..accepted
    /\ attachment \in [DOMAIN attachment -> Connection]
    /\ phase = "asleep" =>
          \A s \in DOMAIN attachment : readyState[s] = "open" =>
              Lists(attachment, s, list[s], pendingRebroadcast)

DurableInv == Mirror /\ Cover /\ Asleep /\ IInv

-----------------------------------------------------------------------------
(* The Map *)

\* What EXCEPT makes of a function is a function with the same domain.
LEMMA ExceptIsFunction ==
    ASSUME NEW f, f = [t \in DOMAIN f |-> f[t]], NEW s, NEW c
    PROVE  [f EXCEPT ![s] = c] = [t \in DOMAIN f |-> [f EXCEPT ![s] = c][t]]
  BY Zenon

\* Every action keeps the Map and the attachments together.
LEMMA MirrorStep == Mirror /\ [DurableNext]_vars => Mirror'
<1> SUFFICES ASSUME Mirror, [DurableNext]_vars
             PROVE  Mirror'
  OBVIOUS
<1> USE DEF Mirror, roomVars, objectVars
<1>1. ASSUME NEW n \in Node, fetch(n)
      PROVE  Mirror'
  BY <1>1 DEF fetch, Connect, addConnection, Put
<1>2. ASSUME NEW s \in Socket, EnsureRead(s) \/ EnsureSet(s) \/ ClosingFrame(s) \/ PeerCloses(s)
      PROVE  Mirror'
  BY <1>2 DEF EnsureRead, EnsureSet, ClosingFrame, CloseOnMessage, PeerCloses
<1>3. ASSUME NEW s \in Socket, NEW code \in CloseCode, webSocketClose(s, code)
      PROVE  Mirror'
  BY <1>3 DEF webSocketClose, Close, removeConnection, Delete
<1>4. ASSUME NEW s \in Publisher, NEW a \in Agent \cup {NoAgent}, PublishFrame(s, a)
      PROVE  Mirror'
  <2>1. /\ phase' = "awake" /\ toRestore' = {}
        /\ s \in DOMAIN connections /\ connections = attachment
        /\ connections' = [connections EXCEPT ![s].agentId = a]
        /\ attachment' = Put(attachment, s, connections'[s])
    BY <1>4 DEF PublishFrame, Publish
  <2>2. attachment' = [t \in DOMAIN connections |-> connections'[t]]
    BY <2>1 DEF Put
  <2>3. connections' = [t \in DOMAIN connections |-> connections'[t]]
    <3>1. connections' = [connections EXCEPT ![s] = [connections[s] EXCEPT !.agentId = a]]
      BY <2>1
    <3>2. connections = [t \in DOMAIN connections |-> connections[t]]
      BY <2>1
    <3> HIDE DEF Mirror
    <3> QED
      BY ONLY <3>1, <3>2, ExceptIsFunction
  <2> QED
    BY <2>1, <2>2, <2>3
<1>5. CASE GraceTimer \/ AlarmFires \/ ClockTick
  BY <1>5 DEF GraceTimer, Rebroadcast, AlarmFires, ClockTick, Tick
<1>6. CASE Hibernate
  BY <1>6 DEF Hibernate
<1>7. CASE Wake
  BY <1>7 DEF Wake, EmptyMap
<1>8. ASSUME NEW s \in Socket, Restore(s)
      PROVE  Mirror'
  <2>1. /\ s \in toRestore /\ phase = "waking" /\ toRestore' = toRestore \ {s}
        /\ connections' = Put(connections, s, attachment[s])
        /\ attachment' = attachment
        /\ phase' = IF toRestore' = {} THEN "awake" ELSE phase
    BY <1>8 DEF Restore, addConnection
  <2>2. connections' = [t \in DOMAIN attachment \ toRestore' |-> attachment[t]]
    BY <2>1 DEF Put
  <2> QED
    BY <2>1, <2>2
<1>9. CASE Restart
  BY <1>9 DEF Restart, EmptyMap
<1>10. CASE UNCHANGED vars
  BY <1>10 DEF vars
<1> QED
  BY <1>1, <1>2, <1>3, <1>4, <1>5, <1>6, <1>7, <1>8, <1>9, <1>10 DEF DurableNext

\* Nothing is attached and nobody is connected at the start.
LEMMA MirrorInit == DurableInit => Mirror
  BY DEF DurableInit, Init, Mirror, EmptyMap

\* Whenever the object is awake, its Map is what the attachments say, although
\* hibernation drops the Map (constructor, handlePresencePublish).
THEOREM MapSurvivesHibernation == DurableSpec => []AttachmentsMirrorMap
<1>1. Mirror => AttachmentsMirrorMap
  BY DEF Mirror, AttachmentsMirrorMap
<1> QED
  BY <1>1, MirrorInit, MirrorStep, PTL DEF DurableSpec

-----------------------------------------------------------------------------
(* The alarm *)

\* What could leave attached sockets without an alarm sets one, or has just
\* started to.
LEMMA CoverStep == Mirror /\ IInv /\ Cover /\ [DurableNext]_vars => Cover'
<1> SUFFICES ASSUME Mirror, IInv, Cover, [DurableNext]_vars
             PROVE  Cover'
  OBVIOUS
<1> USE DEF Cover, SweepAlarmCovers, roomVars, objectVars
<1>1. ASSUME NEW n \in Node, fetch(n)
      PROVE  Cover'
  <2>1. accepted' \in Socket
    BY <1>1, RoomAssumption DEF fetch, Connect, IInv, TypeOK, Socket
  <2>2. ensuring' = [ensuring EXCEPT ![accepted'] = "getAlarm"]
    BY <1>1 DEF fetch
  <2> QED
    BY <2>1, <2>2
<1>2. ASSUME NEW s \in Socket, EnsureRead(s)
      PROVE  Cover'
  BY <1>2 DEF EnsureRead
<1>3. ASSUME NEW s \in Socket, EnsureSet(s)
      PROVE  Cover'
  BY <1>3 DEF EnsureSet
<1>4. ASSUME NEW s \in Socket, ClosingFrame(s) \/ PeerCloses(s) \/ Restore(s)
      PROVE  Cover'
  BY <1>4 DEF ClosingFrame, PeerCloses, Restore
<1>5. ASSUME NEW s \in Socket, NEW code \in CloseCode, webSocketClose(s, code)
      PROVE  Cover'
  <2>1. /\ DOMAIN attachment' = DOMAIN attachment \ {s}
        /\ alarm => alarm'
        /\ ensuring' = ensuring
    BY <1>5 DEF webSocketClose, Delete
  <2> QED
    BY <2>1
<1>6. ASSUME NEW s \in Publisher, NEW a \in Agent \cup {NoAgent}, PublishFrame(s, a)
      PROVE  Cover'
  <2>1. DOMAIN attachment' = DOMAIN attachment /\ UNCHANGED <<alarm, ensuring>>
    BY <1>6 DEF PublishFrame, Publish, Put, Mirror
  <2> QED
    BY <2>1
<1>7. CASE GraceTimer \/ ClockTick
  BY <1>7 DEF GraceTimer, ClockTick
<1>8. CASE AlarmFires
  BY <1>8 DEF AlarmFires, Mirror
<1>9. CASE Hibernate \/ Wake
  BY <1>9 DEF Hibernate, Wake
<1>10. CASE Restart
  BY <1>10 DEF Restart, EmptyMap
<1>11. CASE UNCHANGED vars
  BY <1>11 DEF vars
<1> QED
  BY <1>1, <1>2, <1>3, <1>4, <1>5, <1>6, <1>7, <1>8, <1>9, <1>10, <1>11 DEF DurableNext

-----------------------------------------------------------------------------
(* The lists *)

\* The constructor's addConnection is one of the room's own joins.
LEMMA RestoreIInv ==
    ASSUME Mirror, Asleep, IInv, NEW s \in Socket, Restore(s)
    PROVE  IInv'
<1>1. /\ s \in toRestore /\ s \in DOMAIN attachment /\ phase = "waking"
      /\ s \notin DOMAIN connections
      /\ attachment[s] \in Connection
      /\ addConnection(s, attachment[s])
      /\ UNCHANGED <<accepted, readyState, now>>
  BY DEF Restore, Mirror, Asleep
<1>2. /\ accepted \in 0..MaxSockets /\ s \in 1..accepted
      /\ readyState \in [Socket -> {"new", "open", "closing", "closed"}]
  BY <1>1 DEF IInv, TypeOK, Asleep
<1> QED
  BY <1>1, <1>2, AddConnectionIInv, RoomAssumption DEF Socket

\* The room's invariant holds in memory, be it all of the room or a part.
LEMMA RoomStep == Mirror /\ Asleep /\ IInv /\ [DurableNext]_vars => IInv'
<1> SUFFICES ASSUME Mirror, Asleep, IInv, [DurableNext]_vars
             PROVE  IInv'
  OBVIOUS
<1>a. ASSUME UNCHANGED roomVars
      PROVE  IInv'
  BY <1>a, NextIInv
<1>b. ASSUME connections' = EmptyMap, UNCHANGED <<accepted, now>>,
             readyState' \in [Socket -> {"new", "open", "closing", "closed"}],
             list' \in [Socket -> PresenceList], pendingRebroadcast' \in BOOLEAN
      PROVE  IInv'
  <2>1. connections' \in [DOMAIN connections' -> Connection] /\ DOMAIN connections' = {}
    BY <1>b DEF EmptyMap
  <2>2. OpenSockets' = {}
    BY <2>1 DEF OpenSockets
  <2>3. TypeOK'
    BY <1>b, <2>1 DEF IInv, TypeOK
  <2> QED
    BY <2>2, <2>3 DEF IInv, LiveNodesListed, ListsExactWhenSettled
<1>1. ASSUME NEW n \in Node, fetch(n)
      PROVE  IInv'
  BY <1>1, ConnectIInv DEF fetch
<1>2. ASSUME NEW s \in Socket, EnsureRead(s) \/ EnsureSet(s)
      PROVE  IInv'
  BY <1>2, <1>a DEF EnsureRead, EnsureSet
<1>3. ASSUME NEW s \in Socket, ClosingFrame(s) \/ PeerCloses(s)
      PROVE  IInv'
  BY <1>3, StartClosingIInv DEF ClosingFrame, CloseOnMessage, PeerCloses
<1>4. ASSUME NEW s \in Socket, NEW code \in CloseCode, webSocketClose(s, code)
      PROVE  IInv'
  BY <1>4, CloseIInv DEF webSocketClose
<1>5. ASSUME NEW s \in Publisher, NEW a \in Agent \cup {NoAgent}, PublishFrame(s, a)
      PROVE  IInv'
  BY <1>5, PublishIInv, PublisherAssumption DEF PublishFrame
<1>6. CASE GraceTimer
  BY <1>6, RebroadcastIInv DEF GraceTimer
<1>7. CASE AlarmFires
  BY <1>7, StartClosingIInv DEF AlarmFires
<1>8. CASE ClockTick
  <2>1. Next
    BY <1>8 DEF ClockTick, Next
  <2> QED
    BY <2>1, NextIInv
<1>9. CASE Hibernate
  <2>1. UNCHANGED <<accepted, now, readyState, list, pendingRebroadcast>> /\ connections' = EmptyMap
    BY <1>9 DEF Hibernate
  <2> QED
    BY <2>1, <1>b DEF IInv, TypeOK
<1>10. CASE Wake
  BY <1>10, <1>a DEF Wake
<1>11. ASSUME NEW s \in Socket, Restore(s)
       PROVE  IInv'
  BY <1>11, RestoreIInv
<1>12. CASE Restart
  <2>1. EmptyMap \in PresenceList
    <3>1. EmptyMap \in [{} -> Peer]
      BY DEF EmptyMap
    <3> QED
      BY <3>1 DEF PresenceList
  <2>2. /\ readyState' \in [Socket -> {"new", "open", "closing", "closed"}]
        /\ list' \in [Socket -> PresenceList]
        /\ connections' = EmptyMap /\ UNCHANGED <<accepted, now>>
    BY <1>12, <2>1 DEF Restart, IInv, TypeOK
  <2>3. pendingRebroadcast' \in BOOLEAN
    BY <1>12 DEF Restart
  <2> QED
    BY <2>2, <2>3, <1>b
<1>13. CASE UNCHANGED vars
  BY <1>13, <1>a DEF vars
<1> QED
  BY <1>1, <1>2, <1>3, <1>4, <1>5, <1>6, <1>7, <1>8, <1>9, <1>10, <1>11, <1>12, <1>13
     DEF DurableNext

\* A published agent is attached as it is connected.
LEMMA PublishAttaches ==
    ASSUME Mirror, Asleep, IInv,
           NEW s \in Publisher, NEW a \in Agent \cup {NoAgent}, PublishFrame(s, a)
    PROVE  /\ DOMAIN attachment' = DOMAIN attachment
           /\ attachment' \in [DOMAIN attachment -> Connection]
<1>1. /\ s \in DOMAIN connections /\ connections = attachment
      /\ connections' = [connections EXCEPT ![s].agentId = a]
      /\ attachment' = Put(attachment, s, connections'[s])
  BY DEF PublishFrame, Publish, Mirror
<1>2. connections[s] \in Connection
  BY <1>1 DEF Asleep
<1>3. connections'[s] \in Connection
  BY <1>1, <1>2 DEF Connection
<1> QED
  BY <1>1, <1>3 DEF Put, Asleep

\* Only a hibernating object falls asleep, and what it leaves is right.
LEMMA AsleepStep == Mirror /\ Asleep /\ IInv /\ [DurableNext]_vars => Asleep'
<1> SUFFICES ASSUME Mirror, Asleep, IInv, [DurableNext]_vars
             PROVE  Asleep'
  OBVIOUS
<1>a. ASSUME phase' # "asleep", UNCHANGED <<attachment, accepted>>
      PROVE  Asleep'
  BY <1>a DEF Asleep
<1>b. ASSUME UNCHANGED <<roomVars, phase, attachment>>
      PROVE  Asleep'
  BY <1>b DEF Asleep, roomVars, Lists
<1>1. ASSUME NEW n \in Node, fetch(n)
      PROVE  Asleep'
  <2>1. /\ accepted \in Nat /\ accepted' = accepted + 1
        /\ now \in 0..MaxNow
        /\ phase' = "awake"
        /\ attachment' = Put(attachment, accepted',
                             [nodeId |-> n, connectedAt |-> now, agentId |-> NoAgent])
    BY <1>1, RoomAssumption DEF fetch, Connect, IInv, TypeOK
  <2>2. [nodeId |-> n, connectedAt |-> now, agentId |-> NoAgent] \in Connection
    BY <2>1 DEF Connection
  <2>3. 1..accepted \subseteq 1..accepted' /\ accepted' \in 1..accepted'
    BY <2>1
  <2> QED
    BY <2>1, <2>2, <2>3 DEF Put, Asleep
<1>2. ASSUME NEW s \in Socket, EnsureRead(s) \/ EnsureSet(s)
      PROVE  Asleep'
  BY <1>2, <1>b DEF EnsureRead, EnsureSet
<1>3. ASSUME NEW s \in Socket, ClosingFrame(s) \/ PeerCloses(s)
      PROVE  Asleep'
  <2>1. UNCHANGED <<attachment, accepted, list, pendingRebroadcast, phase>>
    BY <1>3 DEF ClosingFrame, CloseOnMessage, PeerCloses, objectVars
  <2>2. \A t \in Socket : readyState'[t] = "open" => readyState[t] = "open"
    BY <1>3 DEF ClosingFrame, CloseOnMessage, PeerCloses, StartClosing
  <2>3. DOMAIN attachment \subseteq Socket
    BY RoomAssumption DEF Asleep, IInv, TypeOK, Socket
  <2> QED
    BY <2>1, <2>2, <2>3 DEF Asleep, Lists
<1>4. ASSUME NEW s \in Socket, NEW code \in CloseCode, webSocketClose(s, code)
      PROVE  Asleep'
  BY <1>4 DEF webSocketClose, Close, Delete, Asleep
<1>5. ASSUME NEW s \in Publisher, NEW a \in Agent \cup {NoAgent}, PublishFrame(s, a)
      PROVE  Asleep'
  <2>1. UNCHANGED accepted /\ phase' = "awake"
    BY <1>5 DEF PublishFrame, Publish
  <2> QED
    BY <2>1, <1>5, PublishAttaches DEF Asleep
<1>6. CASE GraceTimer \/ AlarmFires
  BY <1>6, <1>a DEF GraceTimer, Rebroadcast, AlarmFires, objectVars
<1>7. CASE ClockTick
  BY <1>7 DEF ClockTick, Tick, objectVars, Asleep, Lists
<1>8. CASE Hibernate
  <2>1. /\ connections = attachment
        /\ UNCHANGED <<attachment, accepted, list, pendingRebroadcast, readyState>>
    BY <1>8 DEF Hibernate, Mirror
  <2>2. \A s \in DOMAIN attachment : readyState[s] = "open" =>
            Lists(attachment, s, list[s], pendingRebroadcast)
    BY <2>1, ListsIff DEF IInv, OpenSockets
  <2> QED
    BY <2>1, <2>2 DEF Asleep, Lists
<1>9. CASE Wake
  BY <1>9, <1>a DEF Wake, roomVars
<1>10. ASSUME NEW s \in Socket, Restore(s)
       PROVE  Asleep'
  BY <1>10, <1>a DEF Restore, Mirror
<1>11. CASE Restart
  BY <1>11 DEF Restart, EmptyMap, Asleep
<1>12. CASE UNCHANGED vars
  BY <1>12, <1>b DEF vars, objectVars
<1> QED
  BY <1>1, <1>2, <1>3, <1>4, <1>5, <1>6, <1>7, <1>8, <1>9, <1>10, <1>11, <1>12
     DEF DurableNext

-----------------------------------------------------------------------------
(* The theorems *)

\* The four parts hold of a new object.
LEMMA DurableInvInit == DurableInit => DurableInv
<1> SUFFICES ASSUME DurableInit
             PROVE  DurableInv
  OBVIOUS
<1>1. IInv
  BY InitIInv DEF DurableInit
<1>2. Cover /\ Asleep
  BY DEF DurableInit, Init, Cover, SweepAlarmCovers, Asleep, EmptyMap
<1> QED
  BY <1>1, <1>2, MirrorInit DEF DurableInv

\* They hold in every state an object reaches.
LEMMA DurableInvAlways == DurableSpec => []DurableInv
<1>1. DurableInv /\ [DurableNext]_vars => DurableInv'
  BY MirrorStep, CoverStep, AsleepStep, RoomStep DEF DurableInv
<1> QED
  BY <1>1, DurableInvInit, PTL DEF DurableSpec

\* While a socket is attached the alarm that bounds its life is set or about to
\* be (ensureSweepAlarm, webSocketClose, alarm).
THEOREM AlarmNeverLost == DurableSpec => []SweepAlarmCovers
<1>1. DurableInv => SweepAlarmCovers
  BY DEF DurableInv, Cover
<1> QED
  BY <1>1, DurableInvAlways, PTL

\* Outside the constructor every open socket lists every other live node, and
\* nobody else once no rebroadcast is owed (addConnection, Hibernate, Wake).
THEOREM ListsSurviveHibernation == DurableSpec => []ListsExactAcrossHibernation
<1>1. DurableInv => ListsExactAcrossHibernation
  <2> SUFFICES ASSUME DurableInv, phase # "waking",
                      NEW s \in DOMAIN attachment, readyState[s] = "open"
               PROVE  Lists(attachment, s, list[s], pendingRebroadcast)
    BY DEF ListsExactAcrossHibernation, Lists
  <2>1. CASE phase = "asleep"
    BY <2>1 DEF DurableInv, Asleep
  <2>2. CASE phase = "awake"
    BY <2>2, ListsIff DEF DurableInv, Mirror, IInv, OpenSockets
  <2> QED
    BY <2>1, <2>2 DEF DurableInv, Mirror
<1> QED
  BY <1>1, DurableInvAlways, PTL

=============================================================================
