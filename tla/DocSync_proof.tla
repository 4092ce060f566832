----------------------------- MODULE DocSync_proof -----------------------------
(***************************************************************************)
(* The room's log holds what the room shows, DocSync implements SharedDoc, *)
(* and idle clients have what the room has, for every set of clients and   *)
(* every bound.                                                            *)
(***************************************************************************)
EXTENDS DocSync, WellFoundedInduction, TLAPS

Clock == [Client -> 0..MaxEdits]
Doc == [clock : Clock, pend : SUBSET Op]

-----------------------------------------------------------------------------
(* Documents *)

\* Every non-empty set of naturals has a least element: the library's
\* well-foundedness of <, restated.
LEMMA LeastNat ==
    ASSUME NEW T \in SUBSET Nat, T # {}
    PROVE  \E x \in T : \A y \in T : x <= y
<1>1. PICK x \in T : \A y \in T : <<y, x>> \notin OpToRel(<, Nat)
  BY NatLessThanWellFounded, WFMin, Zenon
<1>2. \A y \in T : ~(y < x)
  BY <1>1 DEF OpToRel
<1> QED BY <1>2

\* An operation is its author and its number.
LEMMA OpShape ==
    /\ \A op \in Op : op[1] \in Client /\ op[2] \in 1..MaxEdits /\ op = <<op[1], op[2]>>
    /\ \A a \in Client, k \in 1..MaxEdits :
          <<a, k>> \in Op /\ <<a, k>>[1] = a /\ <<a, k>>[2] = k
    /\ \A a, k : <<a, k>> \in Op => a \in Client /\ k \in 1..MaxEdits
  BY DEF Op

\* From n on, the first number whose successor is missing.
LEMMA FirstGap ==
    ASSUME NEW ops \in SUBSET Op, NEW a \in Client, NEW n \in 0..MaxEdits
    PROVE  \E m \in n..MaxEdits : /\ \A k \in n + 1 .. m : <<a, k>> \in ops
                                  /\ <<a, m + 1>> \notin ops
<1> DEFINE T == {k \in Nat : k > n /\ <<a, k>> \notin ops}
<1>1. MaxEdits + 1 \in T
  BY SyncAssumption, OpShape
<1>2. PICK x \in T : \A y \in T : x <= y
  <2> HIDE DEF T
  <2>1. T # {}
    BY <1>1
  <2>2. T \in SUBSET Nat
    BY DEF T
  <2> QED
    BY <2>1, <2>2, LeastNat
<1>3. x - 1 \in n..MaxEdits
  BY <1>1, <1>2, SyncAssumption
<1>4. \A k \in n + 1 .. x - 1 : <<a, k>> \in ops
  BY <1>2, <1>3, SyncAssumption
<1>5. <<a, (x - 1) + 1>> \notin ops
  BY <1>2
<1> QED
  BY <1>3, <1>4, <1>5

\* What applying an update to a document gives.
LEMMA ApplyUpdate ==
    ASSUME NEW d \in Doc, NEW ops \in SUBSET Op
    PROVE  LET e == applyUpdate(d, ops)
               all == d.pend \cup ops
           IN  /\ e \in Doc
               /\ e.pend = {op \in all : op[2] > e.clock[op[1]]}
               /\ \A a \in Client :
                     /\ d.clock[a] <= e.clock[a]
                     /\ \A k \in d.clock[a] + 1 .. e.clock[a] : <<a, k>> \in all
                     /\ <<a, e.clock[a] + 1>> \notin all
<1> DEFINE all == d.pend \cup ops
           Gap(a, m) == /\ \A k \in d.clock[a] + 1 .. m : <<a, k>> \in all
                        /\ <<a, m + 1>> \notin all
           reach(a) == CHOOSE m \in d.clock[a]..MaxEdits : Gap(a, m)
           clock == [a \in Client |-> reach(a)]
<1>1. all \in SUBSET Op /\ \A a \in Client : d.clock[a] \in 0..MaxEdits
  BY DEF Doc, Clock
<1>2. \A a \in Client : reach(a) \in d.clock[a]..MaxEdits /\ Gap(a, reach(a))
  <2> SUFFICES ASSUME NEW a \in Client
               PROVE  reach(a) \in d.clock[a]..MaxEdits /\ Gap(a, reach(a))
    OBVIOUS
  <2>1. \E m \in d.clock[a]..MaxEdits : Gap(a, m)
    <3> HIDE DEF all
    <3> QED
      BY <1>1, FirstGap
  <2> HIDE DEF Gap
  <2> QED
    BY <2>1
<1> HIDE DEF Gap
<1>3. applyUpdate(d, ops) = [clock |-> clock, pend |-> {op \in all : op[2] > clock[op[1]]}]
  BY DEF applyUpdate, Gap
<1>4. clock \in Clock
  <2> HIDE DEF reach, all
  <2> QED
    BY <1>1, <1>2, SyncAssumption DEF Clock
<1>5. \A a \in Client : clock[a] = reach(a)
  OBVIOUS
<1> HIDE DEF clock, reach
<1>6. applyUpdate(d, ops) \in Doc
  BY <1>1, <1>3, <1>4 DEF Doc
<1>7. /\ applyUpdate(d, ops).clock = clock
      /\ applyUpdate(d, ops).pend = {op \in all : op[2] > clock[op[1]]}
  BY <1>3
<1>8. \A a \in Client : clock[a] \in d.clock[a]..MaxEdits /\ Gap(a, clock[a])
  BY <1>2, <1>5
<1>9. \A a \in Client : d.clock[a] <= clock[a]
  <2> HIDE DEF all
  <2> SUFFICES ASSUME NEW a \in Client
               PROVE  d.clock[a] <= clock[a]
    OBVIOUS
  <2>1. d.clock[a] \in 0..MaxEdits /\ clock[a] \in d.clock[a]..MaxEdits
    BY <1>1, <1>8
  <2> QED
    BY <2>1, SyncAssumption
<1>10. \A a \in Client : /\ \A k \in d.clock[a] + 1 .. clock[a] : <<a, k>> \in all
                         /\ <<a, clock[a] + 1>> \notin all
  <2> HIDE DEF all
  <2> QED
    BY ONLY <1>8 DEF Gap
<1> DEFINE e == applyUpdate(d, ops)
<1>11. e \in Doc /\ e.clock = clock /\ e.pend = {op \in all : op[2] > clock[op[1]]}
  BY <1>6, <1>7
<1> HIDE DEF e
<1>12. /\ e.pend = {op \in all : op[2] > e.clock[op[1]]}
       /\ \A a \in Client : /\ d.clock[a] <= e.clock[a]
                            /\ \A k \in d.clock[a] + 1 .. e.clock[a] : <<a, k>> \in all
                            /\ <<a, e.clock[a] + 1>> \notin all
  BY <1>9, <1>10, <1>11
<1> QED
  BY <1>11, <1>12 DEF e

\* An update adds its operations to what the document knows, and nothing else.
LEMMA ApplyEncodes ==
    ASSUME NEW d \in Doc, NEW ops \in SUBSET Op
    PROVE  encodeDoc(applyUpdate(d, ops)) = encodeDoc(d) \cup ops
<1> DEFINE e == applyUpdate(d, ops)
           all == d.pend \cup ops
<1>1. /\ e \in Doc
      /\ e.pend = {op \in all : op[2] > e.clock[op[1]]}
      /\ \A a \in Client :
            /\ d.clock[a] <= e.clock[a]
            /\ \A k \in d.clock[a] + 1 .. e.clock[a] : <<a, k>> \in all
  BY ApplyUpdate
<1> HIDE DEF e
<1>2. \A a \in Client : d.clock[a] \in 0..MaxEdits /\ e.clock[a] \in 0..MaxEdits
  BY <1>1 DEF Doc, Clock
<1>3. all \subseteq Op
  BY DEF Doc
<1>4. \A op \in Op : op[2] > d.clock[op[1]] /\ op[2] <= e.clock[op[1]] => op \in all
  BY <1>1, <1>2, OpShape
<1>5. Integrated(e) \subseteq Integrated(d) \cup all
  BY <1>2, <1>4, OpShape DEF Integrated
<1>6. Integrated(d) \subseteq Integrated(e)
  BY <1>1, <1>2, OpShape DEF Integrated
<1>7. all \subseteq Integrated(e) \cup e.pend
  BY <1>1, <1>2, <1>3, OpShape DEF Integrated
<1>8. e.pend \subseteq all
  BY <1>1
<1> QED
  BY <1>5, <1>6, <1>7, <1>8 DEF encodeDoc, e

\* What an answer to a STEP1 carries is known to the one who answers.
LEMMA DifferenceKnown == \A d, sv : encodeStateAsUpdate(d, sv) \subseteq encodeDoc(d)
  BY DEF encodeStateAsUpdate, encodeDoc

\* An empty document knows nothing.
LEMMA EmptyKnows == Empty \in Doc /\ encodeDoc(Empty) = {} /\ \A a \in Client : Empty.clock[a] = 0
<1>1. Empty \in Doc /\ Empty.pend = {} /\ \A a \in Client : Empty.clock[a] = 0
  BY SyncAssumption DEF Empty, Doc, Clock
<1>2. Integrated(Empty) = {}
  BY <1>1, OpShape, SyncAssumption DEF Integrated
<1> QED
  BY <1>1, <1>2 DEF encodeDoc

-----------------------------------------------------------------------------
(* Logs *)

Logged(l) == UNION {l[i] : i \in DOMAIN l}

\* clock is how far the consecutive operations of ops reach.
Exact(ops, clock) ==
    \A a \in Client : /\ \A k \in 1..clock[a] : <<a, k>> \in ops
                      /\ <<a, clock[a] + 1>> \notin ops

\* More operations reach further.
LEMMA ExactOrder ==
    ASSUME NEW c \in Clock, NEW e \in Clock, NEW ops, NEW more, ops \subseteq more,
           Exact(ops, c), Exact(more, e)
    PROVE  \A a \in Client : c[a] <= e[a]
<1> SUFFICES ASSUME NEW a \in Client
             PROVE  c[a] <= e[a]
  OBVIOUS
<1>1. c[a] \in Nat /\ e[a] \in Nat
  BY SyncAssumption DEF Clock
<1>2. e[a] + 1 \notin 1..c[a]
  BY DEF Exact
<1> QED
  BY <1>1, <1>2

\* Replaying a log integrates what is consecutive in it and keeps the rest.
LEMMA ReplayExact ==
    ASSUME NEW l, Logged(l) \subseteq Op
    PROVE  /\ Replay(l) \in Doc
           /\ encodeDoc(Replay(l)) = Logged(l)
           /\ Exact(Logged(l), Replay(l).clock)
           /\ \A op \in Replay(l).pend : op[2] > Replay(l).clock[op[1]]
<1>1. Replay(l) = applyUpdate(Empty, Logged(l))
  BY DEF Replay, Logged
<1>2. Empty.pend \cup Logged(l) = Logged(l)
  BY DEF Empty
<1>3. /\ Replay(l) \in Doc
      /\ Replay(l).pend = {op \in Logged(l) : op[2] > Replay(l).clock[op[1]]}
      /\ \A a \in Client :
            /\ \A k \in Empty.clock[a] + 1 .. Replay(l).clock[a] : <<a, k>> \in Logged(l)
            /\ <<a, Replay(l).clock[a] + 1>> \notin Logged(l)
  BY <1>1, <1>2, EmptyKnows, ApplyUpdate
<1>4. encodeDoc(Replay(l)) = Logged(l)
  BY <1>1, EmptyKnows, ApplyEncodes
<1>5. \A a \in Client : \A k \in 1..Replay(l).clock[a] : <<a, k>> \in Logged(l)
  <2> TAKE a \in Client
  <2>1. Empty.clock[a] + 1 = 1
    BY EmptyKnows
  <2> QED
    BY <1>3, <2>1
<1>6. Exact(Logged(l), Replay(l).clock)
  BY <1>3, <1>5 DEF Exact
<1>7. \A op \in Replay(l).pend : op[2] > Replay(l).clock[op[1]]
  BY <1>3
<1> QED
  BY <1>3, <1>4, <1>6, <1>7

\* The log with one row more, and with one row only.
LEMMA LogRows ==
    ASSUME NEW l \in Seq(SUBSET Op), NEW row \in SUBSET Op
    PROVE  /\ Append(l, row) \in Seq(SUBSET Op) /\ Logged(Append(l, row)) = Logged(l) \cup row
           /\ <<row>> \in Seq(SUBSET Op) /\ Logged(<<row>>) = row
<1>1. /\ Append(l, row) \in Seq(SUBSET Op)
      /\ DOMAIN Append(l, row) = DOMAIN l \cup {Len(l) + 1}
      /\ \A i \in DOMAIN l : Append(l, row)[i] = l[i]
      /\ Append(l, row)[Len(l) + 1] = row
  OBVIOUS
<1>2. <<row>> \in Seq(SUBSET Op) /\ DOMAIN <<row>> = {1} /\ <<row>>[1] = row
  OBVIOUS
<1> QED
  BY <1>1, <1>2 DEF Logged

-----------------------------------------------------------------------------
(* Frames *)

StepOne == [type : {"STEP1"}, sv : Clock]
Changes == [type : {"STEP2", "UPDATE"}, ops : SUBSET Op]
Frame == StepOne \cup Changes
OpsOf(frame) == IF frame.type = "STEP1" THEN {} ELSE frame.ops

\* Frames in flight whose operations are in `known`.
Queue(known) == {q \in Seq(Frame) : \A i \in DOMAIN q : OpsOf(q[i]) \subseteq known}

\* The frames either end sends.
LEMMA FrameShape ==
    /\ \A sv \in Clock : STEP1(sv) \in Frame /\ OpsOf(STEP1(sv)) = {}
    /\ \A ops \in SUBSET Op : /\ STEP2(ops) \in Frame /\ OpsOf(STEP2(ops)) = ops
                             /\ UPDATE(ops) \in Frame /\ OpsOf(UPDATE(ops)) = ops
  BY DEF STEP1, STEP2, UPDATE, Frame, StepOne, Changes, OpsOf

\* Sending to a queue and receiving from it.
LEMMA QueueSend ==
    ASSUME NEW known, NEW q \in Queue(known), NEW f \in Frame, OpsOf(f) \subseteq known
    PROVE  Append(q, f) \in Queue(known) /\ <<f>> \in Queue(known)
<1>1. /\ Append(q, f) \in Seq(Frame)
      /\ DOMAIN Append(q, f) = DOMAIN q \cup {Len(q) + 1}
      /\ \A i \in DOMAIN q : Append(q, f)[i] = q[i]
      /\ Append(q, f)[Len(q) + 1] = f
  BY DEF Queue
<1>2. <<f>> \in Seq(Frame) /\ DOMAIN <<f>> = {1} /\ <<f>>[1] = f
  OBVIOUS
<1> QED
  BY <1>1, <1>2 DEF Queue

\* What is received was sent, and what stays in flight as well.
LEMMA QueueReceive ==
    ASSUME NEW known, NEW q \in Queue(known), q # <<>>
    PROVE  Tail(q) \in Queue(known) /\ Head(q) \in Frame /\ OpsOf(Head(q)) \subseteq known
<1>1. /\ Tail(q) \in Seq(Frame) /\ 1 \in DOMAIN q /\ Head(q) = q[1]
      /\ \A i \in DOMAIN Tail(q) : i + 1 \in DOMAIN q /\ Tail(q)[i] = q[i + 1]
      /\ q[1] \in Frame
  BY DEF Queue
<1> QED
  BY <1>1 DEF Queue

\* More becomes known.
LEMMA QueueGrows ==
    ASSUME NEW known, NEW more, known \subseteq more
    PROVE  Queue(known) \subseteq Queue(more) /\ <<>> \in Queue(known)
  BY DEF Queue

\* Broadcasting, and sending from a client.
LEMMA SendTypes ==
    ASSUME NEW known, NEW queues \in [Socket -> Queue(known)],
           NEW f \in Frame, OpsOf(f) \subseteq known
    PROVE  /\ \A sockets : SendDown(queues, sockets, f) \in [Socket -> Queue(known)]
           /\ \A s : SendUp(queues, s, f) \in [Socket -> Queue(known)]
<1>1. \A s \in Socket : Append(queues[s], f) \in Queue(known)
  BY QueueSend
<1> QED
  BY <1>1 DEF SendDown, SendUp

-----------------------------------------------------------------------------
(* Nobody knows more than the authors made *)

MadeOp == {op \in Op : op[2] <= replica[op[1]].clock[op[1]]}

\* Documents, log and frames hold operations their authors have, and the log
\* holds nothing the room's document does not know.
Shape ==
    /\ replica \in [Client -> Doc]
    /\ \A c \in Client : encodeDoc(replica[c]) \subseteq MadeOp
    /\ doc \in Doc /\ encodeDoc(doc) \subseteq MadeOp
    /\ log \in Seq(SUBSET Op) /\ Logged(log) \subseteq encodeDoc(doc)
    /\ owner \in Seq(Client)
    /\ clientSide \in [Socket -> {"none", "connecting", "open", "closed"}]
    /\ \A s \in Socket : clientSide[s] # "none" => s \in DOMAIN owner
    /\ up \in [Socket -> Queue(MadeOp)]
    /\ down \in [Socket -> Queue(MadeOp)]

\* Nothing is made, stored or sent at the start.
LEMMA ShapeInit == Init => Shape
<1> SUFFICES ASSUME Init
             PROVE  Shape
  OBVIOUS
<1>1. replica \in [Client -> Doc] /\ \A c \in Client : encodeDoc(replica[c]) = {}
  BY EmptyKnows DEF Init
<1>2. doc \in Doc /\ encodeDoc(doc) = {}
  BY EmptyKnows DEF Init
<1>3. <<>> \in Queue(MadeOp)
  BY QueueGrows
<1>4. up \in [Socket -> Queue(MadeOp)] /\ down \in [Socket -> Queue(MadeOp)]
  BY <1>3 DEF Init
<1>5. log \in Seq(SUBSET Op) /\ Logged(log) = {}
  BY DEF Init, Logged
<1>6. /\ owner \in Seq(Client)
      /\ clientSide = [s \in Socket |-> "none"]
  BY DEF Init
<1> QED
  BY <1>1, <1>2, <1>4, <1>5, <1>6 DEF Shape

\* An author knows all its own operations, so an update brings it none.
LEMMA OwnClock ==
    ASSUME Shape, NEW c \in Client, NEW ops \in SUBSET Op, ops \subseteq MadeOp
    PROVE  applyUpdate(replica[c], ops).clock[c] = replica[c].clock[c]
<1> DEFINE d == replica[c]
           e == applyUpdate(d, ops)
           own == d.clock[c]
<1>1. d \in Doc /\ d.pend \subseteq MadeOp
  BY DEF Shape, encodeDoc
<1>2. /\ e \in Doc /\ own <= e.clock[c]
      /\ \A k \in own + 1 .. e.clock[c] : <<c, k>> \in d.pend \cup ops
  BY <1>1, ApplyUpdate
<1>3. own \in Nat /\ e.clock[c] \in Nat
  BY <1>1, <1>2, SyncAssumption DEF Doc, Clock
<1>4. <<c, own + 1>> \notin MadeOp
  BY <1>3, OpShape DEF MadeOp
<1> HIDE DEF d, e, own
<1>5. own + 1 \notin own + 1 .. e.clock[c]
  BY <1>1, <1>2, <1>4
<1>6. e.clock[c] = own
  BY <1>2, <1>3, <1>5
<1> QED
  BY <1>6 DEF d, e, own

\* What is made changes only when an author's own clock does.
LEMMA MadeSame ==
    ASSUME \A c \in Client : replica'[c].clock[c] = replica[c].clock[c]
    PROVE  MadeOp' = MadeOp
  BY OpShape DEF MadeOp

\* handleMessage of an update grows document and log.
LEMMA RoomAppliesShape ==
    ASSUME Shape, NEW ops \in SUBSET Op, ops \subseteq MadeOp, NEW origin, RoomApplies(ops, origin)
    PROVE  /\ doc' \in Doc /\ encodeDoc(doc') \subseteq MadeOp
           /\ log' \in Seq(SUBSET Op) /\ Logged(log') \subseteq encodeDoc(doc')
           /\ Logged(log) \subseteq Logged(log')
           /\ down' \in [Socket -> Queue(MadeOp)]
<1> DEFINE update == Integrated(doc') \ Integrated(doc)
<1>1. /\ doc' = applyUpdate(doc, ops)
      /\ \/ UNCHANGED <<log, down>>
         \/ /\ log' = Append(log, update)
            /\ down' = SendDown(down, connections \ {origin}, UPDATE(update))
  BY DEF RoomApplies
<1>2. doc' \in Doc /\ encodeDoc(doc') = encodeDoc(doc) \cup ops
  BY <1>1, ApplyUpdate, ApplyEncodes DEF Shape
<1>3. update \subseteq encodeDoc(doc') /\ update \in SUBSET Op
  BY DEF encodeDoc, Integrated
<1> HIDE DEF update
<1>4. /\ Append(log, update) \in Seq(SUBSET Op)
      /\ Logged(Append(log, update)) = Logged(log) \cup update
  BY <1>3, LogRows DEF Shape
<1>5. SendDown(down, connections \ {origin}, UPDATE(update)) \in [Socket -> Queue(MadeOp)]
  <2>1. UPDATE(update) \in Frame /\ OpsOf(UPDATE(update)) \subseteq MadeOp
    BY <1>2, <1>3, FrameShape DEF Shape
  <2> QED
    BY <2>1, SendTypes DEF Shape
<1> QED
  BY <1>1, <1>2, <1>3, <1>4, <1>5 DEF Shape

\* A load gives the document back that the log holds, and the log stays what it
\* was, compacted or not.
LEMMA LoadShape ==
    ASSUME Shape, NEW fits \in BOOLEAN, Load(fits)
    PROVE  /\ doc' \in Doc /\ encodeDoc(doc') = Logged(log)
           /\ Exact(Logged(log), doc'.clock)
           /\ \A op \in doc'.pend : op[2] > doc'.clock[op[1]]
           /\ log' \in Seq(SUBSET Op) /\ Logged(log') = Logged(log)
<1>1. Logged(log) \subseteq Op
  BY DEF Shape, encodeDoc, Doc, Integrated
<1>2. doc' = Replay(log) /\ log' = Compacted(log, doc', fits)
  BY DEF Load
<1>3. /\ doc' \in Doc /\ encodeDoc(doc') = Logged(log)
      /\ Exact(Logged(log), doc'.clock)
      /\ \A op \in doc'.pend : op[2] > doc'.clock[op[1]]
  BY <1>1, <1>2, ReplayExact
<1>4. log' = log \/ log' = <<Logged(log)>>
  BY <1>2, <1>3 DEF Compacted
<1>5. <<Logged(log)>> \in Seq(SUBSET Op) /\ Logged(<<Logged(log)>>) = Logged(log)
  BY <1>1, LogRows DEF Shape
<1> QED
  BY <1>3, <1>4, <1>5 DEF Shape

\* An edit: the author's clock and what is made grow by one operation.
LEMMA EditShape ==
    ASSUME Shape, NEW c \in Client, Edit(c)
    PROVE  Shape'
<1> DEFINE k == replica[c].clock[c] + 1
           d == replica[c]
           e == [d EXCEPT !.clock = [@ EXCEPT ![c] = k]]
<1>1. /\ d \in Doc /\ k \in 1..MaxEdits /\ d.clock[c] \in Nat
  <2>1. d \in Doc
    BY DEF Shape
  <2>2. d.clock[c] \in 0..MaxEdits
    BY <2>1 DEF Doc, Clock
  <2>3. d.clock[c] < EditsOf[c] /\ EditsOf[c] \in 0..MaxEdits
    BY SyncAssumption DEF Edit
  <2> QED
    BY <2>1, <2>2, <2>3, SyncAssumption
<1>2. /\ replica' = [replica EXCEPT ![c] = e]
      /\ up' = [s \in Socket |-> IF s \in OpenSocket(c) \cap connections
                                 THEN Append(up[s], UPDATE({<<c, k>>})) ELSE up[s]]
      /\ UNCHANGED <<doc, log, owner, clientSide, connections, down, losses>>
  BY DEF Edit
<1>3. /\ e.pend = d.pend /\ e.clock = [d.clock EXCEPT ![c] = k] /\ e \in Doc
      /\ e.clock[c] = k /\ \A a \in Client \ {c} : e.clock[a] = d.clock[a]
  BY <1>1, SyncAssumption DEF Doc, Clock
<1> HIDE DEF e
<1>4. /\ replica' \in [Client -> Doc] /\ replica'[c] = e
      /\ \A b \in Client \ {c} : replica'[b] = replica[b]
  BY <1>2, <1>3 DEF Shape
<1>5. MadeOp \subseteq MadeOp'
  BY <1>1, <1>3, <1>4, OpShape DEF MadeOp
<1>6. <<c, k>> \in Op /\ <<c, k>> \in MadeOp'
  BY <1>1, <1>3, <1>4, OpShape, SyncAssumption DEF MadeOp
<1>7. Integrated(e) \subseteq Integrated(d) \cup {<<c, k>>}
  BY <1>1, <1>3, OpShape DEF Integrated
<1> HIDE DEF k
<1>8. \A b \in Client : encodeDoc(replica'[b]) \subseteq MadeOp'
  <2>1. encodeDoc(e) \subseteq encodeDoc(d) \cup {<<c, k>>}
    BY <1>3, <1>7 DEF encodeDoc
  <2>2. encodeDoc(e) \subseteq MadeOp'
    BY <2>1, <1>5, <1>6 DEF Shape
  <2> QED
    BY <2>2, <1>4, <1>5 DEF Shape
<1>9. up' \in [Socket -> Queue(MadeOp')] /\ down' \in [Socket -> Queue(MadeOp')]
  <2>1. Queue(MadeOp) \subseteq Queue(MadeOp')
    BY <1>5, QueueGrows
  <2>2. UPDATE({<<c, k>>}) \in Frame /\ OpsOf(UPDATE({<<c, k>>})) \subseteq MadeOp'
    BY <1>6, FrameShape
  <2>3. \A s \in Socket : Append(up[s], UPDATE({<<c, k>>})) \in Queue(MadeOp')
    BY <2>1, <2>2, QueueSend DEF Shape
  <2> QED
    BY <1>2, <2>1, <2>3 DEF Shape
<1>10. doc' \in Doc /\ encodeDoc(doc') \subseteq MadeOp'
  BY <1>2, <1>5 DEF Shape
<1>11. /\ log' \in Seq(SUBSET Op) /\ Logged(log') \subseteq encodeDoc(doc')
       /\ owner' \in Seq(Client)
       /\ clientSide' \in [Socket -> {"none", "connecting", "open", "closed"}]
       /\ \A s \in Socket : clientSide'[s] # "none" => s \in DOMAIN owner'
  BY <1>2 DEF Shape
<1> QED
  BY <1>4, <1>8, <1>9, <1>10, <1>11 DEF Shape

\* Accepting a socket sends the room's state vector.
LEMMA AddConnectionShape ==
    ASSUME Shape, NEW c \in Client, addConnection(c)
    PROVE  Shape'
<1> DEFINE n == Len(owner) + 1
<1>1. /\ n \in Socket /\ owner' = Append(owner, c)
      /\ clientSide' = [clientSide EXCEPT ![n] = "connecting"]
      /\ down' = [down EXCEPT ![n] = <<STEP1(doc.clock)>>]
      /\ UNCHANGED <<replica, doc, log, up>>
  BY SyncAssumption DEF addConnection, Socket, Shape
<1>2. <<STEP1(doc.clock)>> \in Queue(MadeOp)
  <2>1. doc.clock \in Clock /\ down[n] \in Queue(MadeOp)
    BY <1>1 DEF Shape, Doc
  <2> QED
    BY <2>1, FrameShape, QueueSend
<1>3. down' \in [Socket -> Queue(MadeOp)]
  BY <1>1, <1>2 DEF Shape
<1>4. owner' \in Seq(Client) /\ DOMAIN owner' = DOMAIN owner \cup {n}
  BY <1>1 DEF Shape
<1>5. MadeOp' = MadeOp
  BY <1>1 DEF MadeOp
<1> HIDE DEF n
<1> QED
  BY <1>1, <1>3, <1>4, <1>5 DEF Shape

\* A client's onopen sends its state vector.
LEMMA OnOpenShape ==
    ASSUME Shape, NEW s \in Socket, OnOpen(s)
    PROVE  Shape'
<1>1. /\ clientSide[s] = "connecting"
      /\ clientSide' = [clientSide EXCEPT ![s] = "open"]
      /\ up' = SendUp(up, s, STEP1(replica[owner[s]].clock))
      /\ UNCHANGED <<replica, doc, log, owner, down>>
  BY DEF OnOpen
<1>2. owner[s] \in Client
  BY <1>1 DEF Shape
<1>3. replica[owner[s]].clock \in Clock
  BY <1>2 DEF Shape, Doc
<1>4. up' \in [Socket -> Queue(MadeOp)]
  BY <1>1, <1>3, FrameShape, SendTypes DEF Shape
<1>5. MadeOp' = MadeOp
  BY <1>1 DEF MadeOp
<1> QED
  BY <1>1, <1>4, <1>5 DEF Shape

\* The room answers or applies what it receives.
LEMMA RoomReceivesShape ==
    ASSUME Shape, NEW s \in Socket, RoomReceives(s)
    PROVE  Shape' /\ Logged(log) \subseteq Logged(log')
<1> DEFINE frame == Head(up[s])
<1>1. /\ up[s] # <<>> /\ up' = [up EXCEPT ![s] = Tail(@)]
      /\ IF frame.type = "STEP1"
         THEN /\ down' = SendDown(down, {s}, STEP2(encodeStateAsUpdate(doc, frame.sv)))
              /\ UNCHANGED <<doc, log>>
         ELSE RoomApplies(frame.ops, s)
      /\ UNCHANGED <<replica, owner, clientSide>>
  BY DEF RoomReceives
<1>2. /\ Tail(up[s]) \in Queue(MadeOp)
      /\ frame \in Frame /\ OpsOf(frame) \subseteq MadeOp
  BY <1>1, QueueReceive DEF Shape
<1> HIDE DEF frame
<1>3. up' \in [Socket -> Queue(MadeOp)]
  BY <1>1, <1>2 DEF Shape
<1>4. MadeOp' = MadeOp
  BY <1>1 DEF MadeOp
<1>5. CASE frame.type = "STEP1"
  <2> DEFINE ops == encodeStateAsUpdate(doc, frame.sv)
  <2>1. ops \subseteq MadeOp /\ ops \in SUBSET Op
    BY DifferenceKnown DEF Shape, MadeOp
  <2> HIDE DEF ops
  <2>2. STEP2(ops) \in Frame /\ OpsOf(STEP2(ops)) \subseteq MadeOp
    BY <2>1, FrameShape
  <2>3. down' = SendDown(down, {s}, STEP2(ops)) /\ UNCHANGED <<doc, log>>
    BY <1>1, <1>5 DEF ops
  <2>4. down' \in [Socket -> Queue(MadeOp)]
    BY <2>2, <2>3, SendTypes DEF Shape
  <2> QED
    BY <1>1, <1>3, <1>4, <2>3, <2>4 DEF Shape
<1>6. CASE frame.type # "STEP1"
  <2>1. frame.ops \in SUBSET Op /\ frame.ops \subseteq MadeOp /\ RoomApplies(frame.ops, s)
    BY <1>1, <1>2, <1>6 DEF Frame, StepOne, Changes, OpsOf
  <2>2. /\ doc' \in Doc /\ encodeDoc(doc') \subseteq MadeOp
        /\ log' \in Seq(SUBSET Op) /\ Logged(log') \subseteq encodeDoc(doc')
        /\ Logged(log) \subseteq Logged(log')
        /\ down' \in [Socket -> Queue(MadeOp)]
    BY <2>1, RoomAppliesShape
  <2> QED
    BY <1>1, <1>3, <1>4, <2>2 DEF Shape
<1> QED
  BY <1>5, <1>6

\* A client answers or applies what it receives; its own clock stays.
LEMMA ClientReceivesShape ==
    ASSUME Shape, NEW s \in Socket, ClientReceives(s)
    PROVE  /\ Shape'
           /\ owner[s] \in Client
           /\ \/ replica' = replica
              \/ \E ops \in SUBSET Op :
                    /\ ops \subseteq MadeOp
                    /\ replica' = [replica EXCEPT ![owner[s]] = applyUpdate(@, ops)]
<1> DEFINE frame == Head(down[s])
           c == owner[s]
<1>1. /\ clientSide[s] = "open" /\ down[s] # <<>>
      /\ down' = [down EXCEPT ![s] = Tail(@)]
      /\ IF frame.type = "STEP1"
         THEN /\ up' = SendUp(up, s, STEP2(encodeStateAsUpdate(replica[c], frame.sv)))
              /\ UNCHANGED replica
         ELSE /\ replica' = [replica EXCEPT ![c] = applyUpdate(@, frame.ops)]
              /\ UNCHANGED up
      /\ UNCHANGED <<doc, log, owner, clientSide>>
  BY DEF ClientReceives
<1>2. /\ Tail(down[s]) \in Queue(MadeOp)
      /\ frame \in Frame /\ OpsOf(frame) \subseteq MadeOp
  BY <1>1, QueueReceive DEF Shape
<1>3. c \in Client
  BY <1>1 DEF Shape
<1> HIDE DEF frame, c
<1>4. down' \in [Socket -> Queue(MadeOp)]
  BY <1>1, <1>2 DEF Shape
<1>5. CASE frame.type = "STEP1"
  <2> DEFINE ops == encodeStateAsUpdate(replica[c], frame.sv)
  <2>1. ops \subseteq MadeOp /\ ops \in SUBSET Op
    BY <1>3, DifferenceKnown DEF Shape, MadeOp
  <2> HIDE DEF ops
  <2>2. STEP2(ops) \in Frame /\ OpsOf(STEP2(ops)) \subseteq MadeOp
    BY <2>1, FrameShape
  <2>3. up' = SendUp(up, s, STEP2(ops)) /\ UNCHANGED replica
    BY <1>1, <1>5 DEF ops
  <2>4. up' \in [Socket -> Queue(MadeOp)]
    BY <2>2, <2>3, SendTypes DEF Shape
  <2>5. MadeOp' = MadeOp
    BY <2>3 DEF MadeOp
  <2> QED
    BY <1>1, <1>3, <1>4, <2>3, <2>4, <2>5 DEF Shape, c
<1>6. CASE frame.type # "STEP1"
  <2>1. frame.ops \in SUBSET Op /\ frame.ops \subseteq MadeOp
    BY <1>2, <1>6 DEF Frame, StepOne, Changes, OpsOf
  <2> DEFINE e == applyUpdate(replica[c], frame.ops)
  <2>2. replica' = [replica EXCEPT ![c] = e] /\ UNCHANGED up
    BY <1>1, <1>6
  <2>3. e \in Doc /\ encodeDoc(e) = encodeDoc(replica[c]) \cup frame.ops
    BY <1>3, <2>1, ApplyUpdate, ApplyEncodes DEF Shape
  <2>4. e.clock[c] = replica[c].clock[c]
    BY <1>3, <2>1, OwnClock
  <2> HIDE DEF e
  <2>5. /\ replica' \in [Client -> Doc]
        /\ \A b \in Client : replica'[b] = IF b = c THEN e ELSE replica[b]
    BY <1>3, <2>2, <2>3 DEF Shape
  <2>6. MadeOp' = MadeOp
    BY <2>4, <2>5, MadeSame
  <2>7. \A b \in Client : encodeDoc(replica'[b]) \subseteq MadeOp
    BY <1>3, <2>1, <2>3, <2>5 DEF Shape
  <2>8. Shape'
    BY <1>1, <1>4, <2>2, <2>5, <2>6, <2>7 DEF Shape
  <2> QED
    BY <1>3, <2>1, <2>2, <2>8 DEF c, e
<1> QED
  BY <1>5, <1>6

\* Every action keeps the shape, and no action takes from the log: what
\* compaction merges is still in it.
LEMMA ShapeStep == Shape /\ [Next]_vars => Shape' /\ Logged(log) \subseteq Logged(log')
<1> SUFFICES ASSUME Shape, [Next]_vars
             PROVE  Shape' /\ Logged(log) \subseteq Logged(log')
  OBVIOUS
<1>a. ASSUME UNCHANGED replica
      PROVE  MadeOp' = MadeOp
  BY <1>a DEF MadeOp
<1>1. ASSUME NEW c \in Client, Edit(c) \/ addConnection(c)
      PROVE  Shape' /\ Logged(log) \subseteq Logged(log')
  <2>1. UNCHANGED log
    BY <1>1 DEF Edit, addConnection
  <2> QED
    BY <1>1, <2>1, EditShape, AddConnectionShape
<1>2. ASSUME NEW s \in Socket, OnOpen(s)
      PROVE  Shape' /\ Logged(log) \subseteq Logged(log')
  <2>1. UNCHANGED log
    BY <1>2 DEF OnOpen
  <2> QED
    BY <1>2, <2>1, OnOpenShape
<1>3. ASSUME NEW s \in Socket, RoomReceives(s)
      PROVE  Shape' /\ Logged(log) \subseteq Logged(log')
  BY <1>3, RoomReceivesShape
<1>4. ASSUME NEW s \in Socket, ClientReceives(s)
      PROVE  Shape' /\ Logged(log) \subseteq Logged(log')
  <2>1. UNCHANGED log
    BY <1>4 DEF ClientReceives
  <2> QED
    BY <1>4, <2>1, ClientReceivesShape
<1>5. ASSUME NEW s \in Socket, ClientCloses(s) \/ RoomCloses(s)
      PROVE  Shape' /\ Logged(log) \subseteq Logged(log')
  <2>1. <<>> \in Queue(MadeOp)
    BY QueueGrows
  <2>2. up' \in [Socket -> Queue(MadeOp)] /\ down' \in [Socket -> Queue(MadeOp)]
    BY <1>5, <2>1 DEF ClientCloses, RoomCloses, Shape
  <2>3. /\ UNCHANGED <<replica, doc, log, owner>>
        /\ clientSide' \in [Socket -> {"none", "connecting", "open", "closed"}]
        /\ \A t \in Socket : clientSide'[t] # "none" => clientSide[t] # "none"
    BY <1>5 DEF ClientCloses, RoomCloses, Shape
  <2> QED
    BY <1>a, <2>2, <2>3 DEF Shape
<1>6. ASSUME NEW fits \in BOOLEAN, compact(fits)
      PROVE  Shape' /\ Logged(log) \subseteq Logged(log')
  <2>1. /\ log' = log \/ log' = <<encodeDoc(doc)>>
        /\ UNCHANGED <<replica, doc, owner, clientSide, up, down>>
    BY <1>6 DEF compact, Compacted
  <2>2. encodeDoc(doc) \in SUBSET Op
    BY DEF Shape, MadeOp
  <2>3. <<encodeDoc(doc)>> \in Seq(SUBSET Op) /\ Logged(<<encodeDoc(doc)>>) = encodeDoc(doc)
    BY <2>2, LogRows DEF Shape
  <2>4. /\ log' \in Seq(SUBSET Op) /\ Logged(log') \subseteq encodeDoc(doc)
        /\ Logged(log) \subseteq Logged(log')
    BY <2>1, <2>3 DEF Shape
  <2> QED
    BY <1>a, <2>1, <2>4 DEF Shape
<1>7. ASSUME NEW fits \in BOOLEAN, Restart(fits) \/ WakeUp(fits)
      PROVE  Shape' /\ Logged(log) \subseteq Logged(log')
  <2>1. /\ doc' \in Doc /\ encodeDoc(doc') = Logged(log)
        /\ log' \in Seq(SUBSET Op) /\ Logged(log') = Logged(log)
    BY <1>7, LoadShape DEF Restart, WakeUp
  <2>2. UNCHANGED <<replica, owner, clientSide>>
    BY <1>7 DEF Restart, WakeUp
  <2>3. up' \in [Socket -> Queue(MadeOp)]
    <3>1. <<>> \in Queue(MadeOp)
      BY QueueGrows
    <3> QED
      BY <1>7, <3>1 DEF Restart, WakeUp, Shape
  <2>4. down' \in [Socket -> Queue(MadeOp)]
    <3>1. STEP1(doc'.clock) \in Frame /\ OpsOf(STEP1(doc'.clock)) \subseteq MadeOp
      BY <2>1, FrameShape DEF Doc
    <3>2. SendDown(down, connections, STEP1(doc'.clock)) \in [Socket -> Queue(MadeOp)]
      BY <3>1, SendTypes DEF Shape
    <3> QED
      BY <1>7, <3>2 DEF Restart, WakeUp, Shape
  <2> QED
    BY <1>a, <2>1, <2>2, <2>3, <2>4 DEF Shape
<1>8. CASE UNCHANGED vars
  BY <1>8, <1>a DEF vars, Shape
<1> QED
  BY <1>1, <1>2, <1>3, <1>4, <1>5, <1>6, <1>7, <1>8 DEF Next

-----------------------------------------------------------------------------
(* The log holds the document *)

\* What the room has integrated is logged, and the next operation of nobody
\* waits.
LogExact ==
    /\ Integrated(doc) \subseteq Logged(log)
    /\ \A op \in doc.pend : op[2] > doc.clock[op[1]]
    /\ \A a \in Client : <<a, doc.clock[a] + 1>> \notin doc.pend

\* An update that the log takes leaves nothing integrated but unlogged.
LEMMA RoomAppliesLogs ==
    ASSUME ~AppendFails, Shape, LogExact,
           NEW ops \in SUBSET Op, NEW origin, RoomApplies(ops, origin)
    PROVE  LogExact'
<1> DEFINE update == Integrated(doc') \ Integrated(doc)
<1>1. /\ doc' = applyUpdate(doc, ops)
      /\ \/ update = {} /\ log' = log
         \/ log' = Append(log, update)
  BY DEF RoomApplies
<1>2. /\ doc'.pend = {op \in doc.pend \cup ops : op[2] > doc'.clock[op[1]]}
      /\ \A a \in Client : <<a, doc'.clock[a] + 1>> \notin doc.pend \cup ops
  BY <1>1, ApplyUpdate DEF Shape
<1>3. update \in SUBSET Op
  BY DEF Integrated
<1>4. Logged(Append(log, update)) = Logged(log) \cup update
  <2> HIDE DEF update
  <2> QED
    BY <1>3, LogRows DEF Shape
<1>5. Integrated(doc') \subseteq Logged(log')
  BY <1>1, <1>4 DEF LogExact
<1> QED
  BY <1>2, <1>5 DEF LogExact

\* No action integrates without logging, or lets the next operation wait.
LEMMA LogExactStep == ~AppendFails /\ Shape /\ LogExact /\ [Next]_vars => LogExact'
<1> SUFFICES ASSUME ~AppendFails, Shape, LogExact, [Next]_vars
             PROVE  LogExact'
  OBVIOUS
<1>1. ASSUME UNCHANGED <<doc, log>>
      PROVE  LogExact'
  BY <1>1 DEF LogExact, Integrated
<1>2. ASSUME NEW s \in Socket, RoomReceives(s)
      PROVE  LogExact'
  <2> DEFINE frame == Head(up[s])
  <2>1. up[s] # <<>> /\ up[s] \in Queue(MadeOp)
    BY <1>2 DEF RoomReceives, Shape
  <2>2. frame \in Frame
    BY <2>1, QueueReceive
  <2>3. frame.type # "STEP1" => frame.ops \in SUBSET Op /\ RoomApplies(frame.ops, s)
    BY <1>2, <2>2 DEF RoomReceives, Frame, StepOne, Changes
  <2>4. frame.type = "STEP1" => UNCHANGED <<doc, log>>
    BY <1>2 DEF RoomReceives
  <2> QED
    BY <1>1, <2>3, <2>4, RoomAppliesLogs
<1>3. ASSUME NEW fits \in BOOLEAN, compact(fits)
      PROVE  LogExact'
  <2>1. /\ log' = log \/ log' = <<encodeDoc(doc)>>
        /\ UNCHANGED doc
    BY <1>3 DEF compact, Compacted
  <2>2. Logged(<<encodeDoc(doc)>>) = encodeDoc(doc)
    BY LogRows DEF Shape, MadeOp
  <2> QED
    BY <2>1, <2>2 DEF LogExact, encodeDoc, Integrated
<1>4. ASSUME NEW fits \in BOOLEAN, Restart(fits) \/ WakeUp(fits)
      PROVE  LogExact'
  <2>1. /\ doc' \in Doc /\ encodeDoc(doc') = Logged(log) /\ Logged(log') = Logged(log)
        /\ Exact(Logged(log), doc'.clock)
        /\ \A op \in doc'.pend : op[2] > doc'.clock[op[1]]
    BY <1>4, LoadShape DEF Restart, WakeUp
  <2> QED
    BY <2>1 DEF LogExact, Exact, encodeDoc
<1>5. ASSUME \/ \E c \in Client : Edit(c) \/ addConnection(c)
             \/ \E s \in Socket : \/ OnOpen(s) \/ ClientReceives(s)
                                  \/ ClientCloses(s) \/ RoomCloses(s)
             \/ UNCHANGED vars
      PROVE  LogExact'
  BY <1>1, <1>5
     DEF Edit, addConnection, OnOpen, ClientReceives, ClientCloses, RoomCloses, vars
<1> QED
  BY <1>2, <1>3, <1>4, <1>5 DEF Next

\* As far as the room has integrated, and no further, the log can be replayed.
LEMMA LogExactHolds == Shape /\ LogExact => LogHoldsDoc
<1> SUFFICES ASSUME Shape, LogExact
             PROVE  LogHoldsDoc
  OBVIOUS
<1>1. /\ Logged(log) \subseteq Op /\ doc.clock \in Clock
      /\ \A a \in Client : doc.clock[a] \in 0..MaxEdits
  BY DEF Shape, MadeOp, Doc, Clock
<1>2. /\ Replay(log).clock \in Clock
      /\ Exact(Logged(log), Replay(log).clock)
  BY <1>1, ReplayExact DEF Doc
<1>3. \A a \in Client : \A k \in 1..doc.clock[a] : <<a, k>> \in Logged(log)
  <2> TAKE a \in Client
  <2> TAKE k \in 1..doc.clock[a]
  <2>1. k \in 1..MaxEdits /\ k <= doc.clock[a]
    BY <1>1, SyncAssumption
  <2>2. <<a, k>> \in Integrated(doc)
    BY <2>1, OpShape DEF Integrated
  <2> QED
    BY <2>2 DEF LogExact
<1>4. \A a \in Client : <<a, doc.clock[a] + 1>> \notin Logged(log)
  <2> SUFFICES ASSUME NEW a \in Client
               PROVE  <<a, doc.clock[a] + 1>> \notin encodeDoc(doc)
    BY DEF Shape
  <2>1. <<a, doc.clock[a] + 1>> \notin Integrated(doc)
    BY <1>1, OpShape, SyncAssumption DEF Integrated
  <2> QED
    BY <2>1 DEF LogExact, encodeDoc
<1>5. Exact(Logged(log), doc.clock)
  BY <1>3, <1>4 DEF Exact
<1>6. /\ \A a \in Client : doc.clock[a] <= Replay(log).clock[a]
      /\ \A a \in Client : Replay(log).clock[a] <= doc.clock[a]
  BY <1>1, <1>2, <1>5, ExactOrder
<1>7. \A a \in Client : doc.clock[a] = Replay(log).clock[a]
  <2> TAKE a \in Client
  <2>1. doc.clock[a] \in Nat /\ Replay(log).clock[a] \in Nat
    BY <1>1, <1>2, SyncAssumption DEF Clock
  <2> QED
    BY <1>6, <2>1
<1> QED
  BY <1>1, <1>2, <1>7 DEF LogHoldsDoc, Clock

\* What the room has in memory is always what a restart would load, as long as
\* updateLog.append does not throw: nothing integrated is unlogged, and
\* compaction drops nothing (core.ts, update-log.ts).
THEOREM RestartLosesNothing == ~AppendFails /\ Spec => []LogHoldsDoc
<1>1. Init => Shape /\ LogExact
  <2>1. Init => LogExact
    <3> SUFFICES ASSUME Init
                 PROVE  LogExact
      OBVIOUS
    <3>1. doc.pend = {} /\ Integrated(doc) = {}
      BY EmptyKnows DEF Init, encodeDoc
    <3> QED
      BY <3>1 DEF LogExact
  <2> QED
    BY <2>1, ShapeInit
<1>2. ~AppendFails /\ (Shape /\ LogExact) /\ [Next]_vars => (Shape /\ LogExact)'
  BY ShapeStep, LogExactStep
<1>3. Shape /\ LogExact => LogHoldsDoc
  BY LogExactHolds
<1>4. ~AppendFails => [](~AppendFails)
  OBVIOUS
<1> QED
  BY <1>1, <1>2, <1>3, <1>4, PTL DEF Spec

-----------------------------------------------------------------------------
(* The refinement *)

\* No document that was told only what is made is ahead of an author.
LEMMA KnownBounded ==
    ASSUME Shape, NEW d \in Doc, encodeDoc(d) \subseteq MadeOp, NEW a \in Client
    PROVE  d.clock[a] <= replica[a].clock[a]
<1>1. d.clock[a] \in 0..MaxEdits /\ replica[a].clock[a] \in 0..MaxEdits
  BY DEF Shape, Doc, Clock
<1>2. ASSUME d.clock[a] > replica[a].clock[a]
      PROVE  FALSE
  <2>1. d.clock[a] \in 1..MaxEdits
    BY <1>1, <1>2, SyncAssumption
  <2>2. <<a, d.clock[a]>> \in Integrated(d)
    BY <2>1, OpShape DEF Integrated
  <2>3. <<a, d.clock[a]>> \in MadeOp
    BY <2>2 DEF encodeDoc
  <2> QED
    BY <1>1, <1>2, <2>1, <2>3, OpShape DEF MadeOp
<1> QED
  BY <1>1, <1>2, SyncAssumption

\* A step of the room stores what it adds to the log, or stutters.
LEMMA RoomRefines ==
    ASSUME Shape, Shape', replica' = replica, Logged(log) \subseteq Logged(log')
    PROVE  [Shared!Next]_(Shared!vars)
<1> DEFINE before == Replay(log).clock
           after  == Replay(log').clock
<1>1. MadeOp' = MadeOp
  BY DEF MadeOp
<1>2. Logged(log') \subseteq MadeOp /\ Logged(log') \subseteq Op /\ Logged(log) \subseteq Op
  BY <1>1 DEF Shape, MadeOp
<1>3. /\ Replay(log) \in Doc /\ Exact(Logged(log), before)
      /\ Replay(log') \in Doc /\ Exact(Logged(log'), after)
      /\ encodeDoc(Replay(log')) \subseteq MadeOp
  BY <1>2, ReplayExact
<1>4. before \in Clock /\ after \in Clock
  BY <1>3 DEF Doc
<1>5. \A a \in Client : before[a] <= after[a] /\ after[a] <= replica[a].clock[a]
  BY <1>2, <1>3, <1>4, ExactOrder, KnownBounded
<1>6. \A a \in Client : before[a] \in Nat /\ after[a] \in Nat /\ replica[a].clock[a] \in Nat
  BY <1>4, SyncAssumption DEF Clock, Shape, Doc
<1>7. \A a \in Client : after[a] \in before[a]..replica[a].clock[a]
  BY <1>5, <1>6
<1>8. Replay(log)' = Replay(log')
  BY DEF Replay, applyUpdate, Empty
<1>9. CASE after = before
  BY <1>8, <1>9 DEF Shared!vars
<1>10. CASE after # before
  <2>1. Shared!Store
    BY <1>7, <1>8, <1>10 DEF Shared!Store
  <2> QED
    BY <2>1 DEF Shared!Next
<1> QED
  BY <1>9, <1>10

\* An edit is an operation made, and shown to its author.
LEMMA EditRefines ==
    ASSUME Shape, NEW c \in Client, Edit(c)
    PROVE  Shared!Next
<1> DEFINE k == replica[c].clock[c] + 1
<1>1. replica' = [replica EXCEPT ![c].clock[c] = k] /\ log' = log
  BY DEF Edit
<1>2. \A b \in Client : replica[b] \in Doc /\ replica[b].clock \in Clock
  BY DEF Shape, Doc
<1>3. /\ replica'[c].clock = [replica[c].clock EXCEPT ![c] = k]
      /\ \A b \in Client \ {c} : replica'[b] = replica[b]
  BY <1>1, <1>2 DEF Shape, Doc
<1>4. [a \in Client |-> replica'[a].clock[a]]
        = [[a \in Client |-> replica[a].clock[a]] EXCEPT ![c] = @ + 1]
  BY <1>2, <1>3 DEF Clock
<1>5. [b \in Client |-> replica'[b].clock]
        = [[b \in Client |-> replica[b].clock] EXCEPT ![c][c] = @ + 1]
  BY <1>2, <1>3 DEF Clock
<1>6. Replay(log)'.clock = Replay(log).clock
  BY <1>1 DEF Replay, applyUpdate, Empty
<1> QED
  BY <1>4, <1>5, <1>6 DEF Shared!Next, Shared!Make

\* An update a client receives shows it operations of others, or nothing new.
LEMMA ClientReceivesRefines ==
    ASSUME Shape, NEW s \in Socket, ClientReceives(s)
    PROVE  [Shared!Next]_(Shared!vars)
<1> DEFINE c == owner[s]
<1>1. /\ Shape' /\ c \in Client
      /\ \/ replica' = replica
         \/ \E ops \in SUBSET Op : /\ ops \subseteq MadeOp
                                  /\ replica' = [replica EXCEPT ![c] = applyUpdate(@, ops)]
  BY ClientReceivesShape
<1>2. log' = log
  BY DEF ClientReceives
<1> HIDE DEF c
<1>3. CASE replica' = replica
  BY <1>1, <1>2, <1>3, RoomRefines
<1>4. ASSUME NEW ops \in SUBSET Op, ops \subseteq MadeOp,
             replica' = [replica EXCEPT ![c] = applyUpdate(@, ops)]
      PROVE  [Shared!Next]_(Shared!vars)
  <2> DEFINE d == replica[c]
             e == applyUpdate(d, ops)
  <2>1. /\ replica'[c] = e /\ \A b \in Client \ {c} : replica'[b] = replica[b]
        /\ d \in Doc /\ encodeDoc(d) \subseteq MadeOp
    BY <1>1, <1>4 DEF Shape
  <2>2. /\ e \in Doc /\ encodeDoc(e) = encodeDoc(d) \cup ops
        /\ \A a \in Client : d.clock[a] <= e.clock[a]
    BY <1>4, <2>1, ApplyUpdate, ApplyEncodes
  <2>3. e.clock[c] = d.clock[c]
    BY <1>1, <1>4, OwnClock
  <2> HIDE DEF e
  <2>4. \A a \in Client : e.clock[a] <= replica[a].clock[a]
    BY <1>4, <2>1, <2>2, KnownBounded
  <2>5. \A a \in Client : e.clock[a] \in Nat /\ d.clock[a] \in Nat /\ replica[a].clock[a] \in Nat
    BY <2>1, <2>2, SyncAssumption DEF Doc, Clock, Shape
  <2>6. \A a \in Client : e.clock[a] \in d.clock[a]..replica[a].clock[a]
    <3> TAKE a \in Client
    <3> HIDE DEF d
    <3>1. /\ e.clock[a] \in Nat /\ d.clock[a] \in Nat /\ replica[a].clock[a] \in Nat
          /\ d.clock[a] <= e.clock[a] /\ e.clock[a] <= replica[a].clock[a]
      BY <2>2, <2>4, <2>5
    <3> QED
      BY <3>1
  <2>7. [a \in Client |-> replica'[a].clock[a]] = [a \in Client |-> replica[a].clock[a]]
    BY <1>1, <2>1, <2>3
  <2>8. Replay(log)'.clock = Replay(log).clock
    BY <1>2 DEF Replay, applyUpdate, Empty
  <2>9. CASE e.clock = d.clock
    <3>1. [b \in Client |-> replica'[b].clock] = [b \in Client |-> replica[b].clock]
      BY <1>1, <2>1, <2>9
    <3> QED
      BY <2>7, <2>8, <3>1 DEF Shared!vars
  <2>10. CASE e.clock # d.clock
    <3>1. Shared!Show(c)
      BY <1>1, <2>1, <2>3, <2>6, <2>7, <2>8, <2>10 DEF Shared!Show
    <3>2. c \in Client
      BY <1>1
    <3>3. Shared!Next
      BY <3>1, <3>2 DEF Shared!Next, Shared!Show
    <3> QED
      BY <3>3
  <2> QED
    BY <2>9, <2>10
<1> QED
  BY <1>1, <1>3, <1>4

\* Every step of the system is a step of the abstract store, or stutters.
LEMMA NextRefines == Shape /\ [Next]_vars => [Shared!Next]_(Shared!vars)
<1> SUFFICES ASSUME Shape, [Next]_vars
             PROVE  [Shared!Next]_(Shared!vars)
  OBVIOUS
<1>1. Shape' /\ Logged(log) \subseteq Logged(log')
  BY ShapeStep
<1>2. ASSUME NEW c \in Client, Edit(c)
      PROVE  [Shared!Next]_(Shared!vars)
  BY <1>2, EditRefines
<1>3. ASSUME NEW s \in Socket, ClientReceives(s)
      PROVE  [Shared!Next]_(Shared!vars)
  BY <1>3, ClientReceivesRefines
<1>4. ASSUME \/ \E c \in Client : addConnection(c)
             \/ \E s \in Socket : \/ OnOpen(s) \/ RoomReceives(s)
                                  \/ ClientCloses(s) \/ RoomCloses(s)
             \/ \E fits \in BOOLEAN : compact(fits) \/ Restart(fits) \/ WakeUp(fits)
             \/ UNCHANGED vars
      PROVE  [Shared!Next]_(Shared!vars)
  <2>1. replica' = replica
    BY <1>4 DEF addConnection, OnOpen, RoomReceives, ClientCloses, RoomCloses, compact,
       Restart, WakeUp, vars
  <2> QED
    BY <1>1, <2>1, RoomRefines
<1> QED
  BY <1>2, <1>3, <1>4 DEF Next

\* Through crash, hibernation, compaction and broken sockets, and even if
\* appends fail, the room is a durable store that gives no operation up, and
\* clients integrate what was made and never go back.
THEOREM ImplementsSharedDoc == Spec => RefinesSharedDoc
<1>1. Init => Shared!Init
  <2> SUFFICES ASSUME Init
               PROVE  Shared!Init
    OBVIOUS
  <2>1. replica = [c \in Client |-> Empty] /\ Empty.clock = [a \in Client |-> 0] /\ log = <<>>
    BY DEF Init, Empty
  <2>2. Replay(log).clock = [a \in Client |-> 0]
    <3>1. Logged(log) = {}
      BY <2>1 DEF Logged
    <3>2. Replay(log) \in Doc /\ encodeDoc(Replay(log)) = {}
      BY <3>1, ReplayExact
    <3>3. \A a \in Client : Replay(log).clock[a] = 0
      <4> TAKE a \in Client
      <4>1. Replay(log).clock[a] \in 0..MaxEdits
        BY <3>2 DEF Doc, Clock
      <4>2. ASSUME Replay(log).clock[a] \in 1..MaxEdits
            PROVE  FALSE
        <5> DEFINE op == <<a, Replay(log).clock[a]>>
        <5>1. op \in Op /\ op[1] = a /\ op[2] = Replay(log).clock[a]
          BY <4>2, OpShape
        <5>2. op \in Integrated(Replay(log))
          BY <4>1, <5>1 DEF Integrated
        <5> QED
          BY <3>2, <5>2 DEF encodeDoc
      <4> QED
        BY <4>1, <4>2, SyncAssumption
    <3> QED
      BY <3>2, <3>3 DEF Doc, Clock
  <2> QED
    BY <2>1, <2>2 DEF Shared!Init
<1>2. Shape /\ [Next]_vars => Shape'
  BY ShapeStep
<1> QED
  BY <1>1, <1>2, ShapeInit, NextRefines, PTL DEF Spec, RefinesSharedDoc, Shared!Spec

-----------------------------------------------------------------------------
(* Handshakes *)

\* The operations a queue carries, and whether a handshake is among its frames.
Carried(q) == UNION {OpsOf(q[i]) : i \in DOMAIN q}
Asks(q) == \E i \in DOMAIN q : q[i].type = "STEP1"

\* A frame carries what is known, unless a handshake comes behind it.
Fresh(q, known) ==
    \A i \in DOMAIN q : \/ OpsOf(q[i]) \subseteq known
                        \/ \E j \in DOMAIN q : j > i /\ q[j].type = "STEP1"

\* A handshake asks from a clock that has been reached.
Reached(sv, clock) == \A a \in Client : sv[a] <= clock[a]
Behind(q, clock) == \A i \in DOMAIN q : q[i].type = "STEP1" => Reached(q[i].sv, clock)

\* What is in flight once a frame is sent.
LEMMA Sent ==
    ASSUME NEW q \in Seq(Frame), NEW f \in Frame
    PROVE  /\ Append(q, f) \in Seq(Frame)
           /\ Carried(Append(q, f)) = Carried(q) \cup OpsOf(f)
           /\ Asks(Append(q, f)) <=> Asks(q) \/ f.type = "STEP1"
           /\ \A known : f.type = "STEP1" => Fresh(Append(q, f), known)
           /\ \A known : Fresh(q, known) /\ OpsOf(f) \subseteq known
                            => Fresh(Append(q, f), known)
           /\ \A clock : Behind(q, clock) /\ (f.type = "STEP1" => Reached(f.sv, clock))
                            => Behind(Append(q, f), clock)
<1> DEFINE p == Append(q, f)
           n == Len(q) + 1
<1>1. /\ p \in Seq(Frame) /\ DOMAIN p = DOMAIN q \cup {n}
      /\ \A i \in DOMAIN q : p[i] = q[i] /\ i < n
      /\ p[n] = f
  OBVIOUS
<1> HIDE DEF p, n
<1>2. Carried(p) = Carried(q) \cup OpsOf(f)
  BY <1>1 DEF Carried
<1>3. Asks(p) <=> Asks(q) \/ f.type = "STEP1"
  BY <1>1 DEF Asks
<1>4. \A known : f.type = "STEP1" => Fresh(p, known)
  <2>1. f.type = "STEP1" => OpsOf(f) = {}
    BY DEF OpsOf
  <2>2. \A i \in DOMAIN q : n > i
    BY <1>1, SyncAssumption DEF n
  <2> QED
    BY <1>1, <2>1, <2>2 DEF Fresh
<1>5. \A known : Fresh(q, known) /\ OpsOf(f) \subseteq known => Fresh(p, known)
  BY <1>1 DEF Fresh
<1>6. \A clock : Behind(q, clock) /\ (f.type = "STEP1" => Reached(f.sv, clock))
                    => Behind(p, clock)
  BY <1>1 DEF Behind
<1> QED
  BY <1>1, <1>2, <1>3, <1>4, <1>5, <1>6 DEF p

\* What is in flight once the first frame is received.
LEMMA Received ==
    ASSUME NEW q \in Seq(Frame), q # <<>>
    PROVE  /\ Tail(q) \in Seq(Frame) /\ Head(q) \in Frame
           /\ Carried(q) = OpsOf(Head(q)) \cup Carried(Tail(q))
           /\ Asks(q) <=> Head(q).type = "STEP1" \/ Asks(Tail(q))
           /\ \A known : Fresh(q, known) =>
                 Fresh(Tail(q), known) /\ (OpsOf(Head(q)) \subseteq known \/ Asks(Tail(q)))
           /\ \A clock : Behind(q, clock) =>
                 /\ Behind(Tail(q), clock)
                 /\ Head(q).type = "STEP1" => Reached(Head(q).sv, clock)
<1> DEFINE p == Tail(q)
           f == Head(q)
<1>1. /\ p \in Seq(Frame) /\ f \in Frame /\ f = q[1] /\ 1 \in DOMAIN q
      /\ \A i \in DOMAIN p : i + 1 \in DOMAIN q /\ p[i] = q[i + 1] /\ i \in Nat
      /\ \A i \in DOMAIN q : i = 1 \/ (i - 1 \in DOMAIN p /\ p[i - 1] = q[i] /\ i \in Nat)
  OBVIOUS
<1> HIDE DEF p, f
<1>2. Carried(q) = OpsOf(f) \cup Carried(p)
  <2>1. Carried(q) \subseteq OpsOf(f) \cup Carried(p)
    <3> SUFFICES ASSUME NEW i \in DOMAIN q
                 PROVE  OpsOf(q[i]) \subseteq OpsOf(f) \cup Carried(p)
      BY DEF Carried
    <3>1. CASE i = 1
      BY <1>1, <3>1
    <3>2. CASE i # 1
      BY <1>1, <3>2 DEF Carried
    <3> QED
      BY <3>1, <3>2
  <2>2. OpsOf(f) \cup Carried(p) \subseteq Carried(q)
    BY <1>1 DEF Carried
  <2> QED
    BY <2>1, <2>2
<1>3. Asks(q) <=> f.type = "STEP1" \/ Asks(p)
  <2>1. ASSUME NEW i \in DOMAIN q, q[i].type = "STEP1"
        PROVE  f.type = "STEP1" \/ Asks(p)
    <3>1. i = 1 \/ (i - 1 \in DOMAIN p /\ p[i - 1].type = "STEP1")
      BY <1>1, <2>1
    <3> QED
      BY <1>1, <2>1, <3>1 DEF Asks
  <2>2. ASSUME NEW i \in DOMAIN p, p[i].type = "STEP1"
        PROVE  Asks(q)
    <3>1. i + 1 \in DOMAIN q /\ q[i + 1].type = "STEP1"
      BY <1>1, <2>2
    <3> QED
      BY <3>1 DEF Asks
  <2>3. f.type = "STEP1" => Asks(q)
    BY <1>1 DEF Asks
  <2> QED
    BY <2>1, <2>2, <2>3 DEF Asks
<1>4. \A known : Fresh(q, known) =>
         Fresh(p, known) /\ (OpsOf(f) \subseteq known \/ Asks(p))
  <2> SUFFICES ASSUME NEW known, Fresh(q, known)
               PROVE  Fresh(p, known) /\ (OpsOf(f) \subseteq known \/ Asks(p))
    OBVIOUS
  <2>1. ASSUME NEW j \in DOMAIN q, NEW i \in Nat, i > 0, j > i, q[j].type = "STEP1"
        PROVE  j - 1 \in DOMAIN p /\ j - 1 > i - 1 /\ p[j - 1].type = "STEP1"
    BY <1>1, <2>1
  <2>2. OpsOf(f) \subseteq known \/ Asks(p)
    BY <1>1, <2>1 DEF Fresh, Asks
  <2>3. Fresh(p, known)
    <3> SUFFICES ASSUME NEW i \in DOMAIN p, ~(OpsOf(p[i]) \subseteq known)
                 PROVE  \E j \in DOMAIN p : j > i /\ p[j].type = "STEP1"
      BY DEF Fresh
    <3>1. i + 1 \in DOMAIN q /\ p[i] = q[i + 1] /\ i \in Nat
      BY <1>1
    <3>2. PICK j \in DOMAIN q : j > i + 1 /\ q[j].type = "STEP1"
      BY <3>1 DEF Fresh
    <3>3. j - 1 \in DOMAIN p /\ j - 1 > (i + 1) - 1 /\ p[j - 1].type = "STEP1"
      BY <2>1, <3>1, <3>2
    <3> QED
      BY <3>1, <3>3
  <2> QED
    BY <2>2, <2>3
<1>5. \A clock : Behind(q, clock) =>
         Behind(p, clock) /\ (f.type = "STEP1" => Reached(f.sv, clock))
  BY <1>1 DEF Behind
<1> QED
  BY <1>1, <1>2, <1>3, <1>4, <1>5 DEF p, f

\* Reaching is transitive.
LEMMA ReachedTransitive ==
    ASSUME NEW b \in Clock, NEW c \in Clock, NEW e \in Clock, Reached(b, c), Reached(c, e)
    PROVE  Reached(b, e)
<1> SUFFICES ASSUME NEW a \in Client
             PROVE  b[a] <= e[a]
  BY DEF Reached
<1>1. b[a] \in Nat /\ c[a] \in Nat /\ e[a] \in Nat
  BY SyncAssumption DEF Clock
<1>2. b[a] <= c[a] /\ c[a] <= e[a]
  BY DEF Reached
<1> QED
  BY <1>1, <1>2

\* Knowing more, and having reached more, keeps a queue's promises.
LEMMA StillFresh ==
    /\ \A q, known, more : Fresh(q, known) /\ known \subseteq more => Fresh(q, more)
    /\ \A q \in Seq(Frame), c, e \in Clock :
          Behind(q, c) /\ Reached(c, e) => Behind(q, e)
<1>1. \A q, known, more : Fresh(q, known) /\ known \subseteq more => Fresh(q, more)
  BY DEF Fresh
<1>2. ASSUME NEW q \in Seq(Frame), NEW c \in Clock, NEW e \in Clock, Behind(q, c), Reached(c, e)
      PROVE  Behind(q, e)
  <2> SUFFICES ASSUME NEW i \in DOMAIN q, q[i].type = "STEP1"
               PROVE  Reached(q[i].sv, e)
    BY DEF Behind
  <2>1. q[i] \in Frame
    OBVIOUS
  <2>2. q[i].sv \in Clock
    BY <2>1 DEF Frame, StepOne, Changes
  <2>3. Reached(q[i].sv, c)
    BY <1>2 DEF Behind
  <2> QED
    BY <1>2, <2>2, <2>3, ReachedTransitive
<1> QED
  BY <1>1, <1>2

\* A document that has an update applied knows and has reached no less.
LEMMA Advances ==
    ASSUME NEW d \in Doc, NEW ops \in SUBSET Op
    PROVE  LET e == applyUpdate(d, ops)
           IN  /\ e \in Doc /\ encodeDoc(e) = encodeDoc(d) \cup ops
               /\ Reached(d.clock, e.clock) /\ Integrated(d) \subseteq Integrated(e)
<1> DEFINE e == applyUpdate(d, ops)
<1>1. e \in Doc /\ encodeDoc(e) = encodeDoc(d) \cup ops /\ Reached(d.clock, e.clock)
  BY ApplyUpdate, ApplyEncodes DEF Reached
<1> HIDE DEF e
<1>2. \A a \in Client : /\ d.clock[a] \in 0..MaxEdits /\ e.clock[a] \in 0..MaxEdits
                        /\ d.clock[a] <= e.clock[a]
  BY <1>1 DEF Doc, Clock, Reached
<1>3. Integrated(d) \subseteq Integrated(e)
  BY <1>2, OpShape, SyncAssumption DEF Integrated
<1> QED
  BY <1>1, <1>3 DEF e

\* The answer to a handshake, with what the asker has integrated, is all the
\* answering document knows.
LEMMA AnswerComplete ==
    ASSUME NEW d \in Doc, NEW r \in Doc, NEW sv \in Clock, Reached(sv, r.clock)
    PROVE  encodeDoc(d) \subseteq Integrated(r) \cup encodeStateAsUpdate(d, sv)
<1>1. encodeDoc(d) \subseteq Op
  BY DEF encodeDoc, Integrated, Doc
<1>2. \A a \in Client : sv[a] \in 0..MaxEdits /\ r.clock[a] \in 0..MaxEdits /\ sv[a] <= r.clock[a]
  BY DEF Doc, Clock, Reached
<1> SUFFICES ASSUME NEW op \in encodeDoc(d), op \notin encodeStateAsUpdate(d, sv)
             PROVE  op \in Integrated(r)
  OBVIOUS
<1>3. op \in Op /\ op[1] \in Client /\ op[2] \in 1..MaxEdits /\ ~(op[2] > sv[op[1]])
  BY <1>1, OpShape DEF encodeDoc, encodeStateAsUpdate
<1> QED
  BY <1>2, <1>3, SyncAssumption DEF Integrated

\* Of the queues u up and w down of one socket, with its client's replica r and
\* the room's document d: what goes up is known below, what goes down is known
\* above or followed by a handshake; and each end has, is being sent, or is
\* being asked for, what the other one knows.
Upwards(u, r) == Carried(u) \subseteq encodeDoc(r) /\ Behind(u, r.clock)
Downwards(w, d) == Fresh(w, encodeDoc(d)) /\ Behind(w, d.clock)
RoomGets(u, w, r, d) == Asks(w) \/ encodeDoc(r) \subseteq encodeDoc(d) \cup Carried(u)
ClientGets(u, w, r, d) == Asks(u) \/ Integrated(d) \subseteq encodeDoc(r) \cup Carried(w)

FlowAt(s) ==
    /\ Upwards(up[s], replica[owner[s]])
    /\ Downwards(down[s], doc)
    /\ RoomGets(up[s], down[s], replica[owner[s]], doc)
    /\ clientSide[s] = "connecting" => Asks(down[s])
    /\ \/ clientSide[s] = "connecting" \/ s \in unsent
       \/ ClientGets(up[s], down[s], replica[owner[s]], doc)

Alive(s) == clientSide[s] \in {"connecting", "open"}
Flow == \A s \in Socket : s \in connections /\ Alive(s) => FlowAt(s)

\* A client has one attempt at a time, and the room hears nobody it has not
\* accepted.
OneAttempt ==
    /\ connections \subseteq DOMAIN owner \cap Socket
    /\ \A s \in Socket : s \notin connections => up[s] = <<>>
    /\ \A s, t \in Socket : Alive(s) /\ Alive(t) /\ owner[s] = owner[t] => s = t

\* A client that learns keeps its promises.
LEMMA ClientLearns ==
    ASSUME NEW u \in Seq(Frame), NEW r \in Doc, NEW e \in Doc,
           encodeDoc(r) \subseteq encodeDoc(e), Reached(r.clock, e.clock)
    PROVE  /\ Upwards(u, r) => Upwards(u, e)
           /\ \A w, d : ClientGets(u, w, r, d) => ClientGets(u, w, e, d)
<1>1. r.clock \in Clock /\ e.clock \in Clock
  BY DEF Doc
<1> QED
  BY <1>1, StillFresh DEF Upwards, ClientGets

\* A room that learns keeps its promises.
LEMMA RoomLearns ==
    ASSUME NEW w \in Seq(Frame), NEW d \in Doc, NEW e \in Doc,
           encodeDoc(d) \subseteq encodeDoc(e), Reached(d.clock, e.clock)
    PROVE  /\ Downwards(w, d) => Downwards(w, e)
           /\ \A u, r : RoomGets(u, w, r, d) => RoomGets(u, w, r, e)
<1>1. d.clock \in Clock /\ e.clock \in Clock
  BY DEF Doc
<1> QED
  BY <1>1, StillFresh DEF Downwards, RoomGets

\* A socket's ends have types.
LEMMA Ends ==
    ASSUME Shape, NEW s \in Socket, Alive(s)
    PROVE  /\ up[s] \in Seq(Frame) /\ down[s] \in Seq(Frame)
           /\ s \in DOMAIN owner /\ owner[s] \in Client /\ replica[owner[s]] \in Doc /\ doc \in Doc
  BY DEF Shape, Alive, Queue

\* What a step does not touch stays as it was.
LEMMA FlowKept ==
    ASSUME NEW s \in Socket, FlowAt(s),
           owner'[s] = owner[s], replica'[owner[s]] = replica[owner[s]], UNCHANGED doc,
           up'[s] = up[s], down'[s] = down[s], clientSide'[s] = clientSide[s],
           s \in unsent => s \in unsent'
    PROVE  FlowAt(s)'
<1>1. owner'[s] = owner[s] /\ replica'[owner'[s]] = replica[owner[s]]
  OBVIOUS
<1> QED
  BY <1>1 DEF FlowAt

\* An edit adds one operation to its author's replica.
LEMMA EditLearns ==
    ASSUME Shape, NEW c \in Client, Edit(c)
    PROVE  LET op == <<c, replica[c].clock[c] + 1>>
           IN  /\ op \in Op /\ replica'[c] \in Doc
               /\ encodeDoc(replica'[c]) = encodeDoc(replica[c]) \cup {op}
               /\ Reached(replica[c].clock, replica'[c].clock)
               /\ replica'[c].pend = replica[c].pend
               /\ replica'[c].clock[c] = replica[c].clock[c] + 1
               /\ \A a \in Client \ {c} : replica'[c].clock[a] = replica[c].clock[a]
               /\ \A b \in Client \ {c} : replica'[b] = replica[b]
<1> DEFINE k == replica[c].clock[c] + 1
           d == replica[c]
           e == replica'[c]
<1>1. d \in Doc /\ d.clock \in Clock /\ d.clock[c] \in 0..MaxEdits
  BY DEF Shape, Doc, Clock
<1>2. k \in 1..MaxEdits /\ d.clock[c] \in Nat
  <2>1. d.clock[c] < EditsOf[c] /\ EditsOf[c] \in 0..MaxEdits
    BY SyncAssumption DEF Edit
  <2> QED
    BY <1>1, <2>1, SyncAssumption
<1>3. replica' = [replica EXCEPT ![c].clock[c] = k]
  BY DEF Edit
<1>4. /\ e.pend = d.pend /\ e.clock[c] = k /\ e \in Doc
      /\ \A a \in Client \ {c} : e.clock[a] = d.clock[a]
      /\ \A b \in Client \ {c} : replica'[b] = replica[b]
  <2> DEFINE g == [d EXCEPT !.clock = [@ EXCEPT ![c] = k]]
  <2>1. /\ g.pend = d.pend /\ g.clock = [d.clock EXCEPT ![c] = k] /\ g \in Doc
        /\ g.clock[c] = k /\ \A a \in Client \ {c} : g.clock[a] = d.clock[a]
    BY <1>1, <1>2, SyncAssumption DEF Doc, Clock
  <2>2. replica' = [replica EXCEPT ![c] = g]
    BY <1>3
  <2> HIDE DEF g
  <2>3. e = g /\ \A b \in Client \ {c} : replica'[b] = replica[b]
    BY <2>2 DEF Shape
  <2> QED
    BY <2>1, <2>3
<1>5. <<c, k>> \in Op /\ <<c, k>>[1] = c /\ <<c, k>>[2] = k
  BY <1>2, OpShape
<1>6. \A a \in Client : d.clock[a] \in Nat
  BY <1>1, SyncAssumption DEF Clock
<1> DEFINE n == d.clock[c]
<1>7. k = n + 1 /\ n \in Nat
  BY <1>2
<1> HIDE DEF k, d, e, n
<1>8. Reached(d.clock, e.clock)
  BY <1>4, <1>6, <1>7 DEF Reached, n
<1>9. Integrated(e) = Integrated(d) \cup {<<c, k>>}
  <2>1. \A op \in Op : op[1] # c => (op \in Integrated(e) <=> op \in Integrated(d))
    BY <1>4, OpShape DEF Integrated
  <2>2. \A op \in Op : op[1] = c => (op \in Integrated(e) <=> op \in Integrated(d) \/ op[2] = k)
    BY <1>4, <1>7, OpShape, SyncAssumption DEF Integrated, n
  <2>3. \A op \in Op : op[1] = c /\ op[2] = k <=> op = <<c, k>>
    BY <1>5, OpShape
  <2> QED
    BY <1>5, <2>1, <2>2, <2>3 DEF Integrated
<1>10. encodeDoc(e) = encodeDoc(d) \cup {<<c, k>>}
  BY <1>4, <1>9 DEF encodeDoc
<1> QED
  BY <1>4, <1>5, <1>8, <1>10 DEF k, d, e

\* An edit is sent on the open socket; a connecting one is still to be asked.
LEMMA EditFlow ==
    ASSUME Shape, NEW c \in Client, Edit(c), NEW s \in Socket, s \in connections, Alive(s),
           FlowAt(s)
    PROVE  FlowAt(s)'
<1> DEFINE op == <<c, replica[c].clock[c] + 1>>
<1>1. /\ up' = [t \in Socket |-> IF t \in OpenSocket(c) \cap connections
                                 THEN Append(up[t], UPDATE({op})) ELSE up[t]]
      /\ UNCHANGED <<doc, owner, clientSide, down, unsent>>
  BY DEF Edit
<1>2. /\ op \in Op /\ replica'[c] \in Doc
      /\ encodeDoc(replica'[c]) = encodeDoc(replica[c]) \cup {op}
      /\ Reached(replica[c].clock, replica'[c].clock)
      /\ \A b \in Client \ {c} : replica'[b] = replica[b]
  BY EditLearns
<1> HIDE DEF op
<1>3. /\ up[s] \in Seq(Frame) /\ down[s] \in Seq(Frame)
      /\ s \in DOMAIN owner /\ owner[s] \in Client /\ replica[owner[s]] \in Doc
  BY Ends
<1>4. CASE owner[s] # c
  <2>1. up'[s] = up[s] /\ replica'[owner[s]] = replica[owner[s]]
    BY <1>1, <1>2, <1>3, <1>4 DEF OpenSocket
  <2> QED
    BY <1>1, <2>1, FlowKept
<1>5. CASE owner[s] = c
  <2> DEFINE u == up[s]
             v == up'[s]
             w == down[s]
             r == replica[c]
             e == replica'[c]
  <2>1. /\ Upwards(u, r) /\ Downwards(w, doc) /\ RoomGets(u, w, r, doc)
        /\ clientSide[s] = "connecting" => Asks(w)
        /\ clientSide[s] = "connecting" \/ s \in unsent \/ ClientGets(u, w, r, doc)
    BY <1>5 DEF FlowAt
  <2>2. r \in Doc /\ e \in Doc /\ u \in Seq(Frame) /\ w \in Seq(Frame)
    BY <1>2, <1>3, <1>5
  <2>3. Upwards(u, e) /\ (ClientGets(u, w, r, doc) => ClientGets(u, w, e, doc))
    BY <1>2, <2>1, <2>2, ClientLearns
  <2>4. CASE clientSide[s] = "connecting"
    <3>1. v = u
      BY <1>1, <2>4 DEF OpenSocket
    <3>2. RoomGets(v, w, e, doc)
      BY <2>1, <2>4 DEF RoomGets
    <3> QED
      BY <1>1, <1>5, <2>1, <2>3, <2>4, <3>1, <3>2 DEF FlowAt
  <2>5. CASE clientSide[s] = "open"
    <3> DEFINE f == UPDATE({op})
    <3>1. v = Append(u, f)
      BY <1>1, <1>3, <1>5, <2>5 DEF OpenSocket
    <3>2. f \in Frame /\ OpsOf(f) = {op} /\ f.type # "STEP1"
      BY <1>2, FrameShape DEF UPDATE
    <3> HIDE DEF f, u, v, w, e, r
    <3>3. /\ Carried(v) = Carried(u) \cup {op}
          /\ Asks(v) <=> Asks(u)
          /\ \A clock : Behind(u, clock) => Behind(v, clock)
      BY <2>2, <3>1, <3>2, Sent
    <3>4. encodeDoc(e) = encodeDoc(r) \cup {op}
      BY <1>2 DEF e, r
    <3>5. Upwards(v, e)
      BY <2>3, <3>3, <3>4 DEF Upwards
    <3>6. RoomGets(v, w, e, doc)
      BY <2>1, <3>3, <3>4 DEF RoomGets
    <3>7. ClientGets(u, w, r, doc) => ClientGets(v, w, e, doc)
      BY <2>3, <3>3 DEF ClientGets
    <3> QED
      BY <1>1, <1>5, <2>1, <2>5, <3>5, <3>6, <3>7 DEF FlowAt, u, v, w, e, r
  <2> QED
    BY <2>4, <2>5 DEF Alive
<1> QED
  BY <1>4, <1>5

\* An accepted socket is asked at once.
LEMMA AddConnectionFlow ==
    ASSUME Shape, OneAttempt, Flow, NEW c \in Client, addConnection(c),
           NEW s \in Socket, s \in connections', Alive(s)'
    PROVE  FlowAt(s)'
<1> DEFINE n == Len(owner) + 1
           f == STEP1(doc.clock)
<1>1. /\ owner' = Append(owner, c) /\ n \in Nat
      /\ clientSide' = [clientSide EXCEPT ![n] = "connecting"]
      /\ connections' = connections \cup {n}
      /\ down' = [down EXCEPT ![n] = <<f>>]
      /\ UNCHANGED <<replica, doc, up, unsent>>
      /\ owner \in Seq(Client)
  BY DEF addConnection, Shape
<1>2. n \notin DOMAIN owner /\ n \notin connections
  BY <1>1 DEF OneAttempt
<1>3. \A t \in DOMAIN owner : owner'[t] = owner[t]
  BY <1>1
<1>4. owner'[n] = c
  BY <1>1
<1> HIDE DEF n, f
<1>5. CASE s # n
  <2>1. s \in connections /\ clientSide'[s] = clientSide[s] /\ down'[s] = down[s]
    BY <1>1, <1>5 DEF Shape
  <2>2. s \in DOMAIN owner /\ Alive(s)
    BY <2>1 DEF OneAttempt, Alive
  <2>3. FlowAt(s)
    BY <2>1, <2>2 DEF Flow
  <2> QED
    BY <1>1, <1>3, <2>1, <2>2, <2>3, FlowKept
<1>6. CASE s = n
  <2> DEFINE w == down'[s]
             u == up'[s]
             r == replica[c]
  <2>1. u = <<>> /\ w = <<f>> /\ clientSide'[s] = "connecting"
    BY <1>1, <1>2, <1>6 DEF OneAttempt, Shape
  <2>2. doc.clock \in Clock /\ f.type = "STEP1" /\ f.sv = doc.clock
    BY DEF Shape, Doc, f, STEP1
  <2> HIDE DEF u, w, r
  <2>3. Asks(w) /\ Fresh(w, encodeDoc(doc)) /\ Behind(w, doc.clock)
    <3>1. DOMAIN w = {1} /\ w[1] = f
      BY <2>1
    <3>2. Reached(f.sv, doc.clock)
      BY <2>2, SyncAssumption DEF Reached, Clock
    <3>3. OpsOf(f) = {}
      BY <2>2 DEF OpsOf
    <3> QED
      BY <2>2, <3>1, <3>2, <3>3 DEF Asks, Fresh, Behind
  <2>4. Upwards(u, r)
    <3>1. DOMAIN u = {}
      BY <2>1
    <3> QED
      BY <3>1 DEF Upwards, Carried, Behind
  <2>5. owner'[s] = c /\ UNCHANGED <<doc, replica>>
    BY <1>1, <1>4, <1>6
  <2> QED
    BY <2>1, <2>3, <2>4, <2>5 DEF FlowAt, Downwards, RoomGets, u, w, r
<1> QED
  BY <1>5, <1>6

\* A socket that opens asks.
LEMMA OnOpenFlow ==
    ASSUME Shape, NEW t \in Socket, OnOpen(t),
           NEW s \in Socket, s \in connections, Alive(s), FlowAt(s)
    PROVE  FlowAt(s)'
<1>1. /\ clientSide[t] = "connecting"
      /\ clientSide' = [clientSide EXCEPT ![t] = "open"]
      /\ up' = SendUp(up, t, STEP1(replica[owner[t]].clock))
      /\ UNCHANGED <<replica, doc, owner, down, unsent>>
  BY DEF OnOpen
<1>2. CASE s # t
  <2>1. up'[s] = up[s] /\ clientSide'[s] = clientSide[s]
    BY <1>1, <1>2 DEF SendUp, Shape
  <2> QED
    BY <1>1, <2>1, FlowKept
<1>3. CASE s = t
  <2> DEFINE u == up[s]
             v == up'[s]
             w == down[s]
             r == replica[owner[s]]
             f == STEP1(r.clock)
  <2>1. /\ u \in Seq(Frame) /\ r \in Doc /\ r.clock \in Clock
    BY Ends DEF Doc
  <2>2. v = Append(u, f) /\ clientSide'[s] = "open"
    BY <1>1, <1>3 DEF SendUp, Shape
  <2>3. f \in Frame /\ OpsOf(f) = {} /\ f.type = "STEP1" /\ f.sv = r.clock
    BY <2>1, FrameShape DEF STEP1
  <2>4. Upwards(u, r) /\ Downwards(w, doc) /\ RoomGets(u, w, r, doc)
    BY DEF FlowAt
  <2> HIDE DEF u, v, w, r, f
  <2>5. Reached(f.sv, r.clock)
    BY <2>1, <2>3, SyncAssumption DEF Reached, Clock
  <2>6. Carried(v) = Carried(u) /\ Asks(v) /\ (Behind(u, r.clock) => Behind(v, r.clock))
    <3>1. /\ Carried(Append(u, f)) = Carried(u) \cup OpsOf(f)
          /\ Asks(Append(u, f)) <=> Asks(u) \/ f.type = "STEP1"
      BY ONLY <2>1, <2>3, Sent
    <3>2. \A clock : Behind(u, clock) /\ (f.type = "STEP1" => Reached(f.sv, clock))
                       => Behind(Append(u, f), clock)
      BY ONLY <2>1, <2>3, Sent
    <3>3. Behind(u, r.clock) => Behind(v, r.clock)
      BY ONLY <2>2, <2>5, <3>2
    <3> QED
      BY ONLY <2>2, <2>3, <3>1, <3>3
  <2>7. Upwards(v, r) /\ RoomGets(v, w, r, doc) /\ ClientGets(v, w, r, doc)
    BY <2>4, <2>6 DEF Upwards, RoomGets, ClientGets
  <2> QED
    BY <1>1, <2>2, <2>4, <2>7 DEF FlowAt, u, v, w, r
<1> QED
  BY <1>2, <1>3

\* The room's answer to a handshake leaves the client nothing to ask for.
LEMMA RoomAnswersFlow ==
    ASSUME Shape, NEW t \in Socket, RoomReceives(t), Head(up[t]).type = "STEP1",
           NEW s \in Socket, s \in connections, Alive(s), FlowAt(s)
    PROVE  FlowAt(s)'
<1> DEFINE sv == Head(up[t]).sv
           ops == encodeStateAsUpdate(doc, sv)
           f == STEP2(ops)
<1>1. /\ up[t] # <<>> /\ up' = [up EXCEPT ![t] = Tail(@)]
      /\ down' = SendDown(down, {t}, f) /\ unsent' = unsent \ {t}
      /\ UNCHANGED <<doc, replica, owner, clientSide>>
  BY DEF RoomReceives
<1> HIDE DEF sv, f
<1>2. CASE s # t
  <2>1. up'[s] = up[s] /\ down'[s] = down[s] /\ (s \in unsent => s \in unsent')
    BY <1>1, <1>2 DEF SendDown, Shape
  <2> QED
    BY <1>1, <2>1, FlowKept
<1>3. CASE s = t
  <2> DEFINE u == up[s]
             v == up'[s]
             w == down[s]
             x == down'[s]
             r == replica[owner[s]]
             d == doc
  <2>1. /\ u \in Seq(Frame) /\ w \in Seq(Frame) /\ r \in Doc /\ d \in Doc
        /\ r.clock \in Clock /\ d.clock \in Clock
    BY Ends DEF Doc
  <2>2. u # <<>> /\ v = Tail(u) /\ x = Append(w, f)
    BY <1>1, <1>3 DEF SendDown, Reachable, Alive, Shape
  <2>3. /\ Upwards(u, r) /\ Downwards(w, d) /\ RoomGets(u, w, r, d)
        /\ clientSide[s] = "connecting" => Asks(w)
    BY DEF FlowAt
  <2>4. Head(u).type = "STEP1" /\ Head(u).sv = sv
    BY <1>3 DEF sv
  <2> HIDE DEF u, v, w, x, r, d
  <2>5. ops \in SUBSET Op /\ ops \subseteq encodeDoc(d)
    BY DifferenceKnown DEF encodeStateAsUpdate, Integrated, Shape, Doc, d
  <2>6. f \in Frame /\ OpsOf(f) = ops /\ f.type # "STEP1"
    BY <2>5, FrameShape DEF STEP2, f
  <2>7. /\ Carried(v) = Carried(u)
        /\ Upwards(v, r) /\ Reached(sv, r.clock) /\ sv \in Clock
    <3>1. /\ Carried(u) = OpsOf(Head(u)) \cup Carried(v) /\ Head(u) \in Frame
          /\ \A clock : Behind(u, clock) => Behind(v, clock) /\ Reached(sv, clock)
      BY <2>1, <2>2, <2>4, Received
    <3>2. OpsOf(Head(u)) = {} /\ sv \in Clock
      BY <2>4, <3>1 DEF OpsOf, Frame, StepOne, Changes
    <3> QED
      BY <2>3, <3>1, <3>2 DEF Upwards
  <2>8. /\ Carried(x) = Carried(w) \cup ops
        /\ Asks(x) <=> Asks(w)
        /\ Downwards(x, d)
    BY <2>1, <2>2, <2>3, <2>5, <2>6, Sent DEF Downwards
  <2>9. ClientGets(v, x, r, d)
    <3>1. encodeDoc(d) \subseteq Integrated(r) \cup ops
      BY <2>1, <2>7, AnswerComplete DEF d
    <3> QED
      BY <2>8, <3>1 DEF ClientGets, encodeDoc
  <2>10. RoomGets(v, x, r, d)
    BY <2>3, <2>7, <2>8 DEF RoomGets
  <2> QED
    BY <1>1, <2>3, <2>7, <2>8, <2>9, <2>10 DEF FlowAt, u, v, w, x, r, d
<1> QED
  BY <1>2, <1>3

\* What the room integrates goes to everybody but the origin, who has what it
\* sent, and otherwise waits for its next handshake.
LEMMA RoomAppliesFlow ==
    ASSUME ~AppendFails, Shape, NEW t \in Socket, RoomReceives(t), Head(up[t]).type # "STEP1",
           NEW s \in Socket, s \in connections, Alive(s), FlowAt(s)
    PROVE  FlowAt(s)'
<1> DEFINE h == Head(up[t])
           ops == h.ops
           d == doc
           e == doc'
           update == Integrated(e) \ Integrated(d)
           f == UPDATE(update)
<1>1. /\ up[t] # <<>> /\ up' = [up EXCEPT ![t] = Tail(@)]
      /\ UNCHANGED <<replica, owner, clientSide>>
      /\ e = applyUpdate(d, ops)
      /\ \/ update = {} /\ UNCHANGED down
         \/ down' = SendDown(down, connections \ {t}, f)
      /\ unsent' = IF update \subseteq ops THEN unsent ELSE unsent \cup {t}
  BY DEF RoomReceives, RoomApplies
<1>2. h \in Frame /\ up[t] \in Seq(Frame)
  BY <1>1, QueueReceive DEF Shape, Queue
<1>3. ops \in SUBSET Op /\ OpsOf(h) = ops
  BY <1>2 DEF OpsOf, Frame, StepOne, Changes
<1>4. /\ d \in Doc /\ e \in Doc /\ encodeDoc(e) = encodeDoc(d) \cup ops
      /\ Reached(d.clock, e.clock) /\ Integrated(e) = Integrated(d) \cup update
  <2>1. d \in Doc
    BY DEF Shape
  <2> QED
    BY <1>1, <1>3, <2>1, Advances
<1>5. update \in SUBSET Op /\ update \subseteq encodeDoc(e)
  BY DEF encodeDoc, Integrated
<1> HIDE DEF update
<1>6. f \in Frame /\ OpsOf(f) = update /\ f.type # "STEP1"
  BY <1>5, FrameShape DEF UPDATE
<1> DEFINE u == up[s]
           v == up'[s]
           w == down[s]
           x == down'[s]
           r == replica[owner[s]]
<1>7. u \in Seq(Frame) /\ w \in Seq(Frame) /\ r \in Doc
  BY Ends
<1>8. /\ Upwards(u, r) /\ Downwards(w, d) /\ RoomGets(u, w, r, d)
      /\ clientSide[s] = "connecting" => Asks(w)
      /\ clientSide[s] = "connecting" \/ s \in unsent \/ ClientGets(u, w, r, d)
  BY DEF FlowAt
<1>9. Downwards(w, e) /\ RoomGets(u, w, r, e)
  <2> HIDE DEF d, e, u, w, r
  <2> QED
    BY <1>4, <1>7, <1>8, RoomLearns
<1>10. replica'[owner'[s]] = r /\ clientSide'[s] = clientSide[s]
  BY <1>1
<1>11. CASE s # t
  <2>1. v = u /\ (x = Append(w, f) \/ (update = {} /\ x = w))
    <3> HIDE DEF d, e, f
    <3>1. s \in (connections \ {t}) \cap Reachable
      BY <1>11 DEF Reachable, Alive
    <3>2. v = u
      BY <1>1, <1>11 DEF Shape
    <3>3. x = Append(w, f) \/ (update = {} /\ x = w)
      BY <1>1, <3>1 DEF SendDown
    <3> QED
      BY <3>2, <3>3
  <2>2. s \in unsent => s \in unsent'
    BY <1>1
  <2> HIDE DEF d, e, u, v, w, x, r, f
  <2>3. /\ Carried(x) = Carried(w) \cup update
        /\ Asks(x) <=> Asks(w)
        /\ Downwards(x, e)
    <3>1. CASE update = {} /\ x = w
      BY ONLY <1>9, <3>1
    <3>2. CASE x = Append(w, f)
      <4>1. /\ Carried(x) = Carried(w) \cup update
            /\ Asks(x) <=> Asks(w)
        BY ONLY <1>6, <1>7, <3>2, Sent
      <4>2. Fresh(x, encodeDoc(e))
        BY ONLY <1>5, <1>6, <1>7, <1>9, <3>2, Sent DEF Downwards
      <4>3. Behind(x, e.clock)
        BY ONLY <1>6, <1>7, <1>9, <3>2, Sent DEF Downwards
      <4> QED
        BY ONLY <4>1, <4>2, <4>3 DEF Downwards
    <3> QED
      BY ONLY <2>1, <3>1, <3>2
  <2>4. RoomGets(v, x, r, e)
    BY <1>9, <2>1, <2>3 DEF RoomGets
  <2>5. ClientGets(u, w, r, d) => ClientGets(v, x, r, e)
    BY <1>4, <2>1, <2>3 DEF ClientGets
  <2> QED
    BY <1>8, <1>10, <2>1, <2>2, <2>3, <2>4, <2>5 DEF FlowAt, d, e, u, v, w, x, r
<1>12. CASE s = t
  <2>1. u # <<>> /\ v = Tail(u) /\ x = w /\ h = Head(u)
    BY <1>1, <1>12 DEF SendDown, Shape
  <2>2. s \in unsent' \/ (update \subseteq ops /\ (s \in unsent => s \in unsent'))
    BY <1>1, <1>12
  <2> HIDE DEF d, e, u, v, w, x, r, f, h, ops
  <2>3. /\ Carried(u) = ops \cup Carried(v)
        /\ Asks(u) <=> Asks(v)
        /\ \A clock : Behind(u, clock) => Behind(v, clock)
    <3>1. h.type # "STEP1"
      BY DEF h
    <3> QED
      BY <1>3, <1>7, <2>1, <3>1, Received
  <2>4. Upwards(v, r) /\ ops \subseteq encodeDoc(r)
    BY <1>8, <2>3 DEF Upwards
  <2>5. RoomGets(v, w, r, e)
    BY <1>4, <1>9, <2>3 DEF RoomGets
  <2>6. update \subseteq ops /\ ClientGets(u, w, r, d) => ClientGets(v, w, r, e)
    BY <1>4, <2>3, <2>4 DEF ClientGets
  <2> QED
    BY <1>8, <1>9, <1>10, <2>1, <2>2, <2>4, <2>5, <2>6 DEF FlowAt, d, e, u, v, w, x, r
<1> QED
  BY <1>11, <1>12

\* A client's answer to a handshake leaves the room nothing to ask for, and what
\* it applies without one behind it the room knows.
LEMMA ClientReceivesFlow ==
    ASSUME Shape, OneAttempt, NEW t \in Socket, ClientReceives(t),
           NEW s \in Socket, s \in connections, Alive(s), FlowAt(s)
    PROVE  FlowAt(s)'
<1> DEFINE h == Head(down[t])
           c == owner[t]
           ops == encodeStateAsUpdate(replica[c], h.sv)
           f == STEP2(ops)
<1>1. /\ clientSide[t] = "open" /\ down[t] # <<>> /\ down' = [down EXCEPT ![t] = Tail(@)]
      /\ IF h.type = "STEP1"
         THEN up' = SendUp(up, t, f) /\ UNCHANGED replica
         ELSE replica' = [replica EXCEPT ![c] = applyUpdate(@, h.ops)] /\ UNCHANGED up
      /\ UNCHANGED <<doc, owner, clientSide, connections, unsent>>
  BY DEF ClientReceives
<1>2. c \in Client
  BY <1>1, Ends DEF Alive
<1> HIDE DEF h, c, f
<1>3. CASE s # t
  <2>1. owner[s] # c
    BY <1>1, <1>3 DEF OneAttempt, Alive, c
  <2>2. up'[s] = up[s] /\ down'[s] = down[s] /\ replica'[owner[s]] = replica[owner[s]]
    <3>1. owner[s] \in Client
      BY Ends
    <3> QED
      BY <1>1, <1>3, <2>1, <3>1 DEF SendUp, Shape
  <2> QED
    BY <1>1, <2>2, FlowKept
<1>4. CASE s = t
  <2> DEFINE u == up[s]
             v == up'[s]
             w == down[s]
             x == down'[s]
             r == replica[c]
             e == replica'[c]
             d == doc
  <2>1. u \in Seq(Frame) /\ w \in Seq(Frame) /\ r \in Doc /\ d \in Doc
    BY <1>4, Ends DEF c
  <2>2. /\ Upwards(u, r) /\ Downwards(w, d) /\ RoomGets(u, w, r, d)
        /\ s \in unsent \/ ClientGets(u, w, r, d)
    BY <1>1, <1>4 DEF FlowAt, c
  <2>3. w # <<>> /\ x = Tail(w) /\ h = Head(w)
    BY <1>1, <1>4 DEF Shape, h
  <2>4. clientSide'[s] = "open" /\ replica'[owner'[s]] = e /\ doc' = d /\ unsent' = unsent
    BY <1>1, <1>4 DEF c
  <2>5. h.type = "STEP1" => v = Append(u, f) /\ e = r
    BY <1>1, <1>4 DEF SendUp, Shape
  <2>6. h.type # "STEP1" => v = u /\ e = applyUpdate(r, h.ops)
    BY <1>1, <1>2 DEF Shape
  <2> HIDE DEF u, v, w, x, r, e, d
  <2>7. /\ h \in Frame
        /\ Carried(w) = OpsOf(h) \cup Carried(x)
        /\ h.type # "STEP1" => (Asks(w) <=> Asks(x))
        /\ Fresh(x, encodeDoc(d)) /\ (OpsOf(h) \subseteq encodeDoc(d) \/ Asks(x))
        /\ Behind(x, d.clock) /\ (h.type = "STEP1" => Reached(h.sv, d.clock))
    BY <2>1, <2>2, <2>3, Received DEF Downwards
  <2>8. Downwards(x, d)
    BY <2>7 DEF Downwards
  <2>9. CASE h.type = "STEP1"
    <3>1. OpsOf(h) = {} /\ h.sv \in Clock
      BY <2>7, <2>9 DEF OpsOf, Frame, StepOne, Changes
    <3>2. ops \subseteq encodeDoc(r) /\ ops \in SUBSET Op
      BY <2>1, DifferenceKnown DEF r, encodeStateAsUpdate, Integrated, Doc
    <3>3. f \in Frame /\ OpsOf(f) = ops /\ f.type # "STEP1"
      BY <3>2, FrameShape DEF STEP2, f
    <3>4. encodeDoc(r) \subseteq Integrated(d) \cup ops
      BY <2>1, <2>7, <2>9, <3>1, AnswerComplete DEF r
    <3> HIDE DEF ops
    <3>5. /\ Carried(v) = Carried(u) \cup ops
          /\ Asks(v) <=> Asks(u)
          /\ \A clock : Behind(u, clock) => Behind(v, clock)
      BY <2>1, <2>5, <2>9, <3>3, Sent
    <3>6. Upwards(v, r)
      BY <2>2, <3>2, <3>5 DEF Upwards
    <3>7. RoomGets(v, x, r, d)
      BY <3>4, <3>5 DEF RoomGets, encodeDoc
    <3>8. ClientGets(u, w, r, d) => ClientGets(v, x, r, d)
      BY <2>7, <3>1, <3>5 DEF ClientGets
    <3> QED
      BY <2>2, <2>4, <2>5, <2>8, <2>9, <3>6, <3>7, <3>8 DEF FlowAt, u, v, w, x, r, e, d
  <2>10. CASE h.type # "STEP1"
    <3>1. h.ops \in SUBSET Op /\ OpsOf(h) = h.ops
      BY <2>7, <2>10 DEF OpsOf, Frame, StepOne, Changes
    <3>2. /\ e \in Doc /\ encodeDoc(e) = encodeDoc(r) \cup h.ops
          /\ Reached(r.clock, e.clock)
      BY <2>1, <2>6, <2>10, <3>1, Advances
    <3>3. Upwards(u, e)
      BY <2>1, <2>2, <3>2, ClientLearns
    <3>4. RoomGets(u, x, e, d)
      BY <2>2, <2>7, <2>10, <3>1, <3>2 DEF RoomGets
    <3>5. ClientGets(u, w, r, d) => ClientGets(u, x, e, d)
      BY <2>7, <3>1, <3>2 DEF ClientGets
    <3> QED
      BY <2>2, <2>4, <2>6, <2>8, <2>10, <3>3, <3>4, <3>5 DEF FlowAt, u, v, w, x, r, e, d
  <2> QED
    BY <2>9, <2>10
<1> QED
  BY <1>3, <1>4

\* A load gives back what was integrated, and loses only what waited.
LEMMA LoadKeepsClock ==
    ASSUME Shape, LogExact, NEW fits \in BOOLEAN, Load(fits)
    PROVE  doc' \in Doc /\ doc'.clock = doc.clock
<1>1. LogHoldsDoc
  BY LogExactHolds
<1> QED
  BY <1>1, LoadShape DEF LogHoldsDoc, Load

\* A wake-up asks every client again.
LEMMA WakeUpFlow ==
    ASSUME Shape, LogExact, NEW fits \in BOOLEAN, WakeUp(fits),
           NEW s \in Socket, s \in connections, Alive(s), FlowAt(s)
    PROVE  FlowAt(s)'
<1> DEFINE w == down[s]
           x == down'[s]
           d == doc
           e == doc'
           u == up[s]
           r == replica[owner[s]]
           f == STEP1(e.clock)
<1>1. /\ down' = SendDown(down, connections, f)
      /\ UNCHANGED <<replica, owner, clientSide, connections, up, unsent>>
  BY DEF WakeUp
<1>2. e \in Doc /\ e.clock = d.clock /\ e.clock \in Clock
  BY LoadKeepsClock DEF WakeUp, Doc
<1>3. w \in Seq(Frame) /\ d \in Doc
  BY Ends
<1>4. x = Append(w, f)
  BY <1>1 DEF SendDown, Reachable, Alive
<1>5. /\ Upwards(u, r) /\ Downwards(w, d)
      /\ clientSide[s] = "connecting" \/ s \in unsent \/ ClientGets(u, w, r, d)
  BY DEF FlowAt
<1> HIDE DEF w, x, d, e, u, r
<1>6. f \in Frame /\ OpsOf(f) = {} /\ f.type = "STEP1" /\ f.sv = e.clock
  BY <1>2, FrameShape DEF STEP1
<1>7. Reached(f.sv, e.clock)
  BY <1>2, <1>6, SyncAssumption DEF Reached, Clock
<1> HIDE DEF f
<1>8. /\ Carried(x) = Carried(w) /\ Asks(x) /\ Fresh(x, encodeDoc(e))
      /\ Behind(w, e.clock) => Behind(x, e.clock)
  BY <1>3, <1>4, <1>6, <1>7, Sent
<1>9. Downwards(x, e) /\ RoomGets(u, x, r, e)
  BY <1>2, <1>5, <1>8 DEF Downwards, RoomGets
<1>10. Integrated(e) = Integrated(d)
  BY <1>2 DEF Integrated
<1>11. ClientGets(u, w, r, d) => ClientGets(u, x, r, e)
  BY <1>8, <1>10 DEF ClientGets
<1> QED
  BY <1>1, <1>5, <1>8, <1>9, <1>11 DEF FlowAt, w, x, d, e, u, r

\* Every action keeps what the live sockets promise.
LEMMA FlowStep ==
    ~AppendFails /\ Shape /\ LogExact /\ OneAttempt /\ Flow /\ [Next]_vars => Flow'
<1> SUFFICES ASSUME ~AppendFails, Shape, LogExact, OneAttempt, Flow, [Next]_vars,
                    NEW s \in Socket, s \in connections', Alive(s)'
             PROVE  FlowAt(s)'
  BY DEF Flow
<1>a. s \in connections /\ Alive(s) => FlowAt(s)
  BY DEF Flow
<1>1. ASSUME NEW c \in Client, Edit(c)
      PROVE  FlowAt(s)'
  <2>1. s \in connections /\ Alive(s)
    BY <1>1 DEF Edit, Alive
  <2> QED
    BY <1>1, <1>a, <2>1, EditFlow
<1>2. ASSUME NEW c \in Client, addConnection(c)
      PROVE  FlowAt(s)'
  BY <1>2, AddConnectionFlow
<1>3. ASSUME NEW t \in Socket, OnOpen(t)
      PROVE  FlowAt(s)'
  <2>1. s \in connections /\ Alive(s)
    BY <1>3 DEF OnOpen, Alive, Shape
  <2> QED
    BY <1>3, <1>a, <2>1, OnOpenFlow
<1>4. ASSUME NEW t \in Socket, RoomReceives(t)
      PROVE  FlowAt(s)'
  <2>1. s \in connections /\ Alive(s)
    BY <1>4 DEF RoomReceives, Alive
  <2> QED
    BY <1>4, <1>a, <2>1, RoomAnswersFlow, RoomAppliesFlow
<1>5. ASSUME NEW t \in Socket, ClientReceives(t)
      PROVE  FlowAt(s)'
  <2>1. s \in connections /\ Alive(s)
    BY <1>5 DEF ClientReceives, Alive
  <2> QED
    BY <1>5, <1>a, <2>1, ClientReceivesFlow
<1>6. ASSUME NEW t \in Socket, ClientCloses(t) \/ RoomCloses(t)
      PROVE  FlowAt(s)'
  <2>1. /\ s # t /\ s \in connections /\ Alive(s)
        /\ UNCHANGED <<owner, replica, doc, unsent>>
        /\ up'[s] = up[s] /\ down'[s] = down[s] /\ clientSide'[s] = clientSide[s]
    BY <1>6 DEF ClientCloses, RoomCloses, Alive, Shape
  <2> QED
    BY <1>a, <2>1, FlowKept
<1>7. ASSUME NEW fits \in BOOLEAN, Restart(fits)
      PROVE  FlowAt(s)'
  BY <1>7 DEF Restart
<1>8. ASSUME NEW fits \in BOOLEAN, WakeUp(fits)
      PROVE  FlowAt(s)'
  <2>1. s \in connections /\ Alive(s)
    BY <1>8 DEF WakeUp, Alive
  <2> QED
    BY <1>8, <1>a, <2>1, WakeUpFlow
<1>9. ASSUME (\E fits \in BOOLEAN : compact(fits)) \/ UNCHANGED vars
      PROVE  FlowAt(s)'
  <2>1. UNCHANGED <<replica, doc, owner, clientSide, connections, up, down, unsent>>
    BY <1>9 DEF compact, vars
  <2>2. s \in connections /\ Alive(s)
    BY <2>1 DEF Alive
  <2> QED
    BY <1>a, <2>1, <2>2, FlowKept
<1> QED
  BY <1>1, <1>2, <1>3, <1>4, <1>5, <1>6, <1>7, <1>8, <1>9 DEF Next

\* No action starts a second attempt, or leaves frames of a socket the room no
\* longer has.
LEMMA OneAttemptStep == Shape /\ OneAttempt /\ [Next]_vars => OneAttempt'
<1> SUFFICES ASSUME Shape, OneAttempt, [Next]_vars
             PROVE  OneAttempt'
  OBVIOUS
<1>1. ASSUME NEW c \in Client, addConnection(c)
      PROVE  OneAttempt'
  <2> DEFINE n == Len(owner) + 1
  <2>1. /\ owner' = Append(owner, c) /\ Offline(c)
        /\ clientSide' = [clientSide EXCEPT ![n] = "connecting"]
        /\ connections' = connections \cup {n}
        /\ UNCHANGED up
        /\ owner \in Seq(Client) /\ n \in Socket
    BY <1>1, SyncAssumption DEF addConnection, Shape, Socket
  <2>2. /\ DOMAIN owner' = DOMAIN owner \cup {n} /\ n \notin DOMAIN owner
        /\ owner'[n] = c /\ \A t \in DOMAIN owner : owner'[t] = owner[t]
    BY <2>1
  <2> HIDE DEF n
  <2>3. connections' \subseteq DOMAIN owner' \cap Socket
    BY <2>1, <2>2 DEF OneAttempt
  <2>4. \A s \in Socket : s \notin connections' => up'[s] = <<>>
    BY <2>1 DEF OneAttempt
  <2>5. \A s \in Socket : s # n /\ Alive(s)' =>
           /\ Alive(s) /\ s \in DOMAIN owner /\ owner'[s] = owner[s]
           /\ owner[s] # c
    <3> SUFFICES ASSUME NEW s \in Socket, s # n, Alive(s)'
                 PROVE  /\ Alive(s) /\ s \in DOMAIN owner /\ owner'[s] = owner[s]
                        /\ owner[s] # c
      OBVIOUS
    <3>1. Alive(s) /\ clientSide[s] # "closed"
      BY <2>1 DEF Alive, Shape
    <3>2. s \in DOMAIN owner
      BY <3>1, Ends
    <3> QED
      BY <2>1, <2>2, <3>1, <3>2 DEF Offline
  <2>6. \A s, t \in Socket : Alive(s)' /\ Alive(t)' /\ owner'[s] = owner'[t] => s = t
    BY <2>2, <2>5 DEF OneAttempt
  <2> QED
    BY <2>3, <2>4, <2>6 DEF OneAttempt
<1>2. ASSUME /\ UNCHANGED owner
             /\ connections' \subseteq connections
             /\ \A s \in Socket : s \notin connections' => up'[s] = <<>>
             /\ \A s \in Socket : Alive(s)' => Alive(s)
      PROVE  OneAttempt'
  BY <1>2 DEF OneAttempt
<1>3. ASSUME NEW c \in Client, Edit(c)
      PROVE  OneAttempt'
  <2>1. \A s \in Socket : s \notin connections' => up'[s] = <<>>
    BY <1>3 DEF Edit, OneAttempt
  <2> QED
    BY <1>2, <1>3, <2>1 DEF Edit, Alive
<1>4. ASSUME NEW s \in Socket, OnOpen(s)
      PROVE  OneAttempt'
  <2>1. \A t \in Socket : t \notin connections' => up'[t] = <<>>
    BY <1>4 DEF OnOpen, SendUp, OneAttempt, Shape
  <2>2. \A t \in Socket : Alive(t)' => Alive(t)
    BY <1>4 DEF OnOpen, Alive, Shape
  <2> QED
    BY <1>2, <1>4, <2>1, <2>2 DEF OnOpen
<1>5. ASSUME NEW s \in Socket, RoomReceives(s)
      PROVE  OneAttempt'
  <2>1. \A t \in Socket : t \notin connections' => up'[t] = <<>>
    BY <1>5 DEF RoomReceives, OneAttempt, Shape
  <2> QED
    BY <1>2, <1>5, <2>1 DEF RoomReceives, Alive
<1>6. ASSUME NEW s \in Socket, ClientReceives(s)
      PROVE  OneAttempt'
  <2>1. \A t \in Socket : t \notin connections' => up'[t] = <<>>
    BY <1>6 DEF ClientReceives, SendUp, OneAttempt, Shape
  <2> QED
    BY <1>2, <1>6, <2>1 DEF ClientReceives, Alive
<1>7. ASSUME NEW s \in Socket, ClientCloses(s) \/ RoomCloses(s)
      PROVE  OneAttempt'
  <2>1. \A t \in Socket : t \notin connections' => up'[t] = <<>>
    BY <1>7 DEF ClientCloses, RoomCloses, OneAttempt, Shape
  <2>2. \A t \in Socket : Alive(t)' => Alive(t)
    BY <1>7 DEF ClientCloses, RoomCloses, Alive, Shape
  <2> QED
    BY <1>2, <1>7, <2>1, <2>2 DEF ClientCloses, RoomCloses
<1>8. ASSUME \/ \E fits \in BOOLEAN : compact(fits) \/ Restart(fits) \/ WakeUp(fits)
             \/ UNCHANGED vars
      PROVE  OneAttempt'
  <2>1. \A t \in Socket : t \notin connections' => up'[t] = <<>>
    BY <1>8 DEF compact, Restart, WakeUp, vars, OneAttempt
  <2> QED
    BY <1>2, <1>8, <2>1 DEF compact, Restart, WakeUp, vars, Alive
<1> QED
  BY <1>1, <1>3, <1>4, <1>5, <1>6, <1>7, <1>8 DEF Next

\* What waits in a replica lies beyond a gap.
Gapped(d) ==
    /\ \A op \in d.pend : op[2] > d.clock[op[1]]
    /\ \A a \in Client : <<a, d.clock[a] + 1>> \notin d.pend
Gaps == \A c \in Client : Gapped(replica[c])

\* An edit fills no gap, since its author has all its own operations.
LEMMA GapsStep == Shape /\ Gaps /\ [Next]_vars => Gaps'
<1> SUFFICES ASSUME Shape, Gaps, [Next]_vars
             PROVE  Gaps'
  OBVIOUS
<1>1. ASSUME NEW c \in Client, Edit(c)
      PROVE  Gaps'
  <2> DEFINE d == replica[c]
             e == replica'[c]
  <2>1. /\ e \in Doc /\ e.pend = d.pend /\ e.clock[c] = d.clock[c] + 1
        /\ \A a \in Client \ {c} : e.clock[a] = d.clock[a]
        /\ \A b \in Client \ {c} : replica'[b] = replica[b]
    BY <1>1, EditLearns
  <2>2. /\ d \in Doc /\ d.clock[c] \in Nat /\ d.pend \subseteq Op
        /\ \A op \in d.pend : op[2] <= replica[op[1]].clock[op[1]]
    BY SyncAssumption DEF Shape, Doc, Clock, encodeDoc, MadeOp
  <2>3. Gapped(d)
    BY DEF Gaps
  <2>4. \A op \in d.pend : op[1] # c
    <3> SUFFICES ASSUME NEW op \in d.pend, op[1] = c
                 PROVE  FALSE
      OBVIOUS
    <3>1. op[2] <= d.clock[c] /\ op[2] > d.clock[c]
      BY <2>2, <2>3 DEF Gapped
    <3>2. op[2] \in Nat
      BY <2>2, OpShape, SyncAssumption
    <3> QED
      BY <2>2, <3>1, <3>2
  <2> HIDE DEF d, e
  <2>5. \A op \in e.pend : op[2] > e.clock[op[1]]
    <3> SUFFICES ASSUME NEW op \in e.pend
                 PROVE  op[2] > e.clock[op[1]]
      OBVIOUS
    <3>1. op \in d.pend /\ op[1] \in Client \ {c}
      BY <2>1, <2>2, <2>4, OpShape
    <3> QED
      BY <2>1, <2>3, <3>1 DEF Gapped
  <2>6. \A a \in Client : <<a, e.clock[a] + 1>> \notin e.pend
    <3> TAKE a \in Client
    <3>1. CASE a = c
      BY <2>1, <2>4, <3>1
    <3>2. CASE a # c
      BY <2>1, <2>3, <3>2 DEF Gapped
    <3> QED
      BY <3>1, <3>2
  <2>7. Gapped(e)
    BY <2>5, <2>6 DEF Gapped
  <2> QED
    BY <2>1, <2>7 DEF Gaps, e
<1>2. ASSUME NEW s \in Socket, ClientReceives(s)
      PROVE  Gaps'
  <2>1. PICK c \in Client : c = owner[s]
    BY <1>2, ClientReceivesShape
  <2>2. CASE replica' = replica
    BY <2>2 DEF Gaps
  <2>3. ASSUME NEW ops \in SUBSET Op, replica' = [replica EXCEPT ![c] = applyUpdate(@, ops)]
        PROVE  Gaps'
    <3> DEFINE d == replica[c]
               e == applyUpdate(d, ops)
    <3>1. replica'[c] = e /\ \A b \in Client \ {c} : replica'[b] = replica[b]
      BY <2>3 DEF Shape
    <3>2. /\ e.pend = {op \in d.pend \cup ops : op[2] > e.clock[op[1]]}
          /\ \A a \in Client : <<a, e.clock[a] + 1>> \notin d.pend \cup ops
      BY ApplyUpdate DEF Shape
    <3> HIDE DEF e, d
    <3>3. Gapped(e)
      BY <3>2 DEF Gapped
    <3> QED
      BY <3>1, <3>3 DEF Gaps
  <2> QED
    BY <1>2, <2>1, <2>2, <2>3, ClientReceivesShape
<1>3. ASSUME UNCHANGED replica
      PROVE  Gaps'
  BY <1>3 DEF Gaps
<1>4. ASSUME \/ \E c \in Client : addConnection(c)
             \/ \E s \in Socket : \/ OnOpen(s) \/ RoomReceives(s)
                                  \/ ClientCloses(s) \/ RoomCloses(s)
             \/ \E fits \in BOOLEAN : compact(fits) \/ Restart(fits) \/ WakeUp(fits)
             \/ UNCHANGED vars
      PROVE  UNCHANGED replica
  BY <1>4 DEF addConnection, OnOpen, RoomReceives, ClientCloses, RoomCloses, compact,
     Restart, WakeUp, vars
<1> QED
  BY <1>1, <1>2, <1>3, <1>4 DEF Next

\* Of two documents, one that has integrated what the other does not know leaves
\* the other a gap it could fill.
LEMMA NoneAhead ==
    ASSUME NEW d \in Doc, NEW e \in Doc, Gapped(e), Integrated(d) \subseteq encodeDoc(e),
           NEW a \in Client
    PROVE  d.clock[a] <= e.clock[a]
<1> DEFINE m == d.clock[a]
           n == e.clock[a]
<1>1. m \in 0..MaxEdits /\ n \in 0..MaxEdits
  BY DEF Doc, Clock
<1>2. ASSUME n < m
      PROVE  FALSE
  <2>1. n + 1 \in 1..MaxEdits /\ n + 1 <= m /\ ~(n + 1 <= n)
    BY <1>1, <1>2, SyncAssumption
  <2>2. <<a, n + 1>> \in Integrated(d) /\ <<a, n + 1>> \notin Integrated(e)
    BY <2>1, OpShape DEF Integrated
  <2>3. <<a, n + 1>> \in e.pend
    BY <2>2 DEF encodeDoc
  <2> QED
    BY <2>3 DEF Gapped
<1> QED
  BY <1>1, <1>2, SyncAssumption

\* With nothing in flight, each end knows what the other has integrated.
LEMMA FlowSettles ==
    ASSUME Shape, LogExact, OneAttempt, Flow, Gaps, NEW c \in Client, Online(c)
    PROVE  replica[c].clock = doc.clock
<1> DEFINE r == replica[c]
           d == doc
<1>1. PICK s \in Current(c) : up[s] = <<>> /\ down[s] = <<>>
  BY DEF Online
<1>2. /\ s \in connections /\ clientSide[s] = "open" /\ owner[s] = c
      /\ s \notin unsent /\ s \in Socket
  BY DEF Current, OpenSocket, OneAttempt
<1>3. FlowAt(s)
  BY <1>2 DEF Flow, Alive
<1>4. r \in Doc /\ d \in Doc /\ Gapped(r) /\ Gapped(d)
  BY DEF Shape, Gaps, LogExact, Gapped
<1> DEFINE u == up[s]
           w == down[s]
<1>5. u = <<>> /\ w = <<>> /\ RoomGets(u, w, r, d) /\ ClientGets(u, w, r, d)
  BY <1>1, <1>2, <1>3 DEF FlowAt
<1> HIDE DEF u, w, r, d
<1>6. encodeDoc(r) \subseteq encodeDoc(d) /\ Integrated(d) \subseteq encodeDoc(r)
  <2>1. DOMAIN u = {} /\ DOMAIN w = {}
    BY <1>5
  <2>2. Carried(u) = {} /\ Carried(w) = {} /\ ~Asks(u) /\ ~Asks(w)
    BY <2>1 DEF Carried, Asks
  <2> QED
    BY <1>5, <2>2 DEF RoomGets, ClientGets
<1>7. \A a \in Client : r.clock[a] <= d.clock[a] /\ d.clock[a] <= r.clock[a]
  BY <1>4, <1>6, NoneAhead DEF encodeDoc
<1>8. \A a \in Client : r.clock[a] \in Nat /\ d.clock[a] \in Nat
  BY <1>4, SyncAssumption DEF Doc, Clock
<1>9. \A a \in Client : r.clock[a] = d.clock[a]
  <2> TAKE a \in Client
  <2>1. r.clock[a] \in Nat /\ d.clock[a] \in Nat
    BY <1>8
  <2>2. r.clock[a] <= d.clock[a] /\ d.clock[a] <= r.clock[a]
    BY <1>7
  <2> QED
    BY <2>1, <2>2
<1> QED
  BY <1>4, <1>9 DEF Doc, Clock, r, d

\* The inductive invariant of idle clients.
InSync == Shape /\ LogExact /\ OneAttempt /\ Flow /\ Gaps

\* It holds at the start, with no log and no sockets.
LEMMA InSyncInit == Init => InSync
<1> SUFFICES ASSUME Init
             PROVE  InSync
  OBVIOUS
<1>1. LogExact
  <2>1. doc.pend = {} /\ Integrated(doc) = {}
    BY EmptyKnows DEF Init, encodeDoc
  <2> QED
    BY <2>1 DEF LogExact
<1>2. OneAttempt /\ Flow
  BY DEF Init, OneAttempt, Flow, Alive
<1>3. Gaps
  <2>1. Empty.pend = {}
    BY DEF Empty
  <2>2. \A c \in Client : replica[c] = Empty
    BY DEF Init
  <2> QED
    BY <2>1, <2>2 DEF Gaps, Gapped
<1> QED
  BY <1>1, <1>2, <1>3, ShapeInit DEF InSync

\* And every action keeps it, unless an append throws.
LEMMA InSyncStep == ~AppendFails /\ InSync /\ [Next]_vars => InSync'
  BY ShapeStep, LogExactStep, OneAttemptStep, FlowStep, GapsStep DEF InSync

\* A client that is connected and idle, on a socket that is not in `unsent`, has
\* integrated exactly what the room has, however its frames, its edits, broken
\* sockets and the room's losses of memory interleaved, as long as appends succeed
\* (core.ts, protocol.ts, sync-supervisor.ts).  In `unsent` is a socket whose own
\* frame released operations of others that waited at the room: those are not sent
\* back to it (core.ts:200), and are missing until its next handshake.
THEOREM IdleClientsAgree == ~AppendFails /\ Spec => []IdleClientInSync
<1>1. InSync => IdleClientInSync
  BY FlowSettles DEF InSync, IdleClientInSync
<1>2. ~AppendFails => [](~AppendFails)
  OBVIOUS
<1> QED
  BY <1>1, <1>2, InSyncInit, InSyncStep, PTL DEF Spec

\* If every client is, the room has all that was made, and no operation waits
\* for another anywhere.
LEMMA NothingPending ==
    ASSUME InSync, \A c \in Client : Online(c)
    PROVE  \A c \in Client : doc.pend = {} /\ replica[c].pend = {}
<1>1. \A c \in Client : replica[c].clock = doc.clock
  BY FlowSettles DEF InSync
<1>2. ASSUME NEW d \in Doc, d.clock = doc.clock, encodeDoc(d) \subseteq MadeOp, Gapped(d)
      PROVE  d.pend = {}
  <2> SUFFICES ASSUME NEW op \in d.pend
               PROVE  FALSE
    OBVIOUS
  <2>1. /\ op \in Op /\ op[1] \in Client /\ op[2] \in Nat
        /\ op[2] <= replica[op[1]].clock[op[1]] /\ op[2] > doc.clock[op[1]]
    BY <1>2, OpShape, SyncAssumption DEF encodeDoc, MadeOp, Gapped
  <2>2. doc.clock[op[1]] \in Nat
    BY <2>1, SyncAssumption DEF InSync, Shape, Doc, Clock
  <2>3. replica[op[1]].clock[op[1]] = doc.clock[op[1]]
    BY <1>1, <2>1
  <2> QED
    BY <2>1, <2>2, <2>3
<1>3. doc.pend = {}
  <2>1. doc \in Doc /\ encodeDoc(doc) \subseteq MadeOp /\ Gapped(doc)
    BY DEF InSync, Shape, LogExact, Gapped
  <2> QED
    BY <1>2, <2>1
<1>4. \A c \in Client : replica[c].pend = {}
  <2> TAKE c \in Client
  <2>1. replica[c] \in Doc /\ encodeDoc(replica[c]) \subseteq MadeOp /\ Gapped(replica[c])
    BY DEF InSync, Shape, Gaps
  <2> QED
    BY <1>1, <1>2, <2>1
<1> QED
  BY <1>3, <1>4

\* When all clients are connected and idle on sockets that are not in `unsent`,
\* as in IdleClientsAgree, nobody is left with an operation that waits for another.
THEOREM NothingWaitsWhenIdle == ~AppendFails /\ Spec => []NothingPendingWhenIdle
<1>1. InSync => NothingPendingWhenIdle
  BY NothingPending DEF NothingPendingWhenIdle
<1>2. ~AppendFails => [](~AppendFails)
  OBVIOUS
<1> QED
  BY <1>1, <1>2, InSyncInit, InSyncStep, PTL DEF Spec

=============================================================================
