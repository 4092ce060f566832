----------------------------- MODULE Mount_proof -----------------------------
(***************************************************************************)
(* The SQLite mirror of a mount shows the table whenever it rests, and a   *)
(* shutdown drops nothing, for any rows, edits, rebuilds and failures.     *)
(***************************************************************************)
EXTENDS Mount, Integers, TLAPS

LoadKind == {"load", "rebuild"}
FlushKind == {"flush", "drain"}

LoadWork == [kind : LoadKind, begun : BOOLEAN, todo : SUBSET (Row \X Value), item : {None},
             was : SUBSET Row]
FlushWork == [kind : FlushKind, begun : BOOLEAN, todo : SUBSET Row,
              item : {None} \cup (Row \X Value), was : SUBSET Row]
Work == LoadWork \cup FlushWork

Load == {"gated", "loading", "loaded", "observing", "failed"}
Drain == {"none", "awaitLoad", "flushing", "settled", "closed"}

Spent == [edits : Nat, rebuilds : Nat, failures : Nat]

MirrorType ==
    /\ table \in [Row -> Value] /\ mirror \in [Row -> Value] /\ saved \in [Row -> Value]
    /\ pending \subseteq Row /\ timer \in BOOLEAN
    /\ queue \in Seq(Work)
    /\ load \in Load /\ gate \in BOOLEAN
    /\ drain \in Drain /\ late \in BOOLEAN /\ hung \in BOOLEAN
    /\ excused \subseteq Row
    /\ spent \in Spent

WorkerType ==
    /\ {hosted, closing, draining, owed} \subseteq SUBSET (Row \X Nat)
    /\ stopped \in BOOLEAN
    /\ root \in {"up", "closing", "gone"}

TypeInv == MirrorType /\ WorkerType

\* A body is closed once: what the disposal found was not closing already.
Bodies ==
    /\ \A body \in hosted \cup closing : body[2] <= spent.edits
    /\ (hosted \cup owed) \cap closing = {}
    /\ (stopped <=> isDisposed) /\ (stopped \/ owed = {})

Flushing == queue # <<>> /\ Front.kind \in FlushKind /\ Front.begun

\* Only the front has begun; the observer and its flushes come after the load,
\* of which there is one.
Serial ==
    /\ \A k \in DOMAIN queue :
          /\ k # 1 \/ ~queue[k].begun => queue[k] = Job(queue[k].kind)
          /\ queue[k].kind = "flush" => load = "observing"
          /\ queue[k].kind = "load" => /\ load = "loading"
                                       /\ \A j \in DOMAIN queue : queue[j].kind = "load" => j = k
    /\ pending # {} \/ timer => load = "observing"
    /\ Flushing /\ (Front.todo # {} \/ Front.item # None) => load = "observing"
    /\ ~gate => load = "gated"

\* The flush a disposal waits for is the last work there is, behind the load or
\* instead of it, and leaves nothing pending.
Draining ==
    /\ isDisposed => ~timer /\ (gate \/ excused = Row)
    /\ drain = "awaitLoad" => gate
    /\ drain \in {"flushing", "settled", "closed"} => ~gate \/ load \in {"observing", "failed"}
    /\ drain \in {"settled", "closed"} => queue = <<>> /\ pending = {}
    /\ \A k \in DOMAIN queue : queue[k].kind = "drain" =>
          /\ k = Len(queue)
          /\ drain = "flushing"
          /\ queue[k].begun => pending = {}

\* What work under way is about to write is as the table is, or is known stale.
Fresh ==
    /\ InTransaction =>
          \A row \in Front.todo : row[2] = table[row[1]] \/ row[1] \in excused \cup pending
    /\ Flushing /\ Front.item # None =>
          Front.item[2] = table[Front.item[1]] \/ Front.item[1] \in pending

Loaded ==
    \/ load \in {"loaded", "observing", "failed"}
    \/ load = "loading" /\ InTransaction /\ Front.kind = "load"

\* From the scan of the load on, a row is mirrored or somebody will do it.
Covered(r) ==
    \/ r \in excused \cup pending
    \/ mirror[r] = table[r]
    \/ Flushing /\ (r \in Front.todo \/ (Front.item # None /\ Front.item[1] = r))
    \/ InTransaction /\ <<r, table[r]>> \in Front.todo

\* And so it is in what a rollback of a rebuild returns to.
SavedCovers(r) == r \in excused \cup pending \cup Front.was \/ saved[r] = table[r]

Coverage ==
    Loaded =>
        /\ \A r \in Row : Covered(r)
        /\ InTransaction /\ Front.kind = "rebuild" => \A r \in Row : SavedCovers(r)

\* Nothing is claimed of a mirror whose drain was given up.
MirrorInv ==
    /\ MirrorType
    /\ late => isDisposed
    /\ late \/ (Serial /\ Draining /\ Fresh /\ Coverage)

MountInv == MirrorInv /\ WorkerType /\ Bodies

-----------------------------------------------------------------------------
(* The queue                                                               *)

\* Work waits at the end of the queue.
LEMMA AppendFacts ==
    ASSUME NEW S, NEW q \in Seq(S), NEW x \in S
    PROVE  /\ Append(q, x) \in Seq(S) /\ Append(q, x) # <<>>
           /\ Len(q) \in Nat /\ DOMAIN q = 1..Len(q)
           /\ Len(Append(q, x)) = Len(q) + 1
           /\ DOMAIN Append(q, x) = 1..(Len(q) + 1)
           /\ \A k \in 1..Len(q) : Append(q, x)[k] = q[k]
           /\ Append(q, x)[Len(q) + 1] = x
           /\ q # <<>> => Head(Append(q, x)) = Head(q)
           /\ q = <<>> => Head(Append(q, x)) = x
OBVIOUS

\* The front goes a step on (Step).
LEMMA StepFacts ==
    ASSUME NEW S, NEW q \in Seq(S), q # <<>>, NEW x \in S
    PROVE  /\ <<x>> \o Tail(q) \in Seq(S) /\ <<x>> \o Tail(q) # <<>>
           /\ Len(q) \in Nat /\ DOMAIN q = 1..Len(q) /\ 1 \in DOMAIN q
           /\ Len(<<x>> \o Tail(q)) = Len(q)
           /\ DOMAIN (<<x>> \o Tail(q)) = 1..Len(q)
           /\ Head(<<x>> \o Tail(q)) = x /\ (<<x>> \o Tail(q))[1] = x
           /\ \A k \in 2..Len(q) : (<<x>> \o Tail(q))[k] = q[k]
OBVIOUS

\* The front is done.
LEMMA TailFacts ==
    ASSUME NEW S, NEW q \in Seq(S), q # <<>>
    PROVE  /\ Tail(q) \in Seq(S)
           /\ Len(q) \in Nat /\ DOMAIN q = 1..Len(q) /\ 1 \in DOMAIN q
           /\ Head(q) = q[1] /\ Head(q) \in S
           /\ Len(Tail(q)) = Len(q) - 1
           /\ DOMAIN Tail(q) = 1..(Len(q) - 1)
           /\ \A k \in 1..(Len(q) - 1) : Tail(q)[k] = q[k + 1]
           /\ Tail(q) # <<>> => 2 \in DOMAIN q /\ Head(Tail(q)) = q[2]
           /\ Len(q) = 1 => Tail(q) = <<>>
OBVIOUS

\* Work as it is enqueued, of any kind.
LEMMA JobIs ==
    ASSUME NEW kind \in LoadKind \cup FlushKind
    PROVE  /\ Job(kind) \in Work
           /\ Job(kind).kind = kind /\ ~Job(kind).begun
           /\ Job(kind).todo = {} /\ Job(kind).item = None
BY DEF Job, Work, LoadWork, FlushWork, LoadKind, FlushKind

\* The front of a queue in use, by kind.
LEMMA FrontIs ==
    ASSUME MirrorType, queue # <<>>
    PROVE  /\ Front \in Work /\ Front = queue[1] /\ 1 \in DOMAIN queue
           /\ Front.kind \in LoadKind => Front \in LoadWork
           /\ Front.kind \in FlushKind => Front \in FlushWork
<1>1. queue \in Seq(Work)
  BY DEF MirrorType
<1>2. Front \in Work /\ Front = queue[1] /\ 1 \in DOMAIN queue
  BY <1>1, TailFacts DEF Front
<1> QED
  BY <1>2 DEF Work, LoadWork, FlushWork, LoadKind, FlushKind

\* What waits at the end changes nothing for the front (Enqueue).
LEMMA Enqueued ==
    ASSUME MirrorType, NEW kind \in LoadKind \cup FlushKind, Enqueue(kind)
    PROVE  /\ queue' \in Seq(Work) /\ queue' # <<>>
           /\ Len(queue) \in Nat /\ DOMAIN queue = 1..Len(queue)
           /\ Len(queue') = Len(queue) + 1 /\ DOMAIN queue' = 1..(Len(queue) + 1)
           /\ \A k \in DOMAIN queue' :
                 \/ k \in DOMAIN queue /\ queue'[k] = queue[k]
                 \/ k = Len(queue) + 1 /\ queue'[k] = Job(kind)
           /\ InTransaction' <=> InTransaction
           /\ Flushing' <=> Flushing
           /\ queue # <<>> => Front' = Front
<1>1. queue \in Seq(Work) /\ Job(kind) \in Work /\ ~Job(kind).begun
  BY JobIs DEF MirrorType
<1>2. queue' = Append(queue, Job(kind))
  BY DEF Enqueue
<1> HIDE DEF Job
<1>3. /\ queue' \in Seq(Work) /\ queue' # <<>>
      /\ Len(queue) \in Nat /\ DOMAIN queue = 1..Len(queue)
      /\ Len(queue') = Len(queue) + 1 /\ DOMAIN queue' = 1..(Len(queue) + 1)
      /\ \A k \in 1..Len(queue) : queue'[k] = queue[k]
      /\ queue'[Len(queue) + 1] = Job(kind)
      /\ queue # <<>> => Head(queue') = Head(queue)
      /\ queue = <<>> => Head(queue') = Job(kind)
  BY <1>1, <1>2, AppendFacts
<1>4. \A k \in DOMAIN queue' :
         \/ k \in DOMAIN queue /\ queue'[k] = queue[k]
         \/ k = Len(queue) + 1 /\ queue'[k] = Job(kind)
  BY <1>3
<1> QED
  BY <1>1, <1>3, <1>4 DEF InTransaction, Flushing, Front

\* A step of the front leaves what waits behind it.
LEMMA Stepped ==
    ASSUME MirrorType, queue # <<>>, NEW job \in Work, Step(job)
    PROVE  /\ queue' \in Seq(Work) /\ queue' # <<>>
           /\ Len(queue) \in Nat /\ DOMAIN queue = 1..Len(queue)
           /\ Len(queue') = Len(queue) /\ DOMAIN queue' = DOMAIN queue
           /\ Front' = job /\ 1 \in DOMAIN queue
           /\ \A k \in DOMAIN queue : queue'[k] = IF k = 1 THEN job ELSE queue[k]
<1>1. queue \in Seq(Work)
  BY DEF MirrorType
<1>2. queue' = <<job>> \o Tail(queue)
  BY DEF Step
<1>3. /\ queue' \in Seq(Work) /\ queue' # <<>>
      /\ Len(queue) \in Nat /\ DOMAIN queue = 1..Len(queue) /\ 1 \in DOMAIN queue
      /\ Len(queue') = Len(queue) /\ DOMAIN queue' = 1..Len(queue)
      /\ Head(queue') = job /\ queue'[1] = job
      /\ \A k \in 2..Len(queue) : queue'[k] = queue[k]
  BY <1>1, <1>2, StepFacts
<1>4. \A k \in DOMAIN queue : queue'[k] = IF k = 1 THEN job ELSE queue[k]
  <2> SUFFICES ASSUME NEW k \in DOMAIN queue, k # 1 PROVE queue'[k] = queue[k]
    BY <1>3
  <2>1. k \in 2..Len(queue)
    BY <1>3
  <2> QED
    BY <1>3, <2>1
<1> QED
  BY <1>3, <1>4 DEF Front

\* Nothing behind the front has begun, so that none has when it is done.
LEMMA Popped ==
    ASSUME MirrorType, queue # <<>>, queue' = Tail(queue),
           \A k \in DOMAIN queue : k # 1 => queue[k] = Job(queue[k].kind)
    PROVE  /\ queue' \in Seq(Work)
           /\ Len(queue) \in Nat /\ DOMAIN queue = 1..Len(queue)
           /\ Len(queue') = Len(queue) - 1 /\ DOMAIN queue' = 1..(Len(queue) - 1)
           /\ \A k \in DOMAIN queue' : /\ k + 1 \in DOMAIN queue /\ queue'[k] = queue[k + 1]
                                       /\ queue'[k] = Job(queue'[k].kind)
           /\ ~InTransaction' /\ ~Flushing'
           /\ Len(queue) = 1 => queue' = <<>>
<1>1. queue \in Seq(Work)
  BY DEF MirrorType
<1>2. /\ queue' \in Seq(Work)
      /\ Len(queue) \in Nat /\ DOMAIN queue = 1..Len(queue) /\ 1 \in DOMAIN queue
      /\ Len(queue') = Len(queue) - 1 /\ DOMAIN queue' = 1..(Len(queue) - 1)
      /\ \A k \in 1..(Len(queue) - 1) : queue'[k] = queue[k + 1]
      /\ queue' # <<>> => 2 \in DOMAIN queue /\ Head(queue') = queue[2]
      /\ Len(queue) = 1 => queue' = <<>>
  BY <1>1, TailFacts
<1>3. ASSUME NEW k \in DOMAIN queue'
      PROVE  /\ k + 1 \in DOMAIN queue /\ queue'[k] = queue[k + 1]
             /\ queue'[k] = Job(queue'[k].kind)
  <2>1. k + 1 \in DOMAIN queue /\ k + 1 # 1 /\ queue'[k] = queue[k + 1]
    BY <1>2
  <2> QED
    BY <2>1
<1>4. ASSUME queue' # <<>> PROVE ~Front'.begun
  <2>1. Front' = queue[2] /\ 2 \in DOMAIN queue
    BY <1>2, <1>4 DEF Front
  <2>2. queue[2] = Job(queue[2].kind)
    BY <2>1
  <2>3. queue[2].kind \in LoadKind \cup FlushKind
    BY <1>1, <2>1 DEF Work, LoadWork, FlushWork
  <2> QED
    BY <2>1, <2>2, <2>3, JobIs
<1> QED
  BY <1>2, <1>3, <1>4 DEF InTransaction, Flushing

\* The bounds are counters.
LEMMA SpentOn ==
    ASSUME NEW x \in Spent
    PROVE  /\ [x EXCEPT !.edits = @ + 1] \in Spent
           /\ [x EXCEPT !.edits = @ + 1].edits = x.edits + 1
           /\ [x EXCEPT !.rebuilds = @ + 1] \in Spent
           /\ [x EXCEPT !.rebuilds = @ + 1].edits = x.edits
           /\ [x EXCEPT !.failures = @ + 1] \in Spent
           /\ [x EXCEPT !.failures = @ + 1].edits = x.edits
BY DEF Spent

-----------------------------------------------------------------------------
(* The mirror                                                              *)

\* A change of the table is pending, or known to be seen by nobody.
LEMMA MirrorSeesStep ==
    ASSUME MirrorInv, ~isDisposed, NEW s \in Row, NEW v \in Value, MirrorSees(s, v)
    PROVE  MirrorInv'
<1>1. /\ MirrorType /\ Serial /\ Draining /\ Fresh /\ Coverage
      /\ drain = "none" /\ ~late
  BY DEF MirrorInv, isDisposed
<1>2. /\ UNCHANGED <<mirror, saved, queue, load, gate, drain, late, hung>>
      /\ table' = [table EXCEPT ![s] = v]
      /\ spent' = [spent EXCEPT !.edits = @ + 1]
  BY DEF MirrorSees
<1>3. \/ load = "observing" /\ pending' = pending \cup {s} /\ timer' = TRUE /\ excused' = excused
      \/ /\ load # "observing" /\ pending' = pending /\ timer' = timer
         /\ excused' = IF load = "gated" /\ queue = <<>> THEN excused ELSE excused \cup {s}
  BY DEF MirrorSees, scheduleSync
<1>4. MirrorType'
  <2>1. table' \in [Row -> Value]
    BY <1>1, <1>2 DEF MirrorType
  <2>2. spent' \in Spent
    BY <1>1, <1>2, SpentOn DEF MirrorType
  <2>3. pending' \subseteq Row /\ excused' \subseteq Row /\ timer' \in BOOLEAN
    BY <1>1, <1>3 DEF MirrorType
  <2> QED
    BY <1>1, <1>2, <2>1, <2>2, <2>3 DEF MirrorType
<1>5. Serial'
  BY <1>1, <1>2, <1>3 DEF Serial, Flushing, Front
<1>6. Draining'
  BY <1>1, <1>2, <1>3 DEF Draining, isDisposed
<1>7. \A r \in Row : r # s => table'[r] = table[r]
  BY <1>1, <1>2 DEF MirrorType
<1>8. excused \cup pending \subseteq (excused \cup pending)'
  BY <1>3
<1>9. queue # <<>> \/ load # "gated" => s \in (excused \cup pending)'
  BY <1>3
<1>10. (InTransaction' <=> InTransaction) /\ (Flushing' <=> Flushing) /\ Front' = Front
  BY <1>2 DEF InTransaction, Flushing, Front
<1>11. Fresh'
  <2>1. ASSUME InTransaction, NEW row \in Front.todo
        PROVE  row[2] = table'[row[1]] \/ row[1] \in (excused \cup pending)'
    <3>1. Front \in LoadWork /\ queue # <<>>
      BY <1>1, <2>1, FrontIs DEF InTransaction, LoadKind
    <3>2. row[1] \in Row
      BY <3>1 DEF LoadWork
    <3>3. row[2] = table[row[1]] \/ row[1] \in excused \cup pending
      BY <1>1, <2>1 DEF Fresh
    <3> QED
      BY <1>7, <1>8, <1>9, <3>1, <3>2, <3>3
  <2>2. ASSUME Flushing, Front.item # None
        PROVE  Front.item[2] = table'[Front.item[1]] \/ Front.item[1] \in pending'
    <3>1. Front \in FlushWork
      BY <1>1, <2>2, FrontIs DEF Flushing
    <3>2. Front.item[1] \in Row
      BY <2>2, <3>1 DEF FlushWork
    <3>3. Front.item[2] = table[Front.item[1]] \/ Front.item[1] \in pending
      BY <1>1, <2>2 DEF Fresh
    <3>4. load = "observing"
      BY <1>1, <2>2 DEF Serial
    <3> QED
      BY <1>3, <1>7, <3>2, <3>3, <3>4
  <2> QED
    BY <1>10, <2>1, <2>2 DEF Fresh
<1>12. Coverage'
  <2> SUFFICES ASSUME Loaded'
               PROVE  /\ \A r \in Row : Covered(r)'
                      /\ InTransaction' /\ Front'.kind = "rebuild" =>
                            \A r \in Row : SavedCovers(r)'
    BY DEF Coverage
  <2>1. Loaded /\ load # "gated"
    BY <1>2, <1>10 DEF Loaded
  <2>2. s \in (excused \cup pending)'
    BY <1>9, <2>1
  <2>3. ASSUME NEW r \in Row PROVE Covered(r)'
    <3>1. Covered(r)
      BY <1>1, <2>1 DEF Coverage
    <3>2. CASE r = s
      BY <2>2, <3>2 DEF Covered
    <3>3. CASE r # s
      BY <1>2, <1>7, <1>8, <1>10, <3>1, <3>3 DEF Covered
    <3> QED
      BY <3>2, <3>3
  <2>4. ASSUME InTransaction', Front'.kind = "rebuild", NEW r \in Row PROVE SavedCovers(r)'
    <3>1. SavedCovers(r)
      BY <1>1, <1>10, <2>1, <2>4 DEF Coverage
    <3>2. CASE r = s
      BY <2>2, <3>2 DEF SavedCovers
    <3>3. CASE r # s
      BY <1>2, <1>7, <1>8, <1>10, <3>1, <3>3 DEF SavedCovers
    <3> QED
      BY <3>2, <3>3
  <2> QED
    BY <2>3, <2>4
<1> QED
  BY <1>1, <1>2, <1>4, <1>5, <1>6, <1>11, <1>12 DEF MirrorInv, isDisposed

\* Rows written, or to be written, are covered as long as nothing about them
\* changes but the work that waits at the end.
LEMMA CoverageKept ==
    ASSUME Fresh, Coverage, Loaded' => Loaded,
           UNCHANGED <<table, mirror, saved>>,
           excused \cup pending \subseteq (excused \cup pending)', pending \subseteq pending',
           InTransaction' <=> InTransaction, Flushing' <=> Flushing,
           queue # <<>> => Front' = Front
    PROVE  Fresh' /\ Coverage'
<1>1. InTransaction \/ Flushing => Front' = Front
  BY DEF InTransaction, Flushing
<1>2. Fresh'
  BY <1>1 DEF Fresh
<1>3. ASSUME Loaded', NEW r \in Row PROVE Covered(r)'
  <2>1. Covered(r)
    BY <1>3 DEF Coverage
  <2> QED
    BY <1>1, <2>1 DEF Covered
<1>4. ASSUME Loaded', InTransaction', Front'.kind = "rebuild", NEW r \in Row
      PROVE  SavedCovers(r)'
  <2>1. SavedCovers(r)
    BY <1>1, <1>4 DEF Coverage
  <2> QED
    BY <1>1, <1>4, <2>1 DEF SavedCovers
<1> QED
  BY <1>2, <1>3, <1>4 DEF Coverage

\* The debounce ends: a flush waits.
LEMMA TimerFiresStep == ASSUME MirrorInv, TimerFires PROVE MirrorInv'
<1>1. MirrorType /\ (late => isDisposed) /\ Enqueue("flush") /\ timer /\ timer' = FALSE
  BY DEF MirrorInv, TimerFires
<1>2. UNCHANGED <<table, mirror, saved, pending, load, gate, drain, late, hung, excused, spent>>
  BY DEF TimerFires
<1>3. "flush" \in LoadKind \cup FlushKind
  BY DEF FlushKind
<1>4. MirrorType'
  BY <1>1, <1>2, <1>3, Enqueued DEF MirrorType
<1>5. ASSUME ~late PROVE Serial' /\ Draining' /\ Fresh' /\ Coverage'
  <2>1. Serial /\ Draining /\ Fresh /\ Coverage
    BY <1>5 DEF MirrorInv
  <2>2. drain = "none" /\ load = "observing"
    BY <1>1, <2>1 DEF Serial, Draining, isDisposed
  <2>3. Job("flush").kind = "flush" /\ ~Job("flush").begun
    BY <1>3, JobIs
  <2>4. \A k \in DOMAIN queue' : queue'[k].kind \in {"flush", "rebuild"}
    BY <1>1, <1>3, <2>1, <2>2, <2>3, Enqueued
       DEF Serial, Draining, MirrorType, Work, LoadWork, FlushWork, LoadKind, FlushKind
  <2>5. Serial'
    BY <1>1, <1>2, <1>3, <2>1, <2>2, <2>3, <2>4, Enqueued DEF Serial
  <2>6. Draining'
    BY <1>2, <2>2, <2>4 DEF Draining, isDisposed
  <2>7. Fresh' /\ Coverage'
    BY <1>1, <1>2, <1>3, <2>1, <2>2, Enqueued, CoverageKept DEF Loaded
  <2> QED
    BY <2>5, <2>6, <2>7
<1> QED
  BY <1>1, <1>2, <1>4, <1>5 DEF MirrorInv, isDisposed

\* A rebuild waits.
LEMMA RebuildStep == ASSUME MirrorInv, rebuild PROVE MirrorInv'
<1>1. /\ MirrorType /\ ~isDisposed /\ ~late /\ Enqueue("rebuild")
      /\ Serial /\ Draining /\ Fresh /\ Coverage
  BY DEF MirrorInv, rebuild
<1>2. /\ UNCHANGED <<table, mirror, saved, pending, timer, load, gate, drain, late, hung, excused>>
      /\ spent' = [spent EXCEPT !.rebuilds = @ + 1]
  BY DEF rebuild
<1>3. "rebuild" \in LoadKind \cup FlushKind /\ drain = "none"
  BY <1>1 DEF LoadKind, isDisposed
<1>4. spent' \in Spent
  BY <1>1, <1>2, SpentOn DEF MirrorType
<1>5. MirrorType'
  BY <1>1, <1>2, <1>3, <1>4, Enqueued DEF MirrorType
<1>6. Job("rebuild").kind = "rebuild" /\ ~Job("rebuild").begun
  BY <1>3, JobIs
<1>7. Serial'
  <2>1. ASSUME NEW k \in DOMAIN queue'
        PROVE  /\ k # 1 \/ ~queue'[k].begun => queue'[k] = Job(queue'[k].kind)
               /\ queue'[k].kind = "flush" => load = "observing"
               /\ queue'[k].kind = "load" => /\ k \in DOMAIN queue /\ queue'[k] = queue[k]
                                             /\ load = "loading"
    BY <1>1, <1>3, <1>6, Enqueued DEF Serial
  <2>2. Flushing' /\ (Front'.todo # {} \/ Front'.item # None) => load = "observing"
    BY <1>1, <1>3, Enqueued DEF Serial, Flushing
  <2> QED
    BY <1>1, <1>2, <2>1, <2>2 DEF Serial
<1>8. Draining'
  <2>1. \A k \in DOMAIN queue' : queue'[k].kind # "drain"
    BY <1>1, <1>3, <1>6, Enqueued DEF Draining
  <2> QED
    BY <1>2, <1>3, <2>1 DEF Draining, isDisposed
<1>9. Fresh' /\ Coverage'
  <2>1. Loaded' => Loaded
    BY <1>1, <1>2, <1>3, Enqueued DEF Loaded, InTransaction
  <2> QED
    BY <1>1, <1>2, <1>3, <2>1, Enqueued, CoverageKept
<1> QED
  BY <1>1, <1>2, <1>5, <1>7, <1>8, <1>9 DEF MirrorInv, isDisposed

\* The load waits, or will never be: that of a mirror disposed with a closed gate.
LEMMA GateOpensStep == ASSUME MirrorInv, GateOpens PROVE MirrorInv'
<1>1. /\ MirrorType /\ (late => isDisposed) /\ load = "gated" /\ gate' = TRUE
      /\ UNCHANGED <<table, mirror, saved, pending, timer, drain, late, hung, excused, spent>>
  BY DEF MirrorInv, GateOpens
<1>2. CASE isDisposed /\ ~gate
  <2>1. load' = "failed" /\ queue' = queue
    BY <1>2 DEF GateOpens
  <2>2. MirrorType'
    BY <1>1, <2>1 DEF MirrorType, Load
  <2>3. ASSUME ~late PROVE Serial' /\ Draining' /\ Fresh' /\ Coverage'
    <3>1. Serial /\ Draining /\ Fresh /\ excused = Row
      BY <1>2, <2>3 DEF MirrorInv, Draining
    <3>2. /\ pending = {} /\ ~timer
          /\ \A k \in DOMAIN queue : queue[k].kind \notin {"flush", "load"}
      BY <1>1, <3>1 DEF Serial
    <3>3. ~(Flushing /\ (Front.todo # {} \/ Front.item # None))
      BY <1>1, <3>1 DEF Serial
    <3>4. Serial'
      BY <1>1, <2>1, <3>1, <3>2, <3>3 DEF Serial, Flushing, Front
    <3>5. Draining'
      BY <1>1, <1>2, <2>1, <3>1 DEF Draining, isDisposed
    <3>6. Fresh'
      BY <1>1, <2>1, <3>1 DEF Fresh, InTransaction, Flushing, Front
    <3>7. Coverage'
      BY <1>1, <3>1 DEF Coverage, Covered, SavedCovers
    <3> QED
      BY <3>4, <3>5, <3>6, <3>7
  <2> QED
    BY <1>1, <2>2, <2>3 DEF MirrorInv, isDisposed
<1>3. CASE ~(isDisposed /\ ~gate)
  <2>1. load' = "loading" /\ Enqueue("load")
    BY <1>3 DEF GateOpens
  <2>2. "load" \in LoadKind \cup FlushKind
    BY DEF LoadKind
  <2>3. Job("load").kind = "load" /\ ~Job("load").begun
    BY <2>2, JobIs
  <2>4. MirrorType'
    BY <1>1, <2>1, <2>2, Enqueued DEF MirrorType, Load
  <2>5. ASSUME ~late PROVE Serial' /\ Draining' /\ Fresh' /\ Coverage'
    <3>1. Serial /\ Draining /\ Fresh /\ Coverage
      BY <2>5 DEF MirrorInv
    <3>2. /\ pending = {} /\ ~timer
          /\ \A k \in DOMAIN queue : queue[k].kind \notin {"flush", "load"}
      BY <1>1, <3>1 DEF Serial
    <3>3. drain \in {"none", "awaitLoad"}
      BY <1>1, <1>3, <3>1 DEF Draining, isDisposed, MirrorType, Drain
    <3>4. \A k \in DOMAIN queue : queue[k].kind # "drain"
      BY <3>1, <3>3 DEF Draining
    <3>5. ASSUME NEW k \in DOMAIN queue'
          PROVE  /\ k # 1 \/ ~queue'[k].begun => queue'[k] = Job(queue'[k].kind)
                 /\ queue'[k].kind \notin {"flush", "drain"}
                 /\ queue'[k].kind = "load" => k = Len(queue) + 1
      BY <2>1, <1>1, <2>2, <2>3, <3>1, <3>2, <3>4, Enqueued DEF Serial
    <3>6. ~Flushing'
      <4>1. ~Flushing
        BY <1>1, <3>2, <3>4, FrontIs DEF Flushing, FlushKind
      <4> QED
        BY <1>1, <2>1, <2>2, <4>1, Enqueued
    <3>7. Serial'
      BY <1>1, <2>1, <3>2, <3>5, <3>6 DEF Serial
    <3>8. Draining'
      BY <1>1, <3>1, <3>3, <3>5 DEF Draining, isDisposed
    <3>9. ~Loaded'
      <4>1. ~(InTransaction' /\ Front'.kind = "load")
        <5> SUFFICES ASSUME InTransaction PROVE Front'.kind # "load"
          BY <1>1, <2>1, <2>2, Enqueued
        <5> QED
          BY <1>1, <2>1, <2>2, <3>2, Enqueued, FrontIs DEF InTransaction
      <4> QED
        BY <2>1, <4>1 DEF Loaded
    <3>10. Coverage'
      BY <3>9 DEF Coverage
    <3>11. Fresh'
      <4>1. InTransaction' => InTransaction /\ Front' = Front
        BY <1>1, <2>1, <2>2, Enqueued DEF InTransaction
      <4> QED
        BY <1>1, <3>1, <3>6, <4>1 DEF Fresh
    <3> QED
      BY <3>7, <3>8, <3>10, <3>11
  <2> QED
    BY <1>1, <2>4, <2>5 DEF MirrorInv, isDisposed
<1> QED
  BY <1>2, <1>3

\* The observer is registered.
LEMMA ObserveStep == ASSUME MirrorInv, Observe PROVE MirrorInv'
<1>1. /\ MirrorType /\ (late => isDisposed) /\ load = "loaded" /\ load' = "observing"
      /\ UNCHANGED <<table, mirror, saved, pending, timer, queue, gate, drain, late, hung,
                     excused, spent>>
  BY DEF MirrorInv, Observe
<1>2. MirrorType'
  BY <1>1 DEF MirrorType, Load
<1>3. ASSUME ~late PROVE Serial' /\ Draining' /\ Fresh' /\ Coverage'
  <2>1. Serial /\ Draining /\ Fresh /\ Coverage
    BY <1>3 DEF MirrorInv
  <2>2. Serial'
    BY <1>1, <2>1 DEF Serial, Flushing, Front
  <2>3. Draining'
    BY <1>1, <2>1 DEF Draining, isDisposed
  <2>4. Loaded /\ (InTransaction' <=> InTransaction) /\ (Flushing' <=> Flushing) /\ Front' = Front
    BY <1>1 DEF Loaded, InTransaction, Flushing, Front
  <2>5. Fresh' /\ Coverage'
    BY <1>1, <2>1, <2>4, CoverageKept
  <2> QED
    BY <2>2, <2>3, <2>5
<1> QED
  BY <1>1, <1>2, <1>3 DEF MirrorInv, isDisposed

\* A step of the front keeps the order of the work.
LEMMA OrderStepped ==
    ASSUME MirrorType, Serial, Draining, queue # <<>>, NEW job \in Work, Step(job),
           job.kind = Front.kind, job.begun,
           UNCHANGED <<load, gate, drain, timer>>,
           pending' \in {pending, {}},
           job.kind \in FlushKind /\ (job.todo # {} \/ job.item # None) => load = "observing",
           job.kind = "drain" => pending' = {},
           isDisposed => gate \/ excused' = Row
    PROVE  Serial' /\ Draining'
<1>1. /\ queue' # <<>> /\ Len(queue') = Len(queue) /\ DOMAIN queue' = DOMAIN queue
      /\ DOMAIN queue = 1..Len(queue) /\ 1 \in DOMAIN queue /\ Front' = job /\ Front = queue[1]
      /\ \A k \in DOMAIN queue : queue'[k] = IF k = 1 THEN job ELSE queue[k]
  BY Stepped, FrontIs
<1>2. \A k \in DOMAIN queue : queue'[k].kind = queue[k].kind
  BY <1>1
<1>3. \A k \in DOMAIN queue :
         k # 1 \/ ~queue'[k].begun => queue'[k] = Job(queue'[k].kind)
  BY <1>1 DEF Serial
<1>4. Serial'
  BY <1>1, <1>2, <1>3 DEF Serial, Flushing
<1>5. ASSUME NEW k \in DOMAIN queue, queue[k].kind = "drain"
      PROVE  k = Len(queue) /\ drain = "flushing" /\ (queue'[k].begun => pending' = {})
  <2>1. k = Len(queue) /\ drain = "flushing"
    BY <1>5 DEF Draining
  <2>2. CASE k = 1
    BY <1>1, <1>5, <2>1, <2>2
  <2>3. CASE k # 1
    BY <1>1, <1>5, <2>1, <2>3 DEF Draining
  <2> QED
    BY <2>1, <2>2, <2>3
<1>6. drain \notin {"settled", "closed"}
  BY DEF Draining
<1>7. Draining'
  BY <1>1, <1>2, <1>5, <1>6 DEF Draining, isDisposed
<1> QED
  BY <1>4, <1>7

\* The end of the front keeps the order of the work.
LEMMA OrderPopped ==
    ASSUME MirrorType, Serial, Draining, queue # <<>>, queue' = Tail(queue),
           Front.kind = "drain" => Front.begun,
           UNCHANGED <<gate, timer, pending>>,
           load' = load \/ (Front.kind = "load" /\ load' \in {"loaded", "failed"}),
           drain' = IF Front.kind = "drain" /\ drain = "flushing" THEN "settled" ELSE drain,
           isDisposed => gate \/ excused' = Row
    PROVE  Serial' /\ Draining'
<1>1. /\ Len(queue) \in Nat /\ DOMAIN queue = 1..Len(queue)
      /\ Len(queue') = Len(queue) - 1 /\ DOMAIN queue' = 1..(Len(queue) - 1)
      /\ \A k \in DOMAIN queue' : /\ k + 1 \in DOMAIN queue /\ queue'[k] = queue[k + 1]
                                  /\ queue'[k] = Job(queue'[k].kind)
      /\ ~Flushing'
      /\ Len(queue) = 1 => queue' = <<>>
  <2>1. \A k \in DOMAIN queue : k # 1 => queue[k] = Job(queue[k].kind)
    BY DEF Serial
  <2> QED
    BY <2>1, Popped
<1>2. Front = queue[1] /\ 1 \in DOMAIN queue
  BY FrontIs
<1>3. ASSUME Front.kind = "load", NEW k \in DOMAIN queue, k # 1
      PROVE  queue[k].kind # "load" /\ queue[k].kind # "flush" /\ load = "loading"
  BY <1>2, <1>3 DEF Serial
<1>4. ASSUME NEW k \in DOMAIN queue'
      PROVE  /\ queue'[k].kind = "flush" => load' = "observing"
             /\ queue'[k].kind = "load" =>
                   /\ load' = "loading"
                   /\ \A j \in DOMAIN queue' : queue'[j].kind = "load" => j = k
  <2>1. /\ k + 1 \in DOMAIN queue /\ k + 1 # 1 /\ queue'[k] = queue[k + 1] /\ k \in Nat
        /\ \A j \in DOMAIN queue' :
              /\ j + 1 \in DOMAIN queue /\ queue'[j] = queue[j + 1]
              /\ j + 1 = k + 1 => j = k
    BY <1>1
  <2>2. queue'[k].kind \in {"flush", "load"} => load' = load
    BY <1>3, <2>1
  <2> QED
    BY <2>1, <2>2 DEF Serial
<1>5. load = "loading" /\ Front.kind = "load" => pending = {} /\ ~timer /\ gate
  BY DEF Serial
<1>6. load' = load \/ load = "loading"
  BY <1>2 DEF Serial
<1>7. pending # {} \/ timer => load' = "observing"
  BY <1>6 DEF Serial
<1>8. Serial'
  <2>1. ~gate => load' = "gated"
    BY <1>6 DEF Serial
  <2> QED
    BY <1>1, <1>4, <1>7, <2>1 DEF Serial
<1>9. ASSUME Front.kind = "drain" PROVE queue' = <<>> /\ pending = {} /\ drain = "flushing"
  BY <1>1, <1>2, <1>9 DEF Draining
<1>10. drain \notin {"settled", "closed"}
  BY DEF Draining
<1>11. drain \in {"flushing", "settled", "closed"} => load' = load
  BY <1>6 DEF Draining, Serial
<1>12. ASSUME NEW k \in DOMAIN queue', queue'[k].kind = "drain"
       PROVE  k = Len(queue') /\ drain' = "flushing" /\ ~queue'[k].begun
  <2>1. /\ k + 1 \in DOMAIN queue /\ queue[k + 1].kind = "drain" /\ queue'[k] = Job("drain")
        /\ k \in Nat
    BY <1>1, <1>12
  <2>2. k + 1 = Len(queue) /\ drain = "flushing"
    BY <2>1 DEF Draining
  <2>3. Front.kind # "drain"
    BY <1>1, <1>9, <1>12
  <2>4. ~Job("drain").begun
    BY JobIs DEF FlushKind
  <2> QED
    BY <1>1, <2>1, <2>2, <2>3, <2>4
<1>13. Draining'
  <2>1. (isDisposed' => isDisposed) /\ (drain' # drain => drain' = "settled" /\ drain = "flushing")
    BY DEF isDisposed
  <2>2. isDisposed' => ~timer' /\ (gate' \/ excused' = Row)
    BY <2>1 DEF Draining
  <2>3. drain' = "awaitLoad" => gate'
    BY <2>1 DEF Draining
  <2>4. drain' \in {"flushing", "settled", "closed"} => ~gate' \/ load' \in {"observing", "failed"}
    BY <1>11, <2>1 DEF Draining
  <2>5. drain' \in {"settled", "closed"} => queue' = <<>> /\ pending' = {}
    BY <1>9, <1>10
  <2> QED
    BY <1>12, <2>2, <2>3, <2>4, <2>5 DEF Draining
<1> QED
  BY <1>8, <1>13

\* The scan: every row of the table is to be written, and what a load leaves of
\* earlier is excused; a rebuild behind the disposal does nothing.
LEMMA BeginLoadStep == ASSUME MirrorInv, BeginLoad PROVE MirrorInv'
<1>1. /\ MirrorType /\ (late => isDisposed)
      /\ queue # <<>> /\ Front.kind \in LoadKind /\ ~Front.begun
      /\ UNCHANGED <<table, pending, timer, load, gate, drain, late, hung, spent>>
  BY DEF MirrorInv, BeginLoad, Running, LoadKind
<1>2. Front \in LoadWork /\ Front = queue[1] /\ 1 \in DOMAIN queue
  BY <1>1, FrontIs
<1>3. CASE Front.kind = "rebuild" /\ isDisposed
  <2>1. queue' = Tail(queue) /\ UNCHANGED <<mirror, saved, excused>>
    BY <1>3 DEF BeginLoad
  <2>2. queue' \in Seq(Work)
    BY <1>1, <2>1, TailFacts DEF MirrorType
  <2>3. MirrorType'
    BY <1>1, <2>1, <2>2 DEF MirrorType
  <2>4. ASSUME ~late PROVE Serial' /\ Draining' /\ Fresh' /\ Coverage'
    <3>1. Serial /\ Draining /\ Fresh /\ Coverage
      BY <2>4 DEF MirrorInv
    <3>2. Serial' /\ Draining'
      BY <1>1, <1>3, <2>1, <3>1, OrderPopped DEF Draining, LoadKind
    <3>3. ~InTransaction' /\ ~Flushing' /\ ~InTransaction /\ ~Flushing
      BY <1>1, <2>1, <3>1, Popped DEF Serial, InTransaction, Flushing
    <3>4. Fresh'
      BY <3>3 DEF Fresh
    <3>5. Coverage'
      BY <1>1, <2>1, <3>1, <3>3 DEF Coverage, Covered, Loaded
    <3> QED
      BY <3>2, <3>4, <3>5
  <2> QED
    BY <1>1, <2>3, <2>4 DEF MirrorInv, isDisposed
<1>4. CASE ~(Front.kind = "rebuild" /\ isDisposed)
  <2> DEFINE job == [Front EXCEPT !.begun = TRUE, !.todo = Scan, !.was = excused]
  <2>1. /\ Step(job)
        /\ saved' = mirror
        /\ IF Front.kind = "rebuild"
           THEN mirror' = [r \in Row |-> "gone"] /\ excused' = {}
           ELSE /\ excused' = {r \in Row : table[r] = "gone" /\ mirror[r] # "gone"}
                /\ mirror' = mirror
    BY <1>4 DEF BeginLoad
  <2>2. Scan \in SUBSET (Row \X Value) /\ excused \in SUBSET Row
    BY <1>1 DEF Scan, MirrorType
  <2>3. /\ job \in LoadWork /\ job.kind = Front.kind /\ job.begun
        /\ job.todo = Scan /\ job.was = excused
    BY <1>2, <2>2 DEF LoadWork
  <2> HIDE DEF job
  <2>4. job \in Work
    BY <2>3 DEF Work
  <2>5. queue' \in Seq(Work) /\ queue' # <<>> /\ Front' = job
    BY <1>1, <2>1, <2>4, Stepped
  <2>6. mirror' \in [Row -> Value] /\ saved' \in [Row -> Value] /\ excused' \subseteq Row
    BY <1>1, <2>1 DEF MirrorType, Value
  <2>7. MirrorType'
    BY <1>1, <2>5, <2>6 DEF MirrorType
  <2>8. ASSUME ~late PROVE Serial' /\ Draining' /\ Fresh' /\ Coverage'
    <3>1. Serial /\ Draining /\ Fresh /\ Coverage
      BY <2>8 DEF MirrorInv
    <3>2. isDisposed => gate
      <4>1. isDisposed => Front.kind = "load"
        BY <1>1, <1>4 DEF LoadKind
      <4>2. Front.kind = "load" => load = "loading"
        BY <1>2, <3>1 DEF Serial
      <4> QED
        BY <3>1, <4>1, <4>2 DEF Serial
    <3>3. job.kind \notin FlushKind /\ job.kind # "drain"
      BY <1>1, <2>3 DEF LoadKind, FlushKind
    <3>4. pending' \in {pending, {}}
      BY <1>1
    <3>5. Serial' /\ Draining'
      BY <1>1, <2>1, <2>3, <2>4, <3>1, <3>2, <3>3, <3>4, OrderStepped
    <3>6. InTransaction' /\ ~Flushing'
      BY <1>1, <2>3, <2>5 DEF InTransaction, Flushing, LoadKind, FlushKind
    <3>7. \A row \in Front'.todo : row[2] = table'[row[1]]
      BY <1>1, <2>3, <2>5 DEF Scan
    <3>8. Fresh'
      BY <3>6, <3>7 DEF Fresh
    <3>9. ASSUME NEW r \in Row PROVE Covered(r)'
      <4>1. CASE table[r] # "gone"
        <5>1. <<r, table'[r]>> \in Front'.todo
          BY <1>1, <2>3, <2>5, <4>1 DEF Scan
        <5> QED
          BY <3>6, <5>1 DEF Covered
      <4>2. CASE table[r] = "gone"
        <5>1. mirror'[r] = table'[r] \/ r \in excused'
          BY <1>1, <2>1, <4>2
        <5> QED
          BY <5>1 DEF Covered
      <4> QED
        BY <4>1, <4>2
    <3>10. ASSUME Loaded', Front'.kind = "rebuild", NEW r \in Row PROVE SavedCovers(r)'
      <4>1. ~InTransaction /\ ~Flushing
        BY <1>1 DEF InTransaction, Flushing
      <4>2. Loaded
        BY <1>1, <2>3, <2>5, <3>10 DEF Loaded
      <4>3. Covered(r)
        BY <3>1, <4>2 DEF Coverage
      <4> QED
        BY <1>1, <2>1, <2>3, <2>5, <4>1, <4>3 DEF Covered, SavedCovers
    <3> QED
      BY <3>5, <3>8, <3>9, <3>10 DEF Coverage
  <2> QED
    BY <1>1, <2>7, <2>8 DEF MirrorInv, isDisposed
<1> QED
  BY <1>3, <1>4

\* A row of the scan is written: as it is, or it is covered otherwise.
LEMMA LoadRowStep == ASSUME MirrorInv, LoadRow PROVE MirrorInv'
<1>1. /\ MirrorType /\ (late => isDisposed)
      /\ queue # <<>> /\ Front.kind \in LoadKind /\ Front.begun
      /\ UNCHANGED <<table, saved, pending, timer, load, gate, drain, late, hung, excused, spent>>
  BY DEF MirrorInv, LoadRow, Running, LoadKind
<1>2. Front \in LoadWork /\ Front = queue[1] /\ 1 \in DOMAIN queue
  BY <1>1, FrontIs
<1>3. PICK row \in Front.todo : /\ mirror' = [mirror EXCEPT ![row[1]] = row[2]]
                                /\ Step([Front EXCEPT !.todo = @ \ {row}])
  BY DEF LoadRow
<1>4. /\ Front.todo \in SUBSET (Row \X Value)
      /\ row \in Row \X Value /\ row[1] \in Row /\ row[2] \in Value /\ row = <<row[1], row[2]>>
      /\ Front.was \in SUBSET Row
  BY <1>2, <1>3 DEF LoadWork
<1> DEFINE job == [Front EXCEPT !.todo = Front.todo \ {row}]
<1>5. /\ job \in LoadWork /\ job.kind = Front.kind /\ job.begun = Front.begun
      /\ job.todo = Front.todo \ {row} /\ job.was = Front.was
  <2>1. Front.todo \ {row} \in SUBSET (Row \X Value)
    BY <1>4
  <2> QED
    BY <1>2, <2>1 DEF LoadWork
<1>6. Step(job)
  BY <1>3
<1> HIDE DEF job
<1>7. job \in Work
  BY <1>5 DEF Work
<1>8. queue' \in Seq(Work) /\ queue' # <<>> /\ Front' = job
  BY <1>1, <1>6, <1>7, Stepped
<1>9. mirror' \in [Row -> Value]
  BY <1>1, <1>3, <1>4 DEF MirrorType
<1>10. MirrorType'
  BY <1>1, <1>8, <1>9 DEF MirrorType
<1>11. ASSUME ~late PROVE Serial' /\ Draining' /\ Fresh' /\ Coverage'
  <2>1. Serial /\ Draining /\ Fresh /\ Coverage
    BY <1>11 DEF MirrorInv
  <2>2. job.kind \notin FlushKind /\ job.kind # "drain" /\ pending' \in {pending, {}}
    BY <1>1, <1>5 DEF LoadKind, FlushKind
  <2>3. Serial' /\ Draining'
    BY <1>1, <1>5, <1>6, <1>7, <2>1, <2>2, OrderStepped DEF Draining
  <2>4. InTransaction /\ ~Flushing /\ InTransaction' /\ ~Flushing'
    BY <1>1, <1>5, <1>8 DEF InTransaction, Flushing, LoadKind, FlushKind
  <2>5. Fresh'
    BY <1>1, <1>5, <1>8, <2>1, <2>4 DEF Fresh
  <2>6. Loaded' => Loaded
    BY <1>1, <1>5, <1>8, <2>4 DEF Loaded
  <2>7. ASSUME Loaded', NEW r \in Row PROVE Covered(r)'
    <3>1. Covered(r)
      BY <2>1, <2>6, <2>7 DEF Coverage
    <3>2. CASE r \in excused \cup pending
      BY <1>1, <3>2 DEF Covered
    <3>3. CASE r = row[1] /\ r \notin excused \cup pending
      <4>1. row[2] = table[row[1]]
        BY <1>3, <2>1, <2>4, <3>3 DEF Fresh
      <4>2. mirror'[r] = table'[r]
        BY <1>1, <1>3, <1>4, <3>3, <4>1 DEF MirrorType
      <4> QED
        BY <4>2 DEF Covered
    <3>4. CASE r # row[1] /\ r \notin excused \cup pending
      <4>1. mirror'[r] = mirror[r]
        BY <1>1, <1>3, <1>4, <3>4 DEF MirrorType
      <4>2. <<r, table[r]>> \in Front.todo => <<r, table[r]>> \in job.todo
        BY <1>4, <1>5, <3>4
      <4> QED
        BY <1>1, <1>8, <2>4, <3>1, <3>4, <4>1, <4>2 DEF Covered
    <3> QED
      BY <3>2, <3>3, <3>4
  <2>8. ASSUME Loaded', Front'.kind = "rebuild", NEW r \in Row PROVE SavedCovers(r)'
    <3>1. SavedCovers(r)
      BY <1>5, <1>8, <2>1, <2>4, <2>6, <2>8 DEF Coverage
    <3> QED
      BY <1>1, <1>5, <1>8, <3>1 DEF SavedCovers
  <2> QED
    BY <2>3, <2>5, <2>7, <2>8 DEF Coverage
<1> QED
  BY <1>1, <1>10, <1>11 DEF MirrorInv, isDisposed

\* With nothing left of the scan the transaction commits.
LEMMA CommitStep == ASSUME MirrorInv, Commit PROVE MirrorInv'
<1>1. /\ MirrorType /\ (late => isDisposed)
      /\ queue # <<>> /\ Front.kind \in LoadKind /\ Front.begun /\ Front.todo = {}
      /\ queue' = Tail(queue)
      /\ load' = IF Front.kind = "load" THEN "loaded" ELSE load
      /\ UNCHANGED <<table, mirror, saved, pending, timer, gate, drain, late, hung, excused, spent>>
  BY DEF MirrorInv, Commit, Running, LoadKind
<1>2. queue' \in Seq(Work)
  BY <1>1, TailFacts DEF MirrorType
<1>3. MirrorType'
  BY <1>1, <1>2 DEF MirrorType, Load
<1>4. ASSUME ~late PROVE Serial' /\ Draining' /\ Fresh' /\ Coverage'
  <2>1. Serial /\ Draining /\ Fresh /\ Coverage
    BY <1>4 DEF MirrorInv
  <2>2. Front.kind # "drain"
    BY <1>1 DEF LoadKind
  <2>3. Serial' /\ Draining'
    <3>1. isDisposed => gate \/ excused' = Row
      BY <1>1, <2>1 DEF Draining
    <3> QED
      BY <1>1, <2>1, <2>2, <3>1, OrderPopped
  <2>4. ~InTransaction' /\ ~Flushing'
    BY <1>1, <2>1, Popped DEF Serial
  <2>5. InTransaction /\ ~Flushing
    BY <1>1 DEF InTransaction, Flushing, LoadKind, FlushKind
  <2>6. Fresh'
    BY <2>4 DEF Fresh
  <2>7. ASSUME Loaded', NEW r \in Row PROVE Covered(r)'
    <3>1. Loaded
      <4>1. CASE Front.kind = "load"
        <5>1. load = "loading"
          BY <1>1, <2>1, <4>1, FrontIs DEF Serial
        <5> QED
          BY <2>5, <4>1, <5>1 DEF Loaded
      <4>2. CASE Front.kind # "load"
        BY <1>1, <2>4, <2>7, <4>2 DEF Loaded
      <4> QED
        BY <4>1, <4>2
    <3>2. Covered(r)
      BY <2>1, <3>1 DEF Coverage
    <3> QED
      BY <1>1, <2>5, <3>2 DEF Covered
  <2> QED
    BY <2>3, <2>4, <2>6, <2>7 DEF Coverage
<1> QED
  BY <1>1, <1>3, <1>4 DEF MirrorInv, isDisposed

\* What is pending is handed to the flush.
LEMMA BeginFlushStep == ASSUME MirrorInv, BeginFlush PROVE MirrorInv'
<1>1. /\ MirrorType /\ (late => isDisposed)
      /\ queue # <<>> /\ Front.kind \in FlushKind /\ ~Front.begun /\ pending' = {}
      /\ UNCHANGED <<table, mirror, saved, timer, load, gate, drain, late, hung, excused, spent>>
  BY DEF MirrorInv, BeginFlush, Running, FlushKind
<1>2. Front \in FlushWork /\ Front = queue[1] /\ 1 \in DOMAIN queue /\ pending \in SUBSET Row
  BY <1>1, FrontIs DEF MirrorType
<1> DEFINE job == [Front EXCEPT !.begun = TRUE, !.todo = pending]
<1>3. Step(job)
  BY DEF BeginFlush
<1>4. /\ job \in FlushWork /\ job.kind = Front.kind /\ job.begun
      /\ job.todo = pending /\ job.item = Front.item
  BY <1>2 DEF FlushWork
<1> HIDE DEF job
<1>5. job \in Work
  BY <1>4 DEF Work
<1>6. queue' \in Seq(Work) /\ queue' # <<>> /\ Front' = job
  BY <1>1, <1>3, <1>5, Stepped
<1>7. MirrorType'
  BY <1>1, <1>6 DEF MirrorType
<1>8. ASSUME ~late PROVE Serial' /\ Draining' /\ Fresh' /\ Coverage'
  <2>1. Serial /\ Draining /\ Fresh /\ Coverage
    BY <1>8 DEF MirrorInv
  <2>2. Front.item = None
    <3>1. Front = Job(Front.kind)
      BY <1>1, <1>2, <2>1 DEF Serial
    <3>2. Job(Front.kind).item = None
      BY <1>1, JobIs
    <3> QED
      BY <3>1, <3>2
  <2>3. job.todo # {} \/ job.item # None => load = "observing"
    BY <1>4, <2>1, <2>2 DEF Serial
  <2>4. pending' \in {pending, {}} /\ UNCHANGED <<load, gate, drain, timer>>
    BY <1>1
  <2>5. isDisposed => gate \/ excused' = Row
    BY <1>1, <2>1 DEF Draining
  <2>6. Serial' /\ Draining'
    BY <1>1, <1>3, <1>4, <1>5, <2>1, <2>3, <2>4, <2>5, OrderStepped
  <2>7. ~InTransaction /\ ~Flushing /\ ~InTransaction' /\ Flushing'
    BY <1>1, <1>4, <1>6 DEF InTransaction, Flushing, LoadKind, FlushKind
  <2>8. Fresh'
    BY <1>4, <1>6, <2>2, <2>7 DEF Fresh
  <2>9. Loaded' => Loaded
    BY <1>1, <2>7 DEF Loaded
  <2>10. ASSUME Loaded', NEW r \in Row PROVE Covered(r)'
    <3>1. Covered(r)
      BY <2>1, <2>9, <2>10 DEF Coverage
    <3> QED
      BY <1>1, <1>4, <1>6, <2>7, <3>1 DEF Covered
  <2> QED
    BY <2>6, <2>7, <2>8, <2>10 DEF Coverage
<1> QED
  BY <1>1, <1>7, <1>8 DEF MirrorInv, isDisposed

\* A row is read: it is written as it is now, or is pending again by then.
LEMMA FlushReadsStep == ASSUME MirrorInv, FlushReads PROVE MirrorInv'
<1>1. /\ MirrorType /\ (late => isDisposed)
      /\ queue # <<>> /\ Front.kind \in FlushKind /\ Front.begun /\ Front.item = None
      /\ UNCHANGED <<table, mirror, saved, pending, timer, load, gate, drain, late, hung,
                     excused, spent>>
  BY DEF MirrorInv, FlushReads, Running, FlushKind
<1>2. Front \in FlushWork /\ Front = queue[1] /\ 1 \in DOMAIN queue
  BY <1>1, FrontIs
<1>3. PICK s \in Front.todo : Step([Front EXCEPT !.todo = @ \ {s}, !.item = <<s, table[s]>>])
  BY DEF FlushReads
<1>4. Front.todo \in SUBSET Row /\ s \in Row /\ table[s] \in Value
  BY <1>1, <1>2, <1>3 DEF FlushWork, MirrorType
<1> DEFINE todo == Front.todo \ {s}
           item == <<s, table[s]>>
           job == [Front EXCEPT !.todo = todo, !.item = item]
<1>5. Step(job)
  BY <1>3
<1>6. todo \in SUBSET Row /\ item \in Row \X Value /\ item # None
  BY <1>4 DEF None
<1>7. /\ job \in FlushWork /\ job.kind = Front.kind /\ job.begun = Front.begun
      /\ job.todo = todo /\ job.item = item
  <2> HIDE DEF todo, item
  <2> QED
    BY <1>2, <1>6 DEF FlushWork
<1> HIDE DEF job
<1>8. job \in Work
  BY <1>7 DEF Work
<1>9. queue' \in Seq(Work) /\ queue' # <<>> /\ Front' = job
  BY <1>1, <1>5, <1>8, Stepped
<1>10. MirrorType'
  BY <1>1, <1>9 DEF MirrorType
<1>11. ASSUME ~late PROVE Serial' /\ Draining' /\ Fresh' /\ Coverage'
  <2>1. Serial /\ Draining /\ Fresh /\ Coverage
    BY <1>11 DEF MirrorInv
  <2>2. ~InTransaction /\ Flushing /\ ~InTransaction' /\ Flushing'
    BY <1>1, <1>7, <1>9 DEF InTransaction, Flushing, LoadKind, FlushKind
  <2>3. load = "observing"
    BY <1>3, <2>1, <2>2 DEF Serial
  <2>4. pending' \in {pending, {}} /\ UNCHANGED <<load, gate, drain, timer>>
    BY <1>1
  <2>5. isDisposed => gate \/ excused' = Row
    BY <1>1, <2>1 DEF Draining
  <2>6. job.kind = "drain" => pending' = {}
    BY <1>1, <1>2, <1>7, <2>1 DEF Draining
  <2>7. Serial' /\ Draining'
    BY <1>1, <1>5, <1>7, <1>8, <2>1, <2>3, <2>4, <2>5, <2>6, OrderStepped
  <2>8. Fresh'
    BY <1>1, <1>7, <1>9, <2>2 DEF Fresh
  <2>9. ASSUME NEW r \in Row PROVE Covered(r)'
    <3>1. Covered(r)
      BY <2>1, <2>3 DEF Coverage, Loaded
    <3>2. Front'.todo = Front.todo \ {s} /\ Front'.item[1] = s /\ Front'.item # None
      BY <1>6, <1>7, <1>9
    <3> QED
      BY <1>1, <2>2, <3>1, <3>2 DEF Covered
  <2> QED
    BY <2>2, <2>7, <2>8, <2>9 DEF Coverage
<1> QED
  BY <1>1, <1>10, <1>11 DEF MirrorInv, isDisposed

\* What was read is written, and no longer stale for an earlier reason.
LEMMA FlushWritesStep == ASSUME MirrorInv, FlushWrites PROVE MirrorInv'
<1>1. /\ MirrorType /\ (late => isDisposed)
      /\ queue # <<>> /\ Front.kind \in FlushKind /\ Front.item # None
      /\ UNCHANGED <<table, saved, pending, timer, load, gate, drain, late, hung, spent>>
  BY DEF MirrorInv, FlushWrites, Running, FlushKind
<1>2. Front \in FlushWork /\ Front = queue[1] /\ 1 \in DOMAIN queue
  BY <1>1, FrontIs
<1> DEFINE job == [Front EXCEPT !.item = None]
           s == Front.item[1]
           v == Front.item[2]
<1>3. /\ mirror' = [mirror EXCEPT ![s] = v]
      /\ excused' = excused \ {s}
      /\ Step(job)
  BY DEF FlushWrites
<1>4. s \in Row /\ v \in Value
  BY <1>1, <1>2 DEF FlushWork
<1>5. /\ job \in FlushWork /\ job.kind = Front.kind /\ job.begun = Front.begun
      /\ job.todo = Front.todo /\ job.item = None
  BY <1>2 DEF FlushWork
<1> HIDE DEF job
<1>6. job \in Work
  BY <1>5 DEF Work
<1>7. queue' \in Seq(Work) /\ queue' # <<>> /\ Front' = job
  BY <1>1, <1>3, <1>6, Stepped
<1>8. mirror' \in [Row -> Value] /\ excused' \subseteq Row
  BY <1>1, <1>3, <1>4 DEF MirrorType
<1>9. MirrorType'
  BY <1>1, <1>7, <1>8 DEF MirrorType
<1>10. ASSUME ~late PROVE Serial' /\ Draining' /\ Fresh' /\ Coverage'
  <2>1. Serial /\ Draining /\ Fresh /\ Coverage
    BY <1>10 DEF MirrorInv
  <2>2. Front.begun
    <3>1. ~Front.begun => Front = Job(Front.kind)
      BY <1>2, <2>1 DEF Serial
    <3> QED
      BY <1>1, <3>1, JobIs
  <2>3. ~InTransaction /\ Flushing /\ ~InTransaction' /\ Flushing'
    BY <1>1, <1>5, <1>7, <2>2 DEF InTransaction, Flushing, LoadKind, FlushKind
  <2>4. load = "observing"
    BY <1>1, <2>1, <2>3 DEF Serial
  <2>5. pending' \in {pending, {}} /\ UNCHANGED <<load, gate, drain, timer>>
    BY <1>1
  <2>6. gate
    BY <2>1, <2>4 DEF Serial
  <2>7. job.kind = "drain" => pending' = {}
    BY <1>1, <1>2, <1>5, <2>1, <2>2 DEF Draining
  <2>8. Serial' /\ Draining'
    BY <1>1, <1>3, <1>5, <1>6, <2>1, <2>2, <2>4, <2>5, <2>6, <2>7, OrderStepped
  <2>9. Fresh'
    BY <1>5, <1>7, <2>3 DEF Fresh
  <2>10. ASSUME NEW r \in Row PROVE Covered(r)'
    <3>1. Covered(r)
      BY <2>1, <2>4 DEF Coverage, Loaded
    <3>2. CASE r = s
      <4>1. mirror'[r] = v
        BY <1>1, <1>3, <1>4, <3>2 DEF MirrorType
      <4>2. v = table[r] \/ r \in pending
        BY <1>1, <2>1, <2>3, <3>2 DEF Fresh
      <4> QED
        BY <1>1, <4>1, <4>2 DEF Covered
    <3>3. CASE r # s
      <4>1. mirror'[r] = mirror[r] /\ (r \in excused => r \in excused')
        BY <1>1, <1>3, <1>4, <3>3 DEF MirrorType
      <4> QED
        BY <1>1, <1>5, <1>7, <2>3, <3>1, <3>3, <4>1 DEF Covered
    <3> QED
      BY <3>2, <3>3
  <2> QED
    BY <2>3, <2>8, <2>9, <2>10 DEF Coverage
<1> QED
  BY <1>1, <1>9, <1>10 DEF MirrorInv, isDisposed

\* A flush that has nothing left is done, and the disposal that waits for it settled.
LEMMA FlushEndsStep == ASSUME MirrorInv, FlushEnds PROVE MirrorInv'
<1>1. /\ MirrorType /\ (late => isDisposed)
      /\ queue # <<>> /\ Front.kind \in FlushKind /\ Front.begun
      /\ Front.item = None /\ Front.todo = {}
      /\ queue' = Tail(queue)
      /\ drain' = IF Front.kind = "drain" /\ drain = "flushing" THEN "settled" ELSE drain
      /\ UNCHANGED <<table, mirror, saved, pending, timer, load, gate, late, hung, excused, spent>>
  BY DEF MirrorInv, FlushEnds, Settle, Running, FlushKind
<1>2. queue' \in Seq(Work)
  BY <1>1, TailFacts DEF MirrorType
<1>3. MirrorType' /\ (isDisposed' <=> isDisposed)
  BY <1>1, <1>2 DEF MirrorType, Drain, isDisposed
<1>4. ASSUME ~late PROVE Serial' /\ Draining' /\ Fresh' /\ Coverage'
  <2>1. Serial /\ Draining /\ Fresh /\ Coverage
    BY <1>4 DEF MirrorInv
  <2>2. Serial' /\ Draining'
    <3>1. isDisposed => gate \/ excused' = Row
      BY <1>1, <2>1 DEF Draining
    <3> QED
      BY <1>1, <2>1, <3>1, OrderPopped
  <2>3. ~InTransaction /\ ~InTransaction' /\ ~Flushing'
    BY <1>1, <2>1, Popped DEF Serial, InTransaction, FlushKind
  <2>4. Fresh'
    BY <2>3 DEF Fresh
  <2>5. ASSUME Loaded', NEW r \in Row PROVE Covered(r)'
    <3>1. Loaded
      BY <1>1, <2>3, <2>5 DEF Loaded
    <3>2. Covered(r)
      BY <2>1, <3>1 DEF Coverage
    <3> QED
      BY <1>1, <2>3, <3>2 DEF Covered
  <2> QED
    BY <2>2, <2>3, <2>4, <2>5 DEF Coverage
<1> QED
  BY <1>1, <1>3, <1>4 DEF MirrorInv

\* What is lost with a statement that throws is known: the rest of a flush, all
\* of a load, and what a rollback takes back of a rebuild.
LEMMA ThrowsStep == ASSUME MirrorInv, Throws PROVE MirrorInv'
<1>1. /\ MirrorType /\ (late => isDisposed)
      /\ queue # <<>> /\ Front.kind \in LoadKind \cup FlushKind /\ Front.begun
      /\ queue' = Tail(queue)
      /\ drain' = IF Front.kind = "drain" /\ drain = "flushing" THEN "settled" ELSE drain
      /\ spent' = [spent EXCEPT !.failures = @ + 1]
      /\ UNCHANGED <<table, saved, pending, timer, gate, late, hung>>
  BY DEF MirrorInv, Throws, Settle, Running, LoadKind, FlushKind
<1>2. \/ /\ Front.kind \in LoadKind
         /\ mirror' = saved
         /\ load' = IF Front.kind = "load" THEN "failed" ELSE load
         /\ excused' = IF Front.kind = "load" THEN Row ELSE excused \cup Front.was
      \/ /\ Front.kind \in FlushKind
         /\ excused' = excused \cup Front.todo \cup
                          (IF Front.item = None THEN {} ELSE {Front.item[1]})
         /\ UNCHANGED <<mirror, load>>
  BY DEF Throws, LoadKind, FlushKind
<1>3. queue' \in Seq(Work) /\ spent' \in Spent
  BY <1>1, TailFacts, SpentOn DEF MirrorType
<1>4. excused' \subseteq Row
  <2>1. CASE Front.kind \in LoadKind
    <3>1. Front.was \subseteq Row
      BY <1>1, <2>1, FrontIs DEF LoadWork
    <3> QED
      BY <1>1, <1>2, <2>1, <3>1 DEF MirrorType, LoadKind, FlushKind
  <2>2. CASE Front.kind \in FlushKind
    <3>1. Front.todo \subseteq Row /\ (Front.item # None => Front.item[1] \in Row)
      BY <1>1, <2>2, FrontIs DEF FlushWork
    <3> QED
      BY <1>1, <1>2, <2>2, <3>1 DEF MirrorType, LoadKind, FlushKind
  <2> QED
    BY <1>1, <2>1, <2>2
<1>5. MirrorType' /\ (isDisposed' <=> isDisposed)
  BY <1>1, <1>2, <1>3, <1>4 DEF MirrorType, Drain, Load, isDisposed
<1>6. ASSUME ~late PROVE Serial' /\ Draining' /\ Fresh' /\ Coverage'
  <2>1. Serial /\ Draining /\ Fresh /\ Coverage
    BY <1>6 DEF MirrorInv
  <2>2. excused = Row => excused' = Row
    BY <1>2, <1>4
  <2>3. Serial' /\ Draining'
    <3>1. isDisposed => gate \/ excused' = Row
      BY <2>1, <2>2 DEF Draining
    <3>2. load' = load \/ (Front.kind = "load" /\ load' \in {"loaded", "failed"})
      BY <1>2
    <3>3. UNCHANGED <<gate, timer, pending>>
      BY <1>1
    <3> QED
      BY <1>1, <2>1, <3>1, <3>2, <3>3, OrderPopped
  <2>4. ~InTransaction' /\ ~Flushing'
    BY <1>1, <2>1, Popped DEF Serial
  <2>5. Fresh'
    BY <2>4 DEF Fresh
  <2>6. ASSUME Loaded', NEW r \in Row PROVE Covered(r)'
    <3>1. CASE Front.kind = "load"
      BY <1>2, <3>1 DEF Covered, FlushKind
    <3>2. CASE Front.kind # "load"
      <4>1. load' = load /\ Loaded
        BY <1>2, <2>4, <2>6, <3>2 DEF Loaded
      <4>2. CASE Front.kind = "rebuild"
        <5>1. InTransaction /\ mirror' = saved /\ excused' = excused \cup Front.was
          BY <1>1, <1>2, <4>2 DEF InTransaction, FlushKind
        <5>2. SavedCovers(r)
          BY <2>1, <4>1, <4>2, <5>1 DEF Coverage
        <5> QED
          BY <1>1, <5>1, <5>2 DEF Covered, SavedCovers
      <4>3. CASE Front.kind \in FlushKind
        <5>1. ~InTransaction
          BY <4>3 DEF InTransaction, FlushKind
        <5>2. Covered(r)
          BY <2>1, <4>1 DEF Coverage
        <5>3. /\ mirror' = mirror
              /\ excused' = excused \cup Front.todo \cup
                               (IF Front.item = None THEN {} ELSE {Front.item[1]})
          BY <1>2, <4>3 DEF LoadKind, FlushKind
        <5> QED
          BY <1>1, <5>1, <5>2, <5>3 DEF Covered
      <4> QED
        BY <1>1, <3>2, <4>2, <4>3 DEF LoadKind
    <3> QED
      BY <3>1, <3>2
  <2> QED
    BY <2>3, <2>4, <2>5, <2>6 DEF Coverage
<1> QED
  BY <1>1, <1>5, <1>6 DEF MirrorInv

\* A statement that hangs changes nothing else.
LEMMA HangsStep == ASSUME MirrorInv, Hangs PROVE MirrorInv'
<1>1. /\ UNCHANGED <<table, mirror, saved, pending, timer, queue, load, gate, drain, late, excused>>
      /\ spent' = [spent EXCEPT !.failures = @ + 1] /\ hung' = TRUE
  BY DEF Hangs
<1>2. spent' \in Spent
  BY <1>1, SpentOn DEF MirrorInv, MirrorType
<1>3. MirrorType'
  BY <1>1, <1>2 DEF MirrorInv, MirrorType
<1>4. ASSUME ~late PROVE Serial' /\ Draining' /\ Fresh' /\ Coverage'
  <2>1. Serial /\ Draining /\ Fresh /\ Coverage
    BY <1>4 DEF MirrorInv
  <2>2. Serial' /\ Draining'
    BY <1>1, <2>1 DEF Serial, Draining, Flushing, Front, isDisposed
  <2>3. (InTransaction' <=> InTransaction) /\ (Flushing' <=> Flushing) /\ Front' = Front
    BY <1>1 DEF InTransaction, Flushing, Front
  <2>4. Fresh' /\ Coverage'
    BY <1>1, <2>1, <2>3, CoverageKept DEF Loaded
  <2> QED
    BY <2>2, <2>4
<1> QED
  BY <1>1, <1>3, <1>4 DEF MirrorInv, isDisposed

\* The flush of the disposal waits behind all other work.
LEMMA DrainEnqueued ==
    ASSUME MirrorType, Serial, Draining, Enqueue("drain"),
           drain \in {"none", "awaitLoad"}, drain' = "flushing", timer' = FALSE,
           UNCHANGED <<load, gate, pending>>,
           (gate /\ load \in {"observing", "failed"}) \/ (~gate /\ excused' = Row)
    PROVE  Serial' /\ Draining'
<1>1. "drain" \in LoadKind \cup FlushKind
  BY DEF FlushKind
<1>2. Job("drain").kind = "drain" /\ ~Job("drain").begun
  BY <1>1, JobIs
<1>3. \A k \in DOMAIN queue : queue[k].kind # "drain"
  BY DEF Draining
<1>4. ASSUME NEW k \in DOMAIN queue'
      PROVE  /\ k # 1 \/ ~queue'[k].begun => queue'[k] = Job(queue'[k].kind)
             /\ queue'[k].kind = "flush" => load = "observing"
             /\ queue'[k].kind = "load" => /\ k \in DOMAIN queue /\ queue'[k] = queue[k]
                                           /\ load = "loading"
             /\ queue'[k].kind = "drain" => k = Len(queue') /\ ~queue'[k].begun
  BY <1>1, <1>2, <1>3, Enqueued DEF Serial
<1>5. Flushing' /\ (Front'.todo # {} \/ Front'.item # None) => load = "observing"
  BY <1>1, Enqueued DEF Serial, Flushing
<1>6. Serial'
  BY <1>4, <1>5 DEF Serial
<1>7. Draining'
  BY <1>4 DEF Draining, isDisposed
<1> QED
  BY <1>6, <1>7

\* The disposal waits for the load, or, when none will come, only for its flush.
LEMMA MirrorDisposesStep == ASSUME MirrorInv, MirrorDisposes PROVE MirrorInv'
<1>1. /\ MirrorType /\ ~isDisposed /\ ~late /\ drain = "none"
      /\ Serial /\ Draining /\ Fresh /\ Coverage
      /\ timer' = FALSE
      /\ UNCHANGED <<table, mirror, saved, pending, load, gate, late, hung, spent>>
  BY DEF MirrorInv, MirrorDisposes, isDisposed
<1>2. CASE gate
  <2>1. drain' = "awaitLoad" /\ UNCHANGED <<queue, excused>>
    BY <1>2 DEF MirrorDisposes
  <2>2. MirrorType'
    BY <1>1, <2>1 DEF MirrorType, Drain
  <2>3. Serial'
    BY <1>1, <1>2, <2>1 DEF Serial, Flushing, Front
  <2>4. \A k \in DOMAIN queue : queue[k].kind # "drain"
    BY <1>1 DEF Draining
  <2>5. Draining'
    BY <1>1, <1>2, <2>1, <2>4 DEF Draining, isDisposed
  <2>6. (InTransaction' <=> InTransaction) /\ (Flushing' <=> Flushing) /\ Front' = Front
    BY <2>1 DEF InTransaction, Flushing, Front
  <2>7. Fresh' /\ Coverage'
    BY <1>1, <2>1, <2>6, CoverageKept DEF Loaded
  <2> QED
    BY <1>1, <2>2, <2>3, <2>5, <2>7 DEF MirrorInv
<1>3. CASE ~gate
  <2>1. drain' = "flushing" /\ Enqueue("drain") /\ excused' = Row
    BY <1>3 DEF MirrorDisposes
  <2>2. "drain" \in LoadKind \cup FlushKind
    BY DEF FlushKind
  <2>3. MirrorType'
    BY <1>1, <2>1, <2>2, Enqueued DEF MirrorType, Drain
  <2>4. Serial' /\ Draining'
    BY <1>1, <1>3, <2>1, DrainEnqueued
  <2>5. Fresh'
    <3>1. (InTransaction \/ Flushing => Front' = Front) /\ (InTransaction' <=> InTransaction)
          /\ (Flushing' <=> Flushing)
      BY <1>1, <2>1, <2>2, Enqueued DEF InTransaction, Flushing
    <3>2. ASSUME InTransaction, NEW row \in Front.todo PROVE row[1] \in Row
      <4>1. Front \in LoadWork
        BY <1>1, <3>2, FrontIs DEF InTransaction, LoadKind
      <4> QED
        BY <3>2, <4>1 DEF LoadWork
    <3> QED
      BY <1>1, <2>1, <3>1, <3>2 DEF Fresh
  <2>6. Coverage'
    BY <2>1 DEF Coverage, Covered, SavedCovers
  <2> QED
    BY <1>1, <2>3, <2>4, <2>5, <2>6 DEF MirrorInv
<1> QED
  BY <1>2, <1>3

\* The load has settled: the flush of the disposal waits.
LEMMA DrainFlushesStep == ASSUME MirrorInv, DrainFlushes PROVE MirrorInv'
<1>1. /\ MirrorType /\ (late => isDisposed) /\ drain = "awaitLoad" /\ drain' = "flushing"
      /\ load \in {"observing", "failed"} /\ Enqueue("drain")
      /\ UNCHANGED <<table, mirror, saved, pending, timer, load, gate, late, hung, excused, spent>>
  BY DEF MirrorInv, DrainFlushes
<1>2. "drain" \in LoadKind \cup FlushKind
  BY DEF FlushKind
<1>3. MirrorType'
  BY <1>1, <1>2, Enqueued DEF MirrorType, Drain
<1>4. ASSUME ~late PROVE Serial' /\ Draining' /\ Fresh' /\ Coverage'
  <2>1. Serial /\ Draining /\ Fresh /\ Coverage
    BY <1>4 DEF MirrorInv
  <2>2. gate /\ timer' = FALSE
    BY <1>1, <2>1 DEF Draining, isDisposed, MirrorType
  <2>3. Serial' /\ Draining'
    <3>1. (gate /\ load \in {"observing", "failed"}) \/ (~gate /\ excused' = Row)
      BY <1>1, <2>2
    <3>2. UNCHANGED <<load, gate, pending>> /\ drain \in {"none", "awaitLoad"}
      BY <1>1
    <3> QED
      BY <1>1, <2>1, <2>2, <3>1, <3>2, DrainEnqueued
  <2>4. Fresh' /\ Coverage'
    BY <1>1, <1>2, <2>1, Enqueued, CoverageKept DEF Loaded
  <2> QED
    BY <2>3, <2>4
<1> QED
  BY <1>1, <1>3, <1>4 DEF MirrorInv, isDisposed

\* Of a drain that is given up nothing more is claimed.
LEMMA DrainTimesOutStep == ASSUME MirrorInv, DrainTimesOut PROVE MirrorInv'
BY DEF MirrorInv, MirrorType, DrainTimesOut, Drain, isDisposed

\* The file is closed with no work under way, unless the drain was given up.
LEMMA ClosesStep == ASSUME MirrorInv, Closes PROVE MirrorInv'
<1>1. /\ MirrorType /\ (late => isDisposed) /\ drain = "settled" /\ drain' = "closed"
      /\ mirror' = IF InTransaction THEN saved ELSE mirror
      /\ UNCHANGED <<table, saved, pending, timer, queue, load, gate, late, hung, excused, spent>>
  BY DEF MirrorInv, Closes
<1>2. MirrorType'
  BY <1>1 DEF MirrorType, Drain
<1>3. ASSUME ~late PROVE Serial' /\ Draining' /\ Fresh' /\ Coverage'
  <2>1. Serial /\ Draining /\ Fresh /\ Coverage /\ queue = <<>>
    BY <1>1, <1>3 DEF MirrorInv, Draining
  <2>2. ~InTransaction /\ (InTransaction' <=> InTransaction) /\ (Flushing' <=> Flushing)
        /\ mirror' = mirror
    BY <1>1, <2>1 DEF InTransaction, Flushing
  <2>3. Serial' /\ Draining'
    BY <1>1, <2>1 DEF Serial, Draining, Flushing, Front, isDisposed
  <2>4. Fresh' /\ Coverage'
    BY <1>1, <2>1, <2>2, CoverageKept DEF Loaded
  <2> QED
    BY <2>3, <2>4
<1> QED
  BY <1>1, <1>2, <1>3 DEF MirrorInv, isDisposed

-----------------------------------------------------------------------------
(* The mount                                                               *)

\* Initially a mirror claims nothing, and every body is new.
LEMMA InitialMount == ASSUME Init PROVE MountInv
<1>1. /\ table \in [Row -> Value] /\ mirror \in [Row -> Value] /\ saved = mirror
      /\ pending = {} /\ timer = FALSE /\ queue = <<>> /\ load = "gated" /\ gate \in BOOLEAN
      /\ drain = "none" /\ late = FALSE /\ hung = FALSE /\ excused = {}
      /\ spent = [edits |-> 0, rebuilds |-> 0, failures |-> 0]
  BY DEF Init, MirrorInit
<1>2. /\ hosted = isDesignated(table) \X {0}
      /\ closing = {} /\ draining = {} /\ owed = {} /\ stopped = FALSE /\ root = "up"
  BY DEF Init, WorkerInit
<1>3. spent \in Spent /\ spent.edits = 0
  BY <1>1 DEF Spent
<1>4. MirrorType
  <2>1. <<>> \in Seq(Work)
    OBVIOUS
  <2>2. queue \in Seq(Work)
    BY <1>1, <2>1
  <2> QED
    BY <1>1, <1>3, <2>2 DEF MirrorType, Load, Drain
<1>5. Serial /\ Draining /\ ~Loaded /\ ~InTransaction /\ ~Flushing
  BY <1>1 DEF Serial, Draining, Loaded, InTransaction, Flushing, isDisposed
<1>6. MirrorInv
  BY <1>1, <1>4, <1>5 DEF MirrorInv, Fresh, Coverage
<1>7. \A body \in hosted : body \in Row \X Nat /\ body[2] = 0
  BY <1>2 DEF isDesignated
<1>8. WorkerType
  BY <1>2, <1>7 DEF WorkerType
<1>9. Bodies
  BY <1>1, <1>2, <1>3, <1>7 DEF Bodies, isDisposed
<1> QED
  BY <1>6, <1>8, <1>9 DEF MountInv

\* A body opened by an edit is none there was; what the edit closes is no longer
\* hosted.
LEMMA EditStep == ASSUME MountInv, Edit PROVE MountInv'
<1>1. PICK s \in Row, v \in Value : /\ MirrorSees(s, v)
                                    /\ reconcile(isDesignated(table'), spent'.edits)
  BY DEF Edit
<1>2. ~isDisposed /\ root' = root /\ WorkerType /\ Bodies /\ MirrorInv
  BY DEF Edit, MountInv
<1>3. MirrorInv'
  BY <1>1, <1>2, MirrorSeesStep
<1> DEFINE wanted == isDesignated(table')
           kept == Kept(wanted)
           fresh == (wanted \ {body[1] : body \in kept}) \X {spent'.edits}
<1>4. /\ hosted' = kept \cup fresh /\ closing' = closing \cup (hosted \ kept)
      /\ UNCHANGED <<draining, stopped, owed>>
  BY <1>1, <1>2 DEF reconcile, Bodies
<1>5. spent.edits \in Nat /\ spent'.edits = spent.edits + 1
  <2>1. spent \in Spent
    BY <1>2 DEF MirrorInv, MirrorType
  <2>2. spent' = [spent EXCEPT !.edits = @ + 1]
    BY <1>1 DEF MirrorSees
  <2> QED
    BY <2>1, <2>2, SpentOn DEF Spent
<1>6. kept \subseteq hosted
  BY DEF Kept
<1>7. \A body \in fresh : body \in Row \X Nat /\ body[2] = spent'.edits
  BY <1>5 DEF isDesignated
<1> HIDE DEF wanted, kept, fresh
<1>8. WorkerType'
  BY <1>2, <1>4, <1>6, <1>7 DEF WorkerType
<1>9. \A body \in hosted \cup closing : body[2] \in Nat /\ body[2] <= spent.edits
  BY <1>2 DEF WorkerType, Bodies
<1>10. fresh \cap (hosted \cup closing) = {}
  BY <1>5, <1>7, <1>9
<1>11. drain' = drain
  BY <1>1 DEF MirrorSees
<1>12. Bodies'
  <2>1. \A body \in hosted' \cup closing' : body[2] <= spent'.edits
    BY <1>4, <1>5, <1>6, <1>7, <1>9
  <2>2. (hosted' \cup owed') \cap closing' = {}
    BY <1>2, <1>4, <1>6, <1>10 DEF Bodies
  <2> QED
    BY <1>2, <1>4, <1>11, <2>1, <2>2 DEF Bodies, isDisposed
<1> QED
  BY <1>3, <1>8, <1>12 DEF MountInv

\* The mirror works without the worker.
LEMMA WorkerIdle ==
    ASSUME MountInv, MirrorInv', UNCHANGED <<workerVars, root>>,
           spent'.edits = spent.edits, isDisposed' <=> isDisposed
    PROVE  MountInv'
BY DEF MountInv, WorkerType, Bodies, workerVars

\* The claims about the mirror are about its variables only.
LEMMA MirrorUnchanged == ASSUME MirrorInv, UNCHANGED mirrorVars PROVE MirrorInv'
BY DEF MirrorInv, mirrorVars, MirrorType, Serial, Draining, Fresh, Coverage, Loaded, Covered,
       SavedCovers, Flushing, InTransaction, Front, isDisposed

\* No work of the mirror is an edit or begins the disposal.
LEMMA WorkOnly ==
    ASSUME MirrorWork \/ DrainTimesOut
    PROVE  spent' = spent /\ (isDisposed' <=> isDisposed)
<1>1. CASE GateOpens \/ TimerFires \/ Observe \/ BeginLoad \/ LoadRow \/ Commit
  BY <1>1 DEF GateOpens, TimerFires, Observe, BeginLoad, LoadRow, Commit, isDisposed
<1>2. CASE BeginFlush \/ FlushReads \/ FlushWrites \/ FlushEnds
  BY <1>2 DEF BeginFlush, FlushReads, FlushWrites, FlushEnds, Settle, isDisposed
<1>3. CASE DrainFlushes \/ Closes \/ DrainTimesOut
  BY <1>3 DEF DrainFlushes, Closes, DrainTimesOut, isDisposed
<1> QED
  BY <1>1, <1>2, <1>3 DEF MirrorWork

\* The invariant holds after every step of the mount.
LEMMA EachStep == ASSUME MountInv, [Next]_vars PROVE MountInv'
<1>0. MirrorInv /\ WorkerType /\ Bodies /\ spent \in Spent
  BY DEF MountInv, MirrorInv, MirrorType
<1>1. CASE Edit
  BY <1>1, EditStep
<1>2. CASE Mirrors
  <2>1. MirrorWork /\ UNCHANGED <<workerVars, root>>
    BY <1>2 DEF Mirrors
  <2>2. MirrorInv'
    BY <1>0, <2>1, GateOpensStep, TimerFiresStep, ObserveStep, BeginLoadStep, LoadRowStep,
       CommitStep, BeginFlushStep, FlushReadsStep, FlushWritesStep, FlushEndsStep,
       DrainFlushesStep, ClosesStep DEF MirrorWork
  <2>3. spent' = spent /\ (isDisposed' <=> isDisposed)
    BY <2>1, WorkOnly
  <2> QED
    BY <2>1, <2>2, <2>3, WorkerIdle
<1>3. CASE Rebuilds
  <2>1. rebuild /\ UNCHANGED <<workerVars, root>>
    BY <1>3 DEF Rebuilds
  <2>2. spent'.edits = spent.edits /\ (isDisposed' <=> isDisposed)
    BY <1>0, <2>1, SpentOn DEF rebuild, isDisposed
  <2> QED
    BY <1>0, <2>1, <2>2, RebuildStep, WorkerIdle
<1>4. CASE Fails
  <2>1. (Throws \/ Hangs) /\ UNCHANGED <<workerVars, root>>
    BY <1>4 DEF Fails
  <2>2. spent'.edits = spent.edits /\ (isDisposed' <=> isDisposed)
    BY <1>0, <2>1, SpentOn DEF Throws, Hangs, Settle, isDisposed
  <2> QED
    BY <1>0, <2>1, <2>2, ThrowsStep, HangsStep, WorkerIdle
<1>5. CASE GivesUp
  <2>1. DrainTimesOut /\ UNCHANGED <<workerVars, root>>
    BY <1>5 DEF GivesUp
  <2> QED
    BY <1>0, <2>1, WorkOnly, DrainTimesOutStep, WorkerIdle
<1>6. CASE asyncDispose
  <2>1. /\ MirrorDisposes /\ root' = "closing"
        /\ ~stopped /\ stopped' = TRUE /\ hosted' = {} /\ draining' = hosted /\ owed' = hosted
        /\ closing' = closing
    BY <1>6 DEF asyncDispose, WorkerDisposes
  <2>2. MirrorInv'
    BY <1>0, <2>1, MirrorDisposesStep
  <2>3. isDisposed' /\ spent' = spent
    BY <2>1 DEF MirrorDisposes, isDisposed
  <2>4. WorkerType' /\ Bodies'
    BY <1>0, <2>1, <2>3 DEF WorkerType, Bodies
  <2> QED
    BY <2>2, <2>4 DEF MountInv
<1>7. CASE BodyCloses
  <2>1. PICK body \in closing \cup draining : BodyGone(body)
    BY <1>7 DEF BodyCloses
  <2>2. /\ closing' \subseteq closing /\ draining' \subseteq draining
        /\ UNCHANGED <<hosted, stopped, owed>>
    BY <2>1 DEF BodyGone
  <2>3. UNCHANGED <<mirrorVars, root>>
    BY <1>7 DEF BodyCloses
  <2>4. MirrorInv'
    BY <1>0, <2>3, MirrorUnchanged
  <2>5. WorkerType' /\ Bodies'
    BY <1>0, <2>2, <2>3 DEF WorkerType, Bodies, mirrorVars, isDisposed
  <2> QED
    BY <2>4, <2>5 DEF MountInv
<1>8. CASE RootCloses
  <2>1. root' = "gone" /\ UNCHANGED <<mirrorVars, workerVars>>
    BY <1>8 DEF RootCloses
  <2>2. MirrorInv'
    BY <1>0, <2>1, MirrorUnchanged
  <2>3. WorkerType' /\ Bodies'
    BY <1>0, <2>1 DEF WorkerType, Bodies, mirrorVars, workerVars, isDisposed
  <2> QED
    BY <2>2, <2>3 DEF MountInv
<1>9. CASE UNCHANGED vars
  <2>1. UNCHANGED <<mirrorVars, workerVars, root>>
    BY <1>9 DEF vars
  <2>2. MirrorInv'
    BY <1>0, <2>1, MirrorUnchanged
  <2> QED
    BY <2>1, <2>2, WorkerIdle DEF mirrorVars, isDisposed
<1> QED
  BY <1>1, <1>2, <1>3, <1>4, <1>5, <1>6, <1>7, <1>8, <1>9 DEF Next

-----------------------------------------------------------------------------

\* The invariant holds throughout.
LEMMA AlwaysMountInv == Spec => []MountInv
<1>1. Init => MountInv
  BY InitialMount
<1>2. MountInv /\ [Next]_vars => MountInv'
  BY EachStep
<1> QED
  BY <1>1, <1>2, PTL DEF Spec

\* The variables of the mirror and of the worker have their types.
THEOREM TypeCorrect == Spec => []TypeInv
<1>1. MountInv => TypeInv
  BY DEF MountInv, MirrorInv, TypeInv
<1> QED
  BY <1>1, AlwaysMountInv, PTL

\* Whenever the mirror has no work left it shows the table as it is, but for the
\* rows listed at RestingMirrorExact, those of a flush whose statement threw among
\* them: of the others, every edit since the scan of the load is pending, in the
\* work under way, or written.
THEOREM MirrorRestsExact == Spec => []RestingMirrorExact
<1>1. MountInv => RestingMirrorExact
  <2> SUFFICES ASSUME MountInv, load = "observing", ~isDisposed, queue = <<>>, pending = {},
                      NEW r \in Row \ excused
               PROVE  mirror[r] = table[r]
    BY DEF RestingMirrorExact
  <2>1. Coverage
    BY DEF MountInv, MirrorInv
  <2>2. Covered(r)
    BY <2>1 DEF Coverage, Loaded
  <2> QED
    BY <2>2 DEF Covered, Flushing, InTransaction
<1> QED
  BY <1>1, AlwaysMountInv, PTL

\* When a shutdown is over whose drain was not given up, the file shows the table
\* as it was, but for the rows listed at RestingMirrorExact: what a statement of
\* the drain's flush lost by throwing is lost.  And no body the shutdown found
\* connected is still closing; those already closing with their row may be.
THEOREM ShutdownDropsNothing == Spec => []DrainedAtShutdown
<1>1. MountInv => DrainedAtShutdown
  <2> SUFFICES ASSUME MountInv, Disposed PROVE
         /\ late \/ \A r \in Row \ excused : mirror[r] = table[r]
         /\ owed \cap (closing \cup draining) = {}
    BY DEF DrainedAtShutdown
  <2>1. drain = "closed" /\ stopped /\ draining = {}
    BY DEF Disposed, Closed, WorkerDrained
  <2>2. ASSUME ~late, NEW r \in Row \ excused PROVE mirror[r] = table[r]
    <3>1. Draining /\ Coverage
      BY <2>2 DEF MountInv, MirrorInv
    <3>2. queue = <<>> /\ pending = {} /\ gate /\ load \in {"observing", "failed"}
      BY <2>1, <2>2, <3>1 DEF Draining, isDisposed
    <3>3. Covered(r)
      BY <2>2, <3>1, <3>2 DEF Coverage, Loaded
    <3> QED
      BY <2>2, <3>2, <3>3 DEF Covered, Flushing, InTransaction
  <2>3. owed \cap closing = {}
    BY DEF MountInv, Bodies
  <2> QED
    BY <2>1, <2>2, <2>3
<1> QED
  BY <1>1, AlwaysMountInv, PTL

=============================================================================
