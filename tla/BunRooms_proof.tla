----------------------------- MODULE BunRooms_proof -----------------------------
(***************************************************************************)
(* Type correctness and the safety invariants of BunRooms, for any number  *)
(* of sockets and of entries.  What makes them inductive is that only the  *)
(* entry in the Map ever has its timer armed: an eviction therefore closes *)
(* the room it empties, never one that was created since.                  *)
(***************************************************************************)
EXTENDS BunRooms, TLAPS

TimersOfEntry == timers \subseteq {entry} \ {0}

IInv ==
    /\ TypeOK
    /\ TimersOfEntry
    /\ LiveSocketsServed
    /\ OneWriter
    /\ CoreHoldsFile

\* The invariant holds of an empty registry.
LEMMA InitIInv == Init => IInv
  BY RegistryAssumption
     DEF Init, IInv, TypeOK, TimersOfEntry, LiveSocketsServed, OneWriter, CoreHoldsFile

\* What getOrCreate leaves: a live entry, its core loaded and its timer off.
LEMMA GetOrCreate ==
  ASSUME IInv, NEW e \in Entry, getOrCreate(e), UNCHANGED file
  PROVE  /\ entry' = e /\ e # 0 /\ (entry # 0 => e = entry)
         /\ timers' = {}
         /\ entry' \in 0..created' /\ created' \in 0..MaxEntries
         /\ handles' = {e} /\ e \in 1..created'
         /\ held' \in [Entry -> SUBSET Socket]
         /\ held'[e] = file
  <1>1. e # 0
    BY DEF Entry
  <1>2. timers' = {} /\ entry' = e
    BY DEF IInv, TimersOfEntry, getOrCreate
  <1>3. CASE entry # 0
    BY <1>1, <1>2, <1>3, RegistryAssumption
       DEF IInv, TypeOK, OneWriter, CoreHoldsFile, getOrCreate, Entry
  <1>4. CASE entry = 0
    <2>1. created' = e /\ e = created + 1 /\ handles' = {e} /\ held' = [held EXCEPT ![e] = file]
      BY <1>4 DEF getOrCreate, IInv, OneWriter
    <2> QED
      BY <1>1, <1>2, <1>4, <2>1, RegistryAssumption DEF IInv, TypeOK, Entry
  <1> QED
    BY <1>3, <1>4

\* An upgrade disarms the timer of the entry, or makes one.
LEMMA UpgradeIInv ==
  ASSUME IInv, NEW s \in Socket, handleUpgrade(s)
  PROVE  IInv'
  <1>1. PICK e \in Entry : getOrCreate(e)
    BY DEF handleUpgrade
  <1>2. /\ socket' = [socket EXCEPT ![s] = "upgraded"]
        /\ answer' = 101 /\ UNCHANGED <<members, file>>
    BY DEF handleUpgrade
  <1>3. /\ entry' = e /\ e # 0 /\ (entry # 0 => e = entry) /\ timers' = {}
        /\ entry' \in 0..created' /\ created' \in 0..MaxEntries
        /\ handles' = {e} /\ e \in 1..created'
        /\ held' \in [Entry -> SUBSET Socket] /\ held'[e] = file
    BY <1>1, <1>2, GetOrCreate
  <1>4. TypeOK'
    BY <1>2, <1>3 DEF IInv, TypeOK
  <1>5. LiveSocketsServed'
    BY <1>2, <1>3 DEF IInv, TypeOK, LiveSocketsServed
  <1> QED
    BY <1>2, <1>3, <1>4, <1>5 DEF IInv, TimersOfEntry, OneWriter, CoreHoldsFile

\* A refused upgrade leaves the same room behind.
LEMMA RefuseIInv ==
  ASSUME IInv, RefuseUpgrade
  PROVE  IInv'
  <1>1. PICK e \in Entry : getOrCreate(e)
    BY DEF RefuseUpgrade
  <1>2. answer' = 426 /\ UNCHANGED <<members, file, socket>>
    BY DEF RefuseUpgrade
  <1>3. /\ entry' = e /\ e # 0 /\ (entry # 0 => e = entry) /\ timers' = {}
        /\ entry' \in 0..created' /\ created' \in 0..MaxEntries
        /\ handles' = {e} /\ e \in 1..created'
        /\ held' \in [Entry -> SUBSET Socket] /\ held'[e] = file
    BY <1>1, <1>2, GetOrCreate
  <1> QED
    BY <1>2, <1>3
       DEF IInv, TypeOK, TimersOfEntry, LiveSocketsServed, OneWriter, CoreHoldsFile

\* A socket that opens joins the entry of its upgrade.
LEMMA OpenIInv ==
  ASSUME IInv, NEW s \in Socket, open(s)
  PROVE  IInv'
  <1>1. PICK e \in Entry : getOrCreate(e) /\ members' = [members EXCEPT ![e] = @ \cup {s}]
    BY DEF open
  <1>2. socket' = [socket EXCEPT ![s] = "open"] /\ UNCHANGED <<file, answer>>
    BY DEF open
  <1>3. /\ entry' = e /\ e # 0 /\ (entry # 0 => e = entry) /\ timers' = {}
        /\ entry' \in 0..created' /\ created' \in 0..MaxEntries
        /\ handles' = {e} /\ e \in 1..created'
        /\ held' \in [Entry -> SUBSET Socket] /\ held'[e] = file
    BY <1>1, <1>2, GetOrCreate
  <1>4. TypeOK'
    <2>1. members' \in [Entry -> SUBSET Socket]
      BY <1>1 DEF IInv, TypeOK
    <2>2. socket' \in [Socket -> {"new", "upgraded", "open", "closing", "closed"}]
      BY <1>2 DEF IInv, TypeOK
    <2> QED
      BY <1>2, <1>3, <2>1, <2>2 DEF IInv, TypeOK
  <1>5. LiveSocketsServed'
    BY <1>1, <1>2, <1>3 DEF IInv, TypeOK, LiveSocketsServed
  <1> QED
    BY <1>2, <1>3, <1>4, <1>5 DEF IInv, TimersOfEntry, OneWriter, CoreHoldsFile

\* The entry in the Map is one of the entries the constants allow for.
LEMMA EntryBounds ==
  ASSUME TypeOK, entry # 0
  PROVE  entry \in Entry
  BY RegistryAssumption DEF TypeOK, Entry

\* An update reaches core and file in one step.
LEMMA MessageIInv ==
  ASSUME IInv, NEW s \in Socket, message(s)
  PROVE  IInv'
  <1>1. entry \in Entry
    BY EntryBounds DEF IInv, message
  <1> QED
    BY <1>1 DEF IInv, message, TypeOK, TimersOfEntry, LiveSocketsServed, OneWriter, CoreHoldsFile

\* An eviction closes the one open handle, of a core without members.
LEMMA ExpireIInv ==
  ASSUME IInv, NEW sockets \in SUBSET Socket, Expire(sockets)
  PROVE  IInv'
  BY DEF IInv, Expire, TypeOK, TimersOfEntry, LiveSocketsServed, OneWriter, CoreHoldsFile

\* The last close arms the timer of the entry in the Map.
LEMMA CloseIInv ==
  ASSUME IInv, NEW s \in Socket, close(s)
  PROVE  IInv'
  <1>1. entry \in Entry /\ entry # 0
    BY EntryBounds DEF IInv, LiveSocketsServed, close
  <1>2. /\ socket' = [socket EXCEPT ![s] = "closed"]
        /\ members' = [members EXCEPT ![entry] = @ \ {s}]
        /\ timers' \in {timers, timers \cup {entry}}
        /\ UNCHANGED <<entry, created, handles, held, file, answer>>
    BY <1>1 DEF close
  <1>3. TypeOK'
    BY <1>1, <1>2 DEF IInv, TypeOK, Entry
  <1>4. LiveSocketsServed'
    BY <1>1, <1>2 DEF IInv, TypeOK, LiveSocketsServed
  <1> QED
    BY <1>1, <1>2, <1>3, <1>4 DEF IInv, TimersOfEntry, OneWriter, CoreHoldsFile

\* An armed timer is the current entry's, so evicting an empty one leaves no
\* socket behind.
LEMMA EvictIInv ==
  ASSUME IInv, NEW e \in Entry, Evict(e)
  PROVE  IInv'
  <1>1. e = entry /\ e # 0
    BY DEF IInv, TimersOfEntry, Evict
  <1>2. CASE members[e] # {}
    BY <1>1, <1>2
       DEF IInv, Evict, TypeOK, TimersOfEntry, LiveSocketsServed, OneWriter, CoreHoldsFile
  <1>3. CASE members[e] = {}
    <2>1. \A s \in Socket : socket[s] \notin {"open", "closing"}
      BY <1>1, <1>3 DEF IInv, LiveSocketsServed
    <2> QED
      BY <1>1, <1>3, <2>1
         DEF IInv, Evict, TypeOK, TimersOfEntry, LiveSocketsServed, OneWriter, CoreHoldsFile
  <1> QED
    BY <1>2, <1>3

\* A new process starts with an empty registry over the same file.
LEMMA RestartIInv ==
  ASSUME IInv, Restart
  PROVE  IInv'
  BY RegistryAssumption
     DEF IInv, Restart, TypeOK, TimersOfEntry, LiveSocketsServed, OneWriter, CoreHoldsFile

\* Every action of the registry preserves the invariant.
LEMMA NextIInv == IInv /\ [Next]_vars => IInv'
  <1> SUFFICES ASSUME IInv, [Next]_vars PROVE IInv'
    OBVIOUS
  <1>1. CASE \E s \in Socket : handleUpgrade(s)
    BY <1>1, UpgradeIInv
  <1>2. CASE \E s \in Socket : open(s)
    BY <1>2, OpenIInv
  <1>3. CASE \E s \in Socket : message(s)
    BY <1>3, MessageIInv
  <1>4. CASE \E s \in Socket : close(s)
    BY <1>4, CloseIInv
  <1>5. CASE RefuseUpgrade
    BY <1>5, RefuseIInv
  <1>6. CASE \E sockets \in SUBSET Socket : Expire(sockets)
    BY <1>6, ExpireIInv
  <1>7. CASE \E e \in Entry : Evict(e)
    BY <1>7, EvictIInv
  <1>8. CASE Restart
    BY <1>8, RestartIInv
  <1>9. CASE UNCHANGED vars
    BY <1>9 DEF vars, IInv, TypeOK, TimersOfEntry, LiveSocketsServed, OneWriter, CoreHoldsFile
  <1> QED
    BY <1>1, <1>2, <1>3, <1>4, <1>5, <1>6, <1>7, <1>8, <1>9 DEF Next

\* The invariant holds in every reachable state.
LEMMA AlwaysIInv == Spec => []IInv
  BY InitIInv, NextIInv, PTL DEF Spec

\* Every variable of the registry has its type.
THEOREM TypeCorrect == Spec => []TypeOK
  <1>1. IInv => TypeOK
    BY DEF IInv
  <1> QED
    BY <1>1, AlwaysIInv, PTL

\* Whatever evictions, re-creations and crashes come between a socket's upgrade
\* and its frames, a live socket is in the core of the entry in the Map.
THEOREM LiveSocketsAlwaysServed == Spec => []LiveSocketsServed
  <1>1. IInv => LiveSocketsServed
    BY DEF IInv
  <1> QED
    BY <1>1, AlwaysIInv, PTL

\* The only open handle to the room's file is that of the entry in the Map.
THEOREM OneWriterPerFile == Spec => []OneWriter
  <1>1. IInv => OneWriter
    BY DEF IInv
  <1> QED
    BY <1>1, AlwaysIInv, PTL

\* What the live core holds is what the file holds.
THEOREM CoreAlwaysHoldsFile == Spec => []CoreHoldsFile
  <1>1. IInv => CoreHoldsFile
    BY DEF IInv
  <1> QED
    BY <1>1, AlwaysIInv, PTL
=============================================================================
