------------------------- MODULE YKeyValueLww_proof -------------------------
(***************************************************************************)
(* Between transactions the index of a replica is its array, the newest    *)
(* write is never lost, and a read inside a transaction sees what is left  *)
(* of it, for any replicas, writes and timestamps.                         *)
(***************************************************************************)
EXTENDS YKeyValueLww, WellFoundedInduction, TLAPS

-----------------------------------------------------------------------------
(* The invariant                                                           *)

InOrder    == {order[i] : i \in DOMAIN order}
Indexed(r) == {map[r]} \ {NoEntry}

TypeInv ==
    /\ order \in Seq(Entry)
    /\ seen \in [Replica -> SUBSET Entry] /\ gone \in [Replica -> SUBSET Entry]
    /\ fresh \in [Replica -> SUBSET Entry] /\ dropped \in [Replica -> SUBSET Entry]
    /\ map \in [Replica -> Entry \cup {NoEntry}] /\ write \in [Replica -> Entry \cup {NoEntry}]
    /\ attached \in [Replica -> BOOLEAN] /\ hides \in [Replica -> BOOLEAN]
    /\ last \in [Replica -> Nat]
    /\ erased \subseteq Entry

\* An entry has one place in the array, and a new one is none of those.
Placed ==
    /\ \A i, j \in DOMAIN order : order[i] = order[j] => i = j
    /\ \A i \in DOMAIN order : order[i].n <= Len(order)

\* A replica deletes what it knows.
Array(r) == seen[r] \subseteq InOrder /\ gone[r] \subseteq seen[r]

\* What a replica deleted, a user erased, or a later entry that the replica
\* knows has replaced it.
Accounted(r) ==
    \A e \in gone[r] : e \in erased \/ \E f \in seen[r] : Beats(f, e)

\* A document without a wrapper has nothing in its index.
Detached(r) ==
    ~attached[r] => ~InTx(r) /\ map[r] = NoEntry /\ write[r] = NoEntry /\ ~hides[r]

\* The open transaction changes the array on top of what the index has seen of
\* it, and adds entries to the right of the indexed one.
Differs(r) ==
    /\ attached[r] => Live(r) = (Indexed(r) \ dropped[r]) \cup fresh[r]
    /\ dropped[r] \subseteq Indexed(r) /\ Indexed(r) \subseteq seen[r]
    /\ \A e \in Indexed(r), f \in fresh[r] : Position(e) < Position(f)
    /\ attached[r] => \A e \in Live(r) : e.ts <= last[r]

\* The overlays tell what the open transaction does: a pending write is the
\* newest of what it added, and without one a user erased all of that.
Overlaid(r) ==
    /\ write[r] = NoEntry \/ write[r] \in fresh[r]
    /\ write[r] # NoEntry => \A e \in Live(r) \ {write[r]} : e.ts < write[r].ts
    /\ write[r] = NoEntry => fresh[r] \subseteq erased
    /\ hides[r] => write[r] = NoEntry /\ Indexed(r) \subseteq dropped[r]
    /\ InTx(r) => hides[r] \/ write[r] # NoEntry

Sound(r) == Array(r) /\ Accounted(r) /\ Detached(r) /\ Differs(r) /\ Overlaid(r)

KvInv == TypeInv /\ Placed /\ \A r \in Replica : Sound(r)

-----------------------------------------------------------------------------
(* Numbers, timestamps and places                                          *)

\* A set of numbers has a least one.
LEMMA LeastNat ==
    ASSUME NEW T \in SUBSET Nat, T # {}
    PROVE  \E x \in T : \A y \in T : x <= y
<1>1. PICK x \in T : \A y \in T : <<y, x>> \notin OpToRel(<, Nat)
  BY NatLessThanWellFounded, WFMin, Zenon
<1>2. \A y \in T : ~(y < x)
  BY <1>1 DEF OpToRel
<1> QED
  BY <1>2

\* A bounded one has a greatest.
LEMMA GreatestNat ==
    ASSUME NEW T \in SUBSET Nat, T # {}, NEW N \in Nat, \A x \in T : x <= N
    PROVE  \E x \in T : \A y \in T : y <= x
<1> DEFINE Below == {k \in Nat : N - k \in T}
<1>1. \A x \in T : N - x \in Below
  <2> SUFFICES ASSUME NEW x \in T PROVE N - x \in Nat /\ N - (N - x) = x
    OBVIOUS
  <2> QED
    OBVIOUS
<1>2. PICK k \in Below : \A j \in Below : k <= j
  <2>1. Below \in SUBSET Nat /\ Below # {}
    BY <1>1
  <2> HIDE DEF Below
  <2> QED
    BY <2>1, LeastNat
<1>3. \A y \in T : y <= N - k
  <2> SUFFICES ASSUME NEW y \in T PROVE y <= N - k
    OBVIOUS
  <2>1. k <= N - y
    BY <1>1, <1>2
  <2> QED
    BY <1>2, <2>1
<1> QED
  BY <1>2, <1>3

\* The places of the array are numbered from 1.
LEMMA Places ==
    ASSUME TypeInv
    PROVE  /\ Len(order) \in Nat /\ DOMAIN order = 1 .. Len(order)
           /\ \A i \in DOMAIN order : i \in Nat /\ order[i] \in Entry
<1>1. order \in Seq(Entry)
  BY DEF TypeInv
<1> QED
  BY <1>1

\* Every entry of the array is at its position.
LEMMA PositionIs ==
    ASSUME TypeInv, Placed, NEW e \in InOrder
    PROVE  /\ Position(e) \in DOMAIN order /\ order[Position(e)] = e /\ Position(e) \in Nat
           /\ \A i \in DOMAIN order : order[i] = e => i = Position(e)
           /\ Position(e) <= Len(order) /\ e \in Entry /\ e.ts \in 1..MaxTs /\ e.ts \in Nat
<1>1. \E i \in DOMAIN order : order[i] = e
  BY DEF InOrder
<1>2. Position(e) \in DOMAIN order /\ order[Position(e)] = e
  BY <1>1 DEF Position
<1>3. e \in Entry
  BY <1>2, Places
<1> QED
  BY <1>2, <1>3, Places DEF Placed, Entry

\* Of two entries of the array one beats the other, and a chain of entries does not close.
LEMMA BeatsOrders ==
    ASSUME TypeInv, Placed, NEW e \in InOrder, NEW f \in InOrder, NEW g \in InOrder
    PROVE  /\ e # f => Beats(e, f) \/ Beats(f, e)
           /\ ~(Beats(e, f) /\ Beats(f, e))
           /\ e.ts < f.ts => Beats(f, e) /\ ~Beats(e, f)
<1>1. /\ Position(e) \in Nat /\ Position(f) \in Nat /\ e.ts \in Nat /\ f.ts \in Nat
      /\ order[Position(e)] = e /\ order[Position(f)] = f
  BY PositionIs
<1>2. e # f => Position(e) # Position(f)
  BY <1>1
<1> QED
  BY <1>1, <1>2 DEF Beats

\* lastTimestamp covers what it has been shown (Math.max).
LEMMA LatestIs ==
    ASSUME NEW t \in Nat, NEW S \in SUBSET Entry
    PROVE  Latest(t, S) \in Nat /\ t <= Latest(t, S) /\ \A e \in S : e.ts <= Latest(t, S)
<1>1. \A e \in S : e.ts \in Nat /\ e.ts <= MaxTs
  BY KvAssumption DEF Entry
<1>2. CASE \E e \in S : e.ts > t
  <2> DEFINE T == {e.ts : e \in S}
  <2>1. T \in SUBSET Nat /\ T # {} /\ MaxTs \in Nat /\ \A x \in T : x <= MaxTs
    BY <1>1, <1>2, KvAssumption
  <2>2. \E x \in T : \A y \in T : y <= x
    <3> HIDE DEF T
    <3> QED
      BY <2>1, GreatestNat
  <2>3. \E e \in S : \A f \in S : e.ts >= f.ts
    BY <1>1, <2>2
  <2>4. PICK e : e = CHOOSE x \in S : \A f \in S : x.ts >= f.ts
    OBVIOUS
  <2>5. e \in S /\ \A f \in S : e.ts >= f.ts
    BY <2>3, <2>4
  <2>6. Latest(t, S) = e.ts
    BY <1>2, <2>4 DEF Latest
  <2> QED
    BY <1>1, <1>2, <2>5, <2>6
<1>3. CASE ~\E e \in S : e.ts > t
  BY <1>1, <1>3 DEF Latest
<1> QED
  BY <1>2, <1>3

\* The constructor keeps an entry that beats all others.
LEMMA WinnerIs ==
    ASSUME TypeInv, Placed, NEW S \in SUBSET InOrder, S # {}
    PROVE  Winner(S) \in S /\ \A f \in S \ {Winner(S)} : Beats(Winner(S), f)
<1> DEFINE latest == {e \in S : \A f \in S : e.ts >= f.ts}
<1>1. \A e \in S : /\ e.ts \in Nat /\ e.ts <= MaxTs /\ Position(e) \in Nat
                   /\ Position(e) <= Len(order) /\ order[Position(e)] = e
  BY PositionIs
<1>2. latest # {}
  <2> DEFINE T == {e.ts : e \in S}
  <2>1. T \in SUBSET Nat /\ T # {} /\ MaxTs \in Nat /\ \A x \in T : x <= MaxTs
    BY <1>1, KvAssumption
  <2>2. \E x \in T : \A y \in T : y <= x
    <3> HIDE DEF T
    <3> QED
      BY <2>1, GreatestNat
  <2> QED
    BY <1>1, <2>2
<1>3. \E e \in latest : \A f \in latest : Position(e) >= Position(f)
  <2> DEFINE T == {Position(e) : e \in latest}
  <2>1. T \in SUBSET Nat /\ T # {} /\ Len(order) \in Nat /\ \A x \in T : x <= Len(order)
    BY <1>1, <1>2, Places
  <2>2. \E x \in T : \A y \in T : y <= x
    <3> HIDE DEF T
    <3> QED
      BY <2>1, GreatestNat
  <2>3. \A e \in latest : Position(e) \in Nat
    BY <1>1
  <2> HIDE DEF latest
  <2> QED
    BY <2>2, <2>3
<1>4. PICK w : w = Winner(S)
  OBVIOUS
<1>5. w \in latest /\ \A f \in latest : Position(w) >= Position(f)
  BY <1>3, <1>4 DEF Winner
<1>6. \A f \in S \ {w} : Beats(w, f)
  <2> SUFFICES ASSUME NEW f \in S, f # w PROVE Beats(w, f)
    OBVIOUS
  <2>1. Position(f) # Position(w) /\ w.ts >= f.ts
    BY <1>1, <1>5
  <2>2. w.ts = f.ts => f \in latest
    BY <1>5
  <2> QED
    BY <1>1, <1>5, <2>1, <2>2 DEF Beats
<1> QED
  BY <1>4, <1>5, <1>6

-----------------------------------------------------------------------------
(* A push                                                                  *)

\* t is s with e put in at p.
Spliced(t, s, p, e) ==
    /\ t \in Seq(Entry) /\ Len(t) = Len(s) + 1
    /\ \A i \in 1 .. Len(s) + 1 : t[i] = IF i < p THEN s[i]
                                        ELSE IF i = p THEN e ELSE s[i - 1]

\* z is x followed by y.
Joined(z, x, y) ==
    /\ z \in Seq(Entry) /\ Len(z) = Len(x) + Len(y)
    /\ \A i \in 1 .. Len(x) + Len(y) : z[i] = IF i <= Len(x) THEN x[i] ELSE y[i - Len(x)]

\* What a concatenation is.
LEMMA Concatenated ==
    ASSUME NEW x \in Seq(Entry), NEW y \in Seq(Entry), NEW z, z = x \o y
    PROVE  Joined(z, x, y)
BY DEF Joined

\* What InsertAt makes of a sequence.
LEMMA Inserted ==
    ASSUME NEW s \in Seq(Entry), NEW e \in Entry, NEW p \in 1 .. Len(s) + 1,
           NEW t, t = InsertAt(s, p, e)
    PROVE  Spliced(t, s, p, e)
<1> DEFINE a == SubSeq(s, 1, p - 1)
           b == SubSeq(s, p, Len(s))
<1>1. p \in Nat /\ Len(s) \in Nat /\ p >= 1 /\ p <= Len(s) + 1
  OBVIOUS
<1>2. a \in Seq(Entry) /\ Len(a) = p - 1 /\ \A i \in 1 .. p - 1 : a[i] = s[i]
  BY <1>1
<1>3. /\ b \in Seq(Entry) /\ Len(b) = Len(s) + 1 - p
      /\ \A i \in 1 .. Len(s) + 1 - p : b[i] = s[p + i - 1]
  BY <1>1
<1> HIDE DEF a, b
<1> DEFINE c == a \o <<e>>
<1>4. /\ c \in Seq(Entry) /\ Len(c) = p
      /\ \A i \in 1 .. p : c[i] = IF i < p THEN a[i] ELSE e
  BY <1>1, <1>2
<1> HIDE DEF c
<1> DEFINE d == c \o b
<1>5. /\ d \in Seq(Entry) /\ Len(d) = Len(s) + 1
      /\ \A i \in 1 .. Len(s) + 1 : d[i] = IF i <= p THEN c[i] ELSE b[i - p]
  <2>1. Joined(d, c, b)
    BY <1>3, <1>4, Concatenated
  <2>2. Len(c) + Len(b) = Len(s) + 1
    BY ONLY <1>1, <1>3, <1>4
  <2> QED
    BY ONLY <1>4, <2>1, <2>2 DEF Joined
<1>6. t = d
  BY DEF InsertAt, a, b, c, d
<1> HIDE DEF d
<1>7. ASSUME NEW i \in 1 .. Len(s) + 1
      PROVE  d[i] = IF i < p THEN s[i] ELSE IF i = p THEN e ELSE s[i - 1]
  <2>1. CASE i < p
    BY <1>1, <1>2, <1>4, <1>5, <2>1
  <2>2. CASE i = p
    BY <1>1, <1>4, <1>5, <2>2
  <2>3. CASE i > p
    <3>1. PICK k : k = i - p
      OBVIOUS
    <3>2. k \in 1 .. Len(s) + 1 - p /\ p + k - 1 = i - 1 /\ ~(i <= p) /\ ~(i < p) /\ i # p
      BY <1>1, <2>3, <3>1
    <3>3. b[k] = s[i - 1]
      BY <1>3, <3>2
    <3>4. d[i] = b[k]
      BY <1>5, <3>1, <3>2
    <3> QED
      BY <3>2, <3>3, <3>4
  <2> QED
    BY <1>1, <2>1, <2>2, <2>3
<1> QED
  BY <1>5, <1>6, <1>7 DEF Spliced

\* A push shifts what is right of it: entries keep their order, and the new one
\* is right of everything left of its place.
LEMMA PushPlaces ==
    ASSUME TypeInv, Placed, NEW e \in Entry, e.n = Len(order) + 1,
           NEW p \in 1 .. Len(order) + 1, order' = InsertAt(order, p, e)
    PROVE  /\ order' \in Seq(Entry) /\ Placed'
           /\ InOrder' = InOrder \cup {e} /\ e \notin InOrder
           /\ \A f, g \in InOrder : /\ Position(f)' < Position(g)' <=> Position(f) < Position(g)
                                    /\ Beats(f, g)' <=> Beats(f, g)
           /\ \A f \in InOrder : (\A i \in p .. Len(order) : order[i] # f)
                                   => Position(f)' < Position(e)'
<1> DEFINE n == Len(order)
<1>1. order \in Seq(Entry) /\ n \in Nat /\ DOMAIN order = 1 .. n /\ p \in Nat /\ p <= n + 1
  BY Places DEF TypeInv
<1>2. /\ order' \in Seq(Entry) /\ Len(order') = n + 1 /\ DOMAIN order' = 1 .. n + 1
      /\ \A i \in 1 .. n + 1 : order'[i] = IF i < p THEN order[i]
                                           ELSE IF i = p THEN e ELSE order[i - 1]
  <2>1. PICK t : t = InsertAt(order, p, e)
    OBVIOUS
  <2>2. PICK s : s = order
    OBVIOUS
  <2>3. s \in Seq(Entry) /\ e \in Entry /\ p \in 1 .. Len(s) + 1 /\ t = InsertAt(s, p, e)
    BY <1>1, <2>1, <2>2
  <2>4. Spliced(t, s, p, e)
    BY ONLY <2>3, Inserted
  <2>5. order' = t
    BY <2>1
  <2>6. Len(t) = n + 1 /\ DOMAIN t = 1 .. n + 1 /\ Len(s) = n
    BY <1>1, <2>2, <2>4 DEF Spliced
  <2> QED
    BY ONLY <2>2, <2>4, <2>5, <2>6 DEF Spliced
<1>3. e \notin InOrder
  <2>1. \A i \in DOMAIN order : order[i].n <= n /\ order[i].n \in Nat
    BY Places DEF Placed, Entry
  <2> QED
    BY <1>1, <2>1 DEF InOrder
<1> HIDE DEF n
<1> DEFINE To(i) == IF i < p THEN i ELSE i + 1
<1>4. \A i \in 1 .. n : To(i) \in 1 .. n + 1 /\ To(i) # p /\ order'[To(i)] = order[i]
  BY <1>1, <1>2
<1>5. \A j \in 1 .. n + 1 : j = p \/ \E i \in 1 .. n : j = To(i)
  <2> SUFFICES ASSUME NEW j \in 1 .. n + 1, j # p PROVE \E i \in 1 .. n : j = To(i)
    OBVIOUS
  <2>1. CASE j < p
    BY <1>1, <2>1
  <2>2. CASE j > p
    <3>1. j - 1 \in 1 .. n /\ To(j - 1) = j
      BY <1>1, <2>2
    <3> QED
      BY <3>1
  <2> QED
    BY <1>1, <2>1, <2>2
<1>6. \A i, j \in 1 .. n : To(i) < To(j) <=> i < j
  BY <1>1
<1>7. order'[p] = e /\ p \in 1 .. n + 1
  BY <1>1, <1>2
<1> HIDE DEF To
<1>8. InOrder' = InOrder \cup {e}
  <2>1. ASSUME NEW i \in DOMAIN order' PROVE order'[i] \in InOrder \cup {e}
    <3>1. CASE i = p
      BY <1>7, <3>1
    <3>2. CASE i # p
      <4>1. PICK k \in 1 .. n : i = To(k)
        BY <1>2, <1>5, <2>1, <3>2
      <4> QED
        BY <1>1, <1>4, <4>1 DEF InOrder
    <3> QED
      BY <3>1, <3>2
  <2>2. ASSUME NEW i \in DOMAIN order PROVE \E j \in DOMAIN order' : order'[j] = order[i]
    BY <1>1, <1>2, <1>4, <2>2
  <2>3. \E j \in DOMAIN order' : order'[j] = e
    BY <1>2, <1>7
  <2> QED
    BY <2>1, <2>2, <2>3 DEF InOrder
<1>9. Placed'
  <2>1. ASSUME NEW i \in DOMAIN order', NEW j \in DOMAIN order', order'[i] = order'[j]
        PROVE  i = j
    <3>1. ASSUME NEW k \in 1 .. n PROVE order'[To(k)] # e
      BY <1>1, <1>3, <1>4 DEF InOrder
    <3>2. CASE i = p \/ j = p
      BY <1>2, <1>5, <1>7, <2>1, <3>1, <3>2
    <3>3. CASE i # p /\ j # p
      <4>1. PICK k \in 1 .. n, m \in 1 .. n : i = To(k) /\ j = To(m)
        BY <1>2, <1>5, <3>3
      <4>2. order[k] = order[m]
        BY <1>4, <2>1, <4>1
      <4> QED
        BY <1>1, <4>1, <4>2 DEF Placed
    <3> QED
      BY <3>2, <3>3
  <2>2. ASSUME NEW i \in DOMAIN order' PROVE order'[i].n <= Len(order')
    <3>1. CASE i = p
      BY <1>1, <1>2, <1>7, <3>1 DEF n
    <3>2. CASE i # p
      <4>1. PICK k \in 1 .. n : i = To(k)
        BY <1>2, <1>5, <3>2
      <4>2. order[k].n <= n /\ order[k].n \in Nat
        <5>1. k \in DOMAIN order
          BY <1>1
        <5>2. order[k].n <= n
          BY <5>1 DEF Placed, n
        <5>3. order[k] \in Entry
          BY <5>1, Places
        <5> QED
          BY <5>2, <5>3 DEF Entry
      <4> QED
        BY <1>1, <1>2, <1>4, <4>1, <4>2
    <3> QED
      BY <3>1, <3>2
  <2> QED
    BY <2>1, <2>2 DEF Placed
<1>10. ASSUME NEW f \in InOrder'
       PROVE  \A i \in DOMAIN order' : order'[i] = f => Position(f)' = i
  <2>1. \E i \in DOMAIN order' : order'[i] = f
    BY DEF InOrder
  <2>2. Position(f)' \in DOMAIN order' /\ order'[Position(f)'] = f
    BY <2>1 DEF Position
  <2> QED
    BY <1>9, <2>2 DEF Placed
<1>11. Position(e)' = p
  BY <1>2, <1>7, <1>8, <1>10
<1>12. ASSUME NEW f \in InOrder
       PROVE  Position(f)' = To(Position(f)) /\ Position(f) \in 1 .. n /\ order[Position(f)] = f
  BY <1>1, <1>2, <1>4, <1>8, <1>10, PositionIs
<1>13. ASSUME NEW f \in InOrder, NEW g \in InOrder
       PROVE  Position(f)' < Position(g)' <=> Position(f) < Position(g)
  BY <1>6, <1>12
<1>14. ASSUME NEW f \in InOrder, NEW g \in InOrder
       PROVE  Beats(f, g)' <=> Beats(f, g)
  <2>1. PICK a, b, c, d : a = Position(f) /\ b = Position(g) /\ c = Position(f)' /\ d = Position(g)'
    OBVIOUS
  <2>2. d < c <=> b < a
    BY <1>13, <2>1
  <2>3. a \in Nat /\ b \in Nat /\ c \in Nat /\ d \in Nat
    BY <1>1, <1>4, <1>12, <2>1
  <2> QED
    BY <2>1, <2>2, <2>3 DEF Beats
<1>15. ASSUME NEW f \in InOrder, \A i \in p .. Len(order) : order[i] # f
       PROVE  Position(f)' < Position(e)'
  BY <1>1, <1>11, <1>12, <1>15 DEF n, To
<1> QED
  BY <1>2, <1>3, <1>8, <1>9, <1>13, <1>14, <1>15

-----------------------------------------------------------------------------
(* The loop of the observer                                                *)

\* The loop has a state after every place, whatever the number of places.
LEMMA LoopRuns ==
    ASSUME TypeInv, NEW start, NEW added, NEW skip
    PROVE  \E after : /\ after[0] = start
                      /\ \A i \in 1 .. Len(order) :
                            after[i] = IF order[i] \in added
                                       THEN Absorb(after[i - 1], order[i], skip)
                                       ELSE after[i - 1]
                      /\ Absorbed(start, added, skip) = after[Len(order)]
<1> DEFINE n == Len(order)
           Next1(st, i) == IF order[i] \in added THEN Absorb(st, order[i], skip) ELSE st
           Runs(f, m) == f = [i \in 0 .. m |-> IF i = 0 THEN start ELSE Next1(f[i - 1], i)]
           Short == {m \in Nat : m <= n /\ ~\E f : Runs(f, m)}
<1>1. n \in Nat
  BY Places
<1>2. Absorbed(start, added, skip) = (CHOOSE f : Runs(f, n))[n]
  BY DEF Absorbed
<1> HIDE DEF n, Next1
<1>3. Runs([i \in 0 .. 0 |-> start], 0)
  OBVIOUS
<1>4. ASSUME NEW m \in Nat, NEW f, Runs(f, m)
      PROVE  \E g : Runs(g, m + 1)
  <2> DEFINE g == [i \in 0 .. m + 1 |-> IF i = m + 1 THEN Next1(f[m], m + 1) ELSE f[i]]
  <2>1. ASSUME NEW i \in 0 .. m + 1
        PROVE  g[i] = IF i = 0 THEN start ELSE Next1(g[i - 1], i)
    <3>1. CASE i = 0
      <4>1. g[i] = f[0] /\ f[0] = start
        BY <1>4, <3>1
      <4> QED
        BY <3>1, <4>1
    <3>2. CASE i \in 1 .. m
      <4>1. g[i] = f[i] /\ g[i - 1] = f[i - 1] /\ i # 0
        BY <3>2
      <4>2. f[i] = Next1(f[i - 1], i)
        BY <1>4, <3>2
      <4> QED
        BY <4>1, <4>2
    <3>3. CASE i = m + 1
      <4>1. g[i] = Next1(f[m], m + 1) /\ g[m] = f[m] /\ i - 1 = m /\ i # 0
        BY <3>3
      <4> QED
        BY <3>3, <4>1
    <3> QED
      BY <3>1, <3>2, <3>3
  <2>2. g = [i \in 0 .. m + 1 |-> g[i]]
    OBVIOUS
  <2> HIDE DEF g
  <2>3. Runs(g, m + 1)
    BY <2>1, <2>2
  <2> QED
    BY <2>3
<1> HIDE DEF Runs
<1>5. Short = {}
  <2> SUFFICES ASSUME Short # {} PROVE FALSE
    OBVIOUS
  <2>1. Short \in SUBSET Nat
    OBVIOUS
  <2>2. PICK m \in Short : \A k \in Short : m <= k
    <3> HIDE DEF Short
    <3> QED
      BY <2>1, LeastNat
  <2>3. m # 0
    BY <1>3, <2>2
  <2>4. m - 1 \in Nat /\ m - 1 \notin Short /\ m - 1 <= n /\ (m - 1) + 1 = m
    BY <1>1, <2>2, <2>3
  <2>5. PICK f : Runs(f, m - 1)
    BY <2>4
  <2>6. \E g : Runs(g, (m - 1) + 1)
    BY <1>4, <2>4, <2>5
  <2> QED
    BY <2>2, <2>4, <2>6
<1>6. \E f : Runs(f, n)
  BY <1>1, <1>5
<1>7. PICK after : after = CHOOSE f : Runs(f, n)
  OBVIOUS
<1>8. Runs(after, n)
  BY <1>6, <1>7
<1>9. /\ after[0] = start /\ \A i \in 1 .. n : after[i] = Next1(after[i - 1], i)
  BY <1>1, <1>8 DEF Runs
<1>10. Absorbed(start, added, skip) = after[n]
  BY <1>2, <1>7
<1> QED
  BY <1>9, <1>10 DEF n, Next1

\* What the loop has done once it has met the added entries `met`: m is what it
\* found in the index and w the pending write.  The entry in the index is what
\* is left of all it compared; what lost was beaten, or erased by the user.
Meets(st, m, w, skip, met) ==
    LET all == ({m} \ {NoEntry}) \cup met IN
    /\ st.map \in Entry \cup {NoEntry} /\ st.hides \in BOOLEAN
    /\ {st.map} \ {NoEntry} = all \ st.losers
    /\ st.losers \subseteq all
    /\ st.hides => st.map = NoEntry
    /\ st.write = IF w \in met THEN NoEntry ELSE w
    /\ w \in met => st.map = w
    /\ skip /\ w = NoEntry /\ m = NoEntry => st.map = NoEntry

\* Every loser was beaten by an entry in hand, or erased by the user.
Beaten(losers, all, w, skip) ==
    \A e \in losers : (skip /\ w = NoEntry) \/ \E f \in all : Beats(f, e)

\* One more entry is absorbed.
LEMMA AbsorbMeets ==
    ASSUME TypeInv, Placed, NEW all \in SUBSET InOrder, NEW m, NEW w, NEW skip \in BOOLEAN,
           NEW met, NEW e, NEW st, m = NoEntry \/ m \in all, met \subseteq all,
           e \in all, e \notin met, e # m, w # m \/ w = NoEntry,
           w = NoEntry \/ (w \in all /\ \A f \in all \ {w} : f.ts < w.ts),
           Meets(st, m, w, skip, met), Beaten(st.losers, all, w, skip)
    PROVE  LET next == Absorb(st, e, skip) IN
           /\ Meets(next, m, w, skip, met \cup {e})
           /\ Beaten(next.losers, all, w, skip)
<1>1. InOrder \subseteq Entry /\ NoEntry \notin Entry
  BY KvAssumption, PositionIs
<1>2. /\ st.map \in Entry \cup {NoEntry} /\ st.hides \in BOOLEAN
      /\ {st.map} \ {NoEntry} = (({m} \ {NoEntry}) \cup met) \ st.losers
      /\ st.losers \subseteq ({m} \ {NoEntry}) \cup met
      /\ st.hides => st.map = NoEntry
      /\ st.write = IF w \in met THEN NoEntry ELSE w
      /\ w \in met => st.map = w
      /\ skip /\ w = NoEntry /\ m = NoEntry => st.map = NoEntry
  BY DEF Meets
<1>3. e \in Entry /\ e # NoEntry /\ e \in InOrder /\ NoEntry \notin met
  BY <1>1
<1>4. st.map # NoEntry => st.map \in all /\ st.map \in InOrder /\ st.map # e
  BY <1>2
<1>5. PICK next : next = Absorb(st, e, skip)
  OBVIOUS
<1>6. next.write = IF w \in met \cup {e} THEN NoEntry ELSE w
  BY <1>2, <1>3, <1>5 DEF Absorb
<1>7. CASE st.map = NoEntry /\ Enters(st, e, skip)
  <2>1. /\ next.map = e /\ ~next.hides /\ next.hides \in BOOLEAN /\ next.losers = st.losers
    BY <1>5, <1>7 DEF Absorb, Losers
  <2>2. {next.map} \ {NoEntry} = (({m} \ {NoEntry}) \cup (met \cup {e})) \ next.losers
    BY <1>2, <1>3, <1>7, <2>1
  <2>3. w \in met \cup {e} => next.map = w
    BY <1>2, <1>3, <1>7, <2>1
  <2>4. ~(skip /\ w = NoEntry /\ m = NoEntry)
    BY <1>2, <1>3, <1>7 DEF Enters
  <2>5. Meets(next, m, w, skip, met \cup {e})
    BY <1>2, <1>3, <1>6, <2>1, <2>2, <2>3, <2>4 DEF Meets
  <2> QED
    BY <1>5, <2>1, <2>5
<1>8. CASE st.map = NoEntry /\ ~Enters(st, e, skip)
  <2>1. /\ next.map = NoEntry /\ next.hides = st.hides /\ next.losers = st.losers \cup {e}
    BY <1>2, <1>5, <1>8 DEF Absorb, Losers
  <2>2. skip /\ st.write # e
    BY <1>8 DEF Enters
  <2>3. w \notin met
    BY <1>2, <1>3, <1>8
  <2>4. w # e
    BY <1>2, <2>2, <2>3
  <2>5. {next.map} \ {NoEntry} = (({m} \ {NoEntry}) \cup (met \cup {e})) \ next.losers
    BY <1>2, <1>8, <2>1
  <2>6. Meets(next, m, w, skip, met \cup {e})
    BY <1>2, <1>6, <1>8, <2>1, <2>2, <2>3, <2>4, <2>5 DEF Meets
  <2>7. w = NoEntry \/ Beats(w, e)
    BY <2>4, BeatsOrders
  <2>8. Beaten(next.losers, all, w, skip)
    BY <2>1, <2>2, <2>7 DEF Beaten
  <2> QED
    BY <1>5, <2>6, <2>8
<1>9. CASE st.map # NoEntry /\ Beats(e, st.map)
  <2>1. /\ next.map = e /\ ~next.hides /\ next.hides \in BOOLEAN
        /\ next.losers = st.losers \cup {st.map}
    BY <1>4, <1>5, <1>9 DEF Absorb, Losers
  <2>2. {next.map} \ {NoEntry} = (({m} \ {NoEntry}) \cup (met \cup {e})) \ next.losers
    BY <1>2, <1>3, <1>4, <1>9, <2>1
  <2>3. w \notin met
    <3> SUFFICES ASSUME w \in met PROVE FALSE
      OBVIOUS
    <3>1. st.map = w /\ w # NoEntry /\ w # e
      BY <1>2, <1>3, <1>9
    <3> QED
      BY <1>3, <1>4, <1>9, <3>1, BeatsOrders
  <2>4. ~(skip /\ w = NoEntry /\ m = NoEntry)
    BY <1>2, <1>9
  <2>5. Meets(next, m, w, skip, met \cup {e})
    BY <1>2, <1>3, <1>4, <1>6, <1>9, <2>1, <2>2, <2>3, <2>4 DEF Meets
  <2>6. Beaten(next.losers, all, w, skip)
    BY <1>9, <2>1 DEF Beaten
  <2> QED
    BY <1>5, <2>5, <2>6
<1>10. CASE st.map # NoEntry /\ ~Beats(e, st.map)
  <2>1. /\ next.map = st.map /\ next.hides = st.hides /\ next.losers = st.losers \cup {e}
    BY <1>2, <1>5, <1>10 DEF Absorb, Losers
  <2>2. {next.map} \ {NoEntry} = (({m} \ {NoEntry}) \cup (met \cup {e})) \ next.losers
    BY <1>2, <1>3, <1>4, <1>10, <2>1
  <2>3. Beats(st.map, e)
    BY <1>3, <1>4, <1>10, BeatsOrders
  <2>4. w # e
    <3> SUFFICES ASSUME w = e PROVE FALSE
      OBVIOUS
    <3>1. st.map.ts < w.ts
      BY <1>3, <1>4, <1>10
    <3> QED
      BY <1>3, <1>4, <1>10, <3>1, BeatsOrders
  <2>5. Meets(next, m, w, skip, met \cup {e})
    BY <1>2, <1>3, <1>6, <1>10, <2>1, <2>2, <2>4 DEF Meets
  <2>6. Beaten(next.losers, all, w, skip)
    BY <1>4, <1>10, <2>1, <2>3 DEF Beaten
  <2> QED
    BY <1>5, <2>5, <2>6
<1> QED
  BY <1>7, <1>8, <1>9, <1>10

\* The loop meets all that was added.
LEMMA LoopMeets ==
    ASSUME TypeInv, Placed, NEW added \in SUBSET InOrder, NEW m, NEW w, NEW skip \in BOOLEAN,
           NEW h \in BOOLEAN, m = NoEntry \/ m \in InOrder, m \notin added, h => m = NoEntry,
           LET all == ({m} \ {NoEntry}) \cup added
           IN  w = NoEntry \/ (w \in added /\ \A f \in all \ {w} : f.ts < w.ts)
    PROVE  LET end == Absorbed([map |-> m, hides |-> h, write |-> w, losers |-> {}], added, skip)
           IN  /\ Meets(end, m, w, skip, added)
               /\ Beaten(end.losers, ({m} \ {NoEntry}) \cup added, w, skip)
<1>0. PICK start : start = [map |-> m, hides |-> h, write |-> w, losers |-> {}]
  OBVIOUS
<1> DEFINE all == ({m} \ {NoEntry}) \cup added
           n == Len(order)
           Met(i) == {e \in added : Position(e) <= i}
<1>1. PICK after : /\ after[0] = start
                   /\ \A i \in 1 .. n : after[i] = IF order[i] \in added
                                                   THEN Absorb(after[i - 1], order[i], skip)
                                                   ELSE after[i - 1]
                   /\ Absorbed(start, added, skip) = after[n]
  BY LoopRuns
<1> DEFINE Done(i) == Meets(after[i], m, w, skip, Met(i)) /\ Beaten(after[i].losers, all, w, skip)
           Undone == {i \in Nat : i <= n /\ ~Done(i)}
<1>2. n \in Nat /\ DOMAIN order = 1 .. n
  BY Places
<1>3. \A e \in added : Position(e) \in 1 .. n /\ order[Position(e)] = e /\ e \in Entry
  BY <1>2, PositionIs
<1>4. NoEntry \notin added /\ all \in SUBSET InOrder /\ InOrder \subseteq Entry
  BY <1>3, KvAssumption, PositionIs
<1>5. Done(0)
  <2>1. Met(0) = {}
    BY <1>3
  <2>2. Meets(start, m, w, skip, {})
    BY <1>0, <1>4 DEF Meets
  <2>3. start.losers = {}
    BY <1>0
  <2>4. Beaten(start.losers, all, w, skip)
    BY <2>3 DEF Beaten
  <2> QED
    BY <1>1, <2>1, <2>2, <2>4
<1>6. ASSUME NEW i \in Nat, i < n, Done(i)
      PROVE  Done(i + 1)
  <2>1. i + 1 \in 1 .. n /\ (i + 1) - 1 = i
    BY <1>2, <1>6
  <2> DEFINE e == order[i + 1]
  <2>2. \A f \in added : Position(f) = i + 1 <=> f = e
    <3>1. e \in InOrder /\ Position(e) = i + 1
      BY <1>2, <2>1, PositionIs DEF InOrder
    <3> QED
      BY <1>3, <3>1
  <2>3. \A f \in added : Position(f) <= i + 1 <=> Position(f) <= i \/ f = e
    BY <1>3, <2>2
  <2>4. CASE e \in added
    <3>1. Met(i + 1) = Met(i) \cup {e} /\ e \notin Met(i)
      BY <2>2, <2>3, <2>4
    <3>2. after[i + 1] = Absorb(after[i], e, skip)
      BY <1>1, <2>1, <2>4
    <3>0. PICK st, met : st = after[i] /\ met = Met(i)
      OBVIOUS
    <3>3. /\ m = NoEntry \/ m \in all
          /\ met \subseteq all /\ e \in all /\ e \notin met /\ e # m /\ (w # m \/ w = NoEntry)
          /\ w = NoEntry \/ (w \in all /\ \A f \in all \ {w} : f.ts < w.ts)
      BY <2>4, <3>0, <3>1
    <3>4. Meets(st, m, w, skip, met) /\ Beaten(st.losers, all, w, skip)
      BY <1>6, <3>0
    <3> HIDE DEF e, all, Met
    <3>5. LET next == Absorb(st, e, skip) IN
          /\ Meets(next, m, w, skip, met \cup {e})
          /\ Beaten(next.losers, all, w, skip)
      BY <1>4, <3>3, <3>4, AbsorbMeets
    <3> QED
      BY <3>0, <3>1, <3>2, <3>5
  <2>5. CASE e \notin added
    <3>1. Met(i + 1) = Met(i)
      BY <2>2, <2>3, <2>5
    <3>2. after[i + 1] = after[i]
      BY <1>1, <2>1, <2>5
    <3> QED
      BY <1>6, <3>1, <3>2
  <2> QED
    BY <2>4, <2>5
<1> HIDE DEF Done
<1>7. Undone = {}
  <2> SUFFICES ASSUME Undone # {} PROVE FALSE
    OBVIOUS
  <2>1. Undone \in SUBSET Nat
    OBVIOUS
  <2>2. PICK i \in Undone : \A k \in Undone : i <= k
    <3> HIDE DEF Undone
    <3> QED
      BY <2>1, LeastNat
  <2>3. i # 0
    BY <1>5
  <2>4. i - 1 \in Nat /\ i - 1 < n /\ i - 1 \notin Undone /\ (i - 1) + 1 = i
    BY <1>2, <2>2, <2>3
  <2>5. Done(i - 1)
    BY <2>4
  <2> QED
    BY <1>6, <2>2, <2>4, <2>5
<1>8. Done(n)
  BY <1>2, <1>7
<1>9. Met(n) = added
  BY <1>2, <1>3
<1> QED
  BY <1>0, <1>1, <1>8, <1>9 DEF Done

-----------------------------------------------------------------------------
(* What a step leaves alone                                                *)

\* Nothing of a replica changes.
Same(u) ==
    /\ seen'[u] = seen[u] /\ gone'[u] = gone[u] /\ attached'[u] = attached[u]
    /\ map'[u] = map[u] /\ write'[u] = write[u] /\ hides'[u] = hides[u]
    /\ last'[u] = last[u] /\ fresh'[u] = fresh[u] /\ dropped'[u] = dropped[u]

\* The array only grows, and so does what users erased.
Grows ==
    /\ InOrder \subseteq InOrder' /\ erased \subseteq erased'
    /\ \A f, g \in InOrder : /\ Position(f)' < Position(g)' <=> Position(f) < Position(g)
                             /\ Beats(f, g)' <=> Beats(f, g)

\* A step that leaves the array alone.
LEMMA ArrayStays == ASSUME UNCHANGED order, erased \subseteq erased' PROVE Grows
<1>1. \A f : Position(f)' = Position(f)
  BY DEF Position
<1>2. InOrder' = InOrder
  BY DEF InOrder
<1> QED
  BY <1>1, <1>2 DEF Grows, Beats

\* A replica that does not take part stays sound.
LEMMA SameSound ==
    ASSUME NEW u \in Replica, Sound(u), Same(u), Grows
    PROVE  Sound(u)'
<1>1. Array(u) /\ Accounted(u) /\ Detached(u) /\ Differs(u) /\ Overlaid(u)
  BY DEF Sound
<1>2. Live(u)' = Live(u) /\ Indexed(u)' = Indexed(u) /\ (InTx(u)' <=> InTx(u))
  BY DEF Live, Indexed, InTx, Same
<1>3. Array(u)'
  BY <1>1 DEF Array, Same, Grows
<1>4. Accounted(u)'
  <2> SUFFICES ASSUME NEW e \in gone[u]
               PROVE  e \in erased' \/ \E f \in seen[u] : Beats(f, e)'
    BY DEF Accounted, Same
  <2>1. CASE e \in erased
    BY <2>1 DEF Grows
  <2>2. CASE e \notin erased
    <3>1. PICK f \in seen[u] : Beats(f, e)
      BY <1>1, <2>2 DEF Accounted
    <3>2. e \in InOrder /\ f \in InOrder
      BY <1>1 DEF Array
    <3>3. Beats(f, e)'
      BY <3>1, <3>2 DEF Grows
    <3> QED
      BY <3>3
  <2> QED
    BY <2>1, <2>2
<1>5. Detached(u)'
  BY <1>1, <1>2 DEF Detached, Same
<1>6. Differs(u)'
  <2>1. fresh[u] \subseteq InOrder /\ Indexed(u) \subseteq InOrder
    BY <1>1 DEF Array, Differs, Live, Detached, InTx
  <2>2. \A e \in Indexed(u), f \in fresh[u] : Position(e)' < Position(f)'
    BY <1>1, <2>1 DEF Differs, Grows
  <2> QED
    BY <1>1, <1>2, <2>2 DEF Differs, Same
<1>7. Overlaid(u)'
  BY <1>1, <1>2 DEF Overlaid, Same, Grows
<1> QED
  BY <1>3, <1>4, <1>5, <1>6, <1>7 DEF Sound

\* What a sound replica has in hand.
LEMMA Holds ==
    ASSUME KvInv, NEW r \in Replica
    PROVE  /\ seen[r] \subseteq InOrder /\ gone[r] \subseteq seen[r]
           /\ Live(r) \subseteq seen[r] /\ fresh[r] \subseteq seen[r]
           /\ Indexed(r) \subseteq seen[r] /\ NoEntry \notin InOrder
           /\ map[r] \notin fresh[r] /\ NoEntry \notin seen[r]
           /\ \A e \in Live(r) : attached[r] => e.ts <= last[r]
<1>1. Array(r) /\ Detached(r) /\ Differs(r) /\ TypeInv /\ Placed
  BY DEF KvInv, Sound
<1>2. seen[r] \subseteq InOrder /\ gone[r] \subseteq seen[r] /\ Live(r) \subseteq seen[r]
  BY <1>1 DEF Array, Live
<1>3. NoEntry \notin InOrder
  BY <1>1, KvAssumption, PositionIs
<1>4. fresh[r] \subseteq seen[r] /\ Indexed(r) \subseteq seen[r]
  BY <1>1, <1>2 DEF Differs, Detached, InTx
<1>5. map[r] \notin fresh[r]
  <2> SUFFICES ASSUME map[r] \in fresh[r] PROVE FALSE
    OBVIOUS
  <2>1. map[r] \in Indexed(r) /\ map[r] \in InOrder
    BY <1>2, <1>3, <1>4 DEF Indexed
  <2>2. Position(map[r]) < Position(map[r]) /\ Position(map[r]) \in Nat
    BY <1>1, <2>1, PositionIs DEF Differs
  <2> QED
    BY <2>2
<1> QED
  BY <1>1, <1>2, <1>3, <1>4, <1>5 DEF Differs

-----------------------------------------------------------------------------
(* The observer                                                            *)

\* What an event leaves the observer to compare.
Rivals(r, added, deleted) == (Indexed(r) \ deleted) \cup added

\* The observer has run: of the rivals it keeps the one it indexes, which is the
\* pending write if there is one, and the overlays are gone.
Keeps(r, local, added, deleted, deletes, lost) ==
    LET all == Rivals(r, added, deleted) IN
    /\ lost \subseteq all /\ Indexed(r)' = all \ lost /\ gone'[r] = deletes \cup lost
    /\ hides'[r] => map'[r] = NoEntry
    /\ write'[r] = NoEntry
    /\ write[r] # NoEntry => map'[r] = write[r]
    /\ local /\ map[r] \in deleted /\ write[r] = NoEntry => map'[r] = NoEntry
    /\ \A e \in lost : \/ local /\ map[r] \in deleted /\ write[r] = NoEntry
                       \/ \E f \in all : Beats(f, e)
    /\ last[r] <= last'[r] /\ \A e \in added : e.ts <= last'[r]
    /\ \A u \in Replica \ {r} :
          /\ map'[u] = map[u] /\ hides'[u] = hides[u] /\ write'[u] = write[u]
          /\ last'[u] = last[u] /\ gone'[u] = gone[u]
    /\ map' \in [Replica -> Entry \cup {NoEntry}] /\ write' \in [Replica -> Entry \cup {NoEntry}]
    /\ hides' \in [Replica -> BOOLEAN] /\ last' \in [Replica -> Nat]
    /\ gone' \in [Replica -> SUBSET Entry]

\* What the observer needs of a replica to come to that.
LEMMA Observed ==
    ASSUME TypeInv, Placed, NEW r \in Replica, NEW local \in BOOLEAN,
           NEW added \in SUBSET InOrder, NEW deleted, NEW deletes \in SUBSET Entry,
           Observe(r, local, added, deleted, deletes),
           map[r] = NoEntry \/ map[r] \in InOrder, map[r] \notin added, NoEntry \notin deleted,
           hides[r] /\ deleted = {} => map[r] = NoEntry,
           write[r] = NoEntry \/ /\ write[r] \in added
                                 /\ \A f \in Rivals(r, added, deleted) \ {write[r]} :
                                       f.ts < write[r].ts
    PROVE  \E lost : Keeps(r, local, added, deleted, deletes, lost)
<1>1. PICK hit \in BOOLEAN : hit <=> map[r] \in deleted
  OBVIOUS
<1>2. PICK m : m = IF hit THEN NoEntry ELSE map[r]
  OBVIOUS
<1>3. PICK h \in BOOLEAN : h <=> hides[r] /\ deleted = {}
  OBVIOUS
<1>4. PICK w : w = write[r]
  OBVIOUS
<1>5. PICK skip \in BOOLEAN : skip <=> local /\ hit
  OBVIOUS
<1>6. PICK end : end = Absorbed([map |-> m, hides |-> h, write |-> w, losers |-> {}], added, skip)
  OBVIOUS
<1>7. /\ (hit = HitsIndex(r, deleted)) /\ (h = (hides[r] /\ deleted = {}))
      /\ (skip = (local /\ hit))
  BY <1>1, <1>3, <1>5 DEF HitsIndex, TypeInv
<1>8. /\ map' = [map EXCEPT ![r] = end.map]
      /\ hides' = [hides EXCEPT ![r] = end.hides]
      /\ write' = [write EXCEPT ![r] = end.write]
      /\ last' = [last EXCEPT ![r] = Latest(last[r], added)]
      /\ gone' = [gone EXCEPT ![r] = deletes \cup end.losers]
  BY <1>2, <1>4, <1>6, <1>7 DEF Observe
<1> DEFINE all == Rivals(r, added, deleted)
<1>9. ({m} \ {NoEntry}) \cup added = all
  BY <1>1, <1>2 DEF Rivals, Indexed
<1>10. /\ m = NoEntry \/ m \in InOrder
       /\ m \notin added /\ (h => m = NoEntry) /\ NoEntry \notin added
       /\ w = NoEntry \/ (w \in added /\ \A f \in all \ {w} : f.ts < w.ts)
  BY <1>1, <1>2, <1>3, <1>4, KvAssumption, PositionIs
<1> HIDE DEF all
<1>11. Meets(end, m, w, skip, added) /\ Beaten(end.losers, all, w, skip)
  BY <1>6, <1>9, <1>10, LoopMeets
<1>12. /\ end.map \in Entry \cup {NoEntry} /\ end.hides \in BOOLEAN
       /\ {end.map} \ {NoEntry} = all \ end.losers
       /\ end.losers \subseteq all
       /\ end.hides => end.map = NoEntry
       /\ end.write = NoEntry
       /\ w # NoEntry => end.map = w
       /\ skip /\ w = NoEntry /\ m = NoEntry => end.map = NoEntry
  BY <1>9, <1>10, <1>11 DEF Meets
<1>13. all \subseteq Entry /\ added \subseteq Entry
  BY <1>9, <1>10, PositionIs
<1>14. last[r] \in Nat
  BY DEF TypeInv
<1>15. /\ Latest(last[r], added) \in Nat /\ last[r] <= Latest(last[r], added)
       /\ \A e \in added : e.ts <= Latest(last[r], added)
  BY <1>13, <1>14, LatestIs
<1>16. /\ map'[r] = end.map /\ (hides'[r] = end.hides) /\ write'[r] = end.write
       /\ last'[r] = Latest(last[r], added) /\ gone'[r] = deletes \cup end.losers
       /\ \A u \in Replica \ {r} :
             /\ map'[u] = map[u] /\ hides'[u] = hides[u] /\ write'[u] = write[u]
             /\ last'[u] = last[u] /\ gone'[u] = gone[u]
  BY <1>8 DEF TypeInv
<1>17. /\ map' \in [Replica -> Entry \cup {NoEntry}]
       /\ write' \in [Replica -> Entry \cup {NoEntry}]
       /\ hides' \in [Replica -> BOOLEAN] /\ last' \in [Replica -> Nat]
       /\ gone' \in [Replica -> SUBSET Entry]
  BY <1>8, <1>12, <1>13, <1>15 DEF TypeInv
<1>18. Indexed(r)' = all \ end.losers
  BY <1>12, <1>16 DEF Indexed
<1>19. /\ write[r] # NoEntry => map'[r] = write[r]
       /\ local /\ map[r] \in deleted /\ write[r] = NoEntry => map'[r] = NoEntry
       /\ \A e \in end.losers : \/ local /\ map[r] \in deleted /\ write[r] = NoEntry
                                \/ \E f \in all : Beats(f, e)
  BY <1>1, <1>2, <1>4, <1>5, <1>11, <1>12, <1>16 DEF Beaten
<1>20. (hides'[r] => map'[r] = NoEntry) /\ write'[r] = NoEntry
  BY <1>12, <1>16
<1>21. PICK lost : lost = end.losers
  OBVIOUS
<1>22. /\ lost \subseteq all /\ Indexed(r)' = all \ lost
       /\ \A e \in lost : \/ local /\ map[r] \in deleted /\ write[r] = NoEntry
                          \/ \E f \in all : Beats(f, e)
       /\ gone'[r] = deletes \cup lost
  BY <1>12, <1>16, <1>18, <1>19, <1>21
<1>23. last[r] <= last'[r] /\ \A e \in added : e.ts <= last'[r]
  BY <1>15, <1>16
<1> QED
  BY <1>16, <1>17, <1>19, <1>20, <1>22, <1>23 DEF all, Keeps

-----------------------------------------------------------------------------
(* The steps                                                               *)

\* Empty documents, without wrappers.
LEMMA KvInit == Init => KvInv
<1> SUFFICES ASSUME Init PROVE KvInv
  OBVIOUS
<1>1. /\ order = <<>> /\ erased = {}
      /\ \A r \in Replica : /\ seen[r] = {} /\ gone[r] = {} /\ ~attached[r]
                            /\ map[r] = NoEntry /\ write[r] = NoEntry /\ ~hides[r]
                            /\ fresh[r] = {} /\ dropped[r] = {}
  BY DEF Init
<1>2. <<>> \in Seq(Entry) /\ DOMAIN <<>> = {}
  OBVIOUS
<1>3. TypeInv
  BY <1>2 DEF Init, TypeInv
<1>4. Placed
  BY <1>1, <1>2 DEF Placed
<1>5. ASSUME NEW r \in Replica PROVE Sound(r)
  <2>1. Live(r) = {} /\ Indexed(r) = {} /\ ~InTx(r)
    BY <1>1 DEF Live, Indexed, InTx
  <2> QED
    BY <1>1, <2>1 DEF Sound, Array, Accounted, Detached, Differs, Overlaid
<1> QED
  BY <1>3, <1>4, <1>5 DEF KvInv

\* A wrapper is constructed: what it deletes was beaten by what it keeps.
LEMMA AttachStep == ASSUME KvInv, NEW r \in Replica, Attach(r) PROVE KvInv'
<1>1. TypeInv /\ Placed /\ Sound(r) /\ ~attached[r]
  BY DEF KvInv, Attach
<1>2. /\ Array(r) /\ Accounted(r)
      /\ fresh[r] = {} /\ dropped[r] = {} /\ write[r] = NoEntry /\ ~hides[r]
  BY <1>1 DEF Sound, Detached, InTx
<1>3. PICK live, kept, m :
         /\ live = Live(r) /\ kept = (IF live = {} THEN {} ELSE {Winner(live)})
         /\ m = IF kept = {} THEN NoEntry ELSE Winner(live)
  OBVIOUS
<1>4. /\ UNCHANGED <<order, seen, write, hides, fresh, dropped, erased>>
      /\ attached' = [attached EXCEPT ![r] = TRUE]
      /\ map' = [map EXCEPT ![r] = m]
      /\ gone' = [gone EXCEPT ![r] = gone[r] \cup (live \ kept)]
      /\ last' = [last EXCEPT ![r] = Latest(last[r], live)]
  BY <1>3 DEF Attach
<1>5. /\ live \subseteq InOrder /\ live \subseteq seen[r] /\ live = seen[r] \ gone[r]
      /\ live \subseteq Entry /\ NoEntry \notin live
  BY <1>2, <1>3, <1>1, KvAssumption, PositionIs DEF Array, Live
<1>6. /\ kept \subseteq live /\ m \in Entry \cup {NoEntry} /\ {m} \ {NoEntry} = kept
      /\ \A e \in live \ kept : \E f \in kept : Beats(f, e)
  BY <1>1, <1>3, <1>5, WinnerIs
<1>7. /\ Latest(last[r], live) \in Nat /\ \A e \in live : e.ts <= Latest(last[r], live)
  BY <1>1, <1>5, LatestIs DEF TypeInv
<1>8. TypeInv'
  <2>1. /\ map' \in [Replica -> Entry \cup {NoEntry}] /\ gone' \in [Replica -> SUBSET Entry]
        /\ last' \in [Replica -> Nat] /\ attached' \in [Replica -> BOOLEAN]
    BY <1>1, <1>4, <1>5, <1>6, <1>7 DEF TypeInv
  <2> QED
    BY <1>1, <1>4, <2>1 DEF TypeInv
<1>9. Placed'
  BY <1>1, <1>4 DEF Placed
<1>10. Grows /\ \A u \in Replica \ {r} : Same(u)
  BY <1>1, <1>4, ArrayStays DEF Same, TypeInv
<1>11. /\ map'[r] = m /\ gone'[r] = gone[r] \cup (live \ kept) /\ attached'[r]
       /\ last'[r] = Latest(last[r], live)
       /\ seen'[r] = seen[r] /\ write'[r] = NoEntry /\ ~hides'[r]
       /\ fresh'[r] = {} /\ dropped'[r] = {}
  BY <1>1, <1>2, <1>4 DEF TypeInv
<1>12. Live(r)' = kept /\ Indexed(r)' = kept /\ ~InTx(r)'
  BY <1>5, <1>6, <1>11 DEF Live, Indexed, InTx
<1>13. Array(r)'
  BY <1>2, <1>4, <1>5, <1>11 DEF Array, InOrder
<1>14. Accounted(r)'
  <2>1. \A e \in gone[r] : e \in erased \/ \E f \in seen[r] : Beats(f, e)
    BY <1>2 DEF Accounted
  <2>2. \A e, f : Beats(f, e)' <=> Beats(f, e)
    BY <1>4 DEF Beats, Position
  <2> QED
    BY <1>4, <1>5, <1>6, <1>11, <2>1, <2>2 DEF Accounted
<1>15. Differs(r)'
  <2>1. dropped'[r] = {} /\ fresh'[r] = {} /\ kept \subseteq seen'[r]
    BY <1>5, <1>6, <1>11
  <2>2. \A e \in kept : e.ts <= last'[r]
    BY <1>6, <1>7, <1>11
  <2> QED
    BY ONLY <1>12, <2>1, <2>2 DEF Differs
<1>16. Detached(r)' /\ Overlaid(r)'
  BY <1>11, <1>12 DEF Detached, Overlaid
<1>17. Sound(r)'
  BY <1>13, <1>14, <1>15, <1>16 DEF Sound
<1> QED
  BY <1>8, <1>9, <1>10, <1>17, SameSound DEF KvInv

\* A new entry is pushed, and what it replaces may go in the same transaction.
LEMMA PushStep ==
    ASSUME KvInv, NEW r \in Replica, NEW D \in SUBSET Live(r), Push(r, D)
    PROVE  KvInv'
<1>1. TypeInv /\ Placed /\ Sound(r) /\ attached[r]
  BY DEF KvInv, Push
<1>2. Array(r) /\ Accounted(r) /\ Differs(r) /\ Overlaid(r)
  BY <1>1 DEF Sound
<1>t. PICK t \in last[r] + 1 .. MaxTs, p \in 1 .. Len(order) + 1 :
         LET e == [n |-> Len(order) + 1, ts |-> t] IN
         /\ \A i \in p .. Len(order) : order[i] \notin seen[r]
         /\ order' = InsertAt(order, p, e)
         /\ seen' = [seen EXCEPT ![r] = @ \cup {e}]
         /\ last' = [last EXCEPT ![r] = t]
         /\ fresh' = [fresh EXCEPT ![r] = (@ \ D) \cup {e}]
         /\ write' = [write EXCEPT ![r] = e]
  BY DEF Push
<1>e. PICK e : e = [n |-> Len(order) + 1, ts |-> t]
  OBVIOUS
<1>3. /\ t \in last[r] + 1 .. MaxTs /\ p \in 1 .. Len(order) + 1
      /\ e = [n |-> Len(order) + 1, ts |-> t]
      /\ \A i \in p .. Len(order) : order[i] \notin seen[r]
      /\ order' = InsertAt(order, p, e)
      /\ seen' = [seen EXCEPT ![r] = seen[r] \cup {e}]
      /\ last' = [last EXCEPT ![r] = t]
      /\ fresh' = [fresh EXCEPT ![r] = (fresh[r] \ D) \cup {e}]
      /\ write' = [write EXCEPT ![r] = e]
  BY ONLY <1>t, <1>e
<1>4. /\ Len(order) < MaxWrites /\ UNCHANGED <<attached, map, erased>>
      /\ hides' = [hides EXCEPT ![r] = FALSE]
      /\ gone' = [gone EXCEPT ![r] = gone[r] \cup D]
      /\ dropped' = [dropped EXCEPT ![r] = dropped[r] \cup (D \ fresh[r])]
  BY DEF Push, Drop
<1>5. last[r] \in Nat /\ t \in 1 .. MaxTs /\ t \in Nat /\ last[r] < t
  BY <1>1, <1>3, KvAssumption DEF TypeInv
<1>6. e \in Entry /\ e.n = Len(order) + 1 /\ e.ts = t /\ e # NoEntry
  <2>1. Len(order) + 1 \in 1 .. MaxWrites
    BY <1>1, <1>4, Places, KvAssumption
  <2> QED
    BY <1>3, <1>5, <2>1, KvAssumption DEF Entry
<1>7. /\ order' \in Seq(Entry) /\ Placed' /\ InOrder' = InOrder \cup {e} /\ e \notin InOrder
      /\ \A f, g \in InOrder : /\ Position(f)' < Position(g)' <=> Position(f) < Position(g)
                               /\ Beats(f, g)' <=> Beats(f, g)
      /\ \A f \in InOrder : (\A i \in p .. Len(order) : order[i] # f)
                              => Position(f)' < Position(e)'
  BY <1>1, <1>3, <1>6, PushPlaces
<1>8. /\ seen[r] \subseteq InOrder /\ gone[r] \subseteq seen[r] /\ Live(r) \subseteq seen[r]
      /\ fresh[r] \subseteq seen[r] /\ Indexed(r) \subseteq seen[r] /\ NoEntry \notin InOrder
      /\ map[r] \notin fresh[r] /\ D \subseteq seen[r]
      /\ \A f \in Live(r) : f.ts <= last[r] /\ f.ts \in Nat
  BY <1>1, Holds, PositionIs
<1>9. Live(r) = seen[r] \ gone[r] /\ Live(r) = (Indexed(r) \ dropped[r]) \cup fresh[r]
  BY <1>1, <1>2 DEF Live, Differs
<1>10. TypeInv'
  <2>1. /\ seen' \in [Replica -> SUBSET Entry] /\ last' \in [Replica -> Nat]
        /\ fresh' \in [Replica -> SUBSET Entry]
        /\ write' \in [Replica -> Entry \cup {NoEntry}]
    BY <1>1, <1>3, <1>5, <1>6 DEF TypeInv
  <2>2. D \subseteq Entry
    BY <1>1, <1>8, PositionIs
  <2>3. /\ hides' \in [Replica -> BOOLEAN] /\ gone' \in [Replica -> SUBSET Entry]
        /\ dropped' \in [Replica -> SUBSET Entry]
    BY <1>1, <1>4, <2>2 DEF TypeInv
  <2> QED
    BY <1>1, <1>4, <1>7, <2>1, <2>3 DEF TypeInv
<1>11. Grows /\ \A u \in Replica \ {r} : Same(u)
  BY <1>1, <1>3, <1>4, <1>7 DEF Grows, Same, TypeInv
<1>12. /\ seen'[r] = seen[r] \cup {e} /\ gone'[r] = gone[r] \cup D
       /\ last'[r] = t /\ write'[r] = e /\ ~hides'[r] /\ map'[r] = map[r] /\ attached'[r]
       /\ fresh'[r] = (fresh[r] \ D) \cup {e} /\ dropped'[r] = dropped[r] \cup (D \ fresh[r])
  BY <1>1, <1>3, <1>4 DEF TypeInv
<1>13. Live(r)' = (Live(r) \ D) \cup {e} /\ Indexed(r)' = Indexed(r)
  BY <1>7, <1>8, <1>9, <1>12 DEF Live, Indexed
<1>14. Array(r)'
  BY <1>7, <1>8, <1>12 DEF Array
<1>15. Accounted(r)'
  <2> SUFFICES ASSUME NEW f \in gone'[r], f \notin erased
               PROVE  \E g \in seen'[r] : Beats(g, f)'
    BY <1>4 DEF Accounted
  <2>1. CASE f \in gone[r]
    <3>1. PICK g \in seen[r] : Beats(g, f)
      BY <1>2, <2>1 DEF Accounted
    <3> QED
      BY <1>7, <1>8, <1>12, <2>1, <3>1
  <2>2. CASE f \in D
    <3>1. e.ts > f.ts
      BY <1>5, <1>6, <1>8, <2>2
    <3>2. Beats(e, f)'
      BY <3>1 DEF Beats
    <3> QED
      BY <1>12, <3>2
  <2> QED
    BY <1>12, <2>1, <2>2
<1>16. Differs(r)'
  <2>1. Live(r)' = (Indexed(r)' \ dropped'[r]) \cup fresh'[r]
    <3>1. Indexed(r) \cap fresh[r] = {}
      BY <1>8 DEF Indexed
    <3> QED
      BY <1>9, <1>12, <1>13, <3>1
  <2>2. dropped'[r] \subseteq Indexed(r)' /\ Indexed(r)' \subseteq seen'[r]
    BY <1>2, <1>8, <1>9, <1>12, <1>13 DEF Differs
  <2>3. ASSUME NEW f \in Indexed(r), NEW g \in fresh'[r]
        PROVE  Position(f)' < Position(g)'
    <3>1. CASE g = e
      BY <1>3, <1>7, <1>8, <3>1
    <3>2. CASE g # e
      BY <1>2, <1>7, <1>8, <1>12, <2>3, <3>2 DEF Differs
    <3> QED
      BY <3>1, <3>2
  <2>4. \A f \in Live(r)' : f.ts <= last'[r]
    BY <1>5, <1>6, <1>8, <1>12, <1>13
  <2> QED
    BY <1>13, <2>1, <2>2, <2>3, <2>4 DEF Differs
<1>17. Overlaid(r)'
  <2>1. \A f \in Live(r)' \ {e} : f.ts < e.ts
    BY <1>5, <1>6, <1>8, <1>13
  <2> QED
    BY <1>6, <1>12, <2>1 DEF Overlaid
<1>18. Sound(r)'
  BY <1>12, <1>14, <1>15, <1>16, <1>17 DEF Sound, Detached
<1> QED
  BY <1>7, <1>10, <1>11, <1>18, SameSound DEF KvInv

\* deleteEntryByKey finds the entry in the index, if that is still in the array,
\* before any that the transaction added.
LEMMA FirstIs ==
    ASSUME KvInv, NEW r \in Replica, attached[r]
    PROVE  /\ FirstEntry(r) \subseteq Live(r)
           /\ Indexed(r) \subseteq FirstEntry(r) \cup dropped[r]
<1>1. FirstEntry(r) \subseteq Live(r)
  BY DEF FirstEntry
<1>2. TypeInv /\ Placed /\ Differs(r)
  BY DEF KvInv, Sound
<1>3. ASSUME NEW e \in Indexed(r) \ dropped[r], NEW f \in Live(r)
      PROVE  Position(e) <= Position(f)
  <2>1. f = e \/ f \in fresh[r]
    BY <1>2, <1>3 DEF Differs, Indexed
  <2>2. Position(e) \in Nat /\ Position(f) \in Nat
    BY <1>2, <1>3, Holds, PositionIs
  <2> QED
    BY <1>2, <1>3, <2>1, <2>2 DEF Differs
<1>4. Indexed(r) \ dropped[r] \subseteq Live(r)
  BY <1>2 DEF Differs
<1> QED
  BY <1>1, <1>3, <1>4 DEF FirstEntry

\* A user deletes: what the transaction leaves of its own was erased with it.
LEMMA DiscardStep ==
    ASSUME KvInv, NEW r \in Replica, attached[r], NEW D \in SUBSET Live(r),
           Indexed(r) \subseteq D \cup dropped[r], Discard(r, D)
    PROVE  KvInv'
<1>1. TypeInv /\ Placed /\ Sound(r)
  BY DEF KvInv
<1>2. Array(r) /\ Accounted(r) /\ Differs(r) /\ Overlaid(r)
  BY <1>1 DEF Sound
<1>3. /\ UNCHANGED <<order, seen, attached, map, last>>
      /\ hides' = [hides EXCEPT ![r] = TRUE]
      /\ write' = [write EXCEPT ![r] = NoEntry]
      /\ gone' = [gone EXCEPT ![r] = gone[r] \cup D]
      /\ dropped' = [dropped EXCEPT ![r] = dropped[r] \cup (D \ fresh[r])]
      /\ fresh' = [fresh EXCEPT ![r] = fresh[r] \ D]
      /\ erased' = erased \cup Live(r)
  BY DEF Discard, Drop
<1>4. /\ seen[r] \subseteq InOrder /\ gone[r] \subseteq seen[r] /\ Live(r) \subseteq seen[r]
      /\ map[r] \notin fresh[r] /\ Indexed(r) \subseteq seen[r]
      /\ \A f \in Live(r) : f.ts <= last[r]
  BY <1>1, Holds
<1>5. Live(r) = seen[r] \ gone[r] /\ Live(r) = (Indexed(r) \ dropped[r]) \cup fresh[r]
  BY <1>2 DEF Live, Differs
<1>6. TypeInv'
  <2>1. Live(r) \subseteq Entry
    BY <1>1, <1>4, PositionIs
  <2>2. /\ hides' \in [Replica -> BOOLEAN] /\ write' \in [Replica -> Entry \cup {NoEntry}]
        /\ gone' \in [Replica -> SUBSET Entry] /\ dropped' \in [Replica -> SUBSET Entry]
        /\ fresh' \in [Replica -> SUBSET Entry] /\ erased' \subseteq Entry
    BY <1>1, <1>3, <2>1 DEF TypeInv
  <2> QED
    BY <1>1, <1>3, <2>2 DEF TypeInv
<1>7. Placed'
  BY <1>1, <1>3 DEF Placed
<1>8. Grows /\ \A u \in Replica \ {r} : Same(u)
  BY <1>1, <1>3, ArrayStays DEF Same, TypeInv
<1>9. /\ seen'[r] = seen[r] /\ gone'[r] = gone[r] \cup D /\ hides'[r] /\ write'[r] = NoEntry
      /\ map'[r] = map[r] /\ last'[r] = last[r] /\ attached'[r]
      /\ fresh'[r] = fresh[r] \ D /\ dropped'[r] = dropped[r] \cup (D \ fresh[r])
  BY <1>1, <1>3 DEF TypeInv
<1>10. Live(r)' = Live(r) \ D /\ Indexed(r)' = Indexed(r)
  BY <1>5, <1>9 DEF Live, Indexed
<1>11. Array(r)'
  BY <1>3, <1>4, <1>9 DEF Array, InOrder
<1>12. Accounted(r)'
  <2>1. \A e, f : Beats(f, e)' <=> Beats(f, e)
    BY <1>3 DEF Beats, Position
  <2>2. \A e \in gone[r] : e \in erased \/ \E f \in seen[r] : Beats(f, e)
    BY <1>2 DEF Accounted
  <2> QED
    BY <1>3, <1>9, <2>1, <2>2 DEF Accounted
<1>13. Indexed(r) \cap fresh[r] = {}
  BY <1>4 DEF Indexed
<1>14. Differs(r)'
  <2>1. Live(r)' = (Indexed(r)' \ dropped'[r]) \cup fresh'[r]
    BY <1>5, <1>9, <1>10, <1>13
  <2>2. dropped'[r] \subseteq Indexed(r)' /\ Indexed(r)' \subseteq seen'[r]
    BY <1>2, <1>4, <1>5, <1>9, <1>10 DEF Differs
  <2>3. \A e \in Indexed(r), f \in fresh'[r] : Position(e)' < Position(f)'
    BY <1>2, <1>3, <1>9 DEF Differs, Position
  <2> QED
    BY <1>4, <1>9, <1>10, <2>1, <2>2, <2>3 DEF Differs
<1>15. Overlaid(r)'
  <2>1. Indexed(r)' \subseteq dropped'[r]
    BY <1>9, <1>10, <1>13
  <2> QED
    BY <1>3, <1>5, <1>9, <2>1 DEF Overlaid
<1>16. Sound(r)'
  BY <1>9, <1>11, <1>12, <1>14, <1>15 DEF Sound, Detached
<1> QED
  BY <1>6, <1>7, <1>8, <1>16, SameSound DEF KvInv

\* A transaction closes: what the observer makes of it is all that is left.
LEMMA CommitObserved ==
    ASSUME KvInv, NEW r \in Replica, Commit(r)
    PROVE  \E lost \in SUBSET Live(r) :
              /\ Indexed(r)' = Live(r) \ lost
              /\ hides'[r] => map'[r] = NoEntry
              /\ write'[r] = NoEntry
              /\ write[r] # NoEntry => map'[r] = write[r]
              /\ hides[r] /\ map[r] # NoEntry => map'[r] = NoEntry
              /\ \A e \in lost : e \in erased \/ \E f \in Live(r) : Beats(f, e)
              /\ gone'[r] = gone[r] \cup lost
              /\ last[r] <= last'[r]
              /\ \A u \in Replica \ {r} : Same(u)
              /\ TypeInv' /\ attached[r]
              /\ fresh'[r] = {} /\ dropped'[r] = {}
              /\ UNCHANGED <<order, seen, attached, erased>>
<1>1. TypeInv /\ Placed /\ Array(r) /\ Accounted(r) /\ Detached(r) /\ Differs(r) /\ Overlaid(r)
  BY DEF KvInv, Sound
<1>2. /\ InTx(r) /\ UNCHANGED <<order, seen, attached, erased>>
      /\ Observe(r, TRUE, fresh[r], dropped[r], gone[r])
      /\ fresh' = [fresh EXCEPT ![r] = {}] /\ dropped' = [dropped EXCEPT ![r] = {}]
  BY DEF Commit
<1>3. attached[r]
  BY <1>1, <1>2 DEF Detached
<1>4. Rivals(r, fresh[r], dropped[r]) = Live(r)
  BY <1>1, <1>3 DEF Rivals, Differs
<1>5. /\ fresh[r] \in SUBSET InOrder /\ gone[r] \in SUBSET Entry
      /\ map[r] = NoEntry \/ map[r] \in InOrder
      /\ map[r] \notin fresh[r] /\ NoEntry \notin dropped[r]
  BY <1>1, Holds DEF Differs, Indexed, TypeInv
<1>6. hides[r] /\ dropped[r] = {} => map[r] = NoEntry
  BY <1>1 DEF Overlaid, Indexed
<1>7. write[r] = NoEntry \/ /\ write[r] \in fresh[r]
                            /\ \A f \in Live(r) \ {write[r]} : f.ts < write[r].ts
  BY <1>1 DEF Overlaid
<1>8. PICK lost : Keeps(r, TRUE, fresh[r], dropped[r], gone[r], lost)
  <2>1. PICK added, deleted, deletes, local :
           added = fresh[r] /\ deleted = dropped[r] /\ deletes = gone[r] /\ local = TRUE
    OBVIOUS
  <2>2. /\ local \in BOOLEAN /\ added \in SUBSET InOrder /\ deletes \in SUBSET Entry
        /\ Observe(r, local, added, deleted, deletes)
        /\ map[r] \notin added /\ NoEntry \notin deleted
        /\ hides[r] /\ deleted = {} => map[r] = NoEntry
        /\ write[r] = NoEntry \/ /\ write[r] \in added
                                 /\ \A f \in Rivals(r, added, deleted) \ {write[r]} :
                                       f.ts < write[r].ts
    BY <1>2, <1>4, <1>5, <1>6, <1>7, <2>1
  <2>3. \E lost : Keeps(r, local, added, deleted, deletes, lost)
    BY ONLY r \in Replica, <1>1, <1>5, <2>2, Observed
  <2> QED
    BY <2>1, <2>3
<1>9. /\ lost \subseteq Live(r) /\ Indexed(r)' = Live(r) \ lost /\ gone'[r] = gone[r] \cup lost
      /\ hides'[r] => map'[r] = NoEntry
      /\ write'[r] = NoEntry
      /\ write[r] # NoEntry => map'[r] = write[r]
      /\ map[r] \in dropped[r] /\ write[r] = NoEntry => map'[r] = NoEntry
      /\ \A e \in lost : \/ map[r] \in dropped[r] /\ write[r] = NoEntry
                         \/ \E f \in Live(r) : Beats(f, e)
      /\ last[r] <= last'[r]
  BY <1>4, <1>8 DEF Keeps
<1>10. hides[r] /\ map[r] # NoEntry => map'[r] = NoEntry
  BY <1>1, <1>9 DEF Overlaid, Indexed
<1>11. \A e \in lost : e \in erased \/ \E f \in Live(r) : Beats(f, e)
  <2> SUFFICES ASSUME NEW e \in lost, map[r] \in dropped[r], write[r] = NoEntry
               PROVE  e \in erased
    BY <1>9
  <2>1. e \in fresh[r]
    BY <1>1, <1>3, <1>9 DEF Differs, Indexed
  <2> QED
    BY <1>1, <2>1 DEF Overlaid
<1>12. /\ fresh'[r] = {} /\ dropped'[r] = {}
       /\ \A u \in Replica \ {r} : fresh'[u] = fresh[u] /\ dropped'[u] = dropped[u]
       /\ fresh' \in [Replica -> SUBSET Entry] /\ dropped' \in [Replica -> SUBSET Entry]
  BY <1>1, <1>2 DEF TypeInv
<1>13. TypeInv'
  BY <1>1, <1>2, <1>8, <1>12 DEF TypeInv, Keeps
<1>14. \A u \in Replica \ {r} : Same(u)
  BY <1>2, <1>8, <1>12 DEF Same, Keeps
<1> QED
  BY <1>2, <1>3, <1>9, <1>10, <1>11, <1>12, <1>13, <1>14

\* A replica whose observer has run is sound again.
LEMMA SettledSound ==
    ASSUME NEW r \in Replica, Array(r)', Accounted(r)', attached'[r],
           fresh'[r] = {}, dropped'[r] = {}, write'[r] = NoEntry,
           hides'[r] => map'[r] = NoEntry, Indexed(r)' = Live(r)',
           \A e \in Live(r)' : e.ts <= last'[r]
    PROVE  Sound(r)'
<1>1. Live(r)' \subseteq seen'[r] /\ ~InTx(r)'
  BY DEF Live, InTx
<1>2. Differs(r)'
  BY <1>1 DEF Differs
<1>3. Overlaid(r)'
  BY <1>1 DEF Overlaid, Indexed
<1> QED
  BY <1>2, <1>3 DEF Sound, Detached

\* The transaction of a replica closes.
LEMMA CommitStep == ASSUME KvInv, NEW r \in Replica, Commit(r) PROVE KvInv'
<1>1. TypeInv /\ Placed /\ Array(r) /\ Accounted(r)
  BY DEF KvInv, Sound
<1>2. PICK lost \in SUBSET Live(r) :
         /\ Indexed(r)' = Live(r) \ lost
         /\ hides'[r] => map'[r] = NoEntry
         /\ write'[r] = NoEntry
         /\ \A e \in lost : e \in erased \/ \E f \in Live(r) : Beats(f, e)
         /\ gone'[r] = gone[r] \cup lost
         /\ last[r] <= last'[r]
         /\ \A u \in Replica \ {r} : Same(u)
         /\ TypeInv' /\ attached[r]
         /\ fresh'[r] = {} /\ dropped'[r] = {}
         /\ UNCHANGED <<order, seen, attached, erased>>
  BY CommitObserved
<1>3. Grows
  BY <1>2, ArrayStays
<1>4. Placed'
  BY <1>1, <1>2 DEF Placed
<1>5. Live(r)' = Live(r) \ lost
  BY <1>2 DEF Live
<1>6. /\ seen[r] \subseteq InOrder /\ gone[r] \subseteq seen[r] /\ Live(r) \subseteq seen[r]
      /\ \A e \in Live(r) : e.ts <= last[r] /\ e.ts \in Nat
      /\ last[r] \in Nat /\ last'[r] \in Nat
  BY <1>1, <1>2, Holds, PositionIs DEF TypeInv
<1>7. Array(r)'
  BY <1>2, <1>6 DEF Array, InOrder
<1>8. Accounted(r)'
  <2>1. \A e, f : Beats(f, e)' <=> Beats(f, e)
    BY <1>2 DEF Beats, Position
  <2>2. \A e \in gone[r] : e \in erased \/ \E f \in seen[r] : Beats(f, e)
    BY <1>1 DEF Accounted
  <2>3. \A e \in lost : e \in erased \/ \E f \in seen[r] : Beats(f, e)
    BY <1>2, <1>6
  <2> QED
    BY <1>2, <2>1, <2>2, <2>3 DEF Accounted
<1>9. \A e \in Live(r)' : e.ts <= last'[r]
  BY <1>2, <1>5, <1>6
<1>10. Sound(r)'
  BY <1>2, <1>5, <1>7, <1>8, <1>9, SettledSound
<1> QED
  BY <1>2, <1>3, <1>4, <1>10, SameSound DEF KvInv

\* A replica applies the state of another: to a document without a wrapper
\* nothing else happens, and otherwise the observer runs.
LEMMA MergeStep ==
    ASSUME KvInv, NEW r \in Replica, NEW q \in Replica, Merge(r, q)
    PROVE  KvInv'
<1>1. /\ TypeInv /\ Placed /\ Array(r) /\ Accounted(r) /\ Detached(r) /\ Differs(r) /\ Overlaid(r)
      /\ Array(q) /\ Accounted(q)
  BY DEF KvInv, Sound
<1>2. /\ fresh[r] = {} /\ dropped[r] = {} /\ UNCHANGED <<order, attached, fresh, dropped, erased>>
      /\ seen' = [seen EXCEPT ![r] = seen[r] \cup seen[q]]
  BY DEF Merge, InTx
<1>3. write[r] = NoEntry /\ (hides[r] => map[r] = NoEntry)
  BY <1>1, <1>2 DEF Overlaid, Indexed
<1>4. /\ seen'[r] = seen[r] \cup seen[q] /\ \A u \in Replica \ {r} : seen'[u] = seen[u]
      /\ seen' \in [Replica -> SUBSET Entry]
  BY <1>1, <1>2 DEF TypeInv
<1>5. /\ seen[r] \subseteq InOrder /\ gone[r] \subseteq seen[r] /\ NoEntry \notin InOrder
      /\ seen[q] \subseteq InOrder /\ gone[q] \subseteq seen[q] /\ Live(r) \subseteq seen[r]
      /\ Indexed(r) \subseteq seen[r]
      /\ gone[r] \subseteq Entry /\ gone[q] \subseteq Entry
  BY <1>1, Holds DEF TypeInv
<1>6. Placed' /\ Grows
  BY <1>1, <1>2, ArrayStays DEF Placed
<1>7. /\ \A e, f : Beats(f, e)' <=> Beats(f, e)
      /\ InOrder' = InOrder
  BY <1>2 DEF Beats, Position, InOrder
<1>8. \A e \in gone[r] \cup gone[q] : e \in erased \/ \E f \in seen'[r] : Beats(f, e)
  BY <1>1, <1>4 DEF Accounted
<1>9. CASE ~attached[r]
  <2>1. /\ UNCHANGED <<map, write, hides, last>>
        /\ gone' = [gone EXCEPT ![r] = gone[r] \cup gone[q]]
    BY <1>9 DEF Merge, index
  <2>2. /\ gone'[r] = gone[r] \cup gone[q] /\ \A u \in Replica \ {r} : gone'[u] = gone[u]
        /\ gone' \in [Replica -> SUBSET Entry]
    BY <1>1, <1>5, <2>1 DEF TypeInv
  <2>3. TypeInv'
    BY <1>1, <1>2, <1>4, <2>1, <2>2 DEF TypeInv
  <2>4. \A u \in Replica \ {r} : Same(u)
    BY <1>2, <1>4, <2>1, <2>2 DEF Same
  <2>5. Array(r)'
    BY <1>4, <1>5, <1>7, <2>2 DEF Array
  <2>6. Accounted(r)'
    BY <1>2, <1>7, <1>8, <2>2 DEF Accounted
  <2>7. /\ ~InTx(r)' /\ map'[r] = NoEntry /\ write'[r] = NoEntry /\ ~hides'[r] /\ ~attached'[r]
        /\ fresh'[r] = {} /\ dropped'[r] = {} /\ Indexed(r)' = {}
    BY <1>1, <1>2, <1>9, <2>1 DEF Detached, InTx, Indexed
  <2>8. Sound(r)'
    BY <2>5, <2>6, <2>7 DEF Sound, Detached, Differs, Overlaid
  <2> QED
    BY <1>6, <2>3, <2>4, <2>8, SameSound DEF KvInv
<1>10. CASE attached[r]
  <2>1. PICK added, deleted, deletes, local :
           /\ added = seen[q] \ (seen[r] \cup gone[q]) /\ deleted = (gone[q] \ gone[r]) \cap seen[r]
           /\ deletes = gone[r] \cup gone[q] /\ local = FALSE
    OBVIOUS
  <2>2. Observe(r, local, added, deleted, deletes)
    BY <1>10, <2>1 DEF Merge
  <2>3. Live(r) = Indexed(r) /\ Live(r) = seen[r] \ gone[r]
    BY <1>1, <1>2, <1>10 DEF Differs, Live
  <2>4. /\ added \in SUBSET InOrder /\ deletes \in SUBSET Entry /\ local \in BOOLEAN
        /\ map[r] = NoEntry \/ map[r] \in InOrder
        /\ map[r] \notin added /\ NoEntry \notin deleted
    BY <1>5, <2>1 DEF Indexed
  <2> DEFINE all == Rivals(r, added, deleted)
  <2>5. /\ hides[r] /\ deleted = {} => map[r] = NoEntry
        /\ write[r] = NoEntry \/ /\ write[r] \in added
                                 /\ \A f \in Rivals(r, added, deleted) \ {write[r]} :
                                       f.ts < write[r].ts
    BY <1>3
  <2>6. PICK lost : Keeps(r, local, added, deleted, deletes, lost)
    BY ONLY r \in Replica, <1>1, <2>2, <2>4, <2>5, Observed
  <2>7. /\ lost \subseteq all /\ Indexed(r)' = all \ lost /\ gone'[r] = deletes \cup lost
        /\ hides'[r] => map'[r] = NoEntry
        /\ write'[r] = NoEntry
        /\ \A e \in lost : \E f \in all : Beats(f, e)
        /\ last[r] <= last'[r] /\ \A e \in added : e.ts <= last'[r]
    BY <2>1, <2>6 DEF Keeps
  <2>8. TypeInv'
    BY <1>1, <1>2, <1>4, <2>6 DEF TypeInv, Keeps
  <2>9. \A u \in Replica \ {r} : Same(u)
    BY <1>2, <1>4, <2>6 DEF Same, Keeps
  <2>10. all \subseteq seen'[r] /\ all = (Live(r) \ gone[q]) \cup added
    BY <1>4, <1>5, <2>1, <2>3 DEF Rivals
  <2>11. Live(r)' = all \ lost
    <3>1. Live(r)' = seen'[r] \ gone'[r]
      BY DEF Live
    <3> HIDE DEF all
    <3> QED
      BY <1>4, <1>5, <2>1, <2>3, <2>7, <2>10, <3>1
  <2>12. Array(r)'
    BY <1>4, <1>5, <1>7, <2>1, <2>7, <2>10 DEF Array
  <2>13. Accounted(r)'
    <3>1. \A e \in lost : \E f \in seen'[r] : Beats(f, e)
      BY <2>1, <2>7, <2>10
    <3> HIDE DEF all
    <3> QED
      BY <1>2, <1>7, <1>8, <2>1, <2>7, <3>1 DEF Accounted
  <2>14. \A e \in Live(r)' : e.ts <= last'[r]
    <3>1. \A e \in Live(r) : e.ts <= last[r] /\ e.ts \in Nat
      BY <1>1, <1>5, <1>10, Holds, PositionIs
    <3>2. last[r] \in Nat /\ last'[r] \in Nat
      BY <1>1, <2>8 DEF TypeInv
    <3> HIDE DEF all
    <3> QED
      BY <2>7, <2>10, <2>11, <3>1, <3>2
  <2>15. attached'[r] /\ fresh'[r] = {} /\ dropped'[r] = {}
    BY <1>2, <1>10
  <2>16. Sound(r)'
    BY <2>7, <2>11, <2>12, <2>13, <2>14, <2>15, SettledSound
  <2> QED
    BY <1>6, <2>8, <2>9, <2>16, SameSound DEF KvInv
<1> QED
  BY <1>9, <1>10

-----------------------------------------------------------------------------
(* The theorems                                                            *)

\* Every step keeps the invariant.
LEMMA KvStep == KvInv /\ [Next]_vars => KvInv'
<1> SUFFICES ASSUME KvInv, [Next]_vars PROVE KvInv'
  OBVIOUS
<1>1. ASSUME NEW r \in Replica, set(r) \/ bulkSet(r) PROVE KvInv'
  <2>1. PICK D : D = {} \/ D = FirstEntry(r)
    OBVIOUS
  <2>2. FirstEntry(r) \in SUBSET Live(r) /\ {} \in SUBSET Live(r)
    BY DEF FirstEntry
  <2>3. Push(r, {}) \/ Push(r, FirstEntry(r))
    BY <1>1 DEF set, bulkSet
  <2> QED
    BY <2>2, <2>3, PushStep
<1>2. ASSUME NEW r \in Replica, delete(r) PROVE KvInv'
  <2>1. attached[r] /\ Discard(r, FirstEntry(r))
    BY <1>2 DEF delete
  <2> QED
    BY <2>1, FirstIs, DiscardStep
<1>3. ASSUME NEW r \in Replica, bulkDelete(r) PROVE KvInv'
  <2>1. attached[r] /\ Discard(r, Live(r)) /\ Differs(r)
    BY <1>3 DEF bulkDelete, KvInv, Sound
  <2>2. Indexed(r) \subseteq Live(r) \cup dropped[r]
    BY <2>1 DEF Differs
  <2> QED
    BY <2>1, <2>2, DiscardStep
<1>4. CASE UNCHANGED vars
  <2>1. UNCHANGED <<order, seen, gone, attached, map, write, hides, last, fresh, dropped, erased>>
    BY <1>4 DEF vars, index
  <2>2. TypeInv /\ Placed /\ \A u \in Replica : Sound(u)
    BY DEF KvInv
  <2>3. TypeInv'
    BY <2>1, <2>2 DEF TypeInv
  <2>4. Placed'
    BY <2>1, <2>2 DEF Placed
  <2>5. Grows /\ \A u \in Replica : Same(u)
    BY <2>1, ArrayStays DEF Same
  <2> QED
    BY <2>2, <2>3, <2>4, <2>5, SameSound DEF KvInv
<1> QED
  BY <1>1, <1>2, <1>3, <1>4, AttachStep, CommitStep, MergeStep DEF Next

\* What holds of every reachable state of the replicas.
LEMMA KvAlways == Spec => []KvInv
<1> QED
  BY KvInit, KvStep, PTL DEF Spec

\* Every variable of the replicas has its type, and an entry has one place in
\* the array (the indexes that getEntryIndex returns).
THEOREM KvTypeCorrect == Spec => [](TypeInv /\ Placed)
<1>1. KvInv => TypeInv /\ Placed
  BY DEF KvInv
<1> QED
  BY <1>1, KvAlways, PTL

\* Between transactions the array of a replica is the one entry that its index
\* holds, which is the one it reads (the _map of the observer).
THEOREM IndexIsArray == Spec => []IndexFollowsArray
<1>1. KvInv => IndexFollowsArray
  <2> SUFFICES ASSUME KvInv, NEW r \in Replica, attached[r], ~InTx(r)
               PROVE  Live(r) = {map[r]} \ {NoEntry} /\ get(r) = map[r]
    BY DEF IndexFollowsArray
  <2>1. Differs(r) /\ Overlaid(r) /\ fresh[r] = {} /\ dropped[r] = {}
    BY DEF KvInv, Sound, InTx
  <2> QED
    BY <2>1 DEF Differs, Overlaid, Indexed, get
<1> QED
  BY <1>1, KvAlways, PTL

\* The newest write a replica knows of is what it reads, or a user deleted it.
THEOREM NewestIsRead == Spec => []NewestWriteKept
<1>1. KvInv => NewestWriteKept
  <2> SUFFICES ASSUME KvInv, NEW r \in Replica, attached[r], ~InTx(r), seen[r] # {}
               PROVE  Winner(seen[r]) \in erased \/ get(r) = Winner(seen[r])
    BY DEF NewestWriteKept
  <2>1. /\ TypeInv /\ Placed /\ Array(r) /\ Accounted(r) /\ Differs(r) /\ Overlaid(r)
        /\ fresh[r] = {} /\ dropped[r] = {}
    BY DEF KvInv, Sound, InTx
  <2>2. PICK w : w = Winner(seen[r])
    OBVIOUS
  <2>3. w \in seen[r] /\ \A f \in seen[r] \ {w} : Beats(w, f)
    BY <2>1, <2>2, WinnerIs DEF Array
  <2>4. \A f \in seen[r] : ~Beats(f, w)
    <3>1. seen[r] \subseteq InOrder
      BY <2>1 DEF Array
    <3> QED
      BY <2>1, <2>3, <3>1, BeatsOrders
  <2>5. w \in erased \/ w \in Live(r)
    BY <2>1, <2>3, <2>4 DEF Accounted, Live
  <2>6. w \in Live(r) => get(r) = w
    BY <2>1 DEF Differs, Overlaid, Indexed, get
  <2> QED
    BY <2>2, <2>5, <2>6
<1> QED
  BY <1>1, KvAlways, PTL

\* What get returns inside a transaction is what it returns once the observer has
\* run, unless the key was new in it and was deleted.
THEOREM ReadsSurviveCommit == Spec => CommitKeepsReads
<1>1. KvInv /\ [Next]_vars =>
        [\A r \in Replica : Commit(r) /\ (map[r] # NoEntry \/ ~hides[r]) => get(r)' = get(r)]_vars
  <2> SUFFICES ASSUME KvInv, NEW r \in Replica, Commit(r), map[r] # NoEntry \/ ~hides[r]
               PROVE  get(r)' = get(r)
    OBVIOUS
  <2>1. Overlaid(r) /\ InTx(r)
    BY DEF KvInv, Sound, Commit
  <2>2. /\ hides'[r] => map'[r] = NoEntry
        /\ write'[r] = NoEntry
        /\ write[r] # NoEntry => map'[r] = write[r]
        /\ hides[r] /\ map[r] # NoEntry => map'[r] = NoEntry
    BY CommitObserved
  <2>3. get(r)' = map'[r]
    BY <2>2 DEF get
  <2>4. CASE write[r] # NoEntry
    BY <2>1, <2>2, <2>3, <2>4 DEF Overlaid, get
  <2>5. CASE write[r] = NoEntry
    BY <2>1, <2>2, <2>3, <2>5 DEF Overlaid, get
  <2> QED
    BY <2>4, <2>5
<1> QED
  BY <1>1, KvAlways, PTL DEF Spec, CommitKeepsReads
=============================================================================
