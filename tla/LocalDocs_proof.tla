--------------------------- MODULE LocalDocs_proof ---------------------------
(***************************************************************************)
(* A page never has two live documents of one row, never destroys one      *)
(* under a holder, and a wipe waits for its own connections, for any tabs, *)
(* rows, documents, handles and reloads.                                   *)
(***************************************************************************)
EXTENDS LocalDocs, Integers, FiniteSetTheorems, TLAPS

Conn == {"opening", "loading", "open", "lost", "closed"}

Doc == [conn : Conn, ahead : SUBSET Tab, torndown : BOOLEAN, destroyed : BOOLEAN,
        count : Int, held : Int, armed : BOOLEAN, late : BOOLEAN]

TypeInv ==
    /\ docs \in [Tab -> [Db -> Seq(Doc)]]
    /\ cache \in [Tab -> [Row -> Nat]]
    /\ closing \subseteq Tab
    /\ wipe \in [Tab -> {"none", "draining", "deleting", "done"}]
    /\ awaiting \in [Tab -> SUBSET (Db \X (1..MaxBodies))]
    /\ deleting \in [Db -> SUBSET Tab]
    /\ stored \subseteq Db
    /\ reloads \in [Tab -> Nat]
    /\ evicted \subseteq Tab

\* A page is its root document, alone in its database, or is closed.
Pages ==
    \A t \in Tab :
        /\ Len(docs[t][Root]) <= 1
        /\ \A r \in Row : Len(docs[t][r]) <= MaxBodies
        /\ ~IsOpen(t) => \A r \in Row : docs[t][r] = <<>>

\* The entry c of a row is the live one of its documents q, whose handles it
\* counts; the grace timer runs for one that nobody holds.
Entry(q, c) ==
    /\ c # 0 => c \in DOMAIN q /\ ~q[c].destroyed
    /\ \A g \in DOMAIN q :
          /\ ~q[g].destroyed => c = g /\ q[g].count = q[g].held
          /\ q[g].armed => ~q[g].destroyed /\ q[g].held = 0

\* What is destroyed of a live workspace, nobody holds.
LetGo(q) == \A g \in DOMAIN q : q[g].destroyed => q[g].held = 0

Entries ==
    \A t \in Tab : \A r \in Row :
        /\ Entry(docs[t][r], cache[t][r])
        /\ RootLive(t) => LetGo(docs[t][r])

\* A wipe follows the destruction of the root, so that what is built after it
\* is late, and waits for everything else; what is closed stays closed.
Wipes ==
    \A t \in Tab : wipe[t] # "none" =>
        /\ IsOpen(t) /\ ~RootLive(t)
        /\ \A d \in Db : \A g \in DOMAIN docs[t][d] : ~docs[t][d][g].late =>
              IF wipe[t] = "draining" THEN <<d, g>> \in awaiting[t]
                                      ELSE docs[t][d][g].conn = "closed"

LocalDocsInv == TypeInv /\ Pages /\ Entries /\ Wipes

\* What the connection of a document goes through leaves the rest of it alone.
Rest(doc) == <<doc.destroyed, doc.count, doc.held, doc.armed, doc.late>>
OnlyConnection(doc, next) ==
    /\ Rest(next) = Rest(doc)
    /\ doc.conn = "closed" => next.conn = "closed"

-----------------------------------------------------------------------------
\* The sequences a page begins with.
LEMMA Empty ==
    ASSUME NEW S
    PROVE  <<>> \in Seq(S) /\ Len(<<>>) = 0 /\ DOMAIN <<>> = {}
OBVIOUS

\* The sequence of the root document.
LEMMA Single ==
    ASSUME NEW S, NEW x \in S
    PROVE  <<x>> \in Seq(S) /\ Len(<<x>>) = 1 /\ DOMAIN <<x>> = {1} /\ <<x>>[1] = x
OBVIOUS

\* What the cache counts of a document is of the type it had.
LEMMA Counted ==
    ASSUME NEW doc \in Doc, NEW c \in Int, NEW h \in Int, NEW b \in BOOLEAN
    PROVE  [doc EXCEPT !.count = c, !.held = h, !.armed = b] \in Doc
BY DEF Doc

\* open on a cached body (Reopened): one more holder, and no timer.
LEMMA ReopenedIs ==
    ASSUME NEW doc \in Doc
    PROVE  /\ Reopened(doc) \in Doc
           /\ Reopened(doc).conn = doc.conn
           /\ Reopened(doc).late = doc.late
           /\ Reopened(doc).destroyed = doc.destroyed
           /\ Reopened(doc).count = doc.count + 1
           /\ Reopened(doc).held = doc.held + 1
           /\ ~Reopened(doc).armed
<1>1. doc.count + 1 \in Int /\ doc.held + 1 \in Int
  BY DEF Doc
<1>2. Reopened(doc) \in Doc
  BY <1>1, Counted DEF Reopened
<1> QED
  BY <1>2 DEF Reopened, Doc

\* dispose of a handle (Released): one holder less, and a timer after the last.
LEMMA ReleasedIs ==
    ASSUME NEW doc \in Doc
    PROVE  /\ Released(doc) \in Doc
           /\ Released(doc).conn = doc.conn
           /\ Released(doc).late = doc.late
           /\ Released(doc).destroyed = doc.destroyed
           /\ Released(doc).held = doc.held - 1
           /\ doc.destroyed => Released(doc).armed = doc.armed
           /\ ~doc.destroyed => /\ Released(doc).count = doc.count - 1
                                /\ Released(doc).armed = (doc.count = 1)
<1>1. doc.count - 1 \in Int /\ doc.held - 1 \in Int
  BY DEF Doc
<1>2. CASE doc.destroyed
  BY <1>1, <1>2 DEF Released, Doc
<1>3. CASE ~doc.destroyed
  <2>1. PICK b \in BOOLEAN : b = (doc.count = 1)
    OBVIOUS
  <2>2. Released(doc) = [doc EXCEPT !.count = doc.count - 1, !.held = doc.held - 1, !.armed = b]
    BY <1>1, <1>3, <2>1 DEF Released, Doc
  <2>3. [doc EXCEPT !.count = doc.count - 1, !.held = doc.held - 1, !.armed = b] \in Doc
    BY <1>1, Counted
  <2>4. Released(doc) \in Doc
    BY <2>2, <2>3
  <2> QED
    BY <1>3, <2>4 DEF Released, Doc
<1> QED
  BY <1>2, <1>3

\* A sequence is a function on 1..Len.
LEMMA Family1 ==
    ASSUME TypeInv, NEW t \in Tab, NEW d \in Db
    PROVE  /\ docs[t][d] \in Seq(Doc)
           /\ Len(docs[t][d]) \in Nat
           /\ DOMAIN docs[t][d] = 1..Len(docs[t][d])
           /\ \A g \in DOMAIN docs[t][d] : docs[t][d][g] \in Doc
<1>1. docs[t][d] \in Seq(Doc)
  BY DEF TypeInv
<1> QED
  BY <1>1

\* Set (docs' = [docs EXCEPT ...]) changes one document and keeps the types.
LEMMA SetOne ==
    ASSUME TypeInv, NEW t \in Tab, NEW d \in Db, NEW g \in DOMAIN docs[t][d],
           NEW doc \in Doc, Set(t, d, g, doc)
    PROVE  /\ docs' \in [Tab -> [Db -> Seq(Doc)]]
           /\ \A u \in Tab : \A e \in Db :
                 /\ Len(docs'[u][e]) = Len(docs[u][e])
                 /\ DOMAIN docs'[u][e] = DOMAIN docs[u][e]
                 /\ \A k \in DOMAIN docs[u][e] :
                       docs'[u][e][k] = IF u = t /\ e = d /\ k = g THEN doc ELSE docs[u][e][k]
<1>1. /\ docs[t][d] \in Seq(Doc)
      /\ g \in 1..Len(docs[t][d])
      /\ Len(docs[t][d]) \in Nat
  BY Family1
<1> DEFINE new == [docs[t][d] EXCEPT ![g] = doc]
<1>2. /\ new \in Seq(Doc)
      /\ Len(new) = Len(docs[t][d])
      /\ DOMAIN new = DOMAIN docs[t][d]
      /\ \A k \in DOMAIN docs[t][d] : new[k] = IF k = g THEN doc ELSE docs[t][d][k]
  BY <1>1
<1>3. docs' = [docs EXCEPT ![t] = [docs[t] EXCEPT ![d] = new]]
  BY DEF Set
<1>4. docs \in [Tab -> [Db -> Seq(Doc)]]
  BY DEF TypeInv
<1> HIDE DEF new
<1>5. docs' \in [Tab -> [Db -> Seq(Doc)]]
  BY <1>2, <1>3, <1>4
<1>6. \A u \in Tab : \A e \in Db :
         docs'[u][e] = IF u = t /\ e = d THEN new ELSE docs[u][e]
  BY <1>3, <1>4
<1> QED
  BY <1>2, <1>5, <1>6

\* A step that only moves connections on keeps what the rest relies on.
LEMMA ConnectionsKeep ==
    ASSUME LocalDocsInv, TypeInv', UNCHANGED <<cache, awaiting>>,
           \A u \in Tab : wipe'[u] = wipe[u] \/ (wipe[u] = "deleting" /\ wipe'[u] = "done"),
           \A u \in Tab : \A e \in Db : Len(docs'[u][e]) = Len(docs[u][e]),
           \A u \in Tab : \A e \in Db : \A k \in DOMAIN docs[u][e] :
               OnlyConnection(docs[u][e][k], docs'[u][e][k])
    PROVE  Pages' /\ Entries' /\ Wipes'
<1>1. TypeInv /\ Pages /\ Entries /\ Wipes
  BY DEF LocalDocsInv
<1>2. ASSUME NEW u \in Tab, NEW e \in Db
      PROVE  /\ DOMAIN docs'[u][e] = DOMAIN docs[u][e]
             /\ Len(docs[u][e]) \in Nat
             /\ DOMAIN docs[u][e] = 1..Len(docs[u][e])
             /\ docs'[u][e] = <<>> <=> docs[u][e] = <<>>
  <2>1. docs[u][e] \in Seq(Doc) /\ docs'[u][e] \in Seq(Doc)
    BY <1>1 DEF TypeInv
  <2> QED
    BY <2>1
<1>3. Root \in Db /\ Row \subseteq Db
  BY DEF Db
<1>4. ASSUME NEW u \in Tab
      PROVE  (IsOpen(u)' <=> IsOpen(u)) /\ (RootLive(u)' <=> RootLive(u))
  <2>1. IsOpen(u)' <=> IsOpen(u)
    BY <1>2, <1>3 DEF IsOpen
  <2>2. IsOpen(u) => 1 \in DOMAIN docs[u][Root]
    BY <1>1, <1>3, Family1 DEF IsOpen
  <2>3. IsOpen(u) => docs'[u][Root][1].destroyed = docs[u][Root][1].destroyed
    BY <2>2, <1>3 DEF OnlyConnection, Rest
  <2> QED
    BY <2>1, <2>3 DEF RootLive
<1>5. Pages'
  BY <1>1, <1>2, <1>3, <1>4 DEF Pages
<1>6. Entries'
  <2> SUFFICES ASSUME NEW u \in Tab, NEW r \in Row
               PROVE  /\ Entry(docs'[u][r], cache[u][r])
                      /\ RootLive(u)' => LetGo(docs'[u][r])
    BY DEF Entries
  <2>1. PICK q, p : q = docs[u][r] /\ p = docs'[u][r]
    OBVIOUS
  <2>2. r \in Db /\ DOMAIN p = DOMAIN q
    BY <1>2, <1>3, <2>1
  <2>3. \A g \in DOMAIN q :
           /\ p[g].destroyed = q[g].destroyed /\ p[g].count = q[g].count
           /\ p[g].held = q[g].held /\ p[g].armed = q[g].armed
    BY <2>1, <2>2 DEF OnlyConnection, Rest
  <2>4. Entry(q, cache[u][r]) => Entry(p, cache[u][r])
    BY ONLY <2>2, <2>3 DEF Entry
  <2>5. LetGo(q) => LetGo(p)
    BY ONLY <2>2, <2>3 DEF LetGo
  <2>6. Entry(q, cache[u][r]) /\ (RootLive(u) => LetGo(q))
    BY <1>1, <2>1 DEF Entries
  <2>7. RootLive(u)' <=> RootLive(u)
    BY <1>4
  <2> QED
    BY ONLY <2>1, <2>4, <2>5, <2>6, <2>7
<1>7. Wipes'
  BY <1>1, <1>2, <1>3, <1>4 DEF Wipes, OnlyConnection, Rest
<1> QED
  BY <1>5, <1>6, <1>7

\* A root document is live or not whatever happens to the bodies of its page.
LEMMA RootApart ==
    ASSUME LocalDocsInv, NEW t \in Tab, NEW r \in Row, NEW g \in DOMAIN docs[t][r],
           NEW doc \in Doc, Set(t, r, g, doc), NEW u \in Tab
    PROVE  (IsOpen(u)' <=> IsOpen(u)) /\ (RootLive(u)' <=> RootLive(u))
<1>1. Root \in Db /\ Row \subseteq Db /\ r # Root
  BY LocalDocsAssumption DEF Db
<1>2. docs'[u][Root] = docs[u][Root]
  BY <1>1 DEF Set, LocalDocsInv, TypeInv
<1> QED
  BY <1>2 DEF IsOpen, RootLive

\* A body changes, and its entry may leave the cache with it.
LEMMA BodyChanges ==
    ASSUME LocalDocsInv, NEW t \in Tab, NEW r \in Row, NEW g \in DOMAIN docs[t][r],
           NEW doc \in Doc, Set(t, r, g, doc), UNCHANGED <<wipe, awaiting>>,
           doc.conn = docs[t][r][g].conn, doc.late = docs[t][r][g].late,
           \A u \in Tab : \A q \in Row : u # t \/ q # r => cache'[u][q] = cache[u][q],
           cache'[t][r] = cache[t][r] \/ (cache[t][r] = g /\ cache'[t][r] = 0),
           cache'[t][r] = g /\ g # 0 => ~doc.destroyed,
           ~doc.destroyed => cache'[t][r] = g /\ doc.count = doc.held,
           doc.armed => ~doc.destroyed /\ doc.held = 0,
           doc.destroyed /\ RootLive(t) => doc.held = 0
    PROVE  Pages' /\ Entries' /\ Wipes'
<1>1. TypeInv /\ Pages /\ Entries /\ Wipes
  BY DEF LocalDocsInv
<1>2. Root \in Db /\ Row \subseteq Db /\ r \in Db
  BY DEF Db
<1>3. \A u \in Tab : \A e \in Db :
         /\ Len(docs'[u][e]) = Len(docs[u][e])
         /\ DOMAIN docs'[u][e] = DOMAIN docs[u][e]
         /\ \A k \in DOMAIN docs[u][e] :
               docs'[u][e][k] = IF u = t /\ e = r /\ k = g THEN doc ELSE docs[u][e][k]
  BY <1>1, <1>2, SetOne
<1>4. \A u \in Tab : (IsOpen(u)' <=> IsOpen(u)) /\ (RootLive(u)' <=> RootLive(u))
  BY RootApart
<1>5. g # 0
  BY <1>1, <1>2, Family1
<1>6. Pages'
  <2>1. \A u \in Tab : \A q \in Row : docs[u][q] = <<>> => docs'[u][q] = <<>>
    <3> SUFFICES ASSUME NEW u \in Tab, NEW q \in Row, docs[u][q] = <<>>
                 PROVE  docs'[u][q] = <<>>
      OBVIOUS
    <3>1. docs'[u][q] \in Seq(Doc) /\ Len(docs'[u][q]) = 0
      BY <1>1, <1>2, <1>3, SetOne
    <3> QED
      BY <3>1
  <2> QED
    BY <1>1, <1>2, <1>3, <1>4, <2>1 DEF Pages
<1>7. Entries'
  <2> SUFFICES ASSUME NEW u \in Tab, NEW q \in Row
               PROVE  /\ Entry(docs'[u][q], cache'[u][q])
                      /\ RootLive(u)' => LetGo(docs'[u][q])
    BY DEF Entries
  <2>1. q \in Db
    BY <1>2
  <2>2. Entry(docs[u][q], cache[u][q]) /\ (RootLive(u) => LetGo(docs[u][q]))
    BY <1>1 DEF Entries
  <2>3. CASE u = t /\ q = r
    <3>1. PICK old, new, c, b :
             old = docs[t][r] /\ new = docs'[t][r] /\ c = cache[t][r] /\ b = cache'[t][r]
      OBVIOUS
    <3>2. /\ DOMAIN new = DOMAIN old
          /\ \A k \in DOMAIN old : new[k] = IF k = g THEN doc ELSE old[k]
      BY <1>2, <1>3, <3>1
    <3>3. Entry(old, c) /\ (RootLive(t) => LetGo(old))
      BY ONLY <2>2, <2>3, <3>1
    <3>4. g \in DOMAIN old /\ (b = c \/ (b = 0 /\ c = g))
      BY <3>1
    <3>5. /\ b = g /\ g # 0 => ~doc.destroyed
          /\ ~doc.destroyed => b = g /\ doc.count = doc.held
          /\ doc.armed => ~doc.destroyed /\ doc.held = 0
          /\ doc.destroyed /\ RootLive(t) => doc.held = 0
      BY <3>1
    <3>6. Entry(new, b)
      BY ONLY <1>5, <3>2, <3>3, <3>4, <3>5 DEF Entry
    <3>7. RootLive(t) => LetGo(new)
      BY ONLY <3>2, <3>3, <3>5 DEF LetGo
    <3> QED
      BY <1>4, <2>3, <3>1, <3>6, <3>7
  <2>4. CASE u # t \/ q # r
    <3>1. docs'[u][q] = docs[u][q]
      BY <1>1, <1>2, <2>1, <2>4 DEF Set, TypeInv
    <3>2. cache'[u][q] = cache[u][q]
      BY <2>4
    <3> QED
      BY <1>4, <2>2, <3>1, <3>2
  <2> QED
    BY <2>3, <2>4
<1>8. Wipes'
  BY <1>1, <1>3, <1>4 DEF Wipes
<1> QED
  BY <1>6, <1>7, <1>8

-----------------------------------------------------------------------------
\* The invariant holds of freshly opened pages.
LEMMA LocalDocsInit == Init => LocalDocsInv
<1> SUFFICES ASSUME Init PROVE LocalDocsInv
  OBVIOUS
<1>1. Root \in Db /\ Row \subseteq Db /\ Root \notin Row
  BY LocalDocsAssumption DEF Db
<1>2. Built({}, FALSE) \in Doc
  BY DEF Built, Doc, Conn
<1>3. Page({}) \in [Db -> Seq(Doc)]
  <2>1. <<Built({}, FALSE)>> \in Seq(Doc) /\ <<>> \in Seq(Doc)
    BY <1>2, Empty, Single
  <2> QED
    BY <2>1 DEF Page
<1>4. \A t \in Tab : /\ docs[t][Root] = <<Built({}, FALSE)>>
                     /\ \A r \in Row : docs[t][r] = <<>>
  BY <1>1 DEF Init, Page
<1>5. TypeInv
  BY <1>3 DEF Init, TypeInv, NoEntries
<1>6. Pages
  <2>1. \A t \in Tab : Len(docs[t][Root]) <= 1
    <3>1. Len(<<Built({}, FALSE)>>) = 1
      BY <1>2, Single
    <3> HIDE DEF Built
    <3>2. \A t \in Tab : Len(docs[t][Root]) = 1
      BY <1>4, <3>1
    <3>3. SUFFICES ASSUME NEW t \in Tab PROVE Len(docs[t][Root]) <= 1
      OBVIOUS
    <3>4. Len(docs[t][Root]) = 1
      BY <3>2
    <3> QED
      BY <3>4
  <2>2. \A t \in Tab : \A r \in Row : Len(docs[t][r]) = 0
    BY <1>4, Empty
  <2> QED
    BY <1>4, <2>1, <2>2, LocalDocsAssumption DEF Pages
<1>7. Entries
  <2>1. \A t \in Tab : \A r \in Row : DOMAIN docs[t][r] = {} /\ cache[t][r] = 0
    BY <1>4, Empty DEF Init, NoEntries
  <2> QED
    BY <2>1 DEF Entries, Entry, LetGo
<1>8. Wipes
  BY DEF Wipes, Init
<1> QED
  BY <1>5, <1>6, <1>7, <1>8 DEF LocalDocsInv

\* The row of a connection, or the deletion that lets it open, moves on.
LEMMA ConnectionStep ==
    ASSUME LocalDocsInv, NEW t \in Tab, NEW d \in Db, NEW g \in DOMAIN docs[t][d],
           Opened(t, d, g) \/ Loaded(t, d, g) \/ Closed(t, d, g) \/ VersionChange(t, d, g)
    PROVE  LocalDocsInv'
<1>1. TypeInv
  BY DEF LocalDocsInv
<1>2. docs[t][d][g] \in Doc
  BY <1>1, Family1
<1>3. PICK doc \in Doc : Set(t, d, g, doc) /\ OnlyConnection(docs[t][d][g], doc)
  BY <1>2 DEF Opened, Loaded, Closed, VersionChange, Doc, Conn, OnlyConnection, Rest
<1>4. UNCHANGED <<cache, closing, wipe, awaiting, deleting, reloads>>
  BY DEF Opened, Loaded, Closed, VersionChange
<1>5. stored' \subseteq Db /\ evicted' \subseteq Tab
  BY <1>1 DEF TypeInv, Opened, Loaded, Closed, VersionChange
<1>6. /\ docs' \in [Tab -> [Db -> Seq(Doc)]]
      /\ \A u \in Tab : \A e \in Db :
            /\ Len(docs'[u][e]) = Len(docs[u][e])
            /\ DOMAIN docs'[u][e] = DOMAIN docs[u][e]
            /\ \A k \in DOMAIN docs[u][e] :
                  docs'[u][e][k] = IF u = t /\ e = d /\ k = g THEN doc ELSE docs[u][e][k]
  BY <1>1, <1>3, SetOne
<1>7. TypeInv'
  BY <1>1, <1>4, <1>5, <1>6 DEF TypeInv
<1>8. \A u \in Tab : \A e \in Db : \A k \in DOMAIN docs[u][e] :
          OnlyConnection(docs[u][e][k], docs'[u][e][k])
  BY <1>3, <1>6 DEF OnlyConnection
<1>9. Pages' /\ Entries' /\ Wipes'
  BY <1>4, <1>6, <1>7, <1>8, ConnectionsKeep
<1> QED
  BY <1>7, <1>9 DEF LocalDocsInv

\* A row is opened: a document is built, late if the root is gone, or the one
\* in the cache gets one more holder and its timer is cancelled.
LEMMA OpenStep ==
    ASSUME LocalDocsInv, NEW t \in Tab, NEW r \in Row, open(t, r)
    PROVE  LocalDocsInv'
<1>1. TypeInv /\ Pages /\ Entries /\ Wipes
  BY DEF LocalDocsInv
<1>2. Root \in Db /\ Row \subseteq Db /\ r # Root /\ r \in Db
  BY LocalDocsAssumption DEF Db
<1>3. /\ docs[t][r] \in Seq(Doc)
      /\ Len(docs[t][r]) \in Nat
      /\ DOMAIN docs[t][r] = 1..Len(docs[t][r])
  BY <1>1, <1>2, Family1
<1>4. UNCHANGED <<closing, wipe, awaiting, deleting, stored, reloads, evicted>>
  BY DEF open
<1>5. CASE cache[t][r] = 0
  <2> DEFINE new == Reopened(Built(deleting[r], ~RootLive(t)))
             n == Len(docs[t][r]) + 1
  <2>1. /\ new \in Doc
        /\ ~new.destroyed /\ new.count = new.held /\ ~new.armed
        /\ new.late = ~RootLive(t)
    <3> DEFINE built == Built(deleting[r], ~RootLive(t))
    <3>1. deleting[r] \in SUBSET Tab /\ (~RootLive(t)) \in BOOLEAN
      BY <1>1, <1>2 DEF TypeInv
    <3>2. PICK b \in BOOLEAN : b = ~RootLive(t)
      OBVIOUS
    <3>3. built = Built(deleting[r], b)
      BY <3>2
    <3>4. built \in Doc /\ built.late = b /\ ~built.destroyed /\ built.count = 0 /\ built.held = 0
      BY <3>1, <3>3 DEF Built, Doc, Conn
    <3> HIDE DEF built
    <3>5. new = Reopened(built)
      BY DEF built
    <3> HIDE DEF new
    <3>6. /\ new \in Doc /\ ~new.destroyed /\ new.count = 1 /\ new.held = 1 /\ ~new.armed
          /\ new.late = b
      BY <3>4, <3>5, ReopenedIs
    <3> QED
      BY <3>2, <3>6
  <2>2. /\ Len(docs[t][r]) < BodiesOf[t]
        /\ docs' = [docs EXCEPT ![t][r] = Append(@, new)]
        /\ cache' = [cache EXCEPT ![t][r] = Len(docs'[t][r])]
    BY <1>5 DEF open
  <2> HIDE DEF new
  <2>3. /\ Append(docs[t][r], new) \in Seq(Doc)
        /\ Len(Append(docs[t][r], new)) = n
        /\ DOMAIN Append(docs[t][r], new) = 1..n
        /\ \A k \in 1..n :
              Append(docs[t][r], new)[k] = IF k = n THEN new ELSE docs[t][r][k]
    BY <1>3, <2>1
  <2>4. /\ docs' = [docs EXCEPT ![t] = [docs[t] EXCEPT ![r] = Append(docs[t][r], new)]]
        /\ docs \in [Tab -> [Db -> Seq(Doc)]]
    BY <1>1, <2>2 DEF TypeInv
  <2>5. docs' \in [Tab -> [Db -> Seq(Doc)]]
    BY <1>2, <2>3, <2>4
  <2>6. \A u \in Tab : \A e \in Db :
           docs'[u][e] = IF u = t /\ e = r THEN Append(docs[t][r], new) ELSE docs[u][e]
    BY <1>2, <2>4
  <2>7. cache' = [cache EXCEPT ![t][r] = n]
    BY <1>2, <2>2, <2>3, <2>6
  <2>8. n \in Nat /\ n # 0
    BY <1>3
  <2>9. TypeInv'
    BY <1>1, <1>4, <2>5, <2>7, <2>8 DEF TypeInv
  <2>10. \A u \in Tab : \A q \in Row :
            cache'[u][q] = IF u = t /\ q = r THEN n ELSE cache[u][q]
    BY <1>1, <2>7 DEF TypeInv
  <2>11. \A u \in Tab : docs'[u][Root] = docs[u][Root]
    BY <1>2, <2>6
  <2>12. \A u \in Tab : (IsOpen(u)' <=> IsOpen(u)) /\ (RootLive(u)' <=> RootLive(u))
    BY <2>11 DEF IsOpen, RootLive
  <2>13. Pages'
    <3>1. n <= MaxBodies
      BY <1>3, <2>2, LocalDocsAssumption
    <3>2. IsOpen(t)
      BY DEF open
    <3>3. \A u \in Tab : Len(docs'[u][Root]) <= 1
      BY <1>1, <2>11 DEF Pages
    <3>4. ASSUME NEW u \in Tab, NEW q \in Row
          PROVE  Len(docs'[u][q]) <= MaxBodies
      <4>1. q \in Db
        BY <1>2
      <4>2. CASE u = t /\ q = r
        <5>1. docs'[u][q] = Append(docs[t][r], new)
          BY <2>6, <4>1, <4>2
        <5> QED
          BY <2>3, <3>1, <5>1
      <4>3. CASE u # t \/ q # r
        BY <1>1, <2>6, <4>1, <4>3 DEF Pages
      <4> QED
        BY <4>2, <4>3
    <3>5. ASSUME NEW u \in Tab, ~IsOpen(u)', NEW q \in Row
          PROVE  docs'[u][q] = <<>>
      BY <1>1, <1>2, <2>6, <2>12, <3>2, <3>5 DEF Pages
    <3> QED
      BY <3>3, <3>4, <3>5 DEF Pages
  <2>14. Entries'
    <3> SUFFICES ASSUME NEW u \in Tab, NEW q \in Row
                 PROVE  /\ Entry(docs'[u][q], cache'[u][q])
                        /\ RootLive(u)' => LetGo(docs'[u][q])
      BY DEF Entries
    <3>1. Entry(docs[u][q], cache[u][q]) /\ (RootLive(u) => LetGo(docs[u][q]))
      BY <1>1 DEF Entries
    <3>2. q \in Db
      BY <1>2
    <3>3. CASE u = t /\ q = r
      <4>1. PICK old, p : old = docs[t][r] /\ p = Append(docs[t][r], new)
        OBVIOUS
      <4>2. docs'[u][q] = p /\ cache'[u][q] = n
        BY <2>6, <2>10, <3>2, <3>3, <4>1
      <4>3. /\ DOMAIN p = 1..n /\ n \in 1..n
            /\ \A k \in 1..n : k # n => k \in DOMAIN old
            /\ \A k \in 1..n : p[k] = IF k = n THEN new ELSE old[k]
        BY <1>3, <2>3, <2>8, <4>1
      <4>4. Entry(old, 0) /\ (RootLive(t) => LetGo(old)) /\ 0 \notin DOMAIN old
        BY <1>3, <1>5, <3>1, <3>3, <4>1
      <4>5. Entry(p, n)
        BY ONLY <2>1, <2>8, <4>3, <4>4 DEF Entry
      <4>6. RootLive(t) => LetGo(p)
        BY ONLY <2>1, <4>3, <4>4 DEF LetGo
      <4> QED
        BY <2>12, <3>3, <4>2, <4>5, <4>6
    <3>4. CASE u # t \/ q # r
      <4>1. docs'[u][q] = docs[u][q] /\ cache'[u][q] = cache[u][q]
        BY <2>6, <2>10, <3>2, <3>4
      <4> QED
        BY <2>12, <3>1, <4>1
    <3> QED
      BY <3>3, <3>4
  <2>15. Wipes'
    <3> SUFFICES ASSUME NEW u \in Tab, wipe[u] # "none", NEW e \in Db, NEW k \in DOMAIN docs'[u][e],
                        ~docs'[u][e][k].late
                 PROVE  IF wipe[u] = "draining" THEN <<e, k>> \in awaiting[u]
                                                ELSE docs'[u][e][k].conn = "closed"
      BY <1>1, <1>4, <2>12 DEF Wipes
    <3>1. k \in DOMAIN docs[u][e] /\ docs'[u][e][k] = docs[u][e][k]
      <4>1. CASE u = t /\ e = r
        <5>1. ~RootLive(t)
          BY <1>1, <4>1 DEF Wipes
        <5>2. k # n
          BY <2>1, <2>3, <2>6, <4>1, <5>1
        <5>3. docs'[u][e] = Append(docs[t][r], new)
          BY <1>2, <2>6, <4>1
        <5>4. k \in 1..n
          BY <2>3, <5>3
        <5>5. k \in DOMAIN docs[t][r]
          BY <1>3, <5>2, <5>4
        <5> QED
          BY <2>3, <4>1, <5>2, <5>3, <5>4, <5>5
      <4>2. CASE u # t \/ e # r
        BY <2>6, <4>2
      <4> QED
        BY <4>1, <4>2
    <3> QED
      BY <1>1, <3>1 DEF Wipes
  <2> QED
    BY <2>9, <2>13, <2>14, <2>15 DEF LocalDocsInv
<1>6. CASE cache[t][r] # 0
  <2> DEFINE g == cache[t][r]
             doc == Reopened(docs[t][r][g])
  <2>1. g \in DOMAIN docs[t][r] /\ ~docs[t][r][g].destroyed
    BY <1>1, <1>6 DEF Entries, Entry
  <2>2. PICK old : old = docs[t][r][g]
    OBVIOUS
  <2>3. /\ doc \in Doc
        /\ doc.conn = docs[t][r][g].conn /\ doc.late = docs[t][r][g].late
        /\ ~doc.destroyed /\ doc.count = doc.held /\ ~doc.armed
    <3>1. Entry(docs[t][r], g)
      BY <1>1 DEF Entries
    <3>2. ~old.destroyed /\ old.count = old.held
      BY ONLY <2>1, <2>2, <3>1 DEF Entry
    <3>3. old \in Doc
      BY <1>1, <1>2, <2>1, <2>2, Family1
    <3>4. PICK new : new = Reopened(old)
      OBVIOUS
    <3>5. new \in Doc
      BY ONLY <3>3, <3>4, ReopenedIs
    <3>6. /\ new.conn = old.conn /\ new.late = old.late /\ new.destroyed = old.destroyed
          /\ new.count = old.count + 1 /\ new.held = old.held + 1 /\ ~new.armed
      BY ONLY <3>3, <3>4, ReopenedIs
    <3>7. ~new.destroyed /\ new.count = new.held
      BY ONLY <3>2, <3>6
    <3>8. doc = new
      BY ONLY <2>2, <3>4 DEF doc
    <3> QED
      BY ONLY <2>2, <3>5, <3>6, <3>7, <3>8
  <2>4. Set(t, r, g, doc) /\ UNCHANGED cache
    BY <1>6 DEF open
  <2>5. cache'[t][r] = g
    BY <2>4
  <2> HIDE DEF g, doc
  <2>6. docs' \in [Tab -> [Db -> Seq(Doc)]]
    BY <1>1, <1>2, <2>1, <2>3, <2>4, SetOne
  <2>7. TypeInv'
    BY <1>1, <1>4, <2>4, <2>6 DEF TypeInv
  <2>8. Pages' /\ Entries' /\ Wipes'
    BY <1>4, <2>1, <2>3, <2>4, <2>5, BodyChanges
  <2> QED
    BY <2>7, <2>8 DEF LocalDocsInv
<1> QED
  BY <1>5, <1>6

\* A handle is disposed; the last one starts the grace period.
LEMMA ReleaseStep ==
    ASSUME LocalDocsInv, NEW t \in Tab, NEW r \in Row, NEW g \in 1..MaxBodies, Release(t, r, g)
    PROVE  LocalDocsInv'
<1>1. TypeInv /\ Entries
  BY DEF LocalDocsInv
<1>2. r \in Db /\ g \in DOMAIN docs[t][r]
  BY DEF Db, Release
<1> DEFINE old == docs[t][r][g]
           doc == Released(old)
<1>3. /\ old \in Doc /\ old.held > 0
      /\ ~old.destroyed => cache[t][r] = g /\ old.count = old.held
      /\ old.armed => ~old.destroyed /\ old.held = 0
      /\ old.destroyed /\ RootLive(t) => old.held = 0
      /\ cache[t][r] = g /\ g # 0 => ~old.destroyed
  <2>1. Entry(docs[t][r], cache[t][r]) /\ (RootLive(t) => LetGo(docs[t][r]))
    BY <1>1 DEF Entries
  <2>2. old \in Doc /\ old.held > 0
    BY <1>1, <1>2, Family1 DEF Release
  <2> QED
    BY ONLY <1>2, <2>1, <2>2 DEF Entry, LetGo, old
<1>4. /\ doc \in Doc
      /\ doc.conn = old.conn /\ doc.late = old.late
      /\ doc.destroyed = old.destroyed
      /\ ~doc.destroyed => doc.count = doc.held
      /\ doc.armed => ~doc.destroyed /\ doc.held = 0
  <2>1. old.held \in Int /\ old.count \in Int
    BY <1>3 DEF Doc
  <2>2. /\ doc \in Doc
        /\ doc.conn = old.conn /\ doc.late = old.late
        /\ doc.destroyed = old.destroyed
        /\ doc.held = old.held - 1
        /\ old.destroyed => doc.armed = old.armed
        /\ ~old.destroyed => doc.count = old.count - 1 /\ doc.armed = (old.count = 1)
    BY <1>3, ReleasedIs
  <2> HIDE DEF old, doc
  <2>3. ASSUME doc.armed
        PROVE  ~doc.destroyed /\ doc.held = 0
    <3>1. CASE old.destroyed
      BY <1>3, <2>2, <2>3, <3>1
    <3>2. CASE ~old.destroyed
      <4>1. old.count = 1
        BY <2>2, <2>3, <3>2
      <4> QED
        BY <1>3, <2>2, <3>2, <4>1
    <3> QED
      BY <3>1, <3>2
  <2> QED
    BY <1>3, <2>2, <2>3
<1>5. /\ Set(t, r, g, doc)
      /\ UNCHANGED <<cache, closing, wipe, awaiting, deleting, stored, reloads, evicted>>
  BY DEF Release
<1> HIDE DEF doc
<1>6. docs' \in [Tab -> [Db -> Seq(Doc)]]
  BY <1>1, <1>2, <1>4, <1>5, SetOne
<1>7. TypeInv'
  BY <1>1, <1>5, <1>6 DEF TypeInv
<1>8. /\ doc.destroyed /\ RootLive(t) => doc.held = 0
      /\ cache'[t][r] = g /\ g # 0 => ~doc.destroyed
      /\ ~doc.destroyed => cache'[t][r] = g /\ doc.count = doc.held
  BY <1>3, <1>4, <1>5
<1>9. Pages' /\ Entries' /\ Wipes'
  BY <1>2, <1>4, <1>5, <1>8, BodyChanges
<1> QED
  BY <1>7, <1>9 DEF LocalDocsInv

\* The grace period ends: the document is destroyed and its entry leaves.
LEMMA GraceStep ==
    ASSUME LocalDocsInv, NEW t \in Tab, NEW r \in Row, NEW g \in 1..MaxBodies, GraceEnds(t, r, g)
    PROVE  LocalDocsInv'
<1>1. TypeInv /\ Entries
  BY DEF LocalDocsInv
<1>2. r \in Db /\ g \in DOMAIN docs[t][r] /\ g \in Nat
  BY DEF Db, GraceEnds
<1> DEFINE old == docs[t][r][g]
           doc == Destroyed(old)
<1>3. /\ old \in Doc
      /\ ~old.destroyed /\ old.held = 0
      /\ cache[t][r] = g
  <2>1. Entry(docs[t][r], cache[t][r])
    BY <1>1 DEF Entries
  <2>2. old \in Doc /\ old.armed
    BY <1>1, <1>2, Family1 DEF GraceEnds
  <2> QED
    BY ONLY <1>2, <2>1, <2>2 DEF Entry, old
<1>4. /\ doc \in Doc
      /\ doc.conn = old.conn /\ doc.late = old.late
      /\ doc.destroyed /\ doc.held = 0 /\ ~doc.armed
  BY <1>3 DEF Destroyed, Doc
<1>5. /\ Set(t, r, g, doc)
      /\ UNCHANGED <<closing, wipe, awaiting, deleting, stored, reloads, evicted>>
      /\ cache' = [cache EXCEPT ![t][r] = 0]
  BY <1>3 DEF GraceEnds
<1> HIDE DEF doc
<1>6. docs' \in [Tab -> [Db -> Seq(Doc)]]
  BY <1>1, <1>2, <1>4, <1>5, SetOne
<1>7. TypeInv'
  BY <1>1, <1>5, <1>6 DEF TypeInv
<1>8. /\ cache'[t][r] = 0
      /\ \A u \in Tab : \A q \in Row : u # t \/ q # r => cache'[u][q] = cache[u][q]
  BY <1>1, <1>5 DEF TypeInv
<1>9. g # 0
  BY <1>2
<1>10. Pages' /\ Entries' /\ Wipes'
  BY <1>2, <1>3, <1>4, <1>5, <1>8, <1>9, BodyChanges
<1> QED
  BY <1>7, <1>10 DEF LocalDocsInv

\* A page whose documents are changed one by one keeps its sequences.
LEMMA Mapped ==
    ASSUME NEW S, NEW T, NEW s \in Seq(S), NEW f(_), \A g \in DOMAIN s : f(g) \in T
    PROVE  /\ [g \in DOMAIN s |-> f(g)] \in Seq(T)
           /\ Len([g \in DOMAIN s |-> f(g)]) = Len(s)
OBVIOUS

\* The root is destroyed, and with it the cache and every body in it.
LEMMA Disposing ==
    ASSUME LocalDocsInv, NEW t \in Tab, RootLive(t), DisposeWorkspace(t)
    PROVE  /\ docs' \in [Tab -> [Db -> Seq(Doc)]]
           /\ cache' \in [Tab -> [Row -> Nat]]
           /\ closing' \subseteq Tab
           /\ Pages' /\ Entries'
           /\ IsOpen(t)' /\ ~RootLive(t)'
           /\ \A u \in Tab \ {t} : docs'[u] = docs[u]
           /\ \A d \in Db : DOMAIN docs'[t][d] = DOMAIN docs[t][d]
<1>1. TypeInv /\ Pages /\ Entries
  BY DEF LocalDocsInv
<1>2. Root \in Db /\ Row \subseteq Db /\ Root \notin Row
  BY LocalDocsAssumption DEF Db
<1> DEFINE Next1(d, g) == IF d = Root \/ cache[t][d] = g
                          THEN Destroyed(docs[t][d][g]) ELSE docs[t][d][g]
<1>3. \A d \in Db : \A g \in DOMAIN docs[t][d] :
         /\ docs[t][d][g] \in Doc
         /\ Destroyed(docs[t][d][g]) \in Doc
         /\ Destroyed(docs[t][d][g]).destroyed
         /\ ~Destroyed(docs[t][d][g]).armed
  <2> SUFFICES ASSUME NEW d \in Db, NEW g \in DOMAIN docs[t][d]
               PROVE  /\ docs[t][d][g] \in Doc
                      /\ Destroyed(docs[t][d][g]) \in Doc
                      /\ Destroyed(docs[t][d][g]).destroyed
                      /\ ~Destroyed(docs[t][d][g]).armed
    OBVIOUS
  <2>1. docs[t][d][g] \in Doc
    BY <1>1, Family1
  <2> QED
    BY <2>1 DEF Destroyed, Doc
<1>4. \A d \in Db : \A g \in DOMAIN docs[t][d] : Next1(d, g) \in Doc
  BY <1>3
<1> HIDE DEF Next1
<1>5. docs' = [docs EXCEPT ![t] = [d \in Db |-> [g \in DOMAIN docs[t][d] |-> Next1(d, g)]]]
  BY DEF DisposeWorkspace, Next1
<1>6. ASSUME NEW d \in Db
      PROVE  /\ [g \in DOMAIN docs[t][d] |-> Next1(d, g)] \in Seq(Doc)
             /\ Len([g \in DOMAIN docs[t][d] |-> Next1(d, g)]) = Len(docs[t][d])
  <2>1. docs[t][d] \in Seq(Doc)
    BY <1>1, Family1
  <2> QED
    BY <1>4, <2>1
<1>7. docs \in [Tab -> [Db -> Seq(Doc)]]
  BY <1>1 DEF TypeInv
<1>8. docs' \in [Tab -> [Db -> Seq(Doc)]]
  BY <1>5, <1>6, <1>7
<1>9. \A u \in Tab \ {t} : docs'[u] = docs[u]
  BY <1>5, <1>7
<1>10. \A d \in Db : /\ DOMAIN docs'[t][d] = DOMAIN docs[t][d]
                     /\ Len(docs'[t][d]) = Len(docs[t][d])
                     /\ \A g \in DOMAIN docs[t][d] : docs'[t][d][g] = Next1(d, g)
  BY <1>5, <1>6, <1>7
<1>11. /\ cache' \in [Tab -> [Row -> Nat]]
       /\ \A r \in Row : cache'[t][r] = 0
       /\ \A u \in Tab \ {t} : cache'[u] = cache[u]
  BY <1>1 DEF DisposeWorkspace, NoEntries, TypeInv
<1>12. docs[t][Root] # <<>> /\ 1 \in DOMAIN docs[t][Root]
  BY <1>1, <1>2, Family1 DEF RootLive, IsOpen
<1>13. docs'[t][Root] # <<>> /\ docs'[t][Root][1].destroyed
  <2>1. docs'[t][Root] \in Seq(Doc) /\ 1 \in DOMAIN docs'[t][Root]
    BY <1>2, <1>8, <1>10, <1>12
  <2>2. docs'[t][Root] # <<>>
    BY <2>1
  <2> QED
    BY <1>2, <1>3, <1>10, <1>12, <2>2 DEF Next1
<1>14. IsOpen(t)' /\ ~RootLive(t)'
  BY <1>13 DEF IsOpen, RootLive
<1>15. \A u \in Tab \ {t} : (IsOpen(u)' <=> IsOpen(u)) /\ (RootLive(u)' <=> RootLive(u))
  BY <1>9 DEF IsOpen, RootLive
<1>16. Pages'
  <2> SUFFICES ASSUME NEW u \in Tab
               PROVE  /\ Len(docs'[u][Root]) <= 1
                      /\ \A r \in Row : Len(docs'[u][r]) <= MaxBodies
                      /\ ~IsOpen(u)' => \A r \in Row : docs'[u][r] = <<>>
    BY DEF Pages
  <2>1. CASE u = t
    BY <1>1, <1>2, <1>10, <1>14, <2>1 DEF Pages
  <2>2. CASE u # t
    BY <1>1, <1>9, <1>15, <2>2 DEF Pages
  <2> QED
    BY <2>1, <2>2
<1>17. Entries'
  <2> SUFFICES ASSUME NEW u \in Tab, NEW r \in Row
               PROVE  /\ Entry(docs'[u][r], cache'[u][r])
                      /\ RootLive(u)' => LetGo(docs'[u][r])
    BY DEF Entries
  <2>1. Entry(docs[u][r], cache[u][r]) /\ (RootLive(u) => LetGo(docs[u][r]))
    BY <1>1 DEF Entries
  <2>2. CASE u = t
    <3>1. ASSUME NEW g \in DOMAIN docs[t][r]
          PROVE  Next1(r, g).destroyed /\ ~Next1(r, g).armed
      <4>1. CASE cache[t][r] = g
        BY <1>2, <1>3, <4>1 DEF Next1
      <4>2. CASE cache[t][r] # g
        <5>1. Next1(r, g) = docs[t][r][g]
          BY <1>2, <4>2 DEF Next1
        <5> QED
          BY <2>1, <2>2, <4>2, <5>1 DEF Entry
      <4> QED
        BY <4>1, <4>2
    <3>2. PICK q, p : q = docs[t][r] /\ p = docs'[t][r]
      OBVIOUS
    <3>3. DOMAIN p = DOMAIN q /\ \A g \in DOMAIN q : p[g].destroyed /\ ~p[g].armed
      BY <1>2, <1>10, <3>1, <3>2
    <3>4. Entry(p, 0)
      BY ONLY <3>3 DEF Entry
    <3> QED
      BY <1>11, <1>14, <2>2, <3>2, <3>4
  <2>3. CASE u # t
    <3>1. docs'[u] = docs[u] /\ cache'[u] = cache[u]
      BY <1>9, <1>11, <2>3
    <3> QED
      BY <1>15, <2>1, <2>3, <3>1
  <2> QED
    BY <2>2, <2>3
<1>18. closing' \subseteq Tab
  BY <1>1 DEF DisposeWorkspace, TypeInv
<1> QED
  BY <1>8, <1>9, <1>10, <1>11, <1>14, <1>16, <1>17, <1>18

\* The workspace is disposed, with no wipe.
LEMMA DisposeStep == ASSUME LocalDocsInv, NEW t \in Tab, Dispose(t) PROVE LocalDocsInv'
<1>1. TypeInv /\ Wipes /\ RootLive(t) /\ DisposeWorkspace(t)
  BY DEF LocalDocsInv, Dispose
<1>2. UNCHANGED <<wipe, awaiting, deleting, stored, reloads, evicted>>
  BY DEF Dispose
<1>3. TypeInv'
  BY <1>1, <1>2, Disposing DEF TypeInv
<1>4. \A u \in Tab : wipe[u] # "none" => u # t /\ docs'[u] = docs[u]
  BY <1>1, Disposing DEF Wipes
<1>5. Wipes'
  BY <1>1, <1>2, <1>4 DEF Wipes, IsOpen, RootLive
<1> QED
  BY <1>1, <1>3, <1>5, Disposing DEF LocalDocsInv

\* A wipe begins: from here on what is built is late, and all there is is
\* waited for.
LEMMA WipeStep == ASSUME LocalDocsInv, NEW t \in Tab, Wipe(t) PROVE LocalDocsInv'
<1>1. TypeInv /\ Pages /\ Entries /\ Wipes
  BY DEF LocalDocsInv
<1>2. /\ UNCHANGED <<deleting, stored, reloads, evicted>>
      /\ wipe' = [wipe EXCEPT ![t] = "draining"]
      /\ awaiting' = [awaiting EXCEPT ![t] = Family(t)]
  BY DEF Wipe
<1>3. /\ docs' \in [Tab -> [Db -> Seq(Doc)]]
      /\ cache' \in [Tab -> [Row -> Nat]]
      /\ closing' \subseteq Tab
      /\ Pages' /\ Entries'
      /\ IsOpen(t)' /\ ~RootLive(t)'
      /\ \A u \in Tab \ {t} : docs'[u] = docs[u]
      /\ \A d \in Db : DOMAIN docs'[t][d] = DOMAIN docs[t][d]
  <2>1. CASE RootLive(t)
    BY <2>1, Disposing DEF Wipe
  <2>2. CASE ~RootLive(t)
    <3>1. UNCHANGED <<docs, cache, closing>> /\ IsOpen(t)
      BY <2>2 DEF Wipe
    <3> QED
      <4>1. \A u \in Tab : (IsOpen(u)' <=> IsOpen(u)) /\ (RootLive(u)' <=> RootLive(u))
        BY ONLY <3>1 DEF IsOpen, RootLive
      <4>2. /\ docs' \in [Tab -> [Db -> Seq(Doc)]] /\ cache' \in [Tab -> [Row -> Nat]]
            /\ closing' \subseteq Tab
        BY ONLY <1>1, <3>1 DEF TypeInv
      <4>3. Pages'
        BY ONLY <1>1, <3>1, <4>1 DEF Pages
      <4>4. Entries'
        BY ONLY <1>1, <3>1, <4>1 DEF Entries
      <4> QED
        BY <2>2, <3>1, <4>1, <4>2, <4>3, <4>4
  <2> QED
    BY <2>1, <2>2
<1>4. Family(t) \subseteq Db \X (1..MaxBodies)
  BY DEF Family
<1>5. TypeInv'
  BY <1>1, <1>2, <1>3, <1>4 DEF TypeInv
<1>6. \A d \in Db : \A g \in DOMAIN docs[t][d] : <<d, g>> \in Family(t)
  <2> SUFFICES ASSUME NEW d \in Db, NEW g \in DOMAIN docs[t][d]
               PROVE  <<d, g>> \in Family(t)
    OBVIOUS
  <2>1. g \in 1..Len(docs[t][d]) /\ Len(docs[t][d]) \in Nat
    BY <1>1, Family1
  <2>2. Len(docs[t][d]) <= MaxBodies /\ MaxBodies \in Nat
    <3>1. MaxBodies \in Nat \ {0}
      BY LocalDocsAssumption
    <3>2. CASE d = Root
      <4>1. Len(docs[t][d]) <= 1
        BY <1>1, <3>2 DEF Pages
      <4> QED
        BY <2>1, <3>1, <4>1
    <3>3. CASE d \in Row
      BY <1>1, <3>1, <3>3 DEF Pages
    <3> QED
      BY <3>2, <3>3 DEF Db
  <2>3. g \in 1..MaxBodies
    BY <2>1, <2>2
  <2>4. <<d, g>> \in Db \X (1..MaxBodies)
    BY <2>3
  <2> QED
    BY <2>4 DEF Family
<1>7. Wipes'
  <2> SUFFICES ASSUME NEW u \in Tab, wipe'[u] # "none"
               PROVE  /\ IsOpen(u)' /\ ~RootLive(u)'
                      /\ \A d \in Db : \A g \in DOMAIN docs'[u][d] : ~docs'[u][d][g].late =>
                            IF wipe'[u] = "draining" THEN <<d, g>> \in awaiting'[u]
                                                     ELSE docs'[u][d][g].conn = "closed"
    BY DEF Wipes
  <2>1. CASE u = t
    BY <1>1, <1>2, <1>3, <1>6, <2>1 DEF TypeInv
  <2>2. CASE u # t
    <3>1. wipe'[u] = wipe[u] /\ awaiting'[u] = awaiting[u] /\ docs'[u] = docs[u]
      BY <1>1, <1>2, <1>3, <2>2 DEF TypeInv
    <3> QED
      BY <1>1, <3>1 DEF Wipes, IsOpen, RootLive
  <2> QED
    BY <2>1, <2>2
<1> QED
  BY <1>3, <1>5, <1>7 DEF LocalDocsInv

\* Everything a wipe waits for is closed: the databases are asked to go.
LEMMA WipeDeletesStep == ASSUME LocalDocsInv, NEW t \in Tab, WipeDeletes(t) PROVE LocalDocsInv'
<1>1. TypeInv /\ Pages /\ Entries /\ Wipes
  BY DEF LocalDocsInv
<1>2. /\ wipe[t] = "draining"
      /\ \A a \in awaiting[t] : docs[t][a[1]][a[2]].conn = "closed"
      /\ UNCHANGED <<docs, cache, closing, awaiting, stored, reloads, evicted>>
      /\ wipe' = [wipe EXCEPT ![t] = IF stored = {} THEN "done" ELSE "deleting"]
  BY DEF WipeDeletes
<1>3. deleting' \in [Db -> SUBSET Tab]
  BY <1>1 DEF WipeDeletes, TypeInv
<1>4. TypeInv'
  BY <1>1, <1>2, <1>3 DEF TypeInv
<1>5. \A d \in Db : \A g \in DOMAIN docs[t][d] :
          ~docs[t][d][g].late => docs[t][d][g].conn = "closed"
  <2> SUFFICES ASSUME NEW d \in Db, NEW g \in DOMAIN docs[t][d], ~docs[t][d][g].late
               PROVE  docs[t][d][g].conn = "closed"
    OBVIOUS
  <2>1. <<d, g>> \in awaiting[t]
    BY <1>1, <1>2 DEF Wipes
  <2> QED
    BY <1>2, <2>1
<1>6. \A u \in Tab : (IsOpen(u)' <=> IsOpen(u)) /\ (RootLive(u)' <=> RootLive(u))
  BY <1>2 DEF IsOpen, RootLive
<1>7. Wipes'
  <2> SUFFICES ASSUME NEW u \in Tab, wipe'[u] # "none"
               PROVE  /\ IsOpen(u) /\ ~RootLive(u)
                      /\ \A d \in Db : \A g \in DOMAIN docs[u][d] : ~docs[u][d][g].late =>
                            IF wipe'[u] = "draining" THEN <<d, g>> \in awaiting[u]
                                                     ELSE docs[u][d][g].conn = "closed"
    BY <1>2, <1>6 DEF Wipes
  <2>1. CASE u = t
    BY <1>1, <1>2, <1>5, <2>1 DEF Wipes, TypeInv
  <2>2. CASE u # t
    BY <1>1, <1>2, <2>2 DEF Wipes, TypeInv
  <2> QED
    BY <2>1, <2>2
<1> QED
  <2>1. UNCHANGED <<docs, cache>>
    BY <1>2
  <2>2. Pages'
    BY ONLY <1>1, <1>6, <2>1 DEF Pages
  <2>3. Entries'
    BY ONLY <1>1, <1>6, <2>1 DEF Entries
  <2> QED
    BY <1>4, <1>7, <2>2, <2>3 DEF LocalDocsInv

\* A deletion is done: the opens that waited behind it wait for one less.
LEMMA DeletedStep ==
    ASSUME LocalDocsInv, NEW t \in Tab, NEW d \in Db, Deleted(t, d) PROVE LocalDocsInv'
<1>1. TypeInv /\ Pages /\ Entries /\ Wipes
  BY DEF LocalDocsInv
<1>2. docs \in [Tab -> [Db -> Seq(Doc)]]
  BY <1>1 DEF TypeInv
<1> DEFINE Moved(u, g) == [docs[u][d][g] EXCEPT !.ahead = @ \ {t}]
<1>3. ASSUME NEW u \in Tab, NEW g \in DOMAIN docs[u][d]
      PROVE  Moved(u, g) \in Doc /\ OnlyConnection(docs[u][d][g], Moved(u, g))
  <2>1. docs[u][d][g] \in Doc
    BY <1>1, Family1
  <2> QED
    BY <2>1 DEF Doc, OnlyConnection, Rest
<1>4. docs' = [u \in Tab |-> [docs[u] EXCEPT ![d] = [g \in DOMAIN docs[u][d] |-> Moved(u, g)]]]
  BY DEF Deleted
<1> HIDE DEF Moved
<1>5. ASSUME NEW u \in Tab
      PROVE  /\ [g \in DOMAIN docs[u][d] |-> Moved(u, g)] \in Seq(Doc)
             /\ Len([g \in DOMAIN docs[u][d] |-> Moved(u, g)]) = Len(docs[u][d])
  <2>1. docs[u][d] \in Seq(Doc)
    BY <1>2
  <2> QED
    BY <1>3, <2>1
<1>6. docs' \in [Tab -> [Db -> Seq(Doc)]]
  BY <1>2, <1>4, <1>5
<1>7. \A u \in Tab : \A e \in Db :
         docs'[u][e] = IF e = d THEN [g \in DOMAIN docs[u][d] |-> Moved(u, g)] ELSE docs[u][e]
  BY <1>2, <1>4
<1>8. \A u \in Tab : \A e \in Db : Len(docs'[u][e]) = Len(docs[u][e])
  BY <1>5, <1>7
<1>9. \A u \in Tab : \A e \in Db : \A k \in DOMAIN docs[u][e] :
          OnlyConnection(docs[u][e][k], docs'[u][e][k])
  <2> SUFFICES ASSUME NEW u \in Tab, NEW e \in Db, NEW k \in DOMAIN docs[u][e]
               PROVE  OnlyConnection(docs[u][e][k], docs'[u][e][k])
    OBVIOUS
  <2>1. CASE e = d
    BY <1>3, <1>7, <2>1
  <2>2. CASE e # d
    BY <1>7, <2>2 DEF OnlyConnection
  <2> QED
    BY <2>1, <2>2
<1>10. UNCHANGED <<cache, closing, awaiting, reloads, evicted>>
  BY DEF Deleted
<1>11. \A u \in Tab : wipe'[u] = wipe[u] \/ (wipe[u] = "deleting" /\ wipe'[u] = "done")
  BY <1>1 DEF Deleted, TypeInv
<1>12. TypeInv'
  BY <1>1, <1>6, <1>10 DEF TypeInv, Deleted
<1>13. Pages' /\ Entries' /\ Wipes'
  BY <1>8, <1>9, <1>10, <1>11, <1>12, ConnectionsKeep
<1> QED
  BY <1>12, <1>13 DEF LocalDocsInv

\* A page is reloaded, or its tab closed: everything of it begins anew.
LEMMA ReloadStep == ASSUME LocalDocsInv, NEW t \in Tab, Reload(t) PROVE LocalDocsInv'
<1>1. TypeInv /\ Pages /\ Entries /\ Wipes
  BY DEF LocalDocsInv
<1>2. Root \in Db /\ Row \subseteq Db /\ Root \notin Row
  BY LocalDocsAssumption DEF Db
<1>3. PICK page : /\ docs' = [docs EXCEPT ![t] = page]
                  /\ page \in {Page(deleting[Root]), [d \in Db |-> <<>>]}
  BY DEF Reload
<1>4. Built(deleting[Root], FALSE) \in Doc
  <2>1. deleting[Root] \in SUBSET Tab
    BY <1>1, <1>2 DEF TypeInv
  <2> QED
    BY <2>1 DEF Built, Doc, Conn
<1>5. /\ <<Built(deleting[Root], FALSE)>> \in Seq(Doc)
      /\ Len(<<Built(deleting[Root], FALSE)>>) = 1
      /\ <<>> \in Seq(Doc) /\ Len(<<>>) = 0 /\ DOMAIN <<>> = {}
  BY <1>4, Empty, Single
<1>6. /\ page \in [Db -> Seq(Doc)]
      /\ page[Root] \in {<<>>, <<Built(deleting[Root], FALSE)>>}
      /\ \A r \in Row : page[r] = <<>>
  BY <1>2, <1>3, <1>5 DEF Page
<1>7. Len(page[Root]) <= 1 /\ \A r \in Row : Len(page[r]) = 0 /\ DOMAIN page[r] = {}
  <2>1. Len(page[Root]) \in {0, 1}
    BY <1>5, <1>6
  <2>2. \A n \in {0, 1} : n <= 1
    OBVIOUS
  <2>3. Len(page[Root]) <= 1
    BY <2>1, <2>2
  <2> QED
    BY <1>5, <1>6, <2>3
<1>8. /\ docs' \in [Tab -> [Db -> Seq(Doc)]]
      /\ docs'[t] = page
      /\ \A u \in Tab \ {t} : docs'[u] = docs[u]
  BY <1>1, <1>3, <1>6 DEF TypeInv
<1>9. /\ cache' \in [Tab -> [Row -> Nat]]
      /\ \A r \in Row : cache'[t][r] = 0
      /\ \A u \in Tab \ {t} : cache'[u] = cache[u]
  BY <1>1 DEF Reload, NoEntries, TypeInv
<1>10. /\ wipe'[t] = "none"
       /\ \A u \in Tab \ {t} : wipe'[u] = wipe[u] /\ awaiting'[u] = awaiting[u]
  BY <1>1 DEF Reload, TypeInv
<1>11. TypeInv'
  <2>1. UNCHANGED <<deleting, stored>> /\ evicted' \subseteq Tab /\ closing' \subseteq Tab
    BY <1>1 DEF Reload, TypeInv
  <2>2. /\ wipe' \in [Tab -> {"none", "draining", "deleting", "done"}]
        /\ awaiting' \in [Tab -> SUBSET (Db \X (1..MaxBodies))]
    BY <1>1 DEF Reload, TypeInv
  <2>3. reloads' \in [Tab -> Nat]
    <3>1. reloads \in [Tab -> Nat]
      BY <1>1 DEF TypeInv
    <3>2. UNCHANGED reloads \/ reloads' = [reloads EXCEPT ![t] = reloads[t] + 1]
      BY DEF Reload
    <3> QED
      BY ONLY <3>1, <3>2
  <2>4. /\ docs' \in [Tab -> [Db -> Seq(Doc)]] /\ cache' \in [Tab -> [Row -> Nat]]
        /\ deleting' \in [Db -> SUBSET Tab] /\ stored' \subseteq Db
        /\ evicted' \subseteq Tab /\ closing' \subseteq Tab
    BY <1>1, <1>8, <1>9, <2>1 DEF TypeInv
  <2> QED
    BY ONLY <2>2, <2>3, <2>4 DEF TypeInv
<1>12. \A u \in Tab \ {t} : (IsOpen(u)' <=> IsOpen(u)) /\ (RootLive(u)' <=> RootLive(u))
  BY <1>8 DEF IsOpen, RootLive
<1>13. Pages'
  <2>1. MaxBodies \in Nat
    BY LocalDocsAssumption
  <2>2. \A r \in Row : Len(docs'[t][r]) <= MaxBodies
    BY <1>7, <1>8, <2>1
  <2>3. Len(docs'[t][Root]) <= 1 /\ \A r \in Row : docs'[t][r] = <<>>
    BY <1>6, <1>7, <1>8
  <2> QED
    BY <1>1, <1>8, <1>12, <2>2, <2>3 DEF Pages
<1>14. Entries'
  <2> SUFFICES ASSUME NEW u \in Tab, NEW r \in Row
               PROVE  /\ Entry(docs'[u][r], cache'[u][r])
                      /\ RootLive(u)' => LetGo(docs'[u][r])
    BY DEF Entries
  <2>1. CASE u = t
    <3>1. DOMAIN docs'[u][r] = {} /\ cache'[u][r] = 0
      BY <1>7, <1>8, <1>9, <2>1
    <3> QED
      BY ONLY <3>1 DEF Entry, LetGo
  <2>2. CASE u # t
    <3>1. /\ docs'[u] = docs[u] /\ cache'[u] = cache[u]
          /\ RootLive(u)' <=> RootLive(u)
      BY <1>8, <1>9, <1>12, <2>2
    <3>2. Entry(docs[u][r], cache[u][r]) /\ (RootLive(u) => LetGo(docs[u][r]))
      BY <1>1 DEF Entries
    <3> QED
      BY ONLY <3>1, <3>2
  <2> QED
    BY <2>1, <2>2
<1>15. Wipes'
  <2> SUFFICES ASSUME NEW u \in Tab, wipe'[u] # "none"
               PROVE  /\ IsOpen(u)' /\ ~RootLive(u)'
                      /\ \A d \in Db : \A g \in DOMAIN docs'[u][d] : ~docs'[u][d][g].late =>
                            IF wipe'[u] = "draining" THEN <<d, g>> \in awaiting'[u]
                                                     ELSE docs'[u][d][g].conn = "closed"
    BY DEF Wipes
  <2>1. u \in Tab \ {t}
    BY <1>10
  <2>2. /\ docs'[u] = docs[u] /\ wipe'[u] = wipe[u] /\ awaiting'[u] = awaiting[u]
        /\ (IsOpen(u)' <=> IsOpen(u)) /\ (RootLive(u)' <=> RootLive(u))
    BY <1>8, <1>10, <1>12, <2>1
  <2> QED
    BY <1>1, <2>2 DEF Wipes
<1> QED
  BY <1>11, <1>13, <1>14, <1>15 DEF LocalDocsInv

\* The relay connection of a destroyed root is gone.
LEMMA RelayStep == ASSUME LocalDocsInv, NEW t \in Tab, RelayCloses(t) PROVE LocalDocsInv'
<1>1. TypeInv /\ Pages /\ Entries /\ Wipes
  BY DEF LocalDocsInv
<1>2. UNCHANGED <<docs, cache, wipe, awaiting, deleting, stored, reloads, evicted>>
  BY DEF RelayCloses
<1>3. \A u \in Tab : (IsOpen(u)' <=> IsOpen(u)) /\ (RootLive(u)' <=> RootLive(u))
  BY ONLY <1>2 DEF IsOpen, RootLive
<1>4. TypeInv'
  BY <1>1, <1>2 DEF TypeInv, RelayCloses
<1>5. Pages' /\ Entries' /\ Wipes'
  <2>1. Pages'
    BY ONLY <1>1, <1>2, <1>3 DEF Pages
  <2>2. Entries'
    BY ONLY <1>1, <1>2, <1>3 DEF Entries
  <2>3. Wipes'
    BY ONLY <1>1, <1>2, <1>3 DEF Wipes
  <2> QED
    BY <2>1, <2>2, <2>3
<1> QED
  BY <1>4, <1>5 DEF LocalDocsInv

-----------------------------------------------------------------------------
\* The invariant is inductive.
LEMMA LocalDocsStep == LocalDocsInv /\ [Next]_vars => LocalDocsInv'
<1> SUFFICES ASSUME LocalDocsInv, [Next]_vars PROVE LocalDocsInv'
  OBVIOUS
<1>1. ASSUME NEW t \in Tab, NEW r \in Row, open(t, r) PROVE LocalDocsInv'
  BY <1>1, OpenStep
<1>2. ASSUME NEW t \in Tab, NEW r \in Row, NEW g \in 1..MaxBodies,
             Release(t, r, g) \/ GraceEnds(t, r, g)
      PROVE  LocalDocsInv'
  BY <1>2, ReleaseStep, GraceStep
<1>3. ASSUME NEW t \in Tab,
             Dispose(t) \/ Wipe(t) \/ RelayCloses(t) \/ WipeDeletes(t) \/ Reload(t)
      PROVE  LocalDocsInv'
  BY <1>3, DisposeStep, RelayStep, WipeStep, WipeDeletesStep, ReloadStep
<1>4. ASSUME NEW t \in Tab, NEW d \in Db, Deleted(t, d) PROVE LocalDocsInv'
  BY <1>4, DeletedStep
<1>5. ASSUME NEW t \in Tab, NEW d \in Db, NEW g \in DOMAIN docs[t][d],
             Opened(t, d, g) \/ Loaded(t, d, g) \/ Closed(t, d, g) \/ VersionChange(t, d, g)
      PROVE  LocalDocsInv'
  BY <1>5, ConnectionStep
<1>6. CASE UNCHANGED vars
  <2>1. UNCHANGED <<docs, cache, closing, wipe, awaiting, deleting, stored, reloads, evicted>>
    BY <1>6 DEF vars
  <2>2. \A u \in Tab : (IsOpen(u)' <=> IsOpen(u)) /\ (RootLive(u)' <=> RootLive(u))
    BY ONLY <2>1 DEF IsOpen, RootLive
  <2>3. TypeInv /\ Pages /\ Entries /\ Wipes
    BY DEF LocalDocsInv
  <2>4. TypeInv'
    BY ONLY <2>1, <2>3 DEF TypeInv
  <2>5. Pages'
    BY ONLY <2>1, <2>2, <2>3 DEF Pages
  <2>6. Entries'
    BY ONLY <2>1, <2>2, <2>3 DEF Entries
  <2>7. Wipes'
    BY ONLY <2>1, <2>2, <2>3 DEF Wipes
  <2> QED
    BY <2>4, <2>5, <2>6, <2>7 DEF LocalDocsInv
<1> QED
  BY <1>1, <1>2, <1>3, <1>4, <1>5, <1>6 DEF Next, Progress, Connection

\* Every variable of the pages has its type: per tab and database the documents
\* built, the entries of the cache, the wipe and what it waits for.
THEOREM TypeCorrect == Spec => []TypeInv
<1>1. LocalDocsInv => TypeInv
  BY DEF LocalDocsInv
<1> QED
  BY <1>1, LocalDocsInit, LocalDocsStep, PTL DEF Spec

\* While the workspace is live no body is destroyed under a handle
\* (createDisposableCache: the entry is disposed only at openCount 0).
THEOREM HeldBodiesLive == Spec => []HeldBodyLives
<1>1. LocalDocsInv => HeldBodyLives
  BY DEF LocalDocsInv, Entries, LetGo, HeldBodyLives
<1> QED
  BY <1>1, LocalDocsInit, LocalDocsStep, PTL DEF Spec

\* A page never has two live documents of one row.
THEOREM BodiesAreShared == Spec => []OneLiveBody
<1>1. LocalDocsInv => OneLiveBody
  <2> SUFFICES ASSUME LocalDocsInv, NEW t \in Tab, NEW r \in Row
               PROVE  Cardinality({g \in DOMAIN docs[t][r] : ~docs[t][r][g].destroyed}) <= 1
    BY DEF OneLiveBody
  <2> DEFINE live == {g \in DOMAIN docs[t][r] : ~docs[t][r][g].destroyed}
  <2>1. live \subseteq {cache[t][r]}
    BY DEF LocalDocsInv, Entries, Entry
  <2> HIDE DEF live
  <2>2. IsFiniteSet({cache[t][r]}) /\ Cardinality({cache[t][r]}) = 1
    BY FS_Singleton
  <2>3. Cardinality(live) <= 1
    BY <2>1, <2>2, FS_Subset
  <2> QED
    BY <2>3 DEF live
<1> QED
  BY <1>1, LocalDocsInit, LocalDocsStep, PTL DEF Spec

\* A wipe asks for deletions only when the page's own documents, but for those
\* built behind the disposal, are closed (wipe-local-storage.ts).
THEOREM WipesWaitForOwn == Spec => []WipeWaitsForOwn
<1>1. LocalDocsInv => WipeWaitsForOwn
  BY DEF LocalDocsInv, Wipes, WipeWaitsForOwn
<1> QED
  BY <1>1, LocalDocsInit, LocalDocsStep, PTL DEF Spec
=============================================================================
