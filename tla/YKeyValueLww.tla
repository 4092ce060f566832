------------------------------ MODULE YKeyValueLww ------------------------------
(* The last-writer-wins map kept in a Yjs array, document/y-keyvalue/y-keyvalue-lww.ts: several
   replicas of one array, and each replica's index (_map) with its overlay of pending writes and
   deletes.  One key: entries of different keys meet only in lastTimestamp, which one key has too.

   Yjs is external: every replica orders the entries it knows alike, a push lands right of all the
   pusher knows, deletions are a growing set, and an entry pushed and deleted by one transaction
   is in neither list of its event.  A local transaction is open while it holds an unobserved
   change; `Merge` brings another replica's whole state.  Change handlers are left out.          *)
EXTENDS Integers, SequencesExt

CONSTANTS Replica,    \* the documents
          Writer,     \* bound: the replicas whose users write and delete
          NoEntry,    \* the key is not there
          MaxWrites,  \* bound on set and bulkSet
          MaxTs       \* bound on timestamps

VARIABLES order,      \* every entry ever pushed, in the order Yjs gives them
          seen,       \* the entries a replica knows
          gone,       \* its Yjs delete set
          attached,   \* whether its YKeyValueLww was constructed
          map,        \* _map
          write,      \* pendingWrites
          hides,      \* pendingDeletes has the key
          last,       \* lastTimestamp
          fresh,      \* entries the open transaction added
          dropped,    \* older entries the open transaction deleted
          erased      \* history: entries live when a user's delete or bulkDelete ran

index == <<map, write, hides>>
vars  == <<order, seen, gone, attached, index, last, fresh, dropped, erased>>

Entry == [n : 1..MaxWrites, ts : 1..MaxTs]

ASSUME KvAssumption == /\ Writer \subseteq Replica
                       /\ MaxWrites \in Nat /\ MaxTs \in Nat
                       /\ NoEntry \notin Entry

(* toArray(): what is of the key and not deleted, in the order of the array. *)
Live(r)     == seen[r] \ gone[r]
InTx(r)     == fresh[r] # {} \/ dropped[r] # {}
Position(e) == CHOOSE i \in DOMAIN order : order[i] = e

(* The entry the constructor keeps: the latest, of several the one furthest right. *)
Winner(S) == LET latest == {e \in S : \A f \in S : e.ts >= f.ts}
             IN CHOOSE e \in latest : \A f \in latest : Position(e) >= Position(f)

(* get(): the overlay of deletes, then that of writes, then the index. *)
get(r) == IF hides[r] THEN NoEntry
          ELSE IF write[r] # NoEntry THEN write[r] ELSE map[r]

(* Math.max over what lastTimestamp has seen. *)
Latest(t, S) == IF \E e \in S : e.ts > t THEN (CHOOSE e \in S : \A f \in S : e.ts >= f.ts).ts ELSE t

Init == /\ order = <<>>
        /\ seen = [r \in Replica |-> {}]
        /\ gone = [r \in Replica |-> {}]
        /\ attached = [r \in Replica |-> FALSE]
        /\ map = [r \in Replica |-> NoEntry]
        /\ write = [r \in Replica |-> NoEntry]
        /\ hides = [r \in Replica |-> FALSE]
        /\ last = [r \in Replica |-> 0]
        /\ fresh = [r \in Replica |-> {}]
        /\ dropped = [r \in Replica |-> {}]
        /\ erased = {}

(* The constructor: index the winner, delete the others. *)
Attach(r) ==
    /\ ~attached[r]
    /\ attached' = [attached EXCEPT ![r] = TRUE]
    /\ LET kept == IF Live(r) = {} THEN {} ELSE {Winner(Live(r))} IN
       /\ map' = [map EXCEPT ![r] = IF kept = {} THEN NoEntry ELSE Winner(Live(r))]
       /\ gone' = [gone EXCEPT ![r] = @ \cup (Live(r) \ kept)]
       /\ last' = [last EXCEPT ![r] = Latest(@, Live(r))]
    /\ UNCHANGED <<order, seen, write, hides, fresh, dropped, erased>>

----------------------------------------------------------------------------
(* Writers.  Each runs inside the caller's transaction or opens one of its own. *)

(* deleteEntryByKey: the first entry of the key, if there is one. *)
FirstEntry(r) == {e \in Live(r) : \A f \in Live(r) : Position(e) <= Position(f)}

(* The open transaction of r deletes D. *)
Drop(r, D) ==
    /\ gone' = [gone EXCEPT ![r] = @ \cup D]
    /\ dropped' = [dropped EXCEPT ![r] = @ \cup (D \ fresh[r])]

(* A new entry of r with a timestamp above lastTimestamp, whatever the clock says, pushed while
   the transaction deletes D. *)
Push(r, D) ==
    /\ attached[r]
    /\ Len(order) < MaxWrites
    /\ \E t \in last[r] + 1 .. MaxTs, p \in 1 .. Len(order) + 1 :
         LET e == [n |-> Len(order) + 1, ts |-> t] IN
         /\ \A i \in p .. Len(order) : order[i] \notin seen[r]
         /\ order' = InsertAt(order, p, e)
         /\ seen' = [seen EXCEPT ![r] = @ \cup {e}]
         /\ last' = [last EXCEPT ![r] = t]
         /\ fresh' = [fresh EXCEPT ![r] = (@ \ D) \cup {e}]
         /\ write' = [write EXCEPT ![r] = e]
    /\ hides' = [hides EXCEPT ![r] = FALSE]
    /\ Drop(r, D)
    /\ UNCHANGED <<attached, map, erased>>

set(r) == Push(r, IF map[r] # NoEntry THEN FirstEntry(r) ELSE {})

bulkSet(r) == Push(r, {})

(* The user's deletion of D; both overlays agree that the key is absent. *)
Discard(r, D) ==
    /\ hides' = [hides EXCEPT ![r] = TRUE]
    /\ write' = [write EXCEPT ![r] = NoEntry]
    /\ Drop(r, D)
    /\ fresh' = [fresh EXCEPT ![r] = @ \ D]
    /\ erased' = erased \cup Live(r)
    /\ UNCHANGED <<order, seen, attached, map, last>>

(* delete: the pending write goes even when the key is hidden already; by then there is none. *)
delete(r) ==
    /\ attached[r]
    /\ ~hides[r]
    /\ map[r] # NoEntry \/ write[r] # NoEntry
    /\ Discard(r, FirstEntry(r))

bulkDelete(r) ==
    /\ attached[r]
    /\ Live(r) # {}
    /\ Discard(r, Live(r))

----------------------------------------------------------------------------
(* The observer. *)

(* Bug: the entry already in the map wins a tie. *)
Beats_TsOnly(e, f) == e.ts > f.ts

(* An added entry against the indexed one: the later timestamp, on a tie the one further right. *)
Beats(e, f) == \/ e.ts > f.ts
               \/ e.ts = f.ts /\ Position(e) > Position(f)

(* Bug: an added entry always enters an index without one. *)
Enters_Always(st, e, skip) == TRUE

(* An added entry meets no indexed one: it enters, but for one that is no longer the pending
   write of a local transaction that deleted the indexed entry. *)
Enters(st, e, skip) == skip => st.write = e

(* Bug: losers stay in the array. *)
Losers_Kept(st, e, wins) == {}

(* What goes from the array: e, or the entry it replaces. *)
Losers(st, e, wins) == IF wins THEN {st.map} \ {NoEntry} ELSE {e}

(* One added entry e, on the index, the overlays and the losers so far. *)
Absorb(st, e, skip) ==
    LET wins == IF st.map = NoEntry THEN Enters(st, e, skip) ELSE Beats(e, st.map)
    IN [map    |-> IF wins THEN e ELSE st.map,
        hides  |-> st.hides /\ ~wins,
        write  |-> IF st.write = e THEN NoEntry ELSE st.write,
        losers |-> st.losers \cup Losers(st, e, wins)]

(* The loop over the added entries, from the first of the array to the last. *)
Absorbed(start, added, skip) ==
    LET after[i \in 0 .. Len(order)] ==
            IF i = 0 THEN start
            ELSE IF order[i] \in added THEN Absorb(after[i - 1], order[i], skip)
            ELSE after[i - 1]
    IN after[Len(order)]

(* Bug: deletions do not reach the index. *)
HitsIndex_Never(r, deleted) == FALSE

(* Whether the deletions of an event hit the indexed entry, which then leaves the index. *)
HitsIndex(r, deleted) == map[r] \in deleted

(* The observer of r for a transaction that added and deleted these entries and left this delete
   set. *)
Observe(r, local, added, deleted, deletes) ==
    LET hit   == HitsIndex(r, deleted)
        start == [map    |-> IF hit THEN NoEntry ELSE map[r],
                  hides  |-> hides[r] /\ deleted = {},
                  write  |-> write[r],
                  losers |-> {}]
        end   == Absorbed(start, added, local /\ hit)
    IN /\ map' = [map EXCEPT ![r] = end.map]
       /\ hides' = [hides EXCEPT ![r] = end.hides]
       /\ write' = [write EXCEPT ![r] = end.write]
       /\ last' = [last EXCEPT ![r] = Latest(@, added)]
       /\ gone' = [gone EXCEPT ![r] = deletes \cup end.losers]

(* The transaction of r closes. *)
Commit(r) ==
    /\ InTx(r)
    /\ Observe(r, TRUE, fresh[r], dropped[r], gone[r])
    /\ fresh' = [fresh EXCEPT ![r] = {}]
    /\ dropped' = [dropped EXCEPT ![r] = {}]
    /\ UNCHANGED <<order, seen, attached, erased>>

(* r applies the state of q. *)
Merge(r, q) ==
    /\ ~InTx(r) /\ ~InTx(q)
    /\ ~(seen[q] \subseteq seen[r] /\ gone[q] \subseteq gone[r])
    /\ seen' = [seen EXCEPT ![r] = @ \cup seen[q]]
    /\ \/ /\ attached[r]
          /\ Observe(r, FALSE, seen[q] \ (seen[r] \cup gone[q]), (gone[q] \ gone[r]) \cap seen[r],
                     gone[r] \cup gone[q])
          /\ UNCHANGED <<order, attached, fresh, dropped, erased>>
       \/ /\ ~attached[r]
          /\ gone' = [gone EXCEPT ![r] = @ \cup gone[q]]
          /\ UNCHANGED <<order, attached, index, last, fresh, dropped, erased>>

Next == \E r \in Replica :
          \/ r \in Writer /\ (set(r) \/ bulkSet(r) \/ delete(r) \/ bulkDelete(r))
          \/ Attach(r) \/ Commit(r)
          \/ \E q \in Replica : Merge(r, q)

Spec == Init /\ [][Next]_vars

(* Transactions are closed by the code that opened them, and replicas keep exchanging state. *)
FairSpec == Spec /\ \A r \in Replica : /\ WF_vars(Commit(r))
                                       /\ \A q \in Replica : WF_vars(Merge(r, q))

----------------------------------------------------------------------------
(* Properties *)

(* Between transactions a replica's array has at most one entry of the key, the index holds
   exactly that one, and the overlays no longer change what get() returns. *)
IndexFollowsArray ==
    \A r \in Replica : attached[r] /\ ~InTx(r) =>
        /\ Live(r) = {map[r]} \ {NoEntry}
        /\ get(r) = map[r]

(* The entry that beats all others a replica has ever known is the one it reads, unless a user
   deleted it: neither a set of a replica that knew less, nor the clean-up of duplicates on
   either side, may cost the newest write. *)
NewestWriteKept ==
    \A r \in Replica : attached[r] /\ ~InTx(r) /\ seen[r] # {} =>
        \/ Winner(seen[r]) \in erased
        \/ get(r) = Winner(seen[r])

(* What get() returns inside a transaction is what it returns when the observer has run, unless
   the key was new in it and was deleted. *)
CommitKeepsReads ==
    [][\A r \in Replica : Commit(r) /\ (map[r] # NoEntry \/ ~hides[r]) => get(r)' = get(r)]_vars

(* The same without the exception, as the comment on get() has it: `set(); delete(); get()` reads
   absent, matching the final state after the observer catches up. *)
CommitMatchesReads == [][\A r \in Replica : Commit(r) => get(r)' = get(r)]_vars

(* Replicas that keep exchanging state come to read the same and stay there. *)
MapsConverge == <>[](\A r, q \in Replica : attached[r] /\ attached[q] => get(r) = get(q))
=================================================================================
