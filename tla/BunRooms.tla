-------------------------------- MODULE BunRooms --------------------------------
(***************************************************************************)
(* One room in the in-process registry of a Bun host                       *)
(* (room/backends/bun/registry.ts): the Map entry that owns the room's     *)
(* core and its sqlite handle, created by whoever needs it and evicted by  *)
(* a grace timer, against sockets whose upgrade and open are two events.   *)
(*                                                                         *)
(* Each entry ever created is numbered.  The file is the set of updates    *)
(* written to it, one per socket; what a core does with updates is         *)
(* DocSync's matter, whether the right core gets them is this module's.    *)
(***************************************************************************)
EXTENDS Naturals

CONSTANTS
    MaxSockets,     \* bound: upgrades in a behaviour
    MaxEntries      \* bound: entries created in a behaviour

ASSUME RegistryAssumption ==
    /\ MaxSockets \in Nat
    /\ MaxEntries \in Nat

VARIABLES
    entry,      \* the Map's entry for the room, 0 when it has none
    created,    \* entries created so far
    handles,    \* entries whose sqlite handle is open
    timers,     \* entries whose evictionTimer is armed
    members,    \* sockets in each entry's core
    held,       \* updates in each entry's Y.Doc
    file,       \* updates in the sqlite file
    socket,     \* state of each socket
    answer      \* history: the status of the last upgrade's answer

vars == <<entry, created, handles, timers, members, held, file, socket, answer>>

Socket == 1..MaxSockets
Entry == 1..MaxEntries

Init ==
    /\ entry = 0
    /\ created = 0
    /\ handles = {}
    /\ timers = {}
    /\ members = [e \in Entry |-> {}]
    /\ held = [e \in Entry |-> {}]
    /\ file = {}
    /\ socket = [s \in Socket |-> "new"]
    /\ answer = 0

\* Bug: a new entry starts from an empty document.
getOrCreate_EmptyCore(e) ==
    /\ IF entry # 0
       THEN e = entry /\ UNCHANGED <<created, handles, held>>
       ELSE /\ e = created + 1 /\ created < MaxEntries
            /\ created' = e
            /\ handles' = handles \cup {e}
            /\ UNCHANGED held
    /\ entry' = e
    /\ timers' = timers \ {e}

\* The room's entry after the call: the existing one, its eviction cancelled,
\* or a new one loaded from the file.
getOrCreate(e) ==
    /\ IF entry # 0
       THEN e = entry /\ UNCHANGED <<created, handles, held>>
       ELSE /\ e = created + 1 /\ created < MaxEntries
            /\ created' = e
            /\ handles' = handles \cup {e}
            /\ held' = [held EXCEPT ![e] = file]
    /\ entry' = e
    /\ timers' = timers \ {e}

\* handleUpgrade: the 101 is out, `open` is still to come.
handleUpgrade(s) ==
    /\ socket[s] = "new"
    /\ \A t \in Socket : t < s => socket[t] # "new"
    /\ \E e \in Entry : getOrCreate(e)
    /\ socket' = [socket EXCEPT ![s] = "upgraded"]
    /\ answer' = 101
    /\ UNCHANGED <<members, file>>

\* handleUpgrade when server.upgrade returns false: the 426 answer.
RefuseUpgrade ==
    /\ \E e \in Entry : getOrCreate(e)
    /\ answer' = 426
    /\ UNCHANGED <<members, file, socket>>

\* Bug: `open` looks the entry up, as message and close do.
open_Lookup(s) ==
    /\ socket[s] = "upgraded"
    /\ members' = IF entry = 0 THEN members ELSE [members EXCEPT ![entry] = @ \cup {s}]
    /\ timers' = timers \ {entry}
    /\ socket' = [socket EXCEPT ![s] = "open"]
    /\ UNCHANGED <<entry, created, handles, held, file, answer>>

\* The accept handler.
open(s) ==
    /\ socket[s] = "upgraded"
    /\ \E e \in Entry :
          /\ getOrCreate(e)
          /\ members' = [members EXCEPT ![e] = @ \cup {s}]
    /\ socket' = [socket EXCEPT ![s] = "open"]
    /\ UNCHANGED <<file, answer>>

\* A frame that changes the document: the core takes it and logs it, if the
\* socket is one of its own.
message(s) ==
    /\ socket[s] = "open"
    /\ entry # 0 /\ s \in members[entry]
    /\ held' = [held EXCEPT ![entry] = @ \cup {s}]
    /\ file' = file \cup {s}
    /\ UNCHANGED <<entry, created, handles, timers, members, socket, answer>>

\* The core closes sockets: past their lifetime, on a frame or by the sweep.
Expire(sockets) ==
    /\ entry # 0
    /\ sockets # {} /\ sockets \subseteq {s \in members[entry] : socket[s] = "open"}
    /\ socket' = [s \in Socket |-> IF s \in sockets THEN "closing" ELSE socket[s]]
    /\ UNCHANGED <<entry, created, handles, timers, members, held, file, answer>>

\* Bug: the count is read before the socket is removed.
close_CountsItself(s) ==
    /\ socket[s] \in {"open", "closing"}
    /\ socket' = [socket EXCEPT ![s] = "closed"]
    /\ IF entry = 0
       THEN UNCHANGED <<members, timers>>
       ELSE /\ members' = [members EXCEPT ![entry] = @ \ {s}]
            /\ timers' = IF members[entry] = {} THEN timers \cup {entry} ELSE timers
    /\ UNCHANGED <<entry, created, handles, held, file, answer>>

\* The close event, expected or not; scheduleEviction keeps an armed timer.
close(s) ==
    /\ socket[s] \in {"open", "closing"}
    /\ socket' = [socket EXCEPT ![s] = "closed"]
    /\ IF entry = 0
       THEN UNCHANGED <<members, timers>>
       ELSE /\ members' = [members EXCEPT ![entry] = @ \ {s}]
            /\ timers' = IF members'[entry] = {} THEN timers \cup {entry} ELSE timers
    /\ UNCHANGED <<entry, created, handles, held, file, answer>>

\* The eviction timer: compact, checkpoint and close, unless a socket came.
Evict(e) ==
    /\ e \in timers
    /\ timers' = timers \ {e}
    /\ IF members[e] # {}
       THEN UNCHANGED <<entry, handles>>
       ELSE /\ handles' = handles \ {e}
            /\ entry' = 0
    /\ UNCHANGED <<created, members, held, file, socket, answer>>

\* The process dies and starts again; the file is what survives.
Restart ==
    /\ entry' = 0
    /\ handles' = {}
    /\ timers' = {}
    /\ members' = [e \in Entry |-> {}]
    /\ socket' = [s \in Socket |-> IF socket[s] = "new" THEN "new" ELSE "closed"]
    /\ answer' = 0
    /\ UNCHANGED <<created, held, file>>

Next ==
    \/ \E s \in Socket : handleUpgrade(s) \/ open(s) \/ message(s) \/ close(s)
    \/ RefuseUpgrade
    \/ \E sockets \in SUBSET Socket : Expire(sockets)
    \/ \E e \in Entry : Evict(e)
    \/ Restart

\* Bun delivers `open` after an upgrade and `close` after a close; timers fire.
Fairness ==
    /\ \A s \in Socket : WF_vars(open(s)) /\ WF_vars(socket[s] = "closing" /\ close(s))
    /\ \A e \in Entry : WF_vars(Evict(e))

Spec == Init /\ [][Next]_vars
FairSpec == Spec /\ Fairness

-----------------------------------------------------------------------------
(* Properties *)

TypeOK ==
    /\ entry \in 0..created
    /\ created \in 0..MaxEntries
    /\ handles \subseteq 1..created
    /\ timers \subseteq 1..created
    /\ members \in [Entry -> SUBSET Socket]
    /\ held \in [Entry -> SUBSET Socket]
    /\ file \subseteq Socket
    /\ socket \in [Socket -> {"new", "upgraded", "open", "closing", "closed"}]
    /\ answer \in {0, 101, 426}

\* A live socket is served by the entry in the Map: neither an eviction nor a
\* re-creation between its upgrade, its open and its frames leaves it attached
\* to a core nobody looks up any more.
LiveSocketsServed ==
    \A s \in Socket : socket[s] \in {"open", "closing"} => entry # 0 /\ s \in members[entry]

\* One writer per file: the open sqlite handles are those of the Map's entry.
OneWriter == handles = {entry} \ {0}

\* What the live core holds is what the file holds, across any number of
\* evictions, reloads and crashes.
CoreHoldsFile == entry # 0 => held[entry] = file

\* Every socket there was is closed.
Unused == \A s \in Socket : socket[s] \in {"new", "closed"}

\* A room that stays without sockets is evicted and its file closed, unless the
\* last upgrade was refused: handleUpgrade has then cancelled the eviction, or made
\* an entry, for a socket that never comes (registry.ts:189-203).
EmptyRoomEvicted == entry # 0 /\ Unused ~> entry = 0 \/ ~Unused \/ answer = 426
=============================================================================
