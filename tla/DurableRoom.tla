------------------------------ MODULE DurableRoom ------------------------------
(***************************************************************************)
(* The Cloudflare Durable Object around a room core                        *)
(* (room/backends/cloudflare/durable-object.ts): hibernation that drops    *)
(* the core's memory but keeps the sockets and their attachments, the      *)
(* constructor that restores them, restarts that drop everything but       *)
(* storage, and the one alarm that multiplexes lifetime sweep and          *)
(* compaction.  Composes RoomPresence, whose actions it takes as its own.  *)
(***************************************************************************)
EXTENDS RoomPresence

CONSTANT Publisher  \* bound: the sockets that publish an agent

ASSUME PublisherAssumption == Publisher \subseteq Socket

VARIABLES
    phase,       \* of the object: "awake", "asleep" or "waking" (constructor)
    attachment,  \* serializeAttachment: what each live socket keeps
    toRestore,   \* sockets the constructor's loop has still to restore
    alarm,       \* an alarm is set in storage
    ensuring     \* progress of each fetch's un-awaited ensureSweepAlarm

objectVars == <<phase, attachment, toRestore, alarm, ensuring>>
vars == <<roomVars, objectVars>>

DurableInit ==
    /\ Init
    /\ phase = "awake"
    /\ attachment = EmptyMap
    /\ toRestore = {}
    /\ alarm = FALSE
    /\ ensuring = [s \in Socket |-> "idle"]

\* An upgrade: start ensureSweepAlarm, accept, attach, register with the core.
fetch(n) ==
    /\ phase = "awake"
    /\ Connect(n)
    /\ attachment' = Put(attachment, accepted',
                         [nodeId |-> n, connectedAt |-> now, agentId |-> NoAgent])
    /\ ensuring' = [ensuring EXCEPT ![accepted'] = "getAlarm"]
    /\ UNCHANGED <<phase, toRestore, alarm>>

\* `await getAlarm()` resolves.
EnsureRead(s) ==
    /\ ensuring[s] = "getAlarm"
    /\ ensuring' = [ensuring EXCEPT ![s] = IF alarm THEN "idle" ELSE "setAlarm"]
    /\ UNCHANGED <<roomVars, phase, attachment, toRestore, alarm>>

EnsureSet(s) ==
    /\ ensuring[s] = "setAlarm"
    /\ ensuring' = [ensuring EXCEPT ![s] = "idle"]
    /\ alarm' = TRUE
    /\ UNCHANGED <<roomVars, phase, attachment, toRestore>>

webSocketClose(s, code) ==
    /\ phase = "awake"
    /\ Close(s, code)
    /\ attachment' = Delete(attachment, s)
    /\ alarm' = (alarm \/ DOMAIN connections' = {})
    /\ UNCHANGED <<phase, toRestore, ensuring>>

\* Bug: the attachment keeps what it had at accept.
PublishFrame_Unsaved(s, a) ==
    /\ phase = "awake"
    /\ Publish(s, a)
    /\ UNCHANGED objectVars

\* handlePresencePublish re-serializes the attachment.
PublishFrame(s, a) ==
    /\ phase = "awake"
    /\ Publish(s, a)
    /\ attachment' = Put(attachment, s, connections'[s])
    /\ UNCHANGED <<phase, toRestore, alarm, ensuring>>

ClosingFrame(s) ==
    /\ phase = "awake"
    /\ CloseOnMessage(s)
    /\ UNCHANGED objectVars

GraceTimer ==
    /\ phase = "awake"
    /\ Rebroadcast
    /\ UNCHANGED objectVars

\* Bug: the alarm is not set again.
AlarmFires_Once ==
    /\ phase = "awake"
    /\ alarm
    /\ StartClosing({s \in DOMAIN connections : Expired(s)})
    /\ alarm' = FALSE
    /\ UNCHANGED <<connections, accepted, list, pendingRebroadcast, now,
                   phase, attachment, toRestore, ensuring>>

\* alarm(): sweep; re-arm while sockets remain, otherwise compact the log.
AlarmFires ==
    /\ phase = "awake"
    /\ alarm
    /\ StartClosing({s \in DOMAIN connections : Expired(s)})
    /\ alarm' = (DOMAIN connections # {})
    /\ UNCHANGED <<connections, accepted, list, pendingRebroadcast, now,
                   phase, attachment, toRestore, ensuring>>

\* The runtime hibernates an idle object: no timer and no I/O of it is pending.
Hibernate ==
    /\ phase = "awake"
    /\ ~pendingRebroadcast
    /\ \A s \in Socket : ensuring[s] = "idle"
    /\ phase' = "asleep"
    /\ connections' = EmptyMap
    /\ UNCHANGED <<accepted, readyState, list, pendingRebroadcast, now,
                   attachment, toRestore, alarm, ensuring>>

\* An event for the object runs its constructor.
Wake ==
    /\ phase = "asleep"
    /\ phase' = IF attachment = EmptyMap THEN "awake" ELSE "waking"
    /\ toRestore' = DOMAIN attachment
    /\ UNCHANGED <<roomVars, attachment, alarm, ensuring>>

\* One iteration of the constructor's loop over getWebSockets(), which lists
\* the sockets in the order they were accepted.
Restore(s) ==
    /\ s \in toRestore
    /\ \A t \in toRestore : s <= t
    /\ addConnection(s, attachment[s])
    /\ toRestore' = toRestore \ {s}
    /\ phase' = IF toRestore' = {} THEN "awake" ELSE phase
    /\ UNCHANGED <<accepted, readyState, now, attachment, alarm, ensuring>>

\* A deploy or a crash: every socket is cut, the memory is lost, and the next
\* event constructs an empty room; the alarm is in storage and survives.
Restart ==
    /\ connections' = EmptyMap
    /\ readyState' = [s \in Socket |-> IF s \in DOMAIN attachment THEN "closed" ELSE readyState[s]]
    /\ list' = [s \in Socket |-> EmptyMap]
    /\ pendingRebroadcast' = FALSE
    /\ phase' = "awake"
    /\ attachment' = EmptyMap
    /\ toRestore' = {}
    /\ ensuring' = [s \in Socket |-> "idle"]
    /\ UNCHANGED <<accepted, now, alarm>>

\* A client begins to close, whether the object is in memory or not.
PeerCloses(s) ==
    /\ s \in DOMAIN attachment
    /\ readyState[s] = "open"
    /\ StartClosing({s})
    /\ UNCHANGED <<connections, accepted, list, pendingRebroadcast, now, objectVars>>

ClockTick == Tick /\ UNCHANGED objectVars

DurableNext ==
    \/ \E n \in Node : fetch(n)
    \/ \E s \in Socket : EnsureRead(s) \/ EnsureSet(s)
    \/ \E s \in Socket, code \in CloseCode : webSocketClose(s, code)
    \/ \E s \in Publisher, a \in Agent \cup {NoAgent} : PublishFrame(s, a)
    \/ \E s \in Socket : ClosingFrame(s) \/ PeerCloses(s)
    \/ GraceTimer
    \/ AlarmFires
    \/ Hibernate
    \/ Wake
    \/ \E s \in Socket : Restore(s)
    \/ Restart
    \/ ClockTick

\* Promises resolve, the constructor finishes, timers and alarms fire, and a
\* due alarm or a closed socket wakes the object.
DurableFairness ==
    /\ \A s \in Socket : WF_vars(EnsureRead(s)) /\ WF_vars(EnsureSet(s)) /\ WF_vars(Restore(s))
    /\ WF_vars(GraceTimer)
    /\ SF_vars(AlarmFires)
    /\ WF_vars(Wake /\ (alarm \/ \E s \in Socket : readyState[s] = "closing"))
    /\ \A s \in Socket :
          SF_vars(readyState[s] = "closing" /\ \E code \in CloseCode : webSocketClose(s, code))

DurableSpec == DurableInit /\ [][DurableNext]_vars
FairDurableSpec == DurableSpec /\ DurableFairness

-----------------------------------------------------------------------------
(* Properties *)

DurableTypeOK ==
    /\ TypeOK
    /\ phase \in {"awake", "asleep", "waking"}
    /\ DOMAIN attachment \subseteq 1..accepted
    /\ attachment \in [DOMAIN attachment -> Connection]
    /\ toRestore \subseteq DOMAIN attachment
    /\ alarm \in BOOLEAN
    /\ ensuring \in [Socket -> {"idle", "getAlarm", "setAlarm"}]

\* While any socket is live, in memory or only attached, the alarm that bounds
\* its lifetime is set or about to be: neither the un-awaited check-then-set,
\* nor a compaction alarm it mistook for a sweep, nor hibernation loses it.
SweepAlarmCovers ==
    DOMAIN attachment # {} => alarm \/ \E s \in Socket : ensuring[s] # "idle"

\* Hibernation loses nothing of a connection: the restored Map is the one that
\* was dropped, published agents included.
AttachmentsMirrorMap == phase = "awake" => connections = attachment

\* Outside the constructor, every open socket lists every other live node, and
\* only those when no rebroadcast is owed, although waking replays every join.
ListsExactAcrossHibernation ==
    phase # "waking" =>
        \A s \in DOMAIN attachment : readyState[s] = "open" =>
            LET others == NodesOf(attachment) \ {attachment[s].nodeId}
            IN  /\ others \subseteq DOMAIN list[s]
                /\ ~pendingRebroadcast => DOMAIN list[s] = others

\* A socket past its lifetime is closed even when silent and hibernated.
ExpiredClosedAcrossHibernation ==
    \A s \in Socket :
        (s \in DOMAIN attachment /\ now - attachment[s].connectedAt >= Lifetime)
            ~> s \notin DOMAIN attachment
=============================================================================
