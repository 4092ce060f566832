---------------------------- MODULE SyncSupervisor ----------------------------
(***************************************************************************)
(* The client's sync supervisor                                            *)
(* (packages/workspace/src/document/internal/sync-supervisor.ts): the loop *)
(* that keeps one WebSocket to the relay, its connection cycles and their  *)
(* cancellation, backoff, the parked `failed` phase, and teardown.         *)
(*                                                                         *)
(* The loop is one async function; pc is the await it is suspended at.     *)
(* A continuation whose promise has settled is a microtask: it runs before *)
(* any socket event, timer or window event (Macrotask), but the caller's   *)
(* own microtasks may call reconnect() or destroy the document before it.  *)
(***************************************************************************)
EXTENDS Naturals

CONSTANTS
    MaxCycles,     \* bound: 1 + calls of reconnect()
    MaxRetries,    \* retries saturate here (the delay does at MAX_DELAY_MS)
    LocalDenials   \* openWebSocket may throw a permanent denial

ASSUME SupervisorAssumption ==
    /\ MaxCycles \in Nat \ {0}
    /\ MaxRetries \in Nat \ {0}
    /\ LocalDenials \in BOOLEAN

VARIABLES
    pc,            \* where the supervisor loop is suspended
    cycle,         \* the current cycleController, numbered
    signal,        \* the cycle whose signal the current iteration holds
    destroyed,     \* masterController.signal.aborted
    status,        \* status phase
    retries,       \* backoff.retries
    whenConnected, \* the one-shot promise
    socket,        \* readyState of the attempt's socket, "none" without one
    opened,        \* openPromise: "pending" or what it resolved to
    handshake,     \* handshakeComplete of this attempt
    lastClose,     \* lastCloseCode: "lifetime" (4408) or "other"
    longSession,   \* lastSessionMs >= SCHEDULED_CLOSE_MIN_SESSION_MS
    disposal,      \* the destroy handler: "none", "loop", "close" or "done"
    rested         \* history: since the last attempt began, something other
                   \* than a short session separated it from the next

loopVars == <<pc, cycle, signal, destroyed, status, retries, whenConnected, socket,
              opened, handshake, lastClose, longSession, disposal, rested>>
socketVars == <<socket, opened, handshake, lastClose, longSession>>
callerVars == <<cycle, destroyed, disposal>>

Aborted == destroyed \/ signal # cycle

\* ws.close() unless already closing or closed.
Shut(state) == IF state \in {"connecting", "open"} THEN "closing" ELSE state

Settle(promise, to) == IF promise = "pending" THEN to ELSE promise

AtMost(a, b) == IF a <= b THEN a ELSE b

-----------------------------------------------------------------------------
SupervisorInit ==
    /\ pc = "waitFor"
    /\ cycle = 1
    /\ signal = 1
    /\ destroyed = FALSE
    /\ status = "offline"
    /\ retries = 0
    /\ whenConnected = "pending"
    /\ socket = "none"
    /\ opened = "pending"
    /\ handshake = FALSE
    /\ lastClose = "other"
    /\ longSession = FALSE
    /\ disposal = "none"
    /\ rested = TRUE

\* The loop leaves through its finally.
Exit ==
    /\ pc' = "exited"
    /\ status' = IF status = "failed" THEN status ELSE "offline"

\* waitFor settles, either way, or the master signal aborts.
Start ==
    /\ pc = "waitFor"
    /\ pc' = IF destroyed THEN "exited" ELSE "top"
    /\ UNCHANGED <<callerVars, signal, status, retries, whenConnected, socketVars, rested>>

\* The top of an iteration: exit, park, or attempt.
Iterate ==
    /\ pc = "top"
    /\ \/ destroyed /\ Exit /\ UNCHANGED <<signal, socketVars, rested>>
       \/ /\ ~destroyed /\ status = "failed"
          /\ pc' = "parked" /\ signal' = cycle
          /\ UNCHANGED <<status, socketVars>> /\ rested' = TRUE
       \/ /\ ~destroyed /\ status # "failed"
          /\ pc' = "opening" /\ signal' = cycle /\ status' = "connecting"
          /\ socket' = "none" /\ opened' = "pending" /\ handshake' = FALSE
          /\ rested' = FALSE
          /\ UNCHANGED <<lastClose, longSession>>
    /\ UNCHANGED <<callerVars, retries, whenConnected>>

Unpark ==
    /\ pc = "parked" /\ Aborted
    /\ pc' = "top"
    /\ UNCHANGED <<callerVars, signal, status, retries, whenConnected, socketVars, rested>>

\* Bug: a 4408 close skips the backoff however short the session was.
AfterAttempt_NoMinimum(result) ==
    LET scheduledReconnect == result = "connected" /\ lastClose = "lifetime"
        base == IF result = "connected" THEN 0 ELSE retries
    IN  IF destroyed
        THEN Exit /\ UNCHANGED retries
        ELSE IF ~scheduledReconnect /\ status # "failed" /\ ~Aborted
        THEN pc' = "sleeping" /\ retries' = AtMost(base + 1, MaxRetries) /\ UNCHANGED status
        ELSE pc' = "top" /\ retries' = base /\ UNCHANGED status

\* After attemptConnection returns: leave, back off, or go straight round.
AfterAttempt(result) ==
    LET scheduledReconnect ==
            result = "connected" /\ lastClose = "lifetime" /\ longSession
        base == IF result = "connected" THEN 0 ELSE retries
    IN  IF destroyed
        THEN Exit /\ UNCHANGED retries
        ELSE IF ~scheduledReconnect /\ status # "failed" /\ ~Aborted
        THEN pc' = "sleeping" /\ retries' = AtMost(base + 1, MaxRetries) /\ UNCHANGED status
        ELSE pc' = "top" /\ retries' = base /\ UNCHANGED status

\* Bug: the signal is not looked at after the await.
OpenResolves_Unchecked ==
    /\ pc = "opening"
    /\ pc' = "awaitOpen" /\ socket' = "connecting"
    /\ UNCHANGED <<callerVars, signal, status, retries, whenConnected, opened, handshake,
                   lastClose, longSession, rested>>

\* The opener's promise resolves; an aborted attempt closes the socket and
\* returns before installing any handler.
OpenResolves ==
    /\ pc = "opening"
    /\ IF Aborted
       THEN AfterAttempt("failed") /\ UNCHANGED socket
       ELSE pc' = "awaitOpen" /\ socket' = "connecting" /\ UNCHANGED <<status, retries>>
    /\ UNCHANGED <<callerVars, signal, whenConnected, opened, handshake, lastClose, longSession, rested>>

\* It throws; a permanent denial parks like a 4401.
OpenThrows ==
    /\ pc = "opening"
    /\ AfterAttempt("failed")
    /\ UNCHANGED <<callerVars, signal, whenConnected, socketVars, rested>>

OpenDenied ==
    /\ pc = "opening" /\ LocalDenials
    /\ IF destroyed THEN pc' = "exited" ELSE pc' = "top"
    /\ status' = "failed"
    /\ whenConnected' = Settle(whenConnected, "rejected")
    /\ UNCHANGED <<callerVars, signal, retries, socketVars, rested>>

\* `await openPromise` resumes.
ResumeOpen ==
    /\ pc = "awaitOpen" /\ opened # "pending"
    /\ LET ok == opened = "true" /\ ~Aborted
       IN  /\ pc' = IF ok THEN "awaitClose" ELSE "awaitCloseFailed"
           /\ socket' = IF ok THEN socket ELSE Shut(socket)
    /\ UNCHANGED <<callerVars, signal, status, retries, whenConnected, opened, handshake,
                   lastClose, longSession, rested>>

\* `await closePromise` resumes.
ResumeClose ==
    /\ pc \in {"awaitClose", "awaitCloseFailed"} /\ socket = "closed"
    /\ AfterAttempt(IF pc = "awaitClose" /\ handshake THEN "connected" ELSE "failed")
    /\ UNCHANGED <<callerVars, signal, whenConnected, socketVars, rested>>

\* The signal aborts the sleep.
WakeAborted ==
    /\ pc = "sleeping" /\ Aborted
    /\ pc' = "top" /\ rested' = TRUE
    /\ UNCHANGED <<callerVars, signal, status, retries, whenConnected, socketVars>>

\* A continuation is ready to run: no event or timer comes before it.
Runnable ==
    \/ pc = "top"
    \/ pc \in {"parked", "sleeping"} /\ Aborted
    \/ pc = "awaitOpen" /\ opened # "pending"
    \/ pc \in {"awaitClose", "awaitCloseFailed"} /\ socket = "closed"

Macrotask == ~Runnable

\* The backoff timer, or the window's online event through backoff.wake().
WakeTimer ==
    /\ Macrotask /\ pc = "sleeping"
    /\ pc' = "top" /\ rested' = TRUE
    /\ UNCHANGED <<callerVars, signal, status, retries, whenConnected, socketVars>>

\* Handlers are installed between the opener's return and the close event.
OnOpen ==
    /\ Macrotask /\ socket = "connecting"
    /\ socket' = "open"
    /\ opened' = Settle(opened, "true")
    /\ UNCHANGED <<pc, callerVars, signal, status, retries, whenConnected, handshake,
                   lastClose, longSession, rested>>

\* onerror: the connection failed and its close event is on the way.
OnError ==
    /\ Macrotask /\ socket \in {"connecting", "open", "closing"}
    /\ socket' = "closing"
    /\ opened' = Settle(opened, "false")
    /\ UNCHANGED <<pc, callerVars, signal, status, retries, whenConnected, handshake,
                   lastClose, longSession, rested>>

\* The first STEP2 or UPDATE of the attempt; the socket drops frames once closing.
OnSyncFrame ==
    /\ Macrotask /\ socket = "open" /\ ~handshake
    /\ handshake' = TRUE
    /\ status' = "connected"
    /\ whenConnected' = Settle(whenConnected, "resolved")
    /\ UNCHANGED <<pc, callerVars, signal, retries, socket, opened, lastClose, longSession, rested>>

\* The close event.  Only a socket that had opened brings a server's code, or
\* counts as a long session.
OnClose(code, long) ==
    /\ Macrotask /\ socket \in {"open", "closing"}
    /\ code # "other" \/ long => opened = "true"
    /\ socket' = "closed"
    /\ opened' = Settle(opened, "false")
    /\ lastClose' = IF code = "lifetime" THEN "lifetime" ELSE "other"
    /\ longSession' = long
    /\ IF code = "authFailed"
       THEN status' = "failed" /\ whenConnected' = Settle(whenConnected, "rejected")
       ELSE UNCHANGED <<status, whenConnected>>
    /\ rested' = (rested \/ long)
    /\ UNCHANGED <<pc, callerVars, signal, retries, handshake>>

\* connectTimeout, the liveness monitor and the window's offline event all
\* call ws.close().
TimerCloses(from) ==
    /\ Macrotask /\ socket = from
    /\ socket' = Shut(socket)
    /\ UNCHANGED <<pc, callerVars, signal, status, retries, whenConnected, opened, handshake,
                   lastClose, longSession, rested>>

\* onAbort: attached from the opener's return to the close event.
AbortSocket == socket' = Shut(socket)

\* Bug: `failed` is cleared under the controller the parked loop waits on.
reconnect_SameCycle ==
    /\ ~destroyed /\ cycle < MaxCycles
    /\ status' = IF status = "failed" THEN "offline" ELSE status
    /\ retries' = 0
    /\ AbortSocket
    /\ rested' = TRUE
    /\ UNCHANGED <<pc, cycle, signal, destroyed, whenConnected, opened, handshake,
                   lastClose, longSession, disposal>>

\* reconnect(): leave `failed`, abort the cycle and replace its controller.
reconnect ==
    /\ ~destroyed /\ cycle < MaxCycles
    /\ status' = IF status = "failed" THEN "offline" ELSE status
    /\ cycle' = cycle + 1
    /\ retries' = 0
    /\ AbortSocket
    /\ rested' = TRUE
    /\ UNCHANGED <<pc, signal, destroyed, whenConnected, opened, handshake, lastClose,
                   longSession, disposal>>

\* Bug: the socket is left to itself.
Destroy_SocketLeft ==
    /\ ~destroyed
    /\ destroyed' = TRUE
    /\ disposal' = "loop"
    /\ whenConnected' = Settle(whenConnected, "rejected")
    /\ UNCHANGED <<pc, cycle, signal, status, retries, socketVars, rested>>

\* ydoc.destroy(): abort the master signal and start the teardown handler.
Destroy ==
    /\ ~destroyed
    /\ destroyed' = TRUE
    /\ disposal' = "loop"
    /\ whenConnected' = Settle(whenConnected, "rejected")
    /\ AbortSocket
    /\ UNCHANGED <<pc, cycle, signal, status, retries, opened, handshake, lastClose,
                   longSession, rested>>

\* The handler awaits the loop, then waitForWsClose: the close event or its
\* 1000 ms failsafe, unless the socket is gone.
Dispose ==
    /\ disposal = "close" \/ (disposal = "loop" /\ pc = "exited")
    /\ disposal' = IF disposal = "loop" /\ socket \notin {"none", "closed"} THEN "close" ELSE "done"
    /\ UNCHANGED <<pc, cycle, signal, destroyed, status, retries, whenConnected, socketVars, rested>>

CloseKind == {"authFailed", "lifetime", "other"}

Microtask ==
    Iterate \/ Unpark \/ ResumeOpen \/ ResumeClose \/ WakeAborted \/ Dispose

SupervisorNext ==
    \/ Start
    \/ Microtask
    \/ OpenResolves \/ OpenThrows \/ OpenDenied
    \/ WakeTimer
    \/ OnOpen \/ OnError \/ OnSyncFrame
    \/ \E code \in CloseKind, long \in BOOLEAN : OnClose(code, long)
    \/ \E from \in {"connecting", "open"} : TimerCloses(from)
    \/ reconnect
    \/ Destroy

SupervisorSpec == SupervisorInit /\ [][SupervisorNext]_loopVars

\* The program's own continuations and timers.
OwnFairness ==
    /\ WF_loopVars(Start) /\ WF_loopVars(Microtask) /\ WF_loopVars(WakeTimer)
    /\ WF_loopVars(TimerCloses("connecting"))

\* What the platform promises: the opener settles, and a socket that never opened
\* and is closed gets its close event.  One that had opened waits for its peer to
\* answer the closing handshake, which is not promised.
PlatformFairness ==
    /\ WF_loopVars(OpenResolves \/ OpenThrows \/ OpenDenied)
    /\ WF_loopVars(socket = "closing" /\ opened # "true" /\ OnClose("other", FALSE))

FairSpec == SupervisorSpec /\ OwnFairness /\ PlatformFairness

-----------------------------------------------------------------------------
(* Properties *)

TypeOK ==
    /\ pc \in {"waitFor", "top", "opening", "awaitOpen", "awaitClose", "awaitCloseFailed",
               "sleeping", "parked", "exited"}
    /\ cycle \in 1..MaxCycles
    /\ signal \in 1..cycle
    /\ destroyed \in BOOLEAN
    /\ status \in {"offline", "connecting", "connected", "failed"}
    /\ retries \in 0..MaxRetries
    /\ whenConnected \in {"pending", "resolved", "rejected"}
    /\ socket \in {"none", "connecting", "open", "closing", "closed"}
    /\ opened \in {"pending", "true", "false"}
    /\ handshake \in BOOLEAN
    /\ lastClose \in {"lifetime", "other"}
    /\ longSession \in BOOLEAN
    /\ disposal \in {"none", "loop", "close", "done"}
    /\ rested \in BOOLEAN

\* A live socket is never left behind by the loop: while one is connecting or
\* open, the loop is suspended on that attempt, whose signal has not aborted.
NoOrphanSocket ==
    socket \in {"connecting", "open"} => pc \in {"awaitOpen", "awaitClose"} /\ ~Aborted

\* A server that ends every handshake at once, with whatever close code,
\* cannot drive the client into a loop of attempts with no pause between them.
NoHotLoop == [][pc = "top" /\ pc' = "opening" => rested]_loopVars

\* The peer never answers the closing handshake: no close event comes.
CloseHangs == [](socket = "closing" /\ opened = "true")

\* Until it fails permanently or is destroyed, the supervisor is always on its
\* way to another attempt, or holds an open socket; only a peer that never
\* answers a closing handshake keeps it from that.
KeepsTrying ==
    ~destroyed /\ status # "failed"
        ~> pc = "opening" \/ socket = "open" \/ status = "failed" \/ destroyed \/ CloseHangs

\* Destroying the document, in whichever await the loop is, ends in whenDisposed,
\* unless the peer never answers the closing handshake: the 1000 ms failsafe of
\* waitForWsClose is armed behind the await of the loop, and the loop awaits that
\* close without a limit.  Nothing else keeps a teardown.
DisposeCompletes == destroyed ~> (disposal = "done" \/ CloseHangs)

=============================================================================
