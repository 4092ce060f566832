---------------------------- MODULE Client_proof ----------------------------
(***************************************************************************)
(* What the two halves of a client's connection promise. The auth runtime, *)
(* for any number of callers, principals, grants, sign-ins, sign-outs,     *)
(* failures and reloads: no bearer leaves unconfirmed, a sign-out is       *)
(* final, the storage follows memory and no principal replaces another.    *)
(* The sync supervisor, for any number of reconnects: it never leaves a    *)
(* socket behind and never loops without a pause.                          *)
(***************************************************************************)
EXTENDS AuthSession, SyncSupervisor, TLAPS

-----------------------------------------------------------------------------
(* The sync supervisor                                                     *)

Place == {"waitFor", "top", "opening", "awaitOpen", "awaitClose", "awaitCloseFailed",
          "sleeping", "parked", "exited"}

\* The loop awaits a socket exactly while that may be alive, and an aborted
\* attempt has closed its own.
Attended ==
    /\ pc \in Place
    /\ pc \notin {"awaitOpen", "awaitClose", "awaitCloseFailed"} => socket \in {"none", "closed"}
    /\ pc \in {"awaitOpen", "awaitClose"} => socket \in {"connecting", "open", "closing", "closed"}
    /\ pc = "awaitCloseFailed" => socket \in {"closing", "closed"}
    /\ Aborted => socket \notin {"connecting", "open"}

\* The loop comes to the top for another attempt only after a pause: what
\* skips the sleep is a long session, a reconnect, or the way to the parked phase.
Rested ==
    /\ pc \in {"waitFor", "parked"} => rested
    /\ pc = "top" /\ status # "failed" /\ ~destroyed => rested
    /\ signal # cycle => rested
    /\ socket = "closed" /\ longSession => rested

-----------------------------------------------------------------------------
\* No action leaves a live socket that the loop does not await.
LEMMA AttendedStep == Attended /\ [SupervisorNext]_loopVars => Attended'
<1> SUFFICES ASSUME Attended, [SupervisorNext]_loopVars
             PROVE  Attended'
  OBVIOUS
<1> USE DEF Attended, Aborted, Place, callerVars, socketVars
<1>1. CASE Start
  BY <1>1 DEF Start
<1>2. CASE Iterate
  BY <1>2 DEF Iterate, Exit
<1>3. CASE Unpark
  BY <1>3 DEF Unpark
<1>4. CASE ResumeOpen
  BY <1>4 DEF ResumeOpen, Shut
<1>5. CASE ResumeClose
  BY <1>5 DEF ResumeClose, AfterAttempt, Exit
<1>6. CASE WakeAborted
  BY <1>6 DEF WakeAborted
<1>7. CASE Dispose
  BY <1>7 DEF Dispose
<1>8. CASE OpenResolves
  BY <1>8 DEF OpenResolves, AfterAttempt, Exit
<1>9. CASE OpenThrows
  BY <1>9 DEF OpenThrows, AfterAttempt, Exit
<1>10. CASE OpenDenied
  BY <1>10 DEF OpenDenied
<1>11. CASE WakeTimer
  BY <1>11 DEF WakeTimer
<1>12. CASE OnOpen
  BY <1>12 DEF OnOpen
<1>13. CASE OnError
  BY <1>13 DEF OnError
<1>14. CASE OnSyncFrame
  BY <1>14 DEF OnSyncFrame
<1>15. ASSUME NEW code \in CloseKind, NEW long \in BOOLEAN, OnClose(code, long)
       PROVE  Attended'
  BY <1>15 DEF OnClose
<1>16. ASSUME NEW from \in {"connecting", "open"}, TimerCloses(from)
       PROVE  Attended'
  BY <1>16 DEF TimerCloses, Shut
<1>17. CASE reconnect
  BY <1>17 DEF reconnect, AbortSocket, Shut
<1>18. CASE Destroy
  BY <1>18 DEF Destroy, AbortSocket, Shut
<1>19. CASE UNCHANGED loopVars
  BY <1>19 DEF loopVars
<1> QED
  BY <1>1, <1>2, <1>3, <1>4, <1>5, <1>6, <1>7, <1>8, <1>9, <1>10, <1>11, <1>12, <1>13, <1>14,
     <1>15, <1>16, <1>17, <1>18, <1>19 DEF SupervisorNext, Microtask

\* A connecting or open socket is always that of the attempt the loop awaits
\* (attemptConnection), in every order of its events, reconnect() and destroy().
THEOREM NoSocketLeftBehind == SupervisorSpec => []NoOrphanSocket
<1>1. SupervisorInit => Attended
  BY DEF SupervisorInit, Attended, Aborted, Place
<1>2. Attended => NoOrphanSocket
  BY DEF Attended, NoOrphanSocket, Place
<1> QED
  BY <1>1, <1>2, AttendedStep, PTL DEF SupervisorSpec

-----------------------------------------------------------------------------
\* Every way back to the top has paused.
LEMMA RestedStep == Attended /\ Rested /\ [SupervisorNext]_loopVars => Rested'
<1> SUFFICES ASSUME Attended, Rested, [SupervisorNext]_loopVars
             PROVE  Rested'
  OBVIOUS
<1> USE DEF Rested, Aborted, callerVars, socketVars
<1>1. CASE Start
  BY <1>1 DEF Start
<1>2. CASE Iterate
  BY <1>2 DEF Iterate, Exit
<1>3. CASE Unpark
  BY <1>3 DEF Unpark
<1>4. CASE ResumeOpen
  BY <1>4 DEF ResumeOpen, Shut
<1>5. CASE ResumeClose
  BY <1>5 DEF ResumeClose, AfterAttempt, Exit
<1>6. CASE WakeAborted
  BY <1>6 DEF WakeAborted
<1>7. CASE Dispose
  BY <1>7 DEF Dispose
<1>8. CASE OpenResolves
  BY <1>8 DEF OpenResolves, AfterAttempt, Exit
<1>9. CASE OpenThrows
  BY <1>9 DEF OpenThrows, AfterAttempt, Exit
<1>10. CASE OpenDenied
  BY <1>10 DEF OpenDenied
<1>11. CASE WakeTimer
  BY <1>11 DEF WakeTimer
<1>12. CASE OnOpen
  BY <1>12 DEF OnOpen
<1>13. CASE OnError
  BY <1>13 DEF OnError
<1>14. CASE OnSyncFrame
  BY <1>14 DEF OnSyncFrame, Attended
<1>15. ASSUME NEW code \in CloseKind, NEW long \in BOOLEAN, OnClose(code, long)
       PROVE  Rested'
  BY <1>15 DEF OnClose, Macrotask, Runnable
<1>16. ASSUME NEW from \in {"connecting", "open"}, TimerCloses(from)
       PROVE  Rested'
  BY <1>16 DEF TimerCloses, Shut
<1>17. CASE reconnect
  BY <1>17 DEF reconnect, AbortSocket, Shut
<1>18. CASE Destroy
  BY <1>18 DEF Destroy, AbortSocket, Shut
<1>19. CASE UNCHANGED loopVars
  BY <1>19 DEF loopVars
<1> QED
  BY <1>1, <1>2, <1>3, <1>4, <1>5, <1>6, <1>7, <1>8, <1>9, <1>10, <1>11, <1>12, <1>13, <1>14,
     <1>15, <1>16, <1>17, <1>18, <1>19 DEF SupervisorNext, Microtask

\* Two attempts are always separated by a pause, a long session or a
\* reconnect() (the loop's handling of 4408), whatever a server closes with.
THEOREM NoLoopWithoutPause == SupervisorSpec => NoHotLoop
<1>1. SupervisorInit => Attended /\ Rested
  BY DEF SupervisorInit, Attended, Rested, Aborted, Place
<1>2. Attended /\ Rested /\ [SupervisorNext]_loopVars => (Attended /\ Rested)'
  BY AttendedStep, RestedStep
<1>3. Rested /\ [SupervisorNext]_loopVars =>
         [pc = "top" /\ pc' = "opening" => rested]_loopVars
  <2> SUFFICES ASSUME Rested, SupervisorNext, pc = "top", pc' = "opening"
               PROVE  rested
    BY DEF loopVars
  <2>1. CASE Iterate
    BY <2>1 DEF Iterate, Exit, Rested
  <2>2. CASE ~Iterate
    BY <2>2 DEF SupervisorNext, Microtask, Start, Unpark, ResumeOpen, ResumeClose, WakeAborted, Dispose,
       OpenResolves, OpenThrows, OpenDenied, WakeTimer, OnOpen, OnError, OnSyncFrame, OnClose,
       TimerCloses, reconnect, Destroy
  <2> QED
    BY <2>1, <2>2
<1> QED
  BY <1>1, <1>2, <1>3, PTL DEF SupervisorSpec, NoHotLoop

-----------------------------------------------------------------------------
(* The auth runtime                                                        *)

GrantRecord == [principal : Principal, owner : Principal]
SignInAt == {"launching", "reading", "clearing", "writing", "over"}
SignInRecord == [at : SignInAt, grant : Nat, previous : Nat]
FlightRecord == [at : {"idle", "asking", "writing"}, next : Nat]
Kind == {"refresh", "verify", "signIn", "signOut"}
WriteRecord == [value : Nat, by : Kind \X Nat]

\* A write that a refresh waits for is of a session, one of a sign-in of one `begun`.
QueueShape(q, begun) ==
    /\ q \in Seq(WriteRecord)
    /\ \A k \in DOMAIN q :
          /\ q[k].by[1] = "refresh" => q[k].by[2] \in Session
          /\ q[k].by[1] = "signIn" => q[k].by[2] \in begun

\* As much of the types as the proofs use.
Shape ==
    /\ memory \in Nat /\ cell \in Nat
    /\ grants \in Seq(GrantRecord)
    /\ Len(grants) <= MaxGrants
    /\ signIns \in Seq(SignInRecord)
    /\ refresh \in [Session -> FlightRecord]
    /\ QueueShape(writes, DOMAIN signIns)

\* A request is a record of four fields.
CallerShape ==
    /\ DOMAIN caller = Caller
    /\ \A c \in Caller : DOMAIN caller[c] = {"at", "retry", "on", "ok"}

\* A session in memory counts as verified only if it was confirmed.
VerifiedConfirmed == access = "verified" /\ memory # None => memory \in confirmed

\* What a sign-in writes, it has confirmed.
SignInConfirmed(i, begun, known) == begun[i].at # "launching" /\ begun[i].grant \in known
QueueConfirmed(q, begun, known) ==
    \A k \in DOMAIN q : q[k].by[1] = "signIn" => SignInConfirmed(q[k].by[2], begun, known)
SignInsConfirmed == QueueConfirmed(writes, signIns, confirmed)

BearerInv == VerifiedConfirmed /\ SignInsConfirmed /\ BearerConfirmed

\* Once a sign-out was asked for, what is queued besides None is ahead of a
\* write of a sign-out; once it returned, nothing is.
QueueOut(q) ==
    \A k \in DOMAIN q : q[k].by[1] = "signOut" => q[k].value = None /\ q[k].by[2] = 0
AheadOfSignOut(q) ==
    \A k \in DOMAIN q : q[k].value = None \/ \E j \in DOMAIN q : j > k /\ q[j].by[1] = "signOut"
OnlyNone(q) == \A k \in DOMAIN q : q[k].value = None

NothingBehind ==
    /\ QueueOut(writes)
    /\ signedOut = "asked" => AheadOfSignOut(writes)
    /\ signedOut = "done" => OnlyNone(writes)

\* And no sign-in is current.
NoneCurrent == signedOut \in {"asked", "done"} => current = None

SignOutInv == NothingBehind /\ NoneCurrent /\ SignOutIsFinal

-----------------------------------------------------------------------------
(* Queues                                                                  *)

\* The queue with one write more.
LEMMA AppendWrite ==
    ASSUME NEW q \in Seq(WriteRecord), NEW e \in WriteRecord
    PROVE  /\ Append(q, e) \in Seq(WriteRecord)
           /\ Len(q) \in Nat
           /\ DOMAIN Append(q, e) = 1..(Len(q) + 1) /\ DOMAIN q = 1..Len(q)
           /\ \A k \in DOMAIN q : Append(q, e)[k] = q[k]
           /\ Append(q, e)[Len(q) + 1] = e
  OBVIOUS

\* The queue without its first write.
LEMMA TailWrite ==
    ASSUME NEW q \in Seq(WriteRecord), q # <<>>
    PROVE  /\ Tail(q) \in Seq(WriteRecord)
           /\ 1 \in DOMAIN q /\ Head(q) = q[1]
           /\ DOMAIN Tail(q) = 1..(Len(q) - 1) /\ DOMAIN q = 1..Len(q)
           /\ Len(q) \in Nat \ {0}
           /\ \A k \in DOMAIN Tail(q) : k + 1 \in DOMAIN q /\ Tail(q)[k] = q[k + 1]
  OBVIOUS

\* A sign-in begun leaves those before it as they are.
LEMMA AppendSignIn ==
    ASSUME NEW q \in Seq(SignInRecord), NEW e \in SignInRecord
    PROVE  /\ Append(q, e) \in Seq(SignInRecord)
           /\ Len(q) \in Nat
           /\ DOMAIN Append(q, e) = 1..(Len(q) + 1) /\ DOMAIN q = 1..Len(q)
           /\ \A k \in DOMAIN q : Append(q, e)[k] = q[k]
  OBVIOUS

\* A step of a sign-in changes where it is, and nothing else.
LEMMA SignInStepShape ==
    ASSUME NEW q \in Seq(SignInRecord), NEW i \in DOMAIN q, NEW a \in SignInAt
    PROVE  /\ [q EXCEPT ![i].at = a] \in Seq(SignInRecord)
           /\ DOMAIN [q EXCEPT ![i].at = a] = DOMAIN q
           /\ \A k \in DOMAIN q : [q EXCEPT ![i].at = a][k].grant = q[k].grant
           /\ \A k \in DOMAIN q : [q EXCEPT ![i].at = a][k].at = IF k = i THEN a ELSE q[k].at
<1>1. Len(q) \in Nat /\ q \in [1..Len(q) -> SignInRecord] /\ DOMAIN q = 1..Len(q)
  OBVIOUS
<1> DEFINE new == [q EXCEPT ![i].at = a]
<1>2. q[i] \in SignInRecord
  BY <1>1
<1>3. [q[i] EXCEPT !.at = a] \in SignInRecord /\ [q[i] EXCEPT !.at = a].at = a
         /\ [q[i] EXCEPT !.at = a].grant = q[i].grant
  BY <1>2 DEF SignInRecord
<1>4. new = [q EXCEPT ![i] = [q[i] EXCEPT !.at = a]]
  OBVIOUS
<1>5. new \in [1..Len(q) -> SignInRecord]
  BY <1>1, <1>3, <1>4
<1>6. new \in Seq(SignInRecord)
  BY <1>1, <1>5
<1>7. \A k \in DOMAIN q : new[k] = IF k = i THEN [q[i] EXCEPT !.at = a] ELSE q[k]
  BY <1>1, <1>4
<1> QED
  BY <1>1, <1>3, <1>5, <1>6, <1>7

-----------------------------------------------------------------------------
(* Shapes                                                                  *)

\* At the start every request is idle.
LEMMA CallerShapeInit == Init => CallerShape
  BY DEF Init, CallerShape, Idle

\* Every action gives a request four fields.
LEMMA CallerShapeStep == CallerShape /\ [Next]_vars => CallerShape'
<1> SUFFICES ASSUME CallerShape, [Next]_vars
             PROVE  CallerShape'
  OBVIOUS
<1>a. CASE UNCHANGED caller
  BY <1>a DEF CallerShape
<1>b. ASSUME NEW c \in Caller, NEW at, NEW retry, NEW on, NEW ok,
             caller' = [caller EXCEPT ![c] = [at |-> at, retry |-> retry, on |-> on, ok |-> ok]]
      PROVE  CallerShape'
  BY <1>b DEF CallerShape
<1>c. ASSUME NEW at, NEW s, NEW next, NEW ok, Wake(at, s, next, ok)
      PROVE  CallerShape'
  BY <1>c DEF CallerShape, Wake
<1>d. ASSUME NEW s, NEW ok, WakeRefreshed(s, ok)
      PROVE  CallerShape'
  BY <1>d DEF CallerShape, WakeRefreshed
<1>e. ASSUME NEW c \in Caller, NEW retry, ResolveBearer(c, retry)
      PROVE  CallerShape'
  BY <1>b, <1>e DEF ResolveBearer, Send, JoinRefresh
<1>f. ASSUME NEW i, RefreshFails(i) \/ RefreshWritten(i)
      PROVE  CallerShape'
  BY <1>d, <1>f DEF RefreshFails, RefreshWritten
<1>1. ASSUME NEW c \in Caller, authedFetch(c)
      PROVE  CallerShape'
  BY <1>1, <1>e DEF authedFetch
<1>2. ASSUME NEW c \in Caller, AfterRefresh(c)
      PROVE  CallerShape'
  <2>1. CASE caller' = [caller EXCEPT ![c].at = "verifying", ![c].on = memory]
    BY <2>1 DEF CallerShape
  <2> QED
    BY <1>2, <1>b, <2>1 DEF AfterRefresh, Send
<1>3. ASSUME NEW c \in Caller, AfterVerify(c)
      PROVE  CallerShape'
  BY <1>3, <1>b DEF AfterVerify, Send
<1>4. ASSUME NEW c \in Caller, Answered(c)
      PROVE  CallerShape'
  BY <1>4, <1>b DEF Answered, Idle
<1>5. ASSUME NEW c \in Caller, Answered401(c)
      PROVE  CallerShape'
  BY <1>5, <1>b DEF Answered401, Idle, JoinRefresh
<1>6. ASSUME NEW c \in Caller, AfterForce(c)
      PROVE  CallerShape'
  BY <1>6, <1>b, <1>e DEF AfterForce, Idle
<1>7. ASSUME NEW s \in DOMAIN grants,
             RefreshGranted(s) \/ RefreshRefused(s) \/ SessionRejected(s)
                \/ SessionUnreachable(s) \/ SessionRead(s)
      PROVE  CallerShape'
  BY <1>7, <1>a, <1>c, <1>d, <1>f
     DEF RefreshGranted, RefreshRefused, SessionRejected, SessionUnreachable, SessionRead,
         SettleVerify
<1>8. CASE startSignIn \/ signOut
  BY <1>8, <1>a DEF startSignIn, signOut
<1>9. ASSUME NEW i \in DOMAIN signIns,
             LaunchEnds(i) \/ LaunchCompletes(i) \/ SignInRead(i) \/ SignInReadFails(i)
      PROVE  CallerShape'
  BY <1>9, <1>a DEF LaunchEnds, LaunchCompletes, SignInRead, SignInReadFails
<1>10. CASE WriteSettles
  BY <1>10, <1>a, <1>c, <1>f DEF WriteSettles, SettleVerify
<1>11. CASE WriteFails
  BY <1>11, <1>a, <1>c, <1>f DEF WriteFails
<1>12. CASE Restart
  BY <1>12 DEF Restart, CallerShape, Idle
<1>13. CASE UNCHANGED vars
  BY <1>13, <1>a DEF vars
<1> QED
  BY <1>1, <1>2, <1>3, <1>4, <1>5, <1>6, <1>7, <1>8, <1>9, <1>10, <1>11, <1>12, <1>13 DEF Next

\* A flight that is not under way.
LEMMA IdleFlight == [at |-> "idle", next |-> None] \in FlightRecord
  BY DEF None, FlightRecord

\* A runtime starts with at most one grant.
LEMMA ShapeInit == Init => Shape
<1> SUFFICES ASSUME Init PROVE Shape
  OBVIOUS
<1>1. /\ memory \in Nat /\ cell \in Nat
      /\ grants \in Seq(GrantRecord)
      /\ Len(grants) <= MaxGrants
  <2>1. MaxGrants \in Nat \ {0}
    BY AuthAssumption
  <2>2. CASE grants = <<>>
    BY <2>1, <2>2 DEF Init, None
  <2>3. CASE \E p, q \in Principal :
                grants = <<[principal |-> p, owner |-> q]>> /\ cell \in {None, 1}
    <3>1. PICK p, q \in Principal : grants = <<[principal |-> p, owner |-> q]>>
      BY <2>3
    <3>2. [principal |-> p, owner |-> q] \in GrantRecord
      BY DEF GrantRecord
    <3>3. grants \in Seq(GrantRecord) /\ Len(grants) = 1
      BY <3>1, <3>2
    <3> QED
      BY <2>1, <2>3, <3>3 DEF Init, None
  <2> QED
    BY <2>2, <2>3 DEF Init
<1>2. signIns \in Seq(SignInRecord) /\ QueueShape(writes, DOMAIN signIns)
  BY DEF Init, QueueShape
<1>3. refresh \in [Session -> FlightRecord]
  BY IdleFlight DEF Init
<1> QED
  BY <1>1, <1>2, <1>3 DEF Shape

\* The flights keep their type under each way of changing one.
LEMMA FlightShape ==
    ASSUME NEW f \in [Session -> FlightRecord], NEW s
    PROVE  /\ \A r \in FlightRecord : [f EXCEPT ![s] = r] \in [Session -> FlightRecord]
           /\ [f EXCEPT ![s].at = "idle"] \in [Session -> FlightRecord]
<1>1. \A r \in FlightRecord : [f EXCEPT ![s] = r] \in [Session -> FlightRecord]
  OBVIOUS
<1>2. CASE s \in Session
  <2>1. f[s] \in FlightRecord
    BY <1>2
  <2>2. [f[s] EXCEPT !.at = "idle"] \in FlightRecord
    BY <2>1 DEF FlightRecord
  <2>3. [f EXCEPT ![s].at = "idle"] = [f EXCEPT ![s] = [f[s] EXCEPT !.at = "idle"]]
    OBVIOUS
  <2> QED
    BY <1>1, <2>2, <2>3
<1>3. CASE s \notin Session
  <2>1. [f EXCEPT ![s].at = "idle"] = f
    BY <1>3
  <2> QED
    BY <2>1
<1> QED
  BY <1>1, <1>2, <1>3

\* The queue keeps its shape when a write is appended.
LEMMA AppendShape ==
    ASSUME NEW q, NEW d, QueueShape(q, d), NEW v \in Nat, NEW kind \in Kind, NEW i \in Nat,
           kind = "refresh" => i \in Session, kind = "signIn" => i \in d
    PROVE  QueueShape(Append(q, [value |-> v, by |-> <<kind, i>>]), d)
<1> DEFINE e == [value |-> v, by |-> <<kind, i>>]
<1>1. e \in WriteRecord /\ e.by[1] = kind /\ e.by[2] = i
  BY DEF WriteRecord
<1> HIDE DEF e
<1>2. q \in Seq(WriteRecord)
  BY DEF QueueShape
<1>3. \A k \in DOMAIN Append(q, e) : k \in DOMAIN q \/ k = Len(q) + 1
  BY <1>1, <1>2, AppendWrite
<1>4. QueueShape(Append(q, e), d)
  BY <1>1, <1>2, <1>3, AppendWrite DEF QueueShape
<1> QED
  BY <1>4 DEF e

\* And when its first write settles.
LEMMA TailShape ==
    ASSUME NEW q, NEW d, QueueShape(q, d), q # <<>>
    PROVE  /\ QueueShape(Tail(q), d)
           /\ Head(q) \in WriteRecord
           /\ Head(q).by[1] = "refresh" => Head(q).by[2] \in Session
           /\ Head(q).by[1] = "signIn" => Head(q).by[2] \in d
  BY TailWrite DEF QueueShape

\* Every action keeps the shape of the state.
LEMMA ShapeStep == Shape /\ [Next]_vars => Shape'
<1> SUFFICES ASSUME Shape, [Next]_vars
             PROVE  Shape'
  OBVIOUS
<1>0. /\ memory \in Nat /\ cell \in Nat /\ None \in Nat
      /\ grants \in Seq(GrantRecord)
      /\ Len(grants) <= MaxGrants
      /\ signIns \in Seq(SignInRecord)
      /\ refresh \in [Session -> FlightRecord]
      /\ QueueShape(writes, DOMAIN signIns)
  BY DEF Shape, None
<1>g. DOMAIN grants \subseteq Session /\ Session \subseteq Nat
  BY <1>0, AuthAssumption DEF Session
<1>i. DOMAIN signIns \subseteq Nat
  BY <1>0
<1>k. ASSUME NEW q, QueueShape(q, DOMAIN signIns), DOMAIN signIns \subseteq DOMAIN signIns'
      PROVE  QueueShape(q, DOMAIN signIns')
  BY <1>k DEF QueueShape
<1>a. ASSUME UNCHANGED <<memory, cell, grants, signIns, writes>>,
             refresh' \in [Session -> FlightRecord]
      PROVE  Shape'
  BY <1>a, <1>0 DEF Shape
<1>b. ASSUME NEW c \in Caller, NEW at, NEW retry, JoinRefresh(c, at, retry)
      PROVE  refresh' \in [Session -> FlightRecord]
  <2>1. [at |-> "asking", next |-> None] \in FlightRecord
    BY DEF FlightRecord, None
  <2> QED
    BY <1>b, <1>0, <2>1, FlightShape DEF JoinRefresh
<1>c. ASSUME NEW c \in Caller, NEW retry, ResolveBearer(c, retry)
      PROVE  refresh' \in [Session -> FlightRecord]
  BY <1>b, <1>c, <1>0 DEF ResolveBearer
<1>d. ASSUME NEW p \in Principal, NEW q \in Principal, Issue(p, q)
      PROVE  /\ grants' \in Seq(GrantRecord)
             /\ Len(grants') \in Session
             /\ Len(grants') <= MaxGrants
  <2>1. [principal |-> p, owner |-> q] \in GrantRecord
    BY DEF GrantRecord
  <2> QED
    BY <1>d, <1>0, <2>1, AuthAssumption DEF Issue, Session
<1>e. ASSUME NEW i \in DOMAIN signIns, NEW a \in SignInAt, SignInStep(i, a)
      PROVE  signIns' \in Seq(SignInRecord) /\ DOMAIN signIns' = DOMAIN signIns
  BY <1>e, <1>0, SignInStepShape DEF SignInStep
<1>f. ASSUME NEW s, RefreshFails(s)
      PROVE  refresh' \in [Session -> FlightRecord] /\ memory' = memory
  BY <1>f, <1>0, IdleFlight, FlightShape DEF RefreshFails, SetAccess, memoryVars
<1>1. ASSUME NEW c \in Caller, authedFetch(c) \/ AfterForce(c)
      PROVE  Shape'
  BY <1>1, <1>0, <1>a, <1>c DEF authedFetch, AfterForce, memoryVars
<1>2. ASSUME NEW c \in Caller, AfterRefresh(c) \/ AfterVerify(c) \/ Answered(c)
      PROVE  Shape'
  BY <1>2, <1>0, <1>a DEF AfterRefresh, AfterVerify, Answered, memoryVars
<1>3. ASSUME NEW c \in Caller, Answered401(c)
      PROVE  Shape'
  BY <1>3, <1>0, <1>a, <1>b DEF Answered401, memoryVars, SetAccess
<1>4. ASSUME NEW s \in DOMAIN grants, RefreshGranted(s)
      PROVE  Shape'
  <2>1. CASE memory # s
    BY <1>4, <2>1, <1>0, <1>a, FlightShape DEF RefreshGranted, memoryVars
  <2>2. CASE memory = s
    <3>1. grants[s].principal \in Principal /\ grants[s].owner \in Principal
      <4>1. grants[s] \in GrantRecord
        BY <1>0
      <4> QED
        BY <4>1 DEF GrantRecord
    <3>2. /\ grants' \in Seq(GrantRecord)
          /\ Len(grants') \in Session
          /\ Len(grants') <= MaxGrants
      BY <1>4, <2>2, <3>1, <1>d DEF RefreshGranted
    <3>3. writes' = Append(writes, [value |-> Len(grants'), by |-> <<"refresh", s>>])
      BY <1>4, <2>2 DEF RefreshGranted, Write
    <3>4. QueueShape(writes', DOMAIN signIns)
      BY <3>2, <3>3, <1>0, <1>g, AppendShape DEF Kind
    <3>5. [at |-> "writing", next |-> Len(grants')] \in FlightRecord
      BY <3>2, <1>g DEF FlightRecord
    <3>6. refresh' \in [Session -> FlightRecord]
      BY <1>4, <2>2, <3>5, <1>0, FlightShape DEF RefreshGranted
    <3> QED
      BY <1>4, <3>2, <3>4, <3>6, <1>0 DEF RefreshGranted, Shape, memoryVars
  <2> QED
    BY <2>1, <2>2
<1>5. ASSUME NEW s \in DOMAIN grants, RefreshRefused(s)
      PROVE  Shape'
  BY <1>5, <1>a, <1>f DEF RefreshRefused
<1>6. ASSUME NEW s \in DOMAIN grants, SessionRejected(s) \/ SessionUnreachable(s)
      PROVE  Shape'
  BY <1>6, <1>0, <1>a DEF SessionRejected, SessionUnreachable, SetAccess, memoryVars
<1>7. ASSUME NEW s \in DOMAIN grants, SessionRead(s)
      PROVE  Shape'
  <2>1. CASE UNCHANGED <<memory, writes>>
    BY <1>7, <2>1, <1>0, <1>a DEF SessionRead
  <2>2. CASE Forget /\ Write(None, <<"verify", s>>)
    <3>1. memory' = None /\ QueueShape(writes', DOMAIN signIns)
      BY <2>2, <1>0, <1>g, AppendShape DEF Forget, Write, Kind
    <3> QED
      BY <1>7, <3>1, <1>0 DEF SessionRead, Shape
  <2> QED
    BY <1>7, <2>1, <2>2 DEF SessionRead, SetAccess, memoryVars
<1>8. ASSUME startSignIn
      PROVE  Shape'
  <2>1. [at |-> "launching", grant |-> None, previous |-> None] \in SignInRecord
    BY DEF SignInRecord, SignInAt, None
  <2>2. signIns' \in Seq(SignInRecord) /\ DOMAIN signIns \subseteq DOMAIN signIns'
    BY <1>8, <2>1, <1>0, AppendSignIn DEF startSignIn
  <2>3. QueueShape(writes, DOMAIN signIns') /\ writes' = writes
    BY <1>8, <2>2, <1>0, <1>k DEF startSignIn
  <2> QED
    BY <1>8, <2>2, <2>3, <1>0 DEF startSignIn, Shape, memoryVars
<1>9. ASSUME signOut
      PROVE  Shape'
  <2>1. memory' = None /\ QueueShape(writes', DOMAIN signIns)
    BY <1>9, <1>0, AppendShape DEF signOut, Forget, Write, Kind
  <2> QED
    BY <1>9, <2>1, <1>0 DEF signOut, Shape
<1>10. ASSUME NEW i \in DOMAIN signIns, LaunchEnds(i) \/ SignInReadFails(i)
       PROVE  Shape'
  <2>1. signIns' \in Seq(SignInRecord) /\ DOMAIN signIns' = DOMAIN signIns
    BY <1>10, <1>e DEF LaunchEnds, SignInReadFails, SignInAt
  <2> QED
    BY <1>10, <2>1, <1>0 DEF LaunchEnds, SignInReadFails, Shape, memoryVars
<1>11. ASSUME NEW i \in DOMAIN signIns, LaunchCompletes(i)
       PROVE  Shape'
  <2>1. /\ grants' \in Seq(GrantRecord)
        /\ Len(grants') \in Nat
        /\ Len(grants') <= MaxGrants
    BY <1>11, <1>d, <1>g DEF LaunchCompletes
  <2>2. [at |-> "reading", grant |-> Len(grants'), previous |-> memory] \in SignInRecord
    BY <2>1, <1>0 DEF SignInRecord, SignInAt
  <2>3. signIns' \in Seq(SignInRecord) /\ DOMAIN signIns' = DOMAIN signIns
    BY <1>11, <2>2, <1>0 DEF LaunchCompletes
  <2> QED
    BY <1>11, <2>1, <2>3, <1>0 DEF LaunchCompletes, Shape, memoryVars
<1>h. ASSUME NEW i \in DOMAIN signIns
      PROVE  signIns[i].grant \in Nat /\ i \in Nat
  <2>1. signIns[i] \in SignInRecord /\ i \in Nat
    BY <1>h, <1>0, <1>i
  <2> QED
    BY <2>1 DEF SignInRecord
<1>j. ASSUME NEW i \in DOMAIN signIns, NEW v \in Nat, Write(v, <<"signIn", i>>)
      PROVE  QueueShape(writes', DOMAIN signIns)
  BY <1>j, <1>0, <1>i, AppendShape DEF Write, Kind
<1>12. ASSUME NEW i \in DOMAIN signIns, SignInRead(i)
       PROVE  Shape'
  <2>1. signIns' \in Seq(SignInRecord) /\ DOMAIN signIns' = DOMAIN signIns
    BY <1>12, <1>e DEF SignInRead, SignInAt
  <2>2. QueueShape(writes', DOMAIN signIns) /\ memory' \in Nat
    BY <1>12, <1>0, <1>h, <1>j DEF SignInRead, Forget, memoryVars
  <2> QED
    BY <1>12, <2>1, <2>2, <1>0 DEF SignInRead, Shape
<1>13. ASSUME WriteSettles
       PROVE  Shape'
  <2> DEFINE by == Head(writes).by
             i == by[2]
  <2>1. /\ QueueShape(Tail(writes), DOMAIN signIns)
        /\ Head(writes) \in WriteRecord
        /\ by[1] = "refresh" => i \in Session
        /\ by[1] = "signIn" => i \in DOMAIN signIns
    BY <1>13, <1>0, TailShape DEF WriteSettles
  <2>2. cell' \in Nat /\ i \in Nat
    BY <1>13, <2>1 DEF WriteSettles, WriteRecord
  <2>3. UNCHANGED grants
    BY <1>13 DEF WriteSettles
  <2>4. CASE by[1] = "refresh" /\ RefreshWritten(i) /\ writes' = Tail(writes) /\ UNCHANGED signIns
    <3>1. refresh[i].next \in Nat
      BY <2>1, <2>4, <1>0 DEF FlightRecord
    <3>2. refresh' \in [Session -> FlightRecord]
      BY <2>4, <1>0, IdleFlight, FlightShape DEF RefreshWritten
    <3>3. memory' \in Nat
      BY <2>4, <3>1, <1>0 DEF RefreshWritten, Install, memoryVars
    <3> QED
      BY <2>1, <2>2, <2>3, <2>4, <3>2, <3>3, <1>0 DEF Shape
  <2>5. CASE i \in DOMAIN signIns /\ SignInWritten(i) /\ UNCHANGED refresh
    <3>1. signIns' \in Seq(SignInRecord) /\ DOMAIN signIns' = DOMAIN signIns
      BY <2>5, <1>e DEF SignInWritten, SignInAt
    <3>2. memory' \in Nat
      BY <2>5, <1>0, <1>h DEF SignInWritten, Install, memoryVars
    <3>3. QueueShape(Append(Tail(writes), [value |-> signIns[i].grant, by |-> <<"signIn", i>>]),
                     DOMAIN signIns)
      BY <2>1, <2>2, <2>5, <1>h, AppendShape DEF Kind
    <3>4. QueueShape(writes', DOMAIN signIns)
      BY <2>1, <2>5, <3>3 DEF SignInWritten
    <3> QED
      BY <2>2, <2>3, <2>5, <3>1, <3>2, <3>4, <1>0 DEF Shape
  <2>6. CASE writes' = Tail(writes) /\ UNCHANGED <<memory, refresh, signIns>>
    BY <2>1, <2>2, <2>3, <2>6, <1>0 DEF Shape
  <2> QED
    BY <1>13, <2>1, <2>4, <2>5, <2>6 DEF WriteSettles, SettleVerify, memoryVars
<1>14. ASSUME WriteFails
       PROVE  Shape'
  <2> DEFINE by == Head(writes).by
             i == by[2]
  <2>1. /\ QueueShape(writes', DOMAIN signIns)
        /\ Head(writes) \in WriteRecord
        /\ by[1] = "signIn" => i \in DOMAIN signIns
    BY <1>14, <1>0, TailShape DEF WriteFails
  <2>2. UNCHANGED <<grants, cell>>
    BY <1>14 DEF WriteFails
  <2>3. CASE RefreshFails(i) /\ UNCHANGED signIns
    BY <2>1, <2>2, <2>3, <1>0, <1>f DEF Shape
  <2>4. CASE i \in DOMAIN signIns /\ SignInStep(i, "over") /\ UNCHANGED <<memory, refresh>>
    <3>1. signIns' \in Seq(SignInRecord) /\ DOMAIN signIns' = DOMAIN signIns
      BY <2>4, <1>e DEF SignInAt
    <3> QED
      BY <2>1, <2>2, <2>4, <3>1, <1>0 DEF Shape
  <2>5. CASE UNCHANGED <<memory, refresh, signIns>>
    BY <2>1, <2>2, <2>5, <1>0 DEF Shape
  <2> QED
    BY <1>14, <2>1, <2>3, <2>4, <2>5 DEF WriteFails, memoryVars
<1>15. ASSUME Restart
       PROVE  Shape'
  <2>1. refresh' \in [Session -> FlightRecord]
    BY <1>15, IdleFlight DEF Restart
  <2>2. QueueShape(<<>>, DOMAIN signIns')
    BY DEF QueueShape
  <2>3. signIns' \in Seq(SignInRecord)
    <3>1. \A j \in DOMAIN signIns : [signIns[j] EXCEPT !.at = "over"] \in SignInRecord
      <4>1. ASSUME NEW j \in DOMAIN signIns
            PROVE  signIns[j] \in SignInRecord
        BY <1>0, <4>1
      <4> QED
        BY <4>1 DEF SignInRecord, SignInAt
    <3>2. DOMAIN signIns = 1..Len(signIns) /\ Len(signIns) \in Nat
      BY <1>0
    <3> QED
      BY <1>15, <3>1, <3>2 DEF Restart
  <2> QED
    BY <1>15, <2>1, <2>2, <2>3, <1>0 DEF Restart, Shape
<1>16. ASSUME UNCHANGED vars
       PROVE  Shape'
  BY <1>16, <1>0 DEF vars, Shape
<1> QED
  BY <1>1, <1>2, <1>3, <1>4, <1>5, <1>6, <1>7, <1>8, <1>9, <1>10, <1>11, <1>12, <1>13, <1>14,
     <1>15, <1>16 DEF Next

Shapes == Shape /\ CallerShape

\* Both shapes hold always.
LEMMA ShapesInv == Spec => []Shapes
<1>1. Init => Shapes
  BY ShapeInit, CallerShapeInit DEF Shapes
<1>2. Shapes /\ [Next]_vars => Shapes'
  BY ShapeStep, CallerShapeStep DEF Shapes
<1> QED
  BY <1>1, <1>2, PTL DEF Spec

-----------------------------------------------------------------------------
(* Bearers                                                                 *)

\* What leaves a session in memory verified has confirmed it.
LEMMA VerifiedStep == Shape /\ BearerInv /\ [Next]_vars => VerifiedConfirmed'
<1> SUFFICES ASSUME Shape, BearerInv, [Next]_vars
             PROVE  VerifiedConfirmed'
  OBVIOUS
<1> USE DEF VerifiedConfirmed
<1>0. VerifiedConfirmed /\ QueueConfirmed(writes, signIns, confirmed)
  BY DEF BearerInv, SignInsConfirmed
<1>a. CASE UNCHANGED memoryVars /\ confirmed \subseteq confirmed'
  BY <1>a, <1>0 DEF memoryVars
<1>b. CASE (memory' = None \/ access' # "verified")
  BY <1>b
<1>1. ASSUME NEW c \in Caller,
             \/ authedFetch(c) \/ AfterRefresh(c) \/ AfterVerify(c)
             \/ Answered(c) \/ Answered401(c) \/ AfterForce(c)
      PROVE  VerifiedConfirmed'
  BY <1>1, <1>a, <1>b
     DEF authedFetch, AfterRefresh, AfterVerify, Answered, Answered401, AfterForce, SetAccess,
         history
<1>2. ASSUME NEW s \in DOMAIN grants,
             \/ RefreshGranted(s) \/ RefreshRefused(s)
             \/ SessionRejected(s) \/ SessionUnreachable(s)
      PROVE  VerifiedConfirmed'
  BY <1>2, <1>a, <1>b
     DEF RefreshGranted, RefreshRefused, RefreshFails, SessionRejected, SessionUnreachable,
         SetAccess, history
<1>3. ASSUME NEW s \in DOMAIN grants, SessionRead(s)
      PROVE  VerifiedConfirmed'
  <2>1. CASE memory = s /\ grants[s].principal # grants[s].owner
    BY <1>3, <2>1, <1>b DEF SessionRead, Forget
  <2>2. CASE memory = s /\ grants[s].principal = grants[s].owner
    BY <1>3, <2>2 DEF SessionRead, SetAccess
  <2>3. CASE memory # s
    BY <1>3, <2>3, <1>a DEF SessionRead
  <2> QED
    BY <2>1, <2>2, <2>3
<1>4. CASE startSignIn \/ signOut
  BY <1>4, <1>a, <1>b DEF startSignIn, signOut, Forget
<1>5. ASSUME NEW i \in DOMAIN signIns,
             LaunchEnds(i) \/ LaunchCompletes(i) \/ SignInRead(i) \/ SignInReadFails(i)
      PROVE  VerifiedConfirmed'
  BY <1>5, <1>a, <1>b
     DEF LaunchEnds, LaunchCompletes, SignInRead, SignInReadFails, Forget, history
<1>6. CASE WriteSettles
  <2> DEFINE by == Head(writes).by
             i == by[2]
  <2>1. UNCHANGED confirmed
    BY <1>6 DEF WriteSettles
  <2>2. by[1] = "signIn" => signIns[i].grant \in confirmed
    <3>1. writes \in Seq(WriteRecord) /\ writes # <<>>
      BY <1>6 DEF WriteSettles, Shape, QueueShape
    <3>2. 1 \in DOMAIN writes /\ Head(writes) = writes[1]
      BY <3>1, TailWrite
    <3> QED
      BY <1>0, <3>2 DEF QueueConfirmed, SignInConfirmed
  <2>3. CASE RefreshWritten(i)
    BY <2>1, <2>3, <1>a, <1>b DEF RefreshWritten, Install
  <2>4. CASE by[1] = "signIn" /\ SignInWritten(i)
    BY <2>1, <2>2, <2>4, <1>a DEF SignInWritten, Install
  <2> QED
    BY <1>6, <1>a, <2>1, <2>3, <2>4 DEF WriteSettles
<1>7. CASE WriteFails
  BY <1>7, <1>a, <1>b DEF WriteFails, RefreshFails, SetAccess
<1>8. CASE Restart
  BY <1>8, <1>b DEF Restart
<1>9. CASE UNCHANGED vars
  BY <1>9, <1>a DEF vars, memoryVars
<1> QED
  BY <1>1, <1>2, <1>3, <1>4, <1>5, <1>6, <1>7, <1>8, <1>9 DEF Next

\* A write appended to a confirmed queue leaves it confirmed.
LEMMA QueueConfirmedAppend ==
    ASSUME NEW q \in Seq(WriteRecord), NEW e \in WriteRecord, NEW b, NEW known,
           QueueConfirmed(q, b, known),
           e.by[1] = "signIn" => SignInConfirmed(e.by[2], b, known)
    PROVE  QueueConfirmed(Append(q, e), b, known)
<1>1. \A k \in DOMAIN Append(q, e) : k \in DOMAIN q \/ k = Len(q) + 1
  BY AppendWrite
<1> QED
  BY <1>1, AppendWrite DEF QueueConfirmed

\* And so does the end of its first write.
LEMMA QueueConfirmedTail ==
    ASSUME NEW q \in Seq(WriteRecord), q # <<>>, NEW b, NEW known, QueueConfirmed(q, b, known)
    PROVE  /\ QueueConfirmed(Tail(q), b, known)
           /\ Head(q).by[1] = "signIn" => SignInConfirmed(Head(q).by[2], b, known)
  BY TailWrite DEF QueueConfirmed

\* A sign-in past its launch keeps its grant.
LEMMA QueueConfirmedKept ==
    ASSUME NEW q, NEW b, NEW b2, NEW known, NEW known2,
           QueueShape(q, DOMAIN b), QueueConfirmed(q, b, known), known \subseteq known2,
           \A i \in DOMAIN b : b[i].at # "launching" =>
               b2[i].at # "launching" /\ b2[i].grant = b[i].grant
    PROVE  QueueConfirmed(q, b2, known2)
  BY DEF QueueConfirmed, QueueShape, SignInConfirmed

\* What a sign-in has queued stays confirmed.
LEMMA SignInsStep == Shape /\ BearerInv /\ [Next]_vars => SignInsConfirmed'
<1> SUFFICES ASSUME Shape, BearerInv, [Next]_vars
             PROVE  QueueConfirmed(writes', signIns', confirmed')
  BY DEF SignInsConfirmed
<1>0. /\ QueueConfirmed(writes, signIns, confirmed)
      /\ QueueShape(writes, DOMAIN signIns) /\ writes \in Seq(WriteRecord)
      /\ signIns \in Seq(SignInRecord) /\ DOMAIN signIns \subseteq Nat
  BY DEF BearerInv, SignInsConfirmed, Shape, QueueShape
<1>g. DOMAIN grants \subseteq Nat
  BY DEF Shape
<1>a. CASE UNCHANGED <<writes, signIns>> /\ confirmed \subseteq confirmed'
  BY <1>a, <1>0, QueueConfirmedKept
<1>b. ASSUME NEW i \in DOMAIN signIns, NEW a \in SignInAt \ {"launching"}, SignInStep(i, a),
             confirmed \subseteq confirmed'
      PROVE  /\ QueueConfirmed(writes, signIns', confirmed')
             /\ signIns'[i].at = a /\ signIns'[i].grant = signIns[i].grant
  <2>1. /\ \A j \in DOMAIN signIns : signIns'[j].grant = signIns[j].grant
        /\ \A j \in DOMAIN signIns : signIns'[j].at = IF j = i THEN a ELSE signIns[j].at
    BY <1>b, <1>0, SignInStepShape DEF SignInStep
  <2> QED
    BY <1>b, <1>0, <2>1, QueueConfirmedKept
<1>c. ASSUME NEW v \in Nat, NEW kind \in Kind \ {"signIn"}, NEW i \in Nat,
             Write(v, <<kind, i>>), UNCHANGED signIns, confirmed \subseteq confirmed'
      PROVE  QueueConfirmed(writes', signIns', confirmed')
  <2> DEFINE e == [value |-> v, by |-> <<kind, i>>]
  <2>1. e \in WriteRecord /\ e.by[1] # "signIn" /\ writes' = Append(writes, e)
    BY <1>c DEF WriteRecord, Write
  <2> HIDE DEF e
  <2>2. QueueConfirmed(writes', signIns, confirmed)
    BY <1>0, <2>1, QueueConfirmedAppend
  <2> QED
    BY <2>2, <1>c DEF QueueConfirmed, SignInConfirmed
<1>d. ASSUME NEW q, q \in Seq(WriteRecord), NEW i \in DOMAIN signIns, NEW v \in Nat,
             QueueConfirmed(q, signIns', confirmed'), SignInConfirmed(i, signIns', confirmed')
      PROVE  QueueConfirmed(Append(q, [value |-> v, by |-> <<"signIn", i>>]), signIns', confirmed')
  <2> DEFINE e == [value |-> v, by |-> <<"signIn", i>>]
  <2>1. e \in WriteRecord /\ e.by[2] = i
    BY <1>0 DEF WriteRecord, Kind
  <2> HIDE DEF e
  <2>2. QueueConfirmed(Append(q, e), signIns', confirmed')
    BY <1>d, <2>1, QueueConfirmedAppend
  <2> QED
    BY <2>2 DEF e
<1>h. ASSUME NEW i \in DOMAIN signIns
      PROVE  signIns[i].grant \in Nat
  <2>1. signIns[i] \in SignInRecord
    BY <1>h, <1>0
  <2> QED
    BY <2>1 DEF SignInRecord
<1>1. ASSUME NEW c \in Caller,
             \/ authedFetch(c) \/ AfterRefresh(c) \/ AfterVerify(c)
             \/ Answered(c) \/ Answered401(c) \/ AfterForce(c)
      PROVE  QueueConfirmed(writes', signIns', confirmed')
  BY <1>1, <1>a
     DEF authedFetch, AfterRefresh, AfterVerify, Answered, Answered401, AfterForce, history
<1>2. ASSUME NEW s \in DOMAIN grants, RefreshGranted(s)
      PROVE  QueueConfirmed(writes', signIns', confirmed')
  <2>1. CASE memory # s
    BY <1>2, <2>1, <1>a DEF RefreshGranted, history
  <2>2. CASE memory = s
    <3>1. Len(grants') \in Nat
      <4>1. grants \in Seq(GrantRecord)
        BY DEF Shape
      <4>2. grants' = Append(grants, [principal |-> grants[s].principal,
                                      owner |-> grants[s].owner])
        BY <1>2, <2>2 DEF RefreshGranted, Issue
      <4>3. grants[s] \in GrantRecord
        BY <1>2, <4>1
      <4>4. [principal |-> grants[s].principal, owner |-> grants[s].owner] \in GrantRecord
        BY <4>3 DEF GrantRecord
      <4> QED
        BY <4>1, <4>2, <4>4
    <3> QED
      BY <1>2, <2>2, <3>1, <1>c, <1>g DEF RefreshGranted, history, Kind
  <2> QED
    BY <2>1, <2>2
<1>3. ASSUME NEW s \in DOMAIN grants,
             RefreshRefused(s) \/ SessionRejected(s) \/ SessionUnreachable(s)
      PROVE  QueueConfirmed(writes', signIns', confirmed')
  BY <1>3, <1>a DEF RefreshRefused, SessionRejected, SessionUnreachable, history
<1>4. ASSUME NEW s \in DOMAIN grants, SessionRead(s)
      PROVE  QueueConfirmed(writes', signIns', confirmed')
  <2>1. confirmed \subseteq confirmed' /\ UNCHANGED signIns
    BY <1>4 DEF SessionRead
  <2>2. CASE UNCHANGED writes
    BY <2>1, <2>2, <1>a
  <2>3. CASE Write(None, <<"verify", s>>)
    BY <2>1, <2>3, <1>c, <1>g DEF Kind, None
  <2> QED
    BY <1>4, <2>2, <2>3 DEF SessionRead
<1>5. CASE startSignIn
  <2>1. [at |-> "launching", grant |-> None, previous |-> None] \in SignInRecord
    BY DEF SignInRecord, SignInAt, None
  <2>2. \A i \in DOMAIN signIns : signIns'[i] = signIns[i]
    BY <1>5, <1>0, <2>1, AppendSignIn DEF startSignIn
  <2>3. UNCHANGED <<writes, confirmed>>
    BY <1>5 DEF startSignIn
  <2> QED
    BY <1>0, <2>2, <2>3, QueueConfirmedKept
<1>6. CASE signOut
  BY <1>6, <1>c DEF signOut, Kind, None
<1>7. ASSUME NEW i \in DOMAIN signIns, LaunchEnds(i) \/ SignInReadFails(i)
      PROVE  QueueConfirmed(writes', signIns', confirmed')
  BY <1>7, <1>b DEF LaunchEnds, SignInReadFails, history, SignInAt
<1>8. ASSUME NEW i \in DOMAIN signIns, LaunchCompletes(i)
      PROVE  QueueConfirmed(writes', signIns', confirmed')
  <2>1. \A j \in DOMAIN signIns : j # i => signIns'[j] = signIns[j]
    BY <1>8, <1>0 DEF LaunchCompletes
  <2>2. signIns[i].at = "launching" /\ UNCHANGED <<writes, confirmed>>
    BY <1>8 DEF LaunchCompletes, history
  <2> QED
    BY <1>0, <2>1, <2>2, QueueConfirmedKept
<1>9. ASSUME NEW i \in DOMAIN signIns, SignInRead(i)
      PROVE  QueueConfirmed(writes', signIns', confirmed')
  <2>1. confirmed' = confirmed \cup {signIns[i].grant}
    BY <1>9 DEF SignInRead
  <2>2. CASE SignInStep(i, "over") /\ UNCHANGED writes
    BY <2>1, <2>2, <1>b DEF SignInAt
  <2>3. ASSUME NEW v \in Nat, NEW a \in {"clearing", "writing"},
               SignInStep(i, a), Write(v, <<"signIn", i>>)
        PROVE  QueueConfirmed(writes', signIns', confirmed')
    <3>1. /\ QueueConfirmed(writes, signIns', confirmed')
          /\ signIns'[i].at = a /\ signIns'[i].grant = signIns[i].grant
      BY <2>1, <2>3, <1>b DEF SignInAt
    <3>2. SignInConfirmed(i, signIns', confirmed')
      BY <2>1, <2>3, <3>1 DEF SignInConfirmed
    <3> QED
      BY <2>3, <3>1, <3>2, <1>0, <1>d DEF Write
  <2> QED
    BY <1>9, <2>2, <2>3, <1>h DEF SignInRead, None
<1>10. CASE WriteSettles \/ WriteFails
  <2> DEFINE by == Head(writes).by
             i == by[2]
  <2>1. /\ QueueConfirmed(Tail(writes), signIns, confirmed)
        /\ by[1] = "signIn" => SignInConfirmed(i, signIns, confirmed)
    BY <1>10, <1>0, QueueConfirmedTail DEF WriteSettles, WriteFails
  <2>2. /\ QueueShape(Tail(writes), DOMAIN signIns) /\ Tail(writes) \in Seq(WriteRecord)
        /\ by[1] = "signIn" => i \in DOMAIN signIns
    BY <1>10, <1>0, TailShape DEF WriteSettles, WriteFails, QueueShape
  <2>3. UNCHANGED confirmed
    BY <1>10 DEF WriteSettles, WriteFails
  <2>4. CASE writes' = Tail(writes) /\ UNCHANGED signIns
    BY <2>1, <2>3, <2>4
  <2>5. ASSUME i \in DOMAIN signIns, NEW a \in {"over", "writing"}, SignInStep(i, a)
        PROVE  /\ QueueConfirmed(Tail(writes), signIns', confirmed')
               /\ signIns'[i].at = a /\ signIns'[i].grant = signIns[i].grant
    <3>1. /\ \A j \in DOMAIN signIns : signIns'[j].grant = signIns[j].grant
          /\ \A j \in DOMAIN signIns : signIns'[j].at = IF j = i THEN a ELSE signIns[j].at
      BY <2>5, <1>0, SignInStepShape DEF SignInStep, SignInAt
    <3> QED
      BY <2>1, <2>2, <2>3, <2>5, <3>1, QueueConfirmedKept
  <2>6. CASE /\ i \in DOMAIN signIns /\ SignInStep(i, "over") /\ writes' = Tail(writes)
    BY <2>5, <2>6
  <2>7. CASE /\ i \in DOMAIN signIns /\ by[1] = "signIn" /\ SignInStep(i, "writing")
             /\ writes' = Append(Tail(writes),
                                 [value |-> signIns[i].grant, by |-> <<"signIn", i>>])
    <3>1. SignInConfirmed(i, signIns', confirmed')
      BY <2>1, <2>3, <2>5, <2>7 DEF SignInConfirmed
    <3> QED
      BY <2>2, <2>5, <2>7, <3>1, <1>d, <1>h
  <2>8. CASE WriteSettles
    BY <2>2, <2>4, <2>6, <2>7, <2>8 DEF WriteSettles, SignInWritten
  <2>9. CASE WriteFails
    BY <2>2, <2>4, <2>6, <2>9 DEF WriteFails
  <2> QED
    BY <1>10, <2>8, <2>9
<1>11. CASE Restart
  BY <1>11 DEF Restart, QueueConfirmed
<1>12. CASE UNCHANGED vars
  BY <1>12, <1>a DEF vars
<1> QED
  BY <1>1, <1>2, <1>3, <1>4, <1>5, <1>6, <1>7, <1>8, <1>9, <1>10, <1>11, <1>12 DEF Next

\* A request goes out with no bearer or a confirmed one.
LEMMA BearersStep == CallerShape /\ BearerInv /\ [Next]_vars => BearerConfirmed'
<1> SUFFICES ASSUME CallerShape, BearerInv, [Next]_vars
             PROVE  BearerConfirmed'
  OBVIOUS
<1>0. CallerShape /\ BearerConfirmed /\ VerifiedConfirmed
  BY DEF BearerInv
<1>a. CASE UNCHANGED caller /\ confirmed \subseteq confirmed'
  BY <1>a, <1>0 DEF BearerConfirmed
<1>b. ASSUME NEW c \in Caller, NEW at, NEW retry, NEW on, NEW ok,
             caller' = [caller EXCEPT ![c] = [at |-> at, retry |-> retry, on |-> on, ok |-> ok]],
             at = "requesting" /\ on # None => on \in confirmed,
             UNCHANGED confirmed
      PROVE  BearerConfirmed'
  BY <1>b, <1>0 DEF BearerConfirmed, CallerShape
<1>c. ASSUME NEW at, NEW s, NEW next, NEW ok, Wake(at, s, next, ok), next # "requesting",
             confirmed \subseteq confirmed'
      PROVE  BearerConfirmed'
  BY <1>c, <1>0 DEF BearerConfirmed, CallerShape, Wake
<1>d. ASSUME NEW s, NEW ok, WakeRefreshed(s, ok), UNCHANGED confirmed
      PROVE  BearerConfirmed'
  BY <1>d, <1>0 DEF BearerConfirmed, CallerShape, WakeRefreshed
<1>e. ASSUME NEW c \in Caller, NEW retry, ResolveBearer(c, retry), UNCHANGED confirmed
      PROVE  BearerConfirmed'
  BY <1>b, <1>e DEF ResolveBearer, Send, JoinRefresh
<1>f. ASSUME NEW i, RefreshFails(i) \/ RefreshWritten(i), UNCHANGED confirmed
      PROVE  BearerConfirmed'
  BY <1>d, <1>f DEF RefreshFails, RefreshWritten
<1>1. ASSUME NEW c \in Caller, authedFetch(c)
      PROVE  BearerConfirmed'
  BY <1>1, <1>e DEF authedFetch, history
<1>2. ASSUME NEW c \in Caller, AfterRefresh(c)
      PROVE  BearerConfirmed'
  <2>0. UNCHANGED confirmed
    BY <1>2 DEF AfterRefresh, history
  <2>1. CASE caller' = [caller EXCEPT ![c].at = "verifying", ![c].on = memory]
    BY <2>0, <2>1, <1>0 DEF BearerConfirmed, CallerShape
  <2>2. CASE Send(c, caller[c].retry, None)
    BY <2>0, <2>2, <1>b DEF Send
  <2>3. CASE access = "verified" /\ Send(c, caller[c].retry, memory)
    <3>1. memory # None => memory \in confirmed
      BY <2>3, <1>0 DEF VerifiedConfirmed
    <3> QED
      BY <2>0, <2>3, <3>1, <1>b DEF Send
  <2> QED
    BY <1>2, <2>1, <2>2, <2>3 DEF AfterRefresh
<1>3. ASSUME NEW c \in Caller, AfterVerify(c)
      PROVE  BearerConfirmed'
  <2> DEFINE token == IF caller[c].ok /\ memory # None /\ access = "verified"
                      THEN memory ELSE None
  <2>1. token # None => token \in confirmed
    BY <1>0 DEF VerifiedConfirmed
  <2>2. Send(c, caller[c].retry, token) /\ UNCHANGED confirmed
    BY <1>3 DEF AfterVerify, history
  <2> HIDE DEF token
  <2> QED
    BY <2>1, <2>2, <1>b DEF Send
<1>4. ASSUME NEW c \in Caller, Answered(c)
      PROVE  BearerConfirmed'
  BY <1>4, <1>b DEF Answered, Idle, history
<1>5. ASSUME NEW c \in Caller, Answered401(c)
      PROVE  BearerConfirmed'
  BY <1>5, <1>b DEF Answered401, Idle, JoinRefresh, history
<1>6. ASSUME NEW c \in Caller, AfterForce(c)
      PROVE  BearerConfirmed'
  BY <1>6, <1>b, <1>e DEF AfterForce, Idle, history
<1>7. ASSUME NEW s \in DOMAIN grants,
             RefreshGranted(s) \/ RefreshRefused(s) \/ SessionRejected(s)
                \/ SessionUnreachable(s) \/ SessionRead(s)
      PROVE  BearerConfirmed'
  BY <1>7, <1>a, <1>c, <1>d, <1>f
     DEF RefreshGranted, RefreshRefused, SessionRejected, SessionUnreachable, SessionRead,
         SettleVerify, history
<1>8. CASE startSignIn \/ signOut
  BY <1>8, <1>a DEF startSignIn, signOut
<1>9. ASSUME NEW i \in DOMAIN signIns,
             LaunchEnds(i) \/ LaunchCompletes(i) \/ SignInRead(i) \/ SignInReadFails(i)
      PROVE  BearerConfirmed'
  BY <1>9, <1>a DEF LaunchEnds, LaunchCompletes, SignInRead, SignInReadFails, history
<1>10. CASE WriteSettles
  BY <1>10, <1>a, <1>c, <1>f DEF WriteSettles, SettleVerify
<1>11. CASE WriteFails
  BY <1>11, <1>a, <1>c, <1>f DEF WriteFails
<1>12. CASE Restart
  BY <1>12, <1>0 DEF Restart, CallerShape, Idle, BearerConfirmed
<1>13. CASE UNCHANGED vars
  BY <1>13, <1>a DEF vars
<1> QED
  BY <1>1, <1>2, <1>3, <1>4, <1>5, <1>6, <1>7, <1>8, <1>9, <1>10, <1>11, <1>12, <1>13 DEF Next

\* No request ever leaves with a session /api/session has not confirmed in this
\* run of the app (bearerForNetwork), whatever refreshes, verifications,
\* sign-ins and sign-outs do while it waits.
THEOREM BearersAlwaysConfirmed == Spec => []BearerConfirmed
<1>1. Init => BearerInv
  BY DEF Init, BearerInv, VerifiedConfirmed, SignInsConfirmed, QueueConfirmed, BearerConfirmed, Idle
<1>2. Shapes /\ BearerInv /\ [Next]_vars => BearerInv'
  BY VerifiedStep, SignInsStep, BearersStep DEF Shapes, BearerInv
<1>3. BearerInv => BearerConfirmed
  BY DEF BearerInv
<1> QED
  BY <1>1, <1>2, <1>3, ShapesInv, PTL DEF Spec

-----------------------------------------------------------------------------
(* Sign-outs                                                               *)

\* What a write appended to the queue does to it.
LEMMA OutAppend ==
    ASSUME NEW q \in Seq(WriteRecord), NEW e \in WriteRecord, QueueOut(q),
           e.by[1] = "signOut" => e.value = None /\ e.by[2] = 0
    PROVE  /\ QueueOut(Append(q, e))
           /\ e.value = None /\ AheadOfSignOut(q) => AheadOfSignOut(Append(q, e))
           /\ e.value = None /\ OnlyNone(q) => OnlyNone(Append(q, e))
           /\ e.by[1] = "signOut" => AheadOfSignOut(Append(q, e))
<1> DEFINE r == Append(q, e)
<1>1. /\ \A k \in DOMAIN r : k \in DOMAIN q \/ k = Len(q) + 1
      /\ \A k \in DOMAIN q : k \in DOMAIN r /\ r[k] = q[k] /\ Len(q) + 1 > k
      /\ Len(q) + 1 \in DOMAIN r /\ r[Len(q) + 1] = e
  BY AppendWrite
<1> HIDE DEF r
<1>2. QueueOut(r)
  BY <1>1 DEF QueueOut
<1>3. e.value = None /\ AheadOfSignOut(q) => AheadOfSignOut(r)
  BY <1>1 DEF AheadOfSignOut
<1>4. e.value = None /\ OnlyNone(q) => OnlyNone(r)
  BY <1>1 DEF OnlyNone
<1>5. e.by[1] = "signOut" => AheadOfSignOut(r)
  BY <1>1 DEF AheadOfSignOut
<1> QED
  BY <1>2, <1>3, <1>4, <1>5 DEF r

\* And what the end of its first write does.
LEMMA OutTail ==
    ASSUME NEW q \in Seq(WriteRecord), q # <<>>, QueueOut(q)
    PROVE  /\ QueueOut(Tail(q))
           /\ AheadOfSignOut(q) => AheadOfSignOut(Tail(q))
           /\ OnlyNone(q) => OnlyNone(Tail(q)) /\ Head(q).value = None
           /\ Head(q).by[1] = "signOut" => Head(q).value = None /\ Head(q).by[2] = 0
           /\ AheadOfSignOut(q) /\ (\A k \in 2..Len(q) : q[k].by[1] # "signOut")
                 => OnlyNone(Tail(q))
<1> DEFINE r == Tail(q)
<1>1. /\ 1 \in DOMAIN q /\ Head(q) = q[1]
      /\ DOMAIN r = 1..(Len(q) - 1) /\ DOMAIN q = 1..Len(q) /\ Len(q) \in Nat \ {0}
      /\ \A k \in DOMAIN r : k + 1 \in DOMAIN q /\ r[k] = q[k + 1]
  BY TailWrite
<1> HIDE DEF r
<1>2. QueueOut(r)
  BY <1>1 DEF QueueOut
<1>3. ASSUME AheadOfSignOut(q) PROVE AheadOfSignOut(r)
  <2> SUFFICES ASSUME NEW k \in DOMAIN r, r[k].value # None
               PROVE  \E j \in DOMAIN r : j > k /\ r[j].by[1] = "signOut"
    BY DEF AheadOfSignOut
  <2>1. PICK j \in DOMAIN q : j > k + 1 /\ q[j].by[1] = "signOut"
    BY <1>1, <1>3 DEF AheadOfSignOut
  <2>2. j - 1 \in DOMAIN r /\ j - 1 > k /\ (j - 1) + 1 = j
    BY <1>1, <2>1
  <2> QED
    BY <1>1, <2>1, <2>2
<1>4. OnlyNone(q) => OnlyNone(r) /\ Head(q).value = None
  BY <1>1 DEF OnlyNone
<1>5. Head(q).by[1] = "signOut" => Head(q).value = None /\ Head(q).by[2] = 0
  BY <1>1 DEF QueueOut
<1>6. ASSUME AheadOfSignOut(q), \A k \in 2..Len(q) : q[k].by[1] # "signOut"
      PROVE  OnlyNone(r)
  BY <1>1, <1>6 DEF AheadOfSignOut, OnlyNone
<1> QED
  BY <1>2, <1>3, <1>4, <1>5, <1>6 DEF r

\* No action brings a session back behind a sign-out.
LEMMA SignOutStep == Shape /\ SignOutInv /\ [Next]_vars => SignOutInv'
<1> SUFFICES ASSUME Shape, SignOutInv, [Next]_vars
             PROVE  SignOutInv'
  OBVIOUS
<1> DEFINE Out == signedOut \in {"asked", "done"}
<1>0. /\ QueueOut(writes) /\ writes \in Seq(WriteRecord)
      /\ QueueShape(writes, DOMAIN signIns)
      /\ signedOut = "asked" => AheadOfSignOut(writes)
      /\ signedOut = "done" => OnlyNone(writes) /\ cell = None
      /\ Out => memory = None /\ current = None
  BY DEF SignOutInv, NothingBehind, NoneCurrent, SignOutIsFinal, Shape, QueueShape
<1>g. DOMAIN grants \subseteq Nat \ {None} /\ DOMAIN signIns \subseteq Nat \ {None}
  BY DEF Shape, None
<1>a. ASSUME UNCHANGED <<signedOut, cell>>, Out => memory' = None /\ current' = None,
             QueueOut(writes'),
             AheadOfSignOut(writes) => AheadOfSignOut(writes'),
             OnlyNone(writes) => OnlyNone(writes')
      PROVE  SignOutInv'
  BY <1>a, <1>0 DEF SignOutInv, NothingBehind, NoneCurrent, SignOutIsFinal
<1>b. ASSUME UNCHANGED <<signedOut, cell, writes>>, Out => memory' = None /\ current' = None
      PROVE  SignOutInv'
  BY <1>b, <1>a, <1>0
<1>c. ASSUME signedOut' \notin {"asked", "done"}, QueueOut(writes')
      PROVE  SignOutInv'
  BY <1>c DEF SignOutInv, NothingBehind, NoneCurrent, SignOutIsFinal
<1>d. ASSUME NEW q \in Seq(WriteRecord), QueueOut(q), NEW v \in Nat, NEW i \in Nat,
             NEW kind \in Kind, kind = "signOut" => v = None /\ i = 0
      PROVE  LET r == Append(q, [value |-> v, by |-> <<kind, i>>])
             IN  /\ QueueOut(r)
                 /\ v = None /\ AheadOfSignOut(q) => AheadOfSignOut(r)
                 /\ v = None /\ OnlyNone(q) => OnlyNone(r)
                 /\ kind = "signOut" => AheadOfSignOut(r)
  <2> DEFINE e == [value |-> v, by |-> <<kind, i>>]
  <2>1. e \in WriteRecord /\ e.by[1] = kind /\ e.by[2] = i /\ e.value = v
    BY DEF WriteRecord
  <2> HIDE DEF e
  <2>2. /\ QueueOut(Append(q, e))
        /\ v = None /\ AheadOfSignOut(q) => AheadOfSignOut(Append(q, e))
        /\ v = None /\ OnlyNone(q) => OnlyNone(Append(q, e))
        /\ kind = "signOut" => AheadOfSignOut(Append(q, e))
    BY <1>d, <2>1, OutAppend
  <2> QED
    BY <2>2 DEF e
<1>h. ASSUME NEW i \in DOMAIN signIns
      PROVE  signIns[i].grant \in Nat
  <2>1. signIns[i] \in SignInRecord
    BY <1>h DEF Shape
  <2> QED
    BY <2>1 DEF SignInRecord
<1>1. ASSUME NEW c \in Caller,
             \/ authedFetch(c) \/ AfterRefresh(c) \/ AfterVerify(c)
             \/ Answered(c) \/ Answered401(c) \/ AfterForce(c)
      PROVE  SignOutInv'
  BY <1>1, <1>0, <1>b
     DEF authedFetch, AfterRefresh, AfterVerify, Answered, Answered401, AfterForce, history,
         memoryVars, SetAccess
<1>2. ASSUME NEW s \in DOMAIN grants, RefreshGranted(s)
      PROVE  SignOutInv'
  <2>1. CASE memory # s
    BY <1>2, <2>1, <1>0, <1>b DEF RefreshGranted, history, memoryVars
  <2>2. CASE memory = s
    <3>1. ~Out /\ signedOut' = signedOut
      BY <1>2, <2>2, <1>0, <1>g DEF RefreshGranted, history
    <3>2. Len(grants') \in Nat
      <4>1. grants \in Seq(GrantRecord)
        BY DEF Shape
      <4>2. grants' = Append(grants, [principal |-> grants[s].principal,
                                      owner |-> grants[s].owner])
        BY <1>2, <2>2 DEF RefreshGranted, Issue
      <4>3. grants[s] \in GrantRecord
        BY <1>2, <4>1
      <4>4. [principal |-> grants[s].principal, owner |-> grants[s].owner] \in GrantRecord
        BY <4>3 DEF GrantRecord
      <4> QED
        BY <4>1, <4>2, <4>4
    <3>3. writes' = Append(writes, [value |-> Len(grants'), by |-> <<"refresh", s>>])
      BY <1>2, <2>2 DEF RefreshGranted, Write
    <3>4. QueueOut(writes')
      BY <3>2, <3>3, <1>0, <1>g, <1>d DEF Kind
    <3> QED
      BY <3>1, <3>4, <1>c
  <2> QED
    BY <2>1, <2>2
<1>3. ASSUME NEW s \in DOMAIN grants,
             RefreshRefused(s) \/ SessionRejected(s) \/ SessionUnreachable(s)
      PROVE  SignOutInv'
  BY <1>3, <1>0, <1>b
     DEF RefreshRefused, RefreshFails, SessionRejected, SessionUnreachable, history, memoryVars,
         SetAccess
<1>4. ASSUME NEW s \in DOMAIN grants, SessionRead(s)
      PROVE  SignOutInv'
  <2>1. UNCHANGED <<signedOut, cell>>
    BY <1>4 DEF SessionRead
  <2>2. CASE UNCHANGED <<memory, current, writes>>
    BY <2>1, <2>2, <1>0, <1>b
  <2>3. CASE current' = None /\ Forget /\ Write(None, <<"verify", s>>)
    <3>1. /\ QueueOut(writes')
          /\ AheadOfSignOut(writes) => AheadOfSignOut(writes')
          /\ OnlyNone(writes) => OnlyNone(writes')
      BY <2>3, <1>0, <1>g, <1>d DEF Write, Kind, None
    <3> QED
      BY <2>1, <2>3, <3>1, <1>a DEF Forget
  <2> QED
    BY <1>4, <2>2, <2>3 DEF SessionRead, SetAccess, memoryVars
<1>5. CASE startSignIn
  BY <1>5, <1>0, <1>c DEF startSignIn
<1>6. CASE signOut
  <2>1. QueueOut(writes') /\ AheadOfSignOut(writes')
    BY <1>6, <1>0, <1>d DEF signOut, Write, Kind, None
  <2> QED
    BY <1>6, <2>1
       DEF signOut, Forget, SignOutInv, NothingBehind, NoneCurrent, SignOutIsFinal
<1>7. ASSUME NEW i \in DOMAIN signIns,
             LaunchEnds(i) \/ LaunchCompletes(i) \/ SignInReadFails(i)
      PROVE  SignOutInv'
  BY <1>7, <1>0, <1>b DEF LaunchEnds, LaunchCompletes, SignInReadFails, history, memoryVars
<1>8. ASSUME NEW i \in DOMAIN signIns, SignInRead(i)
      PROVE  SignOutInv'
  <2>1. CASE current # i
    BY <1>8, <2>1, <1>0, <1>b DEF SignInRead, memoryVars
  <2>2. CASE current = i
    <3>1. ~Out /\ signedOut' = signedOut
      BY <1>8, <2>2, <1>0, <1>g DEF SignInRead
    <3>2. \E v \in Nat : Write(v, <<"signIn", i>>)
      BY <1>8, <2>2, <1>h DEF SignInRead, None
    <3>3. QueueOut(writes')
      BY <3>2, <1>0, <1>g, <1>d DEF Write, Kind
    <3> QED
      BY <3>1, <3>3, <1>c
  <2> QED
    BY <2>1, <2>2
<1>9. CASE WriteSettles \/ WriteFails
  <2> DEFINE by == Head(writes).by
             i == by[2]
  <2>1. /\ QueueOut(Tail(writes)) /\ Tail(writes) \in Seq(WriteRecord)
        /\ AheadOfSignOut(writes) => AheadOfSignOut(Tail(writes))
        /\ OnlyNone(writes) => OnlyNone(Tail(writes)) /\ Head(writes).value = None
        /\ by[1] = "signOut" => Head(writes).value = None /\ i = 0
        /\ AheadOfSignOut(writes) /\ (\A k \in 2..Len(writes) : writes[k].by[1] # "signOut")
              => OnlyNone(Tail(writes))
    BY <1>9, <1>0, OutTail, TailWrite DEF WriteSettles, WriteFails
  <2>2. /\ by[1] = "refresh" => i # None
        /\ by[1] = "signIn" => i \in DOMAIN signIns /\ i # None
    <3>1. /\ by[1] = "refresh" => i \in Session
          /\ by[1] = "signIn" => i \in DOMAIN signIns
      BY <1>9, <1>0, TailShape DEF WriteSettles, WriteFails
    <3> HIDE DEF by, i
    <3> QED
      BY <3>1, <1>g DEF Session, None
  <2>3. CASE WriteFails
    <3>1. UNCHANGED <<signedOut, cell, memory, current>> /\ writes' = Tail(writes)
      BY <2>3 DEF WriteFails, RefreshFails, SetAccess, memoryVars
    <3> QED
      BY <3>1, <2>1, <1>0, <1>a
  <2>4. CASE WriteSettles
    <3>0. cell' = Head(writes).value /\ UNCHANGED current
      BY <2>4 DEF WriteSettles
    <3>a. ASSUME UNCHANGED signedOut, Out => memory' = None /\ writes' = Tail(writes),
                 QueueOut(writes')
          PROVE  SignOutInv'
      BY <3>0, <3>a, <2>1, <1>0 DEF SignOutInv, NothingBehind, NoneCurrent, SignOutIsFinal
    <3>1. CASE /\ by[1] = "refresh" /\ RefreshWritten(i) /\ writes' = Tail(writes)
               /\ UNCHANGED signedOut
      BY <3>1, <3>a, <2>1, <2>2, <1>0 DEF RefreshWritten, memoryVars
    <3>2. CASE /\ by[1] = "verify" /\ writes' = Tail(writes)
               /\ UNCHANGED <<memory, signedOut>>
      BY <3>2, <3>a, <2>1, <1>0
    <3>3. CASE by[1] = "signIn" /\ SignInWritten(i) /\ UNCHANGED signedOut
      <4>1. CASE current # i
        BY <3>3, <4>1, <3>a, <2>1, <1>0 DEF SignInWritten, memoryVars
      <4>2. CASE current = i
        <5>1. ~Out
          BY <3>3, <4>2, <2>2, <1>0
        <5>2. QueueOut(Append(Tail(writes),
                              [value |-> signIns[i].grant, by |-> <<"signIn", i>>]))
          BY <3>3, <2>1, <2>2, <1>g, <1>h, <1>d DEF Kind
        <5>3. QueueOut(writes')
          BY <3>3, <5>2, <2>1 DEF SignInWritten
        <5> QED
          BY <3>3, <5>1, <5>3, <3>a
      <4> QED
        BY <4>1, <4>2
    <3>4. CASE /\ by[1] = "signOut" /\ writes' = Tail(writes) /\ UNCHANGED memory
               /\ signedOut' = IF signedOut = "asked" /\ by \notin {w.by : w \in
                                      {writes[k] : k \in 2..Len(writes)}}
                                THEN "done" ELSE signedOut
      <4>1. CASE UNCHANGED signedOut
        BY <3>4, <4>1, <3>a, <2>1, <1>0
      <4>2. CASE /\ signedOut = "asked" /\ signedOut' = "done"
                 /\ by \notin {w.by : w \in {writes[k] : k \in 2..Len(writes)}}
        <5>1. ASSUME NEW k \in 2..Len(writes), writes[k].by[1] = "signOut"
              PROVE  FALSE
          <6>1. k \in DOMAIN writes
            BY <5>1, <1>0
          <6>2. writes[k].by[2] = 0
            BY <5>1, <6>1, <1>0 DEF QueueOut
          <6>3. writes[k] \in WriteRecord /\ Head(writes) \in WriteRecord
            BY <6>1, <1>0, <2>4, TailShape DEF WriteSettles
          <6>4. writes[k].by = by
            <7>1. writes[k].by \in Kind \X Nat /\ by \in Kind \X Nat
              BY <6>3 DEF WriteRecord
            <7> HIDE DEF by, i
            <7>2. writes[k].by[1] = by[1] /\ writes[k].by[2] = by[2]
              BY <6>2, <5>1, <3>4, <2>1 DEF i
            <7> QED
              BY <7>1, <7>2
          <6> QED
            BY <4>2, <5>1, <6>4
        <5>2. OnlyNone(Tail(writes))
          BY <4>2, <5>1, <2>1, <1>0
        <5> QED
          BY <3>0, <3>4, <4>2, <5>2, <2>1, <1>0
             DEF SignOutInv, NothingBehind, NoneCurrent, SignOutIsFinal
      <4> QED
        BY <3>4, <4>1, <4>2
    <3> QED
      BY <2>4, <3>1, <3>2, <3>3, <3>4 DEF WriteSettles, memoryVars
  <2> QED
    BY <1>9, <2>3, <2>4
<1>10. CASE Restart
  BY <1>10, <1>0
     DEF Restart, SignOutInv, NothingBehind, NoneCurrent, SignOutIsFinal, QueueOut, OnlyNone
<1>11. CASE UNCHANGED vars
  BY <1>11, <1>0, <1>b DEF vars
<1> QED
  BY <1>1, <1>2, <1>3, <1>4, <1>5, <1>6, <1>7, <1>8, <1>9, <1>10, <1>11 DEF Next

\* A sign-out (signOut, persistedAuthStorage) is final until somebody signs in:
\* no refresh, verification or sign-in that was under way brings a session back.
THEOREM SignOutsAreFinal == Spec => []SignOutIsFinal
<1>1. Init => SignOutInv
  BY DEF Init, SignOutInv, NothingBehind, NoneCurrent, SignOutIsFinal, QueueOut
<1>2. Shapes /\ SignOutInv /\ [Next]_vars => SignOutInv'
  BY SignOutStep DEF Shapes
<1>3. SignOutInv => SignOutIsFinal
  BY DEF SignOutInv
<1> QED
  BY <1>1, <1>2, <1>3, ShapesInv, PTL DEF Spec

-----------------------------------------------------------------------------
(* Storage follows memory, and no principal replaces another               *)

SamePrincipal(s, t) == grants[s].principal = grants[t].principal
Stored == {None} \cup DOMAIN grants
SameOwner(w, v) == w.by[1] = v.by[1] /\ w.by[2] = v.by[2]

\* Sessions in memory, in storage and in the queue have been granted.
Known ==
    /\ memory \in Stored /\ cell \in Stored
    /\ \A k \in DOMAIN writes : writes[k].value \in Stored

\* Whoever queued a write awaits it, and it holds what they will go on with.
Owned(w) ==
    /\ w.by[1] = "refresh" =>
          /\ refresh[w.by[2]].at = "writing" /\ refresh[w.by[2]].next = w.value
          /\ w.by[2] \in DOMAIN grants /\ w.value \in DOMAIN grants
          /\ SamePrincipal(w.by[2], w.value)
    /\ w.by[1] = "signIn" =>
          \/ signIns[w.by[2]].at = "clearing" /\ w.value = None
          \/ signIns[w.by[2]].at = "writing" /\ w.value = signIns[w.by[2]].grant
    /\ w.by[1] \in {"verify", "signOut"} => w.value = None
QueueOwned ==
    \A k \in DOMAIN writes :
        /\ Owned(writes[k])
        /\ writes[k].by[1] \in {"refresh", "signIn"} =>
              \A j \in DOMAIN writes : SameOwner(writes[j], writes[k]) => j = k

\* The sign-in under way will replace no session of another principal, and behind
\* its write only refreshes of what it replaces are queued.
Underway ==
    /\ current \in DOMAIN signIns
    /\ signIns[current].at \in {"reading", "clearing", "writing"} =>
          signIns[current].grant \in DOMAIN grants
    /\ signIns[current].at = "reading" =>
          \/ memory = None
          \/ /\ signIns[current].previous \in DOMAIN grants
             /\ SamePrincipal(memory, signIns[current].previous)
    /\ signIns[current].at = "clearing" => memory = None
    /\ signIns[current].at = "writing" =>
          memory = None \/ SamePrincipal(memory, signIns[current].grant)
RefreshesBehind ==
    \A k \in DOMAIN writes :
        writes[k].by[1] = "signIn" /\ writes[k].by[2] = current =>
            \A j \in DOMAIN writes : j > k => writes[j].by[1] = "refresh"
CurrentInv == current # None => Underway /\ RefreshesBehind

\* The last write in the queue is what memory holds or is about to.
Follows(w) ==
    /\ w.value = None => memory = None
    /\ w.by[1] = "refresh" => memory # None /\ SamePrincipal(memory, w.value)
    /\ w.by[1] = "signIn" /\ w.value # None => current = w.by[2]
LastFollows == writes # <<>> => Follows(writes[Len(writes)])

FollowInv == Known /\ QueueOwned /\ CurrentInv /\ LastFollows /\ CellFollowsMemory

\* Grants are only added.
Grown == DOMAIN grants \subseteq DOMAIN grants' /\ \A s \in DOMAIN grants : grants'[s] = grants[s]

\* None is no grant.
LEMMA GrantsAre ==
    ASSUME Shape
    PROVE  /\ \A s \in DOMAIN grants : s # None /\ s \in Nat /\ s \in Session
           /\ \A i \in DOMAIN signIns : i # None /\ i \in Nat
           /\ \A s \in Session : s # None
<1>1. grants \in Seq(GrantRecord) /\ Len(grants) <= MaxGrants /\ signIns \in Seq(SignInRecord)
  BY DEF Shape
<1> QED
  BY <1>1, AuthAssumption DEF None, Session

\* A new grant is one of the principal it was issued for.
LEMMA IssueGrows ==
    ASSUME Shape, NEW p \in Principal, NEW q \in Principal, Issue(p, q)
    PROVE  /\ Grown /\ Len(grants') \in DOMAIN grants' /\ Len(grants') # None
           /\ grants'[Len(grants')].principal = p
<1>1. PICK g \in GrantRecord : g = [principal |-> p, owner |-> q]
  BY DEF GrantRecord
<1>2. grants \in Seq(GrantRecord) /\ grants' = Append(grants, g)
  BY <1>1 DEF Shape, Issue
<1>3. /\ Len(grants) \in Nat /\ DOMAIN grants = 1..Len(grants)
      /\ DOMAIN grants' = 1..(Len(grants) + 1) /\ Len(grants') = Len(grants) + 1
      /\ \A s \in DOMAIN grants : grants'[s] = grants[s]
      /\ grants'[Len(grants) + 1] = g
  BY <1>2
<1> QED
  BY <1>1, <1>3 DEF Grown, None

\* Principals stay the same when grants are added.
LEMMA PrincipalsStay ==
    ASSUME Grown
    PROVE  /\ \A s, t \in DOMAIN grants : SamePrincipal(s, t)' <=> SamePrincipal(s, t)
           /\ \A s \in Stored : s \in Stored'
BY DEF Grown, SamePrincipal, Stored

\* A sign-in under way is not disturbed by a refresh of the session in memory.
LEMMA UnderwayStays ==
    ASSUME Shape, Known, Underway, Grown, current' = current, current' \in DOMAIN signIns',
           signIns'[current] = signIns[current],
           \/ memory' \in {None, memory}
           \/ memory # None /\ memory' \in DOMAIN grants /\ SamePrincipal(memory, memory')
    PROVE  Underway'
<1>1. memory \in Stored /\ (memory # None => memory \in DOMAIN grants)
  BY DEF Known, Stored
<1>2. \A s, t \in DOMAIN grants : SamePrincipal(s, t)' <=> SamePrincipal(s, t)
  BY PrincipalsStay
<1>3. \A t \in DOMAIN grants :
          memory = None \/ SamePrincipal(memory, t) =>
              memory' = None \/ grants'[memory'].principal = grants'[t].principal
  BY <1>1 DEF Grown, SamePrincipal
<1>4. memory = None => memory' = None
  OBVIOUS
<1>5. DOMAIN grants \subseteq DOMAIN grants'
  BY DEF Grown
<1> QED
  BY <1>3, <1>4, <1>5 DEF Underway, SamePrincipal

\* Nothing happens to the queue, to memory or to storage.
LEMMA QuietStep ==
    ASSUME Shape, FollowInv, UNCHANGED <<memory, cell, writes, current, lastWrite>>, Grown,
           \A s \in Session : refresh[s].at = "writing" => refresh'[s] = refresh[s],
           \A i \in DOMAIN signIns :
               signIns[i].at \in {"clearing", "writing"} => signIns'[i] = signIns[i],
           current # None => Underway'
    PROVE  FollowInv'
<1>1. /\ \A s, t \in DOMAIN grants : SamePrincipal(s, t)' <=> SamePrincipal(s, t)
      /\ \A s \in Stored : s \in Stored'
  BY PrincipalsStay
<1>2. Known /\ QueueOwned /\ CurrentInv /\ LastFollows /\ CellFollowsMemory
  BY DEF FollowInv
<1>3. Known'
  BY <1>1, <1>2 DEF Known
<1>4. QueueOwned'
  <2>1. ASSUME NEW k \in DOMAIN writes PROVE Owned(writes[k])'
    <3>1. /\ Owned(writes[k])
          /\ writes[k].by[1] = "refresh" => writes[k].by[2] \in Session
          /\ writes[k].by[1] = "signIn" => writes[k].by[2] \in DOMAIN signIns
      BY <1>2, <2>1 DEF QueueOwned, Shape, QueueShape
    <3>2. DOMAIN grants \subseteq DOMAIN grants'
      BY DEF Grown
    <3> QED
      BY <1>1, <3>1, <3>2 DEF Owned
  <2> QED
    BY <1>2, <2>1 DEF QueueOwned, SameOwner
<1>5. CurrentInv'
  BY <1>2 DEF CurrentInv, RefreshesBehind
<1>6. LastFollows'
  <2> SUFFICES ASSUME writes # <<>> PROVE Follows(writes[Len(writes)])'
    BY DEF LastFollows
  <2>1. Len(writes) \in DOMAIN writes
    <3>1. writes \in Seq(WriteRecord)
      BY DEF Shape, QueueShape
    <3> QED
      BY <3>1
  <2>2. Follows(writes[Len(writes)])
    BY <1>2 DEF LastFollows
  <2>3. writes[Len(writes)].by[1] = "refresh" => writes[Len(writes)].value \in DOMAIN grants
    BY <1>2, <2>1 DEF QueueOwned, Owned
  <2>4. memory # None => memory \in DOMAIN grants
    BY <1>2 DEF Known, Stored
  <2> QED
    BY <1>1, <2>2, <2>3, <2>4 DEF Follows
<1>7. CellFollowsMemory'
  <2>1. (memory # None => memory \in DOMAIN grants) /\ (cell # None => cell \in DOMAIN grants)
    BY <1>2 DEF Known, Stored
  <2> QED
    BY <1>2, <2>1 DEF CellFollowsMemory, Grown
<1> QED
  BY <1>3, <1>4, <1>5, <1>6, <1>7 DEF FollowInv

\* A write whose owner is where they were is owned.
LEMMA OwnedStays ==
    ASSUME NEW w, Owned(w), Grown,
           w.by[1] = "refresh" => refresh'[w.by[2]] = refresh[w.by[2]],
           w.by[1] = "signIn" => signIns'[w.by[2]] = signIns[w.by[2]]
    PROVE  Owned(w)'
<1>1. \A s, t \in DOMAIN grants : SamePrincipal(s, t)' <=> SamePrincipal(s, t)
  BY PrincipalsStay
<1> QED
  BY <1>1 DEF Owned, Grown

\* Every write is owned, and by nobody who owns another.
LEMMA OwnedQueue ==
    ASSUME \A k \in DOMAIN writes' : Owned(writes[k])',
           \A k, j \in DOMAIN writes' :
               writes'[k].by[1] \in {"refresh", "signIn"} /\ SameOwner(writes'[j], writes'[k])
                   => j = k
    PROVE  QueueOwned'
BY DEF QueueOwned, SameOwner

\* A write is queued.
LEMMA AppendOwned ==
    ASSUME Shape, QueueOwned, Grown, NEW w \in WriteRecord, writes' = Append(writes, w),
           \A s \in Session : refresh[s].at = "writing" => refresh'[s] = refresh[s],
           \A i \in DOMAIN signIns :
               signIns[i].at \in {"clearing", "writing"} => signIns'[i] = signIns[i],
           Owned(w)',
           w.by[1] \in {"refresh", "signIn"} => \A j \in DOMAIN writes : ~SameOwner(writes[j], w)
    PROVE  /\ QueueOwned' /\ writes' # <<>> /\ writes'[Len(writes')] = w
           /\ DOMAIN writes' = DOMAIN writes \cup {Len(writes) + 1}
           /\ Len(writes) + 1 \notin DOMAIN writes
           /\ \A k \in DOMAIN writes : writes'[k] = writes[k] /\ k < Len(writes) + 1
           /\ writes'[Len(writes) + 1] = w
<1>1. writes \in Seq(WriteRecord)
  BY DEF Shape, QueueShape
<1>2. /\ Len(writes) \in Nat /\ writes' # <<>> /\ Len(writes') = Len(writes) + 1
      /\ DOMAIN writes' = 1..(Len(writes) + 1) /\ DOMAIN writes = 1..Len(writes)
      /\ \A k \in DOMAIN writes : writes'[k] = writes[k]
      /\ writes'[Len(writes) + 1] = w
  BY <1>1, AppendWrite
<1>3. ASSUME NEW k \in DOMAIN writes PROVE Owned(writes[k])'
  <2>1. PICK v : v = writes[k]
    OBVIOUS
  <2>2. /\ Owned(v)
        /\ v.by[1] = "refresh" => v.by[2] \in Session
        /\ v.by[1] = "signIn" => v.by[2] \in DOMAIN signIns
    BY <1>3, <2>1 DEF QueueOwned, Shape, QueueShape
  <2>3. Owned(v)'
    BY <2>2, OwnedStays DEF Owned
  <2>4. writes'[k] = v
    BY <1>2, <1>3, <2>1
  <2> QED
    BY <2>3, <2>4 DEF Owned
<1>4. QueueOwned'
  <2>1. ASSUME NEW k \in DOMAIN writes' PROVE Owned(writes[k])'
    <3>1. CASE k \in DOMAIN writes
      BY ONLY <1>3, <3>1
    <3>2. CASE k = Len(writes) + 1
      <4>1. writes'[k] = w
        BY ONLY <1>2, <3>2
      <4> QED
        BY <4>1 DEF Owned
    <3> QED
      BY ONLY <1>2, <2>1, <3>1, <3>2
  <2>2. ASSUME NEW k \in DOMAIN writes', writes'[k].by[1] \in {"refresh", "signIn"},
               NEW j \in DOMAIN writes', SameOwner(writes'[j], writes'[k])
        PROVE  j = k
    BY <1>2, <2>2 DEF QueueOwned, SameOwner
  <2> QED
    BY <2>1, <2>2 DEF QueueOwned, SameOwner
<1> QED
  BY <1>2, <1>4

\* The first write leaves the queue.
LEMMA TailOwned ==
    ASSUME Shape, QueueOwned, Grown, writes # <<>>, NEW w, w = Head(writes),
           \A s \in Session :
               refresh'[s] = refresh[s] \/ (w.by[1] = "refresh" /\ w.by[2] = s),
           \A i \in DOMAIN signIns :
               signIns'[i] = signIns[i] \/ (w.by[1] = "signIn" /\ w.by[2] = i)
    PROVE  /\ w \in WriteRecord /\ w = writes[1] /\ 1 \in DOMAIN writes /\ Owned(w)
           /\ w.by[1] = "refresh" => w.by[2] \in Session
           /\ w.by[1] = "signIn" => w.by[2] \in DOMAIN signIns
           /\ \A v : \A k \in DOMAIN writes : v = writes[k] /\ k # 1 =>
                 /\ Owned(v)'
                 /\ v.by[1] \in {"refresh", "signIn"} => ~SameOwner(w, v)
           /\ writes' = Tail(writes) => QueueOwned'
<1>1. writes \in Seq(WriteRecord)
  BY DEF Shape, QueueShape
<1>2. /\ 1 \in DOMAIN writes /\ w = writes[1] /\ DOMAIN Tail(writes) = 1..(Len(writes) - 1)
      /\ DOMAIN writes = 1..Len(writes) /\ Len(writes) \in Nat \ {0}
      /\ \A k \in DOMAIN Tail(writes) : k + 1 \in DOMAIN writes /\ Tail(writes)[k] = writes[k + 1]
  BY <1>1, TailWrite
<1>3. /\ w \in WriteRecord /\ Owned(w)
      /\ w.by[1] = "refresh" => w.by[2] \in Session
      /\ w.by[1] = "signIn" => w.by[2] \in DOMAIN signIns
  BY <1>1, <1>2 DEF QueueOwned, Shape, QueueShape
<1>4. ASSUME NEW v, NEW k \in DOMAIN writes, v = writes[k], k # 1
      PROVE  Owned(v)' /\ (v.by[1] \in {"refresh", "signIn"} => ~SameOwner(w, v))
  <2>1. /\ Owned(v)
        /\ v.by[1] = "refresh" => v.by[2] \in Session
        /\ v.by[1] = "signIn" => v.by[2] \in DOMAIN signIns
        /\ v.by[1] \in {"refresh", "signIn"} => ~SameOwner(w, v)
    BY <1>2, <1>4 DEF QueueOwned, Shape, QueueShape
  <2> QED
    BY <2>1, OwnedStays DEF SameOwner
<1>5. ASSUME writes' = Tail(writes) PROVE QueueOwned'
  <2>1. ASSUME NEW k \in DOMAIN writes' PROVE Owned(writes[k])'
    <3>1. PICK v : v = writes[k + 1]
      OBVIOUS
    <3>2. Owned(v)' /\ writes'[k] = v
      BY <1>2, <1>4, <1>5, <2>1, <3>1
    <3> QED
      BY <3>2 DEF Owned
  <2>2. ASSUME NEW k \in DOMAIN writes', writes'[k].by[1] \in {"refresh", "signIn"},
               NEW j \in DOMAIN writes', SameOwner(writes'[j], writes'[k])
        PROVE  j = k
    <3>1. /\ k + 1 \in DOMAIN writes /\ j + 1 \in DOMAIN writes
          /\ writes'[k] = writes[k + 1] /\ writes'[j] = writes[j + 1]
      BY <1>2, <1>5, <2>2
    <3>2. j + 1 = k + 1
      BY <2>2, <3>1 DEF QueueOwned
    <3> QED
      BY <1>2, <1>5, <2>2, <3>2
  <2> QED
    BY <2>1, <2>2 DEF QueueOwned, SameOwner
<1> QED
  BY <1>2, <1>3, <1>4, <1>5

\* A clear that cancels the sign-in under way is queued.
LEMMA ClearStep ==
    ASSUME Shape, FollowInv, NEW kind \in {"verify", "signOut"}, NEW i \in Nat,
           Write(None, <<kind, i>>), memory' = None, current' = None,
           UNCHANGED <<grants, cell, refresh, signIns>>
    PROVE  FollowInv'
<1>1. PICK w : w = [value |-> None, by |-> <<kind, i>>]
  OBVIOUS
<1>2. w \in WriteRecord /\ w.value = None /\ w.by[1] = kind /\ w.by[2] = i
  BY <1>1 DEF WriteRecord, Kind, None
<1>3. writes' = Append(writes, w) /\ Grown /\ Owned(w)'
  BY <1>1, <1>2 DEF Write, Grown, Owned
<1>4. /\ QueueOwned' /\ writes' # <<>> /\ writes'[Len(writes')] = w
      /\ DOMAIN writes' = DOMAIN writes \cup {Len(writes) + 1}
      /\ \A k \in DOMAIN writes : writes'[k] = writes[k]
      /\ writes'[Len(writes) + 1] = w
  BY <1>2, <1>3, AppendOwned DEF FollowInv
<1>5. Known'
  BY <1>2, <1>4 DEF FollowInv, Known, Stored
<1>6. LastFollows'
  BY <1>2, <1>4 DEF LastFollows, Follows
<1> QED
  BY <1>4, <1>5, <1>6 DEF FollowInv, CurrentInv, CellFollowsMemory

\* A refresh of the session in memory queues its grant.
LEMMA GrantedStep ==
    ASSUME Shape, FollowInv, NEW s \in DOMAIN grants, RefreshGranted(s)
    PROVE  FollowInv'
<1>1. /\ refresh[s].at = "asking" /\ s \in Session /\ s \in Nat /\ s # None
      /\ UNCHANGED <<memory, cell, verify, signIns, current, bound, lastWrite>>
      /\ refresh \in [Session -> FlightRecord]
      /\ Known /\ QueueOwned /\ CurrentInv
      /\ \A i \in DOMAIN signIns : signIns'[i] = signIns[i]
  BY GrantsAre DEF RefreshGranted, memoryVars, history, Shape, FollowInv
<1>2. current # None /\ Grown => Underway'
  BY <1>1, UnderwayStays DEF CurrentInv, Underway
<1>3. CASE memory # s
  <2>1. refresh' = [refresh EXCEPT ![s].at = "idle"] /\ UNCHANGED <<grants, writes>>
    BY <1>3 DEF RefreshGranted
  <2>2. \A r \in Session : refresh[r].at = "writing" => refresh'[r] = refresh[r]
    BY <1>1, <2>1
  <2>3. Grown
    BY <2>1 DEF Grown
  <2> QED
    BY <1>1, <1>2, <2>1, <2>2, <2>3, QuietStep
<1>4. CASE memory = s
  <2>1. /\ Issue(grants[s].principal, grants[s].owner)
        /\ Write(Len(grants'), <<"refresh", s>>)
        /\ refresh' = [refresh EXCEPT ![s] = [at |-> "writing", next |-> Len(grants')]]
    BY <1>4 DEF RefreshGranted
  <2>2. grants[s].principal \in Principal /\ grants[s].owner \in Principal
    <3>1. grants[s] \in GrantRecord
      BY DEF Shape
    <3> QED
      BY <3>1 DEF GrantRecord
  <2>3. PICK n : n = Len(grants')
    OBVIOUS
  <2>4. /\ Grown /\ n \in DOMAIN grants' /\ n # None
        /\ grants'[n].principal = grants[s].principal
    BY <2>1, <2>2, <2>3, IssueGrows
  <2>5. n \in Nat
    <3>1. Shape'
      BY ShapeStep DEF Next
    <3> QED
      BY <2>3, <3>1 DEF Shape
  <2>6. PICK w : w = [value |-> n, by |-> <<"refresh", s>>]
    OBVIOUS
  <2>7. w \in WriteRecord /\ w.value = n /\ w.by[1] = "refresh" /\ w.by[2] = s
    BY <1>1, <2>5, <2>6 DEF WriteRecord, Kind
  <2>8. writes' = Append(writes, w)
    BY <2>1, <2>3, <2>6 DEF Write
  <2>9. /\ refresh'[s].at = "writing" /\ refresh'[s].next = n
        /\ \A r \in Session : refresh[r].at = "writing" => refresh'[r] = refresh[r]
    BY <1>1, <2>1, <2>3
  <2>10. Owned(w)'
    BY <2>4, <2>7, <2>9 DEF Owned, SamePrincipal, Grown
  <2>11. \A j \in DOMAIN writes : ~SameOwner(writes[j], w)
    BY <1>1, <2>7 DEF SameOwner, QueueOwned, Owned
  <2>12. /\ QueueOwned' /\ writes' # <<>> /\ writes'[Len(writes')] = w
         /\ DOMAIN writes' = DOMAIN writes \cup {Len(writes) + 1}
         /\ Len(writes) + 1 \notin DOMAIN writes
         /\ \A k \in DOMAIN writes : writes'[k] = writes[k] /\ k < Len(writes) + 1
         /\ writes'[Len(writes) + 1] = w
    BY <1>1, <2>4, <2>7, <2>8, <2>9, <2>10, <2>11, AppendOwned
  <2>13. Known'
    BY <1>1, <2>4, <2>7, <2>12 DEF Known, Stored, Grown
  <2>14. CurrentInv'
    <3>1. current # None => RefreshesBehind'
      BY <1>1, <2>7, <2>12 DEF CurrentInv, RefreshesBehind
    <3> QED
      BY <1>1, <1>2, <2>4, <3>1 DEF CurrentInv
  <2>15. LastFollows'
    BY <1>1, <1>4, <2>4, <2>7, <2>12 DEF LastFollows, Follows, SamePrincipal, Grown
  <2> QED
    BY <2>12, <2>13, <2>14, <2>15 DEF FollowInv, CellFollowsMemory
<1> QED
  BY <1>3, <1>4

\* A sign-in moves on; the others stay where they are.
LEMMA SignInMoves ==
    ASSUME Shape, NEW i \in DOMAIN signIns, NEW a \in SignInAt, SignInStep(i, a)
    PROVE  /\ DOMAIN signIns' = DOMAIN signIns
           /\ \A k \in DOMAIN signIns : k # i => signIns'[k] = signIns[k]
           /\ signIns'[i].at = a /\ signIns'[i].grant = signIns[i].grant
<1>1. signIns \in Seq(SignInRecord)
  BY DEF Shape
<1>2. signIns' = [signIns EXCEPT ![i].at = a]
  BY DEF SignInStep
<1>3. \A k \in DOMAIN signIns : k # i => signIns'[k] = signIns[k]
  BY <1>1, <1>2
<1>4. DOMAIN signIns' = DOMAIN signIns /\ signIns'[i] = [signIns[i] EXCEPT !.at = a]
  BY <1>1, <1>2
<1>5. signIns[i] \in SignInRecord
  BY <1>1
<1> QED
  BY <1>3, <1>4, <1>5 DEF SignInRecord

\* The sign-in under way queues a write.
LEMMA SignInWrites ==
    ASSUME Shape, FollowInv, NEW i \in DOMAIN signIns, current = i, signIns[i].at = "reading",
           NEW a \in {"clearing", "writing"}, SignInStep(i, a),
           NEW v \in Stored, v = IF a = "clearing" THEN None ELSE signIns[i].grant,
           Write(v, <<"signIn", i>>),
           IF a = "clearing" THEN memory' = None
           ELSE memory' = memory /\ (memory = None \/ SamePrincipal(memory, signIns[i].grant)),
           UNCHANGED <<grants, cell, refresh, current>>
    PROVE  FollowInv'
<1>1. /\ Known /\ QueueOwned /\ Underway /\ i # None /\ i \in Nat
      /\ signIns[i].grant \in DOMAIN grants
  BY GrantsAre DEF FollowInv, CurrentInv, Underway
<1>2. /\ DOMAIN signIns' = DOMAIN signIns
      /\ \A k \in DOMAIN signIns : k # i => signIns'[k] = signIns[k]
      /\ signIns'[i].at = a /\ signIns'[i].grant = signIns[i].grant
  BY SignInMoves DEF SignInAt
<1>3. PICK w : w = [value |-> v, by |-> <<"signIn", i>>]
  OBVIOUS
<1>4. v \in Nat
  BY GrantsAre DEF Stored, None
<1>5. w \in WriteRecord /\ w.value = v /\ w.by[1] = "signIn" /\ w.by[2] = i
  BY <1>1, <1>3, <1>4 DEF WriteRecord, Kind
<1>6. writes' = Append(writes, w) /\ Grown
  BY <1>3 DEF Write, Grown
<1>7. Owned(w)'
  BY <1>2, <1>5 DEF Owned
<1>8. \A j \in DOMAIN writes : ~SameOwner(writes[j], w)
  BY <1>1, <1>5 DEF SameOwner, QueueOwned, Owned
<1>9. /\ QueueOwned' /\ writes' # <<>> /\ writes'[Len(writes')] = w
      /\ DOMAIN writes' = DOMAIN writes \cup {Len(writes) + 1}
      /\ \A k \in DOMAIN writes : writes'[k] = writes[k] /\ k < Len(writes) + 1
      /\ writes'[Len(writes) + 1] = w
  BY <1>1, <1>2, <1>5, <1>6, <1>7, <1>8, AppendOwned
<1>10. Known'
  BY <1>1, <1>5, <1>9 DEF Known, Stored
<1>11. RefreshesBehind'
  <2>1. \A k \in DOMAIN writes : ~(writes[k].by[1] = "signIn" /\ writes[k].by[2] = i)
    BY <1>5, <1>8 DEF SameOwner
  <2>2. Len(writes) \in Nat
    <3>1. writes \in Seq(WriteRecord)
      BY DEF Shape, QueueShape
    <3> QED
      BY <3>1
  <2>3. \A j \in DOMAIN writes' : ~(j > Len(writes) + 1)
    <3>1. writes \in Seq(WriteRecord)
      BY DEF Shape, QueueShape
    <3>2. DOMAIN writes = 1..Len(writes)
      BY <3>1
    <3> QED
      BY <1>9, <2>2, <3>2
  <2> QED
    BY <1>9, <2>1, <2>3 DEF RefreshesBehind
<1>12. Underway'
  BY <1>1, <1>2 DEF Underway, SamePrincipal
<1>13. LastFollows'
  BY <1>1, <1>5, <1>9, GrantsAre DEF LastFollows, Follows
<1> QED
  BY <1>9, <1>10, <1>11, <1>12, <1>13 DEF FollowInv, CurrentInv, CellFollowsMemory

\* /api/session has named the principal of a sign-in.
LEMMA SignInReadStep ==
    ASSUME Shape, FollowInv, NEW i \in DOMAIN signIns, SignInRead(i)
    PROVE  FollowInv'
<1>1. /\ signIns[i].at = "reading" /\ UNCHANGED <<grants, cell, refresh, current, lastWrite>>
      /\ Grown /\ CurrentInv
  BY DEF SignInRead, Grown, FollowInv
<1>2. CASE current # i
  <2>1. SignInStep(i, "over") /\ UNCHANGED <<memory, writes>>
    BY <1>2 DEF SignInRead, memoryVars
  <2>2. /\ DOMAIN signIns' = DOMAIN signIns
        /\ \A k \in DOMAIN signIns : k # i => signIns'[k] = signIns[k]
    BY <2>1, SignInMoves DEF SignInAt
  <2>3. current # None => Underway'
    BY <1>1, <1>2, <2>1, <2>2, UnderwayStays DEF CurrentInv, Underway, FollowInv
  <2> QED
    BY <1>1, <1>2, <2>1, <2>2, <2>3, QuietStep
<1>3. CASE current = i
  <2> DEFINE previous == signIns[i].previous
  <2>1. /\ Underway /\ signIns[i].grant \in DOMAIN grants
        /\ memory = None \/ (previous \in DOMAIN grants /\ SamePrincipal(memory, previous))
    BY <1>1, <1>3, GrantsAre DEF CurrentInv, Underway
  <2>2. CASE /\ SignInStep(i, "clearing") /\ Forget /\ Write(None, <<"signIn", i>>)
    BY <1>1, <1>3, <2>2, SignInWrites DEF Forget, Stored
  <2>3. CASE /\ ~(previous # None /\ ~SamePrincipal(previous, signIns[i].grant))
             /\ SignInStep(i, "writing") /\ Write(signIns[i].grant, <<"signIn", i>>)
             /\ UNCHANGED memoryVars
    <3>1. memory = None \/ SamePrincipal(memory, signIns[i].grant)
      BY <2>1, <2>3, GrantsAre DEF SamePrincipal
    <3> QED
      BY <1>1, <1>3, <2>1, <2>3, <3>1, SignInWrites DEF Stored, memoryVars
  <2> QED
    BY <1>3, <2>2, <2>3 DEF SignInRead, SamePrincipal
<1> QED
  BY <1>2, <1>3

\* What is left of a queue.
LEMMA TailLength ==
    ASSUME NEW q \in Seq(WriteRecord), q # <<>>
    PROVE  /\ Len(Tail(q)) = Len(q) - 1
           /\ Tail(q) # <<>> => Len(q) > 1
           /\ Tail(q) = <<>> => Len(q) = 1
<1>1. Len(Tail(q)) = Len(q) - 1 /\ Len(q) \in Nat \ {0} /\ DOMAIN Tail(q) = 1..(Len(q) - 1)
  BY TailWrite
<1>2. PICK t \in Seq(WriteRecord) : t = Tail(q)
  BY TailWrite
<1>3. t # <<>> => Len(t) # 0
  OBVIOUS
<1>4. t = <<>> => Len(t) = 0
  OBVIOUS
<1> QED
  BY <1>1, <1>2, <1>3, <1>4

\* A queue without its first write ends as it did, or was that write.
LEMMA TailEnds ==
    ASSUME Shape, FollowInv, writes # <<>>, NEW w, w = Head(writes), writes' = Tail(writes)
    PROVE  /\ writes' # <<>> =>
                 /\ writes'[Len(writes')] = writes[Len(writes)]
                 /\ Len(writes) \in DOMAIN writes /\ Len(writes) > 1
           /\ writes' = <<>> => w = writes[Len(writes)]
           /\ \A k \in DOMAIN writes' : writes'[k].value \in Stored
           /\ current' = current /\ RefreshesBehind => RefreshesBehind'
           /\ w.value \in Stored
<1>1. writes \in Seq(WriteRecord)
  BY DEF Shape, QueueShape
<1>2. /\ 1 \in DOMAIN writes /\ w = writes[1] /\ DOMAIN writes' = 1..(Len(writes) - 1)
      /\ DOMAIN writes = 1..Len(writes) /\ Len(writes) \in Nat \ {0}
      /\ \A k \in DOMAIN writes' : k + 1 \in DOMAIN writes /\ writes'[k] = writes[k + 1]
  BY <1>1, TailWrite
<1>3. /\ Len(writes') = Len(writes) - 1
      /\ writes' # <<>> => Len(writes) > 1
      /\ writes' = <<>> => Len(writes) = 1
  BY <1>1, TailLength
<1>4. \A k \in DOMAIN writes' : writes'[k].value \in Stored
  BY <1>2 DEF FollowInv, Known
<1>5. writes' # <<>> => /\ writes'[Len(writes')] = writes[Len(writes)]
                        /\ Len(writes) \in DOMAIN writes /\ Len(writes) > 1
  BY <1>2, <1>3
<1>6. writes' = <<>> => w = writes[Len(writes)]
  BY <1>2, <1>3
<1>7. ASSUME current' = current, RefreshesBehind PROVE RefreshesBehind'
  <2> SUFFICES ASSUME NEW k \in DOMAIN writes', writes'[k].by[1] = "signIn",
                      writes'[k].by[2] = current, NEW j \in DOMAIN writes', j > k
               PROVE  writes'[j].by[1] = "refresh"
    BY <1>7 DEF RefreshesBehind
  <2>1. j + 1 > k + 1 /\ writes'[k] = writes[k + 1] /\ writes'[j] = writes[j + 1]
    BY <1>2
  <2> QED
    BY <1>2, <1>7, <2>1 DEF RefreshesBehind
<1>8. w.value \in Stored
  BY <1>2 DEF FollowInv, Known
<1> QED
  BY <1>4, <1>5, <1>6, <1>7, <1>8

\* Memory stays, or goes on to a session of the same principal.
Keeps ==
    \/ memory' = memory
    \/ memory # None /\ memory' \in DOMAIN grants /\ SamePrincipal(memory, memory')

\* The write that settles holds what is in memory then, if it is the last.
LEMMA SettledTail ==
    ASSUME Shape, FollowInv, writes # <<>>, NEW w, w = Head(writes), writes' = Tail(writes),
           UNCHANGED <<grants, current>>, cell' = w.value \/ (cell' = cell /\ lastWrite' # "ok"),
           Keeps, w.by[1] = "signIn" => current # w.by[2] \/ lastWrite' # "ok",
           \A s \in Session :
               refresh'[s] = refresh[s] \/ (w.by[1] = "refresh" /\ w.by[2] = s),
           \A i \in DOMAIN signIns :
               signIns'[i] = signIns[i] \/ (w.by[1] = "signIn" /\ w.by[2] = i),
           current # None => Underway'
    PROVE  FollowInv'
<1>1. Grown /\ Known /\ QueueOwned /\ CurrentInv /\ LastFollows
  BY DEF Grown, FollowInv
<1>2. /\ w \in WriteRecord /\ Owned(w) /\ QueueOwned'
  BY <1>1, TailOwned
<1>3. /\ writes' # <<>> => writes'[Len(writes')] = writes[Len(writes)]
      /\ writes' = <<>> => w = writes[Len(writes)]
      /\ \A k \in DOMAIN writes' : writes'[k].value \in Stored
      /\ RefreshesBehind => RefreshesBehind'
      /\ w.value \in Stored
  BY TailEnds
<1>4. \A v \in {w, writes[Len(writes)]} :
          /\ Follows(v) /\ v = writes[Len(writes)] =>
                /\ v.value = None => memory' = None
                /\ v.by[1] = "refresh" => memory' # None /\ SamePrincipal(memory', v.value)
  BY GrantsAre DEF Follows, Keeps, SamePrincipal
<1>5. Known'
  BY <1>1, <1>3 DEF Known, Stored, Keeps
<1>6. CurrentInv'
  BY <1>1, <1>3 DEF CurrentInv
<1>7. Follows(writes[Len(writes)])
  BY <1>1 DEF LastFollows
<1>8. LastFollows'
  BY <1>3, <1>4, <1>7 DEF LastFollows, Follows, SamePrincipal
<1>9. CellFollowsMemory'
  <2> SUFFICES ASSUME writes' = <<>>, lastWrite' = "ok"
               PROVE  \/ cell' = None /\ memory' = None
                      \/ /\ cell' # None /\ memory' # None
                         /\ grants[cell'].principal = grants[memory'].principal
    BY DEF CellFollowsMemory
  <2>1. w = writes[Len(writes)] /\ Follows(w) /\ cell' = w.value
    BY <1>3, <1>7
  <2>2. CASE w.value = None
    BY <1>4, <2>1, <2>2
  <2>3. CASE w.value # None /\ w.by[1] = "refresh"
    BY <1>4, <2>1, <2>3 DEF SamePrincipal
  <2>4. CASE w.value # None /\ w.by[1] = "signIn"
    BY <2>1, <2>4 DEF Follows
  <2> QED
    BY <1>2, <2>2, <2>3, <2>4 DEF WriteRecord, Kind, Owned
<1> QED
  BY <1>2, <1>5, <1>6, <1>8, <1>9 DEF FollowInv

\* A sign-in whose clear has settled queues its own session.
LEMMA ClearedStep ==
    ASSUME Shape, FollowInv, writes # <<>>, NEW w, w = Head(writes), NEW i \in DOMAIN signIns,
           w.by[1] = "signIn", w.by[2] = i, current = i, signIns[i].at = "clearing",
           SignInStep(i, "writing"), cell' = w.value,
           writes' = Append(Tail(writes), [value |-> signIns[i].grant, by |-> <<"signIn", i>>]),
           UNCHANGED <<grants, current, refresh, memory>>
    PROVE  FollowInv'
<1>1. /\ Grown /\ Known /\ QueueOwned /\ Underway /\ i # None /\ i \in Nat
      /\ memory = None /\ signIns[i].grant \in DOMAIN grants
  BY GrantsAre DEF Grown, FollowInv, CurrentInv, Underway
<1>2. /\ DOMAIN signIns' = DOMAIN signIns
      /\ \A k \in DOMAIN signIns : k # i => signIns'[k] = signIns[k]
      /\ signIns'[i].at = "writing" /\ signIns'[i].grant = signIns[i].grant
  BY SignInMoves DEF SignInAt
<1>3. PICK new : new = [value |-> signIns[i].grant, by |-> <<"signIn", i>>]
  OBVIOUS
<1>4. /\ new \in WriteRecord /\ new.value = signIns[i].grant /\ new.value # None
      /\ new.by[1] = "signIn" /\ new.by[2] = i
  BY <1>1, <1>3, GrantsAre DEF WriteRecord, Kind
<1>5. Owned(new)'
  BY <1>2, <1>4 DEF Owned
<1>6. \A v : \A k \in DOMAIN writes : v = writes[k] /\ k # 1 =>
          /\ Owned(v)'
          /\ v.by[1] \in {"refresh", "signIn"} => ~SameOwner(w, v)
  BY <1>1, <1>2, TailOwned
<1>7. PICK q : q = Tail(writes)
  OBVIOUS
<1>8. writes \in Seq(WriteRecord) /\ q \in Seq(WriteRecord)
  BY <1>7, TailWrite DEF Shape, QueueShape
<1>9. /\ DOMAIN q = 1..Len(q) /\ Len(q) \in Nat
      /\ \A k \in DOMAIN q : /\ k + 1 \in DOMAIN writes /\ k \in Nat /\ k + 1 # 1
                             /\ q[k] = writes[k + 1]
  BY <1>7, <1>8, TailWrite, AppendWrite, <1>4
<1>10. /\ writes' = Append(q, new) /\ DOMAIN writes' = 1..(Len(q) + 1)
       /\ \A k \in DOMAIN q : writes'[k] = q[k]
       /\ writes'[Len(q) + 1] = new /\ writes' # <<>> /\ Len(writes') = Len(q) + 1
  BY <1>3, <1>4, <1>7, <1>8, AppendWrite
<1>11. ASSUME NEW k \in DOMAIN q
       PROVE  /\ Owned(writes[k])' /\ writes'[k] = writes[k + 1] /\ writes'[k].value \in Stored
              /\ ~(writes'[k].by[1] = "signIn" /\ writes'[k].by[2] = i)
  <2>1. PICK v : v = writes[k + 1]
    OBVIOUS
  <2>2. Owned(v)' /\ (v.by[1] \in {"refresh", "signIn"} => ~SameOwner(w, v))
    BY <1>6, <1>9, <2>1
  <2>3. writes'[k] = v
    BY <1>9, <1>10, <2>1
  <2>4. v.value \in Stored
    BY <1>1, <1>9, <2>1 DEF Known
  <2> QED
    BY <2>1, <2>2, <2>3, <2>4 DEF Owned, SameOwner
<1>12. QueueOwned'
  <2>1. ASSUME NEW k \in DOMAIN writes' PROVE Owned(writes[k])'
    <3>1. CASE k \in DOMAIN q
      BY ONLY <1>11, <3>1
    <3>2. CASE k = Len(q) + 1
      <4>1. writes'[k] = new
        BY ONLY <1>10, <3>2
      <4> QED
        BY ONLY <1>5, <4>1 DEF Owned
    <3> QED
      BY ONLY <1>9, <1>10, <2>1, <3>1, <3>2
  <2>2. ASSUME NEW k \in DOMAIN writes', writes'[k].by[1] \in {"refresh", "signIn"},
               NEW j \in DOMAIN writes', SameOwner(writes'[j], writes'[k])
        PROVE  j = k
    <3>1. CASE k \in DOMAIN q /\ j \in DOMAIN q
      <4>1. j + 1 = k + 1
        BY <1>1, <1>9, <1>11, <2>2, <3>1 DEF QueueOwned
      <4> QED
        BY <1>9, <3>1, <4>1
    <3>2. CASE k \in DOMAIN q /\ j = Len(q) + 1
      BY <1>4, <1>10, <1>11, <2>2, <3>2 DEF SameOwner
    <3>3. CASE k = Len(q) + 1 /\ j \in DOMAIN q
      BY <1>4, <1>10, <1>11, <2>2, <3>3 DEF SameOwner
    <3> QED
      BY <1>9, <1>10, <2>2, <3>1, <3>2, <3>3
  <2>3. \A k \in DOMAIN writes' : Owned(writes[k])'
    BY ONLY <2>1
  <2>4. \A k, j \in DOMAIN writes' :
           writes'[k].by[1] \in {"refresh", "signIn"} /\ SameOwner(writes'[j], writes'[k])
             => j = k
    BY ONLY <2>2
  <2> QED
    BY ONLY <2>3, <2>4, OwnedQueue
<1>13. Known'
  <2>1. \A k \in DOMAIN writes' : writes'[k].value \in Stored
    BY <1>1, <1>4, <1>9, <1>10, <1>11 DEF Stored
  <2>2. w.value \in Stored
    BY <1>1, TailOwned, <1>2 DEF Known
  <2> QED
    BY <1>1, <2>1, <2>2 DEF Known, Stored
<1>14. RefreshesBehind'
  <2> SUFFICES ASSUME NEW k \in DOMAIN writes', writes'[k].by[1] = "signIn",
                      writes'[k].by[2] = i, NEW j \in DOMAIN writes', j > k
               PROVE  writes'[j].by[1] = "refresh"
    BY DEF RefreshesBehind
  <2>1. k = Len(q) + 1
    BY <1>9, <1>10, <1>11
  <2> QED
    BY <1>9, <1>10, <2>1
<1>15. Underway'
  BY <1>1, <1>2 DEF Underway
<1>16. LastFollows'
  BY <1>4, <1>10 DEF LastFollows, Follows
<1> QED
  BY <1>10, <1>12, <1>13, <1>14, <1>15, <1>16 DEF FollowInv, CurrentInv, CellFollowsMemory

\* A sign-in whose session is stored installs it.
LEMMA InstalledStep ==
    ASSUME Shape, FollowInv, writes # <<>>, NEW w, w = Head(writes), NEW i \in DOMAIN signIns,
           w.by[1] = "signIn", w.by[2] = i, current = i, signIns[i].at # "clearing",
           SignInStep(i, "over"), cell' = w.value, writes' = Tail(writes),
           memory' = signIns[i].grant, UNCHANGED <<grants, current, refresh>>
    PROVE  /\ FollowInv'
           /\ memory = None \/ SamePrincipal(memory, memory')
<1>1. /\ Grown /\ Known /\ QueueOwned /\ Underway /\ RefreshesBehind /\ LastFollows /\ i # None
  BY GrantsAre DEF Grown, FollowInv, CurrentInv
<1>2. /\ DOMAIN signIns' = DOMAIN signIns
      /\ \A k \in DOMAIN signIns : k # i => signIns'[k] = signIns[k]
      /\ signIns'[i].at = "over"
  BY SignInMoves DEF SignInAt
<1>3. Owned(w) /\ QueueOwned' /\ w = writes[1] /\ 1 \in DOMAIN writes
  BY <1>1, <1>2, TailOwned
<1>4. signIns[i].at = "writing" /\ w.value = signIns[i].grant /\ w.value \in DOMAIN grants
  BY <1>1, <1>3 DEF Owned, Underway
<1>5. memory = None \/ SamePrincipal(memory, w.value)
  BY <1>1, <1>4 DEF Underway
<1>6. /\ writes' # <<>> => /\ writes'[Len(writes')] = writes[Len(writes)]
                           /\ Len(writes) \in DOMAIN writes /\ Len(writes) > 1
      /\ \A k \in DOMAIN writes' : writes'[k].value \in Stored
      /\ RefreshesBehind'
  BY <1>1, TailEnds
<1>7. Known'
  BY <1>4, <1>6 DEF Known, Stored
<1>8. Underway'
  BY <1>2 DEF Underway
<1>9. LastFollows'
  <2> SUFFICES ASSUME writes' # <<>> PROVE Follows(writes[Len(writes)])'
    BY DEF LastFollows
  <2>1. /\ writes[Len(writes)].by[1] = "refresh" /\ Follows(writes[Len(writes)])
        /\ Owned(writes[Len(writes)])
    BY <1>1, <1>3, <1>6 DEF RefreshesBehind, LastFollows, QueueOwned
  <2>2. SamePrincipal(w.value, writes[Len(writes)].value) /\ writes[Len(writes)].value # None
    BY <1>5, <2>1, GrantsAre DEF Follows, SamePrincipal, Owned
  <2> QED
    BY <1>4, <1>6, <2>1, <2>2, GrantsAre DEF Follows, SamePrincipal
<1>10. CellFollowsMemory'
  BY <1>4, GrantsAre DEF CellFollowsMemory
<1> QED
  BY <1>3, <1>4, <1>5, <1>6, <1>7, <1>8, <1>9, <1>10 DEF FollowInv, CurrentInv

\* Only flights that write nothing change.
LEMMA FlightsStep ==
    ASSUME Shape, FollowInv,
           UNCHANGED <<memory, cell, writes, current, lastWrite, grants, signIns>>,
           \A s \in Session : refresh[s].at = "writing" => refresh'[s] = refresh[s]
    PROVE  FollowInv'
<1>1. Grown
  BY DEF Grown
<1>2. current # None => Underway'
  BY DEF FollowInv, CurrentInv, Underway, SamePrincipal
<1> QED
  BY <1>1, <1>2, QuietStep

\* Joining a refresh starts a flight that was idle.
LEMMA JoinKeeps ==
    ASSUME Shape, NEW c, NEW at, NEW retry, JoinRefresh(c, at, retry)
    PROVE  \A s \in Session : refresh[s].at = "writing" => refresh'[s] = refresh[s]
<1>1. refresh \in [Session -> FlightRecord]
  BY DEF Shape
<1>2. CASE refresh[memory].at # "idle"
  BY <1>2 DEF JoinRefresh
<1>3. CASE refresh[memory].at = "idle"
  <2>1. refresh' = [refresh EXCEPT ![memory] = [at |-> "asking", next |-> None]]
    BY <1>3 DEF JoinRefresh
  <2> QED
    BY <1>1, <1>3, <2>1
<1> QED
  BY <1>2, <1>3

\* A request changes flights only.
LEMMA RequestStep ==
    ASSUME Shape, FollowInv, NEW c \in Caller,
           \/ authedFetch(c) \/ AfterRefresh(c) \/ AfterVerify(c)
           \/ Answered(c) \/ Answered401(c) \/ AfterForce(c)
    PROVE  FollowInv' /\ memory' = memory
<1>1. ASSUME NEW retry, ResolveBearer(c, retry)
      PROVE  \A s \in Session : refresh[s].at = "writing" => refresh'[s] = refresh[s]
  BY <1>1, JoinKeeps DEF ResolveBearer
<1>2. /\ UNCHANGED <<memory, cell, writes, current, lastWrite, grants, signIns>>
      /\ \A s \in Session : refresh[s].at = "writing" => refresh'[s] = refresh[s]
  <2>1. CASE authedFetch(c)
    BY <1>1, <2>1 DEF authedFetch, memoryVars, history
  <2>2. CASE AfterRefresh(c) \/ AfterVerify(c) \/ Answered(c)
    BY <2>2 DEF AfterRefresh, AfterVerify, Answered, memoryVars, history
  <2>3. CASE Answered401(c)
    <3>1. UNCHANGED <<memory, cell, writes, current, lastWrite, grants, signIns>>
      BY <2>3 DEF Answered401, SetAccess, memoryVars, history
    <3>2. UNCHANGED refresh \/ JoinRefresh(c, "forcing", FALSE)
      BY <2>3 DEF Answered401
    <3> QED
      BY <3>1, <3>2, JoinKeeps
  <2>4. CASE AfterForce(c)
    <3>1. UNCHANGED refresh \/ ResolveBearer(c, TRUE)
      BY <2>4 DEF AfterForce
    <3> QED
      BY <1>1, <2>4, <3>1 DEF AfterForce, memoryVars, history
  <2> QED
    BY <2>1, <2>2, <2>3, <2>4
<1> QED
  BY <1>2, FlightsStep

\* A flight that asked settles without a grant.
LEMMA AnswerStep ==
    ASSUME Shape, FollowInv, NEW s \in DOMAIN grants,
           RefreshRefused(s) \/ SessionRejected(s) \/ SessionUnreachable(s)
    PROVE  FollowInv' /\ memory' = memory
<1>1. UNCHANGED <<memory, cell, writes, current, lastWrite, grants, signIns>>
  BY DEF RefreshRefused, RefreshFails, SessionRejected, SessionUnreachable, SetAccess,
     memoryVars, history
<1>2. \A r \in Session : refresh[r].at = "writing" => refresh'[r] = refresh[r]
  <2>1. CASE RefreshRefused(s)
    <3>1. /\ refresh[s].at = "asking" /\ refresh \in [Session -> FlightRecord]
          /\ refresh' = [refresh EXCEPT ![s] = [at |-> "idle", next |-> None]]
      BY <2>1 DEF RefreshRefused, RefreshFails, Shape
    <3> QED
      BY <3>1
  <2>2. CASE SessionRejected(s) \/ SessionUnreachable(s)
    BY <2>2 DEF SessionRejected, SessionUnreachable
  <2> QED
    BY <2>1, <2>2
<1> QED
  BY <1>1, <1>2, FlightsStep

\* /api/session has named the owner of a session.
LEMMA SessionReadStep ==
    ASSUME Shape, FollowInv, NEW s \in DOMAIN grants, SessionRead(s)
    PROVE  FollowInv' /\ memory' \in {None, memory}
<1>1. UNCHANGED <<grants, cell, refresh, signIns, lastWrite>> /\ s \in Nat
  BY GrantsAre DEF SessionRead
<1>2. CASE Forget /\ Write(None, <<"verify", s>>) /\ current' = None
  BY <1>1, <1>2, ClearStep DEF Forget
<1>3. CASE UNCHANGED <<memory, current, writes>>
  BY <1>1, <1>3, FlightsStep
<1> QED
  BY <1>2, <1>3 DEF SessionRead, SetAccess, memoryVars

\* A sign-in that goes no further.
LEMMA SignInEnds ==
    ASSUME Shape, FollowInv, NEW i \in DOMAIN signIns, LaunchEnds(i) \/ SignInReadFails(i)
    PROVE  FollowInv' /\ memory' = memory
<1>1. /\ signIns[i].at \in {"launching", "reading"} /\ SignInStep(i, "over")
      /\ UNCHANGED <<memory, cell, writes, current, lastWrite, grants, refresh>>
      /\ Grown /\ Known /\ CurrentInv
  BY DEF LaunchEnds, SignInReadFails, memoryVars, history, Grown, FollowInv
<1>2. /\ DOMAIN signIns' = DOMAIN signIns
      /\ \A k \in DOMAIN signIns : k # i => signIns'[k] = signIns[k]
      /\ signIns'[i].at = "over"
  BY <1>1, SignInMoves DEF SignInAt
<1>3. ASSUME current # None PROVE Underway'
  <2>1. Underway /\ current' \in DOMAIN signIns'
    BY <1>1, <1>2, <1>3 DEF CurrentInv, Underway
  <2>2. CASE current = i
    BY <1>1, <1>2, <2>1, <2>2 DEF Underway
  <2>3. CASE current # i
    BY <1>1, <1>2, <2>1, <2>3, UnderwayStays DEF Underway
  <2> QED
    BY <2>2, <2>3
<1> QED
  BY <1>1, <1>2, <1>3, QuietStep

\* A launched sign-in has its grant and asks /api/session about it.
LEMMA LaunchStep ==
    ASSUME Shape, FollowInv, NEW i \in DOMAIN signIns, LaunchCompletes(i)
    PROVE  FollowInv' /\ memory' = memory
<1>1. /\ signIns[i].at = "launching" /\ current = i
      /\ UNCHANGED <<memory, cell, writes, current, lastWrite, refresh>>
      /\ Known /\ CurrentInv
  BY DEF LaunchCompletes, memoryVars, history, FollowInv
<1>2. Grown /\ Len(grants') \in DOMAIN grants'
  <2>1. PICK p \in Principal : Issue(p, p)
    BY DEF LaunchCompletes
  <2> QED
    BY <2>1, IssueGrows
<1>3. PICK n : n = Len(grants')
  OBVIOUS
<1>4. /\ DOMAIN signIns' = DOMAIN signIns
      /\ \A k \in DOMAIN signIns : k # i => signIns'[k] = signIns[k]
      /\ signIns'[i].at = "reading" /\ signIns'[i].grant = n /\ signIns'[i].previous = memory
  BY <1>3 DEF LaunchCompletes, Shape
<1>5. Underway'
  <2>1. memory # None => memory \in DOMAIN grants
    BY <1>1 DEF Known, Stored
  <2> QED
    BY <1>1, <1>2, <1>3, <1>4, <2>1 DEF Underway, SamePrincipal, Grown
<1> QED
  BY <1>1, <1>2, <1>4, <1>5, QuietStep

\* A sign-in begins: no write of the one before it is behind all others.
LEMMA StartStep ==
    ASSUME Shape, FollowInv, startSignIn
    PROVE  FollowInv' /\ memory' = memory
<1>1. /\ UNCHANGED <<memory, cell, writes, lastWrite, grants, refresh>>
      /\ current # None => signIns[current].at = "over"
      /\ Grown /\ Known /\ QueueOwned /\ LastFollows /\ CellFollowsMemory
  BY DEF startSignIn, memoryVars, Grown, FollowInv
<1>2. PICK new \in SignInRecord : new = [at |-> "launching", grant |-> None, previous |-> None]
  BY DEF SignInRecord, SignInAt, None
<1>3. /\ signIns \in Seq(SignInRecord) /\ signIns' = Append(signIns, new)
      /\ current' = Len(signIns') /\ new.at = "launching"
  BY <1>2 DEF startSignIn, Shape
<1>4. /\ \A k \in DOMAIN signIns : signIns'[k] = signIns[k] /\ k # current'
      /\ current' \in DOMAIN signIns' /\ signIns'[current'].at = "launching"
  BY <1>3
<1>5. ASSUME NEW k \in DOMAIN writes
      PROVE  /\ Owned(writes[k])' /\ Owned(writes[k])
             /\ writes[k].by[1] = "signIn" => writes[k].by[2] \in DOMAIN signIns
  <2>1. PICK v : v = writes[k]
    OBVIOUS
  <2>2. Owned(v) /\ (v.by[1] = "signIn" => v.by[2] \in DOMAIN signIns)
    BY <1>1, <1>5, <2>1 DEF QueueOwned, Shape, QueueShape
  <2>3. Owned(v)'
    BY <1>1, <1>4, <2>2, OwnedStays
  <2> QED
    BY <1>1, <2>1, <2>2, <2>3 DEF Owned
<1>6. QueueOwned'
  <2>1. \A k \in DOMAIN writes' : Owned(writes[k])'
    BY <1>1, <1>5
  <2>2. \A k, j \in DOMAIN writes' :
            writes'[k].by[1] \in {"refresh", "signIn"} /\ SameOwner(writes'[j], writes'[k])
                => j = k
    BY <1>1 DEF QueueOwned
  <2> QED
    BY <2>1, <2>2, OwnedQueue
<1>7. CurrentInv'
  BY <1>1, <1>4, <1>5 DEF CurrentInv, Underway, RefreshesBehind
<1>8. LastFollows'
  <2> SUFFICES ASSUME writes # <<>> PROVE Follows(writes[Len(writes)])'
    BY <1>1 DEF LastFollows
  <2>1. writes \in Seq(WriteRecord)
    BY DEF Shape, QueueShape
  <2>2. Len(writes) \in DOMAIN writes
    BY <2>1
  <2>3. PICK v : v = writes[Len(writes)]
    OBVIOUS
  <2>4. /\ Follows(v) /\ Owned(v)
        /\ v.by[1] = "signIn" => v.by[2] \in DOMAIN signIns
    BY <1>1, <1>5, <2>2, <2>3 DEF LastFollows
  <2>5. v.by[1] = "signIn" => v.value = None
    <3>1. \A k \in DOMAIN signIns : k # None
      BY GrantsAre
    <3> QED
      BY <1>1, <2>4, <3>1 DEF Follows, Owned
  <2> QED
    BY <1>1, <2>3, <2>4, <2>5 DEF Follows, SamePrincipal
<1>9. Known' /\ CellFollowsMemory'
  BY <1>1 DEF Known, Stored, CellFollowsMemory
<1> QED
  BY <1>1, <1>6, <1>7, <1>8, <1>9 DEF FollowInv

\* What a write leaves behind it goes to whoever queued it.
LEMMA SettleStep ==
    ASSUME Shape, FollowInv, WriteSettles
    PROVE  /\ FollowInv'
           /\ memory = None \/ memory' = None \/ SamePrincipal(memory, memory')
<1>1. PICK w : w = Head(writes)
  OBVIOUS
<1>2. /\ writes # <<>> /\ cell' = w.value /\ UNCHANGED <<grants, current>>
      /\ Grown /\ Known /\ QueueOwned /\ CurrentInv
  BY <1>1 DEF WriteSettles, Grown, FollowInv
<1>3. /\ w \in WriteRecord /\ Owned(w)
      /\ w.by[1] = "refresh" => w.by[2] \in Session
      /\ w.by[1] = "signIn" => w.by[2] \in DOMAIN signIns
  <2>1. writes \in Seq(WriteRecord) /\ 1 \in DOMAIN writes /\ w = writes[1]
    BY <1>1, <1>2, TailWrite DEF Shape, QueueShape
  <2> QED
    BY <1>2, <2>1 DEF QueueOwned, Shape, QueueShape
<1>4. \/ /\ w.by[1] = "refresh" /\ RefreshWritten(w.by[2])
         /\ writes' = Tail(writes) /\ UNCHANGED signIns
      \/ /\ w.by[1] = "signIn" /\ SignInWritten(w.by[2]) /\ UNCHANGED refresh
      \/ /\ w.by[1] \in {"verify", "signOut"}
         /\ writes' = Tail(writes) /\ UNCHANGED <<memory, refresh, signIns>>
  BY <1>1 DEF WriteSettles, memoryVars
<1>5. CASE /\ w.by[1] = "refresh" /\ RefreshWritten(w.by[2])
           /\ writes' = Tail(writes) /\ UNCHANGED signIns
  <2>1. \A s \in Session : refresh'[s] = refresh[s] \/ (w.by[1] = "refresh" /\ w.by[2] = s)
    <3>1. refresh' = [refresh EXCEPT ![w.by[2]] = [at |-> "idle", next |-> None]]
      BY <1>5 DEF RefreshWritten
    <3>2. refresh \in [Session -> FlightRecord]
      BY DEF Shape
    <3> QED
      BY <1>5, <3>1, <3>2
  <2>2. Keeps
    <3>1. CASE memory = w.by[2]
      <4>1. /\ memory' = w.value /\ w.value \in DOMAIN grants /\ memory \in DOMAIN grants
            /\ SamePrincipal(memory, w.value)
        BY <1>3, <1>5, <3>1 DEF RefreshWritten, Install, Owned
      <4> QED
        BY <4>1, GrantsAre DEF Keeps
    <3>2. CASE memory # w.by[2]
      BY <1>5, <3>2 DEF RefreshWritten, memoryVars, Keeps
    <3> QED
      BY <3>1, <3>2
  <2>3. current # None => Underway'
    BY <1>2, <1>5, <2>2, UnderwayStays DEF CurrentInv, Underway, Keeps
  <2>4. FollowInv'
    BY <1>1, <1>2, <1>5, <2>1, <2>2, <2>3, SettledTail
  <2> QED
    BY <2>2, <2>4 DEF Keeps, SamePrincipal
<1>6. CASE w.by[1] = "signIn" /\ SignInWritten(w.by[2]) /\ UNCHANGED refresh
  <2>1. PICK i \in DOMAIN signIns : i = w.by[2]
    BY <1>3, <1>6
  <2>2. CASE current # i
    <3>1. SignInStep(i, "over") /\ memory' = memory /\ writes' = Tail(writes)
      BY <1>6, <2>1, <2>2 DEF SignInWritten, memoryVars
    <3>2. /\ DOMAIN signIns' = DOMAIN signIns
          /\ \A k \in DOMAIN signIns : k # i => signIns'[k] = signIns[k]
      BY <3>1, SignInMoves DEF SignInAt
    <3>3. current # None => Underway'
      BY <1>2, <2>2, <3>1, <3>2, UnderwayStays DEF CurrentInv, Underway
    <3>4. Keeps
      BY <3>1 DEF Keeps
    <3>5. FollowInv'
      BY <1>1, <1>2, <1>6, <2>1, <2>2, <3>1, <3>2, <3>3, <3>4, SettledTail
    <3> QED
      BY <3>1, <3>5 DEF SamePrincipal
  <2>3. CASE current = i /\ signIns[i].at = "clearing"
    <3>1. /\ SignInStep(i, "writing") /\ memory' = memory
          /\ writes' = Append(Tail(writes),
                              [value |-> signIns[i].grant, by |-> <<"signIn", i>>])
      BY <1>6, <2>1, <2>3 DEF SignInWritten, memoryVars
    <3>2. FollowInv'
      BY <1>1, <1>2, <1>6, <2>1, <2>3, <3>1, ClearedStep
    <3> QED
      BY <3>1, <3>2 DEF SamePrincipal
  <2>4. CASE current = i /\ signIns[i].at # "clearing"
    <3>1. SignInStep(i, "over") /\ memory' = signIns[i].grant /\ writes' = Tail(writes)
      BY <1>6, <2>1, <2>4 DEF SignInWritten, Install
    <3> QED
      BY <1>1, <1>2, <1>6, <2>1, <2>4, <3>1, InstalledStep
  <2> QED
    BY <2>2, <2>3, <2>4
<1>7. CASE /\ w.by[1] \in {"verify", "signOut"}
           /\ writes' = Tail(writes) /\ UNCHANGED <<memory, refresh, signIns>>
  <2>1. Keeps /\ (current # None => Underway')
    BY <1>2, <1>7 DEF Keeps, CurrentInv, Underway, SamePrincipal
  <2>2. FollowInv'
    BY <1>1, <1>2, <1>7, <2>1, SettledTail
  <2> QED
    BY <1>7, <2>2 DEF SamePrincipal
<1> QED
  BY <1>4, <1>5, <1>6, <1>7

\* A write the storage refuses leaves it as it was.
LEMMA FailStep ==
    ASSUME Shape, FollowInv, WriteFails
    PROVE  FollowInv' /\ memory' = memory
<1>1. PICK w : w = Head(writes)
  OBVIOUS
<1>2. /\ writes # <<>> /\ writes' = Tail(writes) /\ lastWrite' = "failed"
      /\ UNCHANGED <<grants, cell, current>>
      /\ Grown /\ Known /\ QueueOwned /\ CurrentInv
  BY <1>1 DEF WriteFails, Grown, FollowInv
<1>3. w.by[1] = "signIn" => w.by[2] \in DOMAIN signIns
  <2>1. writes \in Seq(WriteRecord) /\ 1 \in DOMAIN writes /\ w = writes[1]
    BY <1>1, <1>2, TailWrite DEF Shape, QueueShape
  <2> QED
    BY <1>2, <2>1 DEF Shape, QueueShape
<1>4. /\ memory' = memory
      /\ \/ w.by[1] = "refresh" /\ RefreshFails(w.by[2]) /\ UNCHANGED signIns
         \/ w.by[1] = "signIn" /\ SignInStep(w.by[2], "over") /\ UNCHANGED refresh
         \/ UNCHANGED <<refresh, signIns>>
  BY <1>1 DEF WriteFails, RefreshFails, SetAccess, memoryVars
<1>5. Keeps
  BY <1>4 DEF Keeps
<1>6. \A s \in Session : refresh'[s] = refresh[s] \/ (w.by[1] = "refresh" /\ w.by[2] = s)
  <2>1. CASE w.by[1] = "refresh" /\ RefreshFails(w.by[2])
    <3>1. refresh' = [refresh EXCEPT ![w.by[2]] = [at |-> "idle", next |-> None]]
      BY <2>1 DEF RefreshFails
    <3>2. refresh \in [Session -> FlightRecord]
      BY DEF Shape
    <3> QED
      BY <2>1, <3>1, <3>2
  <2> QED
    BY <1>4, <2>1
<1>7. /\ \A i \in DOMAIN signIns :
            signIns'[i] = signIns[i] \/ (w.by[1] = "signIn" /\ w.by[2] = i)
      /\ current # None => Underway'
  <2>1. CASE UNCHANGED signIns
    BY <1>2, <1>4, <2>1 DEF CurrentInv, Underway, SamePrincipal
  <2>2. CASE w.by[1] = "signIn" /\ SignInStep(w.by[2], "over")
    <3>1. PICK i \in DOMAIN signIns : i = w.by[2]
      BY <1>3, <2>2
    <3>2. /\ DOMAIN signIns' = DOMAIN signIns
          /\ \A k \in DOMAIN signIns : k # i => signIns'[k] = signIns[k]
          /\ signIns'[i].at = "over"
      BY <2>2, <3>1, SignInMoves DEF SignInAt
    <3>3. ASSUME current # None PROVE Underway'
      <4>1. Underway /\ current' \in DOMAIN signIns'
        BY <1>2, <3>2, <3>3 DEF CurrentInv, Underway
      <4>2. CASE current = i
        BY <1>2, <3>2, <4>1, <4>2 DEF Underway
      <4>3. CASE current # i
        BY <1>2, <1>4, <3>2, <4>1, <4>3, UnderwayStays DEF Underway
      <4> QED
        BY <4>2, <4>3
    <3> QED
      BY <2>2, <3>1, <3>2, <3>3
  <2> QED
    BY <1>4, <2>1, <2>2
<1> QED
  BY <1>1, <1>2, <1>4, <1>5, <1>6, <1>7, SettledTail

\* A reload starts over from what the storage holds.
LEMMA ReloadStep ==
    ASSUME Shape, FollowInv, Restart
    PROVE  FollowInv'
<1>1. memory' = cell /\ writes' = <<>> /\ current' = None /\ UNCHANGED <<grants, cell>>
  BY DEF Restart
<1>2. Known' /\ QueueOwned' /\ CurrentInv' /\ LastFollows'
  BY <1>1 DEF Known, QueueOwned, CurrentInv, LastFollows, FollowInv, Stored
<1> QED
  BY <1>1, <1>2 DEF FollowInv, CellFollowsMemory

\* At the start the queue is empty and memory is what the storage holds.
LEMMA FollowInit == Init => FollowInv
<1> SUFFICES ASSUME Init PROVE FollowInv
  OBVIOUS
<1>1. memory = cell /\ writes = <<>> /\ current = None /\ cell \in Stored
  BY DEF Init, Stored, None
<1>2. Known /\ QueueOwned /\ CurrentInv /\ LastFollows
  BY <1>1 DEF Known, QueueOwned, CurrentInv, LastFollows
<1> QED
  BY <1>1, <1>2 DEF FollowInv, CellFollowsMemory

\* Every step keeps the invariant, and all but a reload keep the principal.
LEMMA FollowStep ==
    ASSUME Shape, FollowInv, [Next]_vars
    PROVE  /\ FollowInv'
           /\ Restart \/ memory = None \/ memory' = None \/ SamePrincipal(memory, memory')
<1>0. memory' = memory => SamePrincipal(memory, memory')
  BY DEF SamePrincipal
<1>1. ASSUME NEW c \in Caller,
             \/ authedFetch(c) \/ AfterRefresh(c) \/ AfterVerify(c)
             \/ Answered(c) \/ Answered401(c) \/ AfterForce(c)
      PROVE  FollowInv' /\ memory' = memory
  BY <1>1, RequestStep
<1>2. ASSUME NEW s \in DOMAIN grants, RefreshGranted(s)
      PROVE  FollowInv' /\ memory' = memory
  BY <1>2, GrantedStep DEF RefreshGranted, memoryVars
<1>3. ASSUME NEW s \in DOMAIN grants,
             RefreshRefused(s) \/ SessionRejected(s) \/ SessionUnreachable(s)
      PROVE  FollowInv' /\ memory' = memory
  BY <1>3, AnswerStep
<1>4. ASSUME NEW s \in DOMAIN grants, SessionRead(s)
      PROVE  FollowInv' /\ memory' \in {None, memory}
  BY <1>4, SessionReadStep
<1>5. ASSUME startSignIn
      PROVE  FollowInv' /\ memory' = memory
  BY <1>5, StartStep
<1>6. ASSUME signOut
      PROVE  FollowInv' /\ memory' = None
  BY <1>6, ClearStep DEF signOut, Forget
<1>7. ASSUME NEW i \in DOMAIN signIns, LaunchEnds(i) \/ SignInReadFails(i)
      PROVE  FollowInv' /\ memory' = memory
  BY <1>7, SignInEnds
<1>8. ASSUME NEW i \in DOMAIN signIns, LaunchCompletes(i)
      PROVE  FollowInv' /\ memory' = memory
  BY <1>8, LaunchStep
<1>9. ASSUME NEW i \in DOMAIN signIns, SignInRead(i)
      PROVE  FollowInv' /\ memory' \in {None, memory}
  BY <1>9, SignInReadStep DEF SignInRead, Forget, memoryVars
<1>10. ASSUME WriteSettles
       PROVE  /\ FollowInv'
              /\ memory = None \/ memory' = None \/ SamePrincipal(memory, memory')
  BY <1>10, SettleStep
<1>11. ASSUME WriteFails
       PROVE  FollowInv' /\ memory' = memory
  BY <1>11, FailStep
<1>12. ASSUME Restart
       PROVE  FollowInv'
  BY <1>12, ReloadStep
<1>13. ASSUME UNCHANGED vars
       PROVE  FollowInv' /\ memory' = memory
  BY <1>13, FlightsStep DEF vars
<1> QED
  BY <1>0, <1>1, <1>2, <1>3, <1>4, <1>5, <1>6, <1>7, <1>8, <1>9, <1>10, <1>11, <1>12, <1>13
  DEF Next

\* Shapes and the invariant hold always.
LEMMA FollowInvariant == Spec => [](Shape /\ FollowInv)
<1>1. Init => Shape /\ FollowInv
  BY ShapeInit, FollowInit
<1>2. Shape /\ FollowInv /\ [Next]_vars => (Shape /\ FollowInv)'
  BY ShapeStep, FollowStep
<1> QED
  BY <1>1, <1>2, PTL DEF Spec

\* With the queue settled and its last write stored, the storage holds a session of the
\* very principal who is signed in, and nothing when nobody is: what runtimeState and
\* persistedAuthStorage hold in create-oauth-app-auth.ts never part.
THEOREM StorageFollowsMemory == Spec => []CellFollowsMemory
<1>1. Shape /\ FollowInv => CellFollowsMemory
  BY DEF FollowInv
<1> QED
  BY <1>1, FollowInvariant, PTL

\* A reload is counted.
BoundShape == bound \in [outs : Nat, failures : Nat, restarts : Nat]

\* The counts are of sign-outs, failures and reloads.
LEMMA BoundInv == Spec => []BoundShape
<1>1. Init => BoundShape
  BY DEF Init, BoundShape
<1>2. ASSUME BoundShape, [Next]_vars PROVE BoundShape'
  <2>1. CASE signOut \/ WriteFails \/ Restart
    <3>1. \/ bound' = [bound EXCEPT !.outs = @ + 1]
          \/ bound' = [bound EXCEPT !.failures = @ + 1]
          \/ bound' = [bound EXCEPT !.restarts = @ + 1]
      BY <2>1 DEF signOut, WriteFails, Restart
    <3> QED
      BY <1>2, <3>1 DEF BoundShape
  <2>2. CASE UNCHANGED bound
    BY <1>2, <2>2 DEF BoundShape
  <2>3. UNCHANGED bound \/ signOut \/ WriteFails \/ Restart
    BY <1>2 DEF Next, vars, authedFetch, AfterRefresh, AfterVerify, Answered, Answered401,
       AfterForce, RefreshGranted, RefreshRefused, SessionRejected, SessionUnreachable,
       SessionRead, startSignIn, LaunchEnds, LaunchCompletes, SignInRead, SignInReadFails,
       WriteSettles
  <2> QED
    BY <2>1, <2>2, <2>3
<1> QED
  BY <1>1, <1>2, PTL DEF Spec

\* But for a reload, the session in memory is never replaced by one of another principal:
\* memory is empty in between, which is what lets the subscribers of createOAuthAppAuth
\* tear a workspace down before the next one opens.
THEOREM PrincipalsNeverSwitch == Spec => NoDirectPrincipalSwitch
<1>1. ASSUME Shape, FollowInv, BoundShape, [Next]_vars
      PROVE  [memory # None /\ memory' # None /\ bound'.restarts = bound.restarts
                 => grants[memory].principal = grants[memory'].principal]_vars
  <2>1. Restart => bound'.restarts # bound.restarts
    BY <1>1 DEF Restart, BoundShape
  <2>2. Restart \/ memory = None \/ memory' = None \/ SamePrincipal(memory, memory')
    BY <1>1, FollowStep
  <2> QED
    BY <2>1, <2>2 DEF SamePrincipal
<1> QED
  BY <1>1, FollowInvariant, BoundInv, PTL DEF Spec, NoDirectPrincipalSwitch

=============================================================================
