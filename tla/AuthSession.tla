------------------------------ MODULE AuthSession ------------------------------
(***************************************************************************)
(* The client's auth runtime (packages/auth/src/create-oauth-app-auth.ts): *)
(* one persisted session in memory and in a storage cell, refreshed,       *)
(* verified against /api/session, replaced by a sign-in and cleared by a   *)
(* sign-out, while requests that wait for any of these are under way.      *)
(*                                                                         *)
(* A persistedAuth object is the index of the grant it holds: the code     *)
(* compares these objects by identity, and each is made once.  An action   *)
(* is the code between two awaits; what resumes a function also runs it up *)
(* to its next await, except that callers sharing a flight are woken first *)
(* and run later.                                                          *)
(***************************************************************************)
EXTENDS Naturals, Sequences

CONSTANTS
    Caller,       \* requests the app makes through the client
    Principal,
    MaxGrants,    \* bound: grants ever issued
    MaxSignIns,   \* bound: calls of startSignIn that launch
    MaxSignOuts,  \* bound: calls of signOut
    MaxFailures,  \* bound: writes the storage refuses
    MaxRestarts   \* bound: reloads of the app

ASSUME AuthAssumption ==
    /\ MaxGrants \in Nat \ {0}
    /\ {MaxSignIns, MaxSignOuts, MaxFailures, MaxRestarts} \subseteq Nat

VARIABLES
    grants,      \* every grant: the principal recorded with it and the real owner
    memory,      \* runtimeState.persistedAuth, None when signed out
    access,      \* runtimeState.networkAccess
    cell,        \* what the storage holds
    writes,      \* storageWriteQueue: writes not yet settled, in order
    refresh,     \* per session, its refresh flight
    verify,      \* per session, its identity verification flight
    signIns,     \* the sign-ins begun
    current,     \* the one whose generation is signInGeneration, if any
    caller,      \* where each request is
    bound,       \* sign-outs, failures and restarts so far
    confirmed,   \* history: sessions /api/session confirmed since the start
    signedOut,   \* history: the last sign-out, "asked", "done" or superseded
    lastWrite    \* history: outcome of the last write

memoryVars == <<memory, access>>
history == <<confirmed, signedOut, lastWrite>>
vars == <<grants, memory, access, cell, writes, refresh, verify, signIns, current,
          caller, bound, confirmed, signedOut, lastWrite>>

None == 0
Session == 1..MaxGrants
Idle == [at |-> "idle", retry |-> FALSE, on |-> None, ok |-> FALSE]

Paused == memory # None /\ access = "paused"
SetAccess(a) == access' = a /\ UNCHANGED memory
Install(s, a) == memory' = s /\ access' = a
Forget == memory' = None /\ access' = "unverified"

Issue(principal, owner) ==
    /\ Len(grants) < MaxGrants
    /\ grants' = Append(grants, [principal |-> principal, owner |-> owner])

\* Bug: a write overtakes those not yet settled.
Write_Overtakes(value, by) == writes' = <<[value |-> value, by |-> by]>> \o writes

\* authSession.write and clear: `by` awaits the outcome.
Write(value, by) == writes' = Append(writes, [value |-> value, by |-> by])

\* A flight settles: every caller that awaits it resumes with its result.
Wake(at, s, next, ok) ==
    caller' = [c \in Caller |->
        IF caller[c].at = at /\ caller[c].on = s
        THEN [caller[c] EXCEPT !.at = next, !.ok = ok] ELSE caller[c]]

WakeRefreshed(s, ok) ==
    caller' = [c \in Caller |->
        IF caller[c].on = s /\ caller[c].at \in {"refreshing", "forcing"}
        THEN [caller[c] EXCEPT !.ok = ok,
                 !.at = IF caller[c].at = "forcing" THEN "forced" ELSE "refreshed"]
        ELSE caller[c]]

-----------------------------------------------------------------------------
\* A runtime over what the storage holds; the recorded principal may be wrong.
Init ==
    /\ \/ grants = <<>> /\ cell = None
       \/ \E p, q \in Principal :
             grants = <<[principal |-> p, owner |-> q]>> /\ cell \in {None, 1}
    /\ memory = cell
    /\ access = "unverified"
    /\ writes = <<>>
    /\ refresh = [s \in Session |-> [at |-> "idle", next |-> None]]
    /\ verify = [s \in Session |-> "idle"]
    /\ signIns = <<>>
    /\ current = None
    /\ caller = [c \in Caller |-> Idle]
    /\ bound = [outs |-> 0, failures |-> 0, restarts |-> 0]
    /\ confirmed = {}
    /\ signedOut = "superseded"
    /\ lastWrite = "ok"

-----------------------------------------------------------------------------
(* Requests: authedFetch, and openWebSocket as far as its bearer.          *)

\* refreshGrant once it has to ask: callers of one session share its flight.
JoinRefresh(c, at, retry) ==
    /\ caller' = [caller EXCEPT ![c] = [at |-> at, retry |-> retry, on |-> memory, ok |-> FALSE]]
    /\ refresh' = IF refresh[memory].at # "idle" THEN refresh
                  ELSE [refresh EXCEPT ![memory] = [at |-> "asking", next |-> None]]

Send(c, retry, token) ==
    caller' = [caller EXCEPT ![c] =
        [at |-> "requesting", retry |-> retry, on |-> token, ok |-> FALSE]]

\* bearerForNetwork up to its first await; whether the access token is about
\* to expire is up to the clock.
ResolveBearer(c, retry) ==
    \/ /\ memory = None \/ Paused
       /\ Send(c, retry, None)
       /\ UNCHANGED refresh
    \/ /\ memory # None /\ ~Paused
       /\ \/ JoinRefresh(c, "refreshing", retry)
          \/ /\ caller' = [caller EXCEPT ![c] =
                   [at |-> "refreshed", retry |-> retry, on |-> memory, ok |-> TRUE]]
             /\ UNCHANGED refresh

authedFetch(c) ==
    /\ caller[c].at = "idle"
    /\ ResolveBearer(c, FALSE)
    /\ UNCHANGED <<grants, memoryVars, cell, writes, verify, signIns, current, bound, history>>

\* bearerForNetwork behind its refresh.
AfterRefresh(c) ==
    /\ caller[c].at = "refreshed"
    /\ IF ~caller[c].ok \/ memory = None \/ Paused
       THEN Send(c, caller[c].retry, None) /\ UNCHANGED verify
       ELSE IF access = "verified"
       THEN Send(c, caller[c].retry, memory) /\ UNCHANGED verify
       ELSE /\ caller' = [caller EXCEPT ![c].at = "verifying", ![c].on = memory]
            /\ verify' = IF verify[memory] # "idle" THEN verify
                         ELSE [verify EXCEPT ![memory] = "asking"]
    /\ UNCHANGED <<grants, memoryVars, cell, writes, refresh, signIns, current, bound, history>>

\* bearerForNetwork behind its verification.
AfterVerify(c) ==
    /\ caller[c].at = "verified"
    /\ Send(c, caller[c].retry,
            IF caller[c].ok /\ memory # None /\ access = "verified" THEN memory ELSE None)
    /\ UNCHANGED <<grants, memoryVars, cell, writes, refresh, verify, signIns, current,
                   bound, history>>

\* The response, unless it is a 401.
Answered(c) ==
    /\ caller[c].at = "requesting"
    /\ caller' = [caller EXCEPT ![c] = Idle]
    /\ UNCHANGED <<grants, memoryVars, cell, writes, refresh, verify, signIns, current,
                   bound, history>>

\* A 401: refresh by force and retry once; a second one pauses the session in
\* memory, whichever that is by now.
Answered401(c) ==
    /\ caller[c].at = "requesting"
    /\ IF caller[c].retry
       THEN /\ caller' = [caller EXCEPT ![c] = Idle]
            /\ IF memory = None THEN UNCHANGED memoryVars ELSE SetAccess("paused")
            /\ UNCHANGED refresh
       ELSE /\ IF memory = None \/ Paused
               THEN caller' = [caller EXCEPT ![c] = Idle] /\ UNCHANGED refresh
               ELSE JoinRefresh(c, "forcing", FALSE)
            /\ UNCHANGED memoryVars
    /\ UNCHANGED <<grants, cell, writes, verify, signIns, current, bound, history>>

\* authedFetch behind its forced refresh.
AfterForce(c) ==
    /\ caller[c].at = "forced"
    /\ IF caller[c].ok
       THEN ResolveBearer(c, TRUE)
       ELSE caller' = [caller EXCEPT ![c] = Idle] /\ UNCHANGED refresh
    /\ UNCHANGED <<grants, memoryVars, cell, writes, verify, signIns, current, bound, history>>

-----------------------------------------------------------------------------
(* Flights                                                                 *)

\* Bug: the new grant is written whatever happened to the session meanwhile.
RefreshGranted_Unchecked(s) ==
    /\ refresh[s].at = "asking"
    /\ Issue(grants[s].principal, grants[s].owner)
    /\ Write(Len(grants'), <<"refresh", s>>)
    /\ refresh' = [refresh EXCEPT ![s] = [at |-> "writing", next |-> Len(grants')]]
    /\ UNCHANGED <<memoryVars, cell, verify, signIns, current, caller, bound, history>>

\* The token endpoint answers with a grant.
RefreshGranted(s) ==
    /\ refresh[s].at = "asking"
    /\ IF memory # s
       THEN /\ refresh' = [refresh EXCEPT ![s].at = "idle"]
            /\ WakeRefreshed(s, FALSE)
            /\ UNCHANGED <<grants, writes>>
       ELSE /\ Issue(grants[s].principal, grants[s].owner)
            /\ Write(Len(grants'), <<"refresh", s>>)
            /\ refresh' = [refresh EXCEPT ![s] = [at |-> "writing", next |-> Len(grants')]]
            /\ UNCHANGED caller
    /\ UNCHANGED <<memoryVars, cell, verify, signIns, current, bound, history>>

\* It refuses, cannot be reached, or its grant could not be written.
RefreshFails(s) ==
    /\ refresh' = [refresh EXCEPT ![s] = [at |-> "idle", next |-> None]]
    /\ WakeRefreshed(s, FALSE)
    /\ IF memory = s THEN SetAccess("paused") ELSE UNCHANGED memoryVars

RefreshRefused(s) ==
    /\ refresh[s].at = "asking"
    /\ RefreshFails(s)
    /\ UNCHANGED <<grants, cell, writes, verify, signIns, current, bound, history>>

\* The new grant is stored.
RefreshWritten(s) ==
    /\ refresh' = [refresh EXCEPT ![s] = [at |-> "idle", next |-> None]]
    /\ WakeRefreshed(s, memory = s)
    /\ IF memory = s THEN Install(refresh[s].next, "unverified") ELSE UNCHANGED memoryVars

SettleVerify(s, ok) ==
    /\ verify' = [verify EXCEPT ![s] = "idle"]
    /\ Wake("verifying", s, "verified", ok)

\* /api/session rejects the bearer (401, 403).
SessionRejected(s) ==
    /\ verify[s] = "asking"
    /\ SettleVerify(s, FALSE)
    /\ IF memory = s THEN SetAccess("paused") ELSE UNCHANGED memoryVars
    /\ UNCHANGED <<grants, cell, writes, refresh, signIns, current, bound, history>>

\* It cannot be reached, or its answer is of no use.
SessionUnreachable(s) ==
    /\ verify[s] = "asking"
    /\ SettleVerify(s, FALSE)
    /\ UNCHANGED <<grants, memoryVars, cell, writes, refresh, signIns, current, bound, history>>

\* Bug: the session in memory is marked without asking whether it is the same.
SessionRead_Unchecked(s) ==
    /\ verify[s] = "asking"
    /\ SettleVerify(s, TRUE)
    /\ IF memory # None THEN SetAccess("verified") ELSE UNCHANGED memoryVars
    /\ confirmed' = IF grants[s].principal = grants[s].owner
                    THEN confirmed \cup {s} ELSE confirmed
    /\ UNCHANGED <<grants, cell, writes, refresh, signIns, current, bound, signedOut, lastWrite>>

\* It names the owner: a session of somebody else is cleared, by
\* clearPersistedAuth, which also cancels a sign-in under way.
SessionRead(s) ==
    /\ verify[s] = "asking"
    /\ LET same == grants[s].principal = grants[s].owner
       IN  /\ confirmed' = IF same THEN confirmed \cup {s} ELSE confirmed
           /\ IF memory = s /\ ~same
              THEN /\ verify' = [verify EXCEPT ![s] = "clearing"]
                   /\ current' = None
                   /\ Forget
                   /\ Write(None, <<"verify", s>>)
                   /\ UNCHANGED caller
              ELSE /\ SettleVerify(s, TRUE)
                   /\ IF memory = s THEN SetAccess("verified") ELSE UNCHANGED memoryVars
                   /\ UNCHANGED <<current, writes>>
    /\ UNCHANGED <<grants, cell, refresh, signIns, bound, signedOut, lastWrite>>

-----------------------------------------------------------------------------
(* Sign-in and sign-out                                                    *)

SignInStep(i, at) == signIns' = [signIns EXCEPT ![i].at = at]

\* A call during a sign-in under way shares its promise.
startSignIn ==
    /\ Len(signIns) < MaxSignIns
    /\ current # None => signIns[current].at = "over"
    /\ signIns' = Append(signIns, [at |-> "launching", grant |-> None, previous |-> None])
    /\ current' = Len(signIns')
    /\ signedOut' = "superseded"
    /\ UNCHANGED <<grants, memoryVars, cell, writes, refresh, verify, caller, bound,
                   confirmed, lastWrite>>

\* The launcher fails, or leaves the rest to a redirect.
LaunchEnds(i) ==
    /\ signIns[i].at = "launching"
    /\ SignInStep(i, "over")
    /\ UNCHANGED <<grants, memoryVars, cell, writes, refresh, verify, current, caller,
                   bound, history>>

\* The launcher returns a grant: completeSignInWithGrant asks /api/session.
LaunchCompletes(i) ==
    /\ signIns[i].at = "launching"
    /\ current = i
    /\ \E p \in Principal : Issue(p, p)
    /\ signIns' = [signIns EXCEPT ![i] =
                      [at |-> "reading", grant |-> Len(grants'), previous |-> memory]]
    /\ UNCHANGED <<memoryVars, cell, writes, refresh, verify, current, caller, bound, history>>

\* Bug: a session of another principal is simply replaced.
SignInRead_NoClear(i) ==
    /\ signIns[i].at = "reading"
    /\ IF current # i
       THEN SignInStep(i, "over") /\ UNCHANGED writes
       ELSE SignInStep(i, "writing") /\ Write(signIns[i].grant, <<"signIn", i>>)
    /\ confirmed' = confirmed \cup {signIns[i].grant}
    /\ UNCHANGED <<grants, memoryVars, cell, refresh, verify, current, caller, bound,
                   signedOut, lastWrite>>

\* /api/session names the principal; a session of another one is cleared first.
SignInRead(i) ==
    /\ signIns[i].at = "reading"
    /\ LET previous == signIns[i].previous
       IN  IF current # i
           THEN SignInStep(i, "over") /\ UNCHANGED <<memoryVars, writes>>
           ELSE IF previous # None /\ grants[previous].principal # grants[signIns[i].grant].principal
           THEN /\ SignInStep(i, "clearing")
                /\ Forget
                /\ Write(None, <<"signIn", i>>)
           ELSE /\ SignInStep(i, "writing")
                /\ Write(signIns[i].grant, <<"signIn", i>>)
                /\ UNCHANGED memoryVars
    /\ confirmed' = confirmed \cup {signIns[i].grant}
    /\ UNCHANGED <<grants, cell, refresh, verify, current, caller, bound, signedOut, lastWrite>>

SignInReadFails(i) ==
    /\ signIns[i].at = "reading"
    /\ SignInStep(i, "over")
    /\ UNCHANGED <<grants, memoryVars, cell, writes, refresh, verify, current, caller,
                   bound, history>>

\* The clear or the write of a sign-in settled.
SignInWritten(i) ==
    IF current # i
    THEN SignInStep(i, "over") /\ UNCHANGED memoryVars /\ writes' = Tail(writes)
    ELSE IF signIns[i].at = "clearing"
    THEN /\ SignInStep(i, "writing")
         /\ writes' = Append(Tail(writes), [value |-> signIns[i].grant, by |-> <<"signIn", i>>])
         /\ UNCHANGED memoryVars
    ELSE /\ SignInStep(i, "over")
         /\ Install(signIns[i].grant, "verified")
         /\ writes' = Tail(writes)

\* signOut up to its await; the revocation behind it changes nothing here.
signOut ==
    /\ bound.outs < MaxSignOuts
    /\ bound' = [bound EXCEPT !.outs = @ + 1]
    /\ current' = None
    /\ Forget
    /\ Write(None, <<"signOut", 0>>)
    /\ signedOut' = "asked"
    /\ UNCHANGED <<grants, cell, refresh, verify, signIns, caller, confirmed, lastWrite>>

-----------------------------------------------------------------------------
(* Storage                                                                 *)

\* persistedAuthStorage.set resolves and whoever awaited it resumes.
WriteSettles ==
    /\ writes # <<>>
    /\ LET by == Head(writes).by
           i == by[2]
       IN  /\ cell' = Head(writes).value
           /\ \/ /\ by[1] = "refresh" /\ RefreshWritten(i)
                 /\ writes' = Tail(writes)
                 /\ UNCHANGED <<verify, signIns, signedOut>>
              \/ /\ by[1] = "verify" /\ SettleVerify(i, TRUE)
                 /\ writes' = Tail(writes)
                 /\ UNCHANGED <<memoryVars, refresh, signIns, signedOut>>
              \/ /\ by[1] = "signIn" /\ SignInWritten(i)
                 /\ UNCHANGED <<refresh, verify, caller, signedOut>>
              \/ /\ by[1] = "signOut"
                 /\ writes' = Tail(writes)
                 /\ signedOut' = IF signedOut = "asked" /\ by \notin {w.by : w \in
                                      {writes[k] : k \in 2..Len(writes)}}
                                 THEN "done" ELSE signedOut
                 /\ UNCHANGED <<memoryVars, refresh, verify, signIns, caller>>
    /\ lastWrite' = "ok"
    /\ UNCHANGED <<grants, current, bound, confirmed>>

\* It throws: a refresh pauses its session, the other callers just fail.
WriteFails ==
    /\ writes # <<>>
    /\ bound.failures < MaxFailures
    /\ bound' = [bound EXCEPT !.failures = @ + 1]
    /\ writes' = Tail(writes)
    /\ LET by == Head(writes).by
           i == by[2]
       IN  \/ /\ by[1] = "refresh" /\ RefreshFails(i)
              /\ UNCHANGED <<verify, signIns>>
           \/ /\ by[1] = "verify"
              /\ verify' = [verify EXCEPT ![i] = "idle"]
              /\ Wake("verifying", i, "idle", FALSE)
              /\ UNCHANGED <<memoryVars, refresh, signIns>>
           \/ /\ by[1] = "signIn" /\ SignInStep(i, "over")
              /\ UNCHANGED <<memoryVars, refresh, verify, caller>>
           \/ /\ by[1] = "signOut"
              /\ UNCHANGED <<memoryVars, refresh, verify, signIns, caller>>
    /\ lastWrite' = "failed"
    /\ UNCHANGED <<grants, cell, current, confirmed, signedOut>>

\* The app is closed or reloaded at any point; unsettled writes are lost.
Restart ==
    /\ bound.restarts < MaxRestarts
    /\ bound' = [bound EXCEPT !.restarts = @ + 1]
    /\ memory' = cell
    /\ access' = "unverified"
    /\ writes' = <<>>
    /\ refresh' = [s \in Session |-> [at |-> "idle", next |-> None]]
    /\ verify' = [s \in Session |-> "idle"]
    /\ signIns' = [i \in DOMAIN signIns |-> [signIns[i] EXCEPT !.at = "over"]]
    /\ current' = None
    /\ caller' = [c \in Caller |-> Idle]
    /\ confirmed' = {}
    /\ signedOut' = IF signedOut = "done" THEN "done" ELSE "superseded"
    /\ lastWrite' = "ok"
    /\ UNCHANGED <<grants, cell>>

Next ==
    \/ \E c \in Caller :
          \/ authedFetch(c) \/ AfterRefresh(c) \/ AfterVerify(c)
          \/ Answered(c) \/ Answered401(c) \/ AfterForce(c)
    \/ \E s \in DOMAIN grants :
          \/ RefreshGranted(s) \/ RefreshRefused(s)
          \/ SessionRejected(s) \/ SessionUnreachable(s) \/ SessionRead(s)
    \/ startSignIn \/ signOut
    \/ \E i \in DOMAIN signIns :
          LaunchEnds(i) \/ LaunchCompletes(i) \/ SignInRead(i) \/ SignInReadFails(i)
    \/ WriteSettles \/ WriteFails
    \/ Restart

Spec == Init /\ [][Next]_vars

-----------------------------------------------------------------------------
(* Properties                                                              *)

\* A bearer leaves this client only if /api/session has confirmed, in this
\* run of the app, the very session it belongs to ("Refuses to attach unless
\* /api/session has confirmed the current persisted auth in this runtime").
BearerConfirmed ==
    \A c \in Caller :
        caller[c].at = "requesting" /\ caller[c].on # None => caller[c].on \in confirmed

\* After a sign-out no refresh, verification or sign-in that was under way
\* brings a session back, neither in memory nor, once the sign-out returned, in
\* what the app starts from after a restart.
SignOutIsFinal ==
    /\ signedOut \in {"asked", "done"} => memory = None
    /\ signedOut = "done" => cell = None

\* When no write is under way and the last one succeeded, a restart finds the
\* identity that is in memory.
CellFollowsMemory ==
    writes = <<>> /\ lastWrite = "ok" =>
        \/ cell = None /\ memory = None
        \/ /\ cell # None /\ memory # None
           /\ grants[cell].principal = grants[memory].principal

\* The runtime never goes from one principal to another without being signed
\* out in between: subscribers tear a workspace down before the next opens.
NoDirectPrincipalSwitch ==
    [][memory # None /\ memory' # None /\ bound'.restarts = bound.restarts
        => grants[memory].principal = grants[memory'].principal]_vars

=============================================================================
