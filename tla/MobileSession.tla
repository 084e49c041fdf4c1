--------------------------- MODULE MobileSession --------------------------
(***************************************************************************)
(* The mobile app's side of a session: the tokens it keeps in memory and   *)
(* in the keychain, the queue of keychain writes, the one refresh that     *)
(* several refused requests share, and what the user is shown.             *)
(*                                                                         *)
(* JavaScript runs one callback at a time; a step is what runs between two *)
(* awaits.  Logins are numbered as the server grants them, each one        *)
(* possibly to another account; a token is [login, gen], gen counting the  *)
(* rotations, and stands for the access or the refresh token of its pair.  *)
(* The server is JwtStrategy and JwtAuthService.refresh(), reduced to one  *)
(* step a request (Access has their interleavings).                        *)
(***************************************************************************)
EXTENDS Naturals, Sequences, FiniteSets

CONSTANTS
    Requests,     \* requests of the app in flight
    NoRequest,    \* none of them
    MaxLogin,     \* bound on the logins granted
    MaxExpiries,  \* bound on the access tokens that run out
    MaxFaults     \* bound on lost messages, keychain errors, crashes, locks

ASSUME MobileAssumption ==
    /\ MaxLogin \in Nat /\ MaxExpiries \in Nat /\ MaxFaults \in Nat
    /\ NoRequest \notin Requests

VARIABLES
    session,   \* the server's: live, the generation now good, the last expired
    issued,    \* logins granted
    reused,    \* the server has seen a refresh token twice
    locked,    \* logins whose account was suspended or banned since
    version,   \* sessionVersion
    cached,    \* cachedAccessToken
    keychain,  \* auth.access_token and auth.refresh_token
    writes,    \* pendingWrite: operations queued on the keychain
    status,    \* the session store's status
    account,   \* whose account it shows, 0 for none
    signing,   \* where useVerifyOtp() and signIn() stand
    req,       \* each request
    flight,    \* the refresh a request started
    current,   \* refreshInFlight
    left,      \* logins signed out of since the app was started
    expiries, faults

serverVars == <<session, issued, reused, locked>>
tokenVars == <<version, cached, keychain, writes>>
storeVars == <<status, account, signing>>
refreshVars == <<flight, current>>
bounds == <<expiries, faults>>
vars == <<serverVars, tokenVars, storeVars, req, refreshVars, left, bounds>>

Logins == 1..MaxLogin
Keys == {"access", "refresh"}
Tokens == [login : 0..MaxLogin, gen : Nat]
NoToken == [login |-> 0, gen |-> 0]

Idle == [phase |-> "idle", kind |-> "me", version |-> 0, token |-> NoToken,
         answer |-> "none", retried |-> FALSE, on |-> NoRequest]
NoFlight == [phase |-> "none", token |-> NoToken, answer |-> "none"]
NoSigning == [phase |-> "none", version |-> 0, token |-> NoToken]
Answers == {"none", "ok", "denied", "forbidden", "lost", "cancelled"}

\* What each of them looks like; todo: the keys an operation has still to write.
SessionStates == [live : BOOLEAN, gen : Nat, expired : Nat]
Operations ==
    [op : {"save", "signOut", "signIn"}, version : Nat, token : Tokens,
     by : Requests \cup {NoRequest}, todo : SUBSET Keys]
SigningStates ==
    [phase : {"none", "clearing", "saving"}, version : Nat, token : Tokens]
RequestStates ==
    [phase : {"idle", "sent", "answered", "waiting"}, kind : {"me", "logout"},
     version : Nat, token : Tokens, answer : Answers, retried : BOOLEAN,
     on : Requests \cup {NoRequest}]
FlightStates ==
    [phase : {"none", "read", "post", "answered", "saving", "done"},
     token : Tokens, answer : Answers]

MobileTypes ==
    /\ session \in [Logins -> SessionStates]
    /\ issued \in 0..MaxLogin /\ reused \in BOOLEAN /\ locked \subseteq Logins
    /\ version \in Nat /\ cached \in Tokens
    /\ keychain \in [Keys -> Tokens]
    /\ writes \in Seq(Operations)
    /\ status \in {"loading", "authenticated", "unauthenticated"}
    /\ account \in 0..MaxLogin
    /\ signing \in SigningStates
    /\ req \in [Requests -> RequestStates]
    /\ flight \in [Requests -> FlightStates]
    /\ current \in Requests \cup {NoRequest}
    /\ left \subseteq Logins
    /\ expiries \in 0..MaxExpiries /\ faults \in 0..MaxFaults

MobileTypeOK ==
    /\ MobileTypes
    /\ \A r \in Requests : req[r].phase = "waiting" =>
           flight[req[r].on].phase # "none"

MobileInit ==
    /\ session = [l \in Logins |-> [live |-> FALSE, gen |-> 0, expired |-> 0]]
    /\ issued = 0 /\ reused = FALSE /\ locked = {}
    /\ version = 0 /\ cached = NoToken
    /\ keychain = [k \in Keys |-> NoToken] /\ writes = << >>
    /\ status = "loading" /\ account = 0 /\ signing = NoSigning
    /\ req = [r \in Requests |-> Idle]
    /\ flight = [r \in Requests |-> NoFlight] /\ current = NoRequest
    /\ left = {} /\ expiries = 0 /\ faults = 0

\* One bound for what fails and for locks, which are no faults.
MoreFaults == faults + Cardinality(locked) < MaxFaults

Lose == MoreFaults /\ faults' = faults + 1
Keep == UNCHANGED faults

-----------------------------------------------------------------------------
(* The queue of keychain writes. *)

\* op: the save of a pair, the clear() of signOut() or the one of signIn().
Write(op, t, v, r) ==
    [op |-> op, version |-> v, token |-> t, by |-> r, todo |-> Keys]

\* Mutant: save() does not ask whether the session is still its own.
StaleNever(w) == FALSE

\* assertSession() in save(), before its writes and after them.
Stale(w) == w.op = "save" /\ w.version # version

\* runRefresh() learns how its save went.
Saved(w, answer) ==
    flight' = [flight EXCEPT ![w.by].phase = "done", ![w.by].answer = answer]

\* Mutant: a save refused before its writes never settles, and all that is
\* behind it in the queue waits.
RefuseAndStop ==
    /\ writes # << >> /\ Stale(Head(writes)) /\ Head(writes).todo = {}
    /\ writes' = Tail(writes) /\ Saved(Head(writes), "cancelled")
    /\ UNCHANGED <<serverVars, version, cached, keychain, storeVars, req,
                   current, left, bounds>>

\* A save for another session is refused, untouched or after its writes;
\* enqueueWrite() goes on with the next operation all the same.
RefuseSave ==
    /\ writes # << >> /\ Stale(Head(writes)) /\ Head(writes).todo \in {Keys, {}}
    /\ writes' = Tail(writes) /\ Saved(Head(writes), "cancelled")
    /\ UNCHANGED <<serverVars, version, cached, keychain, storeVars, req,
                   current, left, bounds>>

\* One key is set or removed; secureStorage swallows an error of setItem.
WriteKey(k) ==
    /\ writes # << >>
    /\ LET w == Head(writes) IN
       /\ k \in w.todo
       /\ w.todo = Keys => ~Stale(w)
       /\ writes' = [writes EXCEPT ![1].todo = @ \ {k}]
       /\ \/ keychain' = [keychain EXCEPT ![k] = w.token] /\ Keep
          \/ w.op = "save" /\ Lose /\ UNCHANGED keychain
    /\ UNCHANGED <<serverVars, version, cached, storeVars, req, refreshVars,
                   left, expiries>>

Written(w) == writes # << >> /\ w = Head(writes) /\ w.todo = {} /\ ~Stale(w)

\* save() of a refresh, or of signIn(), which then opens the app.
FinishSave ==
    /\ writes # << >> /\ Written(Head(writes)) /\ Head(writes).op = "save"
    /\ writes' = Tail(writes) /\ cached' = Head(writes).token
    /\ \/ Head(writes).by # NoRequest /\ Saved(Head(writes), "ok")
          /\ UNCHANGED storeVars
       \/ /\ Head(writes).by = NoRequest
          /\ status' = "authenticated" /\ account' = signing.token.login
          /\ signing' = NoSigning /\ UNCHANGED flight
    /\ UNCHANGED <<serverVars, version, keychain, req, current, left, bounds>>

\* clear() is done; signIn() was waiting for its own to save the new pair.
FinishClear ==
    /\ writes # << >> /\ Written(Head(writes)) /\ Head(writes).op # "save"
    /\ \/ /\ Head(writes).op = "signOut" /\ writes' = Tail(writes)
          /\ UNCHANGED signing
       \/ /\ Head(writes).op = "signIn"
          /\ writes' = Append(Tail(writes),
                 Write("save", signing.token, signing.version, NoRequest))
          /\ signing' = [signing EXCEPT !.phase = "saving"]
    /\ UNCHANGED <<serverVars, version, cached, keychain, status, account, req,
                   refreshVars, left, bounds>>

QueueStep ==
    RefuseSave \/ FinishSave \/ FinishClear \/ \E k \in Keys : WriteKey(k)

-----------------------------------------------------------------------------
(* The session store. *)

\* useAppBootstrap(): both keys are read; an error reads as nothing there.
Hydrate ==
    /\ status = "loading"
    /\ \E read \in {NoToken, keychain["access"]} :
         /\ IF read = keychain["access"] THEN Keep ELSE Lose
         /\ cached' = IF keychain["refresh"] = NoToken THEN NoToken ELSE read
         /\ status' = IF cached' = NoToken THEN "unauthenticated"
                                           ELSE "authenticated"
    /\ UNCHANGED <<serverVars, version, keychain, writes, account, signing, req,
                   refreshVars, left, expiries>>

\* useVerifyOtp(): the login is granted, and signIn() has what was kept cleared
\* under a new version before it saves; or the answer is lost.
SignIn ==
    /\ status = "unauthenticated" /\ signing = NoSigning /\ issued < MaxLogin
    /\ issued' = issued + 1
    /\ session' = [session EXCEPT ![issued'].live = TRUE, ![issued'].gen = 1]
    /\ \/ /\ version' = version + 1 /\ cached' = NoToken
          /\ writes' = Append(writes,
                              Write("signIn", NoToken, version', NoRequest))
          /\ signing' = [phase |-> "clearing", version |-> version',
                         token |-> [login |-> issued', gen |-> 1]]
          /\ Keep
       \/ Lose /\ UNCHANGED <<version, cached, writes, signing>>
    /\ UNCHANGED <<reused, locked, keychain, status, account, req, refreshVars,
                   left, expiries>>

\* signOut(): the tokens leave memory at once and the keychain in its turn.
SignOut ==
    /\ version' = version + 1 /\ cached' = NoToken
    /\ status' = "unauthenticated" /\ account' = 0
    /\ writes' = Append(writes, Write("signOut", NoToken, version', NoRequest))
    /\ left' = left \cup ({cached.login} \cap Logins)
    /\ UNCHANGED <<keychain, signing>>

StaySignedIn == UNCHANGED <<tokenVars, storeVars, left>>

\* endSession(): only once, whoever is first.
EndSession == IF cached = NoToken THEN StaySignedIn ELSE SignOut

\* Mutant: a logout that comes back signs out whoever is signed in.
LogoutAlways(r) == req[r].kind = "logout"

\* The finally of useLogout(): only the session that asked is signed out.
LogsOut(r) == req[r].kind = "logout" /\ req[r].version = version

Done(r) == req' = [req EXCEPT ![r] = Idle]

-----------------------------------------------------------------------------
(* Requests: GET /auth/me and POST /logout. *)

Begin(r, kind) ==
    /\ status = "authenticated" /\ req[r] = Idle
    /\ req' = [req EXCEPT ![r] = [Idle EXCEPT
           !.phase = "sent", !.kind = kind, !.version = version,
           !.token = cached]]
    /\ UNCHANGED <<serverVars, tokenVars, storeVars, refreshVars, left, bounds>>

Answered(r, answer) ==
    req' = [req EXCEPT ![r].phase = "answered", ![r].answer = answer]

Admitted(t) == session[t.login].live /\ t.gen > session[t.login].expired

\* 401 without the session, 403 for a locked account.  A locked one may be let
\* in all the same: the lock was lifted, or the cached account is older.
Answer(t) ==
    IF ~Admitted(t) THEN {"denied"}
    ELSE {"ok"} \cup (IF t.login \in locked THEN {"forbidden"} ELSE {})

\* The server's answer; what it did stays done when the answer is lost.
Serve(r) ==
    /\ req[r].phase = "sent"
    /\ \E answer \in Answer(req[r].token) :
       LET t == req[r].token IN
       /\ session' = IF answer = "ok" /\ req[r].kind = "logout"
                     THEN [session EXCEPT ![t.login].live = FALSE]
                     ELSE session
       /\ \/ Answered(r, answer) /\ Keep
          \/ Answered(r, "lost") /\ Lose
    /\ UNCHANGED <<issued, reused, locked, tokenVars, storeVars, refreshVars,
                   left, expiries>>

LoseRequest(r) ==
    /\ req[r].phase = "sent" /\ Answered(r, "lost") /\ Lose
    /\ UNCHANGED <<serverVars, tokenVars, storeVars, refreshVars, left,
                   expiries>>

Rest == UNCHANGED <<serverVars, refreshVars, bounds>>

\* An answer of an earlier session is dropped.
ReceiveStale(r) ==
    /\ req[r].phase = "answered" /\ req[r].version # version
    /\ Done(r)
    /\ IF LogsOut(r) THEN SignOut ELSE StaySignedIn
    /\ Rest

\* Mutant: an answer is taken for one of the session that stands now.
MineAlways(r) == req[r].phase = "answered"

\* An answer of the session that stands.
Mine(r) == req[r].phase = "answered" /\ req[r].version = version

\* What the interceptor acts upon: a 401, and of a replay a 403 as well.
Refused(r) ==
    \/ req[r].answer = "denied"
    \/ req[r].answer = "forbidden" /\ req[r].retried

\* setAccount() with what /auth/me says, or an error shown.
ReceiveMe(r) ==
    /\ Mine(r) /\ req[r].kind = "me" /\ ~Refused(r)
    /\ Done(r)
    /\ account' = IF req[r].answer = "ok" THEN req[r].token.login ELSE account
    /\ UNCHANGED <<tokenVars, status, signing, left>> /\ Rest

ReceiveLogout(r) ==
    /\ Mine(r) /\ req[r].kind = "logout" /\ ~Refused(r)
    /\ Done(r) /\ SignOut /\ Rest

\* A replay refused: the server has ended the session, or the account is locked
\* (POST /refresh does not look at that).
ReceiveSecondDenial(r) ==
    /\ Mine(r) /\ Refused(r) /\ req[r].retried
    /\ Done(r) /\ EndSession /\ Rest

\* Mutant: every refused request refreshes for itself.
SharesNothing(r) == FALSE

\* refreshTokens(): a refresh of this session is under way.
Shares(r) == current # NoRequest /\ req[current].version = req[r].version

\* A first 401: the request waits for a refresh, its own or the shared one.
ReceiveDenial(r) ==
    /\ Mine(r) /\ req[r].answer = "denied" /\ ~req[r].retried
    /\ req' = [req EXCEPT ![r].phase = "waiting", ![r].retried = TRUE,
           ![r].answer = "none", ![r].on = IF Shares(r) THEN current ELSE r]
    /\ IF Shares(r) THEN UNCHANGED refreshVars
       ELSE /\ flight' = [flight EXCEPT ![r].phase = "read"]
            /\ current' = r
    /\ UNCHANGED <<serverVars, tokenVars, storeVars, left, bounds>>

-----------------------------------------------------------------------------
(* The refresh a request has started. *)

Flies(r, phase) == flight[r].phase = phase /\ UNCHANGED <<req, current>>

FlightAnswered(r, answer, t) ==
    flight' = [flight EXCEPT ![r] =
        [phase |-> IF answer = "ok" THEN "answered" ELSE "done",
         answer |-> answer, token |-> t]]

\* runRefresh() reads the keychain, beside the queue; an error, like nothing
\* kept, reads as a session that has ended.
ReadRefreshToken(r) ==
    /\ Flies(r, "read")
    /\ \/ /\ req[r].version = version /\ keychain["refresh"] # NoToken
          /\ flight' = [flight EXCEPT ![r].phase = "post",
                                      ![r].token = keychain["refresh"]]
          /\ Keep
       \/ /\ req[r].version = version
          /\ IF keychain["refresh"] = NoToken THEN Keep ELSE Lose
          /\ FlightAnswered(r, "denied", NoToken)
       \/ req[r].version # version /\ FlightAnswered(r, "cancelled", NoToken)
          /\ Keep
    /\ UNCHANGED <<serverVars, tokenVars, storeVars, left, expiries>>

\* POST /refresh: the token is rotated; one rotated before ends the session.
ServeRefresh(r) ==
    LET t == flight[r].token
        s == session[t.login]
        good == s.live /\ t.gen = s.gen IN
    /\ Flies(r, "post")
    /\ session' = [session EXCEPT ![t.login].live = good,
                       ![t.login].gen = IF good THEN @ + 1 ELSE @]
    /\ reused' = (reused \/ (s.live /\ ~good))
    /\ \/ /\ FlightAnswered(r, IF good THEN "ok" ELSE "denied",
                            [t EXCEPT !.gen = IF good THEN @ + 1 ELSE @])
          /\ Keep
       \/ FlightAnswered(r, "lost", NoToken) /\ Lose
    /\ UNCHANGED <<issued, locked, tokenVars, storeVars, left, expiries>>

LoseRefresh(r) ==
    /\ Flies(r, "post") /\ FlightAnswered(r, "lost", NoToken) /\ Lose
    /\ UNCHANGED <<serverVars, tokenVars, storeVars, left, expiries>>

SaveRefreshed(r) ==
    /\ Flies(r, "answered")
    /\ flight' = [flight EXCEPT ![r].phase = "saving"]
    /\ writes' = Append(writes,
                        Write("save", flight[r].token, req[r].version, r))
    /\ UNCHANGED <<serverVars, version, cached, keychain, storeVars, left,
                   bounds>>

\* Mutant: a 401 of the refresh is taken for a passing error.
NeverDead(r) == FALSE

\* endSessionIfDead(): not for an error of the network, nor for a session gone.
Dead(r) == flight[r].answer = "denied" /\ req[r].version = version

Waits(q, r) == req[q].phase = "waiting" /\ req[q].on = r

\* Mutant: a refresh that is over is still shared.
NeverSettled(r) == current

Settled(r) == IF current = r THEN NoRequest ELSE current

\* The promise settles and all who wait for it go on at once: they are sent
\* again with the token kept now, or give up, a logout signing out.  (After
\* endSession() they wait for the queue as well, in a session already gone.)
EndFlight(r) ==
    LET replays(q) == flight[r].answer = "ok" /\ req[q].version = version IN
    /\ flight[r].phase = "done"
    /\ flight' = [flight EXCEPT ![r] = NoFlight]
    /\ current' = Settled(r)
    /\ req' = [q \in Requests |->
           IF ~Waits(q, r) THEN req[q]
           ELSE IF replays(q)
                THEN [req[q] EXCEPT !.phase = "sent", !.on = NoRequest,
                                    !.token = cached]
                ELSE Idle]
    /\ IF \/ Dead(r)
          \/ \E q \in Requests : Waits(q, r) /\ ~replays(q) /\ LogsOut(q)
       THEN EndSession ELSE StaySignedIn
    /\ UNCHANGED <<serverVars, bounds>>

-----------------------------------------------------------------------------
(* What the app does not decide. *)

\* The access tokens given so far run out.  A replay is answered within the
\* life of the token it was just given.
Expire(l) ==
    /\ session[l].live /\ session[l].expired < session[l].gen
    /\ expiries < MaxExpiries /\ expiries' = expiries + 1
    /\ \A r \in Requests : req[r].retried => req[r].token.login # l
    /\ session' = [session EXCEPT ![l].expired = session[l].gen]
    /\ UNCHANGED <<issued, reused, locked, tokenVars, storeVars, req,
                   refreshVars, left, faults>>

\* The session ends at the server: logged out elsewhere, locked, pushed out.
EndAtServer(l) ==
    /\ session[l].live
    /\ session' = [session EXCEPT ![l].live = FALSE]
    /\ UNCHANGED <<issued, reused, locked, tokenVars, storeVars, req,
                   refreshVars, left, bounds>>

\* The account of a session that stands is suspended or banned.  The session
\* goes after the status is saved (EndAtServer), or stays: Redis fails, or its
\* login was under way.
LockAccount(l) ==
    /\ session[l].live /\ l \notin locked /\ MoreFaults
    /\ locked' = locked \cup {l}
    /\ UNCHANGED <<session, issued, reused, tokenVars, storeVars, req,
                   refreshVars, left, bounds>>

\* The app is killed and started again: only the keychain is left.
Crash ==
    /\ Lose
    /\ version' = 0 /\ cached' = NoToken /\ writes' = << >>
    /\ status' = "loading" /\ account' = 0 /\ signing' = NoSigning
    /\ req' = [r \in Requests |-> Idle]
    /\ flight' = [r \in Requests |-> NoFlight] /\ current' = NoRequest
    /\ left' = {}
    /\ UNCHANGED <<serverVars, keychain, expiries>>

RequestStep(r) ==
    \/ Serve(r) \/ LoseRequest(r) \/ ReceiveStale(r) \/ ReceiveMe(r)
    \/ ReceiveLogout(r) \/ ReceiveSecondDenial(r) \/ ReceiveDenial(r)

FlightStep(r) ==
    \/ ReadRefreshToken(r) \/ ServeRefresh(r) \/ LoseRefresh(r)
    \/ SaveRefreshed(r) \/ EndFlight(r)

MobileNext ==
    \/ QueueStep \/ Hydrate \/ SignIn \/ Crash
    \/ \E r \in Requests :
         \/ \E kind \in {"me", "logout"} : Begin(r, kind)
         \/ RequestStep(r) \/ FlightStep(r)
    \/ \E l \in Logins : Expire(l) \/ EndAtServer(l) \/ LockAccount(l)

\* Every promise settles: requests have a timeout, the keychain answers.
MobileSpec ==
    /\ MobileInit /\ [][MobileNext]_vars
    /\ WF_vars(QueueStep)
    /\ \A r \in Requests : WF_vars(RequestStep(r) \/ FlightStep(r))

-----------------------------------------------------------------------------
(* Properties *)

\* The account on the screen is the one the tokens in memory were given to,
\* and once the queue is idle the keychain holds tokens of no other login,
\* whatever refresh, logout or /auth/me of an earlier session comes back late.
OneAccount ==
    /\ account # 0 => cached.login = account
    /\ writes = << >> /\ cached # NoToken =>
           \A k \in Keys : keychain[k].login \in {0, cached.login}

\* What was signed out of is in the keychain only until the queue has run: a
\* refresh that answers after the logout does not put its tokens back.
LeftIsForgotten ==
    writes = << >> => \A k \in Keys : keychain[k].login \notin left

\* The app itself never shows a refresh token twice: the server takes it for a
\* thief only when a message or a write was lost, or the app was killed.
OnlyLossIsReuse == reused => faults > 0

\* The user is signed out only when he asked to, when the server has ended the
\* session he is in, when his account is locked and a request of this session
\* got its 403 after a refresh (a first 403 leaves him in), or when something
\* was lost; never for what comes back of an earlier session.
SignedOutForAReason ==
    [][status = "authenticated" /\ status' = "unauthenticated" =>
          \/ ~session[cached.login].live
          \/ faults > 0
          \/ \E r \in Requests :
                /\ req[r].token.login = cached.login
                /\ \/ req[r].kind = "logout"
                   \/ /\ req[r].answer = "forbidden" /\ req[r].retried
                      /\ cached.login \in locked]_vars

\* Nobody waits for ever, neither on a shared refresh nor on the queue of
\* keychain writes a refused save has gone through.
EverybodyIsAnswered ==
    \A r \in Requests : req[r] # Idle ~> req[r] = Idle

\* A refresh begun in a session that the server has ended takes the user out
\* of it, unless something fails on the way.
DeadSessionIsLeft ==
    /\ status = "authenticated" /\ ~session[cached.login].live
    /\ ~MoreFaults
    /\ \E r \in Requests : flight[r].phase = "read" /\ req[r].version = version
    ~> status # "authenticated"
===========================================================================
