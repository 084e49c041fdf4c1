------------------------------- MODULE Access -----------------------------
(***************************************************************************)
(* Who is let in: the requests of one account against its sessions, its    *)
(* status in the database and the copy of that status in Redis.            *)
(*                                                                         *)
(* Requests run beside each other.  Each of JwtStrategy.validate(),        *)
(* JwtAuthService.refresh() and AuthController.verifyOtp() makes several   *)
(* calls, to Redis or to the database; a step is one of those calls, and   *)
(* what a request read stays with it.  Status changes by an administrator  *)
(* run beside them: save, then revokeAccess().                             *)
(***************************************************************************)
EXTENDS Session

CONSTANTS
    Requests,    \* requests in flight
    Enforced,    \* DEVICE_BINDING_ENFORCED
    MaxChanges,  \* bound on the status changes
    MaxFailures  \* bound on the status changes that fail half way

ASSUME AccessAssumption ==
    MaxChanges \in Nat /\ MaxFailures \in Nat /\ Enforced \in BOOLEAN

VARIABLES
    account,  \* accounts.status; locked: suspended, banned or deleted
    cache,    \* the account as AccountCacheService has it
    admin,    \* where a status change stands
    barred,   \* a lock has been answered with success and stands
    cutoff,   \* the last session when the standing lock ended them all
    changes, failures,
    req       \* what each request has in hand

accessVars == <<account, cache, admin, barred, cutoff, changes, failures, req>>
vars == <<sessionVars, accessVars>>

Statuses == {"active", "locked"}

\* at: what comes next.  device: what is still to be bound to the session.
\* jti: the refresh token shown.  read: the account as found in the database.
\* floor: the cutoff of the lock that stood when the request began, 0 for none.
ReqRows ==
    [at : {"idle", "login", "attach", "cache", "account", "fill", "touch",
           "attach refresh", "rotate", "reuse"},
     s : 0..MaxSession, device : Devices \cup {NoDevice}, jti : 0..MaxRotation,
     read : Statuses, floor : 0..MaxSession]
Idle == [at |-> "idle", s |-> 0, device |-> NoDevice, jti |-> 0,
         read |-> "active", floor |-> 0]

AccessTypeOK ==
    /\ SessionTypeOK
    /\ account \in Statuses
    /\ cache \in Statuses \cup {"none"}
    /\ admin \in {"idle", "revoke", "invalidate"}
    /\ barred \in BOOLEAN
    /\ cutoff \in 0..MaxSession
    /\ changes \in 0..MaxChanges
    /\ failures \in 0..MaxFailures
    /\ req \in [Requests -> ReqRows]
    /\ \A r \in Requests :
         req[r].at \in {"login", "attach", "attach refresh"} => req[r].device \in Devices

AccessInit ==
    /\ SessionInit
    /\ account = "active"
    /\ cache = "none"
    /\ admin = "idle"
    /\ barred = FALSE
    /\ cutoff = 0
    /\ changes = 0
    /\ failures = 0
    /\ req = [r \in Requests |-> Idle]

-----------------------------------------------------------------------------
(* Requests                                                                *)

Begin(r, at, s, d, k) ==
    /\ req[r] = Idle
    /\ req' = [req EXCEPT ![r] = [at |-> at, s |-> s, device |-> d, jti |-> k,
                                  read |-> "active", floor |-> IF barred THEN cutoff ELSE 0]]

Goes(r, at) == req' = [req EXCEPT ![r].at = at]
Ends(r) == req' = [req EXCEPT ![r] = Idle]
At(r, at) == req[r].at = at

RestOfAccess == UNCHANGED <<account, cache, admin, barred, cutoff, changes, failures>>

\* verifyOtp() finds the account usable.  It looks at the same copy again once
\* the code has been accepted.
BeginLogin(r, d) ==
    /\ account = "active"
    /\ Begin(r, "login", 0, d, 0)
    /\ RestOfAccess /\ UNCHANGED sessionVars

\* issueTokens(): login().
Login(r) ==
    /\ At(r, "login")
    /\ CreateSession(req[r].device)
    /\ Ends(r) /\ RestOfAccess

\* Mutant: a request without the header binds the session too.
NeedsAnyDevice(s, d) == sessions[s].device = NoDevice

\* checkDevice() on the session as read.
NeedsDevice(s, d) == d # NoDevice /\ sessions[s].device = NoDevice
WrongDevice(s, d) ==
    \/ d = NoDevice
    \/ sessions[s].device \notin {NoDevice, d}

\* validate() with an access token of s.
BeginRequest(r, s, d) ==
    /\ Loads(s)
    /\ ~(Enforced /\ WrongDevice(s, d))
    /\ IF NeedsDevice(s, d)
       THEN Begin(r, "attach", s, d, 0)
       ELSE Begin(r, "cache", s, NoDevice, 0)
    /\ RestOfAccess /\ UNCHANGED sessionVars

\* refresh() with the refresh token that was current after k rotations.
BeginRefresh(r, s, d, k) ==
    /\ Loads(s)
    /\ k <= sessions[s].jti
    /\ ~(Enforced /\ WrongDevice(s, d))
    /\ IF NeedsDevice(s, d)
       THEN Begin(r, "attach refresh", s, d, k)
       ELSE Begin(r, "rotate", s, NoDevice, k)
    /\ RestOfAccess /\ UNCHANGED sessionVars

Attach(r) ==
    /\ req[r].at \in {"attach", "attach refresh"}
    /\ IF CanAttach(req[r].s, req[r].device)
       THEN /\ AttachDevice(req[r].s, req[r].device)
            /\ req' = [req EXCEPT ![r].at = IF At(r, "attach") THEN "cache" ELSE "rotate",
                                  ![r].device = NoDevice]
       ELSE Ends(r) /\ UNCHANGED sessionVars
    /\ RestOfAccess

\* A read that fails counts as a miss.
ReadCache(r) ==
    /\ At(r, "cache")
    /\ \/ Goes(r, "account")
       \/ cache = "active" /\ Goes(r, "touch")
       \/ cache = "locked" /\ Ends(r)
    /\ RestOfAccess /\ UNCHANGED sessionVars

ReadAccount(r) ==
    /\ At(r, "account")
    /\ req' = [req EXCEPT ![r].at = "fill", ![r].read = account]
    /\ RestOfAccess /\ UNCHANGED sessionVars

\* The copy is kept, unless Redis fails, and its status looked at.
FillCache(r) ==
    /\ At(r, "fill")
    /\ cache' \in {cache, req[r].read}
    /\ IF req[r].read = "active" THEN Goes(r, "touch") ELSE Ends(r)
    /\ UNCHANGED <<account, admin, barred, cutoff, changes, failures, sessionVars>>

\* refreshSession(); refused when the session does not load any more.
Touch(r) ==
    /\ At(r, "touch")
    /\ TouchSession(req[r].s)
    /\ Ends(r) /\ RestOfAccess

\* Mutant: any token of the session is good for a rotation.
RotateAny(r) ==
    /\ At(r, "rotate")
    /\ IF Loads(req[r].s)
       THEN Save(req[r].s, [sessions[req[r].s] EXCEPT !.jti = MaxRotation])
       ELSE UNCHANGED sessionVars
    /\ Ends(r) /\ RestOfAccess

\* rotateJti(): missing, mismatch or a new pair.
Rotate(r) ==
    LET s == req[r].s IN
    /\ At(r, "rotate")
    /\ \/ ~Loads(s) /\ Ends(r) /\ UNCHANGED sessionVars
       \/ Loads(s) /\ sessions[s].jti # req[r].jti /\ Goes(r, "reuse") /\ UNCHANGED sessionVars
       \/ /\ Loads(s) /\ sessions[s].jti = req[r].jti
          /\ sessions[s].jti < MaxRotation
          /\ RotateJti(s)
          /\ Ends(r)
    /\ RestOfAccess

\* A token used again ends its session.
EndReused(r) ==
    /\ At(r, "reuse")
    /\ DeleteSession(req[r].s)
    /\ Ends(r) /\ RestOfAccess

-----------------------------------------------------------------------------
(* Sessions end                                                            *)

\* logout(), or the session expires.
EndSession(s) ==
    /\ s \in Live
    /\ DeleteSession(s)
    /\ UNCHANGED accessVars

\* changePassword() ends all sessions but the current one.
EndOthers(s) ==
    /\ Loads(s)
    /\ DeleteAllByAccount({s})
    /\ UNCHANGED accessVars

-----------------------------------------------------------------------------
(* Status changes                                                          *)

\* updateStatus(): the status is saved.
SaveStatus(status) ==
    /\ admin = "idle"
    /\ changes < MaxChanges
    /\ account' = status
    /\ admin' = IF status = "locked" THEN "revoke" ELSE "invalidate"
    /\ barred' = FALSE
    /\ changes' = changes + 1
    /\ UNCHANGED <<cache, cutoff, failures, req, sessionVars>>

\* Mutant: the session of the request stays, as for a change of password.
RevokeOthers ==
    /\ admin = "revoke"
    /\ \E s \in Live : DeleteAllByAccount({s})
    /\ cutoff' = lastId
    /\ admin' = "invalidate"
    /\ UNCHANGED <<account, cache, barred, changes, failures, req>>

\* revokeAccess() of a locked account.
RevokeSessions ==
    /\ admin = "revoke"
    /\ DeleteAllByAccount({})
    /\ cutoff' = lastId
    /\ admin' = "invalidate"
    /\ UNCHANGED <<account, cache, barred, changes, failures, req>>

InvalidateCache ==
    /\ admin = "invalidate"
    /\ cache' = "none"
    /\ admin' = "idle"
    /\ barred' = (account = "locked")
    /\ UNCHANGED <<account, cutoff, changes, failures, req, sessionVars>>

\* Redis fails: the status stands, the rest is not done.
RevokeFails ==
    /\ admin # "idle"
    /\ failures < MaxFailures
    /\ admin' = "idle"
    /\ failures' = failures + 1
    /\ UNCHANGED <<account, cache, barred, cutoff, changes, req, sessionVars>>

\* Mutant: a copy that says active is never dropped.
LockedCopyExpires ==
    /\ cache = "locked"
    /\ cache' = "none"
    /\ UNCHANGED <<account, admin, barred, cutoff, changes, failures, req, sessionVars>>

\* The copy has a time to live.
CacheExpires ==
    /\ cache # "none"
    /\ cache' = "none"
    /\ UNCHANGED <<account, admin, barred, cutoff, changes, failures, req, sessionVars>>

-----------------------------------------------------------------------------
RequestStep(r) ==
    \/ Login(r) \/ Attach(r) \/ ReadCache(r) \/ ReadAccount(r) \/ FillCache(r)
    \/ Touch(r) \/ Rotate(r) \/ EndReused(r)

AccessNext ==
    \/ \E r \in Requests : RequestStep(r)
    \/ \E r \in Requests, d \in Devices : BeginLogin(r, d)
    \/ \E r \in Requests, s \in Ids, d \in Devices \cup {NoDevice} :
         \/ BeginRequest(r, s, d)
         \/ \E k \in 0..MaxRotation : BeginRefresh(r, s, d, k)
    \/ \E s \in Ids : EndSession(s) \/ EndOthers(s)
    \/ \E status \in Statuses : SaveStatus(status)
    \/ RevokeSessions \/ InvalidateCache \/ RevokeFails \/ CacheExpires

AccessSpec ==
    /\ AccessInit /\ [][AccessNext]_vars
    /\ \A r \in Requests : WF_vars(RequestStep(r))
    /\ WF_vars(CacheExpires)

-----------------------------------------------------------------------------
(* Properties                                                              *)

\* The sessions of an account never outnumber its cap, whatever logins,
\* backfills and refreshes run beside each other (session.scripts.js create).
WithinCap == Cardinality(Live) <= Cap

\* A session created with the index in place is alone on its device: neither
\* an older session, nor a login, nor the backfill of another session shares
\* it (session.scripts.js attach, "Do not let a backfill steal their device").
OwnsItsDevice ==
    \A s, t \in Live :
        s > Legacy /\ s # t => sessions[s].device # sessions[t].device

\* A session that is over stays over: a request that read it before, and
\* touches, rotates or binds it afterwards, does not bring it back.
EndedStaysEnded ==
    [][\A s \in Ids : s <= lastId /\ ~sessions[s].live => ~sessions'[s].live]_vars

\* Two refreshes with one token: the one that comes second is not answered
\* before the session is over, however the two interleave with the backfill
\* and with each other (jwt-auth.service.ts refresh).  Legacy sessions that
\* share a device shadow each other and are left out.
Shows(r, s) == req[r].at \in {"rotate", "reuse"} /\ req[r].s = s
Spent(r, s) == At(r, "reuse") \/ req[r].jti < sessions[s].jti
SpentTokenEndsSession ==
    [][\A r \in Requests, s \in Legacy + 1 .. MaxSession :
          Shows(r, s) /\ Spent(r, s) /\ req'[r] = Idle => ~sessions'[s].live]_vars

\* Once a lock has been answered, no request that begins later gets past the
\* look at the account with a session from before the lock; only a login that
\* was under way can have left one.
OldSessionsShutOut ==
    \A r \in Requests : req[r].at \notin {"idle", "login"} => req[r].s > req[r].floor

\* A lock that stands is obeyed in the end, whatever logins and stale copies
\* it overlapped and even if revoking failed half way.
LockObeyedInTheEnd ==
    <>[](account = "locked") => <>[](\A r \in Requests : ~At(r, "touch"))

\* "Ban account sẽ xoá key này nên đổi trạng thái có hiệu lực ngay, không chờ
\* TTL" (jwt.strategy.ts:80): what begins after the ban is not let in.
LockObeyedAtOnce ==
    \A r \in Requests : At(r, "touch") => req[r].floor = 0
=============================================================================
