---------------------------- MODULE MobileProofs --------------------------
(***************************************************************************)
(* The safety properties of MobileSession, for any number of requests,     *)
(* logins, expiries and faults.                                            *)
(*                                                                         *)
(* All of them follow from one inductive invariant.  Its heart is that     *)
(* sessionVersion tells the sessions of the app apart: a request, a queued *)
(* save and a refresh belong to the session that stands exactly when their *)
(* version does, and then their tokens are of the login in memory          *)
(* (OwnRequest, OwnSave, OwnFlight).  QueueInv and HeadInv say what the    *)
(* queue of keychain writes may hold and how far its first operation has   *)
(* come, KeychainInv what that leaves in the keychain, LoginInv that a     *)
(* login is used once, FlightInv and KeptIsCurrent which refresh tokens    *)
(* the server has not seen yet.  Beside it stands LockedInv, which says of *)
(* a 403 that the account was locked.                                      *)
(*                                                                         *)
(* The steps are proved one lemma each; the lemmas before them say what a  *)
(* step leaves alone, so that a proof speaks of what it changes.           *)
(***************************************************************************)
EXTENDS MobileSession, SequenceTheorems, FiniteSetTheorems, TLAPS

-----------------------------------------------------------------------------
(* The invariant. *)

Active(r) == req[r].phase # "idle"
Flying(r) == flight[r].phase # "none"
Here(r) == req[r].version = version

\* A refresh whose new pair is not kept yet; one that has a new pair to show.
Rotated(r) == flight[r].phase \in {"answered", "saving"}
Renewed(r) == flight[r].phase = "done" /\ flight[r].answer = "ok"
Fresh(r) == Rotated(r) \/ Renewed(r)

\* What the server thinks of a token: given, of a session that has ended, of
\* the last rotation, not run out.
Given(t) == t.login \in 1..issued
Ended(t) == ~session[t.login].live
Current(t) == Ended(t) \/ t.gen = session[t.login].gen
Valid(t) == Ended(t) \/ t.gen > session[t.login].expired

Clears(w) == w.op # "save"
Clearing == \E i \in DOMAIN writes : Clears(writes[i])

\* A save is queued for a refresh or for the sign-in that still waits for it.
OwnSave(w) ==
    \/ /\ w.by \in Requests
       /\ flight[w.by].phase = "saving" /\ flight[w.by].token = w.token
       /\ req[w.by].version = w.version
    \/ /\ w.by = NoRequest
       /\ signing.phase = "saving" /\ signing.token = w.token
       /\ signing.version = w.version

\* Only the first operation has been begun, each save is somebody's own, and
\* what is cleared was left: nobody is signed in behind a clear().
QueueInv ==
    /\ \A i \in DOMAIN writes :
         /\ i > 1 => writes[i].todo = Keys
         /\ writes[i].op = "save" => OwnSave(writes[i])
         /\ writes[i].op = "signIn" => signing.phase = "clearing"
         /\ Clears(writes[i]) => writes[i].token = NoToken
    /\ \A i, j \in DOMAIN writes : i < j =>
         /\ writes[i].op = "signIn" => writes[j].op = "save"
         /\ writes[i].op = "save" /\ writes[j].op = "save" =>
              writes[i].by # writes[j].by
    /\ Clearing => status = "unauthenticated" /\ signing.phase # "saving"
    /\ signing.phase = "clearing" =>
         \E i \in DOMAIN writes : writes[i].op = "signIn"

\* How far the first operation has come; one begun in a session that has been
\* left since has a clear() behind it.
HeadInv ==
    writes # << >> =>
      /\ Clears(writes[1]) =>
           \A k \in Keys \ writes[1].todo : keychain[k] = NoToken
      /\ writes[1].op = "save" /\ writes[1].todo # Keys =>
           /\ Stale(writes[1]) => Clearing
           /\ \A k \in Keys : keychain[k].login \in {0, writes[1].token.login}
      /\ writes[1].op = "save" /\ faults = 0 =>
           \A k \in Keys \ writes[1].todo : keychain[k] = writes[1].token

\* The keychain has tokens of one login, the one in memory when there is one,
\* and none of a login left unless a clear() is queued.
KeychainInv ==
    /\ \A k \in Keys : keychain[k] = NoToken \/ Given(keychain[k])
    /\ \A j, k \in Keys :
         keychain[j].login # 0 => keychain[k].login \in {0, keychain[j].login}
    /\ status = "authenticated" =>
         \A k \in Keys : keychain[k].login \in {0, cached.login}
    /\ signing.phase = "saving" =>
         \A k \in Keys : keychain[k].login \in {0, signing.token.login}
    /\ Clearing \/ (\A k \in Keys : keychain[k].login \notin left)

\* A login is used once: the one signed in, or being signed in, was not left.
LoginInv ==
    /\ left \subseteq 1..issued
    /\ \A l \in Logins :
         /\ session[l].expired <= session[l].gen
         /\ l > issued => ~session[l].live /\ session[l].expired = 0
    /\ status # "authenticated" => cached = NoToken
    /\ status = "authenticated" => Given(cached) /\ cached.login \notin left
    /\ account # 0 => account = cached.login
    /\ signing.phase # "none" =>
         /\ status = "unauthenticated" /\ signing.version = version
         /\ Given(signing.token) /\ signing.token.login \notin left
         /\ Current(signing.token)
         /\ \A r \in Requests : Active(r) =>
              req[r].token.login # signing.token.login

LoadingInv ==
    status = "loading" =>
      /\ writes = << >> /\ left = {} /\ signing.phase = "none"
      /\ \A r \in Requests : ~Active(r)
      /\ faults = 0 => keychain["refresh"] = NoToken

\* A request belongs to the session that stands exactly when its token does.
OwnRequest(r) ==
    Active(r) =>
      /\ req[r].version <= version /\ Given(req[r].token)
      /\ Here(r) <=> req[r].token.login = cached.login
      /\ Here(r) => status = "authenticated"

WaitsFor(r) ==
    req[r].phase = "waiting" =>
      /\ req[r].retried /\ req[r].on \in Requests /\ Flying(req[r].on)
      /\ req[req[r].on].version = req[r].version

\* A replay is refused only when its session has ended.
Replayed(r) ==
    req[r].retried =>
      /\ req[r].phase = "sent" => Valid(req[r].token)
      /\ req[r].phase = "answered" /\ req[r].answer = "denied" =>
           Ended(req[r].token)

SameSession(q, r) ==
    Active(q) /\ Active(r) /\ req[q].token.login = req[r].token.login =>
      req[q].version = req[r].version

RequestInv ==
    \A r \in Requests :
      /\ OwnRequest(r) /\ WaitsFor(r) /\ Replayed(r)
      /\ \A q \in Requests : SameSession(q, r)

\* Who started a refresh waits for it, and it is the only one of its session.
OwnFlight(r) ==
    Flying(r) =>
      /\ req[r].phase = "waiting" /\ req[r].on = r
      /\ Here(r) => current = r

Carries(r) ==
    /\ flight[r].phase = "post" \/ Fresh(r) =>
         flight[r].token.login = req[r].token.login
    /\ flight[r].phase = "post" /\ faults = 0 => Current(flight[r].token)
    /\ Rotated(r) => Current(flight[r].token)
    /\ Fresh(r) => Valid(flight[r].token)

Landed(r) ==
    flight[r].phase = "done" =>
      /\ flight[r].answer = "ok" /\ Here(r) => cached = flight[r].token
      /\ flight[r].answer = "denied" => faults > 0 \/ Ended(req[r].token)

OneFlight(q, r) ==
    Flying(q) /\ Flying(r) /\ req[q].version = req[r].version => q = r

FlightInv ==
    /\ \A r \in Requests :
         /\ OwnFlight(r) /\ Carries(r) /\ Landed(r)
         /\ \A q \in Requests : OneFlight(q, r)
    /\ current # NoRequest => Flying(current)

\* Without a fault, the refresh token kept is the server's last, unless the
\* refresh of this session is about to replace it.
KeptIsCurrent ==
    /\ status = "authenticated" /\ faults = 0
    /\ \A r \in Requests : Rotated(r) => ~Here(r)
    => \/ Ended(cached)
       \/ /\ keychain["refresh"].login = cached.login
          /\ Current(keychain["refresh"])

Laws ==
    /\ QueueInv /\ HeadInv /\ KeychainInv
    /\ LoginInv /\ LoadingInv
    /\ RequestInv /\ FlightInv
    /\ KeptIsCurrent /\ OnlyLossIsReuse

MobileInv == MobileTypes /\ Laws

-----------------------------------------------------------------------------
(* The values. *)

LEMMA NothingType ==
    /\ NoToken \in Tokens /\ 0 \in 0..MaxLogin /\ 0 \in Nat
    /\ Idle \in RequestStates /\ NoFlight \in FlightStates
    /\ NoSigning \in SigningStates
  BY MobileAssumption DEF MobileAssumption, NoToken, Tokens, Idle, NoFlight,
     NoSigning, Answers, RequestStates, FlightStates, SigningStates

\* What the steps change of a request, a refresh and a session.
LEMMA RequestChange ==
    ASSUME NEW x \in RequestStates
    PROVE  /\ \A a \in Answers : [x EXCEPT !.phase = "answered", !.answer = a] \in RequestStates
           /\ \A q \in Requests : [x EXCEPT !.phase = "waiting", !.retried = TRUE,
                  !.answer = "none", !.on = q] \in RequestStates
           /\ \A t \in Tokens : [x EXCEPT !.phase = "sent", !.on = NoRequest,
                  !.token = t] \in RequestStates
  BY DEF RequestStates, Answers

LEMMA FlightChange ==
    ASSUME NEW x \in FlightStates
    PROVE  /\ \A p \in {"read", "saving"} : [x EXCEPT !.phase = p] \in FlightStates
           /\ \A a \in Answers : [x EXCEPT !.phase = "done", !.answer = a] \in FlightStates
           /\ \A t \in Tokens : [x EXCEPT !.phase = "post", !.token = t] \in FlightStates
  BY DEF FlightStates

LEMMA SessionChange ==
    ASSUME NEW x \in SessionStates
    PROVE  /\ \A b \in BOOLEAN, n \in Nat : [x EXCEPT !.live = b, !.gen = n] \in SessionStates
           /\ \A b \in BOOLEAN : [x EXCEPT !.live = b] \in SessionStates
           /\ \A n \in Nat : [x EXCEPT !.expired = n] \in SessionStates
           /\ x.gen \in Nat /\ x.gen + 1 \in Nat /\ x.live \in BOOLEAN
<1>1. x.gen \in Nat /\ x.gen + 1 \in Nat /\ x.live \in BOOLEAN
  BY DEF SessionStates
<1>2. \A b \in BOOLEAN, n \in Nat : [x EXCEPT !.live = b, !.gen = n] \in SessionStates
  BY DEF SessionStates
<1>3. \A b \in BOOLEAN : [x EXCEPT !.live = b] \in SessionStates
  BY DEF SessionStates
<1>4. \A n \in Nat : [x EXCEPT !.expired = n] \in SessionStates
  BY DEF SessionStates
<1> QED  BY <1>1, <1>2, <1>3, <1>4

LEMMA FlightAnsweredType ==
    ASSUME MobileTypes, NEW r \in Requests, NEW a \in Answers, NEW t \in Tokens,
           FlightAnswered(r, a, t)
    PROVE  flight' \in [Requests -> FlightStates]
  BY DEF FlightAnswered, MobileTypes, FlightStates

LEMMA LossType ==
    ASSUME MobileTypes, Lose \/ Keep
    PROVE  faults' \in 0..MaxFaults
<1>1. Cardinality(locked) \in Nat
  <2>1. IsFiniteSet(Logins)
    BY MobileAssumption, FS_Interval DEF MobileAssumption, Logins
  <2> QED  BY <2>1, FS_Subset, FS_CardinalityType DEF MobileTypes
<1> QED  BY <1>1, MobileAssumption DEF MobileAssumption, MobileTypes, Lose,
     MoreFaults, Keep

LEMMA WriteType ==
    ASSUME NEW op \in {"save", "signOut", "signIn"}, NEW t \in Tokens,
           NEW v \in Nat, NEW r \in Requests \cup {NoRequest}
    PROVE  Write(op, t, v, r) \in Operations
  BY DEF Write, Operations, Keys

\* The operation at the head of the queue has been carried out.
LEMMA Pop ==
    ASSUME writes \in Seq(Operations), writes # << >>, writes' = Tail(writes)
    PROVE  /\ writes' \in Seq(Operations)
           /\ 1 \in DOMAIN writes /\ Head(writes) = writes[1]
           /\ Head(writes) \in Operations
           /\ \A i \in DOMAIN writes : i \in Nat /\ writes[i] \in Operations
           /\ \A i \in DOMAIN writes' : /\ i + 1 \in DOMAIN writes /\ i + 1 > 1
                                        /\ writes'[i] = writes[i + 1]
           /\ \A i \in DOMAIN writes : i > 1 => /\ i - 1 \in DOMAIN writes'
                                                /\ writes'[i - 1] = writes[i]
<1>1. /\ Len(writes) \in Nat /\ DOMAIN writes = 1..Len(writes)
      /\ \A i \in DOMAIN writes : writes[i] \in Operations
  BY LenProperties, ElementOfSeq
<1>2. Len(writes) >= 1 /\ Head(writes) = writes[1]
  BY <1>1, EmptySeq
<1>3. /\ writes' \in Seq(Operations) /\ Len(writes') = Len(writes) - 1
      /\ DOMAIN writes' = 1..Len(writes')
      /\ \A i \in 1..Len(writes') : writes'[i] = writes[i + 1]
  BY HeadTailProperties, LenProperties
<1> QED  BY <1>1, <1>2, <1>3

\* One is queued behind the others.
LEMMA Push ==
    ASSUME writes \in Seq(Operations), NEW w \in Operations,
           writes' = Append(writes, w)
    PROVE  /\ writes' \in Seq(Operations) /\ writes' # << >>
           /\ Len(writes) \in Nat /\ DOMAIN writes = 1..Len(writes)
           /\ DOMAIN writes' = 1..(Len(writes) + 1)
           /\ \A i \in DOMAIN writes : i \in Nat /\ writes'[i] = writes[i]
           /\ writes'[Len(writes) + 1] = w
<1>1. Len(writes) \in Nat /\ DOMAIN writes = 1..Len(writes)
  BY LenProperties
<1>2. /\ writes' \in Seq(Operations) /\ Len(writes') = Len(writes) + 1
      /\ \A i \in 1..Len(writes) : writes'[i] = writes[i]
      /\ writes'[Len(writes) + 1] = w
  BY AppendProperties
<1>3. DOMAIN writes' = 1..(Len(writes) + 1)
  BY <1>2, LenProperties
<1>4. writes' # << >>
  BY <1>1, <1>2, EmptySeq
<1> QED  BY <1>1, <1>2, <1>3, <1>4

-----------------------------------------------------------------------------
(* Types. *)

LEMMA SavedType ==
    ASSUME MobileTypes, NEW w \in Operations, NEW a \in Answers, Saved(w, a)
    PROVE  flight' \in [Requests -> FlightStates]
<1>1. CASE w.by \in Requests
  BY <1>1, FlightChange DEF MobileTypes, Saved
<1>2. CASE w.by \notin Requests
  BY <1>2 DEF MobileTypes, Saved
<1> QED  BY <1>1, <1>2

LEMMA QueueTypes ==
    ASSUME MobileTypes, QueueStep
    PROVE  MobileTypes'
<1>1. CASE RefuseSave
  <2>1. Head(writes) \in Operations /\ writes' \in Seq(Operations)
    BY <1>1, Pop DEF RefuseSave, MobileTypes
  <2>2. flight' \in [Requests -> FlightStates]
    BY <1>1, <2>1, SavedType DEF RefuseSave, Answers
  <2> QED  BY <1>1, <2>1, <2>2 DEF RefuseSave, MobileTypes, serverVars, storeVars, bounds
<1>2. CASE FinishSave
  <2>1. Head(writes) \in Operations /\ writes' \in Seq(Operations)
    BY <1>2, Pop DEF FinishSave, MobileTypes
  <2>2. flight' \in [Requests -> FlightStates]
    BY <1>2, <2>1, SavedType DEF FinishSave, MobileTypes, Answers
  <2>3. cached' \in Tokens
    BY <1>2, <2>1 DEF FinishSave, Operations
  <2>4. /\ account' \in 0..MaxLogin /\ signing' \in SigningStates
        /\ status' \in {"loading", "authenticated", "unauthenticated"}
    <3>1. signing.token.login \in 0..MaxLogin
      BY DEF MobileTypes, SigningStates, Tokens
    <3> QED  BY <1>2, <3>1, NothingType DEF FinishSave, MobileTypes, storeVars
  <2> QED  BY <1>2, <2>1, <2>2, <2>3, <2>4 DEF FinishSave, MobileTypes, serverVars, bounds
<1>3. CASE FinishClear
  <2>1. writes' \in Seq(Operations)
    <3>1. CASE writes' = Tail(writes)
      BY <1>3, <3>1, Pop DEF FinishClear, MobileTypes
    <3>2. CASE writes' = Append(Tail(writes),
                 Write("save", signing.token, signing.version, NoRequest))
      <4>1. Write("save", signing.token, signing.version, NoRequest) \in Operations
        BY WriteType DEF MobileTypes, SigningStates
      <4>2. Tail(writes) \in Seq(Operations)
        BY <1>3, HeadTailProperties DEF FinishClear, MobileTypes
      <4> QED  BY <3>2, <4>1, <4>2, AppendProperties
    <3> QED  BY <1>3, <3>1, <3>2 DEF FinishClear
  <2>2. signing' \in SigningStates
    BY <1>3 DEF FinishClear, MobileTypes, SigningStates
  <2> QED  BY <1>3, <2>1, <2>2 DEF FinishClear, MobileTypes, serverVars, refreshVars, bounds
<1>4. ASSUME NEW k \in Keys, WriteKey(k) PROVE MobileTypes'
  <2> DEFINE w == Head(writes)
             rest == [w EXCEPT !.todo = @ \ {k}]
  <2>1. w \in Operations /\ writes[1] = w /\ 1 \in 1..Len(writes)
    BY <1>4, HeadTailProperties, EmptySeq, LenProperties DEF WriteKey, MobileTypes
  <2>2. rest \in Operations
    BY <2>1 DEF Operations
  <2>3. writes' = [writes EXCEPT ![1] = rest]
    BY <1>4, <2>1 DEF WriteKey
  <2>4. writes' \in Seq(Operations)
    BY <2>1, <2>2, <2>3, ExceptSeq DEF MobileTypes
  <2>5. keychain' \in [Keys -> Tokens]
    BY <1>4, <2>1 DEF WriteKey, MobileTypes, Operations
  <2>6. faults' \in 0..MaxFaults
    BY <1>4, LossType DEF WriteKey
  <2> QED  BY <1>4, <2>4, <2>5, <2>6 DEF WriteKey, MobileTypes, serverVars,
       storeVars, refreshVars
<1> QED  BY <1>1, <1>2, <1>3, <1>4 DEF QueueStep

LEMMA SignOutTypes ==
    ASSUME MobileTypes, SignOut
    PROVE  /\ version' \in Nat /\ cached' \in Tokens /\ keychain' = keychain
           /\ writes' \in Seq(Operations) /\ status' = "unauthenticated"
           /\ account' \in 0..MaxLogin /\ signing' = signing
           /\ left' \subseteq Logins
<1>1. version' \in Nat
  BY DEF SignOut, MobileTypes
<1>2. Write("signOut", NoToken, version', NoRequest) \in Operations
  BY <1>1, NothingType, WriteType
<1>3. writes' \in Seq(Operations)
  BY <1>2, AppendProperties DEF SignOut, MobileTypes
<1> QED  BY <1>1, <1>3, NothingType DEF SignOut, MobileTypes

LEMMA StoreTypes ==
    ASSUME MobileTypes, Hydrate \/ SignIn \/ Crash
    PROVE  MobileTypes'
<1>0. faults' \in 0..MaxFaults
  BY LossType DEF Hydrate, SignIn, Crash, Lose, Keep
<1>1. CASE Hydrate
  <2>1. cached' \in Tokens
    BY <1>1, NothingType DEF Hydrate, MobileTypes, Keys
  <2> QED  BY <1>0, <1>1, <2>1 DEF Hydrate, MobileTypes, serverVars, refreshVars
<1>2. CASE SignIn
  <2>1. issued' \in 1..MaxLogin
    BY <1>2, MobileAssumption DEF SignIn, MobileTypes, MobileAssumption
  <2>2. session' \in [Logins -> SessionStates]
    BY <1>2, <2>1 DEF SignIn, MobileTypes, Logins, SessionStates
  <2>3. version' \in Nat /\ cached' \in Tokens
    BY <1>2, NothingType DEF SignIn, MobileTypes
  <2>4. writes' \in Seq(Operations)
    <3>1. Write("signIn", NoToken, version', NoRequest) \in Operations
      BY <2>3, NothingType, WriteType
    <3>2. Append(writes, Write("signIn", NoToken, version', NoRequest)) \in Seq(Operations)
      BY <3>1, AppendProperties DEF MobileTypes
    <3> QED  BY <1>2, <3>2 DEF SignIn, MobileTypes
  <2>5. signing' \in SigningStates
    <3>1. [login |-> issued', gen |-> 1] \in Tokens
      BY <2>1, MobileAssumption DEF Tokens, MobileAssumption
    <3> QED  BY <1>2, <2>3, <3>1 DEF SignIn, MobileTypes, SigningStates
  <2>6. issued' \in 0..MaxLogin
    BY <2>1
  <2> QED  BY <1>0, <1>2, <2>2, <2>3, <2>4, <2>5, <2>6 DEF SignIn, MobileTypes, refreshVars
<1>3. CASE Crash
  <2>1. << >> \in Seq(Operations) /\ {} \subseteq Logins
    BY EmptySeq
  <2> QED  BY <1>0, <1>3, <2>1, NothingType DEF Crash, MobileTypes, serverVars
<1> QED  BY <1>1, <1>2, <1>3

LEMMA RequestTypes ==
    ASSUME MobileTypes, NEW r \in Requests,
           RequestStep(r) \/ \E kind \in {"me", "logout"} : Begin(r, kind)
    PROVE  MobileTypes'
<1>0. /\ req[r] \in RequestStates /\ req[r].token \in Tokens
      /\ req[r].token.login \in 0..MaxLogin
  BY DEF MobileTypes, RequestStates, Tokens
<1>1. ASSUME NEW kind \in {"me", "logout"}, Begin(r, kind) PROVE MobileTypes'
  <2>1. [Idle EXCEPT !.phase = "sent", !.kind = kind, !.version = version,
           !.token = cached] \in RequestStates
    BY NothingType DEF MobileTypes, RequestStates
  <2> QED  BY <1>1, <2>1 DEF Begin, MobileTypes, serverVars, tokenVars,
       storeVars, refreshVars, bounds
<1>2. CASE Serve(r)
  <2>1. req' \in [Requests -> RequestStates]
    <3>1. Answer(req[r].token) \subseteq Answers
      BY DEF Answer, Answers
    <3>2. \A a \in Answers : Answered(r, a) => req' \in [Requests -> RequestStates]
      BY <1>0, RequestChange DEF Answered, MobileTypes
    <3>3. \E a \in Answers : Answered(r, a)
      BY <1>2, <3>1 DEF Serve, Answers
    <3> QED  BY <3>2, <3>3
  <2>2. session' \in [Logins -> SessionStates]
    <3>1. session' = session \/ session' = [session EXCEPT ![req[r].token.login].live = FALSE]
      BY <1>2 DEF Serve
    <3>2. \A l \in Logins : [session[l] EXCEPT !.live = FALSE] \in SessionStates
      BY SessionChange DEF MobileTypes
    <3>3. session \in [Logins -> SessionStates]
      BY DEF MobileTypes
    <3> QED  BY <3>1, <3>2, <3>3
  <2>3. faults' \in 0..MaxFaults
    BY <1>2, LossType DEF Serve
  <2> QED  BY <1>2, <2>1, <2>2, <2>3 DEF Serve, MobileTypes, tokenVars,
       storeVars, refreshVars
<1>3. CASE LoseRequest(r)
  <2>1. req' \in [Requests -> RequestStates]
    BY <1>0, <1>3, RequestChange DEF LoseRequest, Answered, MobileTypes, Answers
  <2>2. faults' \in 0..MaxFaults
    BY <1>3, LossType DEF LoseRequest
  <2> QED  BY <1>3, <2>1, <2>2 DEF LoseRequest, MobileTypes, serverVars,
       tokenVars, storeVars, refreshVars
<1>4. CASE ReceiveMe(r)
  BY <1>0, <1>4, NothingType DEF ReceiveMe, Done, Rest, MobileTypes, serverVars,
     tokenVars, refreshVars, bounds
<1>5. CASE ReceiveDenial(r)
  <2>1. req' \in [Requests -> RequestStates]
    BY <1>0, <1>5, RequestChange DEF ReceiveDenial, Shares, MobileTypes
  <2>2. flight' \in [Requests -> FlightStates] /\ current' \in Requests \cup {NoRequest}
    <3>1. [flight[r] EXCEPT !.phase = "read"] \in FlightStates
      BY FlightChange DEF MobileTypes
    <3> QED  BY <1>5, <3>1 DEF ReceiveDenial, MobileTypes, refreshVars
  <2> QED  BY <1>5, <2>1, <2>2 DEF ReceiveDenial, MobileTypes, serverVars,
       tokenVars, storeVars, bounds
<1>6. ASSUME Done(r), Rest, SignOut \/ StaySignedIn PROVE MobileTypes'
  <2>0. req' \in [Requests -> RequestStates]
    BY <1>6, NothingType DEF Done, MobileTypes
  <2>1. CASE StaySignedIn
    BY <1>6, <2>0, <2>1 DEF Rest, StaySignedIn, MobileTypes, serverVars,
       tokenVars, storeVars, refreshVars, bounds
  <2>2. CASE SignOut
    BY <1>6, <2>0, <2>2, SignOutTypes DEF Rest, MobileTypes, serverVars, refreshVars, bounds
  <2> QED  BY <1>6, <2>1, <2>2
<1> QED  BY <1>1, <1>2, <1>3, <1>4, <1>5, <1>6 DEF RequestStep, ReceiveStale,
     ReceiveLogout, ReceiveSecondDenial, EndSession

LEMMA FlightTypes ==
    ASSUME MobileTypes, NEW r \in Requests, FlightStep(r)
    PROVE  MobileTypes'
<1>0. flight[r] \in FlightStates /\ flight[r].token \in Tokens /\ "refresh" \in Keys
  BY DEF MobileTypes, FlightStates, Keys
<1>1. CASE ReadRefreshToken(r)
  <2>1. flight' \in [Requests -> FlightStates]
    <3>1. CASE FlightAnswered(r, "denied", NoToken) \/ FlightAnswered(r, "cancelled", NoToken)
      BY <3>1, NothingType, FlightAnsweredType DEF Answers
    <3>2. CASE flight' = [flight EXCEPT ![r].phase = "post", ![r].token = keychain["refresh"]]
      BY <1>0, <3>2, FlightChange DEF MobileTypes
    <3> QED  BY <1>1, <3>1, <3>2 DEF ReadRefreshToken
  <2>2. faults' \in 0..MaxFaults
    BY <1>1, LossType DEF ReadRefreshToken
  <2> QED  BY <1>1, <2>1, <2>2 DEF ReadRefreshToken, Flies, MobileTypes,
       serverVars, tokenVars, storeVars
<1>2. CASE ServeRefresh(r)
  <2>1. session' \in [Logins -> SessionStates]
    <3>1. CASE flight[r].token.login \notin Logins
      BY <1>2, <3>1 DEF ServeRefresh, MobileTypes
    <3>2. ASSUME flight[r].token.login \in Logins
          PROVE  session' \in [Logins -> SessionStates]
      <4> DEFINE x == session[flight[r].token.login]
                 good == x.live /\ flight[r].token.gen = x.gen
      <4>1. x \in SessionStates
        BY <3>2 DEF MobileTypes
      <4>2. good \in BOOLEAN /\ (IF good THEN x.gen + 1 ELSE x.gen) \in Nat
        BY <4>1, SessionChange
      <4>3. [x EXCEPT !.live = good, !.gen = IF good THEN x.gen + 1 ELSE x.gen] \in SessionStates
        BY <4>1, <4>2, SessionChange
      <4>4. session' = [session EXCEPT ![flight[r].token.login] =
                [x EXCEPT !.live = good, !.gen = IF good THEN x.gen + 1 ELSE x.gen]]
        BY <1>2, <3>2, <4>1 DEF ServeRefresh, MobileTypes
      <4> QED  BY <4>3, <4>4 DEF MobileTypes
    <3> QED  BY <3>1, <3>2
  <2>2. \A n \in Nat : [flight[r].token EXCEPT !.gen = n] \in Tokens
    BY <1>0 DEF Tokens
  <2>3. flight' \in [Requests -> FlightStates]
    <3>1. flight[r].token.gen \in Nat
      BY <1>0 DEF Tokens
    <3>2. \A n \in Nat, a \in Answers :
             FlightAnswered(r, a, [flight[r].token EXCEPT !.gen = n]) => flight' \in [Requests -> FlightStates]
      BY <2>2, FlightAnsweredType
    <3>3. FlightAnswered(r, "lost", NoToken) => flight' \in [Requests -> FlightStates]
      BY NothingType, FlightAnsweredType DEF Answers
    <3>4. CASE FlightAnswered(r, "lost", NoToken)
      BY <3>3, <3>4
    <3>5. ASSUME NEW good \in BOOLEAN,
                 FlightAnswered(r, IF good THEN "ok" ELSE "denied",
                     [flight[r].token EXCEPT !.gen = IF good THEN @ + 1 ELSE @])
          PROVE  flight' \in [Requests -> FlightStates]
      <4>1. (IF good THEN "ok" ELSE "denied") \in Answers
        BY DEF Answers
      <4>2. (IF good THEN flight[r].token.gen + 1 ELSE flight[r].token.gen) \in Nat
        BY <3>1
      <4> QED  BY <3>2, <3>5, <4>1, <4>2
    <3> QED  BY <1>2, <3>4, <3>5 DEF ServeRefresh
  <2>4. faults' \in 0..MaxFaults
    BY <1>2, LossType DEF ServeRefresh
  <2>5. reused' \in BOOLEAN
    BY <1>2 DEF ServeRefresh
  <2> QED  BY <1>2, <2>1, <2>3, <2>4, <2>5 DEF ServeRefresh, Flies, MobileTypes,
       tokenVars, storeVars
<1>3. CASE LoseRefresh(r)
  <2>1. flight' \in [Requests -> FlightStates]
    BY <1>3, NothingType, FlightAnsweredType DEF LoseRefresh, Answers
  <2>2. faults' \in 0..MaxFaults
    BY <1>3, LossType DEF LoseRefresh
  <2> QED  BY <1>3, <2>1, <2>2 DEF LoseRefresh, Flies, MobileTypes, serverVars,
       tokenVars, storeVars
<1>4. CASE SaveRefreshed(r)
  <2>1. Write("save", flight[r].token, req[r].version, r) \in Operations
    BY <1>0, WriteType DEF MobileTypes, RequestStates
  <2>2. writes' \in Seq(Operations)
    BY <1>4, <2>1, AppendProperties DEF SaveRefreshed, MobileTypes
  <2>3. flight' \in [Requests -> FlightStates]
    BY <1>0, <1>4, FlightChange DEF SaveRefreshed, MobileTypes
  <2> QED  BY <1>4, <2>2, <2>3 DEF SaveRefreshed, Flies, MobileTypes,
       serverVars, storeVars, bounds
<1>5. CASE EndFlight(r)
  <2>1. /\ flight' \in [Requests -> FlightStates]
        /\ current' \in Requests \cup {NoRequest}
    BY <1>5, NothingType DEF EndFlight, Settled, MobileTypes
  <2>2. req' \in [Requests -> RequestStates]
    <3>1. \A q \in Requests : [req[q] EXCEPT !.phase = "sent", !.on = NoRequest,
                                    !.token = cached] \in RequestStates
      BY RequestChange DEF MobileTypes
    <3> QED  BY <1>5, <3>1, NothingType DEF EndFlight, MobileTypes
  <2>3. CASE StaySignedIn
    BY <1>5, <2>1, <2>2, <2>3 DEF EndFlight, StaySignedIn, MobileTypes,
       serverVars, tokenVars, storeVars, bounds
  <2>4. CASE SignOut
    BY <1>5, <2>1, <2>2, <2>4, SignOutTypes DEF EndFlight, MobileTypes, serverVars, bounds
  <2> QED  BY <1>5, <2>3, <2>4 DEF EndFlight, EndSession
<1> QED  BY <1>1, <1>2, <1>3, <1>4, <1>5 DEF FlightStep

LEMMA TypesKept ==
    ASSUME MobileTypes, [MobileNext]_vars
    PROVE  MobileTypes'
<1>1. ASSUME NEW l \in Logins, Expire(l) PROVE MobileTypes'
  <2>1. session' \in [Logins -> SessionStates] /\ expiries' \in 0..MaxExpiries
    <3>1. [session[l] EXCEPT !.expired = session[l].gen] \in SessionStates
      BY SessionChange DEF MobileTypes
    <3>2. expiries + 1 \in 0..MaxExpiries
      BY <1>1, MobileAssumption DEF Expire, MobileTypes, MobileAssumption
    <3> QED  BY <1>1, <3>1, <3>2 DEF Expire, MobileTypes
  <2> QED  BY <1>1, <2>1 DEF Expire, MobileTypes, tokenVars, storeVars, refreshVars
<1>2. ASSUME NEW l \in Logins, EndAtServer(l) PROVE MobileTypes'
  <2>1. session' \in [Logins -> SessionStates]
    BY <1>2 DEF EndAtServer, MobileTypes, SessionStates
  <2> QED  BY <1>2, <2>1 DEF EndAtServer, MobileTypes, tokenVars, storeVars,
       refreshVars, bounds
<1>3. ASSUME NEW l \in Logins, LockAccount(l) PROVE MobileTypes'
  BY <1>3 DEF LockAccount, MobileTypes, tokenVars, storeVars, refreshVars, bounds
<1>4. CASE UNCHANGED vars
  BY <1>4 DEF vars, MobileTypes, serverVars, tokenVars, storeVars, refreshVars, bounds
<1> QED  BY <1>1, <1>2, <1>3, <1>4, QueueTypes, StoreTypes, RequestTypes, FlightTypes
     DEF MobileNext

-----------------------------------------------------------------------------
(* What a step leaves alone. *)

\* The fields, without the shape of the records.
LEMMA Fields ==
    ASSUME MobileTypes
    PROVE  /\ MaxLogin \in Nat /\ NoRequest \notin Requests
           /\ version \in Nat /\ issued \in 0..MaxLogin /\ cached \in Tokens
           /\ faults \in Nat
           /\ \A t \in Tokens : t.login \in 0..MaxLogin /\ t.gen \in Nat
           /\ \A r \in Requests :
                req[r].version \in Nat /\ req[r].token \in Tokens
           /\ \A r \in Requests : flight[r].token \in Tokens
           /\ signing.token \in Tokens /\ signing.version \in Nat
           /\ \A k \in Keys : keychain[k] \in Tokens
           /\ \A l \in Logins :
                session[l].gen \in Nat /\ session[l].expired \in Nat
<1>1. MaxLogin \in Nat /\ NoRequest \notin Requests
  BY MobileAssumption DEF MobileAssumption
<1>2. version \in Nat /\ issued \in 0..MaxLogin /\ cached \in Tokens /\ faults \in Nat
  BY MobileAssumption DEF MobileTypes, MobileAssumption
<1>3. \A t \in Tokens : t.login \in 0..MaxLogin /\ t.gen \in Nat
  BY DEF Tokens
<1>4. \A r \in Requests : req[r].version \in Nat /\ req[r].token \in Tokens
  BY DEF MobileTypes, RequestStates
<1>5. \A r \in Requests : flight[r].token \in Tokens
  BY DEF MobileTypes, FlightStates
<1>6. signing.token \in Tokens /\ signing.version \in Nat
  BY DEF MobileTypes, SigningStates
<1>7. \A k \in Keys : keychain[k] \in Tokens
  BY DEF MobileTypes
<1>8. \A l \in Logins : session[l].gen \in Nat /\ session[l].expired \in Nat
  BY DEF MobileTypes, SessionStates
<1> QED  BY <1>1, <1>2, <1>3, <1>4, <1>5, <1>6, <1>7, <1>8

\* No fault, or one more.
Counted == faults' \in {faults, faults + 1}

LEMMA LossOnly ==
    ASSUME MobileTypes
    PROVE  /\ Lose \/ Keep => Counted
           /\ Lose => faults' > 0
           /\ Counted => /\ faults' \in Nat /\ faults' >= faults
                         /\ faults' = 0 => faults = 0
                         /\ faults > 0 => faults' > 0
  BY Fields DEF Lose, Keep, Counted

LEMMA QueueFrame ==
    ASSUME QueueInv, UNCHANGED <<writes, signing, status>>,
           \A r \in Requests : flight[r].phase = "saving" =>
               /\ flight'[r].phase = "saving"
               /\ flight'[r].token = flight[r].token
               /\ req'[r].version = req[r].version
    PROVE  QueueInv'
<1>1. \A w : OwnSave(w) => OwnSave(w)'
  BY DEF OwnSave
<1> QED  BY <1>1 DEF QueueInv, Clearing, Clears

LEMMA HeadFrame ==
    ASSUME HeadInv, UNCHANGED <<writes, keychain, version>>, faults' = 0 => faults = 0
    PROVE  HeadInv'
  BY DEF HeadInv, Clears, Clearing, Stale

LEMMA KeychainFrame ==
    ASSUME KeychainInv,
           UNCHANGED <<keychain, status, cached, signing, writes, left, issued>>
    PROVE  KeychainInv'
  BY DEF KeychainInv, Given, Clearing, Clears

\* Sessions end, nothing else is said of the tokens given.
SessionsEnd ==
    \A t \in Tokens : Given(t) => /\ Ended(t) => Ended(t)'
                                  /\ Current(t) => Current(t)'

\* No session comes back, and only those that stand run out.
SessionsOnly ==
    \A l \in Logins : /\ session'[l].live => session[l].live
                      /\ ~session[l].live => session'[l].expired = session[l].expired
                      /\ session'[l].expired <= session'[l].gen

LEMMA LoginFrame ==
    ASSUME MobileTypes, LoginInv,
           UNCHANGED <<left, issued, status, cached, signing, version>>,
           account' = account \/ account' = cached.login,
           SessionsOnly, signing.phase # "none" => Current(signing.token)',
           \A r \in Requests : Active(r)' =>
               \/ Active(r) /\ req'[r].token.login = req[r].token.login
               \/ status = "authenticated"
    PROVE  LoginInv'
<1> USE Fields DEF LoginInv
<1>1. \A l \in Logins : /\ session'[l].expired <= session'[l].gen
                        /\ l > issued' => ~session'[l].live /\ session'[l].expired = 0
  BY DEF SessionsOnly
<1>3. signing.phase # "none" => \A r \in Requests : Active(r)' =>
              req'[r].token.login # signing.token.login
  OBVIOUS
<1>4. account' # 0 => account' = cached'.login
  OBVIOUS
<1> QED  BY <1>1, <1>3, <1>4 DEF Given

LEMMA LoadingFrame ==
    ASSUME LoadingInv, status' = "loading" => status = "loading",
           UNCHANGED <<left, signing, keychain>>,
           writes' = writes \/ status # "loading",
           faults' = 0 => faults = 0,
           \A r \in Requests : Active(r)' => Active(r) \/ status' # "loading"
    PROVE  LoadingInv'
  BY DEF LoadingInv

\* The steps of the requests and of the refreshes that touch neither the
\* tokens nor the queue.
LEMMA QuietStep ==
    ASSUME MobileTypes, Laws,
           UNCHANGED <<left, issued, status, cached, signing, version, writes, keychain>>,
           account' = account \/ account' = cached.login,
           faults' = 0 => faults = 0,
           SessionsOnly, signing.phase # "none" => Current(signing.token)',
           \A r \in Requests : Active(r)' =>
               \/ Active(r) /\ req'[r].token.login = req[r].token.login
               \/ status = "authenticated",
           \A r \in Requests : flight[r].phase = "saving" =>
               /\ flight'[r].phase = "saving"
               /\ flight'[r].token = flight[r].token
               /\ req'[r].version = req[r].version
    PROVE  QueueInv' /\ HeadInv' /\ KeychainInv' /\ LoginInv' /\ LoadingInv'
<1>1. QueueInv'
  BY QueueFrame DEF Laws
<1>2. HeadInv'
  BY HeadFrame DEF Laws
<1>3. KeychainInv'
  BY KeychainFrame DEF Laws
<1>4. LoginInv'
  BY LoginFrame DEF Laws
<1>5. LoadingInv'
  BY LoadingFrame DEF Laws
<1> QED  BY <1>1, <1>2, <1>3, <1>4, <1>5

-----------------------------------------------------------------------------
(* The requests. *)

\* Some sessions end, and tokens run out that nobody is waiting to use.
MayEnd ==
    \A l \in Logins :
      /\ session'[l].live => session[l].live
      /\ session'[l].gen = session[l].gen
      /\ \/ session'[l].expired = session[l].expired
         \/ /\ session[l].live /\ session'[l].expired <= session[l].gen
            /\ \A q \in Requests : req[q].retried => req[q].token.login # l

LEMMA EndsKeep ==
    ASSUME MobileTypes, MayEnd
    PROVE  /\ SessionsEnd
           /\ \A t \in Tokens : \A q \in Requests :
                Given(t) /\ req[q].retried /\ req[q].token.login = t.login =>
                  (Valid(t) => Valid(t)')
  BY Fields DEF MayEnd, SessionsEnd, Given, Ended, Current, Valid, Logins

\* Of the requests only r changes, of the refreshes none.
OnlyRequest(r) ==
    /\ \A q \in Requests : q # r => req'[q] = req[q]
    /\ UNCHANGED <<flight, current>>

LEMMA OwnRefresh ==
    ASSUME MobileInv, NEW r \in Requests, req[r].phase # "waiting"
    PROVE  flight[r].phase = "none" /\ current # r
  BY Fields DEF MobileInv, Laws, FlightInv, OwnFlight, Flying

\* What is left to show of a step of one request that starts no refresh: what
\* it is now, if it goes on.
LEMMA OneRequest ==
    ASSUME MobileInv, NEW r \in Requests \cup {NoRequest}, OnlyRequest(r), MayEnd,
           r \in Requests => req[r].phase # "waiting" /\ req'[r].phase # "waiting",
           UNCHANGED <<reused, left, issued, status, cached, signing, version,
                       writes, keychain>>,
           account' = account \/ account' = cached.login,
           Counted,
           r \in Requests /\ Active(r)' =>
                         \/ /\ Active(r) /\ req'[r].token = req[r].token
                            /\ req'[r].version = req[r].version
                         \/ /\ status = "authenticated"
                            /\ req'[r].token = cached /\ req'[r].version = version,
           r \in Requests => Replayed(r)'
    PROVE  Laws'
<1>1. r \in Requests => flight[r].phase = "none" /\ current # r
  BY OwnRefresh
<1>2. /\ SessionsEnd
      /\ \A t \in Tokens : \A q \in Requests :
           Given(t) /\ req[q].retried /\ req[q].token.login = t.login =>
             (Valid(t) => Valid(t)')
  BY EndsKeep DEF MobileInv
<1>8. faults' \in Nat /\ (faults' = 0 => faults = 0) /\ (faults > 0 => faults' > 0)
  BY LossOnly DEF MobileInv
<1>3. QueueInv' /\ HeadInv' /\ KeychainInv' /\ LoginInv' /\ LoadingInv'
  <2>1. SessionsOnly
    BY Fields DEF SessionsOnly, MayEnd, MobileInv, Laws, LoginInv
  <2>2. signing.phase # "none" => Current(signing.token)'
    BY <1>2, Fields DEF SessionsEnd, MobileInv, Laws, LoginInv, Current, Ended
  <2> QED  BY <1>1, <1>8, <2>1, <2>2, QuietStep DEF MobileInv, OnlyRequest, Active
<1>4. RequestInv'
  <2> SUFFICES ASSUME NEW q \in Requests, NEW p \in Requests
               PROVE  (OwnRequest(q) /\ WaitsFor(q) /\ Replayed(q) /\ SameSession(p, q))'
    BY DEF RequestInv
  <2> OwnRequest(q) /\ OwnRequest(p) /\ WaitsFor(q) /\ Replayed(q) /\ SameSession(p, q)
    BY DEF MobileInv, Laws, RequestInv
  <2> r \in Requests => OwnRequest(r) /\ SameSession(r, q) /\ SameSession(p, r)
    BY DEF MobileInv, Laws, RequestInv
  <2>1. OwnRequest(q)'
    BY Fields DEF OwnRequest, OnlyRequest, Active, Here, Given, MobileInv, Laws, LoginInv
  <2>2. WaitsFor(q)'
    BY <1>1 DEF WaitsFor, OnlyRequest, Flying
  <2>3. Replayed(q)'
    <3>1. CASE q = r
      BY <3>1
    <3>2. CASE q # r /\ ~Active(q)
      BY <3>2 DEF Replayed, OnlyRequest, Active
    <3>3. CASE q # r /\ Active(q)
      <4>1. req[q].token \in Tokens /\ Given(req[q].token) /\ req'[q] = req[q]
        BY <3>3, Fields DEF OwnRequest, MobileInv, OnlyRequest
      <4>2. /\ req[q].retried /\ Valid(req[q].token) => Valid(req[q].token)'
            /\ Ended(req[q].token) => Ended(req[q].token)'
        BY <1>2, <4>1 DEF SessionsEnd, Valid, Ended
      <4> QED  BY <4>1, <4>2 DEF Replayed, Valid, Ended
    <3> QED  BY <3>1, <3>2, <3>3
  <2>4. SameSession(p, q)'
    BY DEF SameSession, OnlyRequest, OwnRequest, Active, Here
  <2> QED  BY <2>1, <2>2, <2>3, <2>4
<1>5. FlightInv'
  <2>0. (current # NoRequest => Flying(current))'
    BY DEF OnlyRequest, Flying, MobileInv, Laws, FlightInv
  <2> SUFFICES ASSUME NEW q \in Requests, NEW p \in Requests
               PROVE  (OwnFlight(q) /\ Carries(q) /\ Landed(q) /\ OneFlight(p, q))'
    BY <2>0 DEF FlightInv
  <2> OwnFlight(q) /\ Carries(q) /\ Landed(q) /\ OneFlight(p, q)
    BY DEF MobileInv, Laws, FlightInv
  <2>1. OwnFlight(q)'
    BY <1>1 DEF OwnFlight, OnlyRequest, Flying, Here
  <2>2. CASE ~Flying(q)
    BY <2>1, <2>2 DEF OwnFlight, Carries, Landed, OneFlight, Fresh, Rotated,
       Renewed, Flying, OnlyRequest
  <2>3. CASE Flying(q)
    <3>1. /\ req'[q] = req[q] /\ q # r /\ Given(req[q].token)
          /\ req[q].token \in Tokens /\ flight[q].token \in Tokens
          /\ req[q].retried
      BY <1>1, <2>3, Fields DEF OnlyRequest, Flying, OwnFlight, MobileInv, Laws,
         RequestInv, OwnRequest, WaitsFor, Active
    <3>2. Given(flight[q].token) /\ flight[q].token.login = req[q].token.login =>
            /\ Ended(flight[q].token) => Ended(flight[q].token)'
            /\ Valid(flight[q].token) => Valid(flight[q].token)'
            /\ Current(flight[q].token) => Current(flight[q].token)'
      BY <1>2, <3>1 DEF SessionsEnd, Ended, Current, Valid, OnlyRequest
    <3>3. Ended(req[q].token) => Ended(req[q].token)'
      BY <1>2, <3>1 DEF SessionsEnd, Ended
    <3>4. Carries(q)'
      BY <1>8, <3>1, <3>2 DEF Carries, OnlyRequest, Fresh, Rotated, Renewed,
         Given, Current, Valid, Ended
    <3>5. Landed(q)'
      BY <1>8, <3>1, <3>3 DEF Landed, OnlyRequest, Here, Ended
    <3>6. OneFlight(p, q)'
      BY <1>1, <3>1 DEF OneFlight, OnlyRequest, Flying
    <3> QED  BY <2>1, <3>4, <3>5, <3>6 DEF OnlyRequest, Flying
  <2> QED  BY <2>1, <2>2, <2>3 DEF OneFlight, Carries, Landed, Fresh, Rotated,
       Renewed, Flying, OnlyRequest
<1>6. KeptIsCurrent'
  <2>1. cached \in Tokens /\ keychain["refresh"] \in Tokens
    BY Fields DEF MobileInv, Keys
  <2>2. status = "authenticated" => Given(cached)
    BY DEF MobileInv, Laws, LoginInv
  <2>3. Given(cached) => (Ended(cached) => Ended(cached)')
    BY <1>2, <2>1 DEF SessionsEnd, Ended
  <2>4. Given(keychain["refresh"]) => (Current(keychain["refresh"]) => Current(keychain["refresh"])')
    BY <1>2, <2>1 DEF SessionsEnd, Current, Ended
  <2>5. \A q \in Requests : Rotated(q) /\ Here(q) => (Rotated(q) /\ Here(q))'
    BY <1>1 DEF Rotated, Here, OnlyRequest
  <2> QED  BY <1>8, <2>2, <2>3, <2>4, <2>5 DEF KeptIsCurrent, MobileInv, Laws, Given, Ended
<1>7. OnlyLossIsReuse'
  BY <1>8, Fields DEF OnlyLossIsReuse, MobileInv, Laws
<1> QED  BY <1>3, <1>4, <1>5, <1>6, <1>7 DEF Laws

LEMMA BeginKeeps ==
    ASSUME MobileInv, NEW r \in Requests, NEW kind \in {"me", "logout"}, Begin(r, kind)
    PROVE  Laws'
<1>1. /\ req[r].phase = "idle" /\ OnlyRequest(r) /\ status = "authenticated"
      /\ req'[r].phase = "sent" /\ req'[r].version = version
      /\ req'[r].token = cached /\ req'[r].retried = FALSE
  BY DEF Begin, Idle, OnlyRequest, MobileInv, MobileTypes, refreshVars
<1>2. UNCHANGED <<session, reused, issued, version, cached, keychain, writes,
                  status, account, signing, left, faults>>
  BY DEF Begin, serverVars, tokenVars, storeVars, bounds
<1> QED  BY <1>1, <1>2, OneRequest DEF MayEnd, Replayed, Counted

LEMMA AnsweredKeeps ==
    ASSUME MobileInv, NEW r \in Requests, Serve(r) \/ LoseRequest(r)
    PROVE  Laws'
<1>1. PICK a \in Answers :
         /\ Answered(r, a) /\ req[r].phase = "sent"
         /\ a = "denied" => ~Admitted(req[r].token)
  BY DEF Serve, LoseRequest, Answers, Answer
<1>2. /\ OnlyRequest(r)
      /\ req'[r].phase = "answered" /\ req'[r].version = req[r].version
      /\ req'[r].token = req[r].token /\ req'[r].retried = req[r].retried
      /\ req'[r].answer = a
  BY <1>1 DEF Serve, LoseRequest, Answered, OnlyRequest, MobileInv, MobileTypes,
     RequestStates, refreshVars
<1>3. UNCHANGED <<reused, issued, version, cached, keychain, writes,
                  status, account, signing, left>> /\ Counted
  BY LossOnly DEF Serve, LoseRequest, serverVars, tokenVars, storeVars, MobileInv
<1>4. MayEnd /\ \A l \in Logins : session'[l].expired = session[l].expired
  <2>1. session' = session \/ session' = [session EXCEPT ![req[r].token.login].live = FALSE]
    BY DEF Serve, LoseRequest, serverVars
  <2>2. \A l \in Logins : session'[l] = session[l]
                           \/ session'[l] = [session[l] EXCEPT !.live = FALSE]
    BY <2>1 DEF MobileInv, MobileTypes
  <2>3. \A l \in Logins : /\ session'[l].live => session[l].live
                          /\ session'[l].gen = session[l].gen
                          /\ session'[l].expired = session[l].expired
    BY <2>2 DEF MobileInv, MobileTypes, SessionStates
  <2> QED  BY <2>3 DEF MayEnd
<1>5. Replayed(r)'
  <2>1. req[r].token \in Tokens /\ Given(req[r].token) /\ req[r].token.login \in Logins
    BY <1>1, Fields DEF MobileInv, Laws, RequestInv, OwnRequest, Active, Given, Logins
  <2>2. req[r].retried => Valid(req[r].token)
    BY <1>1 DEF MobileInv, Laws, RequestInv, Replayed
  <2>3. ~Admitted(req[r].token) /\ Valid(req[r].token) => Ended(req[r].token)'
    BY <1>2, <1>4, <2>1 DEF Admitted, Valid, Ended, MayEnd
  <2> QED  BY <1>1, <1>2, <2>2, <2>3 DEF Replayed, Ended
<1> QED  BY <1>1, <1>2, <1>3, <1>4, <1>5, OneRequest DEF Active

\* An answer is taken and nobody signed out.
LEMMA TakenKeeps ==
    ASSUME MobileInv, NEW r \in Requests, req[r].phase = "answered", Done(r), Rest,
           UNCHANGED <<tokenVars, status, signing, left>>,
           account' = account \/ account' = cached.login
    PROVE  Laws'
<1>1. OnlyRequest(r) /\ req'[r].phase = "idle" /\ req'[r].retried = FALSE
  BY DEF Done, Rest, Idle, OnlyRequest, MobileInv, MobileTypes, refreshVars
<1>2. UNCHANGED <<session, reused, issued, version, cached, keychain, writes, faults>>
  BY DEF Rest, serverVars, tokenVars, bounds
<1> QED  BY <1>1, <1>2, OneRequest DEF MayEnd, Replayed, Counted, Active

LEMMA ReceiveMeKeeps ==
    ASSUME MobileInv, NEW r \in Requests, ReceiveMe(r)
    PROVE  Laws'
<1>1. account' = account \/ account' = cached.login
  BY DEF ReceiveMe, Mine, MobileInv, Laws, RequestInv, OwnRequest, Active, Here
<1> QED  BY <1>1, TakenKeeps DEF ReceiveMe, Mine

\* The server's own steps touch no request.
LEMMA ServerKeeps ==
    ASSUME MobileInv, NEW l \in Logins, Expire(l) \/ EndAtServer(l)
    PROVE  Laws'
<1>1. UNCHANGED <<reused, issued, version, cached, keychain, writes, status,
                  account, signing, left, req, flight, current, faults>>
  BY DEF Expire, EndAtServer, tokenVars, storeVars, refreshVars, bounds
<1>2. MayEnd
  <2>1. CASE Expire(l)
    BY <2>1, Fields DEF Expire, MayEnd, MobileInv, MobileTypes, SessionStates
  <2>2. CASE EndAtServer(l)
    BY <2>2, Fields DEF EndAtServer, MayEnd, MobileInv, MobileTypes, SessionStates
  <2> QED  BY <2>1, <2>2
<1> QED  BY <1>1, <1>2, OneRequest, Fields DEF OnlyRequest, Counted, MobileInv

-----------------------------------------------------------------------------
(* The refreshes. *)

\* A refresh of r that has not asked to be saved goes on; the sessions change
\* only where its own token is concerned.
LEMMA OneRefresh ==
    ASSUME MobileInv, NEW r \in Requests,
           \A q \in Requests : q # r => flight'[q] = flight[q],
           flight[r].phase \in {"read", "post"},
           flight'[r].phase \in {"post", "answered", "done"},
           UNCHANGED <<req, current, left, issued, status, cached, account,
                       signing, version, writes, keychain>>,
           Counted,
           \A l \in Logins :
             /\ session'[l].live => session[l].live
             /\ session'[l].expired = session[l].expired
             /\ session'[l].gen \in {session[l].gen, session[l].gen + 1}
             /\ l # req[r].token.login => session'[l] = session[l],
           Carries(r)', Landed(r)', OnlyLossIsReuse',
           \/ Rotated(r)' \/ faults' > 0 \/ Ended(req[r].token)'
           \/ session' = session /\ ~Rotated(r)'
    PROVE  Laws'
<1>8. faults' \in Nat /\ (faults' = 0 => faults = 0) /\ (faults > 0 => faults' > 0)
  BY LossOnly DEF MobileInv
<1>0. Flying(r) /\ Flying(r)' /\ req[r].phase = "waiting" /\ OwnRequest(r)
  BY DEF Flying, MobileInv, Laws, FlightInv, OwnFlight, RequestInv
<1>1. \A t \in Tokens : Given(t) => t.login \in Logins
  BY Fields DEF Given, Logins, MobileInv
<1>2. \A t \in Tokens : Given(t) =>
        /\ Ended(t) => Ended(t)'
        /\ Valid(t) => Valid(t)'
        /\ t.login # req[r].token.login /\ Current(t) => Current(t)'
  BY <1>1 DEF Ended, Valid, Current
<1>3. QueueInv' /\ HeadInv' /\ KeychainInv' /\ LoginInv' /\ LoadingInv'
  <2>1. SessionsOnly
    BY Fields DEF SessionsOnly, MobileInv, Laws, LoginInv
  <2>2. signing.phase # "none" => Current(signing.token)'
    BY <1>0, <1>2, Fields DEF MobileInv, Laws, LoginInv, Current, Ended, Active
  <2> QED  BY <1>0, <1>8, <2>1, <2>2, QuietStep DEF MobileInv, Active
<1>4. RequestInv'
  <2> SUFFICES ASSUME NEW q \in Requests, NEW p \in Requests
               PROVE  (OwnRequest(q) /\ WaitsFor(q) /\ Replayed(q) /\ SameSession(p, q))'
    BY DEF RequestInv
  <2> OwnRequest(q) /\ WaitsFor(q) /\ Replayed(q) /\ SameSession(p, q)
    BY DEF MobileInv, Laws, RequestInv
  <2>1. OwnRequest(q)'
    BY DEF OwnRequest, Active, Here, Given
  <2>2. WaitsFor(q)'
    BY <1>0 DEF WaitsFor, Flying
  <2>3. Replayed(q)'
    BY <1>2, Fields DEF Replayed, OwnRequest, Active, MobileInv, Valid, Ended
  <2>4. SameSession(p, q)'
    BY DEF SameSession, Active
  <2> QED  BY <2>1, <2>2, <2>3, <2>4
<1>5. FlightInv'
  <2>0. (current # NoRequest => Flying(current))'
    BY <1>0, Fields DEF Flying, MobileInv, MobileTypes, Laws, FlightInv
  <2> SUFFICES ASSUME NEW q \in Requests, NEW p \in Requests
               PROVE  (OwnFlight(q) /\ Carries(q) /\ Landed(q) /\ OneFlight(p, q))'
    BY <2>0 DEF FlightInv
  <2> OwnFlight(q) /\ Carries(q) /\ Landed(q) /\ OneFlight(p, q) /\ OneFlight(q, r)
    BY DEF MobileInv, Laws, FlightInv
  <2>1. OwnFlight(q)'
    BY <1>0 DEF OwnFlight, Flying, Here
  <2>2. OneFlight(p, q)'
    BY <1>0 DEF OneFlight, Flying
  <2>3. CASE q = r
    BY <2>1, <2>2, <2>3
  <2>4. CASE q # r /\ ~Flying(q)
    BY <2>1, <2>2, <2>4 DEF Carries, Landed, Fresh, Rotated, Renewed, Flying
  <2>5. CASE q # r /\ Flying(q)
    <3>1. /\ flight'[q] = flight[q] /\ Given(req[q].token)
          /\ req[q].token \in Tokens /\ flight[q].token \in Tokens
          /\ req[q].token.login # req[r].token.login
      BY <1>0, <2>5, Fields DEF OwnFlight, MobileInv, Laws, RequestInv,
         OwnRequest, Active, OneFlight, SameSession
    <3>2. Given(flight[q].token) /\ flight[q].token.login = req[q].token.login =>
            /\ Valid(flight[q].token) => Valid(flight[q].token)'
            /\ Current(flight[q].token) => Current(flight[q].token)'
      BY <1>2, <3>1 DEF Current, Valid, Ended
    <3>3. Ended(req[q].token) => Ended(req[q].token)'
      BY <1>2, <3>1 DEF Ended
    <3>4. Carries(q)'
      BY <1>8, <3>1, <3>2 DEF Carries, Fresh, Rotated, Renewed, Given, Current, Valid, Ended
    <3>5. Landed(q)'
      BY <1>8, <3>1, <3>3 DEF Landed, Here, Ended
    <3> QED  BY <2>1, <2>2, <3>4, <3>5
  <2> QED  BY <2>3, <2>4, <2>5
<1>6. KeptIsCurrent'
  <2> SUFFICES ASSUME (/\ status = "authenticated" /\ faults = 0
                       /\ \A q \in Requests : Rotated(q) => ~Here(q))'
               PROVE  \/ Ended(cached)'
                      \/ /\ keychain["refresh"].login = cached.login
                         /\ Current(keychain["refresh"])'
    BY DEF KeptIsCurrent
  <2>0. cached \in Tokens /\ keychain["refresh"] \in Tokens /\ Given(cached)
    BY Fields DEF MobileInv, Keys, Laws, LoginInv
  <2>1. Ended(cached) => Ended(cached)'
    BY <1>2, <2>0 DEF Ended
  <2>2. CASE Here(r)
    <3>1. CASE Ended(req[r].token)'
      BY <1>0, <2>2, <3>1 DEF OwnRequest, Active, Ended
    <3>2. CASE session' = session /\ ~Rotated(r)'
      <4>1. \A q \in Requests : Rotated(q) => ~Here(q)
        BY <3>2 DEF Rotated, Here
      <4> QED  BY <1>8, <3>2, <4>1 DEF KeptIsCurrent, MobileInv, Laws, Ended, Current
    <3> QED  BY <1>8, <2>2, <3>1, <3>2 DEF Here
  <2>3. CASE ~Here(r)
    <3>1. \A q \in Requests : Rotated(q) => ~Here(q)
      BY <2>3 DEF Rotated, Here
    <3>2. req[r].token.login # cached.login
      BY <1>0, <2>3 DEF OwnRequest, Active
    <3>3. keychain["refresh"].login = cached.login =>
            (Current(keychain["refresh"]) => Current(keychain["refresh"])')
      BY <1>2, <2>0, <3>2 DEF Given, Current, Ended
    <3> QED  BY <1>8, <2>1, <3>1, <3>3 DEF KeptIsCurrent, MobileInv, Laws, Ended, Current
  <2> QED  BY <2>2, <2>3
<1> QED  BY <1>3, <1>4, <1>5, <1>6 DEF Laws

\* The refresh token kept in the session that stands, read by its refresh.
LEMMA KeptToken ==
    ASSUME MobileInv, NEW r \in Requests, flight[r].phase = "read", Here(r)
    PROVE  /\ cached.login = req[r].token.login /\ Given(cached)
           /\ keychain["refresh"] # NoToken =>
                keychain["refresh"].login = req[r].token.login
           /\ faults = 0 => \/ Ended(req[r].token)
                            \/ keychain["refresh"] # NoToken /\ Current(keychain["refresh"])
<1>1. /\ cached.login = req[r].token.login /\ Given(cached)
      /\ status = "authenticated"
  BY DEF MobileInv, Laws, FlightInv, OwnFlight, RequestInv, OwnRequest,
     LoginInv, Flying, Active
<1>2. keychain["refresh"] # NoToken => keychain["refresh"].login = req[r].token.login
  BY <1>1 DEF MobileInv, Laws, KeychainInv, Given, Keys
<1>3. \A q \in Requests : Rotated(q) => ~Here(q)
  <2> SUFFICES ASSUME NEW q \in Requests, Rotated(q), Here(q) PROVE FALSE
    OBVIOUS
  <2>1. Flying(q) /\ Flying(r) /\ req[q].version = req[r].version
    BY DEF Rotated, Here, Flying
  <2>2. q = r
    BY <2>1 DEF MobileInv, Laws, FlightInv, OneFlight
  <2> QED  BY <2>2 DEF Rotated
<1>4. faults = 0 => \/ Ended(cached)
                    \/ /\ keychain["refresh"].login = cached.login
                       /\ Current(keychain["refresh"])
  BY <1>1, <1>3 DEF MobileInv, Laws, KeptIsCurrent
<1>5. keychain["refresh"].login = cached.login => keychain["refresh"] # NoToken
  BY <1>1, Fields DEF Given, NoToken, MobileInv
<1>6. Ended(cached) => Ended(req[r].token)
  BY <1>1 DEF Ended
<1> QED  BY <1>1, <1>2, <1>4, <1>5, <1>6

LEMMA ReadRefreshTokenKeeps ==
    ASSUME MobileInv, NEW r \in Requests, ReadRefreshToken(r)
    PROVE  Laws'
<1>1. /\ flight[r].phase = "read" /\ Counted
      /\ UNCHANGED <<session, issued, reused, req, current, left, status, cached,
                     account, signing, version, writes, keychain>>
  BY LossOnly DEF ReadRefreshToken, Flies, serverVars, tokenVars, storeVars, MobileInv
<1>2. \A q \in Requests : q # r => flight'[q] = flight[q]
  BY DEF ReadRefreshToken, FlightAnswered, MobileInv, MobileTypes
<1>3. \/ /\ Here(r) /\ keychain["refresh"] # NoToken /\ faults' = faults
         /\ flight'[r].phase = "post" /\ flight'[r].token = keychain["refresh"]
      \/ /\ Here(r) /\ flight'[r].phase = "done" /\ flight'[r].answer = "denied"
         /\ keychain["refresh"] = NoToken \/ faults' > 0
      \/ ~Here(r) /\ flight'[r].phase = "done" /\ flight'[r].answer = "cancelled"
  BY LossOnly DEF ReadRefreshToken, FlightAnswered, Here, Keep, MobileInv,
     MobileTypes, FlightStates
<1>4. Carries(r)'
  BY <1>1, <1>3, KeptToken DEF Carries, Fresh, Rotated, Renewed, Current, Ended
<1>5. Landed(r)'
  BY <1>1, <1>3, KeptToken, LossOnly DEF Landed, Here, Ended, MobileInv
<1>6. OnlyLossIsReuse'
  BY <1>1, LossOnly, Fields DEF OnlyLossIsReuse, MobileInv, Laws
<1>7. session' = session /\ ~Rotated(r)'
  BY <1>1, <1>3 DEF Rotated
<1> QED  BY <1>1, <1>2, <1>3, <1>4, <1>5, <1>6, <1>7, OneRefresh

\* What POST /refresh does to the session of its token.
LEMMA RotationAtServer ==
    ASSUME MobileInv, NEW r \in Requests, ServeRefresh(r)
    PROVE  LET t == flight[r].token
               good == session[t.login].live /\ t.gen = session[t.login].gen IN
           /\ t \in Tokens /\ Given(t) /\ t.login = req[r].token.login
           /\ t.login \in Logins
           /\ \A l \in Logins : l # t.login => session'[l] = session[l]
           /\ session'[t.login].live <=> good
           /\ session'[t.login].expired = session[t.login].expired
           /\ session'[t.login].gen = IF good THEN session[t.login].gen + 1
                                      ELSE session[t.login].gen
           /\ reused' <=> reused \/ (session[t.login].live /\ ~good)
<1> DEFINE t == flight[r].token
           good == session[t.login].live /\ t.gen = session[t.login].gen
<1>1. flight[r].phase = "post"
  BY DEF ServeRefresh, Flies
<1>2. t \in Tokens /\ t.login = req[r].token.login
  BY <1>1, Fields DEF MobileInv, Laws, FlightInv, Carries
<1>3. Given(req[r].token)
  BY <1>1 DEF MobileInv, Laws, FlightInv, RequestInv, OwnFlight, OwnRequest, Flying, Active
<1>4. Given(t) /\ t.login \in Logins
  BY <1>2, <1>3, Fields DEF Given, Logins, MobileInv
<1>5. session' = [session EXCEPT ![t.login].live = good,
                       ![t.login].gen = IF good THEN @ + 1 ELSE @]
  BY DEF ServeRefresh
<1>6. session \in [Logins -> SessionStates] /\ session[t.login] \in SessionStates
  BY <1>4 DEF MobileInv, MobileTypes
<1>7. session'[t.login] = [session[t.login] EXCEPT !.live = good,
                             !.gen = IF good THEN @ + 1 ELSE @]
  BY <1>4, <1>5, <1>6
<1>8. /\ session'[t.login].live <=> good
      /\ session'[t.login].expired = session[t.login].expired
      /\ session'[t.login].gen = IF good THEN session[t.login].gen + 1
                                 ELSE session[t.login].gen
  BY <1>6, <1>7 DEF SessionStates
<1>9. \A l \in Logins : l # t.login => session'[l] = session[l]
  BY <1>5, <1>6
<1>10. reused' <=> reused \/ (session[t.login].live /\ ~good)
  BY DEF ServeRefresh
<1> QED  BY <1>2, <1>4, <1>8, <1>9, <1>10

LEMMA ServeRefreshKeeps ==
    ASSUME MobileInv, NEW r \in Requests, ServeRefresh(r)
    PROVE  Laws'
<1> DEFINE t == flight[r].token
           s == session[t.login]
           good == s.live /\ t.gen = s.gen
<1>1. /\ flight[r].phase = "post" /\ Counted
      /\ UNCHANGED <<issued, req, current, left, status, cached,
                     account, signing, version, writes, keychain>>
  BY LossOnly DEF ServeRefresh, Flies, tokenVars, storeVars, MobileInv
<1>2. \A q \in Requests : q # r => flight'[q] = flight[q]
  BY DEF ServeRefresh, FlightAnswered, MobileInv, MobileTypes
<1>3. \/ /\ good /\ flight'[r].phase = "answered"
         /\ flight'[r].token.login = t.login /\ flight'[r].token.gen = t.gen + 1
      \/ /\ ~good /\ flight'[r].phase = "done" /\ flight'[r].answer = "denied"
      \/ /\ faults' > 0 /\ flight'[r].phase = "done" /\ flight'[r].answer = "lost"
  <2>1. CASE FlightAnswered(r, "lost", NoToken) /\ Lose
    BY <2>1, LossOnly DEF FlightAnswered, MobileInv, MobileTypes, FlightStates
  <2>2. CASE FlightAnswered(r, IF good THEN "ok" ELSE "denied",
                            [t EXCEPT !.gen = IF good THEN @ + 1 ELSE @])
    <3>1. t \in Tokens
      BY Fields DEF MobileInv
    <3>2. flight'[r] = [phase |-> IF good THEN "answered" ELSE "done",
                        answer |-> IF good THEN "ok" ELSE "denied",
                        token |-> [t EXCEPT !.gen = IF good THEN @ + 1 ELSE @]]
      BY <2>2 DEF FlightAnswered, MobileInv, MobileTypes
    <3> QED  BY <3>1, <3>2 DEF Tokens
  <2> QED  BY <2>1, <2>2 DEF ServeRefresh
<1>4. /\ t \in Tokens /\ Given(t) /\ t.login = req[r].token.login
      /\ t.login \in Logins
      /\ \A l \in Logins : l # t.login => session'[l] = session[l]
      /\ session'[t.login].live <=> good
      /\ session'[t.login].expired = s.expired
      /\ session'[t.login].gen = IF good THEN s.gen + 1 ELSE s.gen
      /\ reused' <=> reused \/ (s.live /\ ~good)
  BY RotationAtServer
<1>5. t.gen \in Nat /\ s.gen \in Nat /\ s.expired \in Nat /\ s.expired <= s.gen
  BY <1>4, Fields DEF MobileInv, Laws, LoginInv
<1>6. Carries(r)'
  BY <1>1, <1>3, <1>4, <1>5 DEF Carries, Fresh, Rotated, Renewed, Current, Valid, Ended
<1>7. Landed(r)'
  BY <1>1, <1>3, <1>4 DEF Landed, Here, Ended
<1>8. OnlyLossIsReuse'
  <2>1. faults = 0 => ~(s.live /\ ~good)
    BY <1>1 DEF MobileInv, Laws, FlightInv, Carries, Current, Ended
  <2> QED  BY <1>1, <1>4, <2>1, LossOnly, Fields DEF OnlyLossIsReuse, MobileInv, Laws
<1>9. Rotated(r)' \/ faults' > 0 \/ Ended(req[r].token)'
  BY <1>1, <1>3, <1>4 DEF Rotated, Ended
<1>10. \A l \in Logins :
             /\ session'[l].live => session[l].live
             /\ session'[l].expired = session[l].expired
             /\ session'[l].gen \in {session[l].gen, session[l].gen + 1}
             /\ l # req[r].token.login => session'[l] = session[l]
  BY <1>4
<1>11. flight'[r].phase \in {"answered", "done"}
  BY <1>3
<1> HIDE DEF t, s, good
<1> QED  BY <1>1, <1>2, <1>6, <1>7, <1>8, <1>9, <1>10, <1>11, OneRefresh

LEMMA LoseRefreshKeeps ==
    ASSUME MobileInv, NEW r \in Requests, LoseRefresh(r)
    PROVE  Laws'
<1>1. /\ flight[r].phase = "post" /\ Counted /\ faults' > 0
      /\ UNCHANGED <<session, issued, reused, req, current, left, status, cached,
                     account, signing, version, writes, keychain>>
  BY LossOnly DEF LoseRefresh, Flies, serverVars, tokenVars, storeVars, MobileInv
<1>2. /\ \A q \in Requests : q # r => flight'[q] = flight[q]
      /\ flight'[r].phase = "done" /\ flight'[r].answer = "lost"
  BY DEF LoseRefresh, FlightAnswered, MobileInv, MobileTypes, FlightStates
<1>3. (Carries(r) /\ Landed(r) /\ OnlyLossIsReuse)'
  BY <1>1, <1>2 DEF Carries, Landed, OnlyLossIsReuse, Fresh, Rotated, Renewed
<1>4. \A l \in Logins :
             /\ session'[l].live => session[l].live
             /\ session'[l].expired = session[l].expired
             /\ session'[l].gen \in {session[l].gen, session[l].gen + 1}
             /\ l # req[r].token.login => session'[l] = session[l]
  BY <1>1
<1> QED  BY <1>1, <1>2, <1>3, <1>4, OneRefresh

-----------------------------------------------------------------------------
(* Signing out, and the end of a refresh. *)

LEMMA ReceiveDenialKeeps ==
    ASSUME MobileInv, NEW r \in Requests, ReceiveDenial(r)
    PROVE  Laws'
<1>1. /\ req[r].phase = "answered" /\ Here(r) /\ Active(r) /\ OwnRequest(r)
      /\ UNCHANGED <<session, issued, reused, left, status, cached, account,
                     signing, version, writes, keychain, faults>>
  BY DEF ReceiveDenial, Mine, Here, Active, serverVars, tokenVars, storeVars,
     bounds, MobileInv, Laws, RequestInv
<1>2. /\ \A q \in Requests : q # r => req'[q] = req[q]
      /\ req'[r].phase = "waiting" /\ req'[r].retried /\ req'[r].token = req[r].token
      /\ req'[r].version = req[r].version
      /\ req'[r].on = IF Shares(r) THEN current ELSE r
  <2>1. req'[r] = [req[r] EXCEPT !.phase = "waiting", !.retried = TRUE,
           !.answer = "none", !.on = IF Shares(r) THEN current ELSE r]
    BY DEF ReceiveDenial, MobileInv, MobileTypes
  <2>2. \A q \in Requests : q # r => req'[q] = req[q]
    BY DEF ReceiveDenial, MobileInv, MobileTypes
  <2> QED  BY <2>1, <2>2 DEF MobileInv, MobileTypes, RequestStates
<1>3. flight[r].phase = "none" /\ current # r
  BY <1>1, OwnRefresh
<1>4. /\ \A q \in Requests : q # r => flight'[q] = flight[q]
      /\ IF Shares(r) THEN flight'[r] = flight[r] /\ current' = current
                      ELSE flight'[r].phase = "read" /\ current' = r
  BY DEF ReceiveDenial, refreshVars, MobileInv, MobileTypes, FlightStates
<1>5. \A q \in Requests : Active(q)' => Active(q) /\ req'[q].token = req[q].token
                                       /\ req'[q].version = req[q].version
  BY <1>1, <1>2 DEF Active
<1>6. QueueInv' /\ HeadInv' /\ KeychainInv' /\ LoginInv' /\ LoadingInv'
  <2>1. SessionsOnly
    BY <1>1 DEF SessionsOnly, MobileInv, Laws, LoginInv
  <2>2. signing.phase # "none" => Current(signing.token)'
    BY <1>1 DEF MobileInv, Laws, LoginInv, Current, Ended
  <2>3. \A q \in Requests : req'[q].version = req[q].version
    BY <1>2
  <2> QED  BY <1>1, <1>3, <1>4, <1>5, <2>1, <2>2, <2>3, QuietStep DEF MobileInv
<1>7. Shares(r) => /\ current \in Requests /\ Flying(current) /\ current # r
                   /\ req[current].version = req[r].version
  BY <1>3 DEF Shares, MobileInv, MobileTypes, Laws, FlightInv
<1>8. ~Shares(r) => \A q \in Requests : Flying(q) => req[q].version # version
  BY <1>1, Fields DEF Shares, MobileInv, Laws, FlightInv, OwnFlight, Here
<1>9. RequestInv'
  <2> SUFFICES ASSUME NEW q \in Requests, NEW p \in Requests
               PROVE  (OwnRequest(q) /\ WaitsFor(q) /\ Replayed(q) /\ SameSession(p, q))'
    BY DEF RequestInv
  <2> OwnRequest(q) /\ WaitsFor(q) /\ Replayed(q) /\ SameSession(p, q)
    BY DEF MobileInv, Laws, RequestInv
  <2>1. OwnRequest(q)'
    BY <1>1, <1>5 DEF OwnRequest, Here, Given
  <2>2. WaitsFor(q)'
    <3>1. CASE q = r
      BY <1>1, <1>2, <1>4, <1>7, <3>1 DEF WaitsFor, Flying
    <3>2. CASE q # r
      BY <1>2, <1>3, <1>4, <3>2 DEF WaitsFor, Flying
    <3> QED  BY <3>1, <3>2
  <2>3. Replayed(q)'
    BY <1>1, <1>2 DEF Replayed, Valid, Ended
  <2>4. SameSession(p, q)'
    BY <1>5 DEF SameSession
  <2> QED  BY <2>1, <2>2, <2>3, <2>4
<1>10. FlightInv'
  <2>0. (current # NoRequest => Flying(current))'
    BY <1>4, <1>7 DEF Flying, MobileInv, Laws, FlightInv
  <2> SUFFICES ASSUME NEW q \in Requests, NEW p \in Requests
               PROVE  (OwnFlight(q) /\ Carries(q) /\ Landed(q) /\ OneFlight(p, q))'
    BY <2>0 DEF FlightInv
  <2> OwnFlight(q) /\ Carries(q) /\ Landed(q) /\ OneFlight(p, q)
    BY DEF MobileInv, Laws, FlightInv
  <2>1. OwnFlight(q)'
    BY <1>1, <1>2, <1>3, <1>4, <1>8 DEF OwnFlight, Flying, Here
  <2>2. OneFlight(p, q)'
    BY <1>1, <1>2, <1>3, <1>4, <1>8 DEF OneFlight, Flying, Here
  <2>3. Carries(q)' /\ Landed(q)'
    BY <1>1, <1>2, <1>3, <1>4 DEF Carries, Landed, Fresh, Rotated, Renewed,
       Current, Valid, Ended, Here
  <2> QED  BY <2>1, <2>2, <2>3
<1>11. KeptIsCurrent' /\ OnlyLossIsReuse'
  <2>1. \A q \in Requests : Rotated(q)' = Rotated(q) /\ (Here(q)' <=> Here(q))
    BY <1>1, <1>2, <1>3, <1>4 DEF Rotated, Here
  <2> QED  BY <1>1, <2>1 DEF KeptIsCurrent, OnlyLossIsReuse, MobileInv, Laws, Current, Ended
<1> QED  BY <1>6, <1>9, <1>10, <1>11 DEF Laws

\* Whoever signs out, of the requests and refreshes some end and the others
\* find themselves in an earlier session.
LEMMA SignOutKeeps ==
    ASSUME MobileInv, SignOut, status = "authenticated",
           UNCHANGED <<session, issued, reused, faults>>,
           \A q \in Requests : \/ req'[q] = req[q]
                               \/ req'[q].phase = "idle" /\ req'[q].retried = FALSE,
           \A q \in Requests : \/ flight'[q] = flight[q] /\ (Flying(q) => req'[q] = req[q])
                               \/ flight'[q].phase = "none" /\ flight[q].phase = "done",
           \A q \in Requests : WaitsFor(q)',
           (current # NoRequest => Flying(current))'
    PROVE  Laws'
<1>1. /\ version' = version + 1 /\ version \in Nat /\ cached' = NoToken
      /\ status' = "unauthenticated" /\ account' = 0
      /\ left' = left \cup ({cached.login} \cap Logins)
      /\ UNCHANGED <<keychain, signing>>
  BY Fields DEF SignOut, MobileInv
<1>2. /\ Given(cached) /\ signing.phase = "none" /\ ~Clearing
      /\ left \subseteq 1..issued
  BY DEF MobileInv, Laws, LoginInv, QueueInv
<1>3. \A q \in Requests : Active(q)' =>
        /\ Active(q) /\ req'[q] = req[q] /\ OwnRequest(q)
        /\ req[q].version <= version /\ Given(req[q].token) /\ req[q].version \in Nat
        /\ ~Here(q)'
  <2> SUFFICES ASSUME NEW q \in Requests, Active(q)'
               PROVE  /\ Active(q) /\ req'[q] = req[q] /\ OwnRequest(q)
                      /\ req[q].version <= version /\ Given(req[q].token) /\ req[q].version \in Nat
                      /\ ~Here(q)'
    OBVIOUS
  <2>1. Active(q) /\ req'[q] = req[q] /\ OwnRequest(q) /\ req[q].version \in Nat
    BY Fields DEF Active, MobileInv, Laws, RequestInv
  <2> QED  BY <1>1, <2>1 DEF OwnRequest, Here
<1>4. \A q \in Requests : flight[q].phase = "saving" =>
               /\ flight'[q] = flight[q] /\ req'[q] = req[q]
  BY DEF Flying
<1> DEFINE w == Write("signOut", NoToken, version', NoRequest)
<1>5. /\ w \in Operations /\ w.op = "signOut" /\ w.token = NoToken /\ w.todo = Keys
      /\ writes' = Append(writes, w)
  <2>1. version' \in Nat
    BY <1>1
  <2>2. w \in Operations
    BY <2>1, WriteType, NothingType
  <2> QED  BY <2>2 DEF SignOut, Write
<1> HIDE DEF w
<1>6. /\ writes \in Seq(Operations)
      /\ writes' # << >> /\ Len(writes) \in Nat
      /\ DOMAIN writes = 1..Len(writes) /\ DOMAIN writes' = 1..(Len(writes) + 1)
      /\ \A i \in DOMAIN writes : i \in Nat /\ writes'[i] = writes[i]
      /\ writes'[Len(writes) + 1] = w
  BY <1>5, Push DEF MobileInv, MobileTypes
<1>7. Clearing'
  BY <1>5, <1>6 DEF Clearing, Clears
<1>8. QueueInv'
  <2>1. \A i \in DOMAIN writes : /\ writes[i].op = "save" /\ OwnSave(writes[i])
                                 /\ i > 1 => writes[i].todo = Keys
    BY <1>2 DEF Clearing, Clears, MobileInv, Laws, QueueInv
  <2>2. \A v : OwnSave(v) => OwnSave(v)'
    BY <1>1, <1>4 DEF OwnSave
  <2>3. \A i \in DOMAIN writes' :
          \/ i \in DOMAIN writes /\ writes'[i] = writes[i]
          \/ i = Len(writes) + 1 /\ writes'[i] = w
    BY <1>6
  <2>4. (\A i \in DOMAIN writes :
         /\ i > 1 => writes[i].todo = Keys
         /\ writes[i].op = "save" => OwnSave(writes[i])
         /\ writes[i].op = "signIn" => signing.phase = "clearing"
         /\ Clears(writes[i]) => writes[i].token = NoToken)'
    BY <1>5, <2>1, <2>2, <2>3 DEF Clears
  <2>5. (\A i, j \in DOMAIN writes : i < j =>
         /\ writes[i].op = "signIn" => writes[j].op = "save"
         /\ writes[i].op = "save" /\ writes[j].op = "save" =>
              writes[i].by # writes[j].by)'
    BY <1>5, <1>6, <2>1, <2>3 DEF MobileInv, Laws, QueueInv
  <2> QED  BY <1>1, <1>2, <2>4, <2>5 DEF QueueInv
<1>9. HeadInv'
  <2>1. CASE writes = << >>
    <3>1. writes'[1] = w
      BY <1>6, <2>1, EmptySeq
    <3> QED  BY <1>5, <3>1 DEF HeadInv, Clears
  <2>2. CASE writes # << >>
    <3>1. 1 \in DOMAIN writes /\ writes'[1] = writes[1]
      BY <1>6, <2>2, EmptySeq
    <3>2. writes[1].op = "save"
      BY <1>2, <3>1 DEF Clearing, Clears
    <3> QED  BY <1>1, <1>7, <2>2, <3>1, <3>2 DEF HeadInv, Clears, MobileInv, Laws
  <2> QED  BY <2>1, <2>2
<1>10. KeychainInv'
  BY <1>1, <1>2, <1>7 DEF KeychainInv, Given, MobileInv, Laws
<1>11. LoginInv'
  <2>1. left' \subseteq 1..issued
    BY <1>1, <1>2 DEF Given
  <2> QED  BY <1>1, <1>2, <2>1 DEF LoginInv, MobileInv, Laws, NoToken
<1>12. LoadingInv'
  BY <1>1 DEF LoadingInv
<1>13. RequestInv'
  <2> SUFFICES ASSUME NEW q \in Requests, NEW p \in Requests
               PROVE  (OwnRequest(q) /\ WaitsFor(q) /\ Replayed(q) /\ SameSession(p, q))'
    BY DEF RequestInv
  <2> WaitsFor(q) /\ Replayed(q) /\ SameSession(p, q)
    BY DEF MobileInv, Laws, RequestInv
  <2>1. OwnRequest(q)'
    BY <1>1, <1>3, Fields DEF OwnRequest, Given, MobileInv, NoToken
  <2>2. Replayed(q)'
    BY DEF Replayed, Valid, Ended
  <2>3. SameSession(p, q)'
    BY <1>3 DEF SameSession
  <2> QED  BY <2>1, <2>2, <2>3
<1>14. FlightInv'
  <2> SUFFICES ASSUME NEW q \in Requests, NEW p \in Requests
               PROVE  (OwnFlight(q) /\ Carries(q) /\ Landed(q) /\ OneFlight(p, q))'
    BY DEF FlightInv
  <2> OwnFlight(q) /\ Carries(q) /\ Landed(q) /\ OneFlight(p, q)
    BY DEF MobileInv, Laws, FlightInv
  <2>1. Flying(q)' => /\ Flying(q) /\ flight'[q] = flight[q] /\ req'[q] = req[q]
                      /\ req[q].phase = "waiting" /\ req[q].on = q /\ ~Here(q)'
    BY <1>3 DEF OwnFlight, Flying, Active
  <2>2. Flying(p)' => Flying(p) /\ req'[p] = req[p]
    BY DEF Flying
  <2>3. CASE Flying(q)'
    BY <1>1, <2>1, <2>2, <2>3 DEF OwnFlight, Carries, Landed, OneFlight, Flying,
       Fresh, Rotated, Renewed, Current, Valid, Ended, Here
  <2>4. CASE ~Flying(q)'
    BY <2>4 DEF OwnFlight, Carries, Landed, OneFlight, Flying, Fresh, Rotated, Renewed
  <2> QED  BY <2>3, <2>4
<1>15. KeptIsCurrent' /\ OnlyLossIsReuse'
  BY <1>1 DEF KeptIsCurrent, OnlyLossIsReuse, MobileInv, Laws
<1> QED  BY <1>8, <1>9, <1>10, <1>11, <1>12, <1>13, <1>14, <1>15 DEF Laws

LEMMA ReceiveKeeps ==
    ASSUME MobileInv, NEW r \in Requests,
           ReceiveStale(r) \/ ReceiveLogout(r) \/ ReceiveSecondDenial(r)
    PROVE  Laws'
<1>1. /\ req[r].phase = "answered" /\ Done(r) /\ Rest
      /\ \/ StaySignedIn
         \/ Here(r) /\ SignOut
  BY DEF ReceiveStale, ReceiveLogout, ReceiveSecondDenial, Mine, LogsOut, EndSession, Here
<1>2. CASE StaySignedIn
  BY <1>1, <1>2, TakenKeeps DEF StaySignedIn, storeVars
<1>3. CASE Here(r) /\ SignOut
  <2>1. status = "authenticated"
    BY <1>1, <1>3 DEF MobileInv, Laws, RequestInv, OwnRequest, Active
  <2>2. flight[r].phase = "none" /\ current # r
    BY <1>1, OwnRefresh
  <2>3. UNCHANGED <<session, issued, reused, faults, flight, current>>
    BY <1>1 DEF Rest, serverVars, refreshVars, bounds
  <2>4. /\ \A q \in Requests : q # r => req'[q] = req[q]
        /\ req'[r].phase = "idle" /\ req'[r].retried = FALSE
    BY <1>1 DEF Done, Idle, MobileInv, MobileTypes
  <2>5. \A q \in Requests : WaitsFor(q)'
    BY <2>2, <2>3, <2>4 DEF WaitsFor, Flying, MobileInv, Laws, RequestInv
  <2>6. (current # NoRequest => Flying(current))'
    BY <2>3 DEF Flying, MobileInv, Laws, FlightInv
  <2> QED  BY <1>3, <2>1, <2>2, <2>3, <2>4, <2>5, <2>6, SignOutKeeps DEF Flying
<1> QED  BY <1>1, <1>2, <1>3

\* The replays and the others who waited for a refresh that is over.
LEMMA WaitersGoOn ==
    ASSUME MobileInv, NEW r \in Requests, EndFlight(r)
    PROVE  /\ flight[r].phase = "done" /\ req[r].phase = "waiting" /\ req[r].on = r
           /\ flight'[r].phase = "none"
           /\ \A q \in Requests : q # r => flight'[q] = flight[q]
           /\ current' = IF current = r THEN NoRequest ELSE current
           /\ \A q \in Requests :
                \/ ~Waits(q, r) /\ req'[q] = req[q]
                \/ /\ Waits(q, r) /\ req'[q].phase = "idle" /\ req'[q].retried = FALSE
                \/ /\ Waits(q, r) /\ flight[r].answer = "ok" /\ Here(q) /\ Here(r)
                   /\ req'[q].phase = "sent" /\ req'[q].token = cached
                   /\ req'[q].version = req[q].version
           /\ \A q \in Requests : Flying(q)' => /\ q # r /\ Flying(q) /\ ~Waits(q, r)
                                                /\ req'[q] = req[q]
           /\ \A q \in Requests : WaitsFor(q)'
           /\ (current # NoRequest => Flying(current))'
<1>1. flight[r].phase = "done" /\ req[r].phase = "waiting" /\ req[r].on = r
  BY DEF EndFlight, MobileInv, Laws, FlightInv, OwnFlight, Flying
<1>2. /\ flight'[r].phase = "none"
      /\ \A q \in Requests : q # r => flight'[q] = flight[q]
      /\ current' = IF current = r THEN NoRequest ELSE current
  BY DEF EndFlight, Settled, NoFlight, MobileInv, MobileTypes
<1>3. \A q \in Requests : Waits(q, r) => req[q].version = req[r].version
  BY DEF Waits, MobileInv, Laws, RequestInv, WaitsFor
<1>4. \A q \in Requests :
                \/ ~Waits(q, r) /\ req'[q] = req[q]
                \/ Waits(q, r) /\ req'[q] = Idle
                \/ /\ Waits(q, r) /\ flight[r].answer = "ok" /\ Here(q)
                   /\ req'[q] = [req[q] EXCEPT !.phase = "sent", !.on = NoRequest,
                                               !.token = cached]
  BY DEF EndFlight, Here
<1>5. \A q \in Requests :
                \/ ~Waits(q, r) /\ req'[q] = req[q]
                \/ /\ Waits(q, r) /\ req'[q].phase = "idle" /\ req'[q].retried = FALSE
                \/ /\ Waits(q, r) /\ flight[r].answer = "ok" /\ Here(q) /\ Here(r)
                   /\ req'[q].phase = "sent" /\ req'[q].token = cached
                   /\ req'[q].version = req[q].version
  <2> SUFFICES ASSUME NEW q \in Requests
               PROVE  \/ ~Waits(q, r) /\ req'[q] = req[q]
                      \/ /\ Waits(q, r) /\ req'[q].phase = "idle" /\ req'[q].retried = FALSE
                      \/ /\ Waits(q, r) /\ flight[r].answer = "ok" /\ Here(q) /\ Here(r)
                         /\ req'[q].phase = "sent" /\ req'[q].token = cached
                         /\ req'[q].version = req[q].version
    OBVIOUS
  <2>1. Waits(q, r) /\ Here(q) => Here(r)
    BY <1>3 DEF Here
  <2>2. Idle.phase = "idle" /\ Idle.retried = FALSE
    BY DEF Idle
  <2>3. CASE Waits(q, r) /\ req'[q] = Idle
    BY <2>2, <2>3
  <2>4. CASE /\ Waits(q, r) /\ flight[r].answer = "ok" /\ Here(q)
             /\ req'[q] = [req[q] EXCEPT !.phase = "sent", !.on = NoRequest,
                                         !.token = cached]
    <3>1. req'[q].phase = "sent" /\ req'[q].token = cached /\ req'[q].version = req[q].version
      BY <2>4 DEF MobileInv, MobileTypes, RequestStates
    <3> QED  BY <2>1, <2>4, <3>1
  <2> QED  BY <1>4, <2>3, <2>4
<1>6. \A q \in Requests : Flying(q)' => /\ q # r /\ Flying(q) /\ ~Waits(q, r)
                                        /\ req'[q] = req[q]
  BY <1>2, <1>5 DEF Flying, Waits, MobileInv, Laws, FlightInv, OwnFlight
<1>7. \A q \in Requests : WaitsFor(q)'
  <2> SUFFICES ASSUME NEW q \in Requests, req'[q].phase = "waiting"
               PROVE  WaitsFor(q)'
    BY DEF WaitsFor
  <2>1. /\ ~Waits(q, r) /\ req'[q] = req[q] /\ req[q].on # r /\ req[q].retried
        /\ req[q].on \in Requests /\ Flying(req[q].on)
        /\ req[req[q].on].version = req[q].version
    BY <1>5 DEF Waits, WaitsFor, MobileInv, Laws, RequestInv
  <2>2. req[req[q].on].on = req[q].on
    BY <2>1 DEF MobileInv, Laws, FlightInv, OwnFlight
  <2>3. req'[req[q].on] = req[req[q].on] /\ flight'[req[q].on] = flight[req[q].on]
    BY <1>2, <1>5, <2>1, <2>2 DEF Waits
  <2> QED  BY <2>1, <2>3 DEF WaitsFor, Flying
<1>8. (current # NoRequest => Flying(current))'
  BY <1>2 DEF Flying, MobileInv, MobileTypes, Laws, FlightInv
<1> QED  BY <1>1, <1>2, <1>5, <1>6, <1>7, <1>8

LEMMA EndFlightStays ==
    ASSUME MobileInv, NEW r \in Requests, EndFlight(r), StaySignedIn
    PROVE  Laws'
<1>1. UNCHANGED <<session, issued, reused, left, status, cached, account,
                  signing, version, writes, keychain, faults>>
  BY DEF EndFlight, StaySignedIn, serverVars, tokenVars, storeVars, bounds
<1>2. /\ flight[r].phase = "done" /\ req[r].phase = "waiting" /\ req[r].on = r
      /\ flight'[r].phase = "none"
      /\ \A q \in Requests : q # r => flight'[q] = flight[q]
      /\ current' = IF current = r THEN NoRequest ELSE current
      /\ \A q \in Requests :
           \/ ~Waits(q, r) /\ req'[q] = req[q]
           \/ /\ Waits(q, r) /\ req'[q].phase = "idle" /\ req'[q].retried = FALSE
           \/ /\ Waits(q, r) /\ flight[r].answer = "ok" /\ Here(q) /\ Here(r)
              /\ req'[q].phase = "sent" /\ req'[q].token = cached
              /\ req'[q].version = req[q].version
      /\ \A q \in Requests : Flying(q)' => /\ q # r /\ Flying(q) /\ ~Waits(q, r)
                                           /\ req'[q] = req[q]
      /\ \A q \in Requests : WaitsFor(q)'
      /\ (current # NoRequest => Flying(current))'
  BY WaitersGoOn
<1>3. \A q \in Requests : Active(q)' =>
        /\ Active(q) /\ OwnRequest(q) /\ req'[q].version = req[q].version
        /\ req'[q].token.login = req[q].token.login
  <2> SUFFICES ASSUME NEW q \in Requests, Active(q)'
               PROVE  /\ Active(q) /\ OwnRequest(q) /\ req'[q].version = req[q].version
                      /\ req'[q].token.login = req[q].token.login
    OBVIOUS
  <2>1. OwnRequest(q)
    BY DEF MobileInv, Laws, RequestInv
  <2> QED  BY <1>2, <2>1 DEF Active, Waits, OwnRequest
<1>4. QueueInv' /\ HeadInv' /\ KeychainInv' /\ LoginInv' /\ LoadingInv'
  <2>1. SessionsOnly
    BY <1>1 DEF SessionsOnly, MobileInv, Laws, LoginInv
  <2>2. signing.phase # "none" => Current(signing.token)'
    BY <1>1 DEF MobileInv, Laws, LoginInv, Current, Ended
  <2>3. \A q \in Requests : flight[q].phase = "saving" =>
          flight'[q] = flight[q] /\ req'[q] = req[q]
    BY <1>2 DEF Waits, MobileInv, Laws, FlightInv, OwnFlight, Flying
  <2> QED  BY <1>1, <1>3, <2>1, <2>2, <2>3, QuietStep DEF MobileInv
<1>5. RequestInv'
  <2> SUFFICES ASSUME NEW q \in Requests, NEW p \in Requests
               PROVE  (OwnRequest(q) /\ Replayed(q) /\ SameSession(p, q))'
    BY <1>2 DEF RequestInv
  <2> Replayed(q) /\ SameSession(p, q)
    BY DEF MobileInv, Laws, RequestInv
  <2>1. OwnRequest(q)'
    BY <1>1, <1>3 DEF OwnRequest, Here, Given
  <2>2. Here(r) /\ flight[r].answer = "ok" => Valid(cached)
    BY <1>2 DEF MobileInv, Laws, FlightInv, Landed, Carries, Fresh, Renewed
  <2>3. Replayed(q)'
    BY <1>1, <1>2, <2>2 DEF Replayed, Valid, Ended
  <2>4. SameSession(p, q)'
    BY <1>3 DEF SameSession
  <2> QED  BY <2>1, <2>3, <2>4
<1>6. FlightInv'
  <2> SUFFICES ASSUME NEW q \in Requests, NEW p \in Requests
               PROVE  (OwnFlight(q) /\ Carries(q) /\ Landed(q) /\ OneFlight(p, q))'
    BY <1>2 DEF FlightInv
  <2> OwnFlight(q) /\ Carries(q) /\ Landed(q) /\ OneFlight(p, q)
    BY DEF MobileInv, Laws, FlightInv
  <2>1. CASE Flying(q)'
    <3>1. q # r /\ Flying(q) /\ req'[q] = req[q] /\ flight'[q] = flight[q]
      BY <1>2, <2>1
    <3>2. Flying(p)' => Flying(p) /\ req'[p] = req[p]
      BY <1>2
    <3> QED  BY <1>1, <1>2, <3>1, <3>2 DEF OwnFlight, Carries, Landed,
         OneFlight, Fresh, Rotated, Renewed, Current, Valid, Ended, Here
  <2>2. CASE ~Flying(q)'
    BY <2>2 DEF OwnFlight, Carries, Landed, OneFlight, Flying, Fresh, Rotated, Renewed
  <2> QED  BY <2>1, <2>2
<1>7. KeptIsCurrent' /\ OnlyLossIsReuse'
  <2>1. \A q \in Requests : Rotated(q) /\ Here(q) => (Rotated(q) /\ Here(q))'
    BY <1>1, <1>2 DEF Rotated, Here, Waits, MobileInv, Laws, FlightInv, OwnFlight, Flying
  <2> QED  BY <1>1, <2>1 DEF KeptIsCurrent, OnlyLossIsReuse, MobileInv, Laws, Current, Ended
<1> QED  BY <1>4, <1>5, <1>6, <1>7 DEF Laws

LEMMA EndFlightKeeps ==
    ASSUME MobileInv, NEW r \in Requests, EndFlight(r)
    PROVE  Laws'
<1>1. CASE StaySignedIn
  BY <1>1, EndFlightStays
<1>2. CASE cached # NoToken /\ SignOut /\ \E q \in Requests : Here(q) /\ Waits(q, r) /\ ~(flight[r].answer = "ok" /\ Here(q))
  <2>1. status = "authenticated"
    BY <1>2 DEF MobileInv, Laws, LoginInv
  <2>2. UNCHANGED <<session, issued, reused, faults>>
    BY DEF EndFlight, serverVars, bounds
  <2>3. flight[r].answer # "ok"
    BY <1>2
  <2>4. /\ flight[r].phase = "done" /\ flight'[r].phase = "none"
        /\ \A q \in Requests : q # r => flight'[q] = flight[q]
    BY WaitersGoOn
  <2>7. \A q \in Requests :
             \/ ~Waits(q, r) /\ req'[q] = req[q]
             \/ Waits(q, r) /\ req'[q].phase = "idle" /\ req'[q].retried = FALSE
    <3>1. \A q \in Requests :
                \/ ~Waits(q, r) /\ req'[q] = req[q]
                \/ /\ Waits(q, r) /\ req'[q].phase = "idle" /\ req'[q].retried = FALSE
                \/ /\ Waits(q, r) /\ flight[r].answer = "ok" /\ Here(q) /\ Here(r)
                   /\ req'[q].phase = "sent" /\ req'[q].token = cached
                   /\ req'[q].version = req[q].version
      BY WaitersGoOn
    <3> QED  BY <2>3, <3>1
  <2>6. /\ \A q \in Requests : WaitsFor(q)'
        /\ (current # NoRequest => Flying(current))'
    BY WaitersGoOn
  <2>5. \A q \in Requests : q # r /\ Flying(q) => req'[q] = req[q]
    BY <2>7 DEF Waits, MobileInv, Laws, FlightInv, OwnFlight
  <2> QED  BY <1>2, <2>1, <2>2, <2>4, <2>5, <2>6, <2>7, SignOutKeeps
<1>3. StaySignedIn \/ (cached # NoToken /\ SignOut /\ \E q \in Requests : Here(q) /\ Waits(q, r) /\ ~(flight[r].answer = "ok" /\ Here(q)))
  <2>1. Dead(r) => Here(r) /\ Waits(r, r) /\ flight[r].answer # "ok"
    BY WaitersGoOn DEF Dead, Here, Waits
  <2> QED  BY <2>1 DEF EndFlight, EndSession, LogsOut, Here
<1> QED  BY <1>1, <1>2, <1>3

-----------------------------------------------------------------------------
(* The queue. *)

LEMMA RequestFrame ==
    ASSUME RequestInv, UNCHANGED <<req, session, version, issued, status>>,
           cached'.login = cached.login,
           \A r \in Requests : Flying(r) => Flying(r)'
    PROVE  RequestInv'
<1> SUFFICES ASSUME NEW q \in Requests, NEW p \in Requests
             PROVE  (OwnRequest(q) /\ WaitsFor(q) /\ Replayed(q) /\ SameSession(p, q))'
  BY DEF RequestInv
<1> OwnRequest(q) /\ WaitsFor(q) /\ Replayed(q) /\ SameSession(p, q)
  BY DEF RequestInv
<1>1. (OwnRequest(q) /\ SameSession(p, q))'
  BY DEF OwnRequest, SameSession, Active, Here, Given
<1>2. (WaitsFor(q) /\ Replayed(q))'
  BY DEF WaitsFor, Replayed, Valid, Ended
<1> QED  BY <1>1, <1>2

LEMMA FlightFrame ==
    ASSUME MobileTypes, FlightInv, Counted,
           UNCHANGED <<req, session, version, flight, current, cached>>
    PROVE  FlightInv'
<1>1. /\ faults' = 0 => faults = 0
      /\ faults > 0 => faults' > 0
  BY LossOnly
<1>2. (current # NoRequest => Flying(current))'
  BY DEF FlightInv, Flying
<1> SUFFICES ASSUME NEW q \in Requests, NEW p \in Requests
             PROVE  (OwnFlight(q) /\ Carries(q) /\ Landed(q) /\ OneFlight(p, q))'
  BY <1>2 DEF FlightInv
<1> OwnFlight(q) /\ Carries(q) /\ Landed(q) /\ OneFlight(p, q)
  BY DEF FlightInv
<1>3. (OwnFlight(q) /\ OneFlight(p, q))'
  BY DEF OwnFlight, OneFlight, Flying, Here
<1>4. (Carries(q) /\ Landed(q))'
  BY <1>1 DEF Carries, Landed, Fresh, Rotated, Renewed, Current, Valid, Ended, Here
<1> QED  BY <1>3, <1>4

LEMMA LoginStays ==
    ASSUME LoginInv,
           UNCHANGED <<left, issued, session, status, account, version, req>>,
           \/ cached' = cached
           \/ /\ status = "authenticated" /\ Given(cached)'
              /\ cached'.login = cached.login,
           signing' = signing \/ /\ signing' = [signing EXCEPT !.phase = "saving"]
                                 /\ signing \in SigningStates
                                 /\ signing.phase # "none"
    PROVE  LoginInv'
<1>1. /\ signing'.version = signing.version /\ signing'.token = signing.token
      /\ signing'.phase # "none" => signing.phase # "none"
  BY DEF SigningStates
<1> QED  BY <1>1 DEF LoginInv, Given, Current, Ended, Active

\* A save that may be written belongs to the session that stands.
LEMMA HeadSave ==
    ASSUME MobileInv, writes # << >>, writes[1].op = "save", ~Stale(writes[1])
    PROVE  LET w == writes[1] IN
           /\ Given(w.token) /\ w.token.login \notin left /\ Current(w.token)
           /\ w.token \in Tokens
           /\ \A k \in Keys : keychain[k].login \in {0, w.token.login}
           /\ \/ /\ w.by = NoRequest /\ signing.phase = "saving"
                 /\ w.token = signing.token /\ status = "unauthenticated"
              \/ /\ w.by \in Requests /\ flight[w.by].phase = "saving"
                 /\ w.token = flight[w.by].token /\ Here(w.by)
                 /\ status = "authenticated" /\ cached.login = w.token.login
<1> DEFINE w == writes[1]
<1>1. 1 \in DOMAIN writes
  BY EmptySeq, LenProperties DEF MobileInv, MobileTypes
<1>2. OwnSave(w) /\ w.version = version
  BY <1>1 DEF MobileInv, Laws, QueueInv, Stale
<1>3. CASE w.by = NoRequest
  <2>1. signing.phase = "saving" /\ w.token = signing.token
    BY <1>2, <1>3, Fields DEF OwnSave, MobileInv
  <2> QED  BY <1>3, <2>1, Fields DEF MobileInv, Laws, LoginInv, KeychainInv
<1>4. CASE w.by \in Requests
  <2>1. flight[w.by].phase = "saving" /\ w.token = flight[w.by].token /\ Here(w.by)
    BY <1>2, <1>4, Fields DEF OwnSave, MobileInv, Here
  <2>2. /\ w.token.login = req[w.by].token.login /\ Current(w.token)
        /\ req[w.by].phase = "waiting"
    BY <1>4, <2>1 DEF MobileInv, Laws, FlightInv, Carries, Fresh, Rotated, OwnFlight, Flying
  <2>3. /\ status = "authenticated" /\ cached.login = w.token.login
    BY <1>4, <2>1, <2>2 DEF MobileInv, Laws, RequestInv, OwnRequest, Active
  <2>4. Given(w.token) /\ w.token.login \notin left
    BY <2>3 DEF MobileInv, Laws, LoginInv, Given
  <2>5. \A k \in Keys : keychain[k].login \in {0, w.token.login}
    BY <2>3 DEF MobileInv, Laws, KeychainInv
  <2>6. w.token \in Tokens
    BY <1>4, <2>1, Fields DEF MobileInv
  <2> QED  BY <1>4, <2>1, <2>2, <2>3, <2>4, <2>5, <2>6
<1> QED  BY <1>2, <1>3, <1>4 DEF OwnSave

\* Of the first operation only what is still to write has changed.
LEMMA HeadWritten ==
    ASSUME MobileInv, NEW k \in Keys, WriteKey(k)
    PROVE  /\ writes # << >> /\ 1 \in DOMAIN writes /\ writes' # << >>
           /\ k \in writes[1].todo /\ writes[1].todo \subseteq Keys
           /\ writes[1].todo = Keys => ~Stale(writes[1])
           /\ DOMAIN writes' = DOMAIN writes
           /\ \A i \in DOMAIN writes : i \in Nat /\ (i # 1 => writes'[i] = writes[i])
           /\ writes'[1].todo = writes[1].todo \ {k}
           /\ \A i \in DOMAIN writes :
                /\ writes'[i].op = writes[i].op /\ writes'[i].by = writes[i].by
                /\ writes'[i].token = writes[i].token
                /\ writes'[i].version = writes[i].version
           /\ \/ /\ keychain' = [keychain EXCEPT ![k] = writes[1].token]
                 /\ faults' = faults
              \/ writes[1].op = "save" /\ faults' > 0 /\ UNCHANGED keychain
           /\ Counted
<1> DEFINE w == writes[1]
           rest == [w EXCEPT !.todo = @ \ {k}]
<1>1. writes \in Seq(Operations) /\ writes # << >>
  BY DEF WriteKey, MobileInv, MobileTypes
<1>2. /\ Len(writes) \in Nat /\ Len(writes) >= 1 /\ DOMAIN writes = 1..Len(writes)
      /\ w \in Operations /\ Head(writes) = w
  BY <1>1, EmptySeq, LenProperties, ElementOfSeq, HeadTailProperties
<1>3. writes' = [writes EXCEPT ![1] = rest]
  BY <1>2 DEF WriteKey
<1>4. /\ rest \in Operations /\ rest.todo = w.todo \ {k} /\ rest.op = w.op
      /\ rest.by = w.by /\ rest.token = w.token /\ rest.version = w.version
  BY <1>2 DEF Operations
<1> HIDE DEF rest
<1>5. /\ writes' \in Seq(Operations) /\ Len(writes') = Len(writes)
      /\ \A j \in 1..Len(writes) : writes'[j] = IF j = 1 THEN rest ELSE writes[j]
  BY <1>1, <1>2, <1>3, <1>4, ExceptSeq
<1>6. DOMAIN writes' = DOMAIN writes /\ writes' # << >>
  BY <1>2, <1>5, LenProperties, EmptySeq
<1>7. /\ k \in w.todo /\ w.todo \subseteq Keys
      /\ w.todo = Keys => ~Stale(w)
  BY <1>2 DEF WriteKey, Operations
<1>8. /\ \/ /\ keychain' = [keychain EXCEPT ![k] = w.token] /\ faults' = faults
         \/ w.op = "save" /\ faults' > 0 /\ UNCHANGED keychain
      /\ Counted
  BY <1>2, LossOnly DEF WriteKey, Keep, MobileInv
<1> QED  BY <1>1, <1>2, <1>4, <1>5, <1>6, <1>7, <1>8

LEMMA WriteKeyKeeps ==
    ASSUME MobileInv, NEW k \in Keys, WriteKey(k)
    PROVE  Laws'
<1> DEFINE w == writes[1]
<1>1. /\ writes # << >> /\ 1 \in DOMAIN writes /\ writes' # << >>
      /\ k \in w.todo /\ w.todo \subseteq Keys
      /\ w.todo = Keys => ~Stale(w)
      /\ DOMAIN writes' = DOMAIN writes
      /\ \A i \in DOMAIN writes : i \in Nat /\ (i # 1 => writes'[i] = writes[i])
      /\ writes'[1].todo = w.todo \ {k}
      /\ \A i \in DOMAIN writes :
           /\ writes'[i].op = writes[i].op /\ writes'[i].by = writes[i].by
           /\ writes'[i].token = writes[i].token
           /\ writes'[i].version = writes[i].version
      /\ \/ keychain' = [keychain EXCEPT ![k] = w.token] /\ faults' = faults
         \/ w.op = "save" /\ faults' > 0 /\ UNCHANGED keychain
      /\ Counted
  BY HeadWritten
<1>2. UNCHANGED <<session, issued, reused, version, cached, status, account, signing,
                  req, flight, current, left>>
  BY DEF WriteKey, serverVars, storeVars, refreshVars
<1>3. /\ Clears(w) => w.token = NoToken
      /\ w.op = "save" /\ w.todo # Keys =>
           /\ Stale(w) => Clearing
           /\ \A j \in Keys : keychain[j].login \in {0, w.token.login}
      /\ Clearing' <=> Clearing
  BY <1>1 DEF Clearing, Clears, MobileInv, Laws, QueueInv, HeadInv
<1>4. /\ NoToken.login = 0 /\ keychain \in [Keys -> Tokens]
  BY DEF NoToken, MobileInv, MobileTypes
<1>5. w.op = "save" => /\ \A j \in Keys : keychain[j].login \in {0, w.token.login}
                       /\ Clearing \/ ~Stale(w)
  BY <1>1, <1>3, HeadSave
<1>6. ~Stale(w) /\ w.op = "save" =>
        /\ Given(w.token) /\ w.token.login \notin left
        /\ \/ /\ w.by = NoRequest /\ signing.phase = "saving"
              /\ w.token = signing.token /\ status = "unauthenticated"
           \/ /\ w.by \in Requests /\ flight[w.by].phase = "saving"
              /\ Here(w.by)
              /\ status = "authenticated" /\ cached.login = w.token.login
  BY <1>1, HeadSave
<1>7. w.op = "save" => Given(w.token)
  <2>1. w.op = "save" => OwnSave(w)
    BY <1>1 DEF MobileInv, Laws, QueueInv
  <2>2. CASE w.op = "save" /\ w.by \in Requests
    <3>1. flight[w.by].phase = "saving" /\ w.token = flight[w.by].token
      BY <2>1, <2>2, Fields DEF OwnSave, MobileInv
    <3>2. w.token.login = req[w.by].token.login /\ req[w.by].phase = "waiting"
      BY <2>2, <3>1 DEF MobileInv, Laws, FlightInv, Carries, Fresh, Rotated,
         OwnFlight, Flying
    <3> QED  BY <2>2, <3>2 DEF MobileInv, Laws, RequestInv, OwnRequest, Active, Given
  <2>3. CASE w.op = "save" /\ w.by = NoRequest
    BY <2>1, <2>3, Fields DEF OwnSave, MobileInv, Laws, LoginInv
  <2> QED  BY <2>1, <2>2, <2>3 DEF OwnSave
<1>8. QueueInv'
  <2>1. \A i \in DOMAIN writes : OwnSave(writes[i]) => OwnSave(writes[i])'
    BY <1>1, <1>2 DEF OwnSave
  <2>2. (\A i \in DOMAIN writes :
         /\ i > 1 => writes[i].todo = Keys
         /\ writes[i].op = "save" => OwnSave(writes[i])
         /\ writes[i].op = "signIn" => signing.phase = "clearing"
         /\ Clears(writes[i]) => writes[i].token = NoToken)'
    BY <1>1, <1>2, <2>1 DEF Clears, MobileInv, Laws, QueueInv
  <2>3. (\A i, j \in DOMAIN writes : i < j =>
         /\ writes[i].op = "signIn" => writes[j].op = "save"
         /\ writes[i].op = "save" /\ writes[j].op = "save" =>
              writes[i].by # writes[j].by)'
    BY <1>1 DEF MobileInv, Laws, QueueInv
  <2>4. (/\ Clearing => status = "unauthenticated" /\ signing.phase # "saving"
         /\ signing.phase = "clearing" =>
              \E i \in DOMAIN writes : writes[i].op = "signIn")'
    BY <1>1, <1>2, <1>3 DEF MobileInv, Laws, QueueInv
  <2> QED  BY <2>2, <2>3, <2>4 DEF QueueInv
<1>9. HeadInv'
  <2>1. writes'[1].op = w.op /\ writes'[1].token = w.token /\ writes'[1].version = w.version
    BY <1>1
  <2>2. Clears(w) => \A j \in Keys \ writes'[1].todo : keychain'[j] = NoToken
    BY <1>1, <1>3, <1>4 DEF MobileInv, Laws, HeadInv, Clears
  <2>3. w.op = "save" => /\ Stale(writes[1])' => Clearing'
                         /\ \A j \in Keys : keychain'[j].login \in {0, w.token.login}
    BY <1>1, <1>2, <1>3, <1>4, <1>5, <2>1 DEF Stale
  <2>4. w.op = "save" /\ faults' = 0 =>
           \A j \in Keys \ writes'[1].todo : keychain'[j] = w.token
    BY <1>1, <1>4 DEF MobileInv, Laws, HeadInv
  <2> QED  BY <2>1, <2>2, <2>3, <2>4 DEF HeadInv, Clears
<1>10. KeychainInv'
  <2>1. w.op # "save" => /\ w.token.login = 0 /\ w.token = NoToken
                         /\ Clearing /\ status = "unauthenticated" /\ signing.phase # "saving"
    BY <1>1, <1>3, <1>4 DEF Clearing, Clears, MobileInv, Laws, QueueInv
  <2>2. Clearing => status = "unauthenticated" /\ signing.phase # "saving"
    BY DEF MobileInv, Laws, QueueInv
  <2>3. status = "authenticated" => signing.phase # "saving"
    BY DEF MobileInv, Laws, LoginInv
  <2>4. \A j \in Keys : keychain'[j] = keychain[j] \/ keychain'[j] = w.token
    BY <1>1, <1>4
  <2>5. KeychainInv
    BY DEF MobileInv, Laws
  <2>6. (\A j \in Keys : keychain[j] = NoToken \/ Given(keychain[j]))'
    BY <1>2, <1>7, <2>1, <2>4, <2>5 DEF KeychainInv, Given
  <2>7. (\A i, j \in Keys : keychain[i].login # 0 => keychain[j].login \in {0, keychain[i].login})'
    BY <1>5, <2>1, <2>4, <2>5 DEF KeychainInv
  <2>8. (status = "authenticated" => \A j \in Keys : keychain[j].login \in {0, cached.login})'
    BY <1>2, <1>5, <1>6, <2>1, <2>2, <2>4, <2>5 DEF KeychainInv
  <2>9. (signing.phase = "saving" =>
           \A j \in Keys : keychain[j].login \in {0, signing.token.login})'
    BY <1>2, <1>5, <1>6, <2>1, <2>2, <2>3, <2>4, <2>5 DEF KeychainInv
  <2>10. (Clearing \/ (\A j \in Keys : keychain[j].login \notin left))'
    BY <1>2, <1>3, <1>5, <1>6, <2>1, <2>4, <2>5 DEF KeychainInv
  <2> QED  BY <2>6, <2>7, <2>8, <2>9, <2>10 DEF KeychainInv
<1>11. LoginInv'
  BY <1>2, LoginStays DEF MobileInv, Laws
<1>12. LoadingInv'
  BY <1>1, <1>2 DEF LoadingInv, MobileInv, Laws
<1>13. RequestInv' /\ FlightInv'
  BY <1>1, <1>2, RequestFrame, FlightFrame DEF MobileInv, Laws, Flying
<1>14. KeptIsCurrent'
  <2> SUFFICES ASSUME status = "authenticated" PROVE \E r \in Requests : (Rotated(r) /\ Here(r))'
    BY <1>2 DEF KeptIsCurrent, Rotated, Here
  <2>1. w.op = "save" /\ ~Stale(w)
    BY <1>1, <1>5 DEF Clearing, Clears, MobileInv, Laws, QueueInv
  <2>2. w.by \in Requests /\ flight[w.by].phase = "saving" /\ Here(w.by)
    BY <1>6, <2>1
  <2>3. (Rotated(writes[1].by) /\ Here(writes[1].by))'
    BY <1>1, <1>2, <2>2 DEF Rotated, Here
  <2>4. writes'[1].by \in Requests
    BY <1>1, <2>2
  <2> QED  BY <2>3, <2>4
<1>15. OnlyLossIsReuse'
  BY <1>1, <1>2, LossOnly DEF OnlyLossIsReuse, MobileInv, Laws
<1> QED  BY <1>8, <1>9, <1>10, <1>11, <1>12, <1>13, <1>14, <1>15 DEF Laws

\* A save that is done with, or a clear() of signOut(), leaves the queue.
LEMMA PopLaws ==
    ASSUME MobileInv, writes # << >>, writes' = Tail(writes),
           writes[1].op # "signIn",
           \A v \in Operations :
             /\ v.op = "save" /\ OwnSave(v)
             /\ writes[1].op = "save" => v.by # writes[1].by
             => OwnSave(v)',
           signing'.phase = "clearing" <=> signing.phase = "clearing",
           Clearing => status' = "unauthenticated" /\ signing'.phase # "saving"
    PROVE  /\ QueueInv' /\ HeadInv'
           /\ Clearing' => Clearing
           /\ writes[1].op = "save" /\ Clearing => Clearing'
<1>1. /\ writes' \in Seq(Operations) /\ 1 \in DOMAIN writes
      /\ \A i \in DOMAIN writes : i \in Nat /\ writes[i] \in Operations
      /\ \A i \in DOMAIN writes' : /\ i + 1 \in DOMAIN writes /\ i + 1 > 1
                                   /\ writes'[i] = writes[i + 1]
      /\ \A i \in DOMAIN writes : i > 1 => /\ i - 1 \in DOMAIN writes'
                                           /\ writes'[i - 1] = writes[i]
  BY Pop DEF MobileInv, MobileTypes
<1>2. \A i \in DOMAIN writes' : i \in Nat
  BY <1>1, LenProperties
<1>3. QueueInv
  BY DEF MobileInv, Laws
<1>4. /\ Clearing' => Clearing
      /\ writes[1].op = "save" /\ Clearing => Clearing'
  <2>1. Clearing' => Clearing
    BY <1>1 DEF Clearing, Clears
  <2>2. ASSUME writes[1].op = "save", NEW i \in DOMAIN writes, Clears(writes[i])
        PROVE  Clearing'
    <3>1. i > 1
      BY <1>1, <2>2, LenProperties DEF Clears, MobileInv, MobileTypes
    <3>2. i - 1 \in DOMAIN writes' /\ writes'[i - 1] = writes[i]
      BY <1>1, <3>1
    <3> QED  BY <2>2, <3>2 DEF Clearing, Clears
  <2> QED  BY <2>1, <2>2 DEF Clearing
<1>5. (\A i \in DOMAIN writes :
         /\ writes[i].todo = Keys
         /\ writes[i].op = "save" => OwnSave(writes[i])
         /\ writes[i].op = "signIn" => signing.phase = "clearing"
         /\ Clears(writes[i]) => writes[i].token = NoToken)'
  <2> SUFFICES ASSUME NEW i \in DOMAIN writes'
               PROVE  /\ writes'[i].todo = Keys
                      /\ \A v \in Operations : v = writes'[i] /\ v.op = "save" => OwnSave(v)'
                      /\ writes'[i].op = "signIn" => signing'.phase = "clearing"
                      /\ Clears(writes'[i]) => writes'[i].token = NoToken
    BY <1>1, LenProperties, ElementOfSeq DEF Clears
  <2>1. /\ i + 1 \in DOMAIN writes /\ i + 1 > 1 /\ 1 < i + 1
        /\ writes'[i] = writes[i + 1] /\ 1 \in DOMAIN writes
    BY <1>1
  <2>2. /\ writes[i + 1].todo = Keys
        /\ writes[i + 1].op = "save" => OwnSave(writes[i + 1])
        /\ writes[i + 1].op = "signIn" => signing.phase = "clearing"
        /\ Clears(writes[i + 1]) => writes[i + 1].token = NoToken
        /\ writes[1].op = "save" /\ writes[i + 1].op = "save" =>
             writes[1].by # writes[i + 1].by
    BY <1>3, <2>1 DEF QueueInv
  <2> QED  BY <2>1, <2>2
<1>6. (\A i, j \in DOMAIN writes : i < j =>
         /\ writes[i].op = "signIn" => writes[j].op = "save"
         /\ writes[i].op = "save" /\ writes[j].op = "save" =>
              writes[i].by # writes[j].by)'
  <2> SUFFICES ASSUME NEW i \in DOMAIN writes', NEW j \in DOMAIN writes', i < j
               PROVE  /\ writes'[i].op = "signIn" => writes'[j].op = "save"
                      /\ writes'[i].op = "save" /\ writes'[j].op = "save" =>
                           writes'[i].by # writes'[j].by
    OBVIOUS
  <2>1. /\ i + 1 \in DOMAIN writes /\ j + 1 \in DOMAIN writes /\ i + 1 < j + 1
        /\ writes'[i] = writes[i + 1] /\ writes'[j] = writes[j + 1]
    BY <1>1, <1>2
  <2> QED  BY <1>3, <2>1 DEF QueueInv
<1>7. signing'.phase = "clearing" => \E i \in DOMAIN writes' : writes'[i].op = "signIn"
  <2> SUFFICES ASSUME signing.phase = "clearing"
               PROVE  \E i \in DOMAIN writes' : writes'[i].op = "signIn"
    OBVIOUS
  <2>1. PICK i \in DOMAIN writes : writes[i].op = "signIn"
    BY <1>3 DEF QueueInv
  <2>2. i > 1
    BY <1>1, <2>1, LenProperties DEF MobileInv, MobileTypes
  <2> QED  BY <1>1, <2>1, <2>2
<1>8. QueueInv'
  BY <1>4, <1>5, <1>6, <1>7 DEF QueueInv
<1>9. HeadInv'
  <2>1. writes' # << >> => 1 \in DOMAIN writes'
    BY <1>1, EmptySeq, LenProperties
  <2> QED  BY <1>5, <2>1 DEF HeadInv
<1> QED  BY <1>4, <1>8, <1>9

LEMMA HeadIs ==
    ASSUME MobileInv, writes # << >>
    PROVE  /\ Head(writes) = writes[1] /\ 1 \in DOMAIN writes
           /\ writes[1] \in Operations
           /\ writes[1].op = "save" => OwnSave(writes[1])
<1>1. Head(writes) = writes[1] /\ 1 \in DOMAIN writes /\ writes[1] \in Operations
  BY EmptySeq, LenProperties, ElementOfSeq, HeadTailProperties DEF MobileInv, MobileTypes
<1> QED  BY <1>1 DEF MobileInv, Laws, QueueInv

\* A refresh learns how its save went.
LEMMA SavedKeeps ==
    ASSUME MobileInv, NEW r \in Requests, flight[r].phase = "saving",
           flight' = [flight EXCEPT ![r] = flight'[r]],
           flight'[r].phase = "done", flight'[r].token = flight[r].token,
           UNCHANGED <<req, session, issued, version, status, current, faults>>,
           \/ ~Here(r) /\ flight'[r].answer = "cancelled" /\ cached' = cached
           \/ Here(r) /\ flight'[r].answer = "ok" /\ cached' = flight[r].token
    PROVE  RequestInv' /\ FlightInv' /\ cached'.login = cached.login
<1>1. OwnFlight(r) /\ Carries(r) /\ OwnRequest(r) /\ Flying(r) /\ Active(r)
  BY DEF MobileInv, Laws, FlightInv, RequestInv, OwnFlight, Flying, Active
<1>2. cached'.login = cached.login
  BY <1>1 DEF OwnRequest, Carries, Fresh, Rotated
<1>3. \A q \in Requests : q # r => flight'[q] = flight[q]
  BY DEF MobileInv, MobileTypes
<1>4. \A q \in Requests : Flying(q)' <=> Flying(q)
  BY <1>1, <1>3 DEF Flying
<1>5. RequestInv'
  BY <1>2, <1>4, RequestFrame DEF MobileInv, Laws
<1>6. FlightInv'
  <2>0. (current # NoRequest => Flying(current))'
    BY <1>4 DEF MobileInv, MobileTypes, Laws, FlightInv, Flying
  <2> SUFFICES ASSUME NEW q \in Requests, NEW p \in Requests
               PROVE  (OwnFlight(q) /\ Carries(q) /\ Landed(q) /\ OneFlight(p, q))'
    BY <2>0 DEF FlightInv
  <2> OwnFlight(q) /\ Carries(q) /\ Landed(q) /\ OneFlight(p, q) /\ OneFlight(r, q)
    BY DEF MobileInv, Laws, FlightInv
  <2>1. (OwnFlight(q) /\ OneFlight(p, q))'
    BY <1>4 DEF OwnFlight, OneFlight, Flying, Here
  <2>2. Carries(q)'
    BY <1>1, <1>3 DEF Carries, Fresh, Rotated, Renewed, Current, Valid, Ended
  <2>3. Landed(q)'
    <3>1. CASE q = r
      BY <3>1 DEF Landed, Here
    <3>2. CASE q # r
      <4>1. Flying(q) /\ Here(q) /\ Here(r) => FALSE
        BY <1>1, <3>2 DEF OneFlight, Here
      <4> QED  BY <1>3, <3>2, <4>1 DEF Landed, Here, Ended, Flying
    <3> QED  BY <3>1, <3>2
  <2> QED  BY <2>1, <2>2, <2>3
<1> QED  BY <1>2, <1>5, <1>6

LEMMA RefuseSaveKeeps ==
    ASSUME MobileInv, RefuseSave
    PROVE  Laws'
<1> DEFINE w == writes[1]
<1>1. /\ writes # << >> /\ Head(writes) = w /\ w \in Operations
      /\ Stale(w) /\ w.op = "save" /\ OwnSave(w)
      /\ writes' = Tail(writes) /\ Saved(w, "cancelled")
      /\ UNCHANGED <<session, issued, reused, version, cached, keychain, status,
                     account, signing, req, current, left, faults>>
  BY HeadIs DEF RefuseSave, Stale, serverVars, storeVars, bounds
<1>2. /\ w.by \in Requests /\ flight[w.by].phase = "saving" /\ ~Here(w.by)
  BY <1>1 DEF OwnSave, Stale, Here, MobileInv, Laws, LoginInv
<1>3. /\ flight'[w.by].phase = "done" /\ flight'[w.by].answer = "cancelled"
      /\ flight'[w.by].token = flight[w.by].token
      /\ flight' = [flight EXCEPT ![w.by] = flight'[w.by]]
      /\ \A q \in Requests : q # w.by => flight'[q] = flight[q]
  BY <1>1, <1>2 DEF Saved, MobileInv, MobileTypes, FlightStates
<1>4. RequestInv' /\ FlightInv'
  BY <1>1, <1>2, <1>3, SavedKeeps
<1>5. QueueInv' /\ HeadInv' /\ (Clearing' <=> Clearing)
  <2>1. \A v \in Operations : v.op = "save" /\ OwnSave(v) /\ v.by # w.by => OwnSave(v)'
    BY <1>1, <1>3 DEF OwnSave
  <2>2. Clearing => status' = "unauthenticated" /\ signing'.phase # "saving"
    BY <1>1 DEF MobileInv, Laws, QueueInv
  <2> QED  BY <1>1, <2>1, <2>2, PopLaws
<1>6. KeychainInv'
  BY <1>1, <1>5 DEF KeychainInv, Given, MobileInv, Laws
<1>7. LoginInv'
  BY <1>1, LoginStays DEF MobileInv, Laws
<1>8. LoadingInv'
  BY <1>1 DEF LoadingInv, MobileInv, Laws
<1>9. KeptIsCurrent' /\ OnlyLossIsReuse'
  <2>1. \A q \in Requests : Rotated(q) /\ Here(q) => (Rotated(q) /\ Here(q))'
    BY <1>1, <1>2, <1>3 DEF Rotated, Here
  <2> QED  BY <1>1, <2>1 DEF KeptIsCurrent, OnlyLossIsReuse, MobileInv, Laws, Current, Ended
<1> QED  BY <1>4, <1>5, <1>6, <1>7, <1>8, <1>9 DEF Laws

\* The save of a refresh is done.
LEMMA RefreshSaved ==
    ASSUME MobileInv, FinishSave, Head(writes).by # NoRequest
    PROVE  Laws'
<1> DEFINE w == writes[1]
<1>1. /\ writes # << >> /\ Head(writes) = w /\ w \in Operations /\ w.todo = {}
      /\ ~Stale(w) /\ w.op = "save"
      /\ writes' = Tail(writes) /\ Saved(w, "ok") /\ cached' = w.token
      /\ UNCHANGED <<session, issued, reused, version, keychain, status,
                     account, signing, req, current, left, faults>>
  BY HeadIs DEF FinishSave, Written, serverVars, storeVars, bounds
<1>2. /\ w.by \in Requests /\ flight[w.by].phase = "saving" /\ Here(w.by)
      /\ w.token = flight[w.by].token /\ Given(w.token) /\ Current(w.token)
      /\ status = "authenticated" /\ cached.login = w.token.login
  BY <1>1, HeadSave
<1>3. /\ flight'[w.by].phase = "done" /\ flight'[w.by].answer = "ok"
      /\ flight'[w.by].token = flight[w.by].token
      /\ flight' = [flight EXCEPT ![w.by] = flight'[w.by]]
      /\ \A q \in Requests : q # w.by => flight'[q] = flight[q]
  BY <1>1, <1>2 DEF Saved, MobileInv, MobileTypes, FlightStates
<1>4. RequestInv' /\ FlightInv' /\ cached'.login = cached.login
  BY <1>1, <1>2, <1>3, SavedKeeps
<1>5. QueueInv' /\ HeadInv' /\ (Clearing' <=> Clearing)
  <2>1. \A v \in Operations : v.op = "save" /\ OwnSave(v) /\ v.by # w.by => OwnSave(v)'
    BY <1>1, <1>3 DEF OwnSave
  <2>2. Clearing => status' = "unauthenticated" /\ signing'.phase # "saving"
    BY <1>1 DEF MobileInv, Laws, QueueInv
  <2> QED  BY <1>1, <2>1, <2>2, PopLaws
<1>6. KeychainInv'
  BY <1>1, <1>4, <1>5 DEF KeychainInv, Given, MobileInv, Laws
<1>7. LoginInv'
  BY <1>1, <1>2, <1>4, LoginStays DEF MobileInv, Laws, Given
<1>8. LoadingInv'
  BY <1>1 DEF LoadingInv, MobileInv, Laws
<1>9. KeptIsCurrent'
  <2>1. faults = 0 => keychain["refresh"] = w.token
    BY <1>1 DEF MobileInv, Laws, HeadInv, Keys
  <2>2. Current(w.token) => (Ended(w.token) \/ Current(w.token)) /\ (session' = session)
    BY <1>1
  <2> QED  BY <1>1, <1>2, <2>1 DEF KeptIsCurrent, Current, Ended
<1>10. OnlyLossIsReuse'
  BY <1>1 DEF OnlyLossIsReuse, MobileInv, Laws
<1> QED  BY <1>4, <1>5, <1>6, <1>7, <1>8, <1>9, <1>10 DEF Laws

\* The save of signIn() is done and the app opens.
LEMMA SignInSaved ==
    ASSUME MobileInv, FinishSave, Head(writes).by = NoRequest
    PROVE  Laws'
<1> DEFINE w == writes[1]
<1>1. /\ writes # << >> /\ Head(writes) = w /\ w \in Operations /\ w.todo = {}
      /\ ~Stale(w) /\ w.op = "save" /\ w.by = NoRequest
      /\ writes' = Tail(writes) /\ cached' = w.token
      /\ status' = "authenticated" /\ account' = signing.token.login
      /\ signing' = NoSigning
      /\ UNCHANGED <<session, issued, reused, version, keychain, flight, req,
                     current, left, faults>>
  BY HeadIs DEF FinishSave, Written, serverVars, bounds
<1>2. /\ w.token = signing.token /\ signing.phase = "saving"
      /\ Given(w.token) /\ Current(w.token) /\ w.token.login \notin left
      /\ w.token.login # 0
      /\ status = "unauthenticated" /\ ~Clearing
      /\ \A k \in Keys : keychain[k].login \in {0, w.token.login}
  BY <1>1, HeadSave, Fields DEF MobileInv, Laws, QueueInv, Given
<1>3. NoSigning.phase = "none"
  BY DEF NoSigning
<1>4. \A q \in Requests : Active(q) => ~Here(q) /\ req[q].token.login # w.token.login
  BY <1>2 DEF MobileInv, Laws, LoginInv, RequestInv, OwnRequest
<1>5. QueueInv' /\ HeadInv'
  <2>1. \A v \in Operations : v.op = "save" /\ OwnSave(v) /\ v.by # w.by => OwnSave(v)'
    BY <1>1 DEF OwnSave
  <2> QED  BY <1>1, <1>2, <1>3, <2>1, PopLaws
<1>6. KeychainInv'
  <2>1. KeychainInv
    BY DEF MobileInv, Laws
  <2> QED  BY <1>1, <1>2, <1>3, <2>1 DEF KeychainInv, Given
<1>7. LoginInv'
  BY <1>1, <1>2, <1>3 DEF LoginInv, Given, Current, Ended, MobileInv, Laws
<1>8. LoadingInv'
  BY <1>1 DEF LoadingInv
<1>9. RequestInv'
  <2> SUFFICES ASSUME NEW q \in Requests, NEW p \in Requests
               PROVE  (OwnRequest(q) /\ WaitsFor(q) /\ Replayed(q) /\ SameSession(p, q))'
    BY DEF RequestInv
  <2> OwnRequest(q) /\ WaitsFor(q) /\ Replayed(q) /\ SameSession(p, q)
    BY DEF MobileInv, Laws, RequestInv
  <2>1. OwnRequest(q)'
    BY <1>1, <1>4 DEF OwnRequest, Active, Here, Given
  <2>2. (WaitsFor(q) /\ Replayed(q) /\ SameSession(p, q))'
    BY <1>1 DEF WaitsFor, Replayed, SameSession, Active, Flying, Valid, Ended
  <2> QED  BY <2>1, <2>2
<1>10. FlightInv'
  <2>0. (current # NoRequest => Flying(current))'
    BY <1>1 DEF MobileInv, Laws, FlightInv, Flying
  <2> SUFFICES ASSUME NEW q \in Requests, NEW p \in Requests
               PROVE  (OwnFlight(q) /\ Carries(q) /\ Landed(q) /\ OneFlight(p, q))'
    BY <2>0 DEF FlightInv
  <2> OwnFlight(q) /\ Carries(q) /\ Landed(q) /\ OneFlight(p, q)
    BY DEF MobileInv, Laws, FlightInv
  <2>1. (OwnFlight(q) /\ OneFlight(p, q))'
    BY <1>1 DEF OwnFlight, OneFlight, Flying, Here
  <2>2. Carries(q)'
    BY <1>1 DEF Carries, Fresh, Rotated, Renewed, Current, Valid, Ended
  <2>3. Landed(q)'
    BY <1>1, <1>4 DEF Landed, OwnFlight, Flying, Active, Here, Ended
  <2> QED  BY <2>1, <2>2, <2>3
<1>11. KeptIsCurrent'
  <2>1. faults = 0 => keychain["refresh"] = w.token
    BY <1>1 DEF MobileInv, Laws, HeadInv, Keys
  <2> QED  BY <1>1, <1>2, <2>1 DEF KeptIsCurrent, Current, Ended
<1>12. OnlyLossIsReuse'
  BY <1>1 DEF OnlyLossIsReuse, MobileInv, Laws
<1> QED  BY <1>5, <1>6, <1>7, <1>8, <1>9, <1>10, <1>11, <1>12 DEF Laws

\* An operation is queued behind the others.
LEMMA PushLaws ==
    ASSUME MobileInv, NEW w \in Operations, writes' = Append(writes, w), w.todo = Keys,
           w.op = "save" => \A v : v = w => OwnSave(v)',
           \A v : OwnSave(v) => OwnSave(v)' /\ (w.op = "save" => v.by # w.by),
           w.op # "save" => signing.phase # "clearing" /\ w.token = NoToken,
           signing'.phase = "clearing" <=> signing.phase = "clearing" \/ w.op = "signIn",
           Clearing \/ w.op # "save" => status' = "unauthenticated" /\ signing'.phase # "saving",
           keychain' = keychain, faults' = 0 => faults = 0,
           version' = version \/ w.op # "save"
    PROVE  /\ QueueInv' /\ HeadInv'
           /\ Clearing' <=> Clearing \/ w.op # "save"
<1>1. /\ writes \in Seq(Operations)
      /\ writes' # << >> /\ Len(writes) \in Nat
      /\ DOMAIN writes = 1..Len(writes) /\ DOMAIN writes' = 1..(Len(writes) + 1)
      /\ \A i \in DOMAIN writes : i \in Nat /\ writes'[i] = writes[i]
      /\ writes'[Len(writes) + 1] = w
  BY Push DEF MobileInv, MobileTypes
<1>2. \A i \in DOMAIN writes' :
        \/ i \in DOMAIN writes /\ writes'[i] = writes[i]
        \/ i = Len(writes) + 1 /\ writes'[i] = w
  BY <1>1
<1>3. Clearing' <=> Clearing \/ w.op # "save"
  BY <1>1, <1>2 DEF Clearing, Clears
<1>4. \A i \in DOMAIN writes :
        /\ i > 1 => writes[i].todo = Keys
        /\ writes[i].op = "save" => OwnSave(writes[i])
        /\ writes[i].op = "signIn" => signing.phase = "clearing"
        /\ Clears(writes[i]) => writes[i].token = NoToken
  BY DEF MobileInv, Laws, QueueInv
<1>5. (\A i \in DOMAIN writes :
         /\ i > 1 => writes[i].todo = Keys
         /\ writes[i].op = "save" => OwnSave(writes[i])
         /\ writes[i].op = "signIn" => signing.phase = "clearing"
         /\ Clears(writes[i]) => writes[i].token = NoToken)'
  <2> SUFFICES ASSUME NEW i \in DOMAIN writes'
               PROVE  /\ i > 1 => writes'[i].todo = Keys
                      /\ \A v : v = writes'[i] /\ v.op = "save" => OwnSave(v)'
                      /\ writes'[i].op = "signIn" => signing'.phase = "clearing"
                      /\ Clears(writes'[i]) => writes'[i].token = NoToken
    BY DEF Clears
  <2>1. CASE i \in DOMAIN writes /\ writes'[i] = writes[i]
    BY <1>4, <2>1
  <2>2. CASE writes'[i] = w
    BY <2>2 DEF Clears
  <2> QED  BY <1>2, <2>1, <2>2
<1>6. (\A i, j \in DOMAIN writes : i < j =>
         /\ writes[i].op = "signIn" => writes[j].op = "save"
         /\ writes[i].op = "save" /\ writes[j].op = "save" =>
              writes[i].by # writes[j].by)'
  <2> SUFFICES ASSUME NEW i \in DOMAIN writes', NEW j \in DOMAIN writes', i < j
               PROVE  /\ writes'[i].op = "signIn" => writes'[j].op = "save"
                      /\ writes'[i].op = "save" /\ writes'[j].op = "save" =>
                           writes'[i].by # writes'[j].by
    OBVIOUS
  <2>1. i \in DOMAIN writes /\ writes'[i] = writes[i]
    BY <1>1, <1>2
  <2>2. CASE j \in DOMAIN writes /\ writes'[j] = writes[j]
    BY <2>1, <2>2 DEF MobileInv, Laws, QueueInv
  <2>3. CASE writes'[j] = w
    BY <1>4, <2>1, <2>3
  <2> QED  BY <1>2, <2>2, <2>3
<1>7. signing'.phase = "clearing" => \E i \in DOMAIN writes' : writes'[i].op = "signIn"
  <2>1. signing.phase = "clearing" => \E i \in DOMAIN writes : writes[i].op = "signIn"
    BY DEF MobileInv, Laws, QueueInv
  <2>2. DOMAIN writes \subseteq DOMAIN writes' /\ Len(writes) + 1 \in DOMAIN writes'
    BY <1>1
  <2> QED  BY <1>1, <2>1, <2>2
<1>8. QueueInv'
  BY <1>3, <1>5, <1>6, <1>7 DEF QueueInv
<1>9. HeadInv'
  <2>1. CASE writes = << >>
    <3>1. writes'[1] = w
      BY <1>1, <2>1, EmptySeq
    <3> QED  BY <3>1 DEF HeadInv
  <2>2. CASE writes # << >>
    <3>1. 1 \in DOMAIN writes /\ writes'[1] = writes[1]
      BY <1>1, <2>2, EmptySeq
    <3>2. Clears(writes[1]) => \A k \in Keys \ writes[1].todo : keychain[k] = NoToken
      BY <2>2 DEF HeadInv, MobileInv, Laws
    <3>3. writes[1].op = "save" /\ writes[1].todo # Keys =>
           /\ Stale(writes[1]) => Clearing
           /\ \A k \in Keys : keychain[k].login \in {0, writes[1].token.login}
      BY <2>2 DEF HeadInv, MobileInv, Laws
    <3>4. writes[1].op = "save" /\ faults = 0 =>
           \A k \in Keys \ writes[1].todo : keychain[k] = writes[1].token
      BY <2>2 DEF HeadInv, MobileInv, Laws
    <3>5. Stale(writes[1])' => Stale(writes[1]) \/ Clearing'
      BY <1>3, <3>1 DEF Stale
    <3> QED  BY <1>3, <3>1, <3>2, <3>3, <3>4, <3>5 DEF HeadInv, Clears
  <2> QED  BY <2>1, <2>2
<1> QED  BY <1>3, <1>8, <1>9

\* A refresh has its new pair queued.
LEMMA SaveRefreshedKeeps ==
    ASSUME MobileInv, NEW r \in Requests, SaveRefreshed(r)
    PROVE  Laws'
<1> DEFINE w == Write("save", flight[r].token, req[r].version, r)
<1>1. /\ flight[r].phase = "answered" /\ writes' = Append(writes, w)
      /\ UNCHANGED <<session, issued, reused, req, current, left, status, cached,
                     account, signing, version, keychain, faults>>
  BY DEF SaveRefreshed, Flies, serverVars, storeVars, bounds
<1>2. /\ \A q \in Requests : q # r => flight'[q] = flight[q]
      /\ flight'[r].phase = "saving" /\ flight'[r].token = flight[r].token
  BY DEF SaveRefreshed, MobileInv, MobileTypes, FlightStates
<1>3. /\ w \in Operations /\ w.op = "save" /\ w.by = r /\ w.todo = Keys
      /\ w.token = flight[r].token /\ w.version = req[r].version
  <2>1. w \in Operations
    BY Fields, WriteType DEF MobileInv
  <2> QED  BY <2>1 DEF Write
<1> HIDE DEF w
<1>4. /\ \A v : v = w => OwnSave(v)'
      /\ \A v : OwnSave(v) => OwnSave(v)' /\ v.by # w.by
  BY <1>1, <1>2, <1>3, Fields DEF OwnSave, MobileInv
<1>5. Clearing => status' = "unauthenticated" /\ signing'.phase # "saving"
  BY <1>1 DEF MobileInv, Laws, QueueInv
<1>6. QueueInv' /\ HeadInv' /\ (Clearing' <=> Clearing)
  BY <1>1, <1>3, <1>4, <1>5, PushLaws
<1>7. KeychainInv'
  BY <1>1, <1>6 DEF KeychainInv, Given, MobileInv, Laws
<1>8. LoginInv'
  BY <1>1, LoginStays DEF MobileInv, Laws
<1>9. Flying(r) /\ OwnFlight(r) /\ Active(r) /\ status # "loading"
  BY <1>1 DEF Flying, OwnFlight, Active, MobileInv, Laws, FlightInv, LoadingInv
<1>10. LoadingInv'
  BY <1>1, <1>9 DEF LoadingInv
<1>11. \A q \in Requests : Flying(q)' <=> Flying(q)
  BY <1>1, <1>2 DEF Flying
<1>12. RequestInv'
  BY <1>1, <1>11, RequestFrame DEF MobileInv, Laws
<1>13. FlightInv'
  <2>0. (current # NoRequest => Flying(current))'
    BY <1>1, <1>11 DEF MobileInv, MobileTypes, Laws, FlightInv, Flying
  <2> SUFFICES ASSUME NEW q \in Requests, NEW p \in Requests
               PROVE  (OwnFlight(q) /\ Carries(q) /\ Landed(q) /\ OneFlight(p, q))'
    BY <2>0 DEF FlightInv
  <2> OwnFlight(q) /\ Carries(q) /\ Landed(q) /\ OneFlight(p, q)
    BY DEF MobileInv, Laws, FlightInv
  <2>1. (OwnFlight(q) /\ OneFlight(p, q))'
    BY <1>1, <1>11 DEF OwnFlight, OneFlight, Flying, Here
  <2>2. (Carries(q) /\ Landed(q))'
    BY <1>1, <1>2 DEF Carries, Landed, Fresh, Rotated, Renewed, Current, Valid, Ended, Here
  <2> QED  BY <2>1, <2>2
<1>14. KeptIsCurrent' /\ OnlyLossIsReuse'
  <2>1. \A q \in Requests : Rotated(q) /\ Here(q) => (Rotated(q) /\ Here(q))'
    BY <1>1, <1>2 DEF Rotated, Here
  <2> QED  BY <1>1, <2>1 DEF KeptIsCurrent, OnlyLossIsReuse, MobileInv, Laws, Current, Ended
<1> QED  BY <1>6, <1>7, <1>8, <1>10, <1>12, <1>13, <1>14 DEF Laws

\* A clear() is done: the keychain is empty.
LEMMA FinishClearKeeps ==
    ASSUME MobileInv, FinishClear
    PROVE  Laws'
<1> DEFINE w == writes[1]
<1>1. /\ writes # << >> /\ Head(writes) = w /\ w \in Operations /\ 1 \in DOMAIN writes
      /\ w.todo = {} /\ w.op # "save"
      /\ UNCHANGED <<session, issued, reused, version, cached, keychain, status, account,
                     req, flight, current, left, faults>>
  BY HeadIs DEF FinishClear, Written, serverVars, refreshVars, bounds
<1>2. \A k \in Keys : keychain[k] = NoToken
  BY <1>1 DEF HeadInv, Clears, MobileInv, Laws
<1>3. Clearing /\ status = "unauthenticated" /\ signing.phase # "saving"
  BY <1>1 DEF Clearing, Clears, MobileInv, Laws, QueueInv
<1>4. /\ \/ signing' = signing
         \/ /\ signing' = [signing EXCEPT !.phase = "saving"] /\ signing.phase = "clearing"
            /\ writes' = Append(Tail(writes),
                 Write("save", signing.token, signing.version, NoRequest))
            /\ w.op = "signIn"
      /\ signing \in SigningStates
  BY <1>1 DEF FinishClear, MobileInv, MobileTypes, Laws, QueueInv
<1>5. QueueInv' /\ HeadInv'
  <2>1. CASE w.op = "signOut" /\ writes' = Tail(writes) /\ signing' = signing
    <3>1. \A v \in Operations : v.op = "save" /\ OwnSave(v) => OwnSave(v)'
      BY <1>1, <2>1 DEF OwnSave
    <3> QED  BY <1>1, <1>3, <2>1, <3>1, PopLaws
  <2>2. ASSUME w.op = "signIn",
               writes' = Append(Tail(writes),
                   Write("save", signing.token, signing.version, NoRequest)),
               signing' = [signing EXCEPT !.phase = "saving"]
        PROVE  QueueInv' /\ HeadInv'
    <3> DEFINE s == Write("save", signing.token, signing.version, NoRequest)
    <3>1. /\ s \in Operations /\ s.op = "save" /\ s.by = NoRequest /\ s.todo = Keys
          /\ s.token = signing.token /\ s.version = signing.version
      <4>1. s \in Operations
        BY Fields, WriteType DEF MobileInv
      <4> QED  BY <4>1 DEF Write
    <3>2. /\ signing'.phase = "saving" /\ signing'.token = signing.token
          /\ signing'.version = signing.version /\ signing.phase = "clearing"
      BY <1>1, <1>4, <2>2 DEF MobileInv, Laws, QueueInv, SigningStates
    <3>3. writes' = Append(Tail(writes), s)
      BY <2>2
    <3> HIDE DEF s
    <3>4. /\ writes' \in Seq(Operations) /\ Len(writes) \in Nat \ {0}
          /\ DOMAIN writes = 1..Len(writes) /\ DOMAIN writes' = 1..Len(writes)
          /\ \A i \in DOMAIN writes' :
               \/ i + 1 \in DOMAIN writes /\ i + 1 > 1 /\ writes'[i] = writes[i + 1]
               \/ i = Len(writes) /\ writes'[i] = s
      <4>1. writes \in Seq(Operations) /\ Len(writes) \in Nat /\ DOMAIN writes = 1..Len(writes)
        BY LenProperties DEF MobileInv, MobileTypes
      <4>2. Len(writes) # 0
        BY <1>1, <4>1
      <4>3. /\ Tail(writes) \in Seq(Operations) /\ Len(Tail(writes)) = Len(writes) - 1
            /\ \A i \in 1..Len(Tail(writes)) : Tail(writes)[i] = writes[i + 1]
        BY <1>1, <4>1, HeadTailProperties
      <4>4. /\ writes' \in Seq(Operations) /\ Len(writes') = Len(writes)
            /\ \A i \in 1..(Len(writes) - 1) : writes'[i] = writes[i + 1]
            /\ writes'[Len(writes)] = s
        BY <3>1, <3>3, <4>1, <4>3, AppendProperties
      <4> QED  BY <4>1, <4>2, <4>4, LenProperties
    <3>5. \A i \in DOMAIN writes : i > 1 =>
            /\ writes[i].todo = Keys /\ writes[i].op = "save" /\ OwnSave(writes[i])
            /\ writes[i].by \in Requests
      BY <1>1, <2>2, <3>2 DEF MobileInv, Laws, QueueInv, OwnSave
    <3>6. /\ \A v : OwnSave(v) /\ v.by \in Requests => OwnSave(v)'
          /\ \A v : v = s => OwnSave(v)'
      BY <1>1, <3>1, <3>2, Fields DEF OwnSave, MobileInv
    <3>7. \A i \in DOMAIN writes' :
            /\ writes'[i].todo = Keys /\ writes'[i].op = "save"
            /\ \A v : v = writes'[i] => OwnSave(v)'
      <4> SUFFICES ASSUME NEW i \in DOMAIN writes'
                   PROVE  /\ writes'[i].todo = Keys /\ writes'[i].op = "save"
                          /\ \A v : v = writes'[i] => OwnSave(v)'
        OBVIOUS
      <4>1. CASE i + 1 \in DOMAIN writes /\ i + 1 > 1 /\ writes'[i] = writes[i + 1]
        BY <3>5, <3>6, <4>1
      <4>2. CASE writes'[i] = s
        BY <3>1, <3>6, <4>2
      <4> QED  BY <3>4, <4>1, <4>2
    <3>8. ASSUME NEW i \in DOMAIN writes', NEW j \in DOMAIN writes', i < j
          PROVE  writes'[i].by # writes'[j].by
      <4>1. i + 1 \in DOMAIN writes /\ i + 1 > 1 /\ writes'[i] = writes[i + 1] /\ i \in Nat /\ j \in Nat
        BY <3>4, <3>8
      <4>2. CASE j + 1 \in DOMAIN writes /\ j + 1 > 1 /\ writes'[j] = writes[j + 1]
        <5>1. i + 1 < j + 1 /\ writes[i + 1].op = "save" /\ writes[j + 1].op = "save"
          BY <3>5, <3>8, <4>1, <4>2
        <5> QED  BY <4>1, <4>2, <5>1 DEF MobileInv, Laws, QueueInv
      <4>3. CASE writes'[j] = s
        <5>1. writes'[i].by \in Requests
          BY <3>5, <4>1
        <5> QED  BY <3>1, <4>3, <5>1, Fields DEF MobileInv
      <4> QED  BY <3>4, <4>2, <4>3
    <3>9. ~Clearing' /\ 1 \in DOMAIN writes'
      BY <3>4, <3>7 DEF Clearing, Clears
    <3>10. QueueInv'
      BY <3>2, <3>7, <3>8, <3>9 DEF QueueInv, Clears
    <3>11. HeadInv'
      BY <3>7, <3>9 DEF HeadInv, Clears
    <3> QED  BY <3>10, <3>11
  <2> QED  BY <1>1, <2>1, <2>2 DEF FinishClear
<1>6. KeychainInv'
  <2>1. NoToken.login = 0 /\ 0 \notin left
    BY Fields DEF NoToken, MobileInv, Laws, LoginInv
  <2> QED  BY <1>1, <1>2, <1>3, <2>1 DEF KeychainInv
<1>7. LoginInv'
  BY <1>1, <1>4, LoginStays DEF MobileInv, Laws
<1>8. LoadingInv'
  BY <1>1, <1>3 DEF LoadingInv
<1>9. RequestInv'
  BY <1>1, RequestFrame DEF MobileInv, Laws, Flying
<1>10. FlightInv'
  BY <1>1, FlightFrame DEF MobileInv, Laws, Counted
<1>11. KeptIsCurrent' /\ OnlyLossIsReuse'
  BY <1>1, <1>3 DEF KeptIsCurrent, OnlyLossIsReuse, MobileInv, Laws
<1> QED  BY <1>5, <1>6, <1>7, <1>8, <1>9, <1>10, <1>11 DEF Laws

-----------------------------------------------------------------------------
(* The session store: what was kept, a login, a crash. *)

LEMMA HydrateKeeps ==
    ASSUME MobileInv, Hydrate
    PROVE  Laws'
<1>1. /\ status = "loading" /\ Counted
      /\ UNCHANGED <<session, issued, reused, version, keychain, writes, account, signing,
                     req, flight, current, left>>
  BY LossOnly DEF Hydrate, serverVars, refreshVars, MobileInv
<1>2. /\ writes = << >> /\ left = {} /\ signing.phase = "none"
      /\ \A r \in Requests : ~Active(r) /\ ~Flying(r)
      /\ cached = NoToken /\ NoToken.login = 0 /\ account = 0
      /\ faults' = 0 => faults = 0
      /\ faults = 0 => keychain["refresh"] = NoToken
  <2>1. /\ writes = << >> /\ left = {} /\ signing.phase = "none"
        /\ \A r \in Requests : ~Active(r)
        /\ faults = 0 => keychain["refresh"] = NoToken
    BY <1>1 DEF LoadingInv, MobileInv, Laws
  <2>2. \A r \in Requests : ~Flying(r)
    BY <2>1 DEF Active, Flying, OwnFlight, FlightInv, MobileInv, Laws
  <2>3. cached = NoToken /\ NoToken.login = 0 /\ account = 0
    BY <1>1 DEF LoginInv, MobileInv, Laws, NoToken
  <2>4. faults' = 0 => faults = 0
    BY <1>1, LossOnly DEF MobileInv
  <2> QED  BY <2>1, <2>2, <2>3, <2>4
<1>3. current = NoRequest
  BY <1>2 DEF FlightInv, MobileInv, MobileTypes, Laws
<1>4. \/ cached' = NoToken /\ status' = "unauthenticated"
      \/ /\ cached' = keychain["access"] /\ cached' # NoToken /\ status' = "authenticated"
         /\ keychain["refresh"] # NoToken
  BY DEF Hydrate
<1>5. KeychainInv /\ "access" \in Keys
  BY DEF MobileInv, Laws, Keys
<1>6. status' = "authenticated" => Given(cached)'
  BY <1>1, <1>4, <1>5 DEF KeychainInv, Given
<1>7. status' = "authenticated" => cached'.login # 0
  BY <1>1, <1>6 DEF Given, MobileInv, MobileTypes
<1>8. QueueInv' /\ HeadInv'
  BY <1>1, <1>2 DEF QueueInv, HeadInv, Clearing
<1>9. KeychainInv'
  BY <1>1, <1>2, <1>4, <1>5, <1>7 DEF KeychainInv, Given
<1>10. LoginInv'
  <2>1. \A l \in Logins : /\ session[l].expired <= session[l].gen
                          /\ l > issued => ~session[l].live /\ session[l].expired = 0
    BY DEF MobileInv, Laws, LoginInv
  <2>2. left' = {} /\ account' = 0 /\ signing'.phase = "none"
    BY <1>1, <1>2
  <2>3. left' \subseteq 1..issued' /\ cached'.login \notin left'
    BY <2>2
  <2>4. status' # "authenticated" => cached' = NoToken
    BY <1>4
  <2> QED  BY <1>1, <1>6, <2>1, <2>2, <2>3, <2>4 DEF LoginInv
<1>11. LoadingInv'
  BY <1>4 DEF LoadingInv
<1>12. RequestInv'
  BY <1>1, <1>2 DEF RequestInv, OwnRequest, WaitsFor, Replayed, SameSession, Active
<1>13. FlightInv'
  BY <1>1, <1>2, <1>3 DEF FlightInv, OwnFlight, Carries, Landed, OneFlight,
     Flying, Fresh, Rotated, Renewed
<1>14. KeptIsCurrent' /\ OnlyLossIsReuse'
  BY <1>1, <1>2, <1>4, LossOnly DEF KeptIsCurrent, OnlyLossIsReuse, MobileInv, Laws
<1> QED  BY <1>8, <1>9, <1>10, <1>11, <1>12, <1>13, <1>14 DEF Laws

\* A login is granted: it is one nobody has heard of.
LEMMA SignInKeeps ==
    ASSUME MobileInv, SignIn
    PROVE  Laws'
<1> DEFINE n == issued'
           w == Write("signIn", NoToken, version', NoRequest)
<1>1. /\ status = "unauthenticated" /\ signing = NoSigning /\ signing.phase = "none"
      /\ n = issued + 1 /\ n \in Logins /\ issued \in Nat
      /\ UNCHANGED <<reused, keychain, status, account, req, flight, current, left>>
  <2>1. issued \in 0..MaxLogin /\ MaxLogin \in Nat
    BY Fields DEF MobileInv
  <2> QED  BY <2>1 DEF SignIn, NoSigning, refreshVars, Logins
<1>2. \/ /\ version' = version + 1 /\ cached' = NoToken /\ writes' = Append(writes, w)
         /\ signing'.phase = "clearing" /\ signing'.version = version'
         /\ signing'.token.login = n /\ signing'.token.gen = 1 /\ faults' = faults
      \/ UNCHANGED <<version, cached, writes, signing>> /\ Lose
  BY DEF SignIn, Keep
<1>3. /\ version \in Nat /\ cached = NoToken /\ Counted
      /\ faults' = 0 => faults = 0
      /\ faults > 0 => faults' > 0
  BY <1>1, <1>2, Fields, LossOnly DEF MobileInv, Laws, LoginInv, Counted
<1>4. /\ session[n].expired = 0
      /\ session'[n].live /\ session'[n].gen = 1 /\ session'[n].expired = 0
      /\ \A l \in Logins : l # n => session'[l] = session[l]
  BY <1>1 DEF SignIn, MobileInv, MobileTypes, SessionStates, Laws, LoginInv
<1>5. \A t \in Tokens : Given(t) => /\ Given(t)' /\ t.login # n
                                    /\ session'[t.login] = session[t.login]
  BY <1>1, <1>4, Fields DEF Given, Logins, MobileInv
<1>6. \A q \in Requests : Active(q) =>
        /\ req[q].version <= version /\ Given(req[q].token) /\ req[q].token \in Tokens
        /\ req[q].token.login # 0 /\ ~Here(q) /\ req[q].version \in Nat
        /\ req[q].version # version'
  <2> SUFFICES ASSUME NEW q \in Requests, Active(q)
               PROVE  /\ req[q].version <= version /\ Given(req[q].token) /\ req[q].token \in Tokens
                      /\ req[q].token.login # 0 /\ ~Here(q) /\ req[q].version \in Nat
                      /\ req[q].version # version'
    OBVIOUS
  <2>1. OwnRequest(q) /\ req[q].version \in Nat /\ req[q].token \in Tokens
    BY Fields DEF MobileInv, Laws, RequestInv
  <2>2. req[q].version <= version /\ Given(req[q].token) /\ ~Here(q)
    BY <1>1, <2>1 DEF OwnRequest
  <2>3. req[q].token.login # 0
    BY <1>1, <2>2 DEF Given
  <2> QED  BY <1>2, <1>3, <2>1, <2>2, <2>3 DEF Here
<1>7. \A q \in Requests : Active(q) => ~Here(q)'
  BY <1>1, <1>6 DEF Here
<1>8. /\ QueueInv' /\ HeadInv'
      /\ \/ Clearing' /\ signing'.phase = "clearing"
         \/ signing'.phase = "none" /\ (Clearing' <=> Clearing)
  <2>1. CASE UNCHANGED <<version, cached, writes, signing>>
    <3>1. \A v : OwnSave(v) => OwnSave(v)'
      BY <1>1, <2>1 DEF OwnSave
    <3>2. QueueInv'
      BY <1>1, <2>1, QueueFrame DEF MobileInv, Laws
    <3>3. HeadInv'
      BY <1>1, <1>3, <2>1, HeadFrame DEF MobileInv, Laws
    <3> QED  BY <1>1, <2>1, <3>2, <3>3 DEF Clearing, Clears
  <2>2. CASE /\ version' = version + 1 /\ writes' = Append(writes, w)
             /\ signing'.phase = "clearing"
    <3>1. /\ w \in Operations /\ w.op = "signIn" /\ w.token = NoToken /\ w.todo = Keys
      <4>1. version' \in Nat
        BY <1>3, <2>2
      <4>2. w \in Operations
        BY <4>1, WriteType, NothingType
      <4> QED  BY <4>2 DEF Write
    <3> HIDE DEF w
    <3>2. \A v : OwnSave(v) => OwnSave(v)'
      BY <1>1 DEF OwnSave
    <3> QED  BY <1>1, <1>3, <2>2, <3>1, <3>2, PushLaws
  <2> QED  BY <1>2, <2>1, <2>2
<1>9. KeychainInv'
  <2>1. KeychainInv
    BY DEF MobileInv, Laws
  <2>2. \A k \in Keys : keychain[k] \in Tokens
    BY Fields DEF MobileInv
  <2> QED  BY <1>1, <1>5, <1>8, <2>1, <2>2 DEF KeychainInv
<1>10. LoginInv'
  <2>1. LoginInv
    BY DEF MobileInv, Laws
  <2>2. left' \subseteq 1..issued' /\ n \notin left'
    BY <1>1, <2>1 DEF LoginInv
  <2>3. \A l \in Logins : /\ session'[l].expired <= session'[l].gen
                          /\ l > issued' => ~session'[l].live /\ session'[l].expired = 0
    BY <1>1, <1>4, <2>1 DEF LoginInv, Logins
  <2>4. status' # "authenticated" /\ cached' = NoToken /\ (account' # 0 => account' = cached'.login)
    BY <1>1, <1>2, <1>3, <2>1 DEF LoginInv
  <2>5. ASSUME signing'.phase # "none"
        PROVE  /\ signing'.version = version' /\ Given(signing.token)'
               /\ signing'.token.login \notin left' /\ Current(signing.token)'
               /\ \A q \in Requests : Active(q)' => req'[q].token.login # signing'.token.login
    <3>1. /\ signing'.version = version' /\ signing'.token.login = n /\ signing'.token.gen = 1
      BY <1>1, <1>2, <2>5
    <3>2. Given(signing.token)'
      BY <1>1, <3>1 DEF Given
    <3>3. Current(signing.token)'
      BY <1>4, <3>1 DEF Current
    <3>4. \A q \in Requests : Active(q)' => req'[q].token.login # n
      BY <1>1, <1>5, <1>6 DEF Active
    <3> QED  BY <2>2, <3>1, <3>2, <3>3, <3>4
  <2> QED  BY <1>1, <2>2, <2>3, <2>4, <2>5 DEF LoginInv
<1>11. LoadingInv'
  BY <1>1 DEF LoadingInv
<1>12. RequestInv'
  <2> SUFFICES ASSUME NEW q \in Requests, NEW p \in Requests
               PROVE  (OwnRequest(q) /\ WaitsFor(q) /\ Replayed(q) /\ SameSession(p, q))'
    BY DEF RequestInv
  <2> OwnRequest(q) /\ WaitsFor(q) /\ Replayed(q) /\ SameSession(p, q)
    BY DEF MobileInv, Laws, RequestInv
  <2>1. OwnRequest(q)'
    <3>1. Active(q)' => /\ Active(q) /\ req'[q].version <= version' /\ Given(req[q].token)'
                        /\ ~Here(q)' /\ req'[q].token.login # cached'.login
      BY <1>1, <1>2, <1>3, <1>5, <1>6, <1>7 DEF Active, NoToken
    <3> QED  BY <3>1 DEF OwnRequest
  <2>2. Active(q) => session'[req[q].token.login] = session[req[q].token.login]
    BY <1>5, <1>6
  <2>3. Replayed(q)'
    BY <1>1, <2>2 DEF Replayed, Valid, Ended, Active
  <2>4. (WaitsFor(q) /\ SameSession(p, q))'
    BY <1>1 DEF WaitsFor, SameSession, Active, Flying
  <2> QED  BY <2>1, <2>3, <2>4
<1>13. FlightInv'
  <2>0. (current # NoRequest => Flying(current))'
    BY <1>1 DEF MobileInv, Laws, FlightInv, Flying
  <2> SUFFICES ASSUME NEW q \in Requests, NEW p \in Requests
               PROVE  (OwnFlight(q) /\ Carries(q) /\ Landed(q) /\ OneFlight(p, q))'
    BY <2>0 DEF FlightInv
  <2> OwnFlight(q) /\ Carries(q) /\ Landed(q) /\ OneFlight(p, q)
    BY DEF MobileInv, Laws, FlightInv
  <2>1. Flying(q) => Active(q) /\ req[q].phase = "waiting" /\ req[q].on = q /\ ~Here(q)'
    BY <1>7 DEF OwnFlight, Active
  <2>2. Active(q) => session'[req[q].token.login] = session[req[q].token.login]
    BY <1>5, <1>6
  <2>3. OwnFlight(q)'
    BY <1>1, <2>1 DEF OwnFlight, Flying
  <2>4. OneFlight(p, q)'
    BY <1>1 DEF OneFlight, Flying
  <2>5. Landed(q)'
    BY <1>1, <1>3, <2>1, <2>2 DEF Landed, Flying, Ended
  <2>6. Carries(q)'
    BY <1>1, <1>3, <2>1, <2>2 DEF Carries, Fresh, Rotated, Renewed, Current,
       Valid, Ended, Flying
  <2> QED  BY <2>3, <2>4, <2>5, <2>6
<1>14. KeptIsCurrent' /\ OnlyLossIsReuse'
  BY <1>1, <1>3 DEF KeptIsCurrent, OnlyLossIsReuse, MobileInv, Laws
<1> QED  BY <1>8, <1>9, <1>10, <1>11, <1>12, <1>13, <1>14 DEF Laws

\* Nothing is left but the keychain, and it may hold anything it held.
LEMMA CrashKeeps ==
    ASSUME MobileInv, Crash
    PROVE  Laws'
<1>1. /\ UNCHANGED <<session, issued, reused, keychain>>
      /\ cached' = NoToken /\ writes' = << >> /\ status' = "loading" /\ account' = 0
      /\ signing' = NoSigning /\ current' = NoRequest /\ left' = {}
  BY DEF Crash, serverVars
<1>2. /\ \A q \in Requests : req'[q].phase = "idle" /\ req'[q].retried = FALSE
      /\ \A q \in Requests : flight'[q].phase = "none"
      /\ signing'.phase = "none"
  BY <1>1 DEF Crash, Idle, NoFlight, NoSigning
<1>3. faults' > 0
  BY LossOnly DEF Crash, MobileInv
<1>4. QueueInv' /\ HeadInv'
  BY <1>1, <1>2 DEF QueueInv, HeadInv, Clearing
<1>5. KeychainInv'
  BY <1>1, <1>2 DEF KeychainInv, Given, MobileInv, Laws
<1>6. LoginInv'
  <2>1. \A l \in Logins : /\ session[l].expired <= session[l].gen
                          /\ l > issued => ~session[l].live /\ session[l].expired = 0
    BY DEF MobileInv, Laws, LoginInv
  <2> QED  BY <1>1, <1>2, <2>1 DEF LoginInv
<1>7. LoadingInv'
  BY <1>1, <1>2, <1>3 DEF LoadingInv, Active
<1>8. RequestInv'
  BY <1>2 DEF RequestInv, OwnRequest, WaitsFor, Replayed, SameSession, Active
<1>9. FlightInv'
  BY <1>1, <1>2 DEF FlightInv, OwnFlight, Carries, Landed, OneFlight, Flying,
     Fresh, Rotated, Renewed
<1>10. KeptIsCurrent' /\ OnlyLossIsReuse'
  BY <1>1, <1>3 DEF KeptIsCurrent, OnlyLossIsReuse
<1> QED  BY <1>4, <1>5, <1>6, <1>7, <1>8, <1>9, <1>10 DEF Laws

-----------------------------------------------------------------------------
(* The theorems. *)

LEMMA InitHolds ==
    ASSUME MobileInit
    PROVE  MobileInv
<1>1. MobileTypes
  <2>1. [live |-> FALSE, gen |-> 0, expired |-> 0] \in SessionStates
    BY DEF SessionStates
  <2>2. 0 \in 0..MaxLogin /\ 0 \in 0..MaxExpiries /\ 0 \in 0..MaxFaults
    BY MobileAssumption DEF MobileAssumption
  <2>3. << >> \in Seq(Operations)
    BY EmptySeq
  <2> QED  BY <2>1, <2>2, <2>3, NothingType DEF MobileInit, MobileTypes
<1>2. /\ \A q \in Requests : req[q].phase = "idle" /\ req[q].retried = FALSE
      /\ \A q \in Requests : flight[q].phase = "none"
      /\ signing.phase = "none"
  BY DEF MobileInit, Idle, NoFlight, NoSigning
<1>3. /\ \A k \in Keys : keychain[k] = NoToken
      /\ \A l \in Logins : ~session[l].live /\ session[l].expired = 0 /\ session[l].gen = 0
      /\ "refresh" \in Keys /\ NoToken.login = 0
  BY DEF MobileInit, Keys, NoToken
<1>4. QueueInv /\ HeadInv
  BY <1>2 DEF MobileInit, QueueInv, HeadInv, Clearing
<1>5. KeychainInv
  BY <1>2, <1>3 DEF MobileInit, KeychainInv
<1>6. LoginInv
  BY <1>2, <1>3 DEF MobileInit, LoginInv
<1>7. LoadingInv
  BY <1>2, <1>3 DEF MobileInit, LoadingInv, Active
<1>8. RequestInv
  BY <1>2 DEF RequestInv, OwnRequest, WaitsFor, Replayed, SameSession, Active
<1>9. FlightInv
  BY <1>2 DEF MobileInit, FlightInv, OwnFlight, Carries, Landed, OneFlight,
     Flying, Fresh, Rotated, Renewed
<1>10. KeptIsCurrent /\ OnlyLossIsReuse
  BY DEF MobileInit, KeptIsCurrent, OnlyLossIsReuse
<1> QED  BY <1>1, <1>4, <1>5, <1>6, <1>7, <1>8, <1>9, <1>10 DEF MobileInv, Laws

\* No law speaks of locked accounts.
LEMMA StutterKeeps ==
    ASSUME MobileInv, UNCHANGED vars \/ \E l \in Logins : LockAccount(l)
    PROVE  Laws'
<1>1. UNCHANGED <<session, issued, reused, version, cached, keychain, writes, status,
                  account, signing, req, flight, current, left, faults>>
  BY DEF vars, LockAccount, serverVars, tokenVars, storeVars, refreshVars, bounds
<1>2. QueueInv' /\ HeadInv'
  BY <1>1, QueueFrame, HeadFrame DEF MobileInv, Laws
<1>3. KeychainInv'
  BY <1>1, KeychainFrame DEF MobileInv, Laws
<1>4. LoginInv'
  BY <1>1, LoginStays DEF MobileInv, Laws
<1>5. LoadingInv'
  BY <1>1 DEF LoadingInv, Active, MobileInv, Laws
<1>6. RequestInv' /\ FlightInv'
  BY <1>1, RequestFrame, FlightFrame DEF MobileInv, Laws, Flying, Counted
<1>7. KeptIsCurrent' /\ OnlyLossIsReuse'
  <2>1. \A q \in Requests : Rotated(q) /\ Here(q) => (Rotated(q) /\ Here(q))'
    BY <1>1 DEF Rotated, Here
  <2> QED  BY <1>1, <2>1 DEF KeptIsCurrent, OnlyLossIsReuse, MobileInv, Laws, Current, Ended
<1> QED  BY <1>2, <1>3, <1>4, <1>5, <1>6, <1>7 DEF Laws

LEMMA StepKeeps ==
    ASSUME MobileInv, [MobileNext]_vars
    PROVE  MobileInv'
<1>1. MobileTypes'
  BY TypesKept DEF MobileInv
<1>2. Laws'
  <2>1. CASE QueueStep
    BY <2>1, RefuseSaveKeeps, RefreshSaved, SignInSaved, FinishClearKeeps,
       WriteKeyKeeps DEF QueueStep
  <2>2. CASE Hydrate \/ SignIn \/ Crash
    BY <2>2, HydrateKeeps, SignInKeeps, CrashKeeps
  <2>3. ASSUME NEW r \in Requests, RequestStep(r) \/ \E kind \in {"me", "logout"} : Begin(r, kind)
        PROVE  Laws'
    BY <2>3, BeginKeeps, AnsweredKeeps, ReceiveKeeps, ReceiveMeKeeps,
       ReceiveDenialKeeps DEF RequestStep
  <2>4. ASSUME NEW r \in Requests, FlightStep(r) PROVE Laws'
    BY <2>4, ReadRefreshTokenKeeps, ServeRefreshKeeps, LoseRefreshKeeps,
       SaveRefreshedKeeps, EndFlightKeeps DEF FlightStep
  <2>5. ASSUME NEW l \in Logins, Expire(l) \/ EndAtServer(l) PROVE Laws'
    BY <2>5, ServerKeeps
  <2>6. CASE UNCHANGED vars \/ \E l \in Logins : LockAccount(l)
    BY <2>6, StutterKeeps
  <2> QED  BY <2>1, <2>2, <2>3, <2>4, <2>5, <2>6 DEF MobileNext
<1> QED  BY <1>1, <1>2 DEF MobileInv

LEMMA Invariance == MobileSpec => []MobileInv
<1>1. MobileInit => MobileInv
  BY InitHolds
<1>2. MobileInv /\ [MobileNext]_vars => MobileInv'
  BY StepKeeps
<1> QED  BY <1>1, <1>2, PTL DEF MobileSpec

\* Every variable has its type, and whoever waits waits for a refresh that
\* somebody has started: refreshInFlight is never a promise already settled.
THEOREM MobileTyped == MobileSpec => []MobileTypeOK
<1>1. MobileInv => MobileTypeOK
  BY DEF MobileInv, Laws, RequestInv, WaitsFor, Flying, MobileTypeOK
<1> QED  BY <1>1, Invariance, PTL

\* setAccount(), a refresh or a logout that comes back late never mixes two
\* accounts: the one shown owns the tokens in memory, and those in the keychain
\* once the queue of writes has run.
THEOREM AccountIsOne == MobileSpec => []OneAccount
<1>1. ASSUME MobileInv PROVE OneAccount
  <2>1. account # 0 => cached.login = account
    BY <1>1 DEF MobileInv, Laws, LoginInv
  <2>2. cached # NoToken => \A k \in Keys : keychain[k].login \in {0, cached.login}
    BY <1>1 DEF MobileInv, Laws, LoginInv, KeychainInv
  <2> QED  BY <2>1, <2>2 DEF OneAccount
<1> QED  BY <1>1, Invariance, PTL

\* The tokens of a session signed out of are gone from the keychain once the
\* queue has run, whatever save of them was on its way when signOut() was called.
THEOREM LogoutIsForGood == MobileSpec => []LeftIsForgotten
<1>1. ASSUME MobileInv PROVE LeftIsForgotten
  <2>1. writes = << >> => ~Clearing
    BY DEF Clearing
  <2> QED  BY <1>1, <2>1 DEF MobileInv, Laws, KeychainInv, LeftIsForgotten
<1> QED  BY <1>1, Invariance, PTL

\* refreshTokens() presents no refresh token twice: only a message or a write
\* lost, or a restart, has the server see one again.
THEOREM NoReuseOfItsOwn == MobileSpec => []OnlyLossIsReuse
<1>1. MobileInv => OnlyLossIsReuse
  BY DEF MobileInv, Laws
<1> QED  BY <1>1, Invariance, PTL

\* Only a locked account is answered 403, and it stays marked as one.
LockedInv ==
    \A r \in Requests : req[r].phase = "answered" /\ req[r].answer = "forbidden" =>
        req[r].token.login \in locked

LEMMA LockedKept ==
    ASSUME MobileTypes, LockedInv, [MobileNext]_vars
    PROVE  LockedInv'
<1>1. locked \subseteq locked'
  <2>1. CASE UNCHANGED locked
    BY <2>1
  <2>2. CASE \E l \in Logins : LockAccount(l)
    BY <2>2 DEF LockAccount
  <2>3. CASE QueueStep \/ Hydrate \/ SignIn \/ Crash
    BY <2>1, <2>3 DEF QueueStep, RefuseSave, WriteKey, FinishSave, FinishClear,
       Hydrate, SignIn, Crash, serverVars
  <2>4. CASE \E r \in Requests :
               RequestStep(r) \/ \E kind \in {"me", "logout"} : Begin(r, kind)
    BY <2>1, <2>4 DEF Begin, RequestStep, Serve, LoseRequest, ReceiveStale, ReceiveMe,
       ReceiveLogout, ReceiveSecondDenial, ReceiveDenial, Rest, serverVars
  <2>5. CASE \E r \in Requests : FlightStep(r)
    BY <2>1, <2>5 DEF FlightStep, ReadRefreshToken, ServeRefresh, LoseRefresh,
       SaveRefreshed, EndFlight, serverVars
  <2>6. CASE (\E l \in Logins : Expire(l) \/ EndAtServer(l)) \/ UNCHANGED vars
    BY <2>1, <2>6 DEF Expire, EndAtServer, vars, serverVars
  <2> QED  BY <2>2, <2>3, <2>4, <2>5, <2>6 DEF MobileNext
<1> SUFFICES ASSUME NEW q \in Requests
             PROVE  \/ req'[q].phase # "answered" \/ req'[q] = req[q]
                    \/ req'[q].answer = "forbidden" => req'[q].token.login \in locked'
  BY <1>1 DEF LockedInv
<1>2. Idle.phase # "answered" /\ \A r \in Requests : req[r] \in RequestStates
  BY DEF Idle, MobileTypes
<1>3. CASE UNCHANGED req
  BY <1>3
<1>4. CASE Crash
  BY <1>2, <1>4 DEF Crash
<1>5. ASSUME NEW r \in Requests, NEW kind \in {"me", "logout"}, Begin(r, kind)
      PROVE  req'[q].phase # "answered" \/ req'[q] = req[q]
  BY <1>2, <1>5 DEF Begin, Idle, MobileTypes
<1>6. ASSUME NEW r \in Requests, Done(r)
      PROVE  req'[q].phase # "answered" \/ req'[q] = req[q]
  BY <1>2, <1>6 DEF Done, MobileTypes
<1>7. ASSUME NEW r \in Requests, Serve(r) \/ LoseRequest(r)
      PROVE  \/ req'[q] = req[q]
             \/ req'[q].answer = "forbidden" => req'[q].token.login \in locked'
  <2>1. PICK a \in Answers : /\ Answered(r, a)
                             /\ a = "forbidden" => req[r].token.login \in locked
    BY <1>7 DEF Serve, LoseRequest, Answer, Answers
  <2>2. q # r => req'[q] = req[q]
    BY <2>1 DEF Answered, MobileTypes
  <2>3. req'[r].answer = a /\ req'[r].token = req[r].token
    BY <2>1 DEF Answered, MobileTypes, RequestStates
  <2> QED  BY <1>1, <2>1, <2>2, <2>3
<1>8. ASSUME NEW r \in Requests, ReceiveDenial(r)
      PROVE  req'[q].phase # "answered" \/ req'[q] = req[q]
  <2>1. req'[r].phase = "waiting" /\ (q # r => req'[q] = req[q])
    BY <1>8 DEF ReceiveDenial, MobileTypes, RequestStates
  <2> QED  BY <2>1
<1>9. ASSUME NEW r \in Requests, EndFlight(r)
      PROVE  req'[q].phase # "answered" \/ req'[q] = req[q]
  <2>1. \/ req'[q] = req[q] \/ req'[q] = Idle
        \/ req'[q] = [req[q] EXCEPT !.phase = "sent", !.on = NoRequest, !.token = cached]
    BY <1>9 DEF EndFlight
  <2>2. [req[q] EXCEPT !.phase = "sent", !.on = NoRequest, !.token = cached].phase = "sent"
    BY <1>2 DEF RequestStates
  <2> QED  BY <1>2, <2>1, <2>2
<1>10. CASE QueueStep \/ Hydrate \/ SignIn
  BY <1>3, <1>10 DEF QueueStep, RefuseSave, WriteKey, FinishSave, FinishClear, Hydrate, SignIn
<1>11. ASSUME NEW r \in Requests, RequestStep(r)
       PROVE  \/ req'[q].phase # "answered" \/ req'[q] = req[q]
              \/ req'[q].answer = "forbidden" => req'[q].token.login \in locked'
  BY <1>6, <1>7, <1>8, <1>11 DEF RequestStep, ReceiveStale, ReceiveMe, ReceiveLogout,
     ReceiveSecondDenial
<1>12. ASSUME NEW r \in Requests, FlightStep(r)
       PROVE  req'[q].phase # "answered" \/ req'[q] = req[q]
  BY <1>3, <1>9, <1>12 DEF FlightStep, ReadRefreshToken, ServeRefresh, LoseRefresh,
     SaveRefreshed, Flies
<1>13. CASE (\E l \in Logins : Expire(l) \/ EndAtServer(l) \/ LockAccount(l))
            \/ UNCHANGED vars
  BY <1>3, <1>13 DEF Expire, EndAtServer, LockAccount, vars
<1> QED  BY <1>4, <1>5, <1>10, <1>11, <1>12, <1>13 DEF MobileNext

LEMMA LockedInvariance == MobileSpec => [](MobileInv /\ LockedInv)
<1>1. MobileInit => MobileInv /\ LockedInv
  <2>1. MobileInit => LockedInv
    BY DEF MobileInit, LockedInv, Idle
  <2> QED  BY <2>1, InitHolds
<1>2. MobileInv /\ LockedInv /\ [MobileNext]_vars => (MobileInv /\ LockedInv)'
  BY StepKeeps, LockedKept DEF MobileInv
<1> QED  BY <1>1, <1>2, PTL DEF MobileSpec

\* The reasons to leave a session.
AskedOut ==
    \E r \in Requests : req[r].kind = "logout" /\ req[r].token.login = cached.login
LockedOut ==
    \E r \in Requests :
       /\ req[r].token.login = cached.login
       /\ req[r].answer = "forbidden" /\ req[r].retried /\ cached.login \in locked
HasReason == ~session[cached.login].live \/ faults > 0 \/ AskedOut \/ LockedOut

LEMMA StaysSignedIn ==
    ASSUME MobileInv, LockedInv, status = "authenticated",
           status' = "unauthenticated", [MobileNext]_vars
    PROVE  HasReason
<1>1. ASSUME NEW q \in Requests, Active(q), Here(q)
      PROVE  req[q].token.login = cached.login
  BY <1>1 DEF MobileInv, Laws, RequestInv, OwnRequest
<1>2. CASE QueueStep
  BY <1>2 DEF QueueStep, RefuseSave, WriteKey, FinishSave, FinishClear, storeVars
<1>3. CASE Hydrate \/ SignIn \/ Crash
  BY <1>3 DEF Hydrate, SignIn, Crash
<1>4. ASSUME NEW r \in Requests, ReceiveLogout(r)
      PROVE  HasReason
  BY <1>1, <1>4 DEF ReceiveLogout, Mine, Here, Active, HasReason, AskedOut
<1>5. ASSUME NEW r \in Requests, ReceiveSecondDenial(r)
      PROVE  HasReason
  <2>1. /\ req[r].token.login = cached.login
        /\ req[r].phase = "answered" /\ req[r].retried /\ Refused(r)
    BY <1>1, <1>5 DEF ReceiveSecondDenial, Mine, Here, Active
  <2>2. CASE req[r].answer = "denied"
    <3>1. Ended(req[r].token)
      BY <2>1, <2>2 DEF MobileInv, Laws, RequestInv, Replayed
    <3> QED  BY <2>1, <3>1 DEF Ended, HasReason
  <2>3. CASE req[r].answer = "forbidden"
    BY <2>1, <2>3 DEF LockedInv, HasReason, LockedOut
  <2> QED  BY <2>1, <2>2, <2>3 DEF Refused
<1>6. ASSUME NEW r \in Requests, EndFlight(r)
      PROVE  HasReason
  <2>1. flight[r].phase = "done" /\ req[r].phase = "waiting"
    BY <1>6, WaitersGoOn
  <2>2. CASE Dead(r)
    <3>1. faults > 0 \/ Ended(req[r].token)
      BY <2>1, <2>2 DEF Dead, MobileInv, Laws, FlightInv, Landed
    <3>2. req[r].token.login = cached.login
      BY <1>1, <2>1, <2>2 DEF Dead, Here, Active
    <3> QED  BY <3>1, <3>2 DEF Ended, HasReason
  <2>3. CASE \E q \in Requests : Waits(q, r) /\ LogsOut(q)
    BY <1>1, <2>3 DEF Waits, LogsOut, Here, Active, HasReason, AskedOut
  <2> QED  BY <1>6, <2>2, <2>3 DEF EndFlight, StaySignedIn, storeVars
<1>7. ASSUME NEW r \in Requests,
             \/ \E kind \in {"me", "logout"} : Begin(r, kind)
             \/ Serve(r) \/ LoseRequest(r) \/ ReceiveStale(r) \/ ReceiveMe(r) \/ ReceiveDenial(r)
             \/ ReadRefreshToken(r) \/ ServeRefresh(r) \/ LoseRefresh(r) \/ SaveRefreshed(r)
      PROVE  FALSE
  BY <1>7 DEF Begin, Serve, LoseRequest, ReceiveStale, LogsOut, StaySignedIn, ReceiveMe,
     ReceiveDenial, ReadRefreshToken, ServeRefresh, LoseRefresh, SaveRefreshed, storeVars
<1>8. ASSUME NEW l \in Logins, Expire(l) \/ EndAtServer(l) \/ LockAccount(l) PROVE FALSE
  BY <1>8 DEF Expire, EndAtServer, LockAccount, storeVars
<1>9. CASE UNCHANGED vars
  BY <1>9 DEF vars, storeVars
<1>10. ASSUME NEW r \in Requests, RequestStep(r) \/ FlightStep(r)
       PROVE  HasReason
  BY <1>4, <1>5, <1>6, <1>7, <1>10 DEF RequestStep, FlightStep
<1> QED  BY <1>2, <1>3, <1>7, <1>8, <1>9, <1>10 DEF MobileNext

\* The app leaves a session only when its user asked to, the server has ended
\* it, the account is locked and a request was refused again after a refresh, or
\* something was lost: neither endSessionIfDead() nor the finally of useLogout()
\* acts for a session that is no longer the one that stands, and a first 403
\* leaves the user where he is.
THEOREM SignedOutWithReason == MobileSpec => SignedOutForAReason
<1>1. MobileInv /\ LockedInv /\ [MobileNext]_vars =>
        [status = "authenticated" /\ status' = "unauthenticated" => HasReason]_vars
  BY StaysSignedIn
<1>2. HasReason =>
        \/ ~session[cached.login].live
        \/ faults > 0
        \/ \E r \in Requests :
              /\ req[r].token.login = cached.login
              /\ \/ req[r].kind = "logout"
                 \/ /\ req[r].answer = "forbidden" /\ req[r].retried
                    /\ cached.login \in locked
  BY DEF HasReason, AskedOut, LockedOut
<1>3. MobileInv /\ LockedInv /\ [MobileNext]_vars =>
        [status = "authenticated" /\ status' = "unauthenticated" =>
           \/ ~session[cached.login].live
           \/ faults > 0
           \/ \E r \in Requests :
                 /\ req[r].token.login = cached.login
                 /\ \/ req[r].kind = "logout"
                    \/ /\ req[r].answer = "forbidden" /\ req[r].retried
                       /\ cached.login \in locked]_vars
  BY <1>1, <1>2
<1> QED  BY <1>3, LockedInvariance, PTL DEF MobileSpec, SignedOutForAReason

===========================================================================
