------------------------------ MODULE Session -----------------------------
(***************************************************************************)
(* The sessions of one account, as the functions of session.scripts.js     *)
(* keep them in Redis: a hash of sessions by id and an index from a device *)
(* to the session it holds.  Redis runs each function alone, so each is    *)
(* one step here; what happens between two of them is in Access.           *)
(*                                                                         *)
(* Ids are version 7 UUIDs, which grow with time: 1 .. MaxSession in the   *)
(* order of creation.  Sessions up to Legacy were written before the index *)
(* existed, some before sessions had a device.  A refresh token of a       *)
(* session is named by the number of rotations before it.                  *)
(***************************************************************************)
EXTENDS Integers, FiniteSets

CONSTANTS
    MaxSession,  \* bound on the sessions ever created
    Legacy,      \* the sessions created before the index existed
    Devices,     \* values of the x-device-id header
    NoDevice,    \* the session has no device, the request no header
    Cap,         \* maxSessionsAdmin or maxSessionsUser
    MaxRotation  \* bound on the rotations of one session

ASSUME SessionAssumption ==
    /\ MaxSession \in Nat /\ Legacy \in 0..MaxSession /\ MaxRotation \in Nat
    /\ Cap \in Nat \ {0}
    /\ NoDevice \notin Devices

VARIABLES
    sessions,  \* the hash: id -> session
    index,     \* the index: device -> id, 0 for none
    lastId     \* the last id given

sessionVars == <<sessions, index, lastId>>

Ids == 1..MaxSession
Rows == [live : BOOLEAN, device : Devices \cup {NoDevice}, jti : 0..MaxRotation]
Gone == [live |-> FALSE, device |-> NoDevice, jti |-> 0]

SessionTypeOK ==
    /\ sessions \in [Ids -> Rows]
    /\ index \in [Devices -> 0..MaxSession]
    /\ lastId \in 0..MaxSession

Live == {s \in Ids : sessions[s].live}

\* Legacy sessions may lack a device, and may even share one.
SessionInit ==
    /\ sessions \in
         [Ids -> {Gone} \cup [live : {TRUE}, device : Devices \cup {NoDevice}, jti : {0}]]
    /\ \A s \in Ids : s > Legacy => sessions[s] = Gone
    /\ Cardinality(Live) <= Cap
    /\ index = [d \in Devices |-> 0]
    /\ lastId = Legacy

-----------------------------------------------------------------------------
(* load() and save()                                                       *)

\* load(): nothing for a session whose device the index gives to another.
Loads(s) ==
    /\ sessions[s].live
    /\ sessions[s].device # NoDevice => index[sessions[s].device] \in {0, s}

\* save(): the session, and the index of its device.
Indexed(book, row, s) ==
    [d \in Devices |-> IF row.device = d THEN s ELSE book[d]]

Save(s, row) ==
    /\ sessions' = [sessions EXCEPT ![s] = row]
    /\ index' = Indexed(index, row, s)
    /\ UNCHANGED lastId

\* Removed with every mapping that points at them.
Unmapped(book, ended) == [d \in Devices |-> IF book[d] \in ended THEN 0 ELSE book[d]]

End(ended) ==
    /\ sessions' = [s \in Ids |-> IF s \in ended THEN Gone ELSE sessions[s]]
    /\ index' = Unmapped(index, ended)
    /\ UNCHANGED lastId

-----------------------------------------------------------------------------
(* The functions                                                           *)

\* Of several sessions of one device only the newest is kept.
Outdated(s) ==
    \E t \in Live : t > s /\ sessions[t].device = sessions[s].device

Candidates(d) ==
    {s \in Live : sessions[s].device = NoDevice
                  \/ (sessions[s].device # d /\ ~Outdated(s))}

\* Mutant: the session about to be saved is not counted.
SparedUncounted(d) ==
    {kept \in SUBSET Candidates(d) :
        \/ Cardinality(kept) = Cap
        \/ kept = Candidates(d) /\ Cardinality(kept) <= Cap}

\* As many as the cap leaves room for beside the new one.  The function ends
\* those unseen for longest; here any may be the ones.
Spared(d) ==
    {kept \in SUBSET Candidates(d) :
        \/ Cardinality(kept) = Cap - 1
        \/ kept = Candidates(d) /\ Cardinality(kept) < Cap}

\* create, with the index rebuilt from what is left.
CreateSession(d) ==
    LET new == lastId + 1 IN
    /\ new \in Ids
    /\ lastId' = new
    /\ \E kept \in Spared(d) :
         /\ sessions' = [s \in Ids |->
                IF s = new THEN [live |-> TRUE, device |-> d, jti |-> 0]
                ELSE IF s \in kept THEN sessions[s] ELSE Gone]
         /\ index' = [e \in Devices |->
                IF e = d THEN new
                ELSE IF \E s \in kept : sessions[s].device = e
                     THEN CHOOSE s \in kept : sessions[s].device = e
                     ELSE 0]

\* Mutant: the device goes to whoever asks.
FreeForAny(s, d) == TRUE

\* attach: a device that another session holds is not taken from it.
FreeFor(s, d) ==
    /\ index[d] = 0 \/ index[d] = s \/ ~Loads(index[d])
    /\ \A t \in Live \ {s} : sessions[t].device # d

CanAttach(s, d) ==
    /\ Loads(s)
    /\ sessions[s].device \in {NoDevice, d}
    /\ FreeFor(s, d)

AttachDevice(s, d) == Save(s, [sessions[s] EXCEPT !.device = d])

\* Mutant: patched whether or not the session is there.
TouchAnyway(s) == Save(s, [sessions[s] EXCEPT !.live = TRUE])

\* touch: the later expiry is not part of the model, the index is written.
TouchSession(s) == IF Loads(s) THEN Save(s, sessions[s]) ELSE UNCHANGED sessionVars

RotateJti(s) == Save(s, [sessions[s] EXCEPT !.jti = @ + 1])

\* delete, and the expiry of a session and its mapping at one deadline.
DeleteSession(s) == End({s})

\* deleteAccount: the index is dropped, the excepted session indexed again.
DeleteAllByAccount(except) ==
    LET kept == {s \in except : Loads(s)} IN
    /\ sessions' = [s \in Ids |-> IF s \in kept THEN sessions[s] ELSE Gone]
    /\ index' = [d \in Devices |->
           IF \E s \in kept : sessions[s].device = d
           THEN CHOOSE s \in kept : sessions[s].device = d ELSE 0]
    /\ UNCHANGED lastId
=============================================================================
