---------------------------- MODULE AccessProofs ---------------------------
(***************************************************************************)
(* The safety properties of Access, for any number of sessions, devices,   *)
(* requests, status changes and failures, any cap, and device binding      *)
(* enforced or not.                                                        *)
(*                                                                         *)
(* What makes them inductive is that the index tells the truth             *)
(* (IndexPoints), that a session created with the index is indexed         *)
(* (NewIndexed), so that no other session can take its place there, and    *)
(* that while a lock stands every live session is younger than the cutoff  *)
(* (Barrier).                                                              *)
(***************************************************************************)
EXTENDS Access, FiniteSetTheorems, TLAPS

IndexPoints ==
    \A d \in Devices : index[d] # 0 =>
        sessions[index[d]].live /\ sessions[index[d]].device = d

NewIndexed ==
    \A s \in Ids : s > Legacy /\ sessions[s].live =>
        /\ sessions[s].device \in Devices
        /\ index[sessions[s].device] = s

LiveIsGiven == lastId >= Legacy /\ \A s \in Ids : sessions[s].live => s <= lastId

StoreInv ==
    /\ SessionTypeOK
    /\ IndexPoints
    /\ NewIndexed
    /\ OwnsItsDevice
    /\ LiveIsGiven

Barrier ==
    /\ cutoff <= lastId
    /\ barred \/ (admin = "invalidate" /\ account = "locked") =>
         \A s \in Ids : sessions[s].live => s > cutoff

AccessInv ==
    /\ AccessTypeOK
    /\ StoreInv
    /\ WithinCap
    /\ Barrier
    /\ OldSessionsShutOut

\* What every step does to the sessions: none comes back, and one that
\* appears has the next id.
NoneReturns ==
    /\ lastId' >= lastId
    /\ \A s \in Ids : ~sessions[s].live /\ sessions'[s].live => s > lastId

-----------------------------------------------------------------------------
(* The functions on the sessions                                           *)

LEMMA GoneType == Gone \in Rows /\ ~Gone.live
  BY SessionAssumption DEF Gone, Rows, SessionAssumption

\* A session created with the index in place loads as long as it is live.
LEMMA NewLoads ==
    ASSUME StoreInv, NEW s \in Ids, s > Legacy, sessions[s].live
    PROVE  Loads(s)
  BY DEF StoreInv, NewIndexed, Loads

\* A saved session keeps its device or takes one that is free.
LEMMA SaveKeeps ==
    ASSUME StoreInv, NEW s \in Ids, NEW row \in Rows, row.live, Loads(s),
           \/ row.device = sessions[s].device
           \/ row.device \in Devices /\ sessions[s].device = NoDevice /\ FreeFor(s, row.device),
           Save(s, row)
    PROVE  StoreInv' /\ NoneReturns /\ Live' = Live /\ lastId' = lastId
<1>0. /\ sessions \in [Ids -> Rows] /\ index \in [Devices -> 0..MaxSession]
      /\ lastId \in 0..MaxSession /\ sessions[s].live
  BY DEF StoreInv, SessionTypeOK, Loads
<1>1. /\ sessions' = [sessions EXCEPT ![s] = row]
      /\ index' = [d \in Devices |-> IF row.device = d THEN s ELSE index[d]]
      /\ lastId' = lastId
  BY DEF Save, Indexed
<1>2. SessionTypeOK'
  BY <1>0, <1>1, SessionAssumption DEF SessionTypeOK, Ids, SessionAssumption
<1>3. \A t \in Ids : sessions'[t].live = sessions[t].live
  <2> SUFFICES ASSUME NEW t \in Ids PROVE sessions'[t].live = sessions[t].live
    OBVIOUS
  <2>1. CASE t = s
    <3>1. sessions'[s] = row
      BY <1>0, <1>1
    <3>2. row.live = TRUE /\ sessions[s].live = TRUE
      BY <1>0 DEF Rows
    <3> QED BY <2>1, <3>1, <3>2
  <2>2. CASE t # s
    BY <2>2, <1>0, <1>1
  <2> QED BY <2>1, <2>2
<1>4. NoneReturns /\ Live' = Live /\ LiveIsGiven'
  BY <1>0, <1>1, <1>3, SessionAssumption DEF NoneReturns, Live, LiveIsGiven, StoreInv, Ids, SessionAssumption
<1>5. \A t \in Ids : t # s => sessions'[t] = sessions[t]
  BY <1>0, <1>1
<1>6. sessions'[s] = row
  BY <1>0, <1>1
<1>7. OwnsItsDevice'
  <2> SUFFICES ASSUME NEW a \in Ids, NEW c \in Ids, sessions[a].live, sessions[c].live,
                      a > Legacy, a # c
               PROVE  sessions'[a].device # sessions'[c].device
    BY <1>4, <1>3 DEF OwnsItsDevice, Live
  <2>1. sessions[a].device # sessions[c].device /\ sessions[a].device \in Devices
    BY DEF StoreInv, OwnsItsDevice, NewIndexed, Live
  <2>2. CASE row.device = sessions[s].device
    BY <2>1, <2>2, <1>5, <1>6
  <2>3. CASE row.device \in Devices /\ sessions[s].device = NoDevice /\ FreeFor(s, row.device)
    BY <2>1, <2>3, <1>5, <1>6 DEF FreeFor, Live
  <2> QED BY <2>2, <2>3
<1>8. IndexPoints'
  <2> SUFFICES ASSUME NEW d \in Devices, index'[d] # 0
               PROVE  sessions'[index'[d]].live /\ sessions'[index'[d]].device = d
    BY DEF IndexPoints
  <2>1. CASE row.device = d
    BY <2>1, <1>1, <1>6
  <2>2. CASE row.device # d
    <3>1. index'[d] = index[d] /\ index[d] \in Ids
      BY <2>2, <1>0, <1>1, SessionAssumption DEF Ids, SessionAssumption
    <3>2. sessions[index[d]].live /\ sessions[index[d]].device = d
      BY <3>1 DEF StoreInv, IndexPoints
    <3>3. CASE index[d] = s
      BY <2>2, <3>2, <3>3, SessionAssumption DEF SessionAssumption
    <3>4. CASE index[d] # s
      BY <3>1, <3>2, <3>4, <1>5
    <3> QED BY <3>3, <3>4
  <2> QED BY <2>1, <2>2
<1>9. NewIndexed'
  <2> SUFFICES ASSUME NEW t \in Ids, t > Legacy, sessions[t].live
               PROVE  sessions'[t].device \in Devices /\ index'[sessions'[t].device] = t
    BY <1>3 DEF NewIndexed
  <2>1. sessions[t].device \in Devices /\ index[sessions[t].device] = t
    BY DEF StoreInv, NewIndexed
  <2>2. CASE t = s
    BY <2>1, <2>2, <1>1, <1>6, SessionAssumption DEF SessionAssumption
  <2>3. CASE t # s
    <3>1. sessions'[t].device = sessions[t].device
      BY <2>3, <1>5
    <3>2. row.device # sessions[t].device
      <4>1. CASE row.device = sessions[s].device
        BY <4>1, <2>3, <1>0 DEF StoreInv, OwnsItsDevice, Live
      <4>2. CASE FreeFor(s, row.device)
        BY <4>2, <2>3 DEF FreeFor, Live
      <4> QED BY <4>1, <4>2
    <3> QED BY <1>1, <2>1, <3>1, <3>2
  <2> QED BY <2>2, <2>3
<1> QED BY <1>1, <1>2, <1>4, <1>7, <1>8, <1>9 DEF StoreInv

\* Sessions that end take their mappings with them.
LEMMA EndKeeps ==
    ASSUME StoreInv, NEW ended \in SUBSET Ids, End(ended)
    PROVE  /\ StoreInv' /\ NoneReturns /\ Live' \subseteq Live /\ lastId' = lastId
           /\ \A s \in ended : ~sessions'[s].live
<1>0. /\ sessions \in [Ids -> Rows] /\ index \in [Devices -> 0..MaxSession]
      /\ lastId \in 0..MaxSession
  BY DEF StoreInv, SessionTypeOK
<1>1. /\ sessions' = [s \in Ids |-> IF s \in ended THEN Gone ELSE sessions[s]]
      /\ index' = [d \in Devices |-> IF index[d] \in ended THEN 0 ELSE index[d]]
      /\ lastId' = lastId
  BY DEF End, Unmapped
<1>2. SessionTypeOK'
  BY <1>0, <1>1, GoneType, SessionAssumption DEF SessionTypeOK, Ids, SessionAssumption
<1>3. \A s \in Ids : s \in ended => ~sessions'[s].live
  BY <1>1, GoneType
<1>4. \A s \in Ids : s \notin ended => sessions'[s] = sessions[s]
  BY <1>1
<1>5. NoneReturns /\ Live' \subseteq Live /\ LiveIsGiven'
  BY <1>0, <1>1, <1>3, <1>4, SessionAssumption DEF NoneReturns, Live, LiveIsGiven, StoreInv, Ids, SessionAssumption
<1>6. OwnsItsDevice'
  BY <1>3, <1>4 DEF OwnsItsDevice, Live, StoreInv
<1>7. IndexPoints'
  BY <1>0, <1>1, <1>4, SessionAssumption DEF IndexPoints, StoreInv, Ids, SessionAssumption
<1>8. NewIndexed'
  BY <1>1, <1>3, <1>4 DEF NewIndexed, StoreInv
<1> QED BY <1>1, <1>2, <1>3, <1>5, <1>6, <1>7, <1>8 DEF StoreInv

\* The sessions kept beside a new one have devices of their own.
LEMMA SparedApart ==
    ASSUME StoreInv, NEW d \in Devices, NEW kept \in SUBSET Candidates(d)
    PROVE  /\ kept \subseteq Live
           /\ \A s \in kept : sessions[s].device # d
           /\ \A s, t \in kept :
                sessions[s].device \in Devices /\ sessions[s].device = sessions[t].device => s = t
<1>1. \A s \in kept : s \in Live /\ s \in Ids
  BY DEF Candidates, Live
<1>2. \A s \in kept : sessions[s].device # d
  BY SessionAssumption DEF Candidates, SessionAssumption
<1>3. ASSUME NEW s \in kept, NEW t \in kept,
             sessions[s].device \in Devices, sessions[s].device = sessions[t].device
      PROVE  s = t
  <2>1. ~Outdated(s) /\ ~Outdated(t)
    BY <1>3, SessionAssumption DEF Candidates, SessionAssumption
  <2>2. ~(t > s) /\ ~(s > t)
    BY <1>1, <1>3, <2>1 DEF Outdated
  <2> QED BY <1>1, <2>2, SessionAssumption DEF Ids, SessionAssumption
<1> QED BY <1>1, <1>2, <1>3

\* A login keeps the index true and the new session alone on its device.
LEMMA CreateKeeps ==
    ASSUME StoreInv, NEW d \in Devices, CreateSession(d)
    PROVE  /\ StoreInv' /\ NoneReturns /\ lastId' = lastId + 1
           /\ \E kept \in Spared(d) : Live' = kept \cup {lastId + 1}
<1> DEFINE new == lastId + 1
<1>0. /\ sessions \in [Ids -> Rows] /\ index \in [Devices -> 0..MaxSession]
      /\ lastId \in 0..MaxSession /\ new \in Ids /\ lastId' = new
  BY DEF StoreInv, SessionTypeOK, CreateSession
<1>1. PICK kept \in Spared(d) :
         /\ sessions' = [s \in Ids |->
                IF s = new THEN [live |-> TRUE, device |-> d, jti |-> 0]
                ELSE IF s \in kept THEN sessions[s] ELSE Gone]
         /\ index' = [e \in Devices |->
                IF e = d THEN new
                ELSE IF \E s \in kept : sessions[s].device = e
                     THEN CHOOSE s \in kept : sessions[s].device = e
                     ELSE 0]
  BY DEF CreateSession
<1>2. kept \in SUBSET Candidates(d)
  BY DEF Spared
<1>3. /\ \A s \in kept : s \in Ids /\ sessions[s].live /\ s # new /\ s <= lastId
      /\ \A s \in kept : sessions[s].device # d
      /\ \A s, t \in kept :
           sessions[s].device \in Devices /\ sessions[s].device = sessions[t].device => s = t
  BY <1>0, <1>2, SparedApart, SessionAssumption DEF Live, StoreInv, LiveIsGiven, Ids, SessionAssumption
<1>4. [live |-> TRUE, device |-> d, jti |-> 0] \in Rows
  BY SessionAssumption DEF Rows, SessionAssumption
<1>5. /\ sessions'[new] = [live |-> TRUE, device |-> d, jti |-> 0]
      /\ \A s \in kept : sessions'[s] = sessions[s]
      /\ \A s \in Ids : s # new /\ s \notin kept => sessions'[s] = Gone
  BY <1>0, <1>1, <1>3
<1>6. index'[d] = new
  BY <1>1
<1>7. ASSUME NEW e \in Devices, e # d
      PROVE  \/ index'[e] \in kept /\ sessions[index'[e]].device = e
             \/ index'[e] = 0 /\ \A s \in kept : sessions[s].device # e
  BY <1>1, <1>7
<1>8. SessionTypeOK'
  <2>1. sessions' \in [Ids -> Rows]
    BY <1>0, <1>1, <1>4, GoneType
  <2>2. index' \in [Devices -> 0..MaxSession]
    <3>1. \A e \in Devices : index'[e] \in 0..MaxSession
      BY <1>0, <1>3, <1>6, <1>7, SessionAssumption DEF Ids, SessionAssumption
    <3>2. index' = [e \in Devices |-> index'[e]]
      BY <1>1
    <3> QED BY <3>1, <3>2
  <2> QED BY <2>1, <2>2, <1>0, SessionAssumption DEF SessionTypeOK, Ids, SessionAssumption
<1>9. \A s \in Ids : sessions'[s].live <=> s = new \/ s \in kept
  <2> SUFFICES ASSUME NEW s \in Ids PROVE sessions'[s].live <=> s = new \/ s \in kept
    OBVIOUS
  <2>1. CASE s = new
    BY <2>1, <1>5
  <2>2. CASE s \in kept
    BY <2>2, <1>3, <1>5
  <2>3. CASE s # new /\ s \notin kept
    BY <2>3, <1>5, GoneType
  <2> QED BY <2>1, <2>2, <2>3
<1>10. NoneReturns /\ LiveIsGiven'
  BY <1>0, <1>3, <1>9, SessionAssumption DEF NoneReturns, LiveIsGiven, StoreInv, Ids, SessionAssumption
<1>11. Live' = kept \cup {new}
  BY <1>0, <1>3, <1>9 DEF Live
<1>12. sessions'[new].device = d
  BY <1>5
<1>13. OwnsItsDevice'
  <2> SUFFICES ASSUME NEW a \in Ids, NEW c \in Ids, a \in kept \cup {new}, c \in kept \cup {new},
                      a > Legacy, a # c
               PROVE  sessions'[a].device # sessions'[c].device
    BY <1>11, <1>0, <1>3 DEF OwnsItsDevice
  <2>1. CASE a \in kept /\ c \in kept
    BY <2>1, <1>3, <1>5 DEF StoreInv, OwnsItsDevice, Live
  <2>2. CASE a = new \/ c = new
    BY <2>2, <1>3, <1>5, <1>12
  <2> QED BY <2>1, <2>2
<1>14. IndexPoints'
  <2> SUFFICES ASSUME NEW e \in Devices, index'[e] # 0
               PROVE  sessions'[index'[e]].live /\ sessions'[index'[e]].device = e
    BY DEF IndexPoints
  <2>1. CASE e = d
    BY <2>1, <1>0, <1>6, <1>9, <1>12
  <2>2. CASE e # d
    BY <2>2, <1>3, <1>5, <1>7
  <2> QED BY <2>1, <2>2
<1>15. NewIndexed'
  <2> SUFFICES ASSUME NEW s \in Ids, s > Legacy, s = new \/ s \in kept
               PROVE  sessions'[s].device \in Devices /\ index'[sessions'[s].device] = s
    BY <1>9 DEF NewIndexed
  <2>1. CASE s = new
    BY <2>1, <1>6, <1>12
  <2>2. CASE s \in kept
    <3>1. sessions'[s].device = sessions[s].device /\ sessions[s].device \in Devices
      BY <2>2, <1>3, <1>5 DEF StoreInv, NewIndexed
    <3>2. sessions[s].device # d
      BY <2>2, <1>3
    <3>3. index'[sessions[s].device] \in kept
          /\ sessions[index'[sessions[s].device]].device = sessions[s].device
      BY <2>2, <3>1, <3>2, <1>7
    <3> QED BY <2>2, <3>1, <3>3, <1>3
  <2> QED BY <2>1, <2>2
<1> QED BY <1>0, <1>8, <1>10, <1>11, <1>13, <1>14, <1>15 DEF StoreInv

\* All sessions end, but for at most one that loads.
LEMMA DeleteAllKeeps ==
    ASSUME StoreInv, NEW except \in SUBSET Ids, \A s, t \in except : s = t,
           DeleteAllByAccount(except)
    PROVE  /\ StoreInv' /\ NoneReturns /\ Live' \subseteq Live /\ lastId' = lastId
           /\ \A s \in Ids : s \notin except => ~sessions'[s].live
<1> DEFINE kept == {s \in except : Loads(s)}
<1>0. /\ sessions \in [Ids -> Rows] /\ index \in [Devices -> 0..MaxSession]
      /\ lastId \in 0..MaxSession
  BY DEF StoreInv, SessionTypeOK
<1>1. /\ sessions' = [s \in Ids |-> IF s \in kept THEN sessions[s] ELSE Gone]
      /\ index' = [d \in Devices |->
           IF \E s \in kept : sessions[s].device = d
           THEN CHOOSE s \in kept : sessions[s].device = d ELSE 0]
      /\ lastId' = lastId
  BY DEF DeleteAllByAccount
<1>2. \A s \in kept : s \in except /\ s \in Ids /\ sessions[s].live
  BY DEF Loads
<1> HIDE DEF kept
<1>3. /\ \A s \in kept : sessions'[s] = sessions[s]
      /\ \A s \in Ids : s \notin kept => sessions'[s] = Gone
  BY <1>1, <1>2
<1>4. ASSUME NEW d \in Devices
      PROVE  \/ index'[d] \in kept /\ sessions[index'[d]].device = d
             \/ index'[d] = 0 /\ \A s \in kept : sessions[s].device # d
  BY <1>1
<1>5. \A s \in Ids : sessions'[s].live <=> s \in kept
  BY <1>2, <1>3, GoneType
<1>6. SessionTypeOK'
  <2>1. sessions' \in [Ids -> Rows]
    BY <1>0, <1>1, GoneType
  <2>2. \A d \in Devices : index'[d] \in 0..MaxSession
    BY <1>2, <1>4, SessionAssumption DEF Ids, SessionAssumption
  <2>3. index' = [d \in Devices |-> index'[d]]
    BY <1>1
  <2> QED BY <2>1, <2>2, <2>3, <1>0, <1>1 DEF SessionTypeOK
<1>7. NoneReturns /\ LiveIsGiven'
  BY <1>0, <1>1, <1>2, <1>5 DEF NoneReturns, LiveIsGiven, StoreInv
<1>8. Live' \subseteq Live
  BY <1>2, <1>5 DEF Live
<1>9. OwnsItsDevice'
  BY <1>2, <1>5 DEF OwnsItsDevice, Live
<1>10. IndexPoints'
  <2> SUFFICES ASSUME NEW d \in Devices, index'[d] # 0
               PROVE  sessions'[index'[d]].live /\ sessions'[index'[d]].device = d
    BY DEF IndexPoints
  <2>1. index'[d] \in kept /\ sessions[index'[d]].device = d
    BY <1>4
  <2> QED BY <1>2, <1>3, <2>1
<1>11. NewIndexed'
  <2> SUFFICES ASSUME NEW s \in Ids, s > Legacy, s \in kept
               PROVE  sessions'[s].device \in Devices /\ index'[sessions'[s].device] = s
    BY <1>5 DEF NewIndexed
  <2>1. sessions'[s].device = sessions[s].device /\ sessions[s].device \in Devices
    BY <1>2, <1>3 DEF StoreInv, NewIndexed
  <2>2. index'[sessions[s].device] \in kept
    BY <1>4, <2>1
  <2> QED BY <1>2, <2>1, <2>2
<1> QED BY <1>1, <1>2, <1>5, <1>6, <1>7, <1>8, <1>9, <1>10, <1>11 DEF StoreInv

LEMMA LiveFinite ==
    ASSUME NEW set \in SUBSET Ids
    PROVE  IsFiniteSet(set) /\ Cardinality(set) \in Nat
<1>1. IsFiniteSet(Ids)
  BY FS_Interval, SessionAssumption DEF Ids, SessionAssumption
<1>2. IsFiniteSet(set)
  BY <1>1, FS_Subset
<1> QED BY <1>2, FS_CardinalityType

\* Fewer sessions are within the cap as well.
LEMMA FewerWithinCap ==
    ASSUME WithinCap, Live' \subseteq Live
    PROVE  WithinCap'
<1>1. Live \in SUBSET Ids
  BY DEF Live
<1>2. IsFiniteSet(Live) /\ Cardinality(Live) \in Nat
  BY <1>1, LiveFinite
<1>3. Live' \in SUBSET Ids
  BY <1>1
<1>4. Cardinality(Live') \in Nat
  BY <1>3, LiveFinite
<1>5. Cardinality(Live') <= Cardinality(Live)
  BY <1>2, FS_Subset
<1> QED BY <1>2, <1>4, <1>5, SessionAssumption DEF WithinCap, SessionAssumption

\* A login makes room before it adds.
LEMMA CreateWithinCap ==
    ASSUME NEW d \in Devices, NEW kept \in Spared(d), NEW new \in Ids, Live' = kept \cup {new}
    PROVE  WithinCap'
<1>1. kept \in SUBSET Ids
  BY DEF Spared, Candidates, Live
<1>2. IsFiniteSet(kept) /\ Cardinality(kept) \in Nat
  BY <1>1, LiveFinite
<1>3. Cardinality(kept) < Cap
  BY <1>2, SessionAssumption DEF Spared, SessionAssumption
<1>4. Cardinality(kept \cup {new}) =
        IF new \in kept THEN Cardinality(kept) ELSE Cardinality(kept) + 1
  BY <1>2, FS_AddElement
<1>5. Cardinality(kept \cup {new}) \in Nat
  BY <1>1, LiveFinite
<1> QED BY <1>2, <1>3, <1>4, <1>5, SessionAssumption DEF WithinCap, SessionAssumption

-----------------------------------------------------------------------------
(* The initial state and the steps                                         *)

\* Nothing but an index that is empty and sessions of the old kind.
LEMMA InitInv == AccessInit => AccessInv
<1> SUFFICES ASSUME AccessInit PROVE AccessInv
  OBVIOUS
<1>1. /\ \A s \in Ids : s > Legacy => sessions[s] = Gone
      /\ index = [d \in Devices |-> 0] /\ lastId = Legacy
      /\ sessions \in [Ids -> {Gone} \cup
            [live : {TRUE}, device : Devices \cup {NoDevice}, jti : {0}]]
  BY DEF AccessInit, SessionInit
<1>2. SessionTypeOK
  <2>1. [live : {TRUE}, device : Devices \cup {NoDevice}, jti : {0}] \subseteq Rows
    <3>1. {TRUE} \subseteq BOOLEAN
      OBVIOUS
    <3>2. {0} \subseteq 0..MaxRotation
      BY SessionAssumption DEF SessionAssumption
    <3> QED BY <3>1, <3>2, Zenon DEF Rows
  <2>2. sessions \in [Ids -> Rows]
    BY <1>1, <2>1, GoneType
  <2> QED BY <1>1, <2>2, SessionAssumption DEF SessionTypeOK, SessionAssumption
<1>3. \A s \in Ids : s > Legacy => ~sessions[s].live
  BY <1>1, GoneType
<1>4. StoreInv
  BY <1>1, <1>2, <1>3, SessionAssumption
  DEF StoreInv, IndexPoints, NewIndexed, OwnsItsDevice, LiveIsGiven, Live, Ids, SessionAssumption
<1>5. WithinCap
  BY DEF AccessInit, SessionInit, WithinCap
<1>6. Idle \in ReqRows
  BY SessionAssumption DEF Idle, ReqRows, Statuses, SessionAssumption
<1>7. \A r \in Requests : req[r].at = "idle"
  BY DEF AccessInit, Idle
<1>8. req \in [Requests -> ReqRows]
  BY <1>6 DEF AccessInit
<1>9. AccessTypeOK
  <2>1. barred \in BOOLEAN /\ barred = FALSE
    BY Zenon DEF AccessInit
  <2>2. /\ account \in Statuses /\ cache \in Statuses \cup {"none"}
        /\ admin \in {"idle", "revoke", "invalidate"}
    BY DEF AccessInit, Statuses
  <2>3. cutoff \in 0..MaxSession /\ changes \in 0..MaxChanges /\ failures \in 0..MaxFailures
    BY SessionAssumption, AccessAssumption DEF AccessInit, SessionAssumption, AccessAssumption
  <2>4. \A r \in Requests : req[r].at \notin {"login", "attach", "attach refresh"}
    BY <1>7
  <2> QED BY <1>2, <1>8, <2>1, <2>2, <2>3, <2>4, Zenon DEF AccessTypeOK
<1>10. Barrier /\ OldSessionsShutOut
  BY <1>1, <1>7, SessionAssumption DEF Barrier, OldSessionsShutOut, AccessInit, SessionAssumption
<1> QED BY <1>4, <1>5, <1>9, <1>10 DEF AccessInv

\* Steps that leave the locks alone and open no session below the cutoff.
LEMMA BarrierKept ==
    ASSUME AccessInv, StoreInv', NoneReturns,
           UNCHANGED <<account, admin, barred, cutoff>>
    PROVE  Barrier'
<1>1. cutoff \in 0..MaxSession /\ lastId \in 0..MaxSession /\ lastId' \in 0..MaxSession
  BY Zenon DEF AccessInv, AccessTypeOK, StoreInv, SessionTypeOK
<1>2. cutoff' <= lastId'
  BY <1>1, SessionAssumption DEF AccessInv, Barrier, NoneReturns, SessionAssumption
<1>3. ASSUME NEW s \in Ids, sessions'[s].live,
             barred \/ (admin = "invalidate" /\ account = "locked")
      PROVE  s > cutoff
  <2>1. CASE sessions[s].live
    BY <1>3, <2>1 DEF AccessInv, Barrier
  <2>2. CASE ~sessions[s].live
    BY <1>1, <1>3, <2>2, SessionAssumption
    DEF AccessInv, Barrier, NoneReturns, Ids, SessionAssumption
  <2> QED BY <2>1, <2>2
<1> QED BY <1>2, <1>3 DEF Barrier

\* One request goes on, ends or begins with a row that is typed and above its floor.
ReqStepOK(r) ==
    /\ req'[r] \in ReqRows
    /\ req'[r].at \in {"login", "attach", "attach refresh"} => req'[r].device \in Devices
    /\ req'[r].at \notin {"idle", "login"} => req'[r].s > req'[r].floor
    /\ \A q \in Requests \ {r} : req'[q] = req[q]
    /\ req' = [q \in Requests |-> req'[q]]

LEMMA RequestsKept ==
    ASSUME AccessInv, NEW r \in Requests, ReqStepOK(r)
    PROVE  /\ req' \in [Requests -> ReqRows]
           /\ \A q \in Requests :
                req'[q].at \in {"login", "attach", "attach refresh"} => req'[q].device \in Devices
           /\ OldSessionsShutOut'
<1>1. \A q \in Requests : q # r => req'[q] = req[q] /\ req[q] \in ReqRows
  BY DEF ReqStepOK, AccessInv, AccessTypeOK
<1>2. req' \in [Requests -> ReqRows]
  BY <1>1 DEF ReqStepOK
<1>3. ASSUME NEW q \in Requests
      PROVE  /\ req'[q].at \in {"login", "attach", "attach refresh"} => req'[q].device \in Devices
             /\ req'[q].at \notin {"idle", "login"} => req'[q].s > req'[q].floor
  <2>1. CASE q = r
    BY <2>1 DEF ReqStepOK
  <2>2. CASE q # r
    BY <2>2, <1>1 DEF AccessInv, AccessTypeOK, OldSessionsShutOut
  <2> QED BY <2>1, <2>2
<1> QED BY <1>2, <1>3 DEF OldSessionsShutOut

\* The conclusion of every step of a request.
LEMMA RequestStepKeeps ==
    ASSUME AccessInv, NEW r \in Requests, ReqStepOK(r),
           StoreInv', NoneReturns, WithinCap',
           UNCHANGED <<account, admin, barred, cutoff, changes, failures>>,
           cache' \in Statuses \cup {"none"}
    PROVE  AccessInv'
<1>1. Barrier'
  BY BarrierKept
<1>2. /\ req' \in [Requests -> ReqRows]
      /\ \A q \in Requests :
           req'[q].at \in {"login", "attach", "attach refresh"} => req'[q].device \in Devices
      /\ OldSessionsShutOut'
  BY RequestsKept
<1>3. AccessTypeOK'
  <2>1. /\ account \in Statuses /\ admin \in {"idle", "revoke", "invalidate"}
        /\ barred \in BOOLEAN /\ cutoff \in 0..MaxSession
        /\ changes \in 0..MaxChanges /\ failures \in 0..MaxFailures
    BY DEF AccessInv, AccessTypeOK
  <2>2. SessionTypeOK'
    BY DEF StoreInv
  <2> QED BY <1>2, <2>1, <2>2 DEF AccessTypeOK
<1> QED BY <1>1, <1>2, <1>3 DEF AccessInv

\* What leaves the sessions alone keeps them.
LEMMA StoreUnchanged ==
    ASSUME AccessInv, UNCHANGED sessionVars
    PROVE  StoreInv' /\ NoneReturns /\ WithinCap' /\ Live' = Live
<1>1. sessions' = sessions /\ index' = index /\ lastId' = lastId /\ Live' = Live
  BY DEF sessionVars, Live
<1>2. StoreInv'
  BY <1>1 DEF AccessInv, StoreInv, SessionTypeOK, IndexPoints, NewIndexed, OwnsItsDevice, LiveIsGiven
<1>3. NoneReturns
  BY <1>1, SessionAssumption
  DEF NoneReturns, AccessInv, StoreInv, SessionTypeOK, SessionAssumption
<1> QED BY <1>1, <1>2, <1>3 DEF AccessInv, WithinCap

\* An ended request has nothing in hand.
LEMMA EndsOK ==
    ASSUME AccessInv, NEW r \in Requests, Ends(r)
    PROVE  ReqStepOK(r) /\ req'[r] = Idle
<1>1. Idle \in ReqRows /\ Idle.at = "idle"
  BY SessionAssumption DEF Idle, ReqRows, Statuses, SessionAssumption
<1>2. req \in [Requests -> ReqRows] /\ req' = [req EXCEPT ![r] = Idle]
  BY DEF Ends, AccessInv, AccessTypeOK
<1>3. req'[r] = Idle
  BY <1>2
<1> QED BY <1>1, <1>2, <1>3 DEF ReqStepOK

\* A request goes from one place to another with what it has.
LEMMA GoesOK ==
    ASSUME AccessInv, NEW r \in Requests,
           NEW at \in {"account", "fill", "touch", "rotate", "reuse", "cache"},
           NEW read \in Statuses, NEW device \in Devices \cup {NoDevice},
           req[r].at \notin {"idle", "login"},
           req' = [req EXCEPT ![r] = [req[r] EXCEPT !.at = at, !.read = read, !.device = device]]
    PROVE  ReqStepOK(r) /\ req'[r] # Idle
<1>1. req \in [Requests -> ReqRows] /\ req[r] \in ReqRows /\ req[r].s > req[r].floor
  BY DEF AccessInv, AccessTypeOK, OldSessionsShutOut
<1>2. /\ req'[r] = [req[r] EXCEPT !.at = at, !.read = read, !.device = device]
      /\ \A q \in Requests \ {r} : req'[q] = req[q]
      /\ req' = [q \in Requests |-> req'[q]]
  BY <1>1
<1>3. req'[r] \in ReqRows /\ req'[r].at = at /\ req'[r].s = req[r].s /\ req'[r].floor = req[r].floor
  BY <1>1, <1>2 DEF ReqRows
<1>4. req'[r] # Idle
  <2>1. Idle.at = "idle"
    BY DEF Idle
  <2> QED BY <1>3, <2>1
<1> QED BY <1>1, <1>2, <1>3, <1>4 DEF ReqStepOK

LEMMA IdBounds == 0 \in 0..MaxSession /\ \A s \in Ids : s > 0 /\ s \in 0..MaxSession
  BY SessionAssumption DEF Ids, SessionAssumption

\* A request that begins has found its session, which no standing lock ended.
LEMMA BeginOK ==
    ASSUME AccessInv, NEW r \in Requests, NEW s \in Ids, Loads(s),
           NEW at \in {"attach", "cache", "attach refresh", "rotate"},
           NEW d \in Devices \cup {NoDevice}, NEW k \in 0..MaxRotation,
           at \in {"attach", "attach refresh"} => d \in Devices,
           Begin(r, at, s, d, k)
    PROVE  ReqStepOK(r) /\ req[r] = Idle
<1> DEFINE row == [at |-> at, s |-> s, device |-> d, jti |-> k, read |-> "active",
                   floor |-> IF barred THEN cutoff ELSE 0]
<1>1. req \in [Requests -> ReqRows] /\ req' = [req EXCEPT ![r] = row] /\ req[r] = Idle
  BY DEF Begin, AccessInv, AccessTypeOK
<1>2. req'[r] = row
  BY <1>1
<1>3. cutoff \in 0..MaxSession /\ s \in 1..MaxSession
  BY DEF AccessInv, AccessTypeOK, Ids
<1>4. row.floor \in 0..MaxSession /\ row.s > row.floor
  <2>1. CASE barred
    <3>1. row.floor = cutoff /\ row.s = s
      BY <2>1, Zenon
    <3>2. s > cutoff
      BY <2>1, Zenon DEF AccessInv, Barrier, Loads
    <3> HIDE DEF row
    <3> QED BY <1>3, <3>1, <3>2, SessionAssumption DEF SessionAssumption
  <2>2. CASE ~barred
    <3>1. row.floor = 0 /\ row.s = s
      BY <2>2, Zenon
    <3>2. s > 0 /\ 0 \in 0..MaxSession
      BY IdBounds, Zenon
    <3> QED BY <3>1, <3>2, Zenon
  <2> QED BY <2>1, <2>2
<1>5. row \in ReqRows
  <2>1. \A f \in 0..MaxSession :
          [at |-> at, s |-> s, device |-> d, jti |-> k, read |-> "active", floor |-> f] \in ReqRows
    <3>1. /\ at \in {"idle", "login", "attach", "cache", "account", "fill", "touch",
                     "attach refresh", "rotate", "reuse"}
          /\ s \in 0..MaxSession
          /\ "active" \in Statuses
      BY IdBounds, Zenon DEF Statuses
    <3> QED BY <3>1, Zenon DEF ReqRows
  <2>2. row.floor = IF barred THEN cutoff ELSE 0
    BY Zenon
  <2> QED BY <1>4, <2>1, <2>2, Zenon
<1> QED BY <1>1, <1>2, <1>4, <1>5 DEF ReqStepOK

\* The steps of a request.
LEMMA RequestInv ==
    ASSUME AccessInv, NEW r \in Requests, RequestStep(r)
    PROVE  AccessInv' /\ NoneReturns
<1> USE DEF RestOfAccess
<1>0. /\ req \in [Requests -> ReqRows] /\ req[r] \in ReqRows
      /\ cache \in Statuses \cup {"none"} /\ account \in Statuses
      /\ StoreInv /\ WithinCap
  BY DEF AccessInv, AccessTypeOK
<1>1. CASE Login(r)
  <2>1. req[r].at = "login" /\ CreateSession(req[r].device) /\ Ends(r)
        /\ UNCHANGED <<account, cache, admin, barred, cutoff, changes, failures>>
    BY <1>1 DEF Login, At
  <2>2. req[r].device \in Devices
    BY <2>1 DEF AccessInv, AccessTypeOK
  <2>3. /\ StoreInv' /\ NoneReturns /\ lastId' = lastId + 1
        /\ \E kept \in Spared(req[r].device) : Live' = kept \cup {lastId + 1}
    BY <1>0, <2>1, <2>2, CreateKeeps
  <2>4. lastId + 1 \in Ids
    BY <2>1 DEF CreateSession
  <2>5. WithinCap'
    BY <2>2, <2>3, <2>4, CreateWithinCap
  <2>6. ReqStepOK(r)
    BY <2>1, EndsOK
  <2> QED BY <1>0, <2>1, <2>3, <2>5, <2>6, RequestStepKeeps
<1>2. CASE Attach(r)
  <2>1. req[r].at \in {"attach", "attach refresh"} /\ req[r].device \in Devices /\ req[r].s \in Ids
        /\ UNCHANGED <<account, cache, admin, barred, cutoff, changes, failures>>
    <3>1. req[r].at \in {"attach", "attach refresh"}
          /\ UNCHANGED <<account, cache, admin, barred, cutoff, changes, failures>>
      BY <1>2 DEF Attach
    <3>2. req[r].s > req[r].floor /\ req[r].s \in 0..MaxSession /\ req[r].floor \in 0..MaxSession
      BY <1>0, <3>1 DEF AccessInv, OldSessionsShutOut, ReqRows
    <3>3. req[r].s \in Ids
      BY <3>2, SessionAssumption DEF Ids, SessionAssumption
    <3> QED BY <3>1, <3>3 DEF AccessInv, AccessTypeOK
  <2>2. CASE CanAttach(req[r].s, req[r].device)
    <3> DEFINE at == IF req[r].at = "attach" THEN "cache" ELSE "rotate"
    <3>1. /\ AttachDevice(req[r].s, req[r].device)
          /\ req' = [req EXCEPT ![r].at = at, ![r].device = NoDevice]
      BY <1>2, <2>2 DEF Attach, At
    <3>2. at \in {"account", "fill", "touch", "rotate", "reuse", "cache"}
      OBVIOUS
    <3>3. [req[r] EXCEPT !.at = at, !.device = NoDevice]
            = [req[r] EXCEPT !.at = at, !.read = req[r].read, !.device = NoDevice]
      BY <1>0 DEF ReqRows
    <3>4. req' = [req EXCEPT ![r] =
            [req[r] EXCEPT !.at = at, !.read = req[r].read, !.device = NoDevice]]
      BY <1>0, <3>1, <3>3
    <3>5. req[r].read \in Statuses /\ req[r].at \notin {"idle", "login"}
      BY <1>0, <2>1 DEF ReqRows
    <3> HIDE DEF at
    <3>6. ReqStepOK(r)
      BY <3>2, <3>4, <3>5, GoesOK
    <3>7. sessions \in [Ids -> Rows]
      BY <1>0 DEF StoreInv, SessionTypeOK
    <3> DEFINE row == [sessions[req[r].s] EXCEPT !.device = req[r].device]
    <3>8. sessions[req[r].s] \in Rows /\ row \in Rows /\ row.device = req[r].device
          /\ row.live = sessions[req[r].s].live
      BY <2>1, <3>7 DEF Rows
    <3>9. Loads(req[r].s) /\ FreeFor(req[r].s, req[r].device)
          /\ sessions[req[r].s].device \in {NoDevice, req[r].device}
      BY <2>2 DEF CanAttach
    <3>10. row.live
      BY <3>8, <3>9, Zenon DEF Loads
    <3>11. Save(req[r].s, row)
      BY <3>1 DEF AttachDevice
    <3>12. \/ row.device = sessions[req[r].s].device
           \/ row.device \in Devices /\ sessions[req[r].s].device = NoDevice
              /\ FreeFor(req[r].s, row.device)
      BY <2>1, <3>8, <3>9
    <3> HIDE DEF row
    <3>13. StoreInv' /\ NoneReturns /\ Live' = Live
      BY <1>0, <2>1, <3>8, <3>9, <3>10, <3>11, <3>12, SaveKeeps
    <3>14. WithinCap'
      BY <1>0, <3>13, FewerWithinCap
    <3> QED BY <1>0, <2>1, <3>6, <3>13, <3>14, RequestStepKeeps
  <2>3. CASE ~CanAttach(req[r].s, req[r].device)
    <3>1. Ends(r) /\ UNCHANGED sessionVars
      BY <1>2, <2>3 DEF Attach
    <3> QED BY <1>0, <2>1, <3>1, EndsOK, StoreUnchanged, RequestStepKeeps
  <2> QED BY <2>2, <2>3
<1> DEFINE Moves(at, read) ==
      req' = [req EXCEPT ![r] = [req[r] EXCEPT !.at = at, !.read = read, !.device = req[r].device]]
<1>a. ASSUME NEW at, Goes(r, at) PROVE Moves(at, req[r].read)
  <2>1. [req[r] EXCEPT !.at = at]
          = [req[r] EXCEPT !.at = at, !.read = req[r].read, !.device = req[r].device]
    BY <1>0 DEF ReqRows
  <2> QED BY <1>a, <1>0, <2>1 DEF Goes
<1>b. req[r].read \in Statuses /\ req[r].device \in Devices \cup {NoDevice}
  BY <1>0 DEF ReqRows
<1>c. ASSUME NEW at \in {"account", "fill", "touch", "rotate", "reuse", "cache"},
             req[r].at \notin {"idle", "login"}, Goes(r, at)
      PROVE  ReqStepOK(r)
  <2>1. Moves(at, req[r].read)
    BY <1>a, <1>c
  <2> QED BY <1>b, <1>c, <2>1, GoesOK
<1>3. CASE ReadCache(r)
  <2>1. req[r].at = "cache" /\ UNCHANGED sessionVars
        /\ UNCHANGED <<account, cache, admin, barred, cutoff, changes, failures>>
        /\ (Goes(r, "account") \/ Goes(r, "touch") \/ Ends(r))
    BY <1>3 DEF ReadCache, At
  <2>2. ReqStepOK(r)
    BY <2>1, <1>c, EndsOK
  <2> QED BY <1>0, <2>1, <2>2, StoreUnchanged, RequestStepKeeps
<1>4. CASE ReadAccount(r)
  <2>1. req[r].at = "account" /\ UNCHANGED sessionVars
        /\ UNCHANGED <<account, cache, admin, barred, cutoff, changes, failures>>
        /\ req' = [req EXCEPT ![r].at = "fill", ![r].read = account]
    BY <1>4 DEF ReadAccount, At
  <2>2. [req[r] EXCEPT !.at = "fill", !.read = account]
          = [req[r] EXCEPT !.at = "fill", !.read = account, !.device = req[r].device]
    BY <1>0 DEF ReqRows
  <2>3. Moves("fill", account)
    BY <1>0, <2>1, <2>2
  <2>4. ReqStepOK(r)
    BY <1>0, <1>b, <2>1, <2>3, GoesOK
  <2> QED BY <1>0, <2>1, <2>4, StoreUnchanged, RequestStepKeeps
<1>5. CASE FillCache(r)
  <2>1. req[r].at = "fill" /\ UNCHANGED sessionVars
        /\ UNCHANGED <<account, admin, barred, cutoff, changes, failures>>
        /\ cache' \in {cache, req[r].read}
        /\ (Goes(r, "touch") \/ Ends(r))
    BY <1>5 DEF FillCache, At
  <2>2. ReqStepOK(r)
    BY <2>1, <1>c, EndsOK
  <2>3. cache' \in Statuses \cup {"none"}
    BY <1>0, <1>b, <2>1
  <2> QED BY <1>0, <2>1, <2>2, <2>3, StoreUnchanged, RequestStepKeeps
<1>6. CASE Touch(r)
  <2>1. req[r].at = "touch" /\ TouchSession(req[r].s) /\ Ends(r)
        /\ UNCHANGED <<account, cache, admin, barred, cutoff, changes, failures>>
    BY <1>6 DEF Touch, At
  <2>2. CASE Loads(req[r].s)
    <3>1. req[r].s \in Ids
      <4>1. req[r].s > req[r].floor /\ req[r].s \in 0..MaxSession /\ req[r].floor \in 0..MaxSession
        BY <1>0, <2>1 DEF AccessInv, OldSessionsShutOut, ReqRows
      <4> QED BY <4>1, SessionAssumption DEF Ids, SessionAssumption
    <3>2. Save(req[r].s, sessions[req[r].s])
      BY <2>1, <2>2 DEF TouchSession
    <3>3. sessions[req[r].s] \in Rows /\ sessions[req[r].s].live
      BY <1>0, <2>2, <3>1 DEF StoreInv, SessionTypeOK, Loads
    <3>4. StoreInv' /\ NoneReturns /\ Live' = Live
      BY <1>0, <2>2, <3>1, <3>2, <3>3, SaveKeeps
    <3> QED BY <1>0, <2>1, <3>4, FewerWithinCap, EndsOK, RequestStepKeeps
  <2>3. CASE ~Loads(req[r].s)
    <3>1. UNCHANGED sessionVars
      BY <2>1, <2>3 DEF TouchSession
    <3> QED BY <1>0, <2>1, <3>1, EndsOK, StoreUnchanged, RequestStepKeeps
  <2> QED BY <2>2, <2>3
<1>7. CASE Rotate(r)
  <2>1. req[r].at = "rotate"
        /\ UNCHANGED <<account, cache, admin, barred, cutoff, changes, failures>>
    BY <1>7 DEF Rotate, At
  <2>2. CASE UNCHANGED sessionVars /\ (Ends(r) \/ Goes(r, "reuse"))
    <3>1. ReqStepOK(r)
      BY <2>1, <2>2, <1>c, EndsOK
    <3> QED BY <1>0, <2>1, <2>2, <3>1, StoreUnchanged, RequestStepKeeps
  <2>3. CASE Loads(req[r].s) /\ sessions[req[r].s].jti < MaxRotation
             /\ RotateJti(req[r].s) /\ Ends(r)
    <3>1. req[r].s \in Ids
      <4>1. req[r].s > req[r].floor /\ req[r].s \in 0..MaxSession /\ req[r].floor \in 0..MaxSession
        BY <1>0, <2>1 DEF AccessInv, OldSessionsShutOut, ReqRows
      <4> QED BY <4>1, SessionAssumption DEF Ids, SessionAssumption
    <3>2. sessions[req[r].s] \in Rows
      BY <1>0, <3>1 DEF StoreInv, SessionTypeOK
    <3> DEFINE row == [sessions[req[r].s] EXCEPT !.jti = sessions[req[r].s].jti + 1]
    <3>3. sessions[req[r].s].jti + 1 \in 0..MaxRotation
      BY <2>3, <3>2, SessionAssumption DEF Rows, SessionAssumption
    <3>4. row \in Rows /\ row.device = sessions[req[r].s].device
          /\ row.live = sessions[req[r].s].live
      BY <3>2, <3>3 DEF Rows
    <3>5. row.live
      BY <2>3, <3>4, Zenon DEF Loads
    <3>6. Save(req[r].s, row)
      BY <2>3 DEF RotateJti
    <3> HIDE DEF row
    <3>7. StoreInv' /\ NoneReturns /\ Live' = Live
      BY <1>0, <2>3, <3>1, <3>4, <3>5, <3>6, SaveKeeps
    <3> QED BY <1>0, <2>1, <2>3, <3>7, FewerWithinCap, EndsOK, RequestStepKeeps
  <2> QED BY <1>7, <2>2, <2>3 DEF Rotate
<1>8. CASE EndReused(r)
  <2>1. End({req[r].s}) /\ Ends(r) /\ req[r].at = "reuse"
        /\ UNCHANGED <<account, cache, admin, barred, cutoff, changes, failures>>
    BY <1>8 DEF EndReused, DeleteSession, At
  <2>2. req[r].s \in Ids
    <3>1. req[r].s > req[r].floor /\ req[r].s \in 0..MaxSession /\ req[r].floor \in 0..MaxSession
      BY <1>0, <2>1 DEF AccessInv, OldSessionsShutOut, ReqRows
    <3> QED BY <3>1, SessionAssumption DEF Ids, SessionAssumption
  <2>3. {req[r].s} \in SUBSET Ids
    BY <2>2
  <2>4. StoreInv' /\ NoneReturns /\ Live' \subseteq Live
    BY <1>0, <2>1, <2>3, EndKeeps
  <2> QED BY <1>0, <2>1, <2>4, FewerWithinCap, EndsOK, RequestStepKeeps
<1> QED BY <1>1, <1>2, <1>3, <1>4, <1>5, <1>6, <1>7, <1>8 DEF RequestStep

\* A request begins.
LEMMA BeginInv ==
    ASSUME AccessInv, NEW r \in Requests,
           \/ \E d \in Devices : BeginLogin(r, d)
           \/ \E s \in Ids, d \in Devices \cup {NoDevice} :
                \/ BeginRequest(r, s, d)
                \/ \E k \in 0..MaxRotation : BeginRefresh(r, s, d, k)
    PROVE  AccessInv' /\ NoneReturns /\ req[r] = Idle
<1> USE DEF RestOfAccess
<1>0. cache \in Statuses \cup {"none"} /\ req \in [Requests -> ReqRows]
  BY DEF AccessInv, AccessTypeOK
<1>1. ASSUME NEW d \in Devices, BeginLogin(r, d)
      PROVE  ReqStepOK(r) /\ req[r] = Idle
  <2> DEFINE row == [at |-> "login", s |-> 0, device |-> d, jti |-> 0, read |-> "active",
                     floor |-> IF barred THEN cutoff ELSE 0]
  <2>1. req' = [req EXCEPT ![r] = row] /\ req[r] = Idle
    BY <1>1 DEF BeginLogin, Begin
  <2>2. cutoff \in 0..MaxSession /\ 0 \in 0..MaxSession /\ 0 \in 0..MaxRotation
    <3>1. 0 \in 0..MaxRotation
      BY SessionAssumption DEF SessionAssumption
    <3> QED BY <3>1, IdBounds, Zenon DEF AccessInv, AccessTypeOK
  <2>3. (IF barred THEN cutoff ELSE 0) \in 0..MaxSession
    BY <2>2, Zenon
  <2>4. "login" \in {"idle", "login", "attach", "cache", "account", "fill", "touch",
                     "attach refresh", "rotate", "reuse"}
        /\ "active" \in Statuses
    BY DEF Statuses
  <2>5. row \in ReqRows
    BY <2>2, <2>3, <2>4, Zenon DEF ReqRows
  <2>6. req'[r] = row /\ row.at = "login" /\ row.device = d
    BY <1>0, <2>1, Zenon
  <2> HIDE DEF row
  <2> QED BY <1>0, <2>1, <2>5, <2>6 DEF ReqStepOK
<1>2. ASSUME NEW s \in Ids, NEW d \in Devices \cup {NoDevice}, BeginRequest(r, s, d)
      PROVE  ReqStepOK(r) /\ req[r] = Idle
  <2>1. Loads(s) /\ 0 \in 0..MaxRotation /\ NoDevice \in Devices \cup {NoDevice}
    BY <1>2, SessionAssumption DEF BeginRequest, SessionAssumption
  <2>2. CASE NeedsDevice(s, d)
    BY <1>2, <2>1, <2>2, BeginOK DEF BeginRequest, NeedsDevice
  <2>3. CASE ~NeedsDevice(s, d)
    BY <1>2, <2>1, <2>3, BeginOK DEF BeginRequest
  <2> QED BY <2>2, <2>3
<1>3. ASSUME NEW s \in Ids, NEW d \in Devices \cup {NoDevice}, NEW k \in 0..MaxRotation,
             BeginRefresh(r, s, d, k)
      PROVE  ReqStepOK(r) /\ req[r] = Idle
  <2>1. Loads(s) /\ NoDevice \in Devices \cup {NoDevice}
    BY <1>3 DEF BeginRefresh
  <2>2. CASE NeedsDevice(s, d)
    BY <1>3, <2>1, <2>2, BeginOK DEF BeginRefresh, NeedsDevice
  <2>3. CASE ~NeedsDevice(s, d)
    BY <1>3, <2>1, <2>3, BeginOK DEF BeginRefresh
  <2> QED BY <2>2, <2>3
<1>4. ReqStepOK(r) /\ req[r] = Idle
  BY <1>1, <1>2, <1>3
<1>5. UNCHANGED sessionVars
      /\ UNCHANGED <<account, cache, admin, barred, cutoff, changes, failures>>
  BY DEF BeginLogin, BeginRequest, BeginRefresh
<1> QED BY <1>0, <1>4, <1>5, StoreUnchanged, RequestStepKeeps

\* Sessions end by themselves.
LEMMA EndingInv ==
    ASSUME AccessInv, NEW s \in Ids, EndSession(s) \/ EndOthers(s)
    PROVE  AccessInv' /\ NoneReturns
<1>1. StoreInv /\ WithinCap /\ AccessTypeOK /\ OldSessionsShutOut
  BY DEF AccessInv
<1>2. {s} \in SUBSET Ids /\ \A x, y \in {s} : x = y
  OBVIOUS
<1>3. StoreInv' /\ NoneReturns /\ Live' \subseteq Live /\ UNCHANGED accessVars
  <2>1. CASE EndSession(s)
    BY <1>1, <1>2, <2>1, EndKeeps DEF EndSession, DeleteSession
  <2>2. CASE EndOthers(s)
    BY <1>1, <1>2, <2>2, DeleteAllKeeps DEF EndOthers
  <2> QED BY <2>1, <2>2
<1>4. WithinCap'
  BY <1>1, <1>3, FewerWithinCap
<1>5. Barrier'
  BY <1>3, BarrierKept DEF accessVars
<1>6. AccessTypeOK' /\ OldSessionsShutOut'
  BY <1>1, <1>3 DEF accessVars, AccessTypeOK, OldSessionsShutOut, StoreInv
<1> QED BY <1>3, <1>4, <1>5, <1>6 DEF AccessInv

\* A status change, up to the moment it is answered.
LEMMA AdminInv ==
    ASSUME AccessInv,
           \/ \E status \in Statuses : SaveStatus(status)
           \/ RevokeSessions \/ InvalidateCache \/ RevokeFails \/ CacheExpires
    PROVE  AccessInv' /\ NoneReturns
<1>0. /\ StoreInv /\ WithinCap /\ AccessTypeOK /\ OldSessionsShutOut /\ Barrier
      /\ lastId \in 0..MaxSession /\ cutoff \in 0..MaxSession /\ SessionTypeOK
      /\ changes \in 0..MaxChanges /\ failures \in 0..MaxFailures
  BY Zenon DEF AccessInv, AccessTypeOK, SessionTypeOK
<1>1. ASSUME UNCHANGED req, StoreInv', UNCHANGED <<barred, changes, failures>>,
             account' \in Statuses, cache' \in Statuses \cup {"none"},
             admin' \in {"idle", "revoke", "invalidate"}, cutoff' \in 0..MaxSession
      PROVE  AccessTypeOK' /\ OldSessionsShutOut'
  <2>1. SessionTypeOK'
    BY <1>1 DEF StoreInv
  <2> QED BY <1>0, <1>1, <2>1 DEF AccessTypeOK, OldSessionsShutOut
<1>2. CASE \E status \in Statuses : SaveStatus(status)
  <2>1. PICK status \in Statuses : SaveStatus(status)
    BY <1>2
  <2>2. /\ UNCHANGED sessionVars /\ UNCHANGED <<cache, cutoff, failures, req>>
        /\ account' = status /\ barred' = FALSE /\ changes < MaxChanges /\ changes' = changes + 1
        /\ admin' = IF status = "locked" THEN "revoke" ELSE "invalidate"
    BY <2>1 DEF SaveStatus
  <2>3. StoreInv' /\ NoneReturns /\ WithinCap'
    BY <2>2, StoreUnchanged
  <2>4. Barrier'
    <3>1. ~barred'
      BY <2>2, Zenon
    <3>2. ~(admin' = "invalidate" /\ account' = "locked") /\ cutoff' <= lastId'
      BY <1>0, <2>2 DEF Barrier, sessionVars
    <3> QED BY <3>1, <3>2 DEF Barrier
  <2>5. AccessTypeOK' /\ OldSessionsShutOut'
    <3>1. changes' \in 0..MaxChanges /\ account' \in Statuses
          /\ admin' \in {"idle", "revoke", "invalidate"} /\ SessionTypeOK'
      <4>1. changes' \in 0..MaxChanges
        BY <1>0, <2>2, AccessAssumption DEF AccessAssumption
      <4>2. account' \in Statuses /\ admin' \in {"idle", "revoke", "invalidate"}
        BY <2>2
      <4> QED BY <2>3, <4>1, <4>2 DEF StoreInv
    <3>2. barred' \in BOOLEAN
      BY <2>2, Zenon
    <3>3. cache' \in Statuses \cup {"none"} /\ cutoff' \in 0..MaxSession /\ failures' \in 0..MaxFailures
          /\ req' = req
      BY <1>0, <2>2 DEF AccessTypeOK
    <3> QED BY <1>0, <3>1, <3>2, <3>3, Zenon DEF AccessTypeOK, OldSessionsShutOut
  <2> QED BY <2>3, <2>4, <2>5 DEF AccessInv
<1>3. CASE RevokeSessions
  <2>1. /\ DeleteAllByAccount({}) /\ cutoff' = lastId /\ admin' = "invalidate"
        /\ UNCHANGED <<account, cache, barred, changes, failures, req>>
    BY <1>3 DEF RevokeSessions
  <2>2. /\ StoreInv' /\ NoneReturns /\ Live' \subseteq Live /\ lastId' = lastId
        /\ \A s \in Ids : ~sessions'[s].live
    BY <1>0, <2>1, DeleteAllKeeps
  <2>3. WithinCap'
    BY <1>0, <2>2, FewerWithinCap
  <2>4. Barrier'
    BY <1>0, <2>1, <2>2, SessionAssumption DEF Barrier, SessionAssumption
  <2>5. AccessTypeOK' /\ OldSessionsShutOut'
    BY <1>0, <1>1, <2>1, <2>2 DEF AccessTypeOK
  <2> QED BY <2>2, <2>3, <2>4, <2>5 DEF AccessInv
<1>4. CASE InvalidateCache
  <2>1. /\ UNCHANGED sessionVars /\ UNCHANGED <<account, cutoff, changes, failures, req>>
        /\ admin = "invalidate" /\ admin' = "idle" /\ cache' = "none"
        /\ barred' = (account = "locked")
    BY <1>4 DEF InvalidateCache
  <2>2. StoreInv' /\ NoneReturns /\ WithinCap' /\ sessions' = sessions /\ lastId' = lastId
    BY <2>1, StoreUnchanged DEF sessionVars
  <2>3. Barrier'
    <3>1. barred' => account = "locked"
      BY <2>1, Zenon
    <3> QED BY <1>0, <2>1, <2>2, <3>1 DEF Barrier
  <2>4. AccessTypeOK' /\ OldSessionsShutOut'
    <3>1. barred' \in BOOLEAN
      BY <2>1, Zenon
    <3>2. admin' \in {"idle", "revoke", "invalidate"} /\ cache' \in Statuses \cup {"none"}
      BY <2>1
    <3>3. SessionTypeOK'
      BY <2>2 DEF StoreInv
    <3> QED BY <1>0, <2>1, <3>1, <3>2, <3>3, Zenon DEF AccessTypeOK, OldSessionsShutOut
  <2> QED BY <2>2, <2>3, <2>4 DEF AccessInv
<1>5. CASE RevokeFails
  <2>1. /\ UNCHANGED sessionVars
        /\ UNCHANGED <<account, cache, barred, cutoff, changes, req>>
        /\ admin' = "idle" /\ failures < MaxFailures /\ failures' = failures + 1
    BY <1>5 DEF RevokeFails
  <2>2. StoreInv' /\ NoneReturns /\ WithinCap' /\ sessions' = sessions /\ lastId' = lastId
    BY <2>1, StoreUnchanged DEF sessionVars
  <2>3. Barrier'
    BY <1>0, <2>1, <2>2 DEF Barrier
  <2>4. AccessTypeOK' /\ OldSessionsShutOut'
    <3>1. failures' \in 0..MaxFailures
      BY <1>0, <2>1, AccessAssumption DEF AccessAssumption
    <3>2. SessionTypeOK' /\ admin' \in {"idle", "revoke", "invalidate"}
      BY <2>1, <2>2 DEF StoreInv
    <3> QED BY <1>0, <2>1, <3>1, <3>2, Zenon DEF AccessTypeOK, OldSessionsShutOut
  <2> QED BY <2>2, <2>3, <2>4 DEF AccessInv
<1>6. CASE CacheExpires
  <2>1. /\ UNCHANGED sessionVars /\ cache' = "none"
        /\ UNCHANGED <<account, admin, barred, cutoff, changes, failures, req>>
    BY <1>6 DEF CacheExpires
  <2>2. StoreInv' /\ NoneReturns /\ WithinCap'
    BY <2>1, StoreUnchanged
  <2>3. Barrier'
    BY <2>1, <2>2, BarrierKept
  <2>4. AccessTypeOK' /\ OldSessionsShutOut'
    BY <1>0, <1>1, <2>1, <2>2 DEF AccessTypeOK
  <2> QED BY <2>2, <2>3, <2>4 DEF AccessInv
<1> QED BY <1>2, <1>3, <1>4, <1>5, <1>6

\* Every step keeps the invariant and brings no session back.
LEMMA NextInv ==
    ASSUME AccessInv, [AccessNext]_vars
    PROVE  AccessInv' /\ NoneReturns
<1>1. CASE \E r \in Requests : RequestStep(r)
  BY <1>1, RequestInv
<1>2. CASE \E r \in Requests, d \in Devices : BeginLogin(r, d)
  BY <1>2, BeginInv
<1>3. CASE \E r \in Requests, s \in Ids, d \in Devices \cup {NoDevice} :
             \/ BeginRequest(r, s, d)
             \/ \E k \in 0..MaxRotation : BeginRefresh(r, s, d, k)
  BY <1>3, BeginInv
<1>4. CASE \E s \in Ids : EndSession(s) \/ EndOthers(s)
  BY <1>4, EndingInv
<1>5. CASE \/ \E status \in Statuses : SaveStatus(status)
           \/ RevokeSessions \/ InvalidateCache \/ RevokeFails \/ CacheExpires
  BY <1>5, AdminInv
<1>6. CASE UNCHANGED vars
  <2>1. UNCHANGED sessionVars /\ UNCHANGED accessVars
    BY <1>6 DEF vars
  <2>2. StoreInv' /\ NoneReturns /\ WithinCap'
    BY <2>1, StoreUnchanged
  <2>3. Barrier'
    BY <2>1, <2>2, BarrierKept DEF accessVars
  <2>4. AccessTypeOK' /\ OldSessionsShutOut'
    BY <2>1, <2>2 DEF accessVars, AccessInv, AccessTypeOK, OldSessionsShutOut, StoreInv
  <2> QED BY <2>2, <2>3, <2>4 DEF AccessInv
<1> QED BY <1>1, <1>2, <1>3, <1>4, <1>5, <1>6 DEF AccessNext

-----------------------------------------------------------------------------
(* The theorems                                                            *)

THEOREM AccessInvariant == AccessSpec => []AccessInv
<1>1. AccessInit => AccessInv
  BY InitInv
<1>2. AccessInv /\ [AccessNext]_vars => AccessInv'
  BY NextInv
<1> QED BY <1>1, <1>2, PTL DEF AccessSpec

\* The variables stay in their types (session.service.ts, account-cache.service.ts,
\* admin-user.service.ts updateStatus).
THEOREM AccessTypeCorrect == AccessSpec => []AccessTypeOK
<1>1. AccessInv => AccessTypeOK
  BY DEF AccessInv
<1> QED BY <1>1, AccessInvariant, PTL

\* The sessions of an account never outnumber its cap (session.scripts.js
\* create), however logins, backfills and refreshes race.
THEOREM CapHolds == AccessSpec => []WithinCap
<1>1. AccessInv => WithinCap
  BY DEF AccessInv
<1> QED BY <1>1, AccessInvariant, PTL

\* No session shares the device of one created with the index, neither an
\* older one that is bound or backfilled late nor a new login
\* (session.scripts.js attach).
THEOREM DeviceIsOwned == AccessSpec => []OwnsItsDevice
<1>1. AccessInv => OwnsItsDevice
  BY DEF AccessInv, StoreInv
<1> QED BY <1>1, AccessInvariant, PTL

\* Sessions from before a lock are of no use after it (revokeAccess()).
THEOREM LockEndsOldSessions == AccessSpec => []OldSessionsShutOut
<1>1. AccessInv => OldSessionsShutOut
  BY DEF AccessInv
<1> QED BY <1>1, AccessInvariant, PTL

\* No request brings an ended session back (session.service.ts "never write
\* a caller's stale session snapshot").
THEOREM EndedForGood == AccessSpec => EndedStaysEnded
<1>1. AccessInv /\ [AccessNext]_vars =>
        [\A s \in Ids : s <= lastId /\ ~sessions[s].live => ~sessions'[s].live]_vars
  <2> SUFFICES ASSUME AccessInv, [AccessNext]_vars, NEW s \in Ids, s <= lastId, ~sessions[s].live
               PROVE  ~sessions'[s].live
    OBVIOUS
  <2>1. NoneReturns /\ lastId \in 0..MaxSession
    BY NextInv DEF AccessInv, StoreInv, SessionTypeOK
  <2>2. ~(s > lastId)
    BY <2>1, SessionAssumption DEF Ids, SessionAssumption
  <2> QED BY <2>1, <2>2 DEF NoneReturns
<1> QED BY <1>1, AccessInvariant, PTL DEF AccessSpec, EndedStaysEnded

\* A refresh that shows a spent token is not answered before its session is
\* over (jwt-auth.service.ts refresh).
THEOREM ReuseIsFatal == AccessSpec => SpentTokenEndsSession
<1>1. AccessInv /\ [AccessNext]_vars =>
        [\A r \in Requests, s \in Legacy + 1 .. MaxSession :
            Shows(r, s) /\ Spent(r, s) /\ req'[r] = Idle => ~sessions'[s].live]_vars
  <2> SUFFICES ASSUME AccessInv, AccessNext, NEW r \in Requests,
                      NEW s \in Legacy + 1 .. MaxSession,
                      Shows(r, s), Spent(r, s), req'[r] = Idle
               PROVE  ~sessions'[s].live
    <3>1. CASE UNCHANGED vars
      BY <3>1 DEF vars, accessVars, Shows, Idle
    <3> QED BY <3>1
  <2>0. /\ s \in Ids /\ s > Legacy /\ req[r].s = s /\ req[r].at \in {"rotate", "reuse"}
        /\ req[r] # req'[r] /\ req \in [Requests -> ReqRows] /\ StoreInv /\ StoreInv'
    <3>1. s \in Ids /\ s > Legacy
      BY SessionAssumption DEF Ids, SessionAssumption
    <3>2. req[r].s = s /\ req[r].at \in {"rotate", "reuse"} /\ req[r] # req'[r]
      BY DEF Shows, Idle
    <3>3. AccessInv'
      BY NextInv
    <3> QED BY <3>1, <3>2, <3>3 DEF AccessInv, AccessTypeOK
  <2>1. CASE Rotate(r)
    <3>1. CASE ~Loads(s)
      <4>1. ~sessions[s].live
        BY <2>0, <3>1, NewLoads
      <4>2. sessions' = sessions
        BY <2>0, <2>1, <3>1 DEF Rotate, sessionVars
      <4> QED BY <4>1, <4>2
    <3>2. CASE Loads(s) /\ Goes(r, "reuse")
      <4>1. req'[r].at = "reuse"
        BY <2>0, <3>2 DEF Goes, ReqRows
      <4> QED BY <4>1 DEF Idle
    <3>3. CASE Loads(s) /\ ~Goes(r, "reuse")
      <4>1. sessions[s].jti = req[r].jti /\ req[r].at = "rotate"
        BY <2>0, <2>1, <3>3 DEF Rotate, At
      <4>2. req[r].jti < sessions[s].jti
        BY <4>1 DEF Spent, At
      <4>3. req[r].jti \in 0..MaxRotation
        <5>1. req[r] \in ReqRows
          BY <2>0
        <5> QED BY <5>1 DEF ReqRows
      <4> QED BY <4>1, <4>2, <4>3, SessionAssumption DEF SessionAssumption
    <3> QED BY <3>1, <3>2, <3>3
  <2>2. CASE EndReused(r)
    <3>1. End({s})
      BY <2>0, <2>2 DEF EndReused, DeleteSession
    <3>2. {s} \in SUBSET Ids
      BY <2>0
    <3> QED BY <2>0, <3>1, <3>2, EndKeeps
  <2>3. CASE \E q \in Requests : RequestStep(q) /\ ~(q = r /\ (Rotate(r) \/ EndReused(r)))
    <3>1. PICK q \in Requests : RequestStep(q) /\ ~(q = r /\ (Rotate(r) \/ EndReused(r)))
      BY <2>3
    <3>2. CASE q = r
      BY <2>0, <3>1, <3>2
      DEF RequestStep, Login, Attach, ReadCache, ReadAccount, FillCache, Touch, At
    <3>3. CASE q # r
      <4>1. req'[r] = req[r]
        BY <2>0, <3>1, <3>3
        DEF RequestStep, Login, Attach, ReadCache, ReadAccount, FillCache, Touch, Rotate,
            EndReused, Ends, Goes
      <4> QED BY <2>0, <4>1
    <3> QED BY <3>2, <3>3
  <2>4. CASE \E q \in Requests : req[q] = Idle /\ \E row : req' = [req EXCEPT ![q] = row]
    <3>1. PICK q \in Requests : req[q] = Idle /\ \E row : req' = [req EXCEPT ![q] = row]
      BY <2>4
    <3>2. q # r
      BY <2>0, <3>1 DEF Idle
    <3> QED BY <2>0, <3>1, <3>2
  <2>5. CASE UNCHANGED req
    BY <2>0, <2>5
  <2> QED
    <3>1. CASE \E q \in Requests : RequestStep(q)
      BY <2>1, <2>2, <2>3, <3>1
    <3>2. CASE \E q \in Requests, d \in Devices : BeginLogin(q, d)
      BY <2>4, <3>2, Zenon DEF BeginLogin, Begin
    <3>3. CASE \E q \in Requests, t \in Ids, d \in Devices \cup {NoDevice} :
                 \/ BeginRequest(q, t, d)
                 \/ \E k \in 0..MaxRotation : BeginRefresh(q, t, d, k)
      BY <2>4, <3>3, Zenon DEF BeginRequest, BeginRefresh, Begin
    <3>4. CASE \E t \in Ids : EndSession(t) \/ EndOthers(t)
      BY <2>5, <3>4 DEF EndSession, EndOthers, accessVars
    <3>5. CASE \/ \E status \in Statuses : SaveStatus(status)
               \/ RevokeSessions \/ InvalidateCache \/ RevokeFails \/ CacheExpires
      BY <2>5, <3>5 DEF SaveStatus, RevokeSessions, InvalidateCache, RevokeFails, CacheExpires
    <3> QED BY <3>1, <3>2, <3>3, <3>4, <3>5 DEF AccessNext
<1> QED BY <1>1, AccessInvariant, PTL DEF AccessSpec, SpentTokenEndsSession

=============================================================================
