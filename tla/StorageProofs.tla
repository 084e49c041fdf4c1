---------------------------- MODULE StorageProofs ---------------------------
(***************************************************************************)
(* The ledger and the collector of Storage, for any number of keys,        *)
(* workers and failures: lemmas for the modules that keep something in the *)
(* bucket.  They rest on the one-way course of a ledger row: a key that a  *)
(* sweep has in hand is garbage, or its row is gone (ClaimedIsGone), so    *)
(* what is pending or linked is in nobody's hands.                         *)
(***************************************************************************)
EXTENDS Storage, TLAPS

InHand(w) == sweep[w].todo \cup sweep[w].done \cup sweep[w].failed

ClaimedIsGone ==
    \A w \in Workers : \A k \in InHand(w) : ledger[k].state \in {"garbage", "absent"}

-----------------------------------------------------------------------------
(* The type                                                                *)

\* A row written by the ledger is a row.
LEMMA WrittenType ==
    ASSUME NEW row \in LedgerRows, NEW state \in {"absent", "pending", "linked", "garbage"}
    PROVE  Written(row, state) \in LedgerRows
  BY DEF Written, LedgerRows

LEMMA NoRowType == NoRow \in LedgerRows
  BY DEF NoRow, LedgerRows

\* An upsert changes one row of the ledger.
LEMMA MarkedType ==
    ASSUME NEW book \in [Keys -> LedgerRows], NEW k \in Keys,
           NEW state \in {"absent", "pending", "linked", "garbage"}
    PROVE  /\ Marked(book, k, state) \in [Keys -> LedgerRows]
           /\ Marked(book, k, state)[k] = Written(book[k], state)
           /\ \A l \in Keys \ {k} : Marked(book, k, state)[l] = book[l]
<1>1. Written(book[k], state) \in LedgerRows
  BY WrittenType
<1>2. QED
  BY <1>1 DEF Marked

LEMMA SweepTypeStep ==
    ASSUME StorageTypeOK,
           \/ SweepStep
           \/ \E k \in Keys : GracePasses(k)
    PROVE  StorageTypeOK'
<1> USE StorageAssumption DEF StorageAssumption
<1>1. ASSUME NEW w \in Workers, ClaimBatch(w) PROVE StorageTypeOK'
  <2>1. ledger' \in [Keys -> LedgerRows]
    BY <1>1 DEF ClaimBatch, StorageTypeOK, LedgerRows
  <2>2. sweep' \in [Workers -> [todo : SUBSET Keys, done : SUBSET Keys, failed : SUBSET Keys]]
    BY <1>1 DEF ClaimBatch, StorageTypeOK
  <2>3. QED
    BY <1>1, <2>1, <2>2 DEF ClaimBatch, StorageTypeOK
<1>2. ASSUME NEW w \in Workers, RemoveObject(w) PROVE StorageTypeOK'
  <2>1. sweep' \in [Workers -> [todo : SUBSET Keys, done : SUBSET Keys, failed : SUBSET Keys]]
    BY <1>2 DEF RemoveObject, StorageTypeOK
  <2>2. QED
    BY <1>2, <2>1 DEF RemoveObject, StorageTypeOK
<1>3. ASSUME NEW w \in Workers, DeleteRows(w) PROVE StorageTypeOK'
  <2>1. ledger' \in [Keys -> LedgerRows]
    BY <1>3, NoRowType DEF DeleteRows, StorageTypeOK
  <2>2. sweep' \in [Workers -> [todo : SUBSET Keys, done : SUBSET Keys, failed : SUBSET Keys]]
    BY <1>3 DEF DeleteRows, StorageTypeOK
  <2>3. QED
    BY <1>3, <2>1, <2>2 DEF DeleteRows, StorageTypeOK
<1>4. ASSUME NEW w \in Workers, BumpFailed(w) PROVE StorageTypeOK'
  <2> DEFINE bumped == [k \in Keys |-> IF k \in sweep[w].failed /\ w \in ledger[k].held
                          THEN Written(ledger[k], ledger[k].state) ELSE ledger[k]]
  <2>1. bumped \in [Keys -> LedgerRows]
    BY DEF StorageTypeOK, LedgerRows, Written
  <2>2. Forgotten(bumped, w) \in [Keys -> LedgerRows]
    BY <2>1 DEF Forgotten, LedgerRows
  <2>3. sweep' \in [Workers -> [todo : SUBSET Keys, done : SUBSET Keys, failed : SUBSET Keys]]
    BY <1>4 DEF BumpFailed, StorageTypeOK, NoSweep
  <2>4. QED
    BY <1>4, <2>2, <2>3 DEF BumpFailed, StorageTypeOK
<1>5. ASSUME NEW w \in Workers, RemoveRefused(w) PROVE StorageTypeOK'
  <2>1. sweep' \in [Workers -> [todo : SUBSET Keys, done : SUBSET Keys, failed : SUBSET Keys]]
    BY <1>5 DEF RemoveRefused, StorageTypeOK
  <2>2. QED
    BY <1>5, <2>1 DEF RemoveRefused, StorageTypeOK
<1>6. ASSUME NEW w \in Workers, AbandonSweep(w) PROVE StorageTypeOK'
  <2>1. ledger' \in [Keys -> LedgerRows]
    BY <1>6 DEF AbandonSweep, Forgotten, StorageTypeOK, LedgerRows
  <2>2. sweep' \in [Workers -> [todo : SUBSET Keys, done : SUBSET Keys, failed : SUBSET Keys]]
    BY <1>6 DEF AbandonSweep, StorageTypeOK, NoSweep
  <2>3. QED
    BY <1>6, <2>1, <2>2 DEF AbandonSweep, StorageTypeOK
<1>7. ASSUME NEW k \in Keys, GracePasses(k) PROVE StorageTypeOK'
  <2>1. [state |-> "pending", old |-> TRUE, held |-> ledger[k].held] \in LedgerRows
    BY DEF StorageTypeOK, LedgerRows
  <2>2. QED
    BY <1>7, <2>1 DEF GracePasses, StorageTypeOK
<1>8. QED
  BY <1>1, <1>2, <1>3, <1>4, <1>5, <1>6, <1>7 DEF SweepStep, SweepOn

-----------------------------------------------------------------------------
(* What a step of the collector does to a row it may not collect, and to   *)
(* one it may                                                              *)

\* Nothing is removed under a row that is pending or linked, no row becomes
\* pending or linked, and a row nobody has written stays unknown.
Spares(k) ==
    /\ ledger'[k].state = "linked" <=> ledger[k].state = "linked"
    /\ ledger'[k].state = "pending" => ledger[k].state = "pending"
    /\ ledger'[k].state \in {"pending", "linked"} => (k \in stored => k \in stored')
    /\ ledger[k] = NoRow /\ (\A w \in Workers : k \notin InHand(w))
        => ledger'[k] = NoRow /\ \A w \in Workers : k \notin InHand(w)'

LEMMA CollectorStep ==
    ASSUME StorageTypeOK, ClaimedIsGone,
           \/ SweepStep
           \/ \E k \in Keys : GracePasses(k)
    PROVE  ClaimedIsGone' /\ \A k \in Keys : Spares(k)
<1>1. ASSUME NEW w \in Workers, ClaimBatch(w)
      PROVE  ClaimedIsGone' /\ \A k \in Keys : Spares(k)
  <2>1. \A k \in Keys : \/ ledger'[k] = ledger[k]
                        \/ Collectable(k) /\ ledger'[k].state = "garbage"
    BY <1>1 DEF ClaimBatch, StorageTypeOK
  <2>2. \A k \in Keys : Collectable(k) => ledger'[k].state = "garbage"
    BY <1>1 DEF ClaimBatch, StorageTypeOK
  <2>3. /\ \A v \in Workers \ {w} : sweep'[v] = sweep[v]
        /\ sweep'[w] = [todo |-> {k \in Keys : Collectable(k)}, done |-> {}, failed |-> {}]
        /\ stored' = stored
    BY <1>1 DEF ClaimBatch, StorageTypeOK
  <2>4. ClaimedIsGone'
    <3>1. ASSUME NEW v \in Workers, NEW k \in InHand(v)'
          PROVE  ledger'[k].state \in {"garbage", "absent"}
      <4>1. CASE v = w
        BY <2>2, <2>3, <3>1, <4>1 DEF InHand
      <4>2. CASE v # w
        <5>1. k \in InHand(v) /\ k \in Keys
          BY <2>3, <3>1, <4>2 DEF InHand, StorageTypeOK
        <5>2. QED
          BY <2>1, <5>1 DEF ClaimedIsGone
      <4>3. QED
        BY <4>1, <4>2
    <3>2. QED
      BY <3>1 DEF ClaimedIsGone
  <2>5. ASSUME NEW k \in Keys PROVE Spares(k)
    <3>1. ledger[k] = NoRow => ~Collectable(k)
      BY DEF NoRow, Collectable
    <3>2. ledger[k] = NoRow => ledger'[k] = NoRow
      BY <2>1, <3>1
    <3>3. (\A v \in Workers : k \notin InHand(v)) /\ ~Collectable(k)
            => \A v \in Workers : k \notin InHand(v)'
      BY <2>3 DEF InHand
    <3>4. QED
      BY <2>1, <2>3, <3>1, <3>2, <3>3 DEF Spares, Collectable
  <2>6. QED
    BY <2>4, <2>5
<1>2. ASSUME NEW w \in Workers, RemoveObject(w)
      PROVE  ClaimedIsGone' /\ \A k \in Keys : Spares(k)
  <2>1. PICK l \in sweep[w].todo :
          /\ sweep' = [sweep EXCEPT ![w] =
                        [todo |-> sweep[w].todo \ {l}, done |-> sweep[w].done \cup {l},
                         failed |-> sweep[w].failed]]
          /\ stored' = stored \ {l}
          /\ ledger' = ledger
    BY <1>2 DEF RemoveObject
  <2>2. \A v \in Workers : InHand(v)' = InHand(v)
    BY <2>1 DEF InHand, StorageTypeOK
  <2>3. ledger[l].state \in {"garbage", "absent"}
    BY <2>1 DEF ClaimedIsGone, InHand
  <2>4. QED
    BY <2>1, <2>2, <2>3 DEF ClaimedIsGone, Spares
<1>3. ASSUME NEW w \in Workers, RemoveRefused(w)
      PROVE  ClaimedIsGone' /\ \A k \in Keys : Spares(k)
  <2>1. PICK l \in sweep[w].todo :
          sweep' = [sweep EXCEPT ![w] =
                        [todo |-> sweep[w].todo \ {l}, done |-> sweep[w].done,
                         failed |-> sweep[w].failed \cup {l}]]
    BY <1>3 DEF RemoveRefused
  <2>2. \A v \in Workers : InHand(v)' = InHand(v)
    BY <2>1 DEF InHand, StorageTypeOK
  <2>3. ledger' = ledger /\ stored' = stored
    BY <1>3 DEF RemoveRefused
  <2>4. QED
    BY <2>2, <2>3 DEF ClaimedIsGone, Spares
<1>4. ASSUME NEW w \in Workers, DeleteRows(w)
      PROVE  ClaimedIsGone' /\ \A k \in Keys : Spares(k)
  <2>1. \A k \in Keys : \/ ledger'[k] = ledger[k]
                        \/ ledger'[k] = NoRow /\ ledger[k].state \in {"garbage", "absent"}
    BY <1>4 DEF DeleteRows, StorageTypeOK, ClaimedIsGone, InHand
  <2>2. \A v \in Workers : InHand(v)' \subseteq InHand(v)
    BY <1>4 DEF DeleteRows, InHand, StorageTypeOK
  <2>3. \A v \in Workers : InHand(v) \subseteq Keys
    BY DEF InHand, StorageTypeOK
  <2>4. stored' = stored
    BY <1>4 DEF DeleteRows
  <2>5. ClaimedIsGone'
    BY <2>1, <2>2, <2>3 DEF ClaimedIsGone, NoRow
  <2>6. QED
    BY <2>1, <2>2, <2>4, <2>5 DEF Spares, NoRow
<1>5. ASSUME NEW w \in Workers, BumpFailed(w) \/ AbandonSweep(w)
      PROVE  ClaimedIsGone' /\ \A k \in Keys : Spares(k)
  <2>1. \A k \in Keys : /\ ledger'[k].state = ledger[k].state
                        /\ ledger[k] = NoRow => ledger'[k] = NoRow
    <3>1. ASSUME NEW k \in Keys PROVE ledger'[k].state = ledger[k].state
      <4>1. PICK old : ledger'[k] = [state |-> ledger[k].state, old |-> old,
                                     held |-> ledger[k].held \ {w}]
        BY <1>5 DEF BumpFailed, AbandonSweep, Forgotten, Written
      <4>2. QED
        BY <4>1
    <3>2. ASSUME NEW k \in Keys, ledger[k] = NoRow PROVE ledger'[k] = NoRow
      <4>1. ledger[k].held = {} /\ ledger[k].state = "absent" /\ ledger[k].old = FALSE
        BY <3>2 DEF NoRow
      <4>2. ledger'[k] = [state |-> ledger[k].state, old |-> ledger[k].old,
                          held |-> ledger[k].held \ {w}]
        BY <1>5, <4>1 DEF BumpFailed, AbandonSweep, Forgotten
      <4>3. ledger[k].held \ {w} = {}
        BY <4>1
      <4>4. QED
        BY <4>1, <4>2, <4>3 DEF NoRow
    <3>3. QED
      BY <3>1, <3>2
  <2>2. \A v \in Workers : InHand(v)' \subseteq InHand(v)
    BY <1>5 DEF BumpFailed, AbandonSweep, InHand, StorageTypeOK, NoSweep
  <2>3. \A v \in Workers : InHand(v) \subseteq Keys
    BY DEF InHand, StorageTypeOK
  <2>4. stored' = stored
    BY <1>5 DEF BumpFailed, AbandonSweep
  <2>5. ClaimedIsGone'
    BY <2>1, <2>2, <2>3 DEF ClaimedIsGone
  <2>6. QED
    BY <2>1, <2>2, <2>4, <2>5 DEF Spares
<1>6. ASSUME NEW l \in Keys, GracePasses(l)
      PROVE  ClaimedIsGone' /\ \A k \in Keys : Spares(k)
  <2>1. \A k \in Keys : /\ ledger'[k].state = ledger[k].state
                        /\ ledger[k] = NoRow => ledger'[k] = NoRow
    <3>1. /\ ledger[l].state = "pending"
          /\ ledger'[l].state = "pending"
          /\ \A k \in Keys \ {l} : ledger'[k] = ledger[k]
      BY <1>6 DEF GracePasses, StorageTypeOK
    <3>2. ledger[l] # NoRow
      BY <3>1 DEF NoRow
    <3>3. QED
      BY <3>1, <3>2
  <2>2. stored' = stored /\ sweep' = sweep
    BY <1>6 DEF GracePasses
  <2>3. \A v \in Workers : InHand(v)' = InHand(v) /\ InHand(v) \subseteq Keys
    BY <2>2 DEF InHand, StorageTypeOK
  <2>4. ClaimedIsGone'
    BY <2>1, <2>3 DEF ClaimedIsGone
  <2>5. QED
    BY <2>1, <2>2, <2>3, <2>4 DEF Spares
<1>7. QED
  BY <1>1, <1>2, <1>3, <1>4, <1>5, <1>6 DEF SweepStep, SweepOn

\* A row that is pending and young stays so: it is not collected.
LEMMA YoungStays ==
    ASSUME StorageTypeOK, ClaimedIsGone, NEW k \in Keys,
           ledger[k].state = "pending", ~ledger[k].old,
           SweepStep \/ \E l \in Keys \ {k} : GracePasses(l)
    PROVE  ledger'[k].state = "pending" /\ ~ledger'[k].old
<1>1. ~Collectable(k) /\ \A w \in Workers : k \notin sweep[w].done
  BY DEF Collectable, ClaimedIsGone, InHand
<1>2. ASSUME NEW w \in Workers, ClaimBatch(w) \/ RemoveObject(w) \/ DeleteRows(w) \/ RemoveRefused(w)
      PROVE  ledger'[k] = ledger[k]
  BY <1>1, <1>2 DEF ClaimBatch, RemoveObject, DeleteRows, RemoveRefused
<1>3. ASSUME NEW w \in Workers, BumpFailed(w) \/ AbandonSweep(w)
      PROVE  ledger'[k].state = "pending" /\ ~ledger'[k].old
  <2>1. \/ ledger'[k] = [state |-> ledger[k].state, old |-> ledger[k].old,
                         held |-> ledger[k].held \ {w}]
        \/ ledger'[k] = [state |-> ledger[k].state, old |-> FALSE,
                         held |-> ledger[k].held \ {w}]
    BY <1>3 DEF BumpFailed, AbandonSweep, Forgotten, Written
  <2>2. QED
    BY <2>1
<1>4. ASSUME NEW l \in Keys \ {k}, GracePasses(l) PROVE ledger'[k] = ledger[k]
  BY <1>4 DEF GracePasses, StorageTypeOK
<1>5. QED
  BY <1>2, <1>3, <1>4 DEF SweepStep, SweepOn
=============================================================================
