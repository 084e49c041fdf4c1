------------------------------ MODULE Storage -----------------------------
(***************************************************************************)
(* StorageLedgerService and the sweep of StorageGcService: the ledger of   *)
(* the objects in the bucket, and the collector that removes what the      *)
(* ledger says is not wanted.  Each statement on the ledger is a step; the *)
(* collector's calls to the bucket happen between its transactions.        *)
(*                                                                         *)
(* A ledger row has an id of its own, and the collector deletes rows by    *)
(* the ids it read.  The id is modelled by who knows it: held is the set   *)
(* of the workers whose sweep has read this very row, and a row written    *)
(* anew for the same key is held by none.                                  *)
(***************************************************************************)
EXTENDS Integers, FiniteSets

CONSTANTS
    Keys,        \* storage keys
    Workers,     \* processes that run the storage queue, one job each
    MaxFailures  \* bound on refused removals and on crashes

ASSUME StorageAssumption == MaxFailures \in Nat

VARIABLES
    ledger,     \* storage_objects: one row for each key
    stored,     \* the keys with an object in the bucket
    sweep,      \* what the sweep of a worker has in hand
    failures    \* how many removals and processes have failed so far

storageVars == <<ledger, stored, sweep, failures>>

\* old: updated_at is longer ago than the grace period.
LedgerRows ==
    [state : {"absent", "pending", "linked", "garbage"}, old : BOOLEAN,
     held : SUBSET Workers]
NoRow == [state |-> "absent", old |-> FALSE, held |-> {}]

NoSweep == [todo |-> {}, done |-> {}, failed |-> {}]

StorageTypeOK ==
    /\ ledger \in [Keys -> LedgerRows]
    /\ stored \in SUBSET Keys
    /\ sweep \in [Workers -> [todo : SUBSET Keys, done : SUBSET Keys, failed : SUBSET Keys]]
    /\ failures \in 0..MaxFailures

StorageInit ==
    /\ ledger = [k \in Keys |-> NoRow]
    /\ stored = {}
    /\ sweep = [w \in Workers |-> NoSweep]
    /\ failures = 0

-----------------------------------------------------------------------------
(* The ledger                                                              *)

\* write(): an upsert by key, which keeps the id of a row that is there.
Written(row, state) == [state |-> state, old |-> FALSE, held |-> row.held]
Marked(book, k, state) == [book EXCEPT ![k] = Written(book[k], state)]

\* Mutant: linked whatever the row says.
LinkableAlways(k) == TRUE

\* linkPending(): UPDATE ... WHERE state = PENDING.
Linkable(k) == ledger[k].state = "pending"

\* A row that nobody has written for as long as the grace period.
GracePasses(k) ==
    /\ ledger[k].state = "pending"
    /\ ~ledger[k].old
    /\ ledger' = [ledger EXCEPT ![k] =
                  [state |-> "pending", old |-> TRUE, held |-> ledger[k].held]]
    /\ UNCHANGED <<stored, sweep, failures>>

-----------------------------------------------------------------------------
(* The collector                                                           *)

Collectable(k) ==
    \/ ledger[k].state = "garbage"
    \/ ledger[k].state = "pending" /\ ledger[k].old

\* Mutant: claimBatch() does not look at the age of a pending row.
ClaimWithoutGrace(w) ==
    LET batch == {k \in Keys : ledger[k].state \in {"garbage", "pending"}}
    IN  /\ sweep[w] = NoSweep
        /\ batch # {}
        /\ sweep' = [sweep EXCEPT ![w] = [todo |-> batch, done |-> {}, failed |-> {}]]
        /\ ledger' = [k \in Keys |->
             IF k \in batch
             THEN [state |-> "garbage", old |-> FALSE, held |-> ledger[k].held \cup {w}]
             ELSE ledger[k]]
        /\ UNCHANGED <<stored, failures>>

\* claimBatch(): the decision is written before the locks are given up.  The
\* instances have fewer rows than SWEEP_BATCH.
ClaimBatch(w) ==
    LET batch == {k \in Keys : Collectable(k)}
    IN  /\ sweep[w] = NoSweep
        /\ batch # {}
        /\ sweep' = [sweep EXCEPT ![w] = [todo |-> batch, done |-> {}, failed |-> {}]]
        /\ ledger' = [k \in Keys |->
             IF k \in batch
             THEN [state |-> "garbage", old |-> FALSE, held |-> ledger[k].held \cup {w}]
             ELSE ledger[k]]
        /\ UNCHANGED <<stored, failures>>

RemoveObject(w) ==
    \E k \in sweep[w].todo :
        /\ sweep' = [sweep EXCEPT ![w] =
                      [todo |-> sweep[w].todo \ {k}, done |-> sweep[w].done \cup {k},
                       failed |-> sweep[w].failed]]
        /\ stored' = stored \ {k}
        /\ UNCHANGED <<ledger, failures>>

\* One key that cannot be removed does not stop the others.
RemoveRefused(w) ==
    \E k \in sweep[w].todo :
        /\ failures < MaxFailures
        /\ failures' = failures + 1
        /\ sweep' = [sweep EXCEPT ![w] =
                      [todo |-> sweep[w].todo \ {k}, done |-> sweep[w].done,
                       failed |-> sweep[w].failed \cup {k}]]
        /\ UNCHANGED <<ledger, stored>>

\* DELETE by the ids of the batch that were removed.
DeleteRows(w) ==
    /\ sweep[w].todo = {}
    /\ sweep[w].done # {}
    /\ ledger' = [k \in Keys |->
         IF k \in sweep[w].done /\ w \in ledger[k].held THEN NoRow ELSE ledger[k]]
    /\ sweep' = [sweep EXCEPT ![w] =
                  [todo |-> {}, done |-> {}, failed |-> sweep[w].failed]]
    /\ UNCHANGED <<stored, failures>>

\* The sweep is over, and nobody knows the ids of its batch any more.
Forgotten(book, w) ==
    [k \in Keys |-> [state |-> book[k].state, old |-> book[k].old,
                     held |-> book[k].held \ {w}]]

\* The rows whose object could not be removed go to the end of the queue.
BumpFailed(w) ==
    /\ sweep[w].todo = {}
    /\ sweep[w].done = {}
    /\ sweep[w].failed # {}
    /\ sweep' = [sweep EXCEPT ![w] = NoSweep]
    /\ ledger' = Forgotten([k \in Keys |->
         IF k \in sweep[w].failed /\ w \in ledger[k].held
         THEN Written(ledger[k], ledger[k].state) ELSE ledger[k]], w)
    /\ UNCHANGED <<stored, failures>>

\* The process dies, or a statement of the sweep fails.
AbandonSweep(w) ==
    /\ sweep[w] # NoSweep
    /\ failures < MaxFailures
    /\ failures' = failures + 1
    /\ sweep' = [sweep EXCEPT ![w] = NoSweep]
    /\ ledger' = Forgotten(ledger, w)
    /\ UNCHANGED stored

SweepOn(w) == RemoveObject(w) \/ DeleteRows(w) \/ BumpFailed(w)

SweepStep ==
    \E w \in Workers : ClaimBatch(w) \/ SweepOn(w) \/ RemoveRefused(w) \/ AbandonSweep(w)

\* The job is scheduled every fifteen minutes and R2 refuses now and then.
SweepFairness == \A w \in Workers : WF_storageVars(ClaimBatch(w)) /\ WF_storageVars(SweepOn(w))
=============================================================================
