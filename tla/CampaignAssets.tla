--------------------------- MODULE CampaignAssets --------------------------
(***************************************************************************)
(* CampaignAssetService over the ledger of Storage: the assets of one      *)
(* campaign, which a brand uploads, replaces, deletes and reorders while   *)
(* it may edit the campaign, and the copy a submission keeps.              *)
(*                                                                         *)
(* An upload is named by the key it generates.  It reads the campaign and  *)
(* writes PENDING, puts the object, and links it in a transaction that     *)
(* locks the campaign's row; when anything fails it registers the object   *)
(* as garbage.  The process may die in between.                            *)
(***************************************************************************)
EXTENDS Storage

CONSTANTS
    Assets,      \* rows of campaign_assets that may exist
    NoAsset,
    NoKey,
    MaxVersion   \* bound on the edits of the campaign

ASSUME AssetAssumption ==
    /\ NoAsset \notin Assets
    /\ NoKey \notin Keys
    /\ MaxVersion \in Nat

VARIABLES
    asset,      \* the key of each asset, NoKey for no row
    version,    \* campaigns.version
    submitted,  \* a review submission exists: the campaign cannot be edited
    kept,       \* the keys in the snapshots of submissions
    upload      \* the upload of each key

assetVars == <<storageVars, asset, version, submitted, kept, upload>>

Phases == {"none", "putting", "linking", "failed", "over", "dropped"}
Uploads == [phase : Phases, read : 0..MaxVersion, target : Assets \cup {NoAsset}]
NoUpload == [phase |-> "none", read |-> 0, target |-> NoAsset]

AssetTypeOK ==
    /\ StorageTypeOK
    /\ asset \in [Assets -> Keys \cup {NoKey}]
    /\ version \in 0..MaxVersion
    /\ submitted \in BOOLEAN
    /\ kept \in SUBSET Keys
    /\ upload \in [Keys -> Uploads]

AssetInit ==
    /\ StorageInit
    /\ asset = [a \in Assets |-> NoKey]
    /\ version = 0
    /\ submitted = FALSE
    /\ kept = {}
    /\ upload = [k \in Keys |-> NoUpload]

-----------------------------------------------------------------------------
\* assertEditable() with the version the request expects, and bumpVersion().
Edit(expected) ==
    /\ version = expected
    /\ ~submitted
    /\ version < MaxVersion
    /\ version' = version + 1
    /\ UNCHANGED <<submitted, kept>>

Phase(k, phase) == upload' = [upload EXCEPT ![k].phase = phase]

\* retire(): garbage, unless a submission may show it.
Retired(book, k) ==
    IF submitted \/ k = NoKey THEN book ELSE Marked(book, k, "garbage")

\* upload() up to markPending(): the campaign is read without a lock.
BeginUpload(k, a) ==
    /\ upload[k] = NoUpload
    /\ ~submitted
    /\ a # NoAsset => asset[a] # NoKey
    /\ upload' = [upload EXCEPT ![k] = [phase |-> "putting", read |-> version, target |-> a]]
    /\ ledger' = Marked(ledger, k, "pending")
    /\ UNCHANGED <<stored, sweep, failures, asset, version, submitted, kept>>

PutObject(k) ==
    /\ upload[k].phase = "putting"
    /\ stored' = stored \cup {k}
    /\ Phase(k, "linking")
    /\ UNCHANGED <<ledger, sweep, failures, asset, version, submitted, kept>>

\* A PUT that fails may have stored the object all the same.
PutFails(k) ==
    /\ upload[k].phase = "putting"
    /\ failures < MaxFailures
    /\ failures' = failures + 1
    /\ stored' \in {stored, stored \cup {k}}
    /\ Phase(k, "failed")
    /\ UNCHANGED <<ledger, sweep, asset, version, submitted, kept>>

\* The transaction of upload().  Its answer may be lost after the COMMIT.
LinkAsset(k) ==
    /\ upload[k].phase = "linking"
    /\ Edit(upload[k].read)
    /\ Linkable(k)
    /\ \E a \in Assets :
         /\ IF upload[k].target = NoAsset THEN asset[a] = NoKey
            ELSE a = upload[k].target /\ asset[a] # NoKey
         /\ asset' = [asset EXCEPT ![a] = k]
         /\ ledger' = Retired(Marked(ledger, k, "linked"), asset[a])
    /\ \/ Phase(k, "over") /\ UNCHANGED failures
       \/ Phase(k, "failed") /\ failures < MaxFailures /\ failures' = failures + 1
    /\ UNCHANGED <<stored, sweep>>

\* The version or the status has changed, the replaced asset is gone, or the
\* collector has claimed the row.
LinkRefused(k) ==
    /\ upload[k].phase = "linking"
    /\ \/ version # upload[k].read
       \/ submitted
       \/ upload[k].target # NoAsset /\ asset[upload[k].target] = NoKey
       \/ ~Linkable(k)
    /\ Phase(k, "failed")
    /\ UNCHANGED <<storageVars, asset, version, submitted, kept>>

\* Mutant: the row is marked as garbage and keeps its id.
CleanUpSameRow(k) ==
    /\ upload[k].phase = "failed"
    /\ ledger' = IF ledger[k].state = "linked" THEN ledger ELSE Marked(ledger, k, "garbage")
    /\ Phase(k, "over")
    /\ UNCHANGED <<stored, sweep, failures, asset, version, submitted, kept>>

\* The catch of upload(): a row of its own for the cleanup, unless the object
\* was linked after all.
CleanUp(k) ==
    /\ upload[k].phase = "failed"
    /\ ledger' = IF ledger[k].state = "linked" THEN ledger
                 ELSE [ledger EXCEPT ![k] = Written(NoRow, "garbage")]
    /\ Phase(k, "over")
    /\ UNCHANGED <<stored, sweep, failures, asset, version, submitted, kept>>

\* The process dies, or the cleanup itself fails, which is only logged.
DropUpload(k) ==
    /\ upload[k].phase \in {"putting", "linking", "failed"}
    /\ failures < MaxFailures
    /\ failures' = failures + 1
    /\ Phase(k, "dropped")
    /\ UNCHANGED <<ledger, stored, sweep, asset, version, submitted, kept>>

\* delete()
DeleteAsset(a) ==
    /\ asset[a] # NoKey
    /\ Edit(version)
    /\ asset' = [asset EXCEPT ![a] = NoKey]
    /\ ledger' = Retired(ledger, asset[a])
    /\ UNCHANGED <<stored, sweep, failures, upload>>

\* reorder() and an update of the draft: another version, the same objects.
EditOtherwise ==
    /\ Edit(version)
    /\ UNCHANGED <<storageVars, asset, upload>>

\* submit(): the row is locked as by the edits, the snapshot names the keys.
SubmitAssets ==
    /\ ~submitted
    /\ version < MaxVersion
    /\ version' = version + 1
    /\ submitted' = TRUE
    /\ kept' = kept \cup ({asset[a] : a \in Assets} \ {NoKey})
    /\ UNCHANGED <<storageVars, asset, upload>>

-----------------------------------------------------------------------------
UploadStep(k) ==
    \/ \E a \in Assets \cup {NoAsset} : BeginUpload(k, a)
    \/ PutObject(k)
    \/ PutFails(k)
    \/ LinkAsset(k)
    \/ LinkRefused(k)
    \/ CleanUp(k)
    \/ DropUpload(k)

AssetNext ==
    \/ \E k \in Keys : UploadStep(k)
    \/ \E a \in Assets : DeleteAsset(a)
    \/ EditOtherwise
    \/ SubmitAssets
    \/ (SweepStep \/ \E k \in Keys : GracePasses(k))
       /\ UNCHANGED <<asset, version, submitted, kept, upload>>

\* A request runs to its end or its process dies, a row grows old, and the
\* collector runs again and again.
AssetSpec ==
    /\ AssetInit
    /\ [][AssetNext]_assetVars
    /\ \A k \in Keys : WF_assetVars(PutObject(k) \/ LinkAsset(k) \/ LinkRefused(k) \/ CleanUp(k))
    /\ \A k \in Keys : WF_storageVars(GracePasses(k))
    /\ SweepFairness

-----------------------------------------------------------------------------
(* Properties                                                              *)

Shown == kept \cup ({asset[a] : a \in Assets} \ {NoKey})

\* What an asset or a submitted revision names is in the bucket, and no sweep
\* is about to remove it, however late a PUT arrives and whichever sweeps run.
ShownIsStored ==
    \A k \in Shown :
        /\ k \in stored
        /\ ledger[k].state = "linked"
        /\ \A w \in Workers : k \notin sweep[w].todo

\* The object of an upload that failed or was given up is removed in the end:
\* no sweep takes the intent to remove it away from a later one.  An upload
\* whose process dies leaves an object behind only when the collector had
\* claimed its row before.
AbandonedIsCollected ==
    \A k \in Keys :
        (\/ upload[k].phase = "over" /\ ledger[k].state = "garbage"
         \/ upload[k].phase = "dropped" /\ ledger[k].state = "pending")
            ~> (k \notin stored)
=============================================================================
