----------------------------- MODULE KycPapers ----------------------------
(***************************************************************************)
(* The storage objects behind the documents of one account's KYC           *)
(* submissions: uploadDocument(), carryOverDocuments() and the promotion   *)
(* job, over the ledger of Storage.  What decides whether a submission may *)
(* be opened, submitted or reviewed is in Kyc; here only the status counts.*)
(*                                                                         *)
(* A submission is opened, uploads run in requests of the API, and the     *)
(* worker runs one job at a time: a sweep, or the promotion that moves the *)
(* documents of a verified submission to keys under another prefix.        *)
(***************************************************************************)
EXTENDS Storage

CONSTANTS
    Submissions,  \* 1..n, in the order they are opened
    Documents,
    Fresh,        \* keys that generateKey() may return
    VerifiedKey,  \* the key under verified/ for each of them
    NoKey

ASSUME PaperAssumption ==
    /\ Fresh \subseteq Keys
    /\ VerifiedKey \in [Fresh -> Keys \ Fresh]
    /\ \A k, l \in Fresh : VerifiedKey[k] = VerifiedKey[l] => k = l
    /\ NoKey \notin Keys

VARIABLES
    status,   \* of each submission, "absent" before it is opened
    doc,      \* kyc_documents.storage_key of each, NoKey for no row
    upload,   \* the upload of each fresh key: its document and the old key
    carry,    \* the opening that copies the documents of the one before
    used,     \* fresh keys given out
    jobs,     \* submissions with a waiting promotion job
    promote   \* the promotion job of a worker: the documents left to move

paperVars == <<status, doc, upload, carry, used, jobs, promote>>
vars == <<storageVars, paperVars>>

Statuses == {"absent", "draft", "pending", "verified", "rejected", "expired"}
NoUpload == [phase |-> "none", of |-> 0, document |-> NoKey, old |-> NoKey]
NoCarry == [into |-> 0, from |-> [d \in Documents |-> NoKey],
            copy |-> [d \in Documents |-> NoKey]]
NoPromotion == [of |-> 0, todo |-> {}, phase |-> "none"]

PaperInit ==
    /\ StorageInit
    /\ status = [s \in Submissions |-> "absent"]
    /\ doc = [s \in Submissions |-> [d \in Documents |-> NoKey]]
    /\ upload = [k \in Fresh |-> NoUpload]
    /\ carry = NoCarry
    /\ used = {}
    /\ jobs = {}
    /\ promote = [w \in Workers |-> NoPromotion]

-----------------------------------------------------------------------------
(* Requests                                                                *)

Fails == failures < MaxFailures /\ failures' = failures + 1

\* generateKey(): keys are random and so interchangeable, any new one will do.
Generated(k) == used # Fresh /\ k = CHOOSE new \in Fresh \ used : TRUE

OpenFirst ==
    /\ status[1] = "absent"
    /\ status' = [status EXCEPT ![1] = "draft"]
    /\ UNCHANGED <<storageVars, doc, upload, carry, used, jobs, promote>>

\* openSubmission() after a rejected or expired one: the transaction begins
\* and reads the documents to carry over.  Nobody else sees its rows, so the
\* submission stays absent here.
BeginCarry(s) ==
    /\ carry = NoCarry
    /\ status[s] \in {"rejected", "expired"}
    /\ s + 1 \in Submissions
    /\ status[s + 1] = "absent"
    /\ carry' = [into |-> s + 1, from |-> doc[s], copy |-> NoCarry.copy]
    /\ UNCHANGED <<storageVars, status, doc, upload, used, jobs, promote>>

\* markPending() inside the transaction and copy(): only the object is there.
CopyObject(d, k) ==
    /\ carry.copy[d] = NoKey
    /\ carry.from[d] \in stored
    /\ Generated(k)
    /\ used' = used \cup {k}
    /\ carry' = [carry EXCEPT !.copy[d] = k]
    /\ stored' = stored \cup {k}
    /\ UNCHANGED <<ledger, sweep, failures, status, doc, upload, jobs, promote>>

CommitCarry ==
    LET into == carry.into
        copied == {carry.copy[d] : d \in Documents} \ {NoKey}
    IN  /\ into # 0
        /\ \A d \in Documents : carry.from[d] # NoKey => carry.copy[d] # NoKey
        /\ status' = [status EXCEPT ![into] = "draft"]
        /\ doc' = [doc EXCEPT ![into] = carry.copy]
        /\ ledger' = [k \in Keys |->
             IF k \in copied THEN Written(NoRow, "linked") ELSE ledger[k]]
        /\ carry' = NoCarry
        /\ UNCHANGED <<stored, sweep, failures, upload, used, jobs, promote>>

\* A copy or the COMMIT fails: the ledger's rows are rolled back as well.
RollBackCarry ==
    /\ carry.into # 0
    /\ \/ Fails
       \/ /\ \E d \in Documents : carry.from[d] \notin stored \cup {NoKey}
          /\ UNCHANGED failures
    /\ carry' = NoCarry
    /\ UNCHANGED <<ledger, stored, sweep, status, doc, upload, used, jobs, promote>>

Phase(k, phase) == upload' = [upload EXCEPT ![k].phase = phase]
Over(k) == upload' = [upload EXCEPT ![k] = [NoUpload EXCEPT !.phase = "over"]]

\* uploadDocument() up to markPending().
StartUpload(k, s, d) ==
    /\ Generated(k)
    /\ status[s] = "draft"
    /\ used' = used \cup {k}
    /\ upload' = [upload EXCEPT ![k] =
                   [phase |-> "putting", of |-> s, document |-> d, old |-> NoKey]]
    /\ ledger' = Marked(ledger, k, "pending")
    /\ UNCHANGED <<stored, sweep, failures, status, doc, carry, jobs, promote>>

PutObject(k) ==
    /\ upload[k].phase = "putting"
    /\ stored' = stored \cup {k}
    /\ Phase(k, "looking")
    /\ UNCHANGED <<ledger, sweep, failures, status, doc, carry, used, jobs, promote>>

FindExisting(k) ==
    /\ upload[k].phase = "looking"
    /\ upload' = [upload EXCEPT ![k].phase = "saving",
                                ![k].old = doc[upload[k].of][upload[k].document]]
    /\ UNCHANGED <<storageVars, status, doc, carry, used, jobs, promote>>

\* The transaction of uploadDocument(): a row found before is updated in
\* place, whatever it names by now.
SaveDocument(k) ==
    LET up == upload[k]
        linked == Marked(ledger, k, "linked")
    IN  /\ up.phase = "saving"
        /\ up.old = NoKey => doc[up.of][up.document] = NoKey
        /\ doc' = [doc EXCEPT ![up.of][up.document] = k]
        /\ ledger' = IF up.old = NoKey THEN linked ELSE Marked(linked, up.old, "garbage")
        /\ Over(k)
        /\ UNCHANGED <<stored, sweep, failures, status, carry, used, jobs, promote>>

\* The unique index refuses a second row; or the request fails anywhere.
DropUpload(k) ==
    LET up == upload[k]
    IN  /\ \/ /\ up.phase \in {"putting", "looking", "saving"}
              /\ Fails
           \/ /\ up.phase = "saving"
              /\ up.old = NoKey
              /\ doc[up.of][up.document] # NoKey
              /\ UNCHANGED failures
        /\ Over(k)
        /\ UNCHANGED <<ledger, stored, sweep, status, doc, carry, used, jobs, promote>>

\* submit() and review(); the promotion job may be lost after the COMMIT.
Moves == {<<"draft", "pending">>, <<"pending", "draft">>, <<"pending", "rejected">>,
          <<"pending", "verified">>, <<"verified", "expired">>}

MoveOn(s) ==
    /\ \E next \in Statuses :
         /\ <<status[s], next>> \in Moves
         /\ next = "pending" => \A d \in Documents : doc[s][d] # NoKey
         /\ status' = [status EXCEPT ![s] = next]
         /\ jobs' \in {jobs} \cup (IF next = "verified" THEN {jobs \cup {s}} ELSE {})
    /\ UNCHANGED <<storageVars, doc, upload, carry, used, promote>>

-----------------------------------------------------------------------------
(* The worker                                                              *)

Free(w) == sweep[w] = NoSweep /\ promote[w] = NoPromotion

\* promote() reads the documents and skips those it need not move.
TakePromotion(w) ==
    \E s \in jobs :
        /\ Free(w)
        /\ jobs' = jobs \ {s}
        /\ LET todo == {<<d, doc[s][d]>> : d \in {e \in Documents : doc[s][e] \in Fresh}}
           IN  promote' = IF todo = {} THEN promote
                          ELSE [promote EXCEPT ![w] =
                                 [of |-> s, todo |-> todo, phase |-> "marking"]]
        /\ UNCHANGED <<storageVars, status, doc, upload, carry, used>>

\* The document the job is at: the documents are taken in a fixed order.
Current(w) == CHOOSE t \in promote[w].todo : TRUE

MarkVerifiedKey(w) ==
    /\ promote[w].phase = "marking"
    /\ ledger' = Marked(ledger, VerifiedKey[Current(w)[2]], "pending")
    /\ promote' = [promote EXCEPT ![w].phase = "copying"]
    /\ UNCHANGED <<stored, sweep, failures, status, doc, upload, carry, used, jobs>>

CopyDocument(w) ==
    /\ promote[w].phase = "copying"
    /\ Current(w)[2] \in stored
    /\ stored' = stored \cup {VerifiedKey[Current(w)[2]]}
    /\ promote' = [promote EXCEPT ![w].phase = "saving"]
    /\ UNCHANGED <<ledger, sweep, failures, status, doc, upload, carry, used, jobs>>

\* The job is at its next document, or over.
Promoted(w) ==
    LET rest == promote[w].todo \ {Current(w)}
    IN  promote' = [promote EXCEPT ![w] =
                     IF rest = {} THEN NoPromotion
                     ELSE [promote[w] EXCEPT !.todo = rest, !.phase = "marking"]]

\* The transaction of promote(), whatever the document names by now.
SavePromotion(w) ==
    LET d == Current(w)[1]
        k == Current(w)[2]
    IN  /\ promote[w].phase = "saving"
        /\ doc' = [doc EXCEPT ![promote[w].of][d] = VerifiedKey[k]]
        /\ ledger' = Marked(Marked(ledger, VerifiedKey[k], "linked"), k, "garbage")
        /\ Promoted(w)
        /\ UNCHANGED <<stored, sweep, failures, status, upload, carry, used, jobs>>

\* The job fails: the object to copy is gone, a statement is refused or the
\* process dies.  It is tried again until its attempts are used up.
FailPromotion(w) ==
    /\ promote[w] # NoPromotion
    /\ \/ Fails
       \/ /\ promote[w].phase = "copying"
          /\ Current(w)[2] \notin stored
          /\ UNCHANGED failures
    /\ promote' = [promote EXCEPT ![w] = NoPromotion]
    /\ jobs' \in {jobs, jobs \cup {promote[w].of}}
    /\ UNCHANGED <<ledger, stored, sweep, status, doc, upload, carry, used>>

\* Mutant: submissions under review are looked for.
ReconcileEarly(w) ==
    LET early == {s \in Submissions :
                    /\ status[s] = "pending"
                    /\ \E d \in Documents : doc[s][d] \in Fresh}
    IN  /\ Free(w)
        /\ early \ jobs # {}
        /\ jobs' = jobs \cup early
        /\ UNCHANGED <<storageVars, status, doc, upload, carry, used, promote>>

\* reconcilePromotions(), in the same job as the sweep.
Reconcile(w) ==
    LET late == {s \in Submissions :
                   /\ status[s] = "verified"
                   /\ \E d \in Documents : doc[s][d] \in Fresh}
    IN  /\ Free(w)
        /\ late \ jobs # {}
        /\ jobs' = jobs \cup late
        /\ UNCHANGED <<storageVars, status, doc, upload, carry, used, promote>>

\* An upload is over long before the grace period.
Ages(k) ==
    /\ k \in Fresh => upload[k].phase \in {"none", "over"}
    /\ GracePasses(k)

PromotionOn(w) == MarkVerifiedKey(w) \/ CopyDocument(w) \/ SavePromotion(w)

-----------------------------------------------------------------------------
RequestStep ==
    \/ OpenFirst
    \/ \E s \in Submissions : BeginCarry(s) \/ MoveOn(s)
    \/ \E d \in Documents, k \in Fresh : CopyObject(d, k)
    \/ CommitCarry
    \/ RollBackCarry
    \/ \E k \in Fresh, s \in Submissions, d \in Documents : StartUpload(k, s, d)
    \/ \E k \in Fresh : PutObject(k) \/ FindExisting(k) \/ SaveDocument(k) \/ DropUpload(k)

PromotionStep ==
    \E w \in Workers : TakePromotion(w) \/ PromotionOn(w) \/ FailPromotion(w) \/ Reconcile(w)

StorageStep ==
    /\ \/ \E w \in Workers : promote[w] = NoPromotion /\ ClaimBatch(w)
       \/ \E w \in Workers : SweepOn(w) \/ RemoveRefused(w) \/ AbandonSweep(w)
       \/ \E k \in Keys : Ages(k)
    /\ UNCHANGED paperVars

PaperNext == RequestStep \/ PromotionStep \/ StorageStep

\* A worker goes on with its job, and neither the waiting promotions nor the
\* quarter-hourly job are passed over for ever: the queue is served in order.
PaperSpec ==
    /\ PaperInit
    /\ [][PaperNext]_vars
    /\ \A w \in Workers :
         /\ WF_vars(PromotionOn(w) \/ (SweepOn(w) /\ UNCHANGED paperVars))
         /\ WF_vars(promote[w].phase = "copying" /\ FailPromotion(w))
         /\ SF_vars(TakePromotion(w))
         /\ SF_vars(Reconcile(w))

-----------------------------------------------------------------------------
(* Properties                                                              *)

\* What a document names is in the bucket and no sweep is about to remove it,
\* while uploads, openings and promotions overlap, jobs are repeated and the
\* collector dies between its steps.  One worker is assumed, as deployed.
DocumentsAreStored ==
    \A s \in Submissions, d \in Documents :
        doc[s][d] # NoKey =>
            /\ doc[s][d] \in stored
            /\ ledger[doc[s][d]].state = "linked"

\* The documents of a verified submission are moved in the end, though the
\* job of the review may be lost and fail.
VerifiedArePromoted ==
    \A s \in Submissions, d \in Documents :
        (status[s] = "verified" /\ doc[s][d] \in Fresh)
            ~> (status[s] # "verified" \/ doc[s][d] \notin Fresh)
=============================================================================
