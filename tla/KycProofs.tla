------------------------------ MODULE KycProofs -----------------------------
(***************************************************************************)
(* Theorems about Kyc for any number of submissions, documents, attempts   *)
(* and requests in flight, and about KycNotice for any number of workers,  *)
(* decisions and failures as well: a decision marked as notified was       *)
(* mailed, and mailed again only after a failure.                          *)
(***************************************************************************)
EXTENDS KycNotice, FiniteSetTheorems, TLAPS

-----------------------------------------------------------------------------
(* Types                                                                   *)

LEMMA KycTypeInit == KycInit => KycTypeOK
  BY KycAssumption DEF KycInit, KycTypeOK, Rows, Absent, KycStatuses, OpenKycStatuses

LEMMA OutcomeIsNotifiable ==
    ASSUME NEW s \in Submissions, NEW asked, <<row[s].status, asked>> \in AdminTransitions
    PROVE  Outcome(s, asked) \in Notifiable
  BY DEF AdminTransitions, Outcome, Notifiable

\* A request that starts or ends leaves the rows alone.
LEMMA RequestType ==
    ASSUME KycTypeOK, NEW r \in Requests, NEW what \in {Idle} \cup InFlight,
           request' = [request EXCEPT ![r] = what], UNCHANGED <<rowVars, jobs>>
    PROVE  KycTypeOK'
  BY DEF KycTypeOK, rowVars

LEMMA PlanOpeningType ==
    ASSUME KycTypeOK, NEW r \in Requests, PlanOpening(r)
    PROVE  KycTypeOK'
<1> DEFINE plan(n, s) == [kind |-> "open", attempt |-> n, from |-> s]
<1>1. PICK n \in 1..MaxKycAttempts, s \in Submissions \cup {0} : Start(r, plan(n, s))
  <2>1. 1 \in 1..MaxKycAttempts
    BY KycAssumption
  <2>2. CASE Start(r, plan(1, 0))
    BY <2>1, <2>2
  <2>3. ASSUME NEW s \in Created, row[s].attempt < MaxKycAttempts,
               Start(r, plan(row[s].attempt + 1, s))
        PROVE  \E n \in 1..MaxKycAttempts : Start(r, plan(n, s))
    <3>1. row[s].attempt + 1 \in 1..MaxKycAttempts
      BY <2>3, KycAssumption DEF KycTypeOK, Rows, Created
    <3>2. QED
      BY <3>1, <2>3
  <2>4. ASSUME NEW s \in Created, Start(r, plan(1, s))
        PROVE  \E n \in 1..MaxKycAttempts : Start(r, plan(n, s))
    BY <2>1, <2>4
  <2>5. QED
    BY <2>2, <2>3, <2>4 DEF PlanOpening, Created
<1>2. plan(n, s) \in InFlight
  BY DEF InFlight
<1>3. QED
  BY <1>1, <1>2, RequestType DEF PlanOpening, Start

LEMMA CreateSubmissionType ==
    ASSUME KycTypeOK, NEW r \in Requests, CreateSubmission(r)
    PROVE  KycTypeOK'
<1>1. PICK s \in Submissions :
        /\ request[r].kind = "open"
        /\ row' = [row EXCEPT ![s] = [status |-> "draft", attempt |-> request[r].attempt,
                                      expiry |-> "none", notified |-> FALSE]]
        /\ papers' = IF request[r].from = 0 THEN papers
                     ELSE [papers EXCEPT ![s] = papers[request[r].from]]
  BY DEF CreateSubmission
<1>2. request[r].attempt \in 1..MaxKycAttempts /\ request[r].from \in Submissions \cup {0}
  BY <1>1 DEF KycTypeOK, InFlight, Idle
<1>3. row' \in [Submissions -> Rows]
  BY <1>1, <1>2, KycAssumption DEF KycTypeOK, Rows, KycStatuses, OpenKycStatuses
<1>4. papers' \in [Submissions -> [Documents -> 0..MaxUploads]]
  BY <1>1, <1>2 DEF KycTypeOK
<1>5. QED
  BY <1>3, <1>4 DEF KycTypeOK, CreateSubmission, Finish

LEMMA SaveDocumentType ==
    ASSUME KycTypeOK, NEW r \in Requests, SaveDocument(r)
    PROVE  KycTypeOK'
<1>1. request[r].id \in Submissions /\ request[r].document \in Documents
  BY DEF SaveDocument, KycTypeOK, InFlight, Idle
<1>2. papers[request[r].id][request[r].document] + 1 \in 0..MaxUploads
  <2>1. papers[request[r].id] \in [Documents -> 0..MaxUploads]
    BY <1>1 DEF KycTypeOK
  <2>2. QED
    BY <1>1, <2>1, KycAssumption DEF SaveDocument
<1>3. papers' \in [Submissions -> [Documents -> 0..MaxUploads]]
  BY <1>1, <1>2 DEF SaveDocument, KycTypeOK
<1>4. QED
  BY <1>3 DEF KycTypeOK, SaveDocument, Finish

LEMMA SaveSubmissionType ==
    ASSUME KycTypeOK, NEW r \in Requests, SaveSubmission(r)
    PROVE  KycTypeOK'
<1>1. request[r].id \in Submissions /\ request[r].read \in Rows
  BY DEF SaveSubmission, KycTypeOK, InFlight, Idle
<1>2. row' \in [Submissions -> Rows]
  BY <1>1 DEF SaveSubmission, KycTypeOK, Rows, KycStatuses, OpenKycStatuses
<1>3. QED
  BY <1>1, <1>2 DEF KycTypeOK, SaveSubmission, Unclaimed, Finish

LEMMA ReviewType ==
    ASSUME KycTypeOK, NEW s \in Submissions, NEW asked \in Notifiable, Review(s, asked)
    PROVE  KycTypeOK'
<1>1. Outcome(s, asked) \in Notifiable
  BY OutcomeIsNotifiable DEF Review
<1>2. row' \in [Submissions -> Rows]
  <2> DEFINE new == [row[s] EXCEPT !.status = Outcome(s, asked), !.notified = FALSE,
                       !.expiry = IF Outcome(s, asked) = "verified" THEN "ahead" ELSE @]
  <2>1. new \in Rows
    BY <1>1 DEF KycTypeOK, Rows, KycStatuses
  <2>2. row' = [row EXCEPT ![s] = new]
    BY DEF Review
  <2>3. QED
    BY <2>1, <2>2 DEF KycTypeOK
<1>3. decision' \in [Submissions -> 0..MaxDecisions]
  BY KycAssumption DEF Review, KycTypeOK
<1>4. jobs' \in SUBSET (Submissions \X Notifiable)
  BY <1>1 DEF Review, Enqueue, KycTypeOK
<1>5. QED
  BY <1>2, <1>3, <1>4 DEF KycTypeOK, Review, Unclaimed

LEMMA ExpireVerifiedType == ASSUME KycTypeOK, ExpireVerified PROVE KycTypeOK'
<1> DEFINE due == {s \in Submissions : row[s].status = "verified" /\ row[s].expiry = "past"}
<1>1. row' \in [Submissions -> Rows]
  <2>1. row' = [s \in Submissions |->
                 IF s \in due THEN [row[s] EXCEPT !.status = "expired", !.notified = FALSE]
                 ELSE row[s]]
    BY DEF ExpireVerified
  <2>2. \A s \in Submissions : row'[s] \in Rows
    BY <2>1 DEF KycTypeOK, Rows, KycStatuses, Notifiable
  <2>3. QED
    BY <2>1, <2>2
<1>2. decision' \in [Submissions -> 0..MaxDecisions]
  <2>1. decision' = [s \in Submissions |-> decision[s] + IF s \in due THEN 1 ELSE 0]
    BY DEF ExpireVerified
  <2>2. \A s \in Submissions : decision'[s] \in 0..MaxDecisions
    <3>1. \A s \in Submissions \ due : decision'[s] = decision[s]
      BY <2>1 DEF KycTypeOK
    <3>2. \A s \in due : decision'[s] = decision[s] + 1 /\ decision[s] < MaxDecisions
      BY <2>1 DEF ExpireVerified
    <3>3. QED
      BY <3>1, <3>2, KycAssumption DEF KycTypeOK
  <2>3. QED
    BY <2>1, <2>2
<1>3. jobs' \in SUBSET (Submissions \X Notifiable)
  BY DEF ExpireVerified, KycTypeOK, Notifiable
<1>4. QED
  BY <1>1, <1>2, <1>3 DEF KycTypeOK, ExpireVerified

LEMMA KycTypeStep == ASSUME KycTypeOK, [KycNext]_kycVars PROVE KycTypeOK'
<1>1. ASSUME NEW r \in Requests, PlanOpening(r) PROVE KycTypeOK'
  BY <1>1, PlanOpeningType
<1>2. ASSUME NEW r \in Requests, CreateSubmission(r) PROVE KycTypeOK'
  BY <1>2, CreateSubmissionType
<1>3. ASSUME NEW r \in Requests, NEW d \in Documents, StartUpload(r, d) PROVE KycTypeOK'
  <2>1. PICK s \in Submissions :
          request' = [request EXCEPT ![r] = [kind |-> "upload", id |-> s, document |-> d]]
    BY <1>3 DEF StartUpload, Start, Created
  <2>2. [kind |-> "upload", id |-> s, document |-> d] \in InFlight
    BY DEF InFlight
  <2>3. QED
    BY <1>3, <2>1, <2>2, RequestType DEF StartUpload
<1>4. ASSUME NEW r \in Requests, SaveDocument(r) PROVE KycTypeOK'
  BY <1>4, SaveDocumentType
<1>5. ASSUME NEW r \in Requests, ReadForSubmit(r) PROVE KycTypeOK'
  <2>1. PICK s \in Submissions :
          request' = [request EXCEPT ![r] = [kind |-> "submit", id |-> s, read |-> row[s]]]
    BY <1>5 DEF ReadForSubmit, Start, Created
  <2>2. [kind |-> "submit", id |-> s, read |-> row[s]] \in InFlight
    BY DEF InFlight, KycTypeOK
  <2>3. QED
    BY <1>5, <2>1, <2>2, RequestType DEF ReadForSubmit
<1>6. ASSUME NEW r \in Requests, SaveSubmission(r) PROVE KycTypeOK'
  BY <1>6, SaveSubmissionType
<1>7. ASSUME NEW r \in Requests, DropRequest(r) PROVE KycTypeOK'
  BY <1>7, RequestType DEF DropRequest, Finish
<1>8. ASSUME NEW s \in Submissions, ValidityEnds(s) PROVE KycTypeOK'
  <2>1. row' \in [Submissions -> Rows]
    BY <1>8 DEF ValidityEnds, KycTypeOK, Rows
  <2>2. QED
    BY <1>8, <2>1 DEF ValidityEnds, KycTypeOK
<1>9. ASSUME NEW s \in Submissions, NEW asked \in Notifiable, Review(s, asked)
      PROVE  KycTypeOK'
  BY <1>9, ReviewType
<1>10. CASE ExpireVerified
  BY <1>10, ExpireVerifiedType
<1>11. CASE UNCHANGED kycVars
  BY <1>11 DEF kycVars, rowVars, KycTypeOK
<1>12. QED
  BY <1>1, <1>2, <1>3, <1>4, <1>5, <1>6, <1>7, <1>8, <1>9, <1>10, <1>11 DEF KycNext

\* No interleaving of requests, reviews and expiry plans an attempt beyond
\* MAX_KYC_ATTEMPTS or stores a row of another shape.
THEOREM KycTypeCorrect == KycSpec => []KycTypeOK
<1>1. KycInit => KycTypeOK
  BY KycTypeInit
<1>2. KycTypeOK /\ [KycNext]_kycVars => KycTypeOK'
  BY KycTypeStep
<1>3. QED
  BY <1>1, <1>2, PTL DEF KycSpec

-----------------------------------------------------------------------------
(* Open and reviewed submissions                                           *)

KycInv == KycTypeOK /\ OneOpenSubmission /\ ReviewedIsComplete

\* Steps that change neither the rows nor the papers.
LEMMA SameRowsKeepKycInv ==
    ASSUME KycInv, KycTypeOK', UNCHANGED <<row, papers>>
    PROVE  KycInv'
  BY DEF KycInv, OneOpenSubmission, ReviewedIsComplete, Open, Created, Complete

LEMMA CreateKeepsKycInv ==
    ASSUME KycInv, KycTypeOK', NEW r \in Requests, CreateSubmission(r)
    PROVE  KycInv'
<1>1. PICK s \in Submissions \ Created :
        /\ Open = {}
        /\ row' = [row EXCEPT ![s] = [status |-> "draft", attempt |-> request[r].attempt,
                                      expiry |-> "none", notified |-> FALSE]]
        /\ papers' = IF request[r].from = 0 THEN papers
                     ELSE [papers EXCEPT ![s] = papers[request[r].from]]
  BY DEF CreateSubmission
<1>2. /\ row'[s].status = "draft"
      /\ \A t \in Submissions \ {s} : row'[t] = row[t] /\ papers'[t] = papers[t]
  BY <1>1 DEF KycInv, KycTypeOK
<1>3. OneOpenSubmission'
  BY <1>1, <1>2 DEF OneOpenSubmission, Open, Created
<1>4. ReviewedIsComplete'
  BY <1>1, <1>2 DEF KycInv, ReviewedIsComplete, Created, Complete, Editable
<1>5. QED
  BY <1>3, <1>4 DEF KycInv

LEMMA SaveDocumentKeepsKycInv ==
    ASSUME KycInv, KycTypeOK', NEW r \in Requests, SaveDocument(r)
    PROVE  KycInv'
<1>1. \A s \in Submissions, d \in Documents : papers'[s][d] >= papers[s][d]
  BY DEF KycInv, KycTypeOK, SaveDocument
<1>2. \A s \in Submissions : Complete(s) => Complete(s)'
  BY <1>1 DEF Complete, KycInv, KycTypeOK
<1>3. QED
  BY <1>2 DEF KycInv, OneOpenSubmission, ReviewedIsComplete, Open, Created, SaveDocument

LEMMA SaveSubmissionKeepsKycInv ==
    ASSUME KycInv, KycTypeOK', NEW r \in Requests, SaveSubmission(r)
    PROVE  KycInv'
<1> DEFINE s == request[r].id
<1>1. s \in Submissions /\ Complete(s) /\ Open \subseteq {s} /\ UNCHANGED papers
  BY DEF KycInv, SaveSubmission, KycTypeOK, InFlight, Idle
<1>2. \A t \in Submissions \ {s} : row'[t] = row[t]
  BY DEF SaveSubmission, KycInv, KycTypeOK
<1>3. OneOpenSubmission'
  BY <1>1, <1>2 DEF OneOpenSubmission, Open, Created
<1>4. ReviewedIsComplete'
  BY <1>1, <1>2 DEF KycInv, ReviewedIsComplete, Created, Complete
<1>5. QED
  BY <1>3, <1>4 DEF KycInv

\* Steps that leave every row as open and as reviewed as it was, or less so.
LEMMA DecisionKeepsKycInv ==
    ASSUME KycInv, KycTypeOK', UNCHANGED papers,
           \A s \in Submissions :
              \/ row[s].status = row'[s].status
              \/ /\ row[s].status \notin Editable \cup {"absent"}
                 /\ row'[s].status \in OpenKycStatuses => s \in Open
    PROVE  KycInv'
<1>1. Open' \subseteq Open
  BY DEF Open, Created
<1>2. ReviewedIsComplete'
  BY DEF KycInv, ReviewedIsComplete, Created, Complete
<1>3. QED
  BY <1>1, <1>2 DEF KycInv, OneOpenSubmission

LEMMA KycInvStep == ASSUME KycInv, [KycNext]_kycVars PROVE KycInv'
<1>0. KycTypeOK'
  BY KycTypeStep DEF KycInv
<1>1. ASSUME NEW r \in Requests, PlanOpening(r) \/ ReadForSubmit(r) \/ DropRequest(r)
      PROVE  KycInv'
  BY <1>0, <1>1, SameRowsKeepKycInv DEF PlanOpening, ReadForSubmit, DropRequest, rowVars
<1>2. ASSUME NEW r \in Requests, NEW d \in Documents, StartUpload(r, d) PROVE KycInv'
  BY <1>0, <1>2, SameRowsKeepKycInv DEF StartUpload, rowVars
<1>3. ASSUME NEW r \in Requests, CreateSubmission(r) PROVE KycInv'
  BY <1>0, <1>3, CreateKeepsKycInv
<1>4. ASSUME NEW r \in Requests, SaveDocument(r) PROVE KycInv'
  BY <1>0, <1>4, SaveDocumentKeepsKycInv
<1>5. ASSUME NEW r \in Requests, SaveSubmission(r) PROVE KycInv'
  BY <1>0, <1>5, SaveSubmissionKeepsKycInv
<1>6. ASSUME NEW s \in Submissions, ValidityEnds(s) PROVE KycInv'
  <2>1. \A t \in Submissions : row[t].status = row'[t].status
    BY <1>6 DEF ValidityEnds, KycInv, KycTypeOK, Rows
  <2>2. QED
    BY <1>0, <1>6, <2>1, DecisionKeepsKycInv DEF ValidityEnds
<1>7. ASSUME NEW s \in Submissions, NEW asked \in Notifiable, Review(s, asked)
      PROVE  KycInv'
  <2>1. row[s].status = "pending" \/ (row[s].status = "verified" /\ asked = "expired")
    BY <1>7 DEF Review, AdminTransitions
  <2>2. row'[s].status = Outcome(s, asked)
    BY <1>7 DEF Review, KycInv, KycTypeOK, Rows
  <2>3. \A t \in Submissions \ {s} : row'[t] = row[t]
    BY <1>7 DEF Review, KycInv, KycTypeOK
  <2>4. row[s].status \notin Editable \cup {"absent"}
    BY <2>1 DEF Editable
  <2>5. row'[s].status \in OpenKycStatuses => s \in Open
    BY <2>1, <2>2 DEF Outcome, Open, Created, OpenKycStatuses
  <2>6. QED
    BY <1>0, <1>7, <2>3, <2>4, <2>5, DecisionKeepsKycInv DEF Review
<1>8. CASE ExpireVerified
  <2>1. \A s \in Submissions :
          \/ row[s].status = row'[s].status
          \/ row[s].status = "verified" /\ row'[s].status = "expired"
    <3>1. row' = [s \in Submissions |->
                   IF row[s].status = "verified" /\ row[s].expiry = "past"
                   THEN [row[s] EXCEPT !.status = "expired", !.notified = FALSE]
                   ELSE row[s]]
      BY <1>8 DEF ExpireVerified
    <3>2. QED
      BY <3>1 DEF KycInv, KycTypeOK, Rows
  <2>2. QED
    BY <1>0, <1>8, <2>1, DecisionKeepsKycInv DEF ExpireVerified, Editable, OpenKycStatuses
<1>9. CASE UNCHANGED kycVars
  BY <1>0, <1>9, SameRowsKeepKycInv DEF kycVars, rowVars
<1>10. QED
  BY <1>1, <1>2, <1>3, <1>4, <1>5, <1>6, <1>7, <1>8, <1>9 DEF KycNext

LEMMA KycInvHolds == KycSpec => []KycInv
<1>1. KycInit => KycInv
  BY KycTypeInit
  DEF KycInv, KycInit, OneOpenSubmission, ReviewedIsComplete, Open, Created, Absent
<1>2. KycInv /\ [KycNext]_kycVars => KycInv'
  BY KycInvStep
<1>3. QED
  BY <1>1, <1>2, PTL DEF KycSpec

\* An account never has two open submissions, whatever late writes arrive.
THEOREM OneOpen == KycSpec => []OneOpenSubmission
<1>1. KycInv => OneOpenSubmission
  BY DEF KycInv
<1>2. QED
  BY <1>1, KycInvHolds, PTL

\* submit() counts the documents once, and that is enough: nothing incomplete
\* is ever under review or decided.
THEOREM ReviewedComplete == KycSpec => []ReviewedIsComplete
<1>1. KycInv => ReviewedIsComplete
  BY DEF KycInv
<1>2. QED
  BY <1>1, KycInvHolds, PTL
-----------------------------------------------------------------------------
(* Notifications.  NotifiedMeansMailed is not inductive: RecordAccepted()  *)
(* marks the decision in force, while the worker mailed the one it has     *)
(* read.  The two are one because every decision takes the claim away, so  *)
(* a worker that still owns the claim has read the decision in force       *)
(* (OwnerReadInForce), and because a worker that records has mailed        *)
(* (AcceptedWasMailed).                                                    *)

OwnerReadInForce ==
    \A w \in Workers :
        worker[w].phase \in {"read", "accepted"} /\ claim[worker[w].id] = w
            => worker[w].decision = decision[worker[w].id]

AcceptedWasMailed ==
    \A w \in Workers :
        worker[w].phase = "accepted" => mails[worker[w].id][worker[w].decision] > 0

NoticeInv ==
    /\ KycTypeOK
    /\ NoticeTypeOK
    /\ OwnerReadInForce
    /\ AcceptedWasMailed
    /\ NotifiedMeansMailed

-----------------------------------------------------------------------------
(* What a step of Kyc does to the columns of the notification              *)

Told(s) == row[s].status \in Notifiable /\ row[s].notified

KeepsNotice(s) ==
    /\ claim'[s] \in {claim[s], NoClaim}
    /\ lapsed'[s] => lapsed[s] /\ claim'[s] = claim[s]
    /\ decision'[s] # decision[s] => claim'[s] = NoClaim
    /\ Told(s)' => Told(s) /\ decision'[s] = decision[s]

LEMMA KycKeepsNotice ==
    ASSUME KycTypeOK, [KycNext]_kycVars, NEW s \in Submissions
    PROVE  KeepsNotice(s)
<1>1. CASE UNCHANGED <<row, claim, lapsed, decision>>
  BY <1>1 DEF KeepsNotice, Told
<1>2. ASSUME NEW r \in Requests, CreateSubmission(r) PROVE KeepsNotice(s)
  <2>1. row'[s] = row[s] \/ row'[s].status = "draft"
    BY <1>2 DEF CreateSubmission, KycTypeOK
  <2>2. UNCHANGED <<claim, lapsed, decision>>
    BY <1>2 DEF CreateSubmission
  <2>3. QED
    BY <2>1, <2>2 DEF KeepsNotice, Told, Notifiable
<1>3. ASSUME NEW r \in Requests, SaveSubmission(r) PROVE KeepsNotice(s)
  <2>1. /\ request[r].id \in Submissions
        /\ request[r].read \in Rows
    BY <1>3 DEF SaveSubmission, KycTypeOK, InFlight, Idle
  <2>2. row'[s] = row[s] \/ row'[s].status = "pending"
    BY <1>3, <2>1 DEF SaveSubmission, KycTypeOK, Rows
  <2>3. /\ UNCHANGED decision
        /\ \/ claim'[s] = claim[s] /\ lapsed'[s] = lapsed[s]
           \/ claim'[s] = NoClaim /\ ~lapsed'[s]
    BY <1>3, <2>1 DEF SaveSubmission, Unclaimed, KycTypeOK
  <2>4. QED
    BY <2>2, <2>3 DEF KeepsNotice, Told, Notifiable
<1>4. ASSUME NEW t \in Submissions, ValidityEnds(t) PROVE KeepsNotice(s)
  <2>1. row'[s].status = row[s].status /\ row'[s].notified = row[s].notified
    BY <1>4 DEF ValidityEnds, KycTypeOK, Rows
  <2>2. QED
    BY <1>4, <2>1 DEF ValidityEnds, KeepsNotice, Told
<1>5. ASSUME NEW t \in Submissions, NEW asked \in Notifiable, Review(t, asked)
      PROVE  KeepsNotice(s)
  <2>1. CASE s = t
    <3>1. ~row'[s].notified
      BY <1>5, <2>1 DEF Review, KycTypeOK, Rows
    <3>2. claim'[s] = NoClaim /\ ~lapsed'[s]
      BY <1>5, <2>1 DEF Review, Unclaimed, KycTypeOK
    <3>3. QED
      BY <3>1, <3>2 DEF KeepsNotice, Told
  <2>2. CASE s # t
    <3>1. /\ row'[s] = row[s] /\ claim'[s] = claim[s]
          /\ lapsed'[s] = lapsed[s] /\ decision'[s] = decision[s]
      BY <1>5, <2>2 DEF Review, Unclaimed, KycTypeOK
    <3>2. QED
      BY <3>1 DEF KeepsNotice, Told
  <2>3. QED
    BY <2>1, <2>2
<1>6. CASE ExpireVerified
  <2> DEFINE due == {t \in Submissions : row[t].status = "verified" /\ row[t].expiry = "past"}
  <2>1. CASE s \in due
    <3>1. row'[s] = [row[s] EXCEPT !.status = "expired", !.notified = FALSE]
      BY <1>6, <2>1 DEF ExpireVerified
    <3>2. ~row'[s].notified
      BY <3>1 DEF KycTypeOK, Rows
    <3>3. claim'[s] = NoClaim /\ ~lapsed'[s]
      BY <1>6, <2>1 DEF ExpireVerified
    <3>4. QED
      BY <3>2, <3>3 DEF KeepsNotice, Told
  <2>2. CASE s \notin due
    <3>1. row'[s] = row[s] /\ claim'[s] = claim[s] /\ lapsed'[s] = lapsed[s]
      BY <1>6, <2>2 DEF ExpireVerified, KycTypeOK
    <3>2. decision'[s] = decision[s]
      <4>1. decision'[s] = decision[s] + IF s \in due THEN 1 ELSE 0
        BY <1>6 DEF ExpireVerified
      <4>2. decision'[s] = decision[s] + 0
        BY <2>2, <4>1
      <4>3. QED
        BY <4>2 DEF KycTypeOK
    <3>3. QED
      BY <3>1, <3>2 DEF KeepsNotice, Told
  <2>3. QED
    BY <2>1, <2>2
<1>7. QED
  BY <1>1, <1>2, <1>3, <1>4, <1>5, <1>6
  DEF KycNext, kycVars, rowVars, PlanOpening, StartUpload, SaveDocument, ReadForSubmit,
      DropRequest

LEMMA KycStepKeepsInv ==
    ASSUME NoticeInv, [KycNext]_kycVars, UNCHANGED noticeVars
    PROVE  NoticeInv'
<1>1. KycTypeOK'
  BY KycTypeStep DEF NoticeInv
<1>2. \A s \in Submissions : KeepsNotice(s)
  BY KycKeepsNotice DEF NoticeInv
<1>3. NoticeTypeOK'
  BY <1>2 DEF NoticeInv, NoticeTypeOK, noticeVars, KeepsNotice
<1>4. \A w \in Workers : worker[w].phase \in {"read", "accepted"} => worker[w].id \in Submissions
  BY DEF NoticeInv, NoticeTypeOK, Busy, Resting
<1>5. OwnerReadInForce'
  <2>1. \A s \in Submissions, w \in Workers :
          claim'[s] = w => claim[s] = w /\ decision'[s] = decision[s]
    BY <1>2, KycAssumption DEF KeepsNotice
  <2>2. QED
    BY <1>4, <2>1 DEF NoticeInv, OwnerReadInForce, noticeVars
<1>6. AcceptedWasMailed'
  BY DEF NoticeInv, AcceptedWasMailed, noticeVars
<1>7. NotifiedMeansMailed'
  BY <1>2 DEF NoticeInv, NotifiedMeansMailed, KeepsNotice, Told, noticeVars
<1>8. QED
  BY <1>1, <1>3, <1>5, <1>6, <1>7 DEF NoticeInv

-----------------------------------------------------------------------------
(* The steps of a worker                                                   *)

\* What is known of a busy worker.
LEMMA BusyType ==
    ASSUME NoticeTypeOK, NEW w \in Workers, worker[w].phase # "idle"
    PROVE  /\ worker[w] \in Busy
           /\ worker[w].id \in Submissions
           /\ worker[w].status \in Notifiable
           /\ worker[w].decision \in 0..MaxDecisions
  BY DEF NoticeTypeOK, Busy, Resting

LEMMA RetryType ==
    ASSUME KycTypeOK, NoticeTypeOK, NEW w \in Workers, worker[w].phase # "idle", Retry(w)
    PROVE  jobs' \in SUBSET (Submissions \X Notifiable)
  BY BusyType DEF Retry, Enqueue, KycTypeOK

LEMMA ClaimKeepsInv ==
    ASSUME NoticeInv, NEW w \in Workers, NEW s \in Submissions, NEW st \in Notifiable,
           ClaimNotice(w, s, st)
    PROVE  NoticeInv'
<1>1. jobs' \in SUBSET (Submissions \X Notifiable)
  BY DEF ClaimNotice, NoticeInv, KycTypeOK
<1>2. CASE UNCHANGED <<worker, claim, lapsed>>
  BY <1>1, <1>2 DEF ClaimNotice, NoticeInv, KycTypeOK, NoticeTypeOK, OwnerReadInForce,
                    AcceptedWasMailed, NotifiedMeansMailed
<1>3. CASE /\ worker' = [worker EXCEPT ![w] = [phase |-> "claimed", id |-> s,
                                              status |-> st, decision |-> 0]]
           /\ claim' = [claim EXCEPT ![s] = w]
           /\ lapsed' = [lapsed EXCEPT ![s] = FALSE]
  <2>1. [phase |-> "claimed", id |-> s, status |-> st, decision |-> 0] \in Busy
    BY KycAssumption DEF Busy, Phases
  <2>2. KycTypeOK'
    BY <1>1, <1>3 DEF ClaimNotice, NoticeInv, KycTypeOK
  <2>3. NoticeTypeOK'
    BY <1>3, <2>1, KycAssumption DEF ClaimNotice, NoticeInv, KycTypeOK, NoticeTypeOK
  <2>4. \A x \in Workers : worker'[x].phase \in {"read", "accepted"} =>
           /\ x # w
           /\ worker'[x] = worker[x]
    BY <1>3 DEF NoticeInv, NoticeTypeOK
  <2>5. OwnerReadInForce'
    <3>1. \A x \in Workers, t \in Submissions : x # w /\ claim'[t] = x => claim[t] = x
      BY <1>3 DEF NoticeInv, KycTypeOK
    <3>2. QED
      BY <2>4, <3>1, BusyType DEF ClaimNotice, NoticeInv, OwnerReadInForce
  <2>6. AcceptedWasMailed'
    BY <2>4 DEF ClaimNotice, NoticeInv, AcceptedWasMailed
  <2>7. NotifiedMeansMailed'
    BY DEF ClaimNotice, NoticeInv, NotifiedMeansMailed
  <2>8. QED
    BY <2>2, <2>3, <2>5, <2>6, <2>7 DEF NoticeInv
<1>4. QED
  BY <1>2, <1>3 DEF ClaimNotice

\* A worker that goes on, without touching a row.
LEMMA WorkerMoves ==
    ASSUME NoticeInv, NEW w \in Workers, NEW new \in {Resting} \cup Busy,
           worker' = [worker EXCEPT ![w] = new],
           \/ new.phase \notin {"read", "accepted"}
           \/ /\ new.phase = "read"
              /\ new.decision = decision[new.id],
           jobs' \in SUBSET (Submissions \X Notifiable),
           failures' \in 0..MaxFailures,
           UNCHANGED <<rowVars, request, mails>>
    PROVE  NoticeInv'
<1>1. KycTypeOK' /\ NoticeTypeOK'
  BY DEF NoticeInv, KycTypeOK, NoticeTypeOK, rowVars
<1>2. /\ worker'[w] = new
      /\ \A x \in Workers \ {w} : worker'[x] = worker[x]
  BY DEF NoticeInv, NoticeTypeOK
<1>3. OwnerReadInForce'
  BY <1>2 DEF NoticeInv, OwnerReadInForce, rowVars
<1>4. AcceptedWasMailed'
  BY <1>2 DEF NoticeInv, AcceptedWasMailed
<1>5. NotifiedMeansMailed'
  BY DEF NoticeInv, NotifiedMeansMailed, rowVars
<1>6. QED
  BY <1>1, <1>3, <1>4, <1>5 DEF NoticeInv

LEMMA ReadKeepsInv ==
    ASSUME NoticeInv, NEW w \in Workers, ReadClaimed(w)
    PROVE  NoticeInv'
<1>1. worker[w] \in Busy
  BY BusyType DEF ReadClaimed, NoticeInv
<1>2. PICK new \in Busy :
        /\ worker' = [worker EXCEPT ![w] = new]
        /\ \/ new.phase = "releasing"
           \/ new.phase = "read" /\ new.decision = decision[new.id]
  <2>1. CASE worker' = [worker EXCEPT ![w].phase = "read",
                                      ![w].decision = decision[worker[w].id]]
    <3> DEFINE new == [worker[w] EXCEPT !.phase = "read", !.decision = decision[worker[w].id]]
    <3>1. decision[worker[w].id] \in 0..MaxDecisions
      BY <1>1 DEF Busy, NoticeInv, KycTypeOK
    <3>2. new \in Busy /\ new.phase = "read" /\ new.decision = decision[new.id]
      BY <1>1, <3>1 DEF Busy, Phases
    <3>3. worker' = [worker EXCEPT ![w] = new]
      BY <2>1 DEF NoticeInv, NoticeTypeOK
    <3>4. QED
      BY <3>2, <3>3
  <2>2. CASE Go(w, "releasing")
    <3> DEFINE new == [worker[w] EXCEPT !.phase = "releasing"]
    <3>1. new \in Busy /\ new.phase = "releasing"
      BY <1>1 DEF Busy, Phases
    <3>2. QED
      BY <2>2, <3>1 DEF Go
  <2>3. QED
    BY <2>1, <2>2 DEF ReadClaimed
<1>3. QED
  BY <1>2, WorkerMoves DEF ReadClaimed, kycVars, rowVars, NoticeInv, KycTypeOK, NoticeTypeOK

\* Leaving for the release of the claim, or for rest.
LEMMA LeavingType ==
    ASSUME NoticeTypeOK, NEW w \in Workers, worker[w].phase # "idle"
    PROVE  LET new == [worker[w] EXCEPT !.phase = "releasing"]
           IN  /\ new \in Busy
               /\ new.phase = "releasing"
               /\ Go(w, "releasing") => worker' = [worker EXCEPT ![w] = new]
  BY BusyType DEF Busy, Phases, Go

LEMMA FailureKeepsInv ==
    ASSUME NoticeInv, NEW w \in Workers, MailRefused(w) \/ StatementFails(w) \/ Crash(w)
    PROVE  NoticeInv'
<1>1. worker[w].phase # "idle"
  BY DEF MailRefused, StatementFails, Crash, NoticeInv, NoticeTypeOK, Busy, Resting, Phases
<1>2. PICK new \in {Resting} \cup Busy :
        /\ worker' = [worker EXCEPT ![w] = new]
        /\ new.phase \notin {"read", "accepted"}
  <2>1. CASE Go(w, "releasing")
    BY <1>1, <2>1, LeavingType DEF NoticeInv
  <2>2. CASE worker' = [worker EXCEPT ![w] = Resting]
    <3>1. Resting.phase \notin {"read", "accepted"}
      BY DEF Resting
    <3>2. QED
      BY <2>2, <3>1
  <2>3. QED
    BY <2>1, <2>2 DEF MailRefused, StatementFails, Crash
<1>3. jobs' \in SUBSET (Submissions \X Notifiable)
  BY <1>1, RetryType DEF MailRefused, StatementFails, Crash, NoticeInv
<1>4. failures' \in 0..MaxFailures
  BY NoticeAssumption DEF MailRefused, StatementFails, Crash, Fail, NoticeInv, NoticeTypeOK
<1>5. UNCHANGED <<rowVars, request, mails>>
  BY DEF MailRefused, StatementFails, Crash
<1>6. QED
  BY <1>2, <1>3, <1>4, <1>5, WorkerMoves

LEMMA MailKeepsInv ==
    ASSUME NoticeInv, NEW w \in Workers, MailAccepted(w)
    PROVE  NoticeInv'
<1> DEFINE s == worker[w].id
           n == worker[w].decision
           new == [worker[w] EXCEPT !.phase = "accepted"]
<1>1. worker[w] \in Busy /\ s \in Submissions /\ n \in 0..MaxDecisions
  BY BusyType DEF MailAccepted, NoticeInv
<1>2. /\ mails' = [mails EXCEPT ![s][n] = @ + 1]
      /\ worker' = [worker EXCEPT ![w] = new]
      /\ UNCHANGED <<kycVars, failures>>
  BY DEF MailAccepted, Go
<1>3. new \in Busy /\ new.id = s /\ new.decision = n /\ new.phase = "accepted"
  BY <1>1 DEF Busy, Phases
<1>4. mails[s] \in [0..MaxDecisions -> Nat] /\ mails[s][n] \in Nat
  BY <1>1 DEF NoticeInv, NoticeTypeOK
<1>5. mails' \in [Submissions -> [0..MaxDecisions -> Nat]]
  <2>1. mails[s][n] + 1 \in Nat
    BY <1>4
  <2>2. [mails[s] EXCEPT ![n] = @ + 1] \in [0..MaxDecisions -> Nat]
    BY <1>4, <2>1
  <2>3. QED
    BY <1>2, <2>2 DEF NoticeInv, NoticeTypeOK
<1>6. \A t \in Submissions, m \in 0..MaxDecisions :
        mails[t][m] > 0 \/ (t = s /\ m = n) => mails'[t][m] > 0
  <2>1. mails'[s] = [mails[s] EXCEPT ![n] = @ + 1]
    BY <1>1, <1>2 DEF NoticeInv, NoticeTypeOK
  <2>2. mails'[s][n] = mails[s][n] + 1
    BY <1>1, <1>4, <2>1
  <2>3. \A m \in (0..MaxDecisions) \ {n} : mails'[s][m] = mails[s][m]
    BY <1>4, <2>1
  <2>4. \A t \in Submissions \ {s} : mails'[t] = mails[t]
    BY <1>2 DEF NoticeInv, NoticeTypeOK
  <2>5. mails'[s][n] > 0
    BY <1>4, <2>2
  <2>6. ASSUME NEW t \in Submissions, NEW m \in 0..MaxDecisions,
               mails[t][m] > 0 \/ (t = s /\ m = n)
        PROVE  mails'[t][m] > 0
    <3>1. CASE t = s /\ m = n
      BY <2>5, <3>1
    <3>2. CASE t = s /\ m # n
      BY <2>3, <2>6, <3>2
    <3>3. CASE t # s
      BY <2>4, <2>6, <3>3
    <3>4. QED
      BY <3>1, <3>2, <3>3
  <2>7. QED
    BY <2>6
<1>7. /\ worker'[w] = new
      /\ \A x \in Workers \ {w} : worker'[x] = worker[x]
  BY <1>2 DEF NoticeInv, NoticeTypeOK
<1>8. KycTypeOK'
  BY <1>2 DEF NoticeInv, KycTypeOK, kycVars, rowVars
<1>9. NoticeTypeOK'
  BY <1>2, <1>3, <1>5 DEF NoticeInv, NoticeTypeOK, kycVars, rowVars
<1>10. OwnerReadInForce'
  BY <1>2, <1>3, <1>7 DEF MailAccepted, NoticeInv, OwnerReadInForce, kycVars, rowVars
<1>11. AcceptedWasMailed'
  <2>1. \A x \in Workers \ {w} : worker[x].phase = "accepted" =>
           worker[x].id \in Submissions /\ worker[x].decision \in 0..MaxDecisions
    BY BusyType DEF NoticeInv
  <2>2. mails'[new.id][new.decision] > 0
    BY <1>1, <1>3, <1>6
  <2>3. \A x \in Workers \ {w} : worker[x].phase = "accepted" =>
           mails'[worker[x].id][worker[x].decision] > 0
    BY <1>6, <2>1 DEF NoticeInv, AcceptedWasMailed
  <2>4. QED
    BY <1>7, <2>2, <2>3 DEF AcceptedWasMailed
<1>12. NotifiedMeansMailed'
  BY <1>2, <1>6 DEF NoticeInv, NotifiedMeansMailed, KycTypeOK, kycVars, rowVars
<1>13. QED
  BY <1>8, <1>9, <1>10, <1>11, <1>12 DEF NoticeInv

\* Giving a claim up leaves nobody else's claim behind.
LEMMA UnclaimedKeeps ==
    ASSUME KycTypeOK, NoticeTypeOK, NEW s \in Submissions,
           Unclaimed(s) \/ UNCHANGED <<claim, lapsed>>
    PROVE  /\ claim' \in [Submissions -> Workers \cup {NoClaim}]
           /\ lapsed' \in [Submissions -> BOOLEAN]
           /\ \A t \in Submissions : lapsed'[t] => claim'[t] # NoClaim
           /\ \A t \in Submissions : claim'[t] \in {claim[t], NoClaim}
  BY DEF KycTypeOK, NoticeTypeOK, Unclaimed

LEMMA RecordKeepsInv ==
    ASSUME NoticeInv, NEW w \in Workers, RecordAccepted(w)
    PROVE  NoticeInv'
<1> DEFINE s == worker[w].id
           new == [worker[w] EXCEPT !.phase = "releasing"]
<1>1. s \in Submissions /\ worker[w].phase = "accepted"
  BY BusyType DEF RecordAccepted, NoticeInv
<1>2. new \in Busy /\ new.phase = "releasing" /\ worker' = [worker EXCEPT ![w] = new]
  BY <1>1, LeavingType DEF RecordAccepted, NoticeInv
<1>3. /\ worker'[w] = new
      /\ \A x \in Workers \ {w} : worker'[x] = worker[x]
  BY <1>2 DEF NoticeInv, NoticeTypeOK
<1>4. /\ claim' \in [Submissions -> Workers \cup {NoClaim}]
      /\ lapsed' \in [Submissions -> BOOLEAN]
      /\ \A t \in Submissions : lapsed'[t] => claim'[t] # NoClaim
      /\ \A t \in Submissions : claim'[t] \in {claim[t], NoClaim}
  BY <1>1, UnclaimedKeeps DEF RecordAccepted, NoticeInv
<1>5. UNCHANGED <<papers, decision, request, jobs, mails, failures>>
  BY DEF RecordAccepted
<1>6. \/ UNCHANGED row
      \/ /\ claim[s] = w
         /\ row' = [row EXCEPT ![s].notified = TRUE]
  BY DEF RecordAccepted
<1>7. row' \in [Submissions -> Rows]
  <2>1. row[s] \in Rows
    BY <1>1 DEF NoticeInv, KycTypeOK
  <2>2. ASSUME NEW old \in Rows PROVE [old EXCEPT !.notified = TRUE] \in Rows
    BY DEF Rows
  <2>3. UNCHANGED row \/ row' = [row EXCEPT ![s] = [row[s] EXCEPT !.notified = TRUE]]
    BY <1>6
  <2>4. QED
    BY <2>1, <2>2, <2>3 DEF NoticeInv, KycTypeOK
<1>8. KycTypeOK'
  BY <1>4, <1>5, <1>7 DEF NoticeInv, KycTypeOK
<1>9. NoticeTypeOK'
  BY <1>2, <1>4, <1>5 DEF NoticeInv, NoticeTypeOK
<1>10. OwnerReadInForce'
  <2>1. \A x \in Workers \ {w} : worker[x].phase \in {"read", "accepted"} =>
           worker[x].id \in Submissions
    BY BusyType DEF NoticeInv
  <2>2. \A t \in Submissions, x \in Workers : claim'[t] = x => claim[t] = x
    BY <1>4, KycAssumption
  <2>3. \A x \in Workers : worker'[x].phase \in {"read", "accepted"} => x # w
    BY <1>2, <1>3
  <2>4. QED
    BY <1>3, <1>5, <2>1, <2>2, <2>3 DEF NoticeInv, OwnerReadInForce
<1>11. AcceptedWasMailed'
  BY <1>2, <1>3, <1>5 DEF NoticeInv, AcceptedWasMailed
<1>12. NotifiedMeansMailed'
  <2>1. \A t \in Submissions \ {s} : row'[t] = row[t]
    BY <1>6 DEF NoticeInv, KycTypeOK
  <2>2. claim[s] = w => mails[s][decision[s]] > 0
    BY <1>1 DEF NoticeInv, OwnerReadInForce, AcceptedWasMailed
  <2>3. QED
    BY <1>5, <1>6, <2>1, <2>2 DEF NoticeInv, NotifiedMeansMailed
<1>13. QED
  BY <1>8, <1>9, <1>10, <1>11, <1>12 DEF NoticeInv

LEMMA ReleaseKeepsInv ==
    ASSUME NoticeInv, NEW w \in Workers, ReleaseClaim(w)
    PROVE  NoticeInv'
<1>1. worker[w].id \in Submissions
  BY BusyType DEF ReleaseClaim, NoticeInv
<1>2. /\ claim' \in [Submissions -> Workers \cup {NoClaim}]
      /\ lapsed' \in [Submissions -> BOOLEAN]
      /\ \A t \in Submissions : lapsed'[t] => claim'[t] # NoClaim
      /\ \A t \in Submissions : claim'[t] \in {claim[t], NoClaim}
  BY <1>1, UnclaimedKeeps DEF ReleaseClaim, NoticeInv
<1>3. /\ worker' = [worker EXCEPT ![w] = Resting]
      /\ UNCHANGED <<row, papers, decision, request, jobs, mails, failures>>
  BY DEF ReleaseClaim
<1>4. /\ worker'[w] = Resting
      /\ \A x \in Workers \ {w} : worker'[x] = worker[x]
  BY <1>3 DEF NoticeInv, NoticeTypeOK
<1>5. KycTypeOK' /\ NoticeTypeOK'
  BY <1>2, <1>3 DEF NoticeInv, KycTypeOK, NoticeTypeOK
<1>6. OwnerReadInForce'
  <2>1. \A x \in Workers \ {w} : worker[x].phase \in {"read", "accepted"} =>
           worker[x].id \in Submissions
    BY BusyType DEF NoticeInv
  <2>2. \A t \in Submissions, x \in Workers : claim'[t] = x => claim[t] = x
    BY <1>2, KycAssumption
  <2>3. \A x \in Workers : worker'[x].phase \in {"read", "accepted"} => x # w
    BY <1>4 DEF Resting
  <2>4. QED
    BY <1>3, <1>4, <2>1, <2>2, <2>3 DEF NoticeInv, OwnerReadInForce
<1>7. AcceptedWasMailed'
  BY <1>3, <1>4 DEF NoticeInv, AcceptedWasMailed, Resting
<1>8. NotifiedMeansMailed'
  BY <1>3 DEF NoticeInv, NotifiedMeansMailed
<1>9. QED
  BY <1>5, <1>6, <1>7, <1>8 DEF NoticeInv

LEMMA LeaseKeepsInv ==
    ASSUME NoticeInv, NEW s \in Submissions, LeaseRunsOut(s)
    PROVE  NoticeInv'
<1>1. failures' \in 0..MaxFailures
  BY NoticeAssumption DEF LeaseRunsOut, Fail, NoticeInv, NoticeTypeOK
<1>2. KycTypeOK' /\ NoticeTypeOK'
  BY <1>1 DEF LeaseRunsOut, NoticeInv, KycTypeOK, NoticeTypeOK
<1>3. OwnerReadInForce' /\ AcceptedWasMailed' /\ NotifiedMeansMailed'
  BY DEF LeaseRunsOut, NoticeInv, OwnerReadInForce, AcceptedWasMailed, NotifiedMeansMailed
<1>4. QED
  BY <1>2, <1>3 DEF NoticeInv

LEMMA ReconcileKeepsInv == ASSUME NoticeInv, Reconcile PROVE NoticeInv'
<1>1. jobs' \in SUBSET (Submissions \X Notifiable)
  BY DEF Reconcile, Untold, NoticeInv, KycTypeOK
<1>2. KycTypeOK' /\ NoticeTypeOK'
  BY <1>1 DEF Reconcile, rowVars, noticeVars, NoticeInv, KycTypeOK, NoticeTypeOK
<1>3. OwnerReadInForce' /\ AcceptedWasMailed' /\ NotifiedMeansMailed'
  BY DEF Reconcile, rowVars, noticeVars, NoticeInv, OwnerReadInForce, AcceptedWasMailed,
         NotifiedMeansMailed
<1>4. QED
  BY <1>2, <1>3 DEF NoticeInv

-----------------------------------------------------------------------------
LEMMA NoticeInvInit == KycInit /\ NoticeInit => NoticeInv
<1> SUFFICES ASSUME KycInit, NoticeInit PROVE NoticeInv
  OBVIOUS
<1>1. KycTypeOK
  BY KycTypeInit
<1>2. NoticeTypeOK
  BY NoticeAssumption DEF KycInit, NoticeInit, NoticeTypeOK
<1>3. OwnerReadInForce /\ AcceptedWasMailed
  BY DEF NoticeInit, OwnerReadInForce, AcceptedWasMailed, Resting
<1>4. NotifiedMeansMailed
  BY DEF KycInit, NotifiedMeansMailed, Absent
<1>5. QED
  BY <1>1, <1>2, <1>3, <1>4 DEF NoticeInv

LEMMA NoticeInvStep == ASSUME NoticeInv, [NoticeNext]_vars PROVE NoticeInv'
<1>1. CASE KycNext /\ UNCHANGED noticeVars
  BY <1>1, KycStepKeepsInv
<1>2. ASSUME NEW w \in Workers, WorkerStep(w) PROVE NoticeInv'
  BY <1>2, ClaimKeepsInv, ReadKeepsInv, MailKeepsInv, FailureKeepsInv, RecordKeepsInv,
     ReleaseKeepsInv
  DEF WorkerStep
<1>3. ASSUME NEW s \in Submissions, LeaseRunsOut(s) PROVE NoticeInv'
  BY <1>3, LeaseKeepsInv
<1>4. CASE Reconcile
  BY <1>4, ReconcileKeepsInv
<1>5. CASE UNCHANGED vars
  BY <1>5, KycStepKeepsInv DEF vars
<1>6. QED
  BY <1>1, <1>2, <1>3, <1>4, <1>5 DEF NoticeNext

LEMMA NoticeInvHolds == NoticeSpec => []NoticeInv
<1>1. NoticeInv /\ [NoticeNext]_vars => NoticeInv'
  BY NoticeInvStep
<1>2. QED
  BY NoticeInvInit, <1>1, PTL DEF NoticeSpec

\* The claim and its token keep their shape: no lease without a token
\* (CHK_kyc_notification_claim_pair), whatever crashes or comes late.
THEOREM NoticeTypeCorrect == NoticeSpec => []NoticeTypeOK
<1>1. NoticeInv => NoticeTypeOK
  BY DEF NoticeInv
<1>2. QED
  BY <1>1, NoticeInvHolds, PTL

\* sendKycStatus(): notified_at is set only when SendGrid has accepted a mail
\* about the very decision in force.
THEOREM NotifiedIsTrue == NoticeSpec => []NotifiedMeansMailed
<1>1. NoticeInv => NotifiedMeansMailed
  BY DEF NoticeInv
<1>2. QED
  BY <1>1, NoticeInvHolds, PTL
-----------------------------------------------------------------------------
(* How often a decision is mailed.  MailedOncePerFailure is not inductive: *)
(* a worker that has read is about to send a mail more.  So the mails to   *)
(* come are counted as well (Counted): one for each worker that has read   *)
(* the decision, and one if it may be read again without a failure, which  *)
(* takes that nobody who has read it holds the lease.  A step either moves *)
(* one of these from one place to the next, or adds one and is a failure.  *)

Readers(s, n) ==
    {w \in Workers : /\ worker[w].phase = "read"
                     /\ worker[w].id = s /\ worker[w].decision = n}

Holds(w, s) ==
    /\ worker[w].phase \in {"read", "accepted"} /\ worker[w].id = s
    /\ claim[s] = w /\ ~lapsed[s]

MayBeRead(s, n) ==
    \/ n > decision[s]
    \/ n = decision[s] /\ Untold(s) /\ \A w \in Workers : ~Holds(w, s)

Counted(s, n) ==
    /\ IsFiniteSet(Readers(s, n))
    /\ mails[s][n] + Cardinality(Readers(s, n)) + (IF MayBeRead(s, n) THEN 1 ELSE 0)
         <= 1 + failures

ClaimedIsUntold == \A s \in Submissions : claim[s] # NoClaim => Untold(s)

OwnersStatus ==
    \A w \in Workers :
        worker[w].phase \in {"claimed", "read", "accepted"} /\ claim[worker[w].id] = w
            => row[worker[w].id].status = worker[w].status

CountInv ==
    /\ NoticeInv
    /\ ClaimedIsUntold
    /\ OwnersStatus
    /\ \A s \in Submissions, n \in 0..MaxDecisions : Counted(s, n)

LEMMA CountFields ==
    ASSUME NoticeInv
    PROVE  /\ failures \in Nat
           /\ \A s \in Submissions : decision[s] \in Nat
           /\ \A s \in Submissions, n \in 0..MaxDecisions : mails[s][n] \in Nat
           /\ NoClaim \notin Workers
<1>1. failures \in Nat
  BY NoticeAssumption DEF NoticeInv, NoticeTypeOK
<1>2. \A s \in Submissions : decision[s] \in Nat
  BY KycAssumption DEF NoticeInv, KycTypeOK
<1>3. \A s \in Submissions, n \in 0..MaxDecisions : mails[s][n] \in Nat
  BY DEF NoticeInv, NoticeTypeOK
<1> QED  BY <1>1, <1>2, <1>3, KycAssumption

\* Nobody comes to read, and it may be read again no more than before or
\* because something has failed.
LEMMA SameCount ==
    ASSUME NoticeInv, NEW s \in Submissions, NEW n \in 0..MaxDecisions, Counted(s, n),
           Readers(s, n)' \subseteq Readers(s, n), mails'[s][n] = mails[s][n],
           \/ failures' = failures /\ (MayBeRead(s, n)' => MayBeRead(s, n))
           \/ failures' = failures + 1
    PROVE  Counted(s, n)'
<1> DEFINE before == Readers(s, n)
           after == Readers(s, n)'
<1>1. /\ IsFiniteSet(before) /\ IsFiniteSet(after)
      /\ Cardinality(before) \in Nat /\ Cardinality(after) \in Nat
      /\ Cardinality(after) <= Cardinality(before)
  BY FS_Subset, FS_CardinalityType DEF Counted
<1>2. /\ mails[s][n] \in Nat /\ failures \in Nat
  BY CountFields
<1>3. mails[s][n] + Cardinality(before) + (IF MayBeRead(s, n) THEN 1 ELSE 0) <= 1 + failures
  BY DEF Counted
<1> HIDE DEF before, after
<1>4. mails'[s][n] + Cardinality(after) + (IF MayBeRead(s, n)' THEN 1 ELSE 0) <= 1 + failures'
  BY <1>1, <1>2, <1>3
<1> QED  BY <1>1, <1>4 DEF Counted, before, after

\* A worker reads what might be read.
LEMMA OneMoreReader ==
    ASSUME NoticeInv, NEW s \in Submissions, NEW n \in 0..MaxDecisions, Counted(s, n),
           NEW w, w \notin Readers(s, n), Readers(s, n)' = Readers(s, n) \cup {w},
           mails' = mails, failures' = failures, MayBeRead(s, n), ~MayBeRead(s, n)'
    PROVE  Counted(s, n)'
<1> DEFINE before == Readers(s, n)
           after == Readers(s, n)'
<1>1. /\ IsFiniteSet(after)
      /\ Cardinality(before) \in Nat /\ Cardinality(after) = Cardinality(before) + 1
  BY FS_AddElement, FS_CardinalityType DEF Counted
<1>2. /\ mails[s][n] \in Nat /\ mails'[s][n] = mails[s][n] /\ failures \in Nat
  BY CountFields
<1>3. mails[s][n] + Cardinality(before) + 1 <= 1 + failures
  BY DEF Counted
<1> HIDE DEF before, after
<1>4. mails'[s][n] + Cardinality(after) + 0 <= 1 + failures'
  BY <1>1, <1>2, <1>3
<1> QED  BY <1>1, <1>4 DEF Counted, before, after

\* A worker has sent what it read, or was refused.
LEMMA OneReaderLess ==
    ASSUME NoticeInv, NEW s \in Submissions, NEW n \in 0..MaxDecisions, Counted(s, n),
           NEW w, w \in Readers(s, n), Readers(s, n)' = Readers(s, n) \ {w},
           failures' = failures,
           \/ mails'[s][n] = mails[s][n]
           \/ mails'[s][n] = mails[s][n] + 1 /\ (MayBeRead(s, n)' => MayBeRead(s, n))
    PROVE  Counted(s, n)'
<1> DEFINE before == Readers(s, n)
           after == Readers(s, n)'
<1>1. /\ IsFiniteSet(after)
      /\ Cardinality(before) \in Nat /\ Cardinality(after) = Cardinality(before) - 1
  BY FS_RemoveElement, FS_CardinalityType DEF Counted
<1>2. mails[s][n] \in Nat /\ failures \in Nat
  BY CountFields
<1>3. mails[s][n] + Cardinality(before) + (IF MayBeRead(s, n) THEN 1 ELSE 0) <= 1 + failures
  BY DEF Counted
<1> HIDE DEF before, after
<1>4. mails'[s][n] + Cardinality(after) + (IF MayBeRead(s, n)' THEN 1 ELSE 0) <= 1 + failures'
  BY <1>1, <1>2, <1>3
<1> QED  BY <1>1, <1>4 DEF Counted, before, after

\* A step of Kyc leaves a submission as it is, decides it, or takes it out of
\* the statuses that are told.
Unmoved(s) ==
    /\ row'[s].status = row[s].status /\ row'[s].notified = row[s].notified
    /\ claim'[s] = claim[s] /\ lapsed'[s] = lapsed[s] /\ decision'[s] = decision[s]

Decided(s) ==
    decision'[s] > decision[s] /\ claim'[s] = NoClaim

Withdrawn(s) ==
    /\ decision'[s] = decision[s] /\ row'[s].status \notin Notifiable
    /\ \/ claim'[s] = NoClaim
       \/ claim'[s] = claim[s] /\ row[s].status \notin Notifiable

LEMMA KycMoves ==
    ASSUME KycTypeOK, [KycNext]_kycVars, NEW s \in Submissions
    PROVE  Unmoved(s) \/ Decided(s) \/ Withdrawn(s)
<1>0. decision[s] \in Nat
  BY KycAssumption DEF KycTypeOK
<1>1. CASE UNCHANGED <<row, claim, lapsed, decision>>
  BY <1>1 DEF Unmoved
<1>2. ASSUME NEW r \in Requests, CreateSubmission(r) PROVE Unmoved(s) \/ Withdrawn(s)
  <2>1. row'[s] = row[s] \/ (row'[s].status = "draft" /\ row[s].status = "absent")
    BY <1>2 DEF CreateSubmission, Created, KycTypeOK
  <2>2. UNCHANGED <<claim, lapsed, decision>>
    BY <1>2 DEF CreateSubmission
  <2> QED  BY <2>1, <2>2 DEF Unmoved, Withdrawn, Notifiable
<1>3. ASSUME NEW r \in Requests, SaveSubmission(r) PROVE Unmoved(s) \/ Withdrawn(s)
  <2>1. request[r].id \in Submissions /\ request[r].read \in Rows
    BY <1>3 DEF SaveSubmission, KycTypeOK, InFlight, Idle
  <2>2. \/ /\ row'[s] = row[s] /\ claim'[s] = claim[s] /\ lapsed'[s] = lapsed[s]
        \/ row'[s].status = "pending" /\ claim'[s] = NoClaim
    BY <1>3, <2>1 DEF SaveSubmission, Unclaimed, KycTypeOK, Rows
  <2>3. UNCHANGED decision
    BY <1>3 DEF SaveSubmission
  <2> QED  BY <2>2, <2>3 DEF Unmoved, Withdrawn, Notifiable
<1>4. ASSUME NEW t \in Submissions, ValidityEnds(t) PROVE Unmoved(s)
  <2>1. row'[s].status = row[s].status /\ row'[s].notified = row[s].notified
    BY <1>4 DEF ValidityEnds, KycTypeOK, Rows
  <2> QED  BY <1>4, <2>1 DEF ValidityEnds, Unmoved
<1>5. ASSUME NEW t \in Submissions, NEW asked \in Notifiable, Review(t, asked)
      PROVE  Unmoved(s) \/ Decided(s)
  <2>1. CASE s = t
    <3>1. claim'[s] = NoClaim /\ decision'[s] = decision[s] + 1
      BY <1>5, <2>1 DEF Review, Unclaimed, KycTypeOK
    <3> QED  BY <1>0, <3>1 DEF Decided
  <2>2. CASE s # t
    <3>1. /\ row'[s] = row[s] /\ claim'[s] = claim[s]
          /\ lapsed'[s] = lapsed[s] /\ decision'[s] = decision[s]
      BY <1>5, <2>2 DEF Review, Unclaimed, KycTypeOK
    <3> QED  BY <3>1 DEF Unmoved
  <2> QED  BY <2>1, <2>2
<1>6. CASE ExpireVerified
  <2> DEFINE due == {t \in Submissions : row[t].status = "verified" /\ row[t].expiry = "past"}
  <2>0. decision'[s] = decision[s] + IF s \in due THEN 1 ELSE 0
    BY <1>6 DEF ExpireVerified
  <2>1. CASE s \in due
    <3>1. claim'[s] = NoClaim
      BY <1>6, <2>1 DEF ExpireVerified
    <3>2. decision'[s] = decision[s] + 1
      BY <2>0, <2>1
    <3> QED  BY <1>0, <3>1, <3>2 DEF Decided
  <2>2. CASE s \notin due
    <3>1. row'[s] = row[s] /\ claim'[s] = claim[s] /\ lapsed'[s] = lapsed[s]
      BY <1>6, <2>2 DEF ExpireVerified, KycTypeOK
    <3>2. decision'[s] = decision[s] + 0
      BY <2>0, <2>2
    <3> QED  BY <1>0, <3>1, <3>2 DEF Unmoved
  <2> QED  BY <2>1, <2>2
<1> QED  BY <1>1, <1>2, <1>3, <1>4, <1>5, <1>6
  DEF KycNext, kycVars, rowVars, PlanOpening, StartUpload, SaveDocument, ReadForSubmit,
      DropRequest

LEMMA KycKeepsCount ==
    ASSUME CountInv, [KycNext]_kycVars, UNCHANGED noticeVars
    PROVE  CountInv'
<1>1. NoticeInv'
  BY KycStepKeepsInv DEF CountInv
<1>2. UNCHANGED <<worker, mails, failures>>
  BY DEF noticeVars
<1>3. \A s \in Submissions : Unmoved(s) \/ Decided(s) \/ Withdrawn(s)
  BY KycMoves DEF CountInv, NoticeInv
<1>4. ClaimedIsUntold'
  BY <1>3 DEF ClaimedIsUntold, Untold, Unmoved, Decided, Withdrawn, CountInv
<1>5. OwnersStatus'
  <2> SUFFICES ASSUME NEW w \in Workers, worker[w].phase \in {"claimed", "read", "accepted"},
                      claim'[worker[w].id] = w
               PROVE  row'[worker[w].id].status = worker[w].status
    BY <1>2 DEF OwnersStatus
  <2>1. worker[w].id \in Submissions
    BY BusyType DEF CountInv, NoticeInv
  <2>2. Unmoved(worker[w].id)
    BY <1>3, <2>1, KycAssumption DEF Decided, Withdrawn, CountInv, ClaimedIsUntold, Untold
  <2> QED  BY <2>2 DEF Unmoved, CountInv, OwnersStatus
<1>6. ASSUME NEW s \in Submissions, NEW n \in 0..MaxDecisions PROVE Counted(s, n)'
  <2>1. Readers(s, n)' = Readers(s, n)
    BY <1>2 DEF Readers
  <2>2. MayBeRead(s, n)' => MayBeRead(s, n)
    <3>1. CASE Unmoved(s)
      BY <1>2, <3>1 DEF Unmoved, MayBeRead, Untold, Holds
    <3>2. CASE Decided(s)
      <4>1. decision[s] \in Nat /\ decision'[s] \in Nat
        BY <1>1, CountFields, KycAssumption DEF CountInv, NoticeInv, KycTypeOK
      <4> QED  BY <3>2, <4>1 DEF Decided, MayBeRead
    <3>3. CASE Withdrawn(s)
      BY <3>3 DEF Withdrawn, MayBeRead, Untold
    <3> QED  BY <1>3, <3>1, <3>2, <3>3
  <2> QED  BY <1>2, <2>1, <2>2, SameCount DEF CountInv
<1> QED  BY <1>1, <1>4, <1>5, <1>6 DEF CountInv

\* A step of the notification in which nobody reads: what was held is still
\* held, unless something has failed.
LEMMA NobodyReads ==
    ASSUME CountInv, UNCHANGED <<decision, mails>>,
           \A x \in Workers : worker'[x].phase = "read" => worker'[x] = worker[x],
           \/ failures' = failures + 1
           \/ /\ failures' = failures
              /\ \A s \in Submissions : Untold(s)' =>
                   /\ Untold(s)
                   /\ \A x \in Workers : Holds(x, s) => Holds(x, s)'
    PROVE  \A s \in Submissions, n \in 0..MaxDecisions : Counted(s, n)'
<1> SUFFICES ASSUME NEW s \in Submissions, NEW n \in 0..MaxDecisions
             PROVE  Counted(s, n)'
  OBVIOUS
<1>1. Readers(s, n)' \subseteq Readers(s, n)
  BY DEF Readers
<1>2. \/ failures' = failures + 1
      \/ failures' = failures /\ (MayBeRead(s, n)' => MayBeRead(s, n))
  BY DEF MayBeRead
<1>3. Counted(s, n) /\ NoticeInv
  BY DEF CountInv
<1> QED  BY <1>1, <1>2, <1>3, SameCount

\* ClaimedIsUntold and OwnersStatus need no more than that claims are only
\* given up, the rows are as they were, and nobody changes the job at hand.
LEMMA ClaimsKept ==
    ASSUME CountInv,
           \A s \in Submissions :
             /\ claim'[s] \in {claim[s], NoClaim}
             /\ row'[s].status = row[s].status
             /\ claim'[s] # NoClaim => row'[s].notified = row[s].notified,
           \A x \in Workers : worker'[x].phase \in {"claimed", "read", "accepted"} =>
             /\ worker[x].phase \in {"claimed", "read", "accepted"}
             /\ worker'[x].id = worker[x].id /\ worker'[x].status = worker[x].status
    PROVE  ClaimedIsUntold' /\ OwnersStatus'
<1>1. ClaimedIsUntold'
  BY DEF CountInv, ClaimedIsUntold, Untold
<1>2. OwnersStatus'
  <2> SUFFICES ASSUME NEW w \in Workers, worker'[w].phase \in {"claimed", "read", "accepted"},
                      claim'[worker'[w].id] = w
               PROVE  row'[worker'[w].id].status = worker'[w].status
    BY DEF OwnersStatus
  <2>1. worker[w].id \in Submissions /\ worker'[w].id = worker[w].id
    BY BusyType DEF CountInv, NoticeInv
  <2>2. claim[worker[w].id] = w
    BY <2>1, KycAssumption
  <2> QED  BY <2>1, <2>2 DEF CountInv, OwnersStatus
<1> QED  BY <1>1, <1>2

LEMMA ClaimKeepsCount ==
    ASSUME CountInv, NEW w \in Workers, NEW s \in Submissions, NEW st \in Notifiable,
           ClaimNotice(w, s, st)
    PROVE  CountInv'
<1>1. NoticeInv' /\ UNCHANGED <<row, decision, mails, failures>>
  BY ClaimKeepsInv DEF CountInv, ClaimNotice
<1>2. CASE UNCHANGED <<worker, claim, lapsed>>
  <2>1. ClaimedIsUntold' /\ OwnersStatus'
    BY <1>1, <1>2, ClaimsKept
  <2>2. \A t \in Submissions : Untold(t)' =>
           Untold(t) /\ \A x \in Workers : Holds(x, t) => Holds(x, t)'
    BY <1>1, <1>2 DEF Untold, Holds
  <2> QED  BY <1>1, <1>2, <2>1, <2>2, NobodyReads DEF CountInv
<1>3. CASE /\ row[s].status = st /\ ~row[s].notified /\ Claimable(s)
           /\ worker' = [worker EXCEPT ![w] = [phase |-> "claimed", id |-> s,
                                              status |-> st, decision |-> 0]]
           /\ claim' = [claim EXCEPT ![s] = w]
           /\ lapsed' = [lapsed EXCEPT ![s] = FALSE]
  <2>1. /\ worker'[w].phase = "claimed" /\ worker'[w].id = s /\ worker'[w].status = st
        /\ \A x \in Workers \ {w} : worker'[x] = worker[x]
    BY <1>3 DEF CountInv, NoticeInv, NoticeTypeOK
  <2>2. /\ claim'[s] = w
        /\ \A t \in Submissions \ {s} : claim'[t] = claim[t] /\ lapsed'[t] = lapsed[t]
    BY <1>3 DEF CountInv, NoticeInv, KycTypeOK
  <2>3. worker[w].phase = "idle"
    BY DEF ClaimNotice, Resting
  <2>4. ClaimedIsUntold'
    BY <1>1, <1>3, <2>2 DEF CountInv, ClaimedIsUntold, Untold
  <2>5. OwnersStatus'
    <3> SUFFICES ASSUME NEW x \in Workers,
                        worker'[x].phase \in {"claimed", "read", "accepted"},
                        claim'[worker'[x].id] = x
                 PROVE  row[worker'[x].id].status = worker'[x].status
      BY <1>1 DEF OwnersStatus
    <3>1. CASE x = w
      BY <1>3, <2>1, <3>1
    <3>2. CASE x # w
      <4>1. worker'[x] = worker[x] /\ worker[x].id \in Submissions
        BY <2>1, <3>2, BusyType DEF CountInv, NoticeInv
      <4> QED  BY <2>2, <3>2, <4>1 DEF CountInv, OwnersStatus
    <3> QED  BY <3>1, <3>2
  <2>6. ASSUME NEW t \in Submissions, NEW x \in Workers, Holds(x, t)
        PROVE  Holds(x, t)'
    <3>1. x # w /\ worker'[x] = worker[x]
      BY <2>1, <2>3, <2>6 DEF Holds
    <3>2. t # s
      BY <1>3, <2>6, KycAssumption DEF Holds, Claimable
    <3> QED  BY <2>2, <2>6, <3>1, <3>2 DEF Holds
  <2>7. \A t \in Submissions : Untold(t)' => Untold(t)
    BY <1>1 DEF Untold
  <2>8. \A x \in Workers : worker'[x].phase = "read" => worker'[x] = worker[x]
    BY <2>1
  <2> QED  BY <1>1, <2>4, <2>5, <2>6, <2>7, <2>8, NobodyReads DEF CountInv
<1> QED  BY <1>2, <1>3 DEF ClaimNotice

\* A worker goes to another phase of its job, or to rest.
Goes(w, phase) ==
    /\ worker'[w].phase = phase
    /\ phase # "idle" =>
         worker'[w].id = worker[w].id /\ worker'[w].status = worker[w].status
    /\ \A x \in Workers \ {w} : worker'[x] = worker[x]

LEMMA GoGoes ==
    ASSUME NoticeTypeOK, NEW w \in Workers, worker[w].phase # "idle", NEW phase, Go(w, phase)
    PROVE  Goes(w, phase) /\ worker'[w].decision = worker[w].decision
  BY BusyType DEF Goes, Go, NoticeTypeOK, Busy

LEMMA RestGoes ==
    ASSUME NoticeTypeOK, NEW w \in Workers, worker' = [worker EXCEPT ![w] = Resting]
    PROVE  Goes(w, "idle")
  BY DEF Goes, NoticeTypeOK, Resting

\* What a worker that leaves its job does to the rest of the invariant.
LEMMA LeavingKeepsCount ==
    ASSUME CountInv, NoticeInv', NEW w \in Workers,
           Goes(w, "releasing") \/ Goes(w, "idle"),
           UNCHANGED <<row, decision, mails>>,
           \A s \in Submissions : claim'[s] \in {claim[s], NoClaim},
           \/ failures' = failures + 1
           \/ /\ failures' = failures
              /\ \A s \in Submissions : ~Holds(w, s)
              /\ \A s \in Submissions : claim[s] # w =>
                    claim'[s] = claim[s] /\ lapsed'[s] = lapsed[s]
    PROVE  CountInv'
<1>1. ClaimedIsUntold' /\ OwnersStatus'
  BY ClaimsKept DEF Goes
<1>2. \A x \in Workers : worker'[x].phase = "read" => worker'[x] = worker[x]
  BY DEF Goes
<1>3. \A s \in Submissions : Untold(s)' => Untold(s)
  BY DEF Untold
<1>4. CASE failures' = failures + 1
  BY <1>1, <1>2, <1>4, NobodyReads DEF CountInv
<1>5. CASE /\ failures' = failures
           /\ \A s \in Submissions : ~Holds(w, s)
           /\ \A s \in Submissions : claim[s] # w =>
                 claim'[s] = claim[s] /\ lapsed'[s] = lapsed[s]
  <2>1. ASSUME NEW s \in Submissions, NEW x \in Workers, Holds(x, s)
        PROVE  Holds(x, s)'
    <3>1. x # w /\ worker'[x] = worker[x] /\ claim[s] # w
      BY <1>5, <2>1 DEF Holds, Goes
    <3> QED  BY <1>5, <2>1, <3>1 DEF Holds
  <2> QED  BY <1>1, <1>2, <1>3, <1>5, <2>1, NobodyReads DEF CountInv
<1> QED  BY <1>4, <1>5

LEMMA ReadKeepsCount ==
    ASSUME CountInv, NEW w \in Workers, ReadClaimed(w)
    PROVE  CountInv'
<1> DEFINE s == worker[w].id
<1>1. NoticeInv' /\ UNCHANGED <<kycVars, mails, failures>>
  BY ReadKeepsInv DEF CountInv, ReadClaimed
<1>2. UNCHANGED <<row, claim, lapsed, decision, mails, failures>>
  BY <1>1 DEF kycVars, rowVars
<1>3. NoticeInv /\ NoticeTypeOK /\ worker[w].phase = "claimed" /\ s \in Submissions
  BY BusyType DEF CountInv, NoticeInv, ReadClaimed
<1>4. CASE Go(w, "releasing")
  <2>1. Goes(w, "releasing")
    BY <1>3, <1>4, GoGoes
  <2>2. \A t \in Submissions : ~Holds(w, t)
    BY <1>3 DEF Holds
  <2> QED  BY <1>1, <1>2, <2>1, <2>2, LeavingKeepsCount
<1>5. CASE /\ claim[s] = w /\ ~lapsed[s]
           /\ worker' = [worker EXCEPT ![w].phase = "read", ![w].decision = decision[s]]
  <2>1. /\ worker'[w].phase = "read" /\ worker'[w].decision = decision[s]
        /\ worker'[w].id = s /\ worker'[w].status = worker[w].status
        /\ \A x \in Workers \ {w} : worker'[x] = worker[x]
    BY <1>3, <1>5, BusyType DEF NoticeTypeOK, Busy
  <2>2. ClaimedIsUntold' /\ OwnersStatus'
    BY <1>2, <1>3, <2>1, ClaimsKept
  <2>3. ASSUME NEW t \in Submissions, NEW n \in 0..MaxDecisions PROVE Counted(t, n)'
    <3>1. CASE t = s /\ n = decision[s]
      <4>1. w \notin Readers(t, n)
        BY <1>3 DEF Readers
      <4>2. Readers(t, n)' = Readers(t, n) \cup {w}
        BY <2>1, <3>1 DEF Readers
      <4>3. Untold(s) /\ \A x \in Workers : ~Holds(x, s)
        BY <1>3, <1>5, KycAssumption DEF CountInv, ClaimedIsUntold, Holds
      <4>4. MayBeRead(t, n)
        BY <3>1, <4>3 DEF MayBeRead
      <4>5. Holds(w, t)'
        BY <1>2, <1>5, <2>1, <3>1 DEF Holds
      <4>6. decision[s] \in Nat
        BY <1>3, CountFields
      <4>7. ~MayBeRead(t, n)'
        BY <1>2, <3>1, <4>5, <4>6 DEF MayBeRead
      <4>8. Counted(t, n)
        BY DEF CountInv
      <4> QED  BY <1>2, <1>3, <4>1, <4>2, <4>4, <4>7, <4>8, OneMoreReader
    <3>2. CASE t # s \/ n # decision[s]
      <4>1. Readers(t, n)' \subseteq Readers(t, n)
        BY <2>1, <3>2 DEF Readers
      <4>2. MayBeRead(t, n)' => MayBeRead(t, n)
        <5>1. CASE t # s
          <6>1. \A x \in Workers : Holds(x, t) => Holds(x, t)'
            BY <1>2, <2>1, <5>1 DEF Holds
          <6> QED  BY <1>2, <6>1 DEF MayBeRead, Untold
        <5>2. CASE n # decision[s] /\ t = s
          BY <1>2, <5>2 DEF MayBeRead
        <5> QED  BY <3>2, <5>1, <5>2
      <4>3. Counted(t, n)
        BY DEF CountInv
      <4> QED  BY <1>2, <1>3, <4>1, <4>2, <4>3, SameCount
    <3> QED  BY <3>1, <3>2
  <2> QED  BY <1>1, <2>2, <2>3 DEF CountInv
<1> QED  BY <1>4, <1>5 DEF ReadClaimed

\* SendGrid has answered: the worker is no longer a reader of the decision it
\* has read.
LEMMA AnswerLeavesReaders ==
    ASSUME NEW w \in Workers, worker[w].phase = "read", NEW phase, phase # "read",
           Goes(w, phase), NEW s \in Submissions, NEW n \in 0..MaxDecisions
    PROVE  /\ worker[w].id = s /\ worker[w].decision = n =>
                w \in Readers(s, n) /\ Readers(s, n)' = Readers(s, n) \ {w}
           /\ Readers(s, n)' \subseteq Readers(s, n)
  BY DEF Readers, Goes

LEMMA MailKeepsCount ==
    ASSUME CountInv, NEW w \in Workers, MailAccepted(w)
    PROVE  CountInv'
<1> DEFINE s == worker[w].id
           d == worker[w].decision
<1>1. NoticeInv' /\ NoticeInv /\ NoticeTypeOK
  BY MailKeepsInv DEF CountInv, NoticeInv
<1>2. UNCHANGED <<row, claim, lapsed, decision, failures>>
  BY DEF MailAccepted, kycVars, rowVars
<1>3. worker[w].phase = "read" /\ s \in Submissions /\ d \in 0..MaxDecisions
  BY <1>1, BusyType DEF MailAccepted
<1>4. Goes(w, "accepted")
  BY <1>1, <1>3, GoGoes DEF MailAccepted
<1>5. ClaimedIsUntold' /\ OwnersStatus'
  BY <1>2, <1>3, <1>4, ClaimsKept DEF Goes
<1>6. \A t \in Submissions, x \in Workers : Holds(x, t) => Holds(x, t)'
  BY <1>2, <1>3, <1>4 DEF Holds, Goes
<1>7. \A t \in Submissions, n \in 0..MaxDecisions : MayBeRead(t, n)' => MayBeRead(t, n)
  BY <1>2, <1>6 DEF MayBeRead, Untold
<1>8. ASSUME NEW t \in Submissions, NEW n \in 0..MaxDecisions PROVE Counted(t, n)'
  <2>1. Counted(t, n)
    BY DEF CountInv
  <2>2. mails' = [mails EXCEPT ![s][d] = @ + 1]
    BY DEF MailAccepted
  <2>3. CASE t = s /\ n = d
    <3>1. mails'[t][n] = mails[t][n] + 1
      BY <1>1, <2>2, <2>3 DEF NoticeTypeOK
    <3>2. w \in Readers(t, n) /\ Readers(t, n)' = Readers(t, n) \ {w}
      BY <1>3, <1>4, <2>3, AnswerLeavesReaders
    <3> QED  BY <1>1, <1>2, <1>7, <2>1, <3>1, <3>2, OneReaderLess
  <2>4. CASE t # s \/ n # d
    <3>1. mails'[t][n] = mails[t][n]
      BY <1>1, <1>3, <2>2, <2>4 DEF NoticeTypeOK
    <3>2. Readers(t, n)' \subseteq Readers(t, n)
      BY <1>3, <1>4, AnswerLeavesReaders
    <3> QED  BY <1>1, <1>2, <1>7, <2>1, <3>1, <3>2, SameCount
  <2> QED  BY <2>3, <2>4
<1> QED  BY <1>1, <1>5, <1>8 DEF CountInv

LEMMA RefusalKeepsCount ==
    ASSUME CountInv, NEW w \in Workers, MailRefused(w)
    PROVE  CountInv'
<1> DEFINE s == worker[w].id
           d == worker[w].decision
<1>1. NoticeInv' /\ NoticeInv /\ NoticeTypeOK
  BY FailureKeepsInv DEF CountInv, NoticeInv
<1>2. UNCHANGED <<row, claim, lapsed, decision, mails, failures>>
  BY DEF MailRefused, rowVars
<1>3. worker[w].phase = "read" /\ s \in Submissions /\ d \in 0..MaxDecisions
  BY <1>1, BusyType DEF MailRefused
<1>4. Goes(w, "releasing")
  BY <1>1, <1>3, GoGoes DEF MailRefused
<1>5. ClaimedIsUntold' /\ OwnersStatus'
  BY <1>2, <1>4, ClaimsKept DEF Goes
<1>6. \A t \in Submissions, x \in Workers \ {w} : Holds(x, t) => Holds(x, t)'
  BY <1>2, <1>4 DEF Holds, Goes
<1>7. \A t \in Submissions : Holds(w, t) => t = s /\ d = decision[s]
  BY <1>1 DEF Holds, NoticeInv, OwnerReadInForce
<1>8. ASSUME NEW t \in Submissions, NEW n \in 0..MaxDecisions PROVE Counted(t, n)'
  <2>1. Counted(t, n) /\ mails'[t][n] = mails[t][n]
    BY <1>2 DEF CountInv
  <2>2. CASE t = s /\ n = d
    <3>1. w \in Readers(t, n) /\ Readers(t, n)' = Readers(t, n) \ {w}
      BY <1>3, <1>4, <2>2, AnswerLeavesReaders
    <3> QED  BY <1>1, <1>2, <2>1, <3>1, OneReaderLess
  <2>3. CASE t # s \/ n # d
    <3>1. Readers(t, n)' \subseteq Readers(t, n)
      BY <1>3, <1>4, AnswerLeavesReaders
    <3>2. MayBeRead(t, n)' => MayBeRead(t, n)
      BY <1>2, <1>6, <1>7, <2>3 DEF MayBeRead, Untold
    <3> QED  BY <1>1, <1>2, <2>1, <3>1, <3>2, SameCount
  <2> QED  BY <2>2, <2>3
<1> QED  BY <1>1, <1>5, <1>8 DEF CountInv

\* The worker whose status and token match the row owns the claim; one that
\* does not find its row has lost it.
LEMMA RecordKeepsCount ==
    ASSUME CountInv, NEW w \in Workers, RecordAccepted(w)
    PROVE  CountInv'
<1> DEFINE s == worker[w].id
<1>1. NoticeInv' /\ NoticeInv /\ NoticeTypeOK /\ KycTypeOK
  BY RecordKeepsInv DEF CountInv, NoticeInv
<1>2. UNCHANGED <<decision, mails, failures>>
  BY DEF RecordAccepted
<1>3. worker[w].phase = "accepted" /\ s \in Submissions
  BY <1>1, BusyType DEF RecordAccepted
<1>4. Goes(w, "releasing")
  BY <1>1, <1>3, GoGoes DEF RecordAccepted
<1>5. CASE UNCHANGED <<row, claim, lapsed>> /\ ~(row[s].status = worker[w].status /\ claim[s] = w)
  <2>1. \A t \in Submissions : ~Holds(w, t)
    BY <1>3, <1>5 DEF Holds, CountInv, OwnersStatus
  <2> QED  BY <1>1, <1>2, <1>4, <1>5, <2>1, LeavingKeepsCount
<1>6. CASE claim[s] = w /\ row' = [row EXCEPT ![s].notified = TRUE] /\ Unclaimed(s)
  <2>1. /\ row'[s].status = row[s].status /\ row'[s].notified /\ claim'[s] = NoClaim
        /\ \A t \in Submissions \ {s} :
             row'[t] = row[t] /\ claim'[t] = claim[t] /\ lapsed'[t] = lapsed[t]
    <3>1. row'[s] = [row[s] EXCEPT !.notified = TRUE] /\ row[s] \in Rows
      BY <1>1, <1>3, <1>6 DEF KycTypeOK
    <3>2. row'[s].status = row[s].status /\ row'[s].notified
      BY <3>1 DEF Rows
    <3> QED  BY <1>1, <1>3, <1>6, <3>2 DEF KycTypeOK, Unclaimed
  <2>2. ClaimedIsUntold' /\ OwnersStatus'
    BY <1>4, <2>1, ClaimsKept DEF Goes
  <2>3. ASSUME NEW t \in Submissions, Untold(t)'
        PROVE  Untold(t) /\ \A x \in Workers : Holds(x, t) => Holds(x, t)'
    <3>1. t # s
      BY <2>1, <2>3 DEF Untold
    <3> QED  BY <1>4, <2>1, <2>3, <3>1 DEF Untold, Holds, Goes
  <2>4. \A x \in Workers : worker'[x].phase = "read" => worker'[x] = worker[x]
    BY <1>4 DEF Goes
  <2> QED  BY <1>1, <1>2, <2>2, <2>3, <2>4, NobodyReads DEF CountInv
<1> QED  BY <1>5, <1>6 DEF RecordAccepted

LEMMA LeavesKeepCount ==
    ASSUME CountInv, NEW w \in Workers, StatementFails(w) \/ Crash(w) \/ ReleaseClaim(w)
    PROVE  CountInv'
<1>1. NoticeInv' /\ NoticeInv /\ NoticeTypeOK /\ KycTypeOK
  BY FailureKeepsInv, ReleaseKeepsInv DEF CountInv, NoticeInv
<1>2. CASE StatementFails(w)
  <2>1. Goes(w, "releasing")
    BY <1>1, <1>2, GoGoes DEF StatementFails
  <2>2. UNCHANGED <<row, claim, decision, mails>> /\ failures' = failures + 1
    BY <1>2 DEF StatementFails, Fail, rowVars
  <2> QED  BY <1>1, <2>1, <2>2, LeavingKeepsCount
<1>3. CASE Crash(w)
  <2>1. Goes(w, "idle")
    BY <1>1, <1>3, RestGoes DEF Crash
  <2>2. UNCHANGED <<row, claim, decision, mails>> /\ failures' = failures + 1
    BY <1>3 DEF Crash, Fail, rowVars
  <2> QED  BY <1>1, <2>1, <2>2, LeavingKeepsCount
<1>4. CASE ReleaseClaim(w)
  <2>1. Goes(w, "idle")
    BY <1>1, <1>4, RestGoes DEF ReleaseClaim
  <2>2. UNCHANGED <<row, decision, mails, failures>> /\ \A t \in Submissions : ~Holds(w, t)
    BY <1>4 DEF ReleaseClaim, Holds
  <2>3. worker[w].id \in Submissions
    BY <1>1, <1>4, BusyType DEF ReleaseClaim
  <2>4. \A t \in Submissions :
          /\ claim'[t] \in {claim[t], NoClaim}
          /\ claim[t] # w => claim'[t] = claim[t] /\ lapsed'[t] = lapsed[t]
    BY <1>1, <1>4, <2>3 DEF ReleaseClaim, Unclaimed, KycTypeOK
  <2> QED  BY <1>1, <2>1, <2>2, <2>4, LeavingKeepsCount
<1> QED  BY <1>2, <1>3, <1>4

\* A lease runs out on a worker that is done with the row, or it is a failure.
LEMMA LeaseKeepsCount ==
    ASSUME CountInv, NEW s \in Submissions, LeaseRunsOut(s)
    PROVE  CountInv'
<1>1. NoticeInv' /\ NoticeInv /\ UNCHANGED <<row, claim, decision, worker, mails>>
  BY LeaseKeepsInv DEF CountInv, LeaseRunsOut
<1>2. ClaimedIsUntold' /\ OwnersStatus'
  BY <1>1, ClaimsKept
<1>3. CASE failures' = failures + 1
  BY <1>1, <1>2, <1>3, NobodyReads DEF CountInv
<1>4. CASE failures' = failures /\ ~(worker[claim[s]] # Resting /\ worker[claim[s]].id = s)
  <2>1. \A t \in Submissions \ {s} : lapsed'[t] = lapsed[t]
    BY DEF LeaseRunsOut, CountInv, NoticeInv, KycTypeOK
  <2>2. \A x \in Workers : ~Holds(x, s)
    BY <1>4 DEF Holds, Resting
  <2>3. \A t \in Submissions, x \in Workers : Holds(x, t) => Holds(x, t)'
    BY <1>1, <2>1, <2>2 DEF Holds
  <2>4. \A t \in Submissions : Untold(t)' => Untold(t)
    BY <1>1 DEF Untold
  <2> QED  BY <1>1, <1>2, <1>4, <2>3, <2>4, NobodyReads DEF CountInv
<1> QED  BY <1>3, <1>4 DEF LeaseRunsOut, Fail

LEMMA ReconcileKeepsCount == ASSUME CountInv, Reconcile PROVE CountInv'
<1>1. NoticeInv' /\ UNCHANGED <<row, claim, lapsed, decision, worker, mails, failures>>
  BY ReconcileKeepsInv DEF CountInv, Reconcile, rowVars, noticeVars
<1>2. ClaimedIsUntold' /\ OwnersStatus'
  BY <1>1, ClaimsKept
<1>3. \A s \in Submissions : Untold(s)' =>
         Untold(s) /\ \A x \in Workers : Holds(x, s) => Holds(x, s)'
  BY <1>1 DEF Untold, Holds
<1> QED  BY <1>1, <1>2, <1>3, NobodyReads DEF CountInv

-----------------------------------------------------------------------------
LEMMA CountInvInit == KycInit /\ NoticeInit => CountInv
<1> SUFFICES ASSUME KycInit, NoticeInit PROVE CountInv
  OBVIOUS
<1>1. NoticeInv
  BY NoticeInvInit
<1>2. ClaimedIsUntold /\ OwnersStatus
  BY DEF KycInit, NoticeInit, ClaimedIsUntold, OwnersStatus, Resting
<1>3. ASSUME NEW s \in Submissions, NEW n \in 0..MaxDecisions PROVE Counted(s, n)
  <2>1. Readers(s, n) = {}
    BY DEF NoticeInit, Resting, Readers
  <2>2. IsFiniteSet({}) /\ Cardinality({}) = 0
    BY FS_EmptySet
  <2>3. mails[s][n] = 0 /\ failures = 0
    BY DEF NoticeInit
  <2> QED  BY <2>1, <2>2, <2>3 DEF Counted
<1> QED  BY <1>1, <1>2, <1>3 DEF CountInv

LEMMA CountInvStep == ASSUME CountInv, [NoticeNext]_vars PROVE CountInv'
<1>1. CASE KycNext /\ UNCHANGED noticeVars
  BY <1>1, KycKeepsCount
<1>2. ASSUME NEW w \in Workers, WorkerStep(w) PROVE CountInv'
  BY <1>2, ClaimKeepsCount, ReadKeepsCount, MailKeepsCount, RefusalKeepsCount,
     RecordKeepsCount, LeavesKeepCount
  DEF WorkerStep
<1>3. ASSUME NEW s \in Submissions, LeaseRunsOut(s) PROVE CountInv'
  BY <1>3, LeaseKeepsCount
<1>4. CASE Reconcile
  BY <1>4, ReconcileKeepsCount
<1>5. CASE UNCHANGED vars
  BY <1>5, KycKeepsCount DEF vars
<1> QED  BY <1>1, <1>2, <1>3, <1>4, <1>5 DEF NoticeNext

\* sendKycStatus() may be run for one decision by any number of workers, by
\* retries, by the hourly job and after reviews in between: the account is
\* mailed twice about one decision only if a worker died, a statement failed
\* or a lease ran out on a worker, and once more for each of these.
THEOREM OneMailPerFailure == NoticeSpec => []MailedOncePerFailure
<1>1. CountInv => MailedOncePerFailure
  <2> SUFFICES ASSUME CountInv, NEW s \in Submissions, NEW n \in 0..MaxDecisions
               PROVE  mails[s][n] <= 1 + failures
    BY DEF MailedOncePerFailure
  <2>1. mails[s][n] \in Nat /\ failures \in Nat
    BY CountFields DEF CountInv
  <2>2. /\ Cardinality(Readers(s, n)) \in Nat
        /\ mails[s][n] + Cardinality(Readers(s, n)) + (IF MayBeRead(s, n) THEN 1 ELSE 0)
             <= 1 + failures
    BY FS_CardinalityType DEF CountInv, Counted
  <2> QED  BY <2>1, <2>2
<1>2. CountInv /\ [NoticeNext]_vars => CountInv'
  BY CountInvStep
<1> QED  BY CountInvInit, <1>1, <1>2, PTL DEF NoticeSpec
=============================================================================
