--------------------------------- MODULE Kyc --------------------------------
(***************************************************************************)
(* KycService and KycExpiryService.expireVerified(): the submissions of    *)
(* one account in one role.  Nothing the service does to one account and   *)
(* role reads or writes another's, so one is enough.                       *)
(*                                                                         *)
(* openSubmission(), uploadDocument() and submit() read without a lock and *)
(* write later; a request is the value it carries in between.  review()    *)
(* locks the row and expireVerified() is one UPDATE, so each is one step.  *)
(***************************************************************************)
EXTENDS Integers

CONSTANTS
    Submissions,      \* ids, in the order the rows are created
    Documents,        \* REQUIRED_DOCUMENTS of the role, the only ones allowed
    MaxKycAttempts,   \* MAX_KYC_ATTEMPTS
    Requests,         \* requests of the account that may be in flight
    Workers,          \* e-mail workers, who own the claims of KycNotice
    NoClaim,          \* notification_claim_token IS NULL
    MaxUploads,       \* bound on the versions of one document
    MaxDecisions      \* bound on the decisions on one submission

ASSUME KycAssumption ==
    /\ Submissions \subseteq Nat \ {0}
    /\ MaxKycAttempts \in Nat \ {0}
    /\ MaxUploads \in Nat
    /\ MaxDecisions \in Nat
    /\ NoClaim \notin Workers

VARIABLES
    row,       \* kyc_submissions: the columns save() writes
    papers,    \* kyc_documents: the version of each, 0 for no row
    claim,     \* notification_claim_token
    lapsed,    \* notification_claim_until has passed
    decision,  \* auxiliary: how many decisions a submission has had
    request,   \* what a request in flight has read
    jobs       \* waiting send-kyc-status jobs: submission and status

rowVars == <<row, papers, claim, lapsed, decision>>
kycVars == <<rowVars, request, jobs>>

OpenKycStatuses == {"draft", "pending", "more_info"}
Editable == {"draft", "more_info"}
Notifiable == {"more_info", "verified", "rejected", "locked", "expired"}
KycStatuses == OpenKycStatuses \cup Notifiable

Rows ==
    [status : KycStatuses \cup {"absent"}, attempt : 0..MaxKycAttempts,
     expiry : {"none", "ahead", "past"}, notified : BOOLEAN]
Absent == [status |-> "absent", attempt |-> 0, expiry |-> "none", notified |-> FALSE]

Idle == [kind |-> "idle"]
InFlight ==
    [kind : {"open"}, attempt : 1..MaxKycAttempts, from : Submissions \cup {0}]
    \cup [kind : {"upload"}, id : Submissions, document : Documents]
    \cup [kind : {"submit"}, id : Submissions, read : Rows]

KycTypeOK ==
    /\ row \in [Submissions -> Rows]
    /\ papers \in [Submissions -> [Documents -> 0..MaxUploads]]
    /\ claim \in [Submissions -> Workers \cup {NoClaim}]
    /\ lapsed \in [Submissions -> BOOLEAN]
    /\ decision \in [Submissions -> 0..MaxDecisions]
    /\ request \in [Requests -> {Idle} \cup InFlight]
    /\ jobs \in SUBSET (Submissions \X Notifiable)

KycInit ==
    /\ row = [s \in Submissions |-> Absent]
    /\ papers = [s \in Submissions |-> [d \in Documents |-> 0]]
    /\ claim = [s \in Submissions |-> NoClaim]
    /\ lapsed = [s \in Submissions |-> FALSE]
    /\ decision = [s \in Submissions |-> 0]
    /\ request = [r \in Requests |-> Idle]
    /\ jobs = {}

-----------------------------------------------------------------------------
Created == {s \in Submissions : row[s].status # "absent"}
Open == {s \in Created : row[s].status \in OpenKycStatuses}

\* findLatest(): ORDER BY attempt_no DESC, created_at DESC.
IsLatest(s) ==
    /\ s \in Created
    /\ \A t \in Created : \/ row[t].attempt < row[s].attempt
                          \/ row[t].attempt = row[s].attempt /\ t <= s

Complete(s) == \A d \in Documents : papers[s][d] > 0

Start(r, what) == request[r] = Idle /\ request' = [request EXCEPT ![r] = what]
Finish(r) == request' = [request EXCEPT ![r] = Idle]

Unclaimed(s) ==
    /\ claim' = [claim EXCEPT ![s] = NoClaim]
    /\ lapsed' = [lapsed EXCEPT ![s] = FALSE]

\* enqueueKycStatus() after the COMMIT: a failure is only logged.
Enqueue(new) == jobs' \in {jobs, jobs \cup new}

-----------------------------------------------------------------------------
(* The account                                                             *)

\* Mutant: a rejected submission may always be followed by another.
PlanForEver(r) ==
    /\ \/ /\ Created = {}
          /\ Start(r, [kind |-> "open", attempt |-> 1, from |-> 0])
       \/ \E s \in Created :
            /\ IsLatest(s)
            /\ \/ /\ row[s].status \in {"rejected", "locked"}
                  /\ Start(r, [kind |-> "open", attempt |-> row[s].attempt + 1, from |-> s])
               \/ /\ row[s].status = "expired"
                  /\ Start(r, [kind |-> "open", attempt |-> 1, from |-> s])
    /\ UNCHANGED <<rowVars, jobs>>

\* planKycOpening().  An open submission is returned as it is, a verified one
\* and one that has used up the attempts refuse.
PlanOpening(r) ==
    /\ \/ /\ Created = {}
          /\ Start(r, [kind |-> "open", attempt |-> 1, from |-> 0])
       \/ \E s \in Created :
            /\ IsLatest(s)
            /\ \/ /\ row[s].status = "rejected"
                  /\ row[s].attempt < MaxKycAttempts
                  /\ Start(r, [kind |-> "open", attempt |-> row[s].attempt + 1, from |-> s])
               \/ /\ row[s].status = "expired"
                  /\ Start(r, [kind |-> "open", attempt |-> 1, from |-> s])
    /\ UNCHANGED <<rowVars, jobs>>

\* Mutant: no partial unique index on the open submissions.
CreateAnyway(r) ==
    \E s \in Submissions \ Created :
        LET plan == request[r]
        IN  /\ plan.kind = "open"
            /\ \A t \in Submissions \ Created : s <= t
            /\ row' = [row EXCEPT ![s] =
                        [status |-> "draft", attempt |-> plan.attempt,
                         expiry |-> "none", notified |-> FALSE]]
            /\ papers' = IF plan.from = 0 THEN papers
                         ELSE [papers EXCEPT ![s] = papers[plan.from]]
            /\ Finish(r)
            /\ UNCHANGED <<claim, lapsed, decision, jobs>>

\* The transaction of openSubmission(): the INSERT, refused by the index
\* while a submission is open, and carryOverDocuments().
CreateSubmission(r) ==
    \E s \in Submissions \ Created :
        LET plan == request[r]
        IN  /\ plan.kind = "open"
            /\ Open = {}
            /\ \A t \in Submissions \ Created : s <= t
            /\ row' = [row EXCEPT ![s] =
                        [status |-> "draft", attempt |-> plan.attempt,
                         expiry |-> "none", notified |-> FALSE]]
            /\ papers' = IF plan.from = 0 THEN papers
                         ELSE [papers EXCEPT ![s] = papers[plan.from]]
            /\ Finish(r)
            /\ UNCHANGED <<claim, lapsed, decision, jobs>>

\* uploadDocument(), before the object is put into the storage ...
StartUpload(r, d) ==
    /\ \E s \in Created :
        /\ IsLatest(s)
        /\ row[s].status \in Editable
        /\ Start(r, [kind |-> "upload", id |-> s, document |-> d])
    /\ UNCHANGED <<rowVars, jobs>>

\* ... and after: the transaction looks at the document row only.
SaveDocument(r) ==
    LET up == request[r]
    IN  /\ up.kind = "upload"
        /\ papers[up.id][up.document] < MaxUploads
        /\ papers' = [papers EXCEPT ![up.id][up.document] = @ + 1]
        /\ Finish(r)
        /\ UNCHANGED <<row, claim, lapsed, decision, jobs>>

\* submit(), from findLatest() ...
ReadForSubmit(r) ==
    /\ \E s \in Created :
        /\ IsLatest(s)
        /\ row[s].status \in Editable
        /\ Start(r, [kind |-> "submit", id |-> s, read |-> row[s]])
    /\ UNCHANGED <<rowVars, jobs>>

\* Mutant: the required documents are not counted.
SaveIncomplete(r) ==
    LET sub == request[r]
    IN  /\ sub.kind = "submit"
        /\ Open \subseteq {sub.id}
        /\ row' = [row EXCEPT ![sub.id] = [sub.read EXCEPT !.status = "pending"]]
        /\ Unclaimed(sub.id)
        /\ Finish(r)
        /\ UNCHANGED <<papers, decision, jobs>>

\* ... to save(): TypeORM loads the row again and writes every column in which
\* the entity read earlier differs from it.  The documents are counted in
\* between; as none is ever removed, counting them now admits the same.
SaveSubmission(r) ==
    LET sub == request[r]
    IN  /\ sub.kind = "submit"
        /\ Complete(sub.id)
        /\ Open \subseteq {sub.id}
        /\ row' = [row EXCEPT ![sub.id] = [sub.read EXCEPT !.status = "pending"]]
        /\ Unclaimed(sub.id)
        /\ Finish(r)
        /\ UNCHANGED <<papers, decision, jobs>>

\* The storage, the unique index or the process fails, or the client leaves.
DropRequest(r) ==
    /\ request[r] # Idle
    /\ Finish(r)
    /\ UNCHANGED <<rowVars, jobs>>

-----------------------------------------------------------------------------
(* The administrator and the clock                                         *)

\* reviewKyc(): the last attempt rejected is LOCKED instead.
Outcome(s, asked) ==
    IF asked = "rejected" /\ row[s].attempt >= MaxKycAttempts THEN "locked" ELSE asked

\* KYC_TRANSITIONS: where an administrator may take a submission.
AdminTransitions ==
    {<<"pending", "verified">>, <<"pending", "more_info">>, <<"pending", "rejected">>,
     <<"verified", "expired">>}

\* review(), with the row locked; a verified submission can only be revoked.
Review(s, asked) ==
    LET next == Outcome(s, asked)
    IN  /\ <<row[s].status, asked>> \in AdminTransitions
        /\ decision[s] < MaxDecisions
        /\ row' = [row EXCEPT ![s] =
                    [row[s] EXCEPT !.status = next, !.notified = FALSE,
                                   !.expiry = IF next = "verified" THEN "ahead" ELSE @]]
        /\ decision' = [decision EXCEPT ![s] = @ + 1]
        /\ Unclaimed(s)
        /\ Enqueue({<<s, next>>})
        /\ UNCHANGED <<papers, request>>

\* expires_at is reached.
ValidityEnds(s) ==
    /\ row[s].expiry = "ahead"
    /\ row' = [row EXCEPT ![s].expiry = "past"]
    /\ UNCHANGED <<papers, claim, lapsed, decision, request, jobs>>

\* expireVerified(): one UPDATE over all rows that are due.
ExpireVerified ==
    LET due == {s \in Submissions : row[s].status = "verified" /\ row[s].expiry = "past"}
    IN  /\ due # {}
        /\ \A s \in due : decision[s] < MaxDecisions
        /\ row' = [s \in Submissions |->
                    IF s \in due THEN [row[s] EXCEPT !.status = "expired", !.notified = FALSE]
                    ELSE row[s]]
        /\ decision' = [s \in Submissions |-> decision[s] + IF s \in due THEN 1 ELSE 0]
        /\ claim' = [s \in Submissions |-> IF s \in due THEN NoClaim ELSE claim[s]]
        /\ lapsed' = [s \in Submissions |-> s \notin due /\ lapsed[s]]
        /\ \E told \in SUBSET due : jobs' = jobs \cup (told \X {"expired"})
        /\ UNCHANGED <<papers, request>>

KycNext ==
    \/ \E r \in Requests :
        \/ PlanOpening(r) \/ CreateSubmission(r)
        \/ SaveDocument(r) \/ ReadForSubmit(r) \/ SaveSubmission(r) \/ DropRequest(r)
        \/ \E d \in Documents : StartUpload(r, d)
    \/ \E s \in Submissions :
        \/ ValidityEnds(s)
        \/ \E asked \in Notifiable : Review(s, asked)
    \/ ExpireVerified

KycSpec == KycInit /\ [][KycNext]_kycVars

-----------------------------------------------------------------------------
(* Properties                                                              *)

\* An account never has two open submissions in one role, whether a second
\* one is opened or a late save() brings an old one back to PENDING.
OneOpenSubmission == \A s, t \in Open : s = t

\* Whatever is under review or decided has every required document: no
\* order of uploads, carry-overs and late saves gets an incomplete one past
\* the count in submit().
ReviewedIsComplete ==
    \A s \in Created : row[s].status \notin Editable => Complete(s)

-----------------------------------------------------------------------------
(* What the comments say and the code does not do                          *)

\* "An open submission is returned itself": the open submission is the one
\* every operation of the account finds.
OpenSubmissionIsLatest == \A s \in Open : IsLatest(s)
=============================================================================
