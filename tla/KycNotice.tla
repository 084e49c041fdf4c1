------------------------------ MODULE KycNotice -----------------------------
(***************************************************************************)
(* EmailProcessor.sendKycStatus() and reconcileNotifications(): telling    *)
(* the account of a decision.  A worker claims the submission with a token *)
(* and a lease, reads it, hands the mail to SendGrid, records that it was  *)
(* accepted, and releases its claim: five statements with decisions,       *)
(* submissions and other workers between them.  A worker that dies leaves  *)
(* its claim to the lease and its job to reconciliation.                   *)
(***************************************************************************)
EXTENDS Kyc

CONSTANT MaxFailures  \* bound on crashes, failed statements, late workers

ASSUME NoticeAssumption == MaxFailures \in Nat

VARIABLES
    worker,   \* where a worker is and for which job
    mails,    \* auxiliary: mails SendGrid accepted, per submission and decision
    failures  \* auxiliary: how often one of the above failures has happened

noticeVars == <<worker, mails, failures>>
vars == <<kycVars, noticeVars>>

Phases == {"idle", "claimed", "read", "accepted", "releasing"}
Resting == [phase |-> "idle"]
Busy ==
    [phase : Phases \ {"idle"}, id : Submissions, status : Notifiable,
     decision : 0..MaxDecisions]

NoticeTypeOK ==
    /\ worker \in [Workers -> {Resting} \cup Busy]
    /\ mails \in [Submissions -> [0..MaxDecisions -> Nat]]
    /\ failures \in 0..MaxFailures
    \* CHK_kyc_notification_claim_pair: no lease without a token.
    /\ \A s \in Submissions : lapsed[s] => claim[s] # NoClaim

NoticeInit ==
    /\ worker = [w \in Workers |-> Resting]
    /\ mails = [s \in Submissions |-> [n \in 0..MaxDecisions |-> 0]]
    /\ failures = 0

-----------------------------------------------------------------------------
Claimable(s) == claim[s] = NoClaim \/ lapsed[s]

Untold(s) == row[s].status \in Notifiable /\ ~row[s].notified

Go(w, phase) == worker' = [worker EXCEPT ![w].phase = phase]

Fail == failures < MaxFailures /\ failures' = failures + 1

\* BullMQ runs a failed job again, until its attempts are used up.
Retry(w) == Enqueue({<<worker[w].id, worker[w].status>>})

\* Mutant: a submission already notified may be claimed.
ClaimTold(w, s, st) ==
    /\ worker[w] = Resting
    /\ <<s, st>> \in jobs
    /\ jobs' \in {jobs, jobs \ {<<s, st>>}}
    /\ IF row[s].status = st /\ Claimable(s)
       THEN /\ worker' = [worker EXCEPT ![w] = [phase |-> "claimed", id |-> s,
                                               status |-> st, decision |-> 0]]
            /\ claim' = [claim EXCEPT ![s] = w]
            /\ lapsed' = [lapsed EXCEPT ![s] = FALSE]
       ELSE UNCHANGED <<worker, claim, lapsed>>
    /\ UNCHANGED <<row, papers, decision, request, mails, failures>>

\* The first UPDATE.  The job may be in the queue once more.
ClaimNotice(w, s, st) ==
    /\ worker[w] = Resting
    /\ <<s, st>> \in jobs
    /\ jobs' \in {jobs, jobs \ {<<s, st>>}}
    /\ IF row[s].status = st /\ ~row[s].notified /\ Claimable(s)
       THEN /\ worker' = [worker EXCEPT ![w] = [phase |-> "claimed", id |-> s,
                                               status |-> st, decision |-> 0]]
            /\ claim' = [claim EXCEPT ![s] = w]
            /\ lapsed' = [lapsed EXCEPT ![s] = FALSE]
       ELSE UNCHANGED <<worker, claim, lapsed>>
    /\ UNCHANGED <<row, papers, decision, request, mails, failures>>

\* findOne() by status, token and a lease still running.
ReadClaimed(w) ==
    LET s == worker[w].id
    IN  /\ worker[w].phase = "claimed"
        /\ IF row[s].status = worker[w].status /\ claim[s] = w /\ ~lapsed[s]
           THEN worker' = [worker EXCEPT ![w].phase = "read", ![w].decision = decision[s]]
           ELSE Go(w, "releasing")
        /\ UNCHANGED <<kycVars, mails, failures>>

\* SendGrid takes the mail ...
MailAccepted(w) ==
    /\ worker[w].phase = "read"
    /\ mails' = [mails EXCEPT ![worker[w].id][worker[w].decision] = @ + 1]
    /\ Go(w, "accepted")
    /\ UNCHANGED <<kycVars, failures>>

\* ... or not: it refuses, or sending is switched off.
MailRefused(w) ==
    /\ worker[w].phase = "read"
    /\ Go(w, "releasing")
    /\ Retry(w)
    /\ UNCHANGED <<rowVars, request, mails, failures>>

\* Mutant: the completion does not compare the token.
RecordByStatus(w) ==
    LET s == worker[w].id
    IN  /\ worker[w].phase = "accepted"
        /\ IF row[s].status = worker[w].status
           THEN /\ row' = [row EXCEPT ![s].notified = TRUE]
                /\ Unclaimed(s)
           ELSE UNCHANGED <<row, claim, lapsed>>
        /\ Go(w, "releasing")
        /\ UNCHANGED <<papers, decision, request, jobs, mails, failures>>

\* The UPDATE that sets notified_at, by status and token.
RecordAccepted(w) ==
    LET s == worker[w].id
    IN  /\ worker[w].phase = "accepted"
        /\ IF row[s].status = worker[w].status /\ claim[s] = w
           THEN /\ row' = [row EXCEPT ![s].notified = TRUE]
                /\ Unclaimed(s)
           ELSE UNCHANGED <<row, claim, lapsed>>
        /\ Go(w, "releasing")
        /\ UNCHANGED <<papers, decision, request, jobs, mails, failures>>

\* A statement of the worker fails: the job ends in finally, to be retried.
StatementFails(w) ==
    /\ worker[w].phase \in {"claimed", "accepted"}
    /\ Fail
    /\ Go(w, "releasing")
    /\ Retry(w)
    /\ UNCHANGED <<rowVars, request, mails>>

\* releaseClaim(), by token.
ReleaseClaim(w) ==
    LET s == worker[w].id
    IN  /\ worker[w].phase = "releasing"
        /\ IF claim[s] = w THEN Unclaimed(s) ELSE UNCHANGED <<claim, lapsed>>
        /\ worker' = [worker EXCEPT ![w] = Resting]
        /\ UNCHANGED <<row, papers, decision, request, jobs, mails, failures>>

\* The worker dies where it stands, or its last statement fails.
Crash(w) ==
    /\ worker[w] # Resting
    /\ Fail
    /\ worker' = [worker EXCEPT ![w] = Resting]
    /\ Retry(w)
    /\ UNCHANGED <<rowVars, request, mails>>

\* Mutant: the lease of a dead worker never ends.
LeaseOutlivesWorker(s) ==
    /\ claim[s] # NoClaim
    /\ ~lapsed[s]
    /\ worker[claim[s]] # Resting
    /\ worker[claim[s]].id = s
    /\ Fail
    /\ lapsed' = [lapsed EXCEPT ![s] = TRUE]
    /\ UNCHANGED <<row, papers, claim, decision, request, jobs, worker, mails>>

\* Sixty seconds pass.  A worker is expected to be done by then, one that is
\* not counts as a failure.
LeaseRunsOut(s) ==
    LET owner == claim[s]
    IN  /\ owner # NoClaim
        /\ ~lapsed[s]
        /\ IF worker[owner] # Resting /\ worker[owner].id = s
           THEN Fail ELSE UNCHANGED failures
        /\ lapsed' = [lapsed EXCEPT ![s] = TRUE]
        /\ UNCHANGED <<row, papers, claim, decision, request, jobs, worker, mails>>

\* reconcileNotifications(), hourly: everything untold and not claimed.
Reconcile ==
    /\ jobs' = jobs \cup {<<s, row[s].status>> : s \in {t \in Submissions : Untold(t) /\ Claimable(t)}}
    /\ UNCHANGED <<rowVars, request, noticeVars>>

WorkerStep(w) ==
    \/ \E s \in Submissions, st \in Notifiable : ClaimNotice(w, s, st)
    \/ ReadClaimed(w) \/ MailAccepted(w) \/ MailRefused(w)
    \/ RecordAccepted(w) \/ StatementFails(w) \/ ReleaseClaim(w) \/ Crash(w)

NoticeNext ==
    \/ KycNext /\ UNCHANGED noticeVars
    \/ \E w \in Workers : WorkerStep(w)
    \/ \E s \in Submissions : LeaseRunsOut(s)
    \/ Reconcile

NoticeSpec == KycInit /\ NoticeInit /\ [][NoticeNext]_vars

\* The queue is first in, first out, so a waiting job is taken in the end;
\* workers finish what they started, leases run out, the hourly job runs, and
\* SendGrid does not refuse for ever.
FairNoticeSpec ==
    /\ NoticeSpec
    /\ WF_vars(Reconcile)
    /\ \A s \in Submissions : WF_vars(LeaseRunsOut(s))
    /\ \A s \in Submissions, st \in Notifiable :
        SF_vars(\E w \in Workers : ClaimNotice(w, s, st))
    /\ \A w \in Workers :
        /\ WF_vars(ReadClaimed(w))
        /\ SF_vars(MailAccepted(w))
        /\ WF_vars(RecordAccepted(w))
        /\ WF_vars(ReleaseClaim(w))

-----------------------------------------------------------------------------
(* Properties                                                              *)

\* notified_at says the truth: SendGrid has accepted a mail about the
\* decision in force, never only about an earlier one with the same status.
NotifiedMeansMailed ==
    \A s \in Submissions :
        row[s].status \in Notifiable /\ row[s].notified => mails[s][decision[s]] > 0

\* A decision is mailed again only for a failure: a crash, a statement that
\* failed, or a worker slower than its lease.
MailedOncePerFailure ==
    \A s \in Submissions, n \in 0..MaxDecisions : mails[s][n] <= 1 + failures

\* No decision is left untold: it is notified, or another one replaces it,
\* through lost jobs, crashes and refusals.
EveryDecisionIsTold ==
    \A s \in Submissions, n \in 1..MaxDecisions :
        decision[s] = n /\ Untold(s)
            ~> decision[s] # n \/ row[s].notified \/ row[s].status = "pending"
=============================================================================
