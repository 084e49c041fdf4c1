SPECIFICATION FairNoticeSpec
CONSTANTS
  Submissions = {1}
  Documents = {p1}
  MaxKycAttempts = 3
  Requests = {r1}
  Workers = {w1, w2}
  NoClaim = NoClaim
  MaxUploads = 1
  MaxDecisions = 2
  MaxFailures = 1
INVARIANTS NotifiedMeansMailed MailedOncePerFailure
PROPERTY EveryDecisionIsTold
CHECK_DEADLOCK FALSE
