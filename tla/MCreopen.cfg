SPECIFICATION KycSpec
CONSTANTS
  Submissions = {1, 2, 3}
  Documents = {p1}
  MaxKycAttempts = 3
  Requests = {r1}
  Workers = {}
  NoClaim = NoClaim
  MaxUploads = 1
  MaxDecisions = 2
INVARIANT OpenSubmissionIsLatest
CHECK_DEADLOCK FALSE
