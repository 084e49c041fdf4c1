SPECIFICATION KycSpec
CONSTANTS
  Submissions = {1, 2, 3}
  Documents = {p1, p2}
  MaxKycAttempts = 3
  Requests = {r1, r2}
  Workers = {}
  NoClaim = NoClaim
  MaxUploads = 1
  MaxDecisions = 2
SYMMETRY Interchangeable
INVARIANTS KycTypeOK OneOpenSubmission ReviewedIsComplete
CHECK_DEADLOCK FALSE
