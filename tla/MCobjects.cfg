SPECIFICATION PaperSpec
CONSTANTS
  f1 = f1
  f2 = f2
  f3 = f3
  v1 = v1
  v2 = v2
  v3 = v3
  Fresh = {f1, f2, f3}
  Keys = {f1, f2, f3, v1, v2, v3}
  VerifiedKey <- MCVerifiedKey
  NoKey = NoKey
  Workers = {w1}
  MaxFailures = 1
  Submissions = {1, 2}
  Documents = {p}
INVARIANT DocumentsAreStored
PROPERTY VerifiedArePromoted
CHECK_DEADLOCK FALSE
