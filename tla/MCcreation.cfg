SPECIFICATION CreationSpec
CONSTANTS
  r1 = r1
  r2 = r2
  r3 = r3
  r4 = r4
  r5 = r5
  r6 = r6
  b1 = b1
  b2 = b2
  k1 = k1
  k2 = k2
  Requests = {r1, r2, r3, r4, r5, r6}
  Brands = {b1, b2}
  Keys = {k1, k2}
  NoKey = NoKey
  SenderOf <- MCSenderOf
  KeyOf <- MCKeyOf
  NoCampaign = NoCampaign
  Limit = 1
  MaxInFlight = 2
SYMMETRY Symmetry
INVARIANTS OneCampaignPerKey SoftLimit
CHECK_DEADLOCK FALSE
