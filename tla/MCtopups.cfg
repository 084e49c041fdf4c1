SPECIFICATION FairSpec
CONSTANTS
  b = b
  u = u
  v = v
  k1 = k1
  k3 = k3
  d1 = d1
  d2 = d2
  t3 = t3
  Accounts = {b, u, v}
  Campaigns = {c1}
  Collabs = {}
  Deposits = {d1, d2}
  Transfers = {t1, t2, t3}
  Withdrawals = {}
  NoTransfer = NoTransfer
  NoKey = NoKey
  TransferAmounts = {1, 2}
  Terms <- OneOrTwoSlots
  MaxVersion = 4
  Prices = {}
  MaxInFlight = 0
  WithdrawAmounts = {}
  BrandOf <- MCBrandOf
  CampaignOf <- MCCampaignOf
  CreatorOf <- MCCreatorOf
  DepositorOf <- MCDepositorOf
  CodeOf <- MCCodeOf
  RequesterOf <- MCRequesterOf
  KeyOf <- MCKeyOf
INVARIANTS ReviewedContentStands SettledByOneTransfer
PROPERTY TransferSettlesOrder
CHECK_DEADLOCK FALSE
