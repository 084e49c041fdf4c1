SPECIFICATION Spec
CONSTANTS
  b = b
  u = u
  v = v
  k1 = k1
  k3 = k3
  d1 = d1
  d2 = d2
  t3 = t3
  Accounts = {b, u, v}
  Campaigns = {c1}
  Collabs = {k1, k2}
  Deposits = {d1}
  Transfers = {t1}
  Withdrawals = {}
  NoTransfer = NoTransfer
  NoKey = NoKey
  TransferAmounts = {2}
  Terms <- OneSlot
  MaxVersion = 2
  Prices = {2}
  MaxInFlight = 2
  WithdrawAmounts = {}
  BrandOf <- MCBrandOf
  CampaignOf <- MCCampaignOf
  CreatorOf <- MCCreatorOf
  DepositorOf <- MCDepositorOf
  CodeOf <- MCCodeOf
  RequesterOf <- MCRequesterOf
  KeyOf <- MCKeyOf
SYMMETRY SameCreator
INVARIANTS PaidAsStatusSays StalePriceOnlyWhilePending OneOpenPerPair TimestampsTell
PROPERTY PriceAndPaymentFinal
CHECK_DEADLOCK FALSE
