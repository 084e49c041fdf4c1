SPECIFICATION Spec
CONSTANTS
  b = b
  u = u
  v = v
  k1 = k1
  k3 = k3
  d1 = d1
  d2 = d2
  t3 = t3
  Accounts = {b, u, v}
  Campaigns = {c1}
  Collabs = {k1, k3}
  Deposits = {d1}
  Transfers = {t1}
  Withdrawals = {w1, w2}
  NoTransfer = NoTransfer
  NoKey = NoKey
  TransferAmounts = {2, 3}
  Terms <- OneSlot
  MaxVersion = 2
  Prices = {2}
  MaxInFlight = 1
  WithdrawAmounts = {1}
  BrandOf <- MCBrandOf
  CampaignOf <- MCCampaignOf
  CreatorOf <- MCCreatorOf
  DepositorOf <- MCDepositorOf
  CodeOf <- MCCodeOf
  RequesterOf <- MCRequesterOf
  KeyOf <- MCKeyOf
SYMMETRY EitherCreator
INVARIANTS TypeOK LedgerExplainsBalances MoneyConserved OneOrderPerKey LockedIsPendingOrders
PROPERTY KeepsCustody
CHECK_DEADLOCK FALSE
