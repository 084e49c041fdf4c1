SPECIFICATION AssetSpec
CONSTANTS
  Keys = {k1, k2}
  Workers = {w1}
  MaxFailures = 2
  Assets = {a1}
  NoAsset = NoAsset
  NoKey = NoKey
  MaxVersion = 2
INVARIANT ShownIsStored
PROPERTY AbandonedIsCollected
CHECK_DEADLOCK FALSE
