CONSTANTS
  Parts = {"images", "overtaken", "releases"}
  i1 = i1
  i3 = i3
  d = d
  m1 = m1
  m3 = m3
  md = md
  a = a
  b = b
  x = x
  ta = ta
  tb = tb
  tx = tx
  NoRecord = NoRecord
  Materialized <- MCMaterialized
  ReceiptTokens <- MCReceiptTokens
  TargetSequence <- MCTargetSequence
  DshVersion <- MCDshVersion
  Authority <- MCAuthority
  Environment <- MCEnvironment
  Content <- MCContent
  Record = {i1, m1, i3, m3, d, md, b, x}
  Image = {i1, i3, d}
  Token = {tb, tx}
  EarlyRequests = FALSE
  SlowStage0 = FALSE
  MaxCrashes = 2
  MaxFaults = 0
SPECIFICATION PartsSpec
INVARIANTS
  ReceiptsSound
  CurrentSound
  DeploymentsStand
PROPERTIES
  SwitchesWhole
  AtomicSwitch
