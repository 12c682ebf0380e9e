CONSTANTS
  Parts = {"images"}
  i1 = i1
  i3 = i3
  d = d
  m1 = m1
  m3 = m3
  md = md
  a = a
  b = b
  x = x
  ta = ta
  tb = tb
  tx = tx
  NoRecord = NoRecord
  Materialized <- MCMaterialized
  ReceiptTokens <- MCReceiptTokens
  TargetSequence <- MCTargetSequence
  DshVersion <- MCDshVersion
  Authority <- MCAuthority
  Environment <- MCEnvironment
  Content <- MCContent
  Record = {i1, m1, a, b}
  Image = {i1}
  Token = {ta, tb}
  EarlyRequests = FALSE
  SlowStage0 = FALSE
  MaxCrashes = 1
  MaxFaults = 0
SPECIFICATION PartsSpec
INVARIANT PreviousRestorable
