SPECIFICATION ProxyTabSpec
CONSTANTS
  Switches = {w1, w2}
  MaxEdits = 3
  MaxElsewhere = 0
  MaxErrors = 0
INVARIANT SwitchesKept
CHECK_DEADLOCK FALSE
