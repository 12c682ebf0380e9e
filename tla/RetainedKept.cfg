SPECIFICATION SystemPluginsSpec
CONSTANTS
  Plugins = {x1, x2}
  Down = Down
  MaxApplies = 2
  MaxTrouble = 2
  MaxOutside = 1
PROPERTY RetainedKept
CHECK_DEADLOCK FALSE
