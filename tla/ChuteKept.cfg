\* The instance of Inventory.cfg, without fairness.
SPECIFICATION Spec
CONSTANTS
  Chute = {c1}
  Alone = FALSE
  MaxVersion = 2
  MaxQueue = 1
  MaxAttempts = 1
  MaxChanges = 2
  MaxFaults = 1
PROPERTIES ChuteKept
