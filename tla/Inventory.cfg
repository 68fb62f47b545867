\* One chute in two versions beside others; two changes at the validator, one failure.
SPECIFICATION FairSpec
CONSTANTS
  Chute = {c1}
  Alone = FALSE
  MaxVersion = 2
  MaxQueue = 1
  MaxAttempts = 1
  MaxChanges = 2
  MaxFaults = 1
INVARIANTS TypeOK 
PROPERTIES ChutesFollow WithdrawnUndeployed ListenerReturns
