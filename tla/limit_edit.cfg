SPECIFICATION LimitsSpec
CONSTANTS
  r1 = r1
  r2 = r2
  r3 = r3
  Requests = {r1, r2, r3}
  Configs <- Edits
  MaxAttempts = 2
  MaxEdits = 2
INVARIANTS
  InFlightCarriedOver
  KeptWindowKeepsCharges
  OneConfigurationInForce
CHECK_DEADLOCK FALSE
