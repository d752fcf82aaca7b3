SPECIFICATION Spec
CHECK_DEADLOCK FALSE
CONSTANTS
  admin = admin
  officer = officer
  address = address
  r1 = r1
  r2 = r2
  Keys <- MCKeys
  Limit <- MCLimit
  Requests = {r1, r2}
  Accounts <- MCAccounts
  Addresses = {address}
  Admin = admin
  WINDOW = 2
  SWEEP_THRESHOLD = 1
  MaxTime = 4
  SESSION_TTL = 2
  Bounds <- MCBounds
SYMMETRY Symmetry
INVARIANTS
  AttemptsAreBudgeted
  DeactivationTakesHold
PROPERTY
  ImplementsBudget
