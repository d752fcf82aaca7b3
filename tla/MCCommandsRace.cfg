SPECIFICATION Spec
CONSTANTS
  NULL = NULL
  Tx = {t1, t2, t3}
  student = student  moderator = moderator  officer = officer  officer2 = officer2
  ombuds = ombuds  icc = icc  registrar = registrar
  Users = {student, moderator, ombuds, icc}
  UserRole <- MCUserRole
  Institution = inst
  CategoryTracks = {"sgrc", "icc"}
  Anonymity = {TRUE, FALSE}
  Ops = {"submit", "transition", "assign", "remark", "attach"}
  MAX_EVENT_ATTEMPTS = 2
  MAX_ATTEMPTS = 2
  MaxGrievances = 1
  MaxEvents = 4
SYMMETRY Symmetry
CHECK_DEADLOCK FALSE
INVARIANTS ChainVerifies RowsAreProjections NoWaitCycle OutboxMatchesHistory
PROPERTY ImplementsLifecycle
