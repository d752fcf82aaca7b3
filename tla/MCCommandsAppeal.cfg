SPECIFICATION FairSpec
CONSTANTS
  NULL = NULL
  Tx = {t1, t2}
  student = student  moderator = moderator  officer = officer  officer2 = officer2
  ombuds = ombuds  icc = icc  registrar = registrar
  Users = {student, officer}
  UserRole <- MCUserRole
  Institution = inst
  CategoryTracks = {"sgrc"}
  Anonymity = {FALSE}
  Ops = {"submit", "transition", "close", "appeal"}
  MAX_EVENT_ATTEMPTS = 2
  MAX_ATTEMPTS = 2
  MaxGrievances = 3
  MaxEvents = 6
CHECK_DEADLOCK FALSE
INVARIANTS TypeOK AppealsArePaired
PROPERTIES ImplementsLifecycle EveryCommandEnds
