SPECIFICATION FairSpec
CONSTANTS
  NULL = NULL
  r1 = r1  r2 = r2  c1 = c1  c2 = c2
  officer = officer  registrar = registrar  ombuds = ombuds
  Runners = {r1, r2}
  Cases = {c1, c2}
  CaseTrack <- General
  DueDay <- Together
  Assignee <- MCAssignee
  Users = {officer, registrar, ombuds}
  UserRole <- MCUserRole
  MaxDay = 2
  MaxHumanEvents = 1
  MaxDeaths = 1
  MAX_EVENT_ATTEMPTS = 2
CHECK_DEADLOCK FALSE
INVARIANTS FlagsAndMailsAgree FlagsAreBounded
PROPERTIES EveryBreachIsFlagged EverySweepEnds
