SPECIFICATION Spec
CONSTANTS
  NULL = NULL
  r1 = r1  r2 = r2  c1 = c1  c2 = c2
  officer = officer  registrar = registrar  ombuds = ombuds
  Runners = {r1}
  Cases = {c1}
  CaseTrack <- Icc
  DueDay <- Together
  Assignee <- MCAssignee
  Users = {officer, registrar, ombuds}
  UserRole <- MCUserRole
  MaxDay = 1
  MaxHumanEvents = 0
  MaxDeaths = 0
  MAX_EVENT_ATTEMPTS = 2
CHECK_DEADLOCK FALSE
INVARIANT MailRespectsTracks
