SPECIFICATION PortalSpec
CONSTANTS
  NULL = NULL
  student = student  moderator = moderator  officer = officer
  ombuds = ombuds  icc = icc
  Users = {student, moderator, officer, ombuds, icc}
  UserRole <- MCUserRole
  Institution = inst
  CategoryTracks = {"sgrc", "icc"}
  MAX_ATTACHMENTS = 2
  Keys = {k1, k2}
  MaxCases = 2
  MaxEntries = 4
SYMMETRY Symmetry
CHECK_DEADLOCK FALSE
INVARIANTS SurfacesAgree ConfidencesKept TrailExplainsRow AttachmentsNameFiles NoDeadEnd
