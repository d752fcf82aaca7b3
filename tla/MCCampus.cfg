SPECIFICATION FairSpec
CONSTANTS
  NULL = NULL
  a = a  b = b
  Institutions = {a, b}
  Requests = {r1, r2}
  Connections = {c1, c2}
  PublicInstitution = a
  Manuscripts <- MCManuscripts
  slugify <- MCSlugify
  Suffixes = {"ab12"}
  MAX_ATTEMPTS = 3
  Before <- MCBefore
  MaxRequests = 3
  MaxTime = 1
CHECK_DEADLOCK FALSE
INVARIANTS TenantsAreApart LinksAndVotesStand SiteIsOneStory
PROPERTY EveryRequestEnds
