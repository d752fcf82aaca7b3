SPECIFICATION Spec
CONSTANTS
  NULL = NULL
  MIN_CELL_SIZE = 2
  QUEUE_SCAN_CAP = 3
  PATTERN_SCAN_LIMIT = 5
  MIN_CLUSTER_SIZE = 2
  PATTERN_LIMIT = 1
  MonthLength = 30
  YearLength = 365
  LegacyUsers <- MCLegacyUsers
  LegacyAdmins <- MCLegacyAdmins
  LegacyCats <- MCLegacyCats
  LegacySubcats <- MCLegacySubcats
  LegacyComplaints <- MCLegacyComplaints
  LegacyRemarks <- MCLegacyRemarks
  Plan <- MCPlan
  SeedLeaves <- MCSeedLeaves
  SeedAccounts <- MCSeedAccounts
  BurstSize = 3
  Words <- MCWords
  Importers = {i1, i2}
  Accounts0 = {"ravi"}
  SlaResolutionDays = 5
  SlaIccInquiryDays = 9
  SlaOmbudspersonDays = 7
  Instants <- MCInstants
  MaxImports = 2
  MaxFiled = 1
  MaxDecisions = 2
  Filers = {"ravi"}
  FiledUnder = {"room", "posh", "exams"}
SYMMETRY Symmetry
CHECK_DEADLOCK FALSE
INVARIANTS LoadsAreWhole LegacyCasesAreThemselves FilingIsNeverStuck LegacyIsOffTheClock FiguresAreHonest PatternsAreComponents
