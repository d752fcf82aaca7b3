SPECIFICATION Spec
CONSTANTS
  NULL = NULL
  Days = 7
  Instants <- MCInstants
  LastFiling <- MCLastFiling
  Holidays = {4, 6, 7}
  slaResolutionDays = 4
  slaIccInquiryDays = 3
  slaOmbudspersonDays = 5
  CategorySlaDays = {NULL, 1}
  Modes = {"calendar", "working"}
CHECK_DEADLOCK FALSE
INVARIANTS DueDayIsTheNthWorkingDay VerdictsDifferOnlyHere
PROPERTY BreachStaysCounted
