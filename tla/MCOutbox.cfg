SPECIFICATION RepairedSpec
CONSTANTS
  s1 = s1  s2 = s2
  Senders = {s1, s2}
  MaxMessages = 2
  BatchLimit = 2
  MAX_ATTEMPTS = 2
  MaxFaults = 1
  MaxOutages = 1
CHECK_DEADLOCK FALSE
INVARIANTS SentWasAccepted DuplicatesHaveACause
PROPERTIES SettledIsFinal EveryMessageSettles
