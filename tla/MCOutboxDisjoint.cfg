SPECIFICATION Spec
CONSTANTS
  s1 = s1  s2 = s2
  Senders = {s1, s2}
  MaxMessages = 1
  BatchLimit = 1
  MAX_ATTEMPTS = 2
  MaxFaults = 0
  MaxOutages = 0
CHECK_DEADLOCK FALSE
INVARIANT SendersTakeDisjointWork
