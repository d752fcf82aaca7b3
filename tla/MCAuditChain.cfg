SPECIFICATION TrailSpec
CONSTANTS
  None = None
  Contents = {"filed", "decided"}
  Texts <- WithEmpty
  Visibilities = {"public", "internal"}
  MaxEvents = 3
CHECK_DEADLOCK FALSE
INVARIANTS HonestChainVerifies TamperingIsPlaced
