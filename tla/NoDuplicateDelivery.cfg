\* One drain, one notice and no trouble at all: a send that times out is enough.
CONSTANTS
  Notices = {n1}
  Drains = {d1}
  None = None
  MaxAttempts = 2
  RetryDelay <- Delays
  StaleAfter = 1
  Window = 4
  Margin = 1
  MaxTrouble = 0
SPECIFICATION FairSpec
INVARIANTS
  NoDuplicateDelivery
CHECK_DEADLOCK FALSE
