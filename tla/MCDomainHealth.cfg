CONSTANTS
  Domains = {d}
  Events = {e}
  Runs = {r1, r2}
  Null = Null
  MaxAttempts = 2
  Critical = 0
  Warning = 1
  Term = 2
  MaxClock = 2
  MaxTrouble = 2
  MaxChanges = 1
SPECIFICATION FairSpec
INVARIANTS
  Sound
PROPERTIES
  NoAlertOfRenewed
  EveryReceiptSettles
  EveryExpiryIsTold
CHECK_DEADLOCK FALSE
