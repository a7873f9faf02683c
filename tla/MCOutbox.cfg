\* Two drains on one notice.  Three attempts and three troubles let a claim go
\* stale, be retried and go stale again; a claim of age 2 or 3 is retried, one
\* of age 4 or 5 is given up.  Under fairness, so without symmetry.
CONSTANTS
  Notices = {n1}
  Drains = {d1, d2}
  None = None
  MaxAttempts = 3
  RetryDelay <- Delays
  StaleAfter = 1
  Window = 5
  Margin = 1
  MaxTrouble = 3
SPECIFICATION FairSpec
INVARIANTS
  SentWasAccepted
  AttemptsBounded
  OneDrainPerNotice
PROPERTIES
  EveryNoticeSettles
  OutcomeIsFinal
  FirstRetryIsSafe
CHECK_DEADLOCK FALSE
