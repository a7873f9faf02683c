\* Three requests of one key: one that leaves a record behind, one that takes it
\* over, one that overlaps either.  A request may live as long as it takes a
\* record to turn stale, the limit of LifetimeAssumption; in five ticks a record
\* expires after it was left running, or after it was claimed anew.
CONSTANTS
  Requests = {r1, r2, r3}
  Routes <- MCRoutes
  ModeOf <- MCModeOf
  Lifetime = 1
  StaleAfter = 1
  Retention = 3
  MaxTime = 5
  None = None
SPECIFICATION Spec
SYMMETRY Symmetry
INVARIANTS
  AppliedOnce
  AnswersAreChanges
CHECK_DEADLOCK FALSE
