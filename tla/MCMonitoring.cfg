\* One monitor, two runs in flight at once and configuration transactions.
\* Verdicts take one check or two, as each run finds them configured: four
\* checks open, verify, resolve and reopen incidents, and version 4 leaves room
\* for pausing, archiving, restoring and resuming between them.
CONSTANTS
  None = None
  Monitors = {m1}
  Runs = {r1, r2}
  Thresholds <- Verdicts
  MaxTime = 4
  MaxVersion = 4
SPECIFICATION Spec
SYMMETRY Symmetry
INVARIANTS
  IncidentMatchesState
  NoticesMatchIncidents
  IncidentsInOrder
  NothingToAssert
PROPERTIES
  ImplementsOutageLedger
CHECK_DEADLOCK FALSE
