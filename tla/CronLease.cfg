\* Ticks of 30 seconds: a minute is 2, maxDuration 60 s is 2 and the lease's 90 s
\* is 3.  The reconciler's 5 minutes are cut to maxDuration, the least the
\* assumptions allow, which lets it act as early as it may.  Under fairness, so
\* without symmetry.
CONSTANTS
  Invocations = {i1, i2, i3}
  NoOwner = NoOwner
  TicksPerMinute = 2
  MaxDuration = 2
  LeaseDuration = 3
  StaleAfter = 2
  MaxTime = 5
SPECIFICATION FairSpec
INVARIANTS
  LiveRunIsOpen
  RefusalHasRecentRival
PROPERTIES
  ClosedRunIsFinal
  RunsAreClosed
  ImplementsExclusiveJob
CHECK_DEADLOCK FALSE
