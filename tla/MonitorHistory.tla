--------------------------- MODULE MonitorHistory ---------------------------
(***************************************************************************)
(* One monitor fed with any sequence of check results and lifecycle        *)
(* changes, its thresholds reconfigured at will, against a definition of   *)
(* "in an outage" that looks only at the results and keeps no counters.    *)
(* Its names keep clear of Monitoring's: MonitoringProofs extends both.    *)
(***************************************************************************)
EXTENDS MonitorStateMachine, Sequences, FiniteSets

CONSTANT MaxEvents  \* bound on the number of events

ASSUME HistoryAssumption == MaxEvents \in Nat

VARIABLES
  monitor,    \* the monitor_state row
  checks,     \* the checks since the last lifecycle change
  activated,  \* whether any check before those succeeded
  outage,     \* the last outage to have been resolved by recovery
  clock       \* number of events so far

historyVars == <<monitor, checks, activated, outage, clock>>

HistoryInit ==
  /\ monitor \in {NewMonitor(TRUE), NewMonitor(FALSE)}
  /\ checks = <<>>
  /\ activated = FALSE
  /\ outage = None
  /\ clock = 0

Tick == clock < MaxEvents /\ clock' = clock + 1

\* A check the state machine records; checks of a paused or archived monitor
\* leave no trace.
RecordCheck ==
  /\ Tick
  /\ monitor.state \in CheckStates
  /\ \E successful \in BOOLEAN, t \in Thresholds :
       LET transition == CheckedState(monitor, clock', successful, t[1], t[2]) IN
       /\ ~CheckThrows(monitor, successful, t[2])
       /\ monitor' = transition.next
       /\ checks' = Append(checks, [at |-> clock', successful |-> successful, thresholds |-> t])
       /\ outage' = IF transition.intent.type = "resolve"
                    THEN [openedAt |-> transition.intent.incident,
                          resolvedAt |-> transition.intent.firstSuccessAt]
                    ELSE outage
  /\ UNCHANGED activated

Lifecycle ==
  /\ Tick
  /\ \E target \in Targets :
       /\ LifecycleChanges(monitor, target)
       /\ monitor' = LifecycleState(monitor, target)
  /\ activated' = (activated \/ \E k \in DOMAIN checks : checks[k].successful)
  /\ checks' = <<>>
  /\ UNCHANGED outage

HistoryNext == RecordCheck \/ Lifecycle

HistorySpec == HistoryInit /\ [][HistoryNext]_historyVars
-----------------------------------------------------------------------------
\* The checks up to the k-th that failed, or succeeded, without interruption.
Streak(k, successful) ==
  {j \in 1 .. k : \A n \in j .. k : checks[n].successful = successful}

FirstOf(streak) == CHOOSE j \in streak : \A n \in streak : j <= n

\* The monitor has ever succeeded before its k-th check.
ActiveAt(k) == activated \/ \E j \in 1 .. k - 1 : checks[j].successful

ConfirmsOutage(k) ==
  ActiveAt(k) /\ Cardinality(Streak(k, FALSE)) >= checks[k].thresholds[1]

ConfirmsRecovery(k) == Cardinality(Streak(k, TRUE)) >= checks[k].thresholds[2]

\* The checks that confirm an outage not recovered from since.
Confirming(k) ==
  {c \in 1 .. k : ConfirmsOutage(c) /\ \A n \in c + 1 .. k : ~ConfirmsRecovery(n)}

LastCheck == Len(checks)
InOutage == Confirming(LastCheck) # {}

\* The state machine's counters come to what the history says: a monitor is
\* down exactly when some check confirmed an outage and none since confirmed a
\* recovery, whatever the thresholds were at each.
VerdictMatchesHistory ==
  monitor.state \in CheckStates => (monitor.state \in DownStates <=> InOutage)

\* An outage is dated from the first failure of the streak that confirmed it.
OutageStart ==
  InOutage =>
    LET c == FirstOf(Confirming(LastCheck))
    IN  monitor.activeIncident = checks[FirstOf(Streak(c, FALSE))].at

\* A recovery is dated from the first success of the streak that confirmed it,
\* and follows the outage it ends.
OutageEnd ==
  [][outage' # outage =>
       /\ outage'.openedAt = monitor.activeIncident
       /\ outage'.openedAt < outage'.resolvedAt
       /\ outage'.resolvedAt = checks'[FirstOf(Streak(LastCheck, TRUE)')].at]_historyVars
=============================================================================
