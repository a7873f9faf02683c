------------------------ MODULE MonitorStateMachine ------------------------
(***************************************************************************)
(* The transition functions of one monitor: transitionMonitor              *)
(* (lib/monitoring/state-machine.ts) and transitionLifecycle               *)
(* (lib/scheduler/lifecycle.ts), on the fields of a monitor_state row that *)
(* decide anything.  An incident's id is deterministic in its monitor and  *)
(* firstFailureAt, so within a monitor that time stands for the id.        *)
(***************************************************************************)
EXTENDS Integers

CONSTANTS
  None,       \* SQL null
  Thresholds  \* failure and recovery thresholds a configuration may set

ASSUME NoneAssumption == None \notin Nat
ASSUME ThresholdsAssumption ==
  Thresholds # {} /\ Thresholds \subseteq (Nat \ {0}) \X (Nat \ {0})

CheckStates     == {"PENDING", "UP", "VERIFYING_DOWN", "DOWN", "VERIFYING_UP"}
LifecycleStates == {"PAUSED", "ARCHIVED"}
DownStates      == {"DOWN", "VERIFYING_UP"}

Time == Nat \cup {None}

MonitorState ==
  [state                : CheckStates \cup LifecycleStates,
   consecutiveFailures  : Nat,
   consecutiveSuccesses : Nat,
   activatedAt          : Time,
   firstFailureAt       : Time,
   firstSuccessAt       : Time,
   activeIncident       : Time,
   version              : Nat]

\* The row synchronizeRegistry inserts for a monitor it has not seen.
NewMonitor(enabled) ==
  [state                |-> IF enabled THEN "PENDING" ELSE "PAUSED",
   consecutiveFailures  |-> 0,
   consecutiveSuccesses |-> 0,
   activatedAt          |-> None,
   firstFailureAt       |-> None,
   firstSuccessAt       |-> None,
   activeIncident       |-> None,
   version              |-> 0]

\* The incident a transition opens or resolves, NoIntent if none.
NoIntent == [type |-> "none"]
Open(t)  == [type |-> "open", firstFailureAt |-> t]
Resolve(id, t) == [type |-> "resolve", incident |-> id, firstSuccessAt |-> t]

Outcome(next, intent) == [next |-> next, intent |-> intent]

\* Fields every recorded check sets.
Checked(cur) == [cur EXCEPT !.version = @ + 1]

\* A success outside an outage ends the setup phase and any doubt.
SuccessWhileUp(cur, at) ==
  [Checked(cur) EXCEPT !.state = "UP",
                       !.consecutiveFailures = 0,
                       !.consecutiveSuccesses = 0,
                       !.activatedAt = IF @ = None THEN at ELSE @,
                       !.firstFailureAt = None,
                       !.firstSuccessAt = None]

Successes(cur) ==
  IF cur.state = "VERIFYING_UP" THEN cur.consecutiveSuccesses + 1 ELSE 1
\* Mutant: the recovery is dated from its latest success.
FirstSuccess_Latest(cur, at) == at

FirstSuccess(cur, at) ==
  IF cur.state = "VERIFYING_UP" /\ cur.firstSuccessAt # None
  THEN cur.firstSuccessAt ELSE at

\* A success in an outage that the recovery threshold does not confirm yet.
RecoveryProgress(cur, at) ==
  [Checked(cur) EXCEPT !.state = "VERIFYING_UP",
                       !.consecutiveFailures = 0,
                       !.consecutiveSuccesses = Successes(cur),
                       !.activatedAt = IF @ = None THEN at ELSE @,
                       !.firstSuccessAt = FirstSuccess(cur, at)]

\* The success that confirms a recovery throws unless the row knows its
\* incident and when the outage began.
RecoveryThrows(cur) == cur.activeIncident = None \/ cur.firstFailureAt = None

Recovered(cur, at) ==
  [SuccessWhileUp(cur, at) EXCEPT !.activeIncident = None]

\* Mutant: a failure in an outage forgets when the outage began.
StillDown_ForgetsStart(cur, failureThreshold) ==
  [Checked(cur) EXCEPT !.state = "DOWN",
                       !.consecutiveFailures = failureThreshold,
                       !.consecutiveSuccesses = 0,
                       !.firstFailureAt = None,
                       !.firstSuccessAt = None]

\* A failure in an outage.
StillDown(cur, failureThreshold) ==
  [Checked(cur) EXCEPT !.state = "DOWN",
                       !.consecutiveFailures = IF @ < failureThreshold THEN failureThreshold ELSE @,
                       !.consecutiveSuccesses = 0,
                       !.firstSuccessAt = None]

\* Mutant: the failures of a pending monitor are not counted up.
Counting_VerifyingOnly(cur) == cur.state = "VERIFYING_DOWN"

Counting(cur) == cur.state \in {"VERIFYING_DOWN", "PENDING"}
Failures(cur) == IF Counting(cur) THEN cur.consecutiveFailures + 1 ELSE 1
\* Mutant: the outage is dated from its latest failure.
FirstFailure_Latest(cur, at) == at

FirstFailure(cur, at) ==
  IF Counting(cur) /\ cur.firstFailureAt # None THEN cur.firstFailureAt ELSE at

\* A failure outside an outage leads to state; only DOWN opens an incident.
Failed(cur, at, state) ==
  [Checked(cur) EXCEPT !.state = state,
                       !.consecutiveFailures = Failures(cur),
                       !.consecutiveSuccesses = 0,
                       !.firstFailureAt = FirstFailure(cur, at),
                       !.firstSuccessAt = None]

InSetup(cur) == cur.state = "PENDING" /\ cur.activatedAt = None

CheckThrows(cur, successful, recoveryThreshold) ==
  /\ cur.state \in DownStates
  /\ successful
  /\ Successes(cur) >= recoveryThreshold
  /\ RecoveryThrows(cur)

SuccessOutcome(cur, at, recoveryThreshold) ==
  CASE cur.state \notin DownStates ->
         Outcome(SuccessWhileUp(cur, at), NoIntent)
    [] cur.state \in DownStates /\ Successes(cur) < recoveryThreshold ->
         Outcome(RecoveryProgress(cur, at), NoIntent)
    [] OTHER ->
         Outcome(Recovered(cur, at), Resolve(cur.activeIncident, FirstSuccess(cur, at)))

\* The caller stores the id it derives from firstFailureAt as activeIncidentId.
OpenIncident(cur, at) ==
  LET t == FirstFailure(cur, at)
  IN  Outcome([Failed(cur, at, "DOWN") EXCEPT !.activeIncident = t], Open(t))

FailureOutcome(cur, at, failureThreshold) ==
  CASE cur.state \in DownStates ->
         Outcome(StillDown(cur, failureThreshold), NoIntent)
    [] cur.state = "PENDING" /\ (Failures(cur) < failureThreshold \/ InSetup(cur)) ->
         Outcome(Failed(cur, at, "PENDING"), NoIntent)
    [] cur.state \in {"UP", "VERIFYING_DOWN"} /\ Failures(cur) < failureThreshold ->
         Outcome(Failed(cur, at, "VERIFYING_DOWN"), NoIntent)
    [] OTHER ->
         OpenIncident(cur, at)

\* checkedState, for an event that does not throw.
CheckedState(cur, at, successful, failureThreshold, recoveryThreshold) ==
  IF cur.state \notin CheckStates THEN Outcome(cur, NoIntent)
  ELSE IF successful THEN SuccessOutcome(cur, at, recoveryThreshold)
  ELSE FailureOutcome(cur, at, failureThreshold)
-----------------------------------------------------------------------------
Targets == {"ACTIVE", "PAUSED", "ARCHIVED"}

\* The state a lifecycle target asks of a row in state s: disable, archive,
\* enable and restore of transitionMonitor, composed by transitionLifecycle.
TargetState(s, target) ==
  CASE target = "ARCHIVED" -> "ARCHIVED"
    [] target = "PAUSED"   -> "PAUSED"
    [] target = "ACTIVE"   -> IF s \in LifecycleStates THEN "PENDING" ELSE s

\* Each of those events that changes the state adds one to the version;
\* pausing an archived monitor restores it first.
LifecycleSteps(s, target) ==
  IF target = "PAUSED" /\ s = "ARCHIVED" THEN 2
  ELSE IF TargetState(s, target) # s THEN 1 ELSE 0

NeedsCleanup(cur) ==
  \/ cur.activeIncident # None
  \/ cur.consecutiveFailures # 0 \/ cur.consecutiveSuccesses # 0
  \/ cur.firstFailureAt # None \/ cur.firstSuccessAt # None

VersionSteps(cur, target) ==
  IF LifecycleSteps(cur.state, target) = 0 /\ target # "ACTIVE" /\ NeedsCleanup(cur)
  THEN 1 ELSE LifecycleSteps(cur.state, target)

LifecycleChanges(cur, target) == VersionSteps(cur, target) > 0

LifecycleState(cur, target) ==
  IF LifecycleChanges(cur, target)
  THEN [cur EXCEPT !.state = TargetState(cur.state, target),
                   !.consecutiveFailures = 0,
                   !.consecutiveSuccesses = 0,
                   !.firstFailureAt = None,
                   !.firstSuccessAt = None,
                   !.activeIncident = None,
                   !.version = @ + VersionSteps(cur, target)]
  ELSE cur

\* The incident a lifecycle change resolves.
LifecycleResolves(cur, target) ==
  LifecycleChanges(cur, target) /\ cur.activeIncident # None
=============================================================================
