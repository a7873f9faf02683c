-------------------------- MODULE MonitoringProofs --------------------------
(* Proofs about Monitoring, for any monitors, overlapping runs, thresholds  *)
(* and bounds; and, from the section on History on, about MonitorHistory,   *)
(* for any thresholds and any number of events.  The two share the lemmas   *)
(* about the state machine and nothing else.                                *)
EXTENDS Monitoring, MonitorHistory, FiniteSetTheorems, TLAPS

USE DEF CheckStates, LifecycleStates, DownStates, Time

\* A row in an outage names the incident of its first failure; no other row
\* names any.
RowSound(s) ==
  /\ s.state \in DownStates <=> s.activeIncident # None
  /\ s.state \in DownStates => s.firstFailureAt # None /\ s.activeIncident = s.firstFailureAt

LEMMA CheckedFacts ==
  ASSUME NEW cur \in MonitorState
  PROVE  /\ Checked(cur) \in MonitorState
         /\ Checked(cur).version = cur.version + 1
         /\ Checked(cur).activatedAt = cur.activatedAt
         /\ Checked(cur).firstFailureAt = cur.firstFailureAt
         /\ Checked(cur).activeIncident = cur.activeIncident
         /\ Checked(cur).consecutiveFailures = cur.consecutiveFailures
BY DEF Checked, MonitorState

LEMMA SuccessWhileUpFacts ==
  ASSUME NEW cur \in MonitorState, NEW at \in Nat
  PROVE  /\ SuccessWhileUp(cur, at) \in MonitorState
         /\ SuccessWhileUp(cur, at).version = cur.version + 1
         /\ SuccessWhileUp(cur, at).state = "UP"
         /\ SuccessWhileUp(cur, at).activatedAt # None
         /\ SuccessWhileUp(cur, at).activeIncident = cur.activeIncident
<1>a. PICK c : c = Checked(cur)
  OBVIOUS
<1>b. PICK a : a = IF c.activatedAt = None THEN at ELSE c.activatedAt
  OBVIOUS
<1>c. PICK r : r = SuccessWhileUp(cur, at)
  OBVIOUS
<1>1. /\ c \in MonitorState
      /\ c.version = cur.version + 1
      /\ c.activeIncident = cur.activeIncident
  BY <1>a, CheckedFacts
<1>2. a \in Time /\ a # None
  BY <1>1, <1>b, NoneAssumption DEF MonitorState, Time
<1>3. r = [c EXCEPT !.state = "UP", !.consecutiveFailures = 0, !.consecutiveSuccesses = 0,
                    !.activatedAt = a, !.firstFailureAt = None, !.firstSuccessAt = None]
  BY <1>a, <1>b, <1>c DEF SuccessWhileUp
<1>4. r \in MonitorState
  BY <1>1, <1>2, <1>3 DEF MonitorState, Time
<1>5. /\ r.version = c.version /\ r.state = "UP"
      /\ r.activatedAt = a /\ r.activeIncident = c.activeIncident
  BY <1>1, <1>3 DEF MonitorState
<1> QED
  BY <1>1, <1>2, <1>4, <1>5, <1>c

LEMMA RecoveryFacts ==
  ASSUME NEW cur \in MonitorState, cur.state \in DownStates, NEW at \in Nat
  PROVE  /\ FirstSuccess(cur, at) \in Nat
         /\ RecoveryProgress(cur, at) \in MonitorState
         /\ RecoveryProgress(cur, at).version = cur.version + 1
         /\ RecoveryProgress(cur, at).state = "VERIFYING_UP"
         /\ RecoveryProgress(cur, at).consecutiveSuccesses = Successes(cur)
         /\ RecoveryProgress(cur, at).activatedAt # None
         /\ RecoveryProgress(cur, at).firstFailureAt = cur.firstFailureAt
         /\ RecoveryProgress(cur, at).activeIncident = cur.activeIncident
         /\ RecoveryProgress(cur, at).firstSuccessAt = FirstSuccess(cur, at)
         /\ Recovered(cur, at) \in MonitorState
         /\ Recovered(cur, at).version = cur.version + 1
         /\ Recovered(cur, at).state = "UP"
         /\ Recovered(cur, at).activatedAt # None
         /\ Recovered(cur, at).activeIncident = None
<1>1. FirstSuccess(cur, at) \in Nat
  BY DEF FirstSuccess, MonitorState
<1>2. Successes(cur) \in Nat
  BY DEF Successes, MonitorState
<1>3. /\ RecoveryProgress(cur, at) \in MonitorState
      /\ RecoveryProgress(cur, at).version = cur.version + 1
      /\ RecoveryProgress(cur, at).state = "VERIFYING_UP"
      /\ RecoveryProgress(cur, at).consecutiveSuccesses = Successes(cur)
      /\ RecoveryProgress(cur, at).activatedAt # None
      /\ RecoveryProgress(cur, at).firstFailureAt = cur.firstFailureAt
      /\ RecoveryProgress(cur, at).activeIncident = cur.activeIncident
      /\ RecoveryProgress(cur, at).firstSuccessAt = FirstSuccess(cur, at)
  <2>a. PICK c : c = Checked(cur)
    OBVIOUS
  <2>b. PICK activation : activation = IF c.activatedAt = None THEN at ELSE c.activatedAt
    OBVIOUS
  <2>c. PICK first : first = FirstSuccess(cur, at)
    OBVIOUS
  <2>d. PICK count : count = Successes(cur)
    OBVIOUS
  <2>e. PICK row : row = RecoveryProgress(cur, at)
    OBVIOUS
  <2>1. /\ c \in MonitorState /\ c.version = cur.version + 1
        /\ c.firstFailureAt = cur.firstFailureAt /\ c.activeIncident = cur.activeIncident
    BY <2>a, CheckedFacts
  <2>2. activation \in Time /\ activation # None /\ first \in Nat /\ count \in Nat
    BY <1>1, <1>2, <2>1, <2>b, <2>c, <2>d, NoneAssumption DEF MonitorState
  <2>3. row = [c EXCEPT !.state = "VERIFYING_UP",
                        !.consecutiveFailures = 0,
                        !.consecutiveSuccesses = count,
                        !.activatedAt = activation,
                        !.firstSuccessAt = first]
    BY <2>a, <2>b, <2>c, <2>d, <2>e DEF RecoveryProgress
  <2>4. row \in MonitorState
    BY <2>1, <2>2, <2>3 DEF MonitorState
  <2>5. /\ row.version = c.version
        /\ row.state = "VERIFYING_UP"
        /\ row.consecutiveSuccesses = count
        /\ row.activatedAt = activation
        /\ row.firstFailureAt = c.firstFailureAt
        /\ row.activeIncident = c.activeIncident
        /\ row.firstSuccessAt = first
    BY <2>1, <2>2, <2>3 DEF MonitorState
  <2> QED
    BY <2>1, <2>2, <2>4, <2>5, <2>c, <2>d, <2>e
<1>4. /\ Recovered(cur, at) \in MonitorState
      /\ Recovered(cur, at).version = cur.version + 1
      /\ Recovered(cur, at).state = "UP"
      /\ Recovered(cur, at).activatedAt # None
      /\ Recovered(cur, at).activeIncident = None
  BY SuccessWhileUpFacts DEF Recovered, MonitorState
<1> QED
  BY <1>1, <1>3, <1>4

LEMMA StillDownFacts ==
  ASSUME NEW cur \in MonitorState, NEW ft \in Nat
  PROVE  /\ StillDown(cur, ft) \in MonitorState
         /\ StillDown(cur, ft).version = cur.version + 1
         /\ StillDown(cur, ft).state = "DOWN"
         /\ StillDown(cur, ft).activatedAt = cur.activatedAt
         /\ StillDown(cur, ft).firstFailureAt = cur.firstFailureAt
         /\ StillDown(cur, ft).activeIncident = cur.activeIncident
BY CheckedFacts DEF StillDown, MonitorState

LEMMA FailedFacts ==
  ASSUME NEW cur \in MonitorState, NEW at \in Nat, NEW s \in CheckStates
  PROVE  /\ FirstFailure(cur, at) \in Nat
         /\ \/ FirstFailure(cur, at) = at
            \/ Counting(cur) /\ FirstFailure(cur, at) = cur.firstFailureAt
         /\ Failed(cur, at, s) \in MonitorState
         /\ Failed(cur, at, s).version = cur.version + 1
         /\ Failed(cur, at, s).state = s
         /\ Failed(cur, at, s).consecutiveFailures = Failures(cur)
         /\ Failed(cur, at, s).activatedAt = cur.activatedAt
         /\ Failed(cur, at, s).firstFailureAt = FirstFailure(cur, at)
         /\ Failed(cur, at, s).activeIncident = cur.activeIncident
<1>1. /\ FirstFailure(cur, at) \in Nat
      /\ \/ FirstFailure(cur, at) = at
         \/ Counting(cur) /\ FirstFailure(cur, at) = cur.firstFailureAt
  BY DEF FirstFailure, Counting, MonitorState, Time
<1>2. Failures(cur) \in Nat
  BY DEF Failures, Counting, MonitorState
<1>a. PICK c : c = Checked(cur)
  OBVIOUS
<1>b. PICK n : n = Failures(cur)
  OBVIOUS
<1>c. PICK f : f = FirstFailure(cur, at)
  OBVIOUS
<1>d. PICK r : r = Failed(cur, at, s)
  OBVIOUS
<1>3. /\ c \in MonitorState /\ c.version = cur.version + 1
      /\ c.activatedAt = cur.activatedAt /\ c.activeIncident = cur.activeIncident
  BY CheckedFacts, <1>a
<1>4. r =
        [c EXCEPT !.state = s, !.consecutiveFailures = n, !.consecutiveSuccesses = 0,
                  !.firstFailureAt = f, !.firstSuccessAt = None]
  BY <1>a, <1>b, <1>c, <1>d DEF Failed
<1>5. f \in Nat /\ n \in Nat
  BY <1>1, <1>2, <1>b, <1>c
<1>6. r \in MonitorState
  BY <1>3, <1>4, <1>5 DEF MonitorState, Time
<1>7. /\ r.version = c.version
      /\ r.state = s
      /\ r.consecutiveFailures = n
      /\ r.activatedAt = c.activatedAt
      /\ r.firstFailureAt = f
      /\ r.activeIncident = c.activeIncident
  BY <1>3, <1>4, <1>5 DEF MonitorState
<1> QED
  BY <1>1, <1>3, <1>6, <1>7, <1>b, <1>c, <1>d

\* What one recorded check does to a row: it keeps the row sound, and opens or
\* resolves the incident the row then gains or loses.
KeepsIncident(cur, o) ==
  o.intent.type = "none" /\ o.next.activeIncident = cur.activeIncident
OpensIncident(cur, at, o) ==
  /\ o.intent.type = "open"
  /\ cur.activeIncident = None
  /\ o.intent.firstFailureAt = FirstFailure(cur, at)
  /\ o.next.activeIncident = FirstFailure(cur, at)
ResolvesIncident(cur, at, o) ==
  /\ o.intent.type = "resolve"
  /\ cur.state \in DownStates
  /\ o.intent.incident = cur.activeIncident
  /\ o.intent.firstSuccessAt = FirstSuccess(cur, at)
  /\ o.next.activeIncident = None
  /\ o.next.state = "UP"

\* A row that counts failures dates them from this check or keeps their date.
FailureDated(cur, at, next) ==
  Counting(next) =>
    \/ next.firstFailureAt \in {None, at}
    \/ Counting(cur) /\ next.firstFailureAt = cur.firstFailureAt
SuccessDated(cur, at, next) ==
  next.state = "VERIFYING_UP" =>
    next.firstSuccessAt = FirstSuccess(cur, at) /\ cur.state \in DownStates

CheckEffect(cur, at, o) ==
  /\ o.next \in MonitorState
  /\ o.next.version = cur.version + 1
  /\ o.next.state \in CheckStates
  /\ RowSound(o.next)
  /\ KeepsIncident(cur, o) \/ OpensIncident(cur, at, o) \/ ResolvesIncident(cur, at, o)
  /\ FailureDated(cur, at, o.next)
  /\ SuccessDated(cur, at, o.next)

LEMMA UndecidedFacts ==
  ASSUME NEW cur \in MonitorState, RowSound(cur), cur.state \notin DownStates,
         NEW at \in Nat, NEW s \in {"PENDING", "VERIFYING_DOWN"}
  PROVE  CheckEffect(cur, at, Outcome(Failed(cur, at, s), NoIntent))
<1>a. PICK f : f = Failed(cur, at, s)
  OBVIOUS
<1>b. PICK t : t = FirstFailure(cur, at)
  OBVIOUS
<1>1. s \in CheckStates
  OBVIOUS
<1>2. cur.activeIncident = None
  BY DEF RowSound
<1>3. f \in MonitorState /\ f.version = cur.version + 1 /\ f.state = s
  BY <1>a, <1>1, FailedFacts
<1>4. f.firstFailureAt = t /\ f.activeIncident = None
  BY <1>a, <1>b, <1>1, <1>2, FailedFacts
<1>5. t = at \/ (Counting(cur) /\ t = cur.firstFailureAt)
  BY <1>b, <1>1, FailedFacts
<1>c. PICK o : o = Outcome(Failed(cur, at, s), NoIntent)
  OBVIOUS
<1>6. o.next = f /\ o.intent.type = "none"
  BY <1>a, <1>c DEF Outcome, NoIntent
<1>7. RowSound(o.next) /\ KeepsIncident(cur, o)
  BY <1>2, <1>3, <1>4, <1>6 DEF RowSound, KeepsIncident
<1>8. FailureDated(cur, at, o.next) /\ SuccessDated(cur, at, o.next)
  BY <1>3, <1>4, <1>5, <1>6 DEF FailureDated, SuccessDated
<1> QED
  BY <1>c, <1>1, <1>3, <1>6, <1>7, <1>8 DEF CheckEffect

LEMMA CheckedStateFacts ==
  ASSUME NEW cur \in MonitorState, RowSound(cur), cur.state \in CheckStates,
         NEW at \in Nat, NEW ok \in BOOLEAN,
         NEW ft \in Nat \ {0}, NEW rt \in Nat \ {0},
         ~CheckThrows(cur, ok, rt)
  PROVE  CheckEffect(cur, at, CheckedState(cur, at, ok, ft, rt))
<1> DEFINE o == CheckedState(cur, at, ok, ft, rt)
<1> USE NoneAssumption
<1> USE DEF RowSound, Outcome, NoIntent, CheckEffect, KeepsIncident, FailureDated, SuccessDated
<1>0. SUFFICES CheckEffect(cur, at, o)
  OBVIOUS
<1>1. CASE ok /\ cur.state \notin DownStates
  <2>1. o = Outcome(SuccessWhileUp(cur, at), NoIntent)
    BY <1>1 DEF CheckedState, SuccessOutcome
  <2> HIDE DEF o
  <2> QED
    BY <2>1, <1>1, SuccessWhileUpFacts DEF Counting
<1>2. CASE ok /\ cur.state \in DownStates /\ Successes(cur) < rt
  <2>1. o = Outcome(RecoveryProgress(cur, at), NoIntent)
    BY <1>2 DEF CheckedState, SuccessOutcome
  <2> HIDE DEF o
  <2> QED
    BY <2>1, <1>2, RecoveryFacts DEF Counting
<1>3. CASE ok /\ cur.state \in DownStates /\ ~(Successes(cur) < rt)
  <2>1. o = Outcome(Recovered(cur, at), Resolve(cur.activeIncident, FirstSuccess(cur, at)))
    BY <1>3 DEF CheckedState, SuccessOutcome
  <2> HIDE DEF o
  <2> QED
    BY <2>1, <1>3, RecoveryFacts DEF Resolve, ResolvesIncident, Counting
<1>4. CASE ~ok /\ cur.state \in DownStates
  <2>1. o = Outcome(StillDown(cur, ft), NoIntent)
    BY <1>4 DEF CheckedState, FailureOutcome
  <2> HIDE DEF o
  <2> QED
    BY <2>1, <1>4, StillDownFacts DEF Counting
<1>5. CASE ~ok /\ cur.state \notin DownStates
  <2>1. \/ o = Outcome(Failed(cur, at, "PENDING"), NoIntent)
        \/ o = Outcome(Failed(cur, at, "VERIFYING_DOWN"), NoIntent)
        \/ o = OpenIncident(cur, at)
    BY <1>5 DEF CheckedState, FailureOutcome
  <2> HIDE DEF o
  <2>2. CASE o = Outcome(Failed(cur, at, "PENDING"), NoIntent)
    <3> HIDE DEF RowSound, Outcome, NoIntent, CheckEffect, KeepsIncident, FailureDated, SuccessDated
    <3>1. CheckEffect(cur, at, Outcome(Failed(cur, at, "PENDING"), NoIntent))
      BY <1>5, UndecidedFacts
    <3> QED
      BY <2>2, <3>1
  <2>4. CASE o = Outcome(Failed(cur, at, "VERIFYING_DOWN"), NoIntent)
    <3> HIDE DEF RowSound, Outcome, NoIntent, CheckEffect, KeepsIncident, FailureDated, SuccessDated
    <3>1. CheckEffect(cur, at, Outcome(Failed(cur, at, "VERIFYING_DOWN"), NoIntent))
      BY <1>5, UndecidedFacts
    <3> QED
      BY <2>4, <3>1
  <2>3. CASE o = OpenIncident(cur, at)
    <3>a. PICK f : f = Failed(cur, at, "DOWN")
      OBVIOUS
    <3>b. PICK t : t = FirstFailure(cur, at)
      OBVIOUS
    <3>1. o.next = [f EXCEPT !.activeIncident = t] /\ o.intent = Open(t)
      BY <2>3, <3>a, <3>b DEF OpenIncident
    <3>2. /\ f \in MonitorState /\ f.version = cur.version + 1 /\ f.state = "DOWN"
          /\ f.firstFailureAt = t /\ t \in Nat
          /\ cur.activeIncident = None
      <4>1. cur.activeIncident = None
        BY <1>5
      <4> HIDE DEF RowSound, Outcome, NoIntent, CheckEffect, KeepsIncident, FailureDated, SuccessDated
      <4>2. PICK s \in CheckStates : s = "DOWN"
        OBVIOUS
      <4> HIDE DEF CheckStates
      <4>3. f = Failed(cur, at, s)
        BY <4>2, <3>a
      <4>4. t \in Nat
        BY <3>b, FailedFacts
      <4>5. /\ f \in MonitorState /\ f.version = cur.version + 1
            /\ f.state = s /\ f.firstFailureAt = t
        BY <4>3, <3>b, FailedFacts
      <4> QED
        BY <4>1, <4>2, <4>4, <4>5
    <3>c. PICK n : n = [f EXCEPT !.activeIncident = t]
      OBVIOUS
    <3>5. n \in MonitorState
      BY <3>2, <3>c DEF MonitorState, Time
    <3>6. n.version = f.version /\ n.state = f.state /\ n.firstFailureAt = t /\ n.activeIncident = t
      BY <3>2, <3>c DEF MonitorState
    <3>3. /\ o.next \in MonitorState /\ o.next.version = f.version
          /\ o.next.state = "DOWN"
          /\ o.next.firstFailureAt = t
          /\ o.next.activeIncident = t
      BY <3>1, <3>2, <3>5, <3>6, <3>c
    <3>4. OpensIncident(cur, at, o)
      BY <3>1, <3>2, <3>3, <3>b DEF OpensIncident, Open
    <3> QED
      BY <3>2, <3>3, <3>4 DEF Counting
  <2> QED
    BY <2>1, <2>2, <2>3, <2>4
<1> QED
  BY <1>1, <1>2, <1>3, <1>4, <1>5

\* What a lifecycle change does to a row.
LEMMA LifecycleFacts ==
  ASSUME NEW cur \in MonitorState, RowSound(cur), NEW target \in Targets
  PROVE  /\ LifecycleState(cur, target) \in MonitorState
         /\ RowSound(LifecycleState(cur, target))
         /\ LifecycleChanges(cur, target) =>
              /\ LifecycleState(cur, target).version > cur.version
              /\ LifecycleState(cur, target).firstFailureAt = None
              /\ LifecycleState(cur, target).activeIncident = None
              /\ LifecycleState(cur, target).state # "VERIFYING_UP"
         /\ ~LifecycleChanges(cur, target) => LifecycleState(cur, target) = cur
<1> USE NoneAssumption
<1>1. VersionSteps(cur, target) \in Nat
  BY DEF VersionSteps, LifecycleSteps, MonitorState
<1>2. LifecycleChanges(cur, target) => TargetState(cur.state, target) \in {"PENDING", "PAUSED", "ARCHIVED"}
  BY DEF LifecycleChanges, VersionSteps, LifecycleSteps, TargetState, Targets, MonitorState
<1>3. CASE ~LifecycleChanges(cur, target)
  BY <1>3 DEF LifecycleState
<1>4. CASE LifecycleChanges(cur, target)
  <2>a. PICK s : s = TargetState(cur.state, target)
    OBVIOUS
  <2>b. PICK v : v = cur.version + VersionSteps(cur, target)
    OBVIOUS
  <2>c. PICK row : row = LifecycleState(cur, target)
    OBVIOUS
  <2>1. v \in Nat /\ v > cur.version /\ s \in {"PENDING", "PAUSED", "ARCHIVED"}
    BY <1>1, <1>2, <1>4, <2>a, <2>b DEF LifecycleChanges, MonitorState
  <2>2. row = [cur EXCEPT !.state = s, !.consecutiveFailures = 0, !.consecutiveSuccesses = 0,
                          !.firstFailureAt = None, !.firstSuccessAt = None,
                          !.activeIncident = None, !.version = v]
    BY <1>4, <2>a, <2>b, <2>c DEF LifecycleState
  <2>3. row \in MonitorState
    BY <2>1, <2>2 DEF MonitorState
  <2>4. /\ row.version = v /\ row.state = s
        /\ row.firstFailureAt = None /\ row.activeIncident = None
    BY <2>1, <2>2 DEF MonitorState
  <2> QED
    BY <2>1, <2>3, <2>4, <2>c, <1>4 DEF RowSound
<1> QED
  BY <1>3, <1>4
-----------------------------------------------------------------------------
\* The inductive invariant.  What a run read is the current row or older than
\* it; and an outage still being counted, like a check not yet written, is later
\* than every incident of its monitor, so that the incident it may open is new.
RowsSound ==
  /\ \A m \in Monitors : RowSound(monitors[m])
  /\ \A r \in Runs, m \in Monitors : RowSound(run[r].states[m])

SnapshotCurrent ==
  \A r \in Runs, m \in Monitors :
    run[r].step # "idle" =>
      /\ run[r].states[m].version <= monitors[m].version
      /\ run[r].states[m].version = monitors[m].version => run[r].states[m] = monitors[m]

Dating(row) == Counting(row) /\ row.firstFailureAt # None

NothingAhead ==
  /\ \A m \in Monitors : Dating(monitors[m]) => monitors[m].firstFailureAt <= now
  /\ \A i \in incidents : i.openedAt <= now
  /\ \A r \in Runs : run[r].checkedAt <= now

CountedOutageIsNew ==
  \A i \in incidents :
    Dating(monitors[i.monitor]) => i.openedAt < monitors[i.monitor].firstFailureAt

CheckIsNew ==
  \A r \in Runs : run[r].step = "checked" =>
    \A i \in incidents :
      run[r].states[i.monitor].version = monitors[i.monitor].version =>
        i.openedAt < run[r].checkedAt

IInv ==
  /\ TypeOK
  /\ RowsSound
  /\ SnapshotCurrent
  /\ NothingAhead
  /\ CountedOutageIsNew
  /\ CheckIsNew
  /\ IncidentMatchesState

LEMMA InitIsSound ==
  ASSUME Init
  PROVE  IInv
<1> USE NoneAssumption, ThresholdsAssumption, BoundsAssumption
<1>a. PICK rows : rows = Fresh
  OBVIOUS
<1>1. \A e \in BOOLEAN : NewMonitor(e) \in MonitorState
  BY DEF NewMonitor, MonitorState
<1>2. \A e \in BOOLEAN :
        RowSound(NewMonitor(e)) /\ ~Dating(NewMonitor(e)) /\ NewMonitor(e).activeIncident = None
  BY DEF NewMonitor, RowSound, Dating
<1>3. rows \in [Monitors -> MonitorState] /\ \A m \in Monitors : RowSound(rows[m])
  BY <1>a, <1>1, <1>2 DEF Fresh
<1>4. Idle(rows) \in RunState
  BY <1>3 DEF Idle, RunState, Results
<1>5. \A m \in Monitors : \E e \in BOOLEAN : monitors[m] = NewMonitor(e)
  BY DEF Init
<1>6. TypeOK
  <2>1. monitors \in [Monitors -> MonitorState]
    BY <1>1 DEF Init
  <2>2. run \in [Runs -> RunState]
    BY <1>4, <1>a DEF Init
  <2>3. now \in 0 .. MaxTime /\ config \in [mode : Modes \cup {"none"}, writtenAt : Nat]
    BY DEF Init, NoConfig
  <2>4. incidents \subseteq Incident /\ outbox \subseteq Monitors \X Nat \X {"opened", "resolved"}
    BY DEF Init
  <2> QED
    BY <2>1, <2>2, <2>3, <2>4 DEF TypeOK
<1>7. RowsSound
  BY <1>2, <1>3, <1>5, <1>a DEF Init, RowsSound, Idle
<1>8. SnapshotCurrent /\ CheckIsNew
  BY DEF Init, SnapshotCurrent, CheckIsNew, Idle
<1>9. NothingAhead /\ CountedOutageIsNew
  BY <1>2, <1>5, <1>6 DEF Init, NothingAhead, CountedOutageIsNew, Idle, TypeOK
<1>10. IncidentMatchesState
  <2>1. \A m \in Monitors : monitors[m].state \in DownStates <=> monitors[m].activeIncident # None
    BY <1>7 DEF RowsSound, RowSound
  <2>3. \A m \in Monitors : monitors[m].activeIncident = None
    BY <1>2, <1>5
  <2>2. incidents = {}
    BY DEF Init
  <2> QED
    BY <2>1, <2>2, <2>3 DEF IncidentMatchesState, OpenIncidents
<1> QED
  BY <1>6, <1>7, <1>8, <1>9, <1>10 DEF IInv

\* What the minute computes for each row it is about to write.
LEMMA MinuteFacts ==
  ASSUME IInv, NEW r \in Runs, run[r].step = "checked", ~Throws(r),
         NEW m \in Rows(r), run[r].states[m].version = monitors[m].version
  PROVE  /\ m \in Monitors
         /\ run[r].states[m] = monitors[m]
         /\ monitors[m] \in MonitorState
         /\ CheckEffect(monitors[m], run[r].checkedAt, Outcomes(r)[m])
<1>1. m \in Monitors /\ run[r].states[m].state \in CheckStates
  BY DEF Rows
<1>2. run[r].states[m] = monitors[m] /\ RowSound(monitors[m])
  BY <1>1 DEF IInv, SnapshotCurrent, RowsSound
<1>3. /\ monitors[m] \in MonitorState
      /\ run[r].checkedAt \in Nat
      /\ run[r].thresholds \in Thresholds
  BY <1>1 DEF IInv, TypeOK, RunState
<1>4. run[r].thresholds[1] \in Nat \ {0} /\ run[r].thresholds[2] \in Nat \ {0}
  BY <1>3, ThresholdsAssumption
<1>5. ~CheckThrows(monitors[m], run[r].results[m] = "success", run[r].thresholds[2])
  BY <1>2 DEF Throws
<1>6. Outcomes(r)[m] =
        CheckedState(monitors[m], run[r].checkedAt, run[r].results[m] = "success",
                     run[r].thresholds[1], run[r].thresholds[2])
  BY <1>1, <1>2 DEF Outcomes
<1>a. PICK ok \in BOOLEAN : ok = (run[r].results[m] = "success")
  OBVIOUS
<1>b. PICK ft \in Nat \ {0} : ft = run[r].thresholds[1]
  BY <1>4
<1>c. PICK rt \in Nat \ {0} : rt = run[r].thresholds[2]
  BY <1>4
<1>7. monitors[m].state \in CheckStates /\ ~CheckThrows(monitors[m], ok, rt)
  BY <1>1, <1>2, <1>5, <1>a, <1>c
<1>8. CheckEffect(monitors[m], run[r].checkedAt,
                  CheckedState(monitors[m], run[r].checkedAt, ok, ft, rt))
  BY <1>2, <1>3, <1>7, CheckedStateFacts
<1>9. Outcomes(r)[m] = CheckedState(monitors[m], run[r].checkedAt, ok, ft, rt)
  BY <1>6, <1>a, <1>b, <1>c
<1> QED
  BY <1>1, <1>2, <1>3, <1>8, <1>9
-----------------------------------------------------------------------------
LEMMA IdleIsSound ==
  ASSUME NEW rows \in [Monitors -> MonitorState], \A m \in Monitors : RowSound(rows[m])
  PROVE  /\ Idle(rows) \in RunState
         /\ Idle(rows).step = "idle" /\ Idle(rows).checkedAt = 0
         /\ Idle(rows).states = rows
BY ThresholdsAssumption DEF Idle, RunState, Results

LEMMA FreshIsSound ==
  Fresh \in [Monitors -> MonitorState] /\ \A m \in Monitors : RowSound(Fresh[m])
BY NoneAssumption DEF Fresh, NewMonitor, MonitorState, RowSound

LEMMA LoadKeeps ==
  ASSUME IInv, NEW r \in Runs, Load(r)
  PROVE  IInv'
<1>a. PICK row : row = [Idle(monitors) EXCEPT !.step = "loaded"]
  OBVIOUS
<1>1. /\ monitors \in [Monitors -> MonitorState] /\ now \in Nat
      /\ run \in [Runs -> RunState]
      /\ \A m \in Monitors : RowSound(monitors[m])
  BY BoundsAssumption DEF IInv, TypeOK, RowsSound
<1>2. Idle(monitors) \in RunState /\ Idle(monitors).checkedAt = 0 /\ Idle(monitors).states = monitors
  BY <1>1, IdleIsSound
<1>3. row \in RunState /\ row.checkedAt = 0 /\ row.states = monitors /\ row.step = "loaded"
  BY <1>a, <1>2 DEF RunState
<1>4. run' = [run EXCEPT ![r] = row] /\ UNCHANGED <<now, monitors, incidents, outbox, config>>
  BY <1>a DEF Load
<1>5. run' \in [Runs -> RunState] /\ run'[r] = row /\ \A q \in Runs : q # r => run'[q] = run[q]
  BY <1>1, <1>3, <1>4
<1>6. TypeOK'
  BY <1>4, <1>5 DEF IInv, TypeOK
<1>7. RowsSound' /\ SnapshotCurrent'
  <2>1. \A m \in Monitors : monitors[m].version <= monitors[m].version
    BY <1>1 DEF MonitorState
  <2> QED
    BY <1>1, <1>3, <1>4, <1>5, <2>1 DEF IInv, RowsSound, SnapshotCurrent
<1>8. NothingAhead' /\ CountedOutageIsNew' /\ CheckIsNew'
  BY <1>1, <1>3, <1>4, <1>5 DEF IInv, NothingAhead, CountedOutageIsNew, CheckIsNew
<1>9. IncidentMatchesState'
  BY <1>4 DEF IInv, IncidentMatchesState, OpenIncidents
<1> QED
  BY <1>6, <1>7, <1>8, <1>9 DEF IInv

LEMMA CheckKeeps ==
  ASSUME IInv, NEW r \in Runs, Check(r)
  PROVE  IInv'
<1>1. PICK results \in [Monitors -> Results], thresholds \in Thresholds :
        run' = [run EXCEPT ![r] = [@ EXCEPT !.step = "checked", !.checkedAt = now',
                                            !.results = results, !.thresholds = thresholds]]
  BY DEF Check
<1>2. /\ now \in Nat /\ now' = now + 1 /\ now' \in 0 .. MaxTime
      /\ run \in [Runs -> RunState] /\ run[r].step = "loaded"
      /\ UNCHANGED <<monitors, incidents, outbox, config>>
  BY BoundsAssumption DEF IInv, TypeOK, Check
<1>a. PICK old : old = run[r]
  OBVIOUS
<1>b. PICK at : at = now'
  OBVIOUS
<1>c. PICK row : row = [old EXCEPT !.step = "checked", !.checkedAt = at,
                                   !.results = results, !.thresholds = thresholds]
  OBVIOUS
<1>d. old \in RunState /\ at \in Nat
  BY <1>2, <1>a, <1>b
<1>e. row \in RunState /\ row.step = "checked" /\ row.checkedAt = at /\ row.states = old.states
  BY <1>c, <1>d DEF RunState
<1>f. run' = [run EXCEPT ![r] = row]
  BY <1>1, <1>a, <1>b, <1>c
<1>3. run' \in [Runs -> RunState] /\ \A q \in Runs : q # r => run'[q] = run[q]
  BY <1>2, <1>e, <1>f
<1>4. run'[r].step = "checked" /\ run'[r].checkedAt = now' /\ run'[r].states = run[r].states
  BY <1>2, <1>a, <1>b, <1>e, <1>f
<1>5. TypeOK'
  BY <1>2, <1>3 DEF IInv, TypeOK
<1>6. RowsSound' /\ SnapshotCurrent'
  <2>1. /\ monitors' = monitors
        /\ \A q \in Runs : run'[q].states = run[q].states /\ (run'[q].step # "idle" => run[q].step # "idle")
    BY <1>2, <1>3, <1>4
  <2> QED
    BY <2>1 DEF IInv, RowsSound, SnapshotCurrent
<1>7. NothingAhead'
  <2>1. \A m \in Monitors : Dating(monitors[m]) => monitors[m].firstFailureAt \in Nat
    BY DEF IInv, TypeOK, Dating, MonitorState
  <2>2. \A i \in incidents : i.openedAt \in Nat
    BY DEF IInv, TypeOK, Incident
  <2>3. \A q \in Runs : run[q].checkedAt \in Nat
    BY <1>2 DEF RunState
  <2>4. \A m \in Monitors : Dating(monitors'[m]) => monitors'[m].firstFailureAt <= now'
    BY <1>2, <2>1 DEF IInv, NothingAhead
  <2>5. \A i \in incidents' : i.openedAt <= now'
    BY <1>2, <2>2 DEF IInv, NothingAhead
  <2>6. \A q \in Runs : run'[q].checkedAt <= now'
    BY <1>2, <1>3, <1>4, <2>3 DEF IInv, NothingAhead
  <2> QED
    BY <2>4, <2>5, <2>6 DEF NothingAhead
<1>8. CountedOutageIsNew'
  BY <1>2 DEF IInv, CountedOutageIsNew
<1>9. CheckIsNew'
  <2>1. \A i \in incidents : i.openedAt \in Nat /\ i.openedAt < now'
    BY <1>2 DEF IInv, TypeOK, Incident, NothingAhead
  <2> QED
    BY <1>2, <1>3, <1>4, <2>1 DEF IInv, CheckIsNew
<1>10. IncidentMatchesState'
  BY <1>2 DEF IInv, IncidentMatchesState, OpenIncidents
<1> QED
  BY <1>5, <1>6, <1>7, <1>8, <1>9, <1>10 DEF IInv

\* A run that ends, however it does, leaves a slot that claims nothing.
LEMMA IdleSlot ==
  ASSUME IInv, NEW r \in Runs, run' = [run EXCEPT ![r] = Idle(Fresh)]
  PROVE  /\ run' \in [Runs -> RunState]
         /\ run'[r].step = "idle" /\ run'[r].checkedAt = 0 /\ run'[r].states = Fresh
         /\ \A q \in Runs : q # r => run'[q] = run[q]
<1>1. /\ Idle(Fresh) \in RunState
      /\ Idle(Fresh).step = "idle" /\ Idle(Fresh).checkedAt = 0 /\ Idle(Fresh).states = Fresh
  BY IdleIsSound, FreshIsSound
<1>2. run \in [Runs -> RunState]
  BY DEF IInv, TypeOK
<1> QED
  BY <1>1, <1>2

LEMMA LoseKeeps ==
  ASSUME IInv, NEW r \in Runs, Lose(r)
  PROVE  IInv'
<1>1. UNCHANGED <<now, monitors, incidents, outbox, config>> /\ run' = [run EXCEPT ![r] = Idle(Fresh)]
  BY DEF Lose
<1>2. now \in Nat
  BY BoundsAssumption DEF IInv, TypeOK
<1>3. TypeOK' /\ RowsSound' /\ SnapshotCurrent'
  BY <1>1, IdleSlot, FreshIsSound DEF IInv, TypeOK, RowsSound, SnapshotCurrent
<1>4. NothingAhead'
  <2>1. \A q \in Runs : run'[q].checkedAt <= now'
    <3>1. run'[r].checkedAt = 0 /\ \A q \in Runs : q # r => run'[q] = run[q]
      BY <1>1, IdleSlot
    <3>2. \A q \in Runs : run[q].checkedAt <= now
      BY DEF IInv, NothingAhead
    <3> QED
      BY <1>1, <1>2, <3>1, <3>2
  <2> QED
    BY <1>1, <2>1 DEF IInv, NothingAhead
<1>6. CountedOutageIsNew'
  BY <1>1 DEF IInv, CountedOutageIsNew
<1>7. CheckIsNew'
  <2>1. \A q \in Runs : run'[q].step = "checked" => run'[q] = run[q]
    <3>1. run'[r].step = "idle" /\ \A q \in Runs : q # r => run'[q] = run[q]
      BY <1>1, IdleSlot
    <3> QED
      BY <3>1
  <2> QED
    BY <1>1, <2>1 DEF IInv, CheckIsNew
<1>5. IncidentMatchesState'
  BY <1>1 DEF IInv, IncidentMatchesState, OpenIncidents
<1> QED
  BY <1>3, <1>4, <1>5, <1>6, <1>7 DEF IInv

LEMMA CommitKeeps ==
  ASSUME IInv, CommitConfig
  PROVE  IInv'
<1>1. PICK targets \in [Monitors -> Targets] :
        /\ monitors' = [m \in Monitors |-> LifecycleState(monitors[m], targets[m])]
        /\ incidents' =
             {IF LifecycleResolved(i, targets)
              THEN [i EXCEPT !.resolvedAt = config.writtenAt, !.reason = "lifecycle"]
              ELSE i : i \in incidents}
  BY DEF CommitConfig
<1>2. UNCHANGED <<now, outbox, run>> /\ config' = NoConfig /\ config.writtenAt \in Nat
  BY DEF CommitConfig, IInv, TypeOK
<1> DEFINE changed(m) == LifecycleChanges(monitors[m], targets[m])
           after(i) == IF LifecycleResolved(i, targets)
                       THEN [i EXCEPT !.resolvedAt = config.writtenAt, !.reason = "lifecycle"]
                       ELSE i
<1>3. ASSUME NEW m \in Monitors
      PROVE  /\ monitors'[m] \in MonitorState
             /\ RowSound(monitors'[m])
             /\ ~changed(m) => monitors'[m] = monitors[m]
             /\ changed(m) => /\ monitors'[m].version > monitors[m].version
                              /\ monitors'[m].firstFailureAt = None
                              /\ monitors'[m].activeIncident = None
  <2>1. monitors[m] \in MonitorState /\ RowSound(monitors[m]) /\ targets[m] \in Targets
    BY DEF IInv, TypeOK, RowsSound
  <2>2. monitors'[m] = LifecycleState(monitors[m], targets[m])
    BY <1>1
  <2> QED
    BY <2>1, <2>2, LifecycleFacts
<1>4. ASSUME NEW i \in incidents
      PROVE  /\ i.monitor \in Monitors /\ i.openedAt \in Nat
             /\ after(i) \in Incident
             /\ after(i).monitor = i.monitor /\ after(i).openedAt = i.openedAt
             /\ IsOpen(after(i)) <=> IsOpen(i) /\ ~LifecycleResolved(i, targets)
  <2>1. i \in Incident
    BY DEF IInv, TypeOK
  <2>2. i.monitor \in Monitors /\ i.openedAt \in Nat
    BY <2>1 DEF Incident
  <2>3. CASE LifecycleResolved(i, targets)
    <3>1. after(i) = [i EXCEPT !.resolvedAt = config.writtenAt, !.reason = "lifecycle"]
      BY <2>3
    <3> HIDE DEF after
    <3>2. /\ after(i) \in Incident
          /\ after(i).monitor = i.monitor /\ after(i).openedAt = i.openedAt
          /\ after(i).resolvedAt = config.writtenAt
      BY <1>2, <2>1, <3>1 DEF Incident
    <3> QED
      BY <1>2, <2>2, <2>3, <3>2, NoneAssumption DEF IsOpen
  <2>4. CASE ~LifecycleResolved(i, targets)
    BY <2>1, <2>2, <2>4
  <2> QED
    BY <2>3, <2>4
<1>5. incidents' = {after(i) : i \in incidents}
  BY <1>1
<1> HIDE DEF changed, after
<1>6. TypeOK'
  <2>1. monitors' \in [Monitors -> MonitorState]
    BY <1>1, <1>3
  <2>2. incidents' \subseteq Incident
    BY <1>4, <1>5
  <2>3. config' \in [mode : Modes \cup {"none"}, writtenAt : Nat]
    BY <1>2 DEF NoConfig
  <2> QED
    BY <1>2, <2>1, <2>2, <2>3 DEF IInv, TypeOK
<1>7. RowsSound'
  BY <1>2, <1>3 DEF IInv, RowsSound
<1>8. ASSUME NEW r \in Runs, NEW m \in Monitors, run[r].step # "idle"
      PROVE  /\ run[r].states[m].version <= monitors'[m].version
             /\ run[r].states[m].version = monitors'[m].version =>
                  ~changed(m) /\ run[r].states[m] = monitors'[m]
  <2>1. run[r].states[m].version \in Nat /\ monitors[m].version \in Nat /\ monitors'[m].version \in Nat
    BY <1>3 DEF IInv, TypeOK, RunState, MonitorState
  <2>2. /\ run[r].states[m].version <= monitors[m].version
        /\ run[r].states[m].version = monitors[m].version => run[r].states[m] = monitors[m]
    BY <1>8 DEF IInv, SnapshotCurrent
  <2>3. CASE changed(m)
    BY <1>3, <2>1, <2>2, <2>3
  <2>4. CASE ~changed(m)
    BY <1>3, <2>2, <2>4
  <2> QED
    BY <2>3, <2>4
<1>9. SnapshotCurrent'
  BY <1>2, <1>8 DEF SnapshotCurrent
<1>10. NothingAhead' /\ CountedOutageIsNew'
  BY <1>2, <1>3, <1>4, <1>5 DEF IInv, NothingAhead, CountedOutageIsNew, Dating
<1>11. CheckIsNew'
  <2> SUFFICES ASSUME NEW r \in Runs, run[r].step = "checked", NEW i \in incidents,
                      run[r].states[i.monitor].version = monitors'[i.monitor].version
               PROVE  i.openedAt < run[r].checkedAt
    BY <1>2, <1>4, <1>5 DEF CheckIsNew
  <2>1. i.monitor \in Monitors
    BY <1>4
  <2>2. monitors'[i.monitor] = monitors[i.monitor]
    BY <1>3, <1>8, <2>1
  <2> QED
    BY <2>2 DEF IInv, CheckIsNew
<1>12. IncidentMatchesState'
  <2> SUFFICES ASSUME NEW m \in Monitors
               PROVE  /\ \A j \in incidents' : j.monitor = m /\ IsOpen(j) =>
                           j.openedAt = monitors'[m].activeIncident
                      /\ monitors'[m].activeIncident # None =>
                           \E j \in incidents' : /\ j.monitor = m /\ IsOpen(j)
                                                /\ j.openedAt = monitors'[m].activeIncident
    BY <1>3 DEF IncidentMatchesState, OpenIncidents, RowSound, IsOpen
  <2>1. ASSUME NEW i \in incidents, i.monitor = m, IsOpen(i)
        PROVE  /\ i.openedAt = monitors[m].activeIncident
               /\ LifecycleResolved(i, targets) <=> changed(m)
    <3>1. i.openedAt = monitors[m].activeIncident /\ monitors[m].activeIncident # None
      BY <1>4, <2>1, NoneAssumption DEF IInv, IncidentMatchesState, OpenIncidents
    <3> QED
      BY <2>1, <3>1 DEF LifecycleResolved, LifecycleResolves, ActiveIncident, changed
  <2>2. ASSUME NEW i \in incidents, after(i).monitor = m, IsOpen(after(i))
        PROVE  after(i).openedAt = monitors'[m].activeIncident
    BY <1>3, <1>4, <2>1, <2>2
  <2>3. ASSUME monitors'[m].activeIncident # None
        PROVE  \E i \in incidents : /\ after(i).monitor = m /\ IsOpen(after(i))
                                    /\ after(i).openedAt = monitors'[m].activeIncident
    <3>1. ~changed(m) /\ monitors'[m] = monitors[m]
      BY <1>3, <2>3
    <3>2. PICK i \in incidents : i.monitor = m /\ IsOpen(i) /\ i.openedAt = monitors[m].activeIncident
      BY <2>3, <3>1 DEF IInv, IncidentMatchesState, OpenIncidents
    <3> QED
      BY <1>4, <2>1, <3>1, <3>2
  <2> QED
    BY <1>5, <2>2, <2>3
<1> QED
  BY <1>6, <1>7, <1>9, <1>10, <1>11, <1>12 DEF IInv
-----------------------------------------------------------------------------
\* The incident a minute opens is later than all of its monitor's others.
LEMMA OpensFacts ==
  ASSUME IInv, NEW r \in Runs, run[r].step = "checked", ~Throws(r), VersionsMatch(r),
         NEW m \in Opens(r), NEW t, t = FirstFailure(monitors[m], run[r].checkedAt)
  PROVE  /\ m \in Monitors /\ m \in Rows(r)
         /\ t \in Nat /\ t <= now
         /\ Outcomes(r)[m].intent.firstFailureAt = t
         /\ Outcomes(r)[m].next.activeIncident = t
         /\ monitors[m].activeIncident = None
         /\ \A i \in incidents : i.monitor = m => i.openedAt < t
<1>1. m \in Rows(r) /\ Outcomes(r)[m].intent.type = "open"
  BY DEF Opens
<1>2. run[r].states[m].version = monitors[m].version
  BY <1>1 DEF VersionsMatch
<1>3. /\ m \in Monitors /\ monitors[m] \in MonitorState
      /\ CheckEffect(monitors[m], run[r].checkedAt, Outcomes(r)[m])
  BY <1>1, <1>2, MinuteFacts
<1>4. OpensIncident(monitors[m], run[r].checkedAt, Outcomes(r)[m])
  BY <1>1, <1>3 DEF CheckEffect, KeepsIncident, ResolvesIncident
<1>5. run[r].checkedAt \in Nat /\ run[r].checkedAt <= now
  BY DEF IInv, TypeOK, RunState, NothingAhead
<1>6. CASE t = run[r].checkedAt
  <2>1. \A i \in incidents : i.monitor = m => i.openedAt < t
    BY <1>2, <1>6 DEF IInv, CheckIsNew
  <2> QED
    BY <1>1, <1>3, <1>4, <1>5, <1>6, <2>1 DEF OpensIncident
<1>7. CASE Dating(monitors[m]) /\ t = monitors[m].firstFailureAt
  <2>1. \A i \in incidents : i.monitor = m => i.openedAt < t
    BY <1>7 DEF IInv, CountedOutageIsNew
  <2>2. t \in Nat /\ t <= now
    BY <1>3, <1>7 DEF Dating, MonitorState, IInv, NothingAhead
  <2> QED
    BY <1>1, <1>3, <1>4, <2>1, <2>2 DEF OpensIncident
<1> QED
  BY <1>6, <1>7 DEF FirstFailure, Dating

\* The statement inserts every incident the minute opens, and no other.
LEMMA InsertedFacts ==
  ASSUME IInv, NEW r \in Runs, run[r].step = "checked", ~Throws(r), VersionsMatch(r)
  PROVE  Inserted(r) = {OpenedRow(m, FirstFailure(monitors[m], run[r].checkedAt)) : m \in Opens(r)}
<1>1. ASSUME NEW m \in Opens(r)
      PROVE  Outcomes(r)[m].intent.firstFailureAt = FirstFailure(monitors[m], run[r].checkedAt)
  BY <1>1, OpensFacts
<1>2. OpenedRows(r) = {OpenedRow(m, FirstFailure(monitors[m], run[r].checkedAt)) : m \in Opens(r)}
  BY <1>1 DEF OpenedRows
<1>3. ASSUME NEW m \in Opens(r), NEW i \in incidents
      PROVE  ~SameId(OpenedRow(m, FirstFailure(monitors[m], run[r].checkedAt)), i)
  <2>a. PICK t : t = FirstFailure(monitors[m], run[r].checkedAt)
    OBVIOUS
  <2>1. t \in Nat /\ (i.monitor = m => i.openedAt < t)
    BY <2>a, OpensFacts
  <2>2. i.openedAt \in Nat
    BY DEF IInv, TypeOK, Incident
  <2>3. OpenedRow(m, t).monitor = m /\ OpenedRow(m, t).openedAt = t
    BY DEF OpenedRow
  <2> QED
    BY <2>a, <2>1, <2>2, <2>3 DEF SameId
<1> QED
  BY <1>2, <1>3 DEF Inserted

\* What the statement does to one row.
LEMMA PersistRow ==
  ASSUME IInv, NEW r \in Runs, Persist(r), NEW m \in Monitors
  PROVE  \/ m \notin Rows(r) /\ monitors'[m] = monitors[m]
         \/ /\ m \in Rows(r) /\ run[r].states[m] = monitors[m]
            /\ monitors[m] \in MonitorState
            /\ monitors'[m] = Outcomes(r)[m].next
            /\ CheckEffect(monitors[m], run[r].checkedAt, Outcomes(r)[m])
            /\ monitors'[m].version > monitors[m].version
<1>1. monitors'[m] = IF m \in Rows(r) THEN Outcomes(r)[m].next ELSE monitors[m]
  BY DEF Persist
<1>2. CASE m \notin Rows(r)
  BY <1>1, <1>2
<1>3. CASE m \in Rows(r)
  <2>1. run[r].step = "checked" /\ ~Throws(r) /\ run[r].states[m].version = monitors[m].version
    BY <1>3 DEF Persist, VersionsMatch
  <2>2. /\ run[r].states[m] = monitors[m] /\ monitors[m] \in MonitorState
        /\ CheckEffect(monitors[m], run[r].checkedAt, Outcomes(r)[m])
    BY <1>3, <2>1, MinuteFacts
  <2>3. Outcomes(r)[m].next.version > monitors[m].version
    BY <2>2 DEF CheckEffect, MonitorState
  <2> QED
    BY <1>1, <1>3, <2>2, <2>3
<1> QED
  BY <1>2, <1>3

\* What a recovery writes into its incident.
LEMMA ResolvesFacts ==
  ASSUME IInv, NEW r \in Runs, run[r].step = "checked", ~Throws(r), VersionsMatch(r),
         NEW m \in Resolves(r)
  PROVE  /\ m \in Rows(r) /\ m \in Monitors
         /\ monitors[m].activeIncident \in Nat
         /\ Outcomes(r)[m].intent.incident = monitors[m].activeIncident
         /\ Outcomes(r)[m].intent.firstSuccessAt \in Nat
         /\ Outcomes(r)[m].next.activeIncident = None
<1>1. m \in Rows(r) /\ Outcomes(r)[m].intent.type = "resolve"
  BY DEF Resolves
<1>2. run[r].states[m].version = monitors[m].version
  BY <1>1 DEF VersionsMatch
<1>3. /\ m \in Monitors /\ monitors[m] \in MonitorState
      /\ CheckEffect(monitors[m], run[r].checkedAt, Outcomes(r)[m])
  BY <1>1, <1>2, MinuteFacts
<1>4. ResolvesIncident(monitors[m], run[r].checkedAt, Outcomes(r)[m])
  BY <1>1, <1>3 DEF CheckEffect, KeepsIncident, OpensIncident
<1>5. run[r].checkedAt \in Nat /\ RowSound(monitors[m])
  BY <1>3 DEF IInv, TypeOK, RunState, RowsSound
<1>6. monitors[m].state \in DownStates
  BY <1>4 DEF ResolvesIncident
<1>7. monitors[m].activeIncident \in Nat
  BY <1>3, <1>5, <1>6 DEF RowSound, MonitorState
<1>8. FirstSuccess(monitors[m], run[r].checkedAt) \in Nat
  BY <1>3, <1>5 DEF FirstSuccess, MonitorState
<1> QED
  BY <1>1, <1>3, <1>4, <1>7, <1>8 DEF ResolvesIncident

LEMMA PersistKeeps ==
  ASSUME IInv, NEW r \in Runs, Persist(r)
  PROVE  IInv'
<1> DEFINE after(i) == IF MinuteResolved(i, r)
                       THEN [i EXCEPT !.resolvedAt = Outcomes(r)[i.monitor].intent.firstSuccessAt,
                                      !.reason = "recovered"]
                       ELSE i
           first(m) == FirstFailure(monitors[m], run[r].checkedAt)
<1>1. /\ run[r].step = "checked" /\ ~Throws(r) /\ VersionsMatch(r)
      /\ incidents' = {after(i) : i \in incidents} \cup Inserted(r)
      /\ outbox' = outbox \cup Notices(r)
      /\ run' = [run EXCEPT ![r] = Idle(Fresh)]
      /\ now' = now /\ config' = config
  BY DEF Persist
<1>2. /\ run' \in [Runs -> RunState]
      /\ run'[r].step = "idle" /\ run'[r].checkedAt = 0 /\ run'[r].states = Fresh
      /\ \A q \in Runs : q # r => run'[q] = run[q]
  BY <1>1, IdleSlot
<1>3. ASSUME NEW i \in incidents
      PROVE  /\ i.monitor \in Monitors /\ i.openedAt \in Nat
             /\ after(i) \in Incident
             /\ after(i).monitor = i.monitor /\ after(i).openedAt = i.openedAt
             /\ IsOpen(after(i)) <=> IsOpen(i) /\ ~MinuteResolved(i, r)
  <2>1. i \in Incident
    BY DEF IInv, TypeOK
  <2>2. i.monitor \in Monitors /\ i.openedAt \in Nat
    BY <2>1 DEF Incident
  <2>3. CASE MinuteResolved(i, r)
    <3>a. PICK t : t = Outcomes(r)[i.monitor].intent.firstSuccessAt
      OBVIOUS
    <3>1. t \in Nat
      BY <1>1, <2>3, <3>a, ResolvesFacts DEF MinuteResolved
    <3>2. after(i) = [i EXCEPT !.resolvedAt = t, !.reason = "recovered"]
      BY <2>3, <3>a
    <3> HIDE DEF after
    <3>3. /\ after(i) \in Incident
          /\ after(i).monitor = i.monitor /\ after(i).openedAt = i.openedAt
          /\ after(i).resolvedAt = t
      BY <2>1, <3>1, <3>2 DEF Incident
    <3> QED
      BY <2>2, <2>3, <3>1, <3>3, NoneAssumption DEF IsOpen
  <2>4. CASE ~MinuteResolved(i, r)
    BY <2>1, <2>2, <2>4
  <2> QED
    BY <2>3, <2>4
<1> HIDE DEF after
<1>4. ASSUME NEW j \in Inserted(r)
      PROVE  /\ j.monitor \in Opens(r) /\ j.monitor \in Monitors
             /\ j = OpenedRow(j.monitor, first(j.monitor))
             /\ j.openedAt = first(j.monitor) /\ j.openedAt \in Nat /\ j.openedAt <= now
             /\ IsOpen(j) /\ j \in Incident
  <2>1. PICK m \in Opens(r) : j = OpenedRow(m, first(m))
    BY <1>1, InsertedFacts
  <2>2. m \in Monitors /\ first(m) \in Nat /\ first(m) <= now
    BY <1>1, OpensFacts
  <2> HIDE DEF first
  <2> QED
    BY <2>1, <2>2 DEF OpenedRow, IsOpen, Incident
<1>5. ASSUME NEW m \in Opens(r)
      PROVE  OpenedRow(m, first(m)) \in Inserted(r)
  BY <1>1, InsertedFacts
<1>6. ASSUME NEW m \in Monitors
      PROVE  /\ monitors[m] \in MonitorState /\ monitors'[m] \in MonitorState
             /\ RowSound(monitors'[m])
             /\ m \notin Rows(r) => monitors'[m] = monitors[m]
             /\ m \in Rows(r) => monitors'[m].version > monitors[m].version
  <2>1. monitors[m] \in MonitorState /\ RowSound(monitors[m])
    BY DEF IInv, TypeOK, RowsSound
  <2> QED
    BY <2>1, PersistRow DEF CheckEffect
<1>7. TypeOK'
  <2>1. monitors' \in [Monitors -> MonitorState]
    <3>1. monitors' = [m \in Monitors |-> monitors'[m]]
      BY DEF Persist
    <3> QED
      BY <1>6, <3>1
  <2>2. incidents' \subseteq Incident
    BY <1>1, <1>3, <1>4
  <2>3. Notices(r) \subseteq Monitors \X Nat \X {"opened", "resolved"}
    <3>1. \A m \in Resolves(r) : m \in Monitors /\ Outcomes(r)[m].intent.incident \in Nat
      BY <1>1, ResolvesFacts
    <3> QED
      BY <1>4, <3>1 DEF Notices
  <2> QED
    BY <1>1, <1>2, <2>1, <2>2, <2>3 DEF IInv, TypeOK
<1>8. RowsSound'
  BY <1>2, <1>6, FreshIsSound DEF IInv, RowsSound
<1>9. ASSUME NEW q \in Runs, NEW m \in Monitors, run'[q].step # "idle"
      PROVE  /\ q # r /\ run'[q] = run[q]
             /\ run[q].states[m].version <= monitors'[m].version
             /\ run[q].states[m].version = monitors'[m].version =>
                  m \notin Rows(r) /\ run[q].states[m] = monitors'[m]
  <2>1. q # r /\ run'[q] = run[q]
    BY <1>2, <1>9
  <2>2. run[q].states[m].version \in Nat /\ monitors[m].version \in Nat /\ monitors'[m].version \in Nat
    BY <1>6 DEF IInv, TypeOK, RunState, MonitorState
  <2>3. /\ run[q].states[m].version <= monitors[m].version
        /\ run[q].states[m].version = monitors[m].version => run[q].states[m] = monitors[m]
    BY <1>9, <2>1 DEF IInv, SnapshotCurrent
  <2>4. CASE m \in Rows(r)
    BY <1>6, <2>1, <2>2, <2>3, <2>4
  <2>5. CASE m \notin Rows(r)
    BY <1>6, <2>1, <2>3, <2>5
  <2> QED
    BY <2>4, <2>5
<1>10. SnapshotCurrent'
  BY <1>9 DEF SnapshotCurrent
<1>11. ASSUME NEW m \in Monitors, Dating(monitors'[m])
       PROVE  /\ m \notin Opens(r)
              /\ \/ m \in Rows(r) /\ monitors'[m].firstFailureAt = run[r].checkedAt
                 \/ Dating(monitors[m]) /\ monitors'[m].firstFailureAt = monitors[m].firstFailureAt
  <2>1. monitors'[m].activeIncident = None
    BY <1>6, <1>11 DEF RowSound, Dating, Counting
  <2>2. CASE m \notin Rows(r)
    BY <1>6, <1>11, <2>2 DEF Opens
  <2>3. CASE m \in Rows(r)
    <3>1. /\ monitors'[m] = Outcomes(r)[m].next
          /\ FailureDated(monitors[m], run[r].checkedAt, monitors'[m])
      BY <2>3, PersistRow DEF CheckEffect
    <3>2. m \notin Opens(r)
      BY <1>1, <2>1, <3>1, OpensFacts, NoneAssumption
    <3> QED
      BY <1>11, <2>3, <3>1, <3>2 DEF FailureDated, Dating
  <2> QED
    BY <2>2, <2>3
<1>12. NothingAhead'
  <2>1. run[r].checkedAt <= now /\ now \in Nat
    BY BoundsAssumption DEF IInv, NothingAhead, TypeOK
  <2>2. \A m \in Monitors : Dating(monitors'[m]) => monitors'[m].firstFailureAt <= now
    BY <1>11, <2>1 DEF IInv, NothingAhead
  <2>3. \A j \in incidents' : j.openedAt <= now
    BY <1>1, <1>3, <1>4 DEF IInv, NothingAhead
  <2>4. \A q \in Runs : run'[q].checkedAt <= now
    <3>1. \A q \in Runs : run[q].checkedAt <= now
      BY DEF IInv, NothingAhead
    <3> QED
      BY <1>2, <2>1, <3>1
  <2> QED
    BY <1>1, <2>2, <2>3, <2>4 DEF NothingAhead
<1>13. CountedOutageIsNew'
  <2> SUFFICES ASSUME NEW j \in incidents', Dating(monitors'[j.monitor])
               PROVE  j.openedAt < monitors'[j.monitor].firstFailureAt
    BY DEF CountedOutageIsNew
  <2>1. j.monitor \in Monitors
    BY <1>1, <1>3, <1>4
  <2>2. j \notin Inserted(r)
    BY <1>4, <1>11, <2>1
  <2>3. PICK i \in incidents : j.monitor = i.monitor /\ j.openedAt = i.openedAt
    BY <1>1, <1>3, <2>2
  <2>4. CASE j.monitor \in Rows(r) /\ monitors'[j.monitor].firstFailureAt = run[r].checkedAt
    BY <1>1, <2>3, <2>4 DEF IInv, CheckIsNew, VersionsMatch
  <2>5. CASE Dating(monitors[j.monitor]) /\ monitors'[j.monitor].firstFailureAt = monitors[j.monitor].firstFailureAt
    BY <2>3, <2>5 DEF IInv, CountedOutageIsNew
  <2> QED
    BY <1>11, <2>1, <2>4, <2>5
<1>14. CheckIsNew'
  <2> SUFFICES ASSUME NEW q \in Runs, run'[q].step = "checked", NEW j \in incidents',
                      run'[q].states[j.monitor].version = monitors'[j.monitor].version
               PROVE  j.openedAt < run'[q].checkedAt
    BY DEF CheckIsNew
  <2>1. j.monitor \in Monitors
    BY <1>1, <1>3, <1>4
  <2>2. run'[q] = run[q] /\ j.monitor \notin Rows(r)
    BY <1>9, <2>1
  <2>3. monitors'[j.monitor] = monitors[j.monitor] /\ j \notin Inserted(r)
    BY <1>4, <1>6, <2>1, <2>2 DEF Opens
  <2>4. PICK i \in incidents : j.monitor = i.monitor /\ j.openedAt = i.openedAt
    BY <1>1, <1>3, <2>3
  <2> QED
    BY <2>2, <2>3, <2>4 DEF IInv, CheckIsNew
<1>15. IncidentMatchesState'
  <2> SUFFICES ASSUME NEW m \in Monitors
               PROVE  /\ \A j \in incidents' : j.monitor = m /\ IsOpen(j) =>
                           j.openedAt = monitors'[m].activeIncident
                      /\ monitors'[m].activeIncident # None =>
                           \E j \in incidents' : /\ j.monitor = m /\ IsOpen(j)
                                                /\ j.openedAt = monitors'[m].activeIncident
    BY <1>6 DEF IncidentMatchesState, OpenIncidents, RowSound, IsOpen
  <2>1. ASSUME NEW i \in incidents, i.monitor = m, IsOpen(i)
        PROVE  /\ i.openedAt = monitors[m].activeIncident
               /\ monitors[m].activeIncident # None
    BY <1>3, <2>1, NoneAssumption DEF IInv, IncidentMatchesState, OpenIncidents
  <2>2. monitors[m].activeIncident # None =>
          \E i \in incidents : i.monitor = m /\ IsOpen(i) /\ i.openedAt = monitors[m].activeIncident
    BY DEF IInv, IncidentMatchesState, OpenIncidents
  <2>3. CASE m \in Opens(r)
    <3>1. /\ monitors[m].activeIncident = None /\ m \in Rows(r)
          /\ Outcomes(r)[m].next.activeIncident = first(m)
      BY <1>1, <2>3, OpensFacts
    <3>2. monitors'[m].activeIncident = first(m)
      BY <3>1, PersistRow
    <3>3. \A i \in incidents : ~(after(i).monitor = m /\ IsOpen(after(i)))
      BY <1>3, <2>1, <3>1
    <3>4. \A j \in Inserted(r) : j.monitor = m => j.openedAt = first(m)
      BY <1>4
    <3>5. OpenedRow(m, first(m)) \in incidents'
      BY <1>1, <1>5, <2>3
    <3>6. /\ OpenedRow(m, first(m)).monitor = m /\ OpenedRow(m, first(m)).openedAt = first(m)
          /\ IsOpen(OpenedRow(m, first(m)))
      BY DEF OpenedRow, IsOpen
    <3> HIDE DEF first
    <3> QED
      BY <1>1, <3>2, <3>3, <3>4, <3>5, <3>6
  <2>4. CASE m \in Resolves(r)
    <3>1. /\ m \in Rows(r) /\ Outcomes(r)[m].next.activeIncident = None
          /\ Outcomes(r)[m].intent.incident = monitors[m].activeIncident
      BY <1>1, <2>4, ResolvesFacts
    <3>2. monitors'[m].activeIncident = None
      BY <3>1, PersistRow
    <3>3. \A i \in incidents : ~(after(i).monitor = m /\ IsOpen(after(i)))
      BY <1>3, <2>1, <2>4, <3>1 DEF MinuteResolved
    <3>4. m \notin Opens(r)
      BY <2>4 DEF Opens, Resolves
    <3> QED
      BY <1>1, <1>4, <3>2, <3>3, <3>4
  <2>5. CASE m \notin Opens(r) /\ m \notin Resolves(r)
    <3>1. monitors'[m].activeIncident = monitors[m].activeIncident
      <4>1. CASE m \notin Rows(r)
        BY <1>6, <4>1
      <4>2. CASE m \in Rows(r)
        <5>1. /\ monitors'[m] = Outcomes(r)[m].next
              /\ CheckEffect(monitors[m], run[r].checkedAt, Outcomes(r)[m])
          BY <4>2, PersistRow
        <5> QED
          BY <2>5, <4>2, <5>1
          DEF CheckEffect, KeepsIncident, OpensIncident, ResolvesIncident, Opens, Resolves
      <4> QED
        BY <4>1, <4>2
    <3>2. \A i \in incidents : i.monitor = m => ~MinuteResolved(i, r)
      BY <2>5 DEF MinuteResolved
    <3>3. \A j \in Inserted(r) : j.monitor # m
      BY <1>4, <2>5
    <3>4. \A i \in incidents : after(i).monitor = m /\ IsOpen(after(i)) =>
            after(i).openedAt = monitors'[m].activeIncident
      BY <1>3, <2>1, <3>1
    <3>5. monitors'[m].activeIncident # None =>
            \E i \in incidents : /\ after(i).monitor = m /\ IsOpen(after(i))
                                 /\ after(i).openedAt = monitors'[m].activeIncident
      BY <1>3, <2>2, <3>1, <3>2
    <3> QED
      BY <1>1, <3>3, <3>4, <3>5
  <2> QED
    BY <2>3, <2>4, <2>5
<1> QED
  BY <1>7, <1>8, <1>10, <1>12, <1>13, <1>14, <1>15 DEF IInv
-----------------------------------------------------------------------------
LEMMA ConfigLockKeeps ==
  ASSUME IInv, UNCHANGED <<now, monitors, incidents, outbox, run>>,
         config' \in [mode : Modes \cup {"none"}, writtenAt : Nat]
  PROVE  IInv'
<1>1. TypeOK' /\ RowsSound' /\ SnapshotCurrent'
  BY DEF IInv, TypeOK, RowsSound, SnapshotCurrent
<1>2. NothingAhead' /\ CountedOutageIsNew' /\ CheckIsNew'
  BY DEF IInv, NothingAhead, CountedOutageIsNew, CheckIsNew
<1>3. IncidentMatchesState'
  BY DEF IInv, IncidentMatchesState, OpenIncidents
<1> QED
  BY <1>1, <1>2, <1>3 DEF IInv

LEMMA StepKeeps ==
  ASSUME IInv, [Next]_vars
  PROVE  IInv'
<1>0. now \in Nat /\ config \in [mode : Modes \cup {"none"}, writtenAt : Nat]
  BY BoundsAssumption DEF IInv, TypeOK
<1>1. CASE \E mode \in Modes : BeginConfig(mode)
  BY <1>0, <1>1, ConfigLockKeeps DEF BeginConfig
<1>2. CASE AbortConfig
  BY <1>2, ConfigLockKeeps DEF AbortConfig, NoConfig
<1>3. CASE CommitConfig
  BY <1>3, CommitKeeps
<1>4. ASSUME NEW r \in Runs, Load(r) \/ Check(r) \/ Persist(r) \/ Lose(r)
      PROVE  IInv'
  BY <1>4, LoadKeeps, CheckKeeps, PersistKeeps, LoseKeeps
<1>5. CASE UNCHANGED vars
  BY <1>0, <1>5, ConfigLockKeeps DEF vars
<1> QED
  BY <1>1, <1>2, <1>3, <1>4, <1>5 DEF Next

LEMMA IInvAlways == Spec => []IInv
BY InitIsSound, StepKeeps, PTL DEF Spec

\* Every variable keeps its type, whatever runs and configuration changes do.
THEOREM TypeCorrect == Spec => []TypeOK
<1>1. IInv => TypeOK
  BY DEF IInv
<1> QED
  BY <1>1, IInvAlways, PTL

\* The state rows and the incidents table agree in every reachable state: an
\* outage has exactly one open incident, the one its row names.
THEOREM IncidentsAgree == Spec => []IncidentMatchesState
<1>1. IInv => IncidentMatchesState
  BY DEF IInv
<1> QED
  BY <1>1, IInvAlways, PTL

\* No snapshot lets transitionMonitor throw on a confirming success.
THEOREM CauseIsKnown == Spec => []OutageHasCause
<1>1. IInv => OutageHasCause
  BY DEF IInv, RowsSound, RowSound, OutageHasCause
<1> QED
  BY <1>1, IInvAlways, PTL

\* Neither the assertion of a runtime synchronization nor the unique index of
\* open incidents ever aborts a statement.
THEOREM AssertionsHold == Spec => []NothingToAssert
<1>1. ASSUME IInv
      PROVE  NothingToAssert
  <2>1. ASSUME NEW m \in Monitors, monitors[m].activeIncident # None
        PROVE  ResolutionFound(m)
    <3>1. PICK i \in incidents : i.monitor = m /\ IsOpen(i) /\ i.openedAt = monitors[m].activeIncident
      BY <1>1, <2>1 DEF IInv, IncidentMatchesState, OpenIncidents
    <3> QED
      BY <3>1 DEF ResolutionFound, ActiveIncident
  <2>2. ASSUME NEW r \in Runs, run[r].step = "checked", VersionsMatch(r), NEW i \in Inserted(r)
        PROVE  OpenIncidents(i.monitor) = {}
    <3>1. PICK m \in Opens(r) : i = OpenedRow(m, Outcomes(r)[m].intent.firstFailureAt)
      BY DEF Inserted, OpenedRows
    <3>2. i.monitor = m /\ m \in Rows(r) /\ m \in Monitors
      BY <3>1 DEF OpenedRow, Opens, Rows
    <3>3. run[r].states[m] = monitors[m] /\ monitors[m].state \in CheckStates
      BY <1>1, <2>2, <3>2 DEF IInv, SnapshotCurrent, VersionsMatch, Rows
    <3>4. monitors[m].activeIncident = None
      <4>1. Outcomes(r)[m].intent.type = "open"
        BY DEF Opens
      <4>2. Outcomes(r)[m] =
              CheckedState(monitors[m], run[r].checkedAt, run[r].results[m] = "success",
                           run[r].thresholds[1], run[r].thresholds[2])
        BY <3>2, <3>3 DEF Outcomes
      <4>3. monitors[m].state \notin DownStates
        BY <4>1, <4>2, <3>3
        DEF CheckedState, SuccessOutcome, FailureOutcome, Outcome, NoIntent, Resolve
      <4> QED
        BY <1>1, <3>2, <4>3 DEF IInv, RowsSound, RowSound
    <3>5. \A j \in OpenIncidents(m) : j.openedAt \in Nat /\ j.openedAt = monitors[m].activeIncident
      BY <1>1, <3>2 DEF IInv, TypeOK, Incident, IncidentMatchesState, OpenIncidents
    <3> QED
      BY <3>2, <3>4, <3>5, NoneAssumption
  <2> QED
    BY <1>1, <2>1, <2>2 DEF NothingToAssert, OneActive, IInv, RowsSound, RowSound, OutageHasCause
<1> QED
  BY <1>1, IInvAlways, PTL

\* Only a minute or a configuration transaction writes state rows.
LEMMA RowWriters ==
  ASSUME [Next]_vars, monitors' # monitors
  PROVE  CommitConfig \/ \E r \in Runs : Persist(r)
BY DEF Next, vars, BeginConfig, AbortConfig, Load, Check, Lose

\* Only a configuration transaction alters a paused or archived monitor.
THEOREM PausedAlone == Spec => PausedIsLeftAlone
<1> DEFINE Alone ==
      \A m \in Monitors :
        monitors[m].state \in LifecycleStates /\ monitors'[m] # monitors[m] =>
          config # NoConfig /\ config' = NoConfig
<1>1. ASSUME IInv, [Next]_vars
      PROVE  Alone
  <2>1. CASE CommitConfig
    BY <2>1 DEF CommitConfig
  <2>2. ASSUME NEW r \in Runs, Persist(r), NEW m \in Monitors, monitors[m].state \in LifecycleStates
        PROVE  monitors'[m] = monitors[m]
    <3>1. m \in Rows(r) => run[r].states[m].state \in CheckStates
      BY DEF Rows
    <3> QED
      BY <1>1, <2>2, <3>1, PersistRow
  <2>3. CASE monitors' = monitors
    BY <2>3
  <2> QED
    BY <1>1, <2>1, <2>2, <2>3, RowWriters
<1>2. IInv /\ [Next]_vars => [Alone]_vars
  BY <1>1
<1> QED
  BY <1>2, IInvAlways, PTL DEF Spec, PausedIsLeftAlone

\* Every write of a row raises its version.
THEOREM AlwaysVersioned == Spec => ChangesAreVersioned
<1> DEFINE Versioned ==
      \A m \in Monitors :
        monitors'[m] # monitors[m] => monitors'[m].version > monitors[m].version
<1>1. ASSUME IInv, [Next]_vars
      PROVE  Versioned
  <2>1. ASSUME CommitConfig, NEW m \in Monitors, monitors'[m] # monitors[m]
        PROVE  monitors'[m].version > monitors[m].version
    <3>1. PICK targets \in [Monitors -> Targets] :
            monitors' = [n \in Monitors |-> LifecycleState(monitors[n], targets[n])]
      BY <2>1 DEF CommitConfig
    <3>2. monitors[m] \in MonitorState /\ RowSound(monitors[m]) /\ targets[m] \in Targets
      BY <1>1 DEF IInv, TypeOK, RowsSound
    <3>3. monitors'[m] = LifecycleState(monitors[m], targets[m])
      BY <3>1
    <3> QED
      BY <2>1, <3>2, <3>3, LifecycleFacts
  <2>2. ASSUME NEW r \in Runs, Persist(r), NEW m \in Monitors, monitors'[m] # monitors[m]
        PROVE  monitors'[m].version > monitors[m].version
    BY <1>1, <2>2, PersistRow
  <2>3. CASE monitors' = monitors
    BY <2>3
  <2> QED
    BY <1>1, <2>1, <2>2, <2>3, RowWriters
<1>2. IInv /\ [Next]_vars => [Versioned]_vars
  BY <1>1
<1> QED
  BY <1>2, IInvAlways, PTL DEF Spec, ChangesAreVersioned

\* An incident row is never lost and, once resolved, never rewritten.
THEOREM ResolvedForever == Spec => ResolvedIsFinal
<1> DEFINE Final ==
      \A i \in incidents :
        IF IsOpen(i)
        THEN \E j \in incidents' : j.monitor = i.monitor /\ j.openedAt = i.openedAt
        ELSE i \in incidents'
<1>1. ASSUME IInv, [Next]_vars
      PROVE  Final
  <2>1. CASE incidents' = incidents
    BY <2>1
  <2>2. ASSUME CommitConfig, NEW i \in incidents
        PROVE  IF IsOpen(i)
               THEN \E j \in incidents' : j.monitor = i.monitor /\ j.openedAt = i.openedAt
               ELSE i \in incidents'
    <3>1. PICK targets \in [Monitors -> Targets] :
            incidents' =
             {IF LifecycleResolved(k, targets)
              THEN [k EXCEPT !.resolvedAt = config.writtenAt, !.reason = "lifecycle"]
              ELSE k : k \in incidents}
      BY <2>2 DEF CommitConfig
    <3>2. i \in Incident
      BY <1>1 DEF IInv, TypeOK
    <3>3. CASE LifecycleResolved(i, targets)
      <4>1. [i EXCEPT !.resolvedAt = config.writtenAt, !.reason = "lifecycle"] \in incidents'
        BY <3>1, <3>3
      <4> QED
        BY <3>2, <3>3, <4>1 DEF LifecycleResolved, ActiveIncident, Incident
    <3>4. CASE ~LifecycleResolved(i, targets)
      BY <3>1, <3>4
    <3> QED
      BY <3>3, <3>4
  <2>3. ASSUME NEW r \in Runs, Persist(r), NEW i \in incidents
        PROVE  IF IsOpen(i)
               THEN \E j \in incidents' : j.monitor = i.monitor /\ j.openedAt = i.openedAt
               ELSE i \in incidents'
    <3>1. i \in Incident
      BY <1>1 DEF IInv, TypeOK
    <3>2. CASE MinuteResolved(i, r)
      <4>1. [i EXCEPT !.resolvedAt = Outcomes(r)[i.monitor].intent.firstSuccessAt,
                      !.reason = "recovered"] \in incidents'
        BY <2>3, <3>2 DEF Persist
      <4> QED
        BY <3>1, <3>2, <4>1 DEF MinuteResolved, Incident
    <3>3. CASE ~MinuteResolved(i, r)
      BY <2>3, <3>3 DEF Persist
    <3> QED
      BY <3>2, <3>3
  <2>4. incidents' # incidents => CommitConfig \/ \E r \in Runs : Persist(r)
    BY <1>1 DEF Next, vars, BeginConfig, AbortConfig, Load, Check, Lose
  <2> QED
    BY <2>1, <2>2, <2>3, <2>4
<1>2. IInv /\ [Next]_vars => [Final]_vars
  BY <1>1
<1> QED
  BY <1>2, IInvAlways, PTL DEF Spec, ResolvedIsFinal
-----------------------------------------------------------------------------
\* The chronicle of resolutions, an invariant above IInv.  A resolution is never
\* later than the outage its monitor still counts, nor than a check not yet
\* written, so that the incident either may open follows it; and a recovery in
\* doubt began after the incident it will resolve.
Resolved == {i \in incidents : ~IsOpen(i)}

OnlyResolvedHasReason == \A i \in incidents : IsOpen(i) => i.reason = None

ResolutionsBehind ==
  /\ config.writtenAt <= now
  /\ \A i \in Resolved : i.resolvedAt <= now

CountedOutageFollows ==
  \A i \in Resolved :
    Dating(monitors[i.monitor]) => i.resolvedAt <= monitors[i.monitor].firstFailureAt

CheckFollows ==
  \A r \in Runs : run[r].step = "checked" =>
    \A i \in Resolved :
      run[r].states[i.monitor].version = monitors[i.monitor].version =>
        i.resolvedAt <= run[r].checkedAt

RecoveryDated ==
  \A m \in Monitors :
    monitors[m].state = "VERIFYING_UP" /\ monitors[m].firstSuccessAt # None =>
      /\ monitors[m].activeIncident <= monitors[m].firstSuccessAt
      /\ monitors[m].firstSuccessAt <= now

Chronicle ==
  /\ NoticesMatchIncidents
  /\ IncidentsInOrder
  /\ OnlyResolvedHasReason
  /\ ResolutionsBehind
  /\ CountedOutageFollows
  /\ CheckFollows
  /\ RecoveryDated

LEMMA InitChronicle ==
  ASSUME Init
  PROVE  Chronicle
<1>1. incidents = {} /\ outbox = {} /\ now = 0 /\ config.writtenAt = 0
  BY DEF Init, NoConfig
<1>2. \A m \in Monitors : monitors[m].state # "VERIFYING_UP"
  BY DEF Init, NewMonitor
<1> QED
  BY <1>1, <1>2
  DEF Chronicle, NoticesMatchIncidents, IncidentsInOrder, OnlyResolvedHasReason, ResolutionsBehind,
      CountedOutageFollows, CheckFollows, RecoveryDated, Resolved

\* Steps that leave the tables alone keep what is recorded of them.
LEMMA TablesKept ==
  ASSUME Chronicle, UNCHANGED <<monitors, incidents, outbox>>
  PROVE  /\ NoticesMatchIncidents' /\ IncidentsInOrder' /\ OnlyResolvedHasReason'
         /\ CountedOutageFollows' /\ Resolved' = Resolved
BY DEF Chronicle, NoticesMatchIncidents, IncidentsInOrder, OnlyResolvedHasReason,
       CountedOutageFollows, Resolved

\* Opening and abandoning a configuration transaction, and standing still.
LEMMA ConfigLockChronicle ==
  ASSUME IInv, Chronicle, UNCHANGED <<now, monitors, incidents, outbox, run>>,
         config'.writtenAt <= now
  PROVE  Chronicle'
<1>1. /\ NoticesMatchIncidents' /\ IncidentsInOrder' /\ OnlyResolvedHasReason'
      /\ CountedOutageFollows' /\ Resolved' = Resolved
  BY TablesKept
<1>2. ResolutionsBehind' /\ CheckFollows' /\ RecoveryDated'
  BY <1>1 DEF Chronicle, ResolutionsBehind, CheckFollows, RecoveryDated
<1> QED
  BY <1>1, <1>2 DEF Chronicle

\* Loading and losing a run: no run gains a check.
LEMMA RunChronicle ==
  ASSUME IInv, Chronicle, UNCHANGED <<now, monitors, incidents, outbox, config>>,
         \A q \in Runs : run'[q].step = "checked" => run'[q] = run[q]
  PROVE  Chronicle'
<1>1. /\ NoticesMatchIncidents' /\ IncidentsInOrder' /\ OnlyResolvedHasReason'
      /\ CountedOutageFollows' /\ Resolved' = Resolved
  BY TablesKept
<1>2. ResolutionsBehind' /\ RecoveryDated'
  BY <1>1 DEF Chronicle, ResolutionsBehind, RecoveryDated
<1>3. CheckFollows'
  BY <1>1 DEF Chronicle, CheckFollows
<1> QED
  BY <1>1, <1>2, <1>3 DEF Chronicle

LEMMA LoadChronicle ==
  ASSUME IInv, Chronicle, NEW r \in Runs, Load(r)
  PROVE  Chronicle'
<1>a. PICK row : row = [Idle(monitors) EXCEPT !.step = "loaded"]
  OBVIOUS
<1>1. row.step = "loaded"
  BY <1>a DEF Idle
<1>2. run' = [run EXCEPT ![r] = row] /\ UNCHANGED <<now, monitors, incidents, outbox, config>>
  BY <1>a DEF Load
<1>3. \A q \in Runs : run'[q].step = "checked" => run'[q] = run[q]
  BY <1>1, <1>2 DEF IInv, TypeOK
<1> QED
  BY <1>2, <1>3, RunChronicle

LEMMA LoseChronicle ==
  ASSUME IInv, Chronicle, NEW r \in Runs, Lose(r)
  PROVE  Chronicle'
<1>1. run' = [run EXCEPT ![r] = Idle(Fresh)] /\ UNCHANGED <<now, monitors, incidents, outbox, config>>
  BY DEF Lose
<1>2. run'[r].step = "idle" /\ \A q \in Runs : q # r => run'[q] = run[q]
  BY <1>1, IdleSlot
<1> QED
  BY <1>1, <1>2, RunChronicle

\* A check is later than anything the database has seen.
LEMMA CheckChronicle ==
  ASSUME IInv, Chronicle, NEW r \in Runs, Check(r)
  PROVE  Chronicle'
<1>1. /\ now \in Nat /\ now' = now + 1
      /\ UNCHANGED <<monitors, incidents, outbox, config>>
  BY BoundsAssumption DEF IInv, TypeOK, Check
<1>2. /\ run'[r].checkedAt = now'
      /\ \A q \in Runs : q # r => run'[q] = run[q]
  <2>1. PICK results \in [Monitors -> Results], thresholds \in Thresholds :
          run' = [run EXCEPT ![r] = [@ EXCEPT !.step = "checked", !.checkedAt = now',
                                              !.results = results, !.thresholds = thresholds]]
    BY DEF Check
  <2>a. PICK old : old = run[r]
    OBVIOUS
  <2>b. PICK at : at = now'
    OBVIOUS
  <2>c. PICK row : row = [old EXCEPT !.step = "checked", !.checkedAt = at,
                                     !.results = results, !.thresholds = thresholds]
    OBVIOUS
  <2>2. old \in RunState /\ run \in [Runs -> RunState]
    BY <2>a DEF IInv, TypeOK
  <2>3. row.checkedAt = at
    BY <2>2, <2>c DEF RunState
  <2>4. run' = [run EXCEPT ![r] = row]
    BY <2>1, <2>a, <2>b, <2>c
  <2> QED
    BY <2>2, <2>3, <2>4, <2>b
<1>3. /\ NoticesMatchIncidents' /\ IncidentsInOrder' /\ OnlyResolvedHasReason'
      /\ CountedOutageFollows' /\ Resolved' = Resolved
  BY <1>1, TablesKept
<1>4. /\ config.writtenAt \in Nat
      /\ \A i \in Resolved : i.resolvedAt \in Nat /\ i.monitor \in Monitors
      /\ \A m \in Monitors : monitors[m].firstSuccessAt \in Nat \cup {None}
  BY DEF IInv, TypeOK, Incident, MonitorState, Resolved, IsOpen
<1>5. ResolutionsBehind'
  BY <1>1, <1>3, <1>4 DEF Chronicle, ResolutionsBehind
<1>6. RecoveryDated'
  BY <1>1, <1>4 DEF Chronicle, RecoveryDated
<1>7. CheckFollows'
  <2>1. \A i \in Resolved : i.resolvedAt <= now'
    BY <1>1, <1>4 DEF Chronicle, ResolutionsBehind
  <2> SUFFICES ASSUME NEW q \in Runs, run'[q].step = "checked", NEW i \in Resolved,
                      run'[q].states[i.monitor].version = monitors[i.monitor].version
               PROVE  i.resolvedAt <= run'[q].checkedAt
    BY <1>1, <1>3 DEF CheckFollows
  <2>2. CASE q = r
    BY <1>2, <2>1, <2>2
  <2>3. CASE q # r
    BY <1>2, <2>3 DEF Chronicle, CheckFollows
  <2> QED
    BY <2>2, <2>3
<1> QED
  BY <1>3, <1>5, <1>6, <1>7 DEF Chronicle
-----------------------------------------------------------------------------
\* What a step may write into the incidents table: it resolves an open incident
\* no earlier than that was opened, or opens one after all of its monitor's.
Resolving(i, j) ==
  /\ i.monitor = j.monitor /\ i.openedAt = j.openedAt
  /\ IsOpen(i) /\ j.resolvedAt \in Nat
  /\ i.openedAt <= j.resolvedAt /\ j.resolvedAt <= now

Opening(j) ==
  /\ IsOpen(j) /\ j.reason = None
  /\ \A i \in incidents : i.monitor = j.monitor =>
       i.openedAt < j.openedAt /\ ~IsOpen(i) /\ i.resolvedAt <= j.openedAt

\* Whatever is written that way leaves the incidents of a monitor in order.
LEMMA OrderKept ==
  ASSUME IInv, IncidentsInOrder,
         \A j \in incidents' :
           j \in incidents \/ (\E i \in incidents : Resolving(i, j)) \/ Opening(j),
         \A j, k \in incidents' :
           Opening(j) /\ Opening(k) /\ j.monitor = k.monitor => j.openedAt = k.openedAt,
         incidents' \subseteq Incident
  PROVE  IncidentsInOrder'
<1>0. \A i \in incidents : i.openedAt \in Nat
  BY DEF IInv, TypeOK, Incident
<1>1. ASSUME NEW j \in incidents', ~IsOpen(j)
      PROVE  j.openedAt <= j.resolvedAt
  BY <1>1 DEF IncidentsInOrder, Resolving, Opening
<1>2. ASSUME NEW j \in incidents', NEW k \in incidents',
             j.monitor = k.monitor, j.openedAt < k.openedAt
      PROVE  ~IsOpen(j) /\ j.resolvedAt <= k.openedAt
  <2>1. j.openedAt \in Nat /\ k.openedAt \in Nat
    BY DEF Incident
  <2>2. CASE Opening(k)
    <3>1. CASE j \in incidents
      BY <1>2, <2>2, <3>1 DEF Opening
    <3>2. ASSUME NEW i \in incidents, Resolving(i, j)
          PROVE  FALSE
      BY <1>2, <2>2, <3>2 DEF Opening, Resolving
    <3>3. ~Opening(j)
      BY <1>2, <2>1, <2>2
    <3> QED
      BY <3>1, <3>2, <3>3
  <2>3. ASSUME NEW i \in incidents, i.monitor = k.monitor, i.openedAt = k.openedAt
        PROVE  ~IsOpen(j) /\ j.resolvedAt <= k.openedAt
    <3>1. CASE j \in incidents
      BY <1>2, <2>3, <3>1 DEF IncidentsInOrder
    <3>2. ASSUME NEW h \in incidents, Resolving(h, j)
          PROVE  FALSE
      <4>1. h.monitor = i.monitor /\ h.openedAt < i.openedAt /\ IsOpen(h)
        BY <1>2, <2>3, <3>2 DEF Resolving
      <4> QED
        BY <4>1 DEF IncidentsInOrder
    <3>3. CASE Opening(j)
      BY <1>0, <1>2, <2>1, <2>3, <3>3 DEF Opening
    <3> QED
      BY <3>1, <3>2, <3>3
  <2>4. k \in incidents => ~IsOpen(j) /\ j.resolvedAt <= k.openedAt
    BY <2>3
  <2>5. ASSUME NEW i \in incidents, Resolving(i, k)
        PROVE  ~IsOpen(j) /\ j.resolvedAt <= k.openedAt
    BY <2>3, <2>5 DEF Resolving
  <2> QED
    BY <2>2, <2>4, <2>5
<1> QED
  BY <1>1, <1>2 DEF IncidentsInOrder, IsOpen

\* A configuration transaction restarts the count of every row it changes.
LEMMA CommitRow ==
  ASSUME IInv, CommitConfig, NEW targets \in [Monitors -> Targets],
         monitors' = [m \in Monitors |-> LifecycleState(monitors[m], targets[m])],
         NEW m \in Monitors
  PROVE  /\ monitors[m].version \in Nat /\ monitors'[m].version \in Nat
         /\ \/ ~LifecycleChanges(monitors[m], targets[m]) /\ monitors'[m] = monitors[m]
            \/ /\ LifecycleChanges(monitors[m], targets[m])
               /\ monitors'[m].version > monitors[m].version
               /\ monitors'[m].firstFailureAt = None
               /\ monitors'[m].state # "VERIFYING_UP"
<1>1. monitors[m] \in MonitorState /\ RowSound(monitors[m]) /\ targets[m] \in Targets
  BY DEF IInv, TypeOK, RowsSound
<1>2. monitors'[m] = LifecycleState(monitors[m], targets[m])
  OBVIOUS
<1>3. monitors'[m] \in MonitorState
  BY <1>1, <1>2, LifecycleFacts
<1> QED
  BY <1>1, <1>2, <1>3, LifecycleFacts DEF MonitorState

\* Lifecycle resolutions are silent and dated by the transaction.
LEMMA CommitChronicle ==
  ASSUME IInv, Chronicle, CommitConfig
  PROVE  Chronicle'
<1>1. PICK targets \in [Monitors -> Targets] :
        /\ \A m \in Monitors : LifecycleResolves(monitors[m], targets[m]) => ResolutionInOrder(m)
        /\ monitors' = [m \in Monitors |-> LifecycleState(monitors[m], targets[m])]
        /\ incidents' =
             {IF LifecycleResolved(i, targets)
              THEN [i EXCEPT !.resolvedAt = config.writtenAt, !.reason = "lifecycle"]
              ELSE i : i \in incidents}
  BY DEF CommitConfig
<1>a. monitors' = [m \in Monitors |-> LifecycleState(monitors[m], targets[m])]
  BY <1>1
<1>2. /\ UNCHANGED <<now, outbox, run>> /\ config'.writtenAt = 0 /\ now \in Nat
      /\ config.writtenAt \in Nat /\ config.writtenAt <= now
  <2>1. UNCHANGED <<now, outbox, run>> /\ config' = NoConfig
    BY DEF CommitConfig
  <2>2. now \in Nat /\ config.writtenAt \in Nat
    BY BoundsAssumption DEF IInv, TypeOK
  <2> QED
    BY <2>1, <2>2 DEF NoConfig, Chronicle, ResolutionsBehind
<1>3. IInv'
  BY CommitKeeps
<1> DEFINE closed(i) == [i EXCEPT !.resolvedAt = config.writtenAt, !.reason = "lifecycle"]
<1>4. ASSUME NEW i \in incidents
      PROVE  /\ i \in Incident /\ i.monitor \in Monitors
             /\ closed(i).monitor = i.monitor /\ closed(i).openedAt = i.openedAt
             /\ closed(i).resolvedAt = config.writtenAt /\ closed(i).reason = "lifecycle"
  BY DEF IInv, TypeOK, Incident
<1>5. ASSUME NEW i \in incidents, LifecycleResolved(i, targets)
      PROVE  /\ Resolving(i, closed(i))
             /\ LifecycleChanges(monitors[i.monitor], targets[i.monitor])
  <2>1. i.monitor \in Monitors
    BY <1>4
  <2>2. IsOpen(i) /\ i.openedAt <= config.writtenAt
    BY <1>1, <1>5, <2>1 DEF LifecycleResolved, ActiveIncident, ResolutionInOrder
  <2> HIDE DEF closed
  <2> QED
    BY <1>2, <1>4, <1>5, <2>2 DEF LifecycleResolved, LifecycleResolves, Resolving
<1>6. ASSUME NEW j \in incidents'
      PROVE  \/ j \in incidents /\ ~LifecycleResolved(j, targets)
             \/ \E i \in incidents : LifecycleResolved(i, targets) /\ j = closed(i)
  BY <1>1
<1>7. \A i \in incidents : IF LifecycleResolved(i, targets) THEN closed(i) \in incidents' ELSE i \in incidents'
  BY <1>1
<1> HIDE DEF closed
<1>8. IncidentsInOrder'
  <2>1. \A j \in incidents' : j \in incidents \/ \E i \in incidents : Resolving(i, j)
    BY <1>5, <1>6
  <2>2. \A j \in incidents' : ~Opening(j)
    <3> SUFFICES ASSUME NEW j \in incidents', Opening(j)
                 PROVE  FALSE
      OBVIOUS
    <3>1. PICK i \in incidents : i.monitor = j.monitor /\ i.openedAt = j.openedAt
      BY <2>1 DEF Resolving
    <3> QED
      BY <1>4, <3>1 DEF Opening, Incident
  <2>3. incidents' \subseteq Incident
    BY <1>3 DEF IInv, TypeOK
  <2> QED
    BY <2>1, <2>2, <2>3, OrderKept DEF Chronicle
<1>9. \A i \in incidents : LifecycleResolved(i, targets) => i.reason = None
  BY DEF LifecycleResolved, ActiveIncident, Chronicle, OnlyResolvedHasReason
<1>10. NoticesMatchIncidents'
  <2>1. {<<j.monitor, j.openedAt, "opened">> : j \in incidents'} =
        {<<i.monitor, i.openedAt, "opened">> : i \in incidents}
    BY <1>4, <1>6, <1>7
  <2>2. {j \in incidents' : j.reason = "recovered"} = {i \in incidents : i.reason = "recovered"}
    BY <1>4, <1>6, <1>7, <1>9, ReasonsAssumption
  <2> QED
    BY <1>2, <2>1, <2>2 DEF Chronicle, NoticesMatchIncidents
<1>11. OnlyResolvedHasReason'
  <2>1. \A i \in incidents : ~IsOpen(closed(i))
    BY <1>2, <1>4, NoneAssumption DEF IsOpen
  <2>2. \A j \in incidents' : IsOpen(j) => j \in incidents
    BY <1>6, <2>1
  <2> QED
    BY <2>2 DEF Chronicle, OnlyResolvedHasReason, IsOpen
\* What a resolution of this step is dated, it is its monitor's last.
<1>12. ASSUME NEW j \in Resolved'
       PROVE  /\ j.resolvedAt <= now
              /\ \/ j \in Resolved
                 \/ LifecycleChanges(monitors[j.monitor], targets[j.monitor])
              /\ j.monitor \in Monitors
  <2>1. j \in incidents' /\ ~IsOpen(j)
    BY DEF Resolved, IsOpen
  <2>2. CASE j \in incidents
    BY <1>4, <2>1, <2>2 DEF Chronicle, ResolutionsBehind, Resolved
  <2>3. ASSUME NEW i \in incidents, LifecycleResolved(i, targets), j = closed(i)
        PROVE  /\ j.resolvedAt <= now /\ j.monitor \in Monitors
               /\ LifecycleChanges(monitors[j.monitor], targets[j.monitor])
    BY <1>2, <1>4, <1>5, <2>3
  <2> QED
    BY <1>6, <2>1, <2>2, <2>3
<1>13. ResolutionsBehind'
  BY <1>2, <1>12 DEF ResolutionsBehind
<1>14. CountedOutageFollows'
  <2> SUFFICES ASSUME NEW j \in Resolved', Dating(monitors'[j.monitor])
               PROVE  j.resolvedAt <= monitors'[j.monitor].firstFailureAt
    BY DEF CountedOutageFollows
  <2>1. monitors'[j.monitor] = monitors[j.monitor] /\ j \in Resolved
    BY <1>a, <1>12, CommitRow DEF Dating
  <2> QED
    BY <2>1 DEF Chronicle, CountedOutageFollows
<1>15. CheckFollows'
  <2> SUFFICES ASSUME NEW r \in Runs, run[r].step = "checked", NEW j \in Resolved',
                      run[r].states[j.monitor].version = monitors'[j.monitor].version
               PROVE  j.resolvedAt <= run[r].checkedAt
    BY <1>2 DEF CheckFollows
  <2>1. j.monitor \in Monitors
    BY <1>12
  <2>2. run[r].states[j.monitor].version <= monitors[j.monitor].version
    BY <2>1 DEF IInv, SnapshotCurrent
  <2>3. monitors'[j.monitor] = monitors[j.monitor] /\ j \in Resolved
    BY <1>a, <1>12, <2>1, <2>2, CommitRow
  <2> QED
    BY <2>3 DEF Chronicle, CheckFollows
<1>16. RecoveryDated'
  BY <1>a, <1>2, CommitRow DEF Chronicle, RecoveryDated
<1> QED
  BY <1>8, <1>10, <1>11, <1>13, <1>14, <1>15, <1>16 DEF Chronicle
-----------------------------------------------------------------------------
\* The incident a minute opens follows every resolution of its monitor.
LEMMA OpensFollow ==
  ASSUME IInv, Chronicle, NEW r \in Runs, run[r].step = "checked", ~Throws(r), VersionsMatch(r),
         NEW m \in Opens(r), NEW t, t = FirstFailure(monitors[m], run[r].checkedAt)
  PROVE  Opening(OpenedRow(m, t))
<1>1. /\ m \in Monitors /\ m \in Rows(r) /\ t \in Nat
      /\ monitors[m].activeIncident = None
      /\ \A i \in incidents : i.monitor = m => i.openedAt < t
  BY OpensFacts
<1>2. ASSUME NEW i \in incidents, i.monitor = m
      PROVE  ~IsOpen(i)
  <2>1. i.openedAt # None
    BY NoneAssumption DEF IInv, TypeOK, Incident
  <2> QED
    BY <1>1, <1>2, <2>1 DEF IInv, IncidentMatchesState, OpenIncidents
<1>3. ASSUME NEW i \in Resolved, i.monitor = m
      PROVE  i.resolvedAt <= t
  <2>1. CASE t = run[r].checkedAt
    <3>1. run[r].states[m].version = monitors[m].version
      BY <1>1 DEF VersionsMatch
    <3> QED
      BY <1>3, <2>1, <3>1 DEF Chronicle, CheckFollows
  <2>2. CASE Dating(monitors[m]) /\ t = monitors[m].firstFailureAt
    BY <1>3, <2>2 DEF Chronicle, CountedOutageFollows
  <2> QED
    BY <2>1, <2>2 DEF FirstFailure, Dating
<1> QED
  BY <1>1, <1>2, <1>3 DEF Opening, OpenedRow, IsOpen, Resolved

\* A recovery is dated between its incident's opening and now.
LEMMA ResolvesFollow ==
  ASSUME IInv, Chronicle, NEW r \in Runs, run[r].step = "checked", ~Throws(r), VersionsMatch(r),
         NEW m \in Resolves(r), NEW t, t = Outcomes(r)[m].intent.firstSuccessAt
  PROVE  /\ m \in Rows(r) /\ m \in Monitors
         /\ monitors[m].activeIncident \in Nat
         /\ Outcomes(r)[m].intent.incident = monitors[m].activeIncident
         /\ t \in Nat /\ monitors[m].activeIncident <= t /\ t <= now
         /\ Outcomes(r)[m].next.state = "UP"
<1>1. /\ m \in Rows(r) /\ m \in Monitors
      /\ monitors[m].activeIncident \in Nat
      /\ Outcomes(r)[m].intent.incident = monitors[m].activeIncident
      /\ t \in Nat
  BY ResolvesFacts
<1>2. run[r].states[m].version = monitors[m].version
  BY <1>1 DEF VersionsMatch
<1>3. ResolvesIncident(monitors[m], run[r].checkedAt, Outcomes(r)[m])
  <2>1. CheckEffect(monitors[m], run[r].checkedAt, Outcomes(r)[m])
    BY <1>1, <1>2, MinuteFacts
  <2>2. Outcomes(r)[m].intent.type = "resolve"
    BY DEF Resolves
  <2> QED
    BY <2>1, <2>2 DEF CheckEffect, KeepsIncident, OpensIncident
<1>4. t = FirstSuccess(monitors[m], run[r].checkedAt) /\ Outcomes(r)[m].next.state = "UP"
  BY <1>3 DEF ResolvesIncident
<1>5. monitors[m].activeIncident < run[r].checkedAt /\ run[r].checkedAt <= now
  <2>1. PICK i \in incidents : i.monitor = m /\ i.openedAt = monitors[m].activeIncident
    BY <1>1, NoneAssumption DEF IInv, IncidentMatchesState, OpenIncidents
  <2> QED
    BY <1>2, <2>1 DEF IInv, CheckIsNew, NothingAhead
<1>6. CASE t = run[r].checkedAt
  BY <1>1, <1>4, <1>5, <1>6
<1>7. CASE /\ monitors[m].state = "VERIFYING_UP" /\ monitors[m].firstSuccessAt # None
           /\ t = monitors[m].firstSuccessAt
  BY <1>1, <1>4, <1>7 DEF Chronicle, RecoveryDated
<1> QED
  BY <1>4, <1>6, <1>7 DEF FirstSuccess

\* The minute writes its resolutions and its openings in order, and a notice
\* of each.
LEMMA PersistChronicle ==
  ASSUME IInv, Chronicle, NEW r \in Runs, Persist(r)
  PROVE  Chronicle'
<1>1. /\ run[r].step = "checked" /\ ~Throws(r) /\ VersionsMatch(r)
      /\ outbox' = outbox \cup Notices(r)
      /\ run' = [run EXCEPT ![r] = Idle(Fresh)]
      /\ now' = now /\ config' = config
  BY DEF Persist
<1>2. IInv'
  BY PersistKeeps
<1>a. now \in Nat
  BY BoundsAssumption DEF IInv, TypeOK
<1> DEFINE closed(i) == [i EXCEPT !.resolvedAt = Outcomes(r)[i.monitor].intent.firstSuccessAt,
                                  !.reason = "recovered"]
           first(m)  == FirstFailure(monitors[m], run[r].checkedAt)
<1>3. incidents' = {IF MinuteResolved(i, r) THEN closed(i) ELSE i : i \in incidents} \cup Inserted(r)
  BY DEF Persist
<1>4. ASSUME NEW i \in incidents
      PROVE  /\ i \in Incident /\ i.monitor \in Monitors /\ i.openedAt \in Nat
             /\ closed(i).monitor = i.monitor /\ closed(i).openedAt = i.openedAt
             /\ closed(i).resolvedAt = Outcomes(r)[i.monitor].intent.firstSuccessAt
             /\ closed(i).reason = "recovered"
  BY DEF IInv, TypeOK, Incident
<1>5. ASSUME NEW j \in incidents'
      PROVE  \/ j \in incidents /\ ~MinuteResolved(j, r)
             \/ \E i \in incidents : MinuteResolved(i, r) /\ j = closed(i)
             \/ j \in Inserted(r)
  BY <1>3
<1>6. /\ \A i \in incidents : IF MinuteResolved(i, r) THEN closed(i) \in incidents' ELSE i \in incidents'
      /\ \A j \in Inserted(r) : j \in incidents'
  BY <1>3
<1> HIDE DEF closed
<1>7. ASSUME NEW i \in incidents, MinuteResolved(i, r)
      PROVE  /\ Resolving(i, closed(i))
             /\ i.monitor \in Rows(r)
             /\ Outcomes(r)[i.monitor].next.state = "UP"
  <2>1. i.monitor \in Resolves(r) /\ IsOpen(i) /\ i.openedAt = Outcomes(r)[i.monitor].intent.incident
    BY <1>7 DEF MinuteResolved
  <2> QED
    BY <1>1, <1>4, <2>1, ResolvesFollow DEF Resolving
<1>8. ASSUME NEW j \in Inserted(r)
      PROVE  /\ j.monitor \in Opens(r) /\ j.openedAt = first(j.monitor)
             /\ j.reason = None /\ Opening(j)
  <2>1. PICK m \in Opens(r) : j = OpenedRow(m, first(m))
    BY <1>1, InsertedFacts
  <2>2. Opening(OpenedRow(m, first(m)))
    BY <1>1, OpensFollow
  <2> HIDE DEF first
  <2> QED
    BY <2>1, <2>2 DEF OpenedRow
<1> HIDE DEF first
<1>9. IncidentsInOrder'
  <2>1. \A j \in incidents' :
          j \in incidents \/ (\E i \in incidents : Resolving(i, j)) \/ Opening(j)
    BY <1>5, <1>7, <1>8
  <2>2. \A j \in incidents' : Opening(j) => j \in Inserted(r)
    <3> SUFFICES ASSUME NEW j \in incidents', Opening(j), j \notin Inserted(r)
                 PROVE  FALSE
      OBVIOUS
    <3>1. PICK i \in incidents : i.monitor = j.monitor /\ i.openedAt = j.openedAt
      BY <1>4, <1>5
    <3> QED
      BY <1>4, <3>1 DEF Opening
  <2>3. \A j, k \in incidents' :
          Opening(j) /\ Opening(k) /\ j.monitor = k.monitor => j.openedAt = k.openedAt
    BY <1>8, <2>2
  <2>4. incidents' \subseteq Incident
    BY <1>2 DEF IInv, TypeOK
  <2> QED
    BY <2>1, <2>3, <2>4, OrderKept DEF Chronicle
<1>10. NoticesMatchIncidents'
  <2>1. {<<j.monitor, j.openedAt, "opened">> : j \in incidents'} =
        {<<i.monitor, i.openedAt, "opened">> : i \in incidents} \cup
        {<<j.monitor, j.openedAt, "opened">> : j \in Inserted(r)}
    BY <1>4, <1>5, <1>6
  <2>2. \A m \in Resolves(r) :
          /\ \E i \in incidents : i.monitor = m /\ MinuteResolved(i, r)
          /\ \A i \in incidents : i.monitor = m /\ MinuteResolved(i, r) =>
               i.openedAt = Outcomes(r)[m].intent.incident
    <3> SUFFICES ASSUME NEW m \in Resolves(r)
                 PROVE  \E i \in incidents : i.monitor = m /\ MinuteResolved(i, r)
      BY DEF MinuteResolved
    <3>1. /\ m \in Monitors /\ monitors[m].activeIncident # None
          /\ Outcomes(r)[m].intent.incident = monitors[m].activeIncident
      BY <1>1, ResolvesFollow, NoneAssumption
    <3> QED
      BY <3>1 DEF IInv, IncidentMatchesState, OpenIncidents, MinuteResolved
  <2>3. \A i \in incidents : MinuteResolved(i, r) => i.monitor \in Resolves(r) /\ i.reason = None
    BY DEF MinuteResolved, Chronicle, OnlyResolvedHasReason
  <2>4. {j \in incidents' : j.reason = "recovered"} =
        {i \in incidents : i.reason = "recovered"} \cup
        {closed(i) : i \in {h \in incidents : MinuteResolved(h, r)}}
    BY <1>4, <1>5, <1>6, <1>8, <2>3, ReasonsAssumption
  <2>5. {<<j.monitor, j.openedAt, "resolved">> : j \in {k \in incidents' : k.reason = "recovered"}} =
        {<<i.monitor, i.openedAt, "resolved">> : i \in {k \in incidents : k.reason = "recovered"}} \cup
        {<<i.monitor, i.openedAt, "resolved">> : i \in {h \in incidents : MinuteResolved(h, r)}}
    BY <1>4, <2>4
  <2>6. {<<i.monitor, i.openedAt, "resolved">> : i \in {h \in incidents : MinuteResolved(h, r)}} =
        {<<m, Outcomes(r)[m].intent.incident, "resolved">> : m \in Resolves(r)}
    BY <2>2, <2>3
  <2> QED
    BY <1>1, <2>1, <2>5, <2>6 DEF Chronicle, NoticesMatchIncidents, Notices
<1>11. OnlyResolvedHasReason'
  <2>1. \A i \in incidents : MinuteResolved(i, r) => ~IsOpen(closed(i))
    BY <1>7, NoneAssumption DEF Resolving, IsOpen
  <2>2. \A j \in incidents' : IsOpen(j) => j \in incidents \/ j \in Inserted(r)
    BY <1>5, <2>1
  <2> QED
    BY <1>8, <2>2 DEF Chronicle, OnlyResolvedHasReason, IsOpen
<1>12. ASSUME NEW j \in Resolved'
       PROVE  /\ j.resolvedAt <= now /\ j.monitor \in Monitors
              /\ \/ j \in Resolved
                 \/ j.monitor \in Rows(r) /\ Outcomes(r)[j.monitor].next.state = "UP"
  <2>1. j \in incidents' /\ ~IsOpen(j)
    BY DEF Resolved, IsOpen
  <2>2. CASE j \in incidents
    BY <1>4, <2>1, <2>2 DEF Chronicle, ResolutionsBehind, Resolved
  <2>3. ASSUME NEW i \in incidents, MinuteResolved(i, r), j = closed(i)
        PROVE  /\ j.resolvedAt <= now /\ j.monitor \in Monitors
               /\ j.monitor \in Rows(r) /\ Outcomes(r)[j.monitor].next.state = "UP"
    BY <1>4, <1>7, <2>3 DEF Resolving
  <2>4. j \notin Inserted(r)
    BY <1>8, <2>1 DEF Opening
  <2> QED
    BY <1>5, <2>1, <2>2, <2>3, <2>4
<1>13. ResolutionsBehind'
  BY <1>1, <1>12 DEF Chronicle, ResolutionsBehind
<1>14. CountedOutageFollows'
  <2> SUFFICES ASSUME NEW j \in Resolved', NEW m, m = j.monitor, Dating(monitors'[m])
               PROVE  j.resolvedAt <= monitors'[m].firstFailureAt
    BY DEF CountedOutageFollows
  <2>0. m \in Monitors
    BY <1>12
  <2>1. CASE m \notin Rows(r)
    <3>1. monitors'[m] = monitors[m] /\ j \in Resolved
      BY <1>12, <2>0, <2>1, PersistRow
    <3> QED
      BY <3>1 DEF Chronicle, CountedOutageFollows
  <2>2. CASE m \in Rows(r)
    <3>1. /\ monitors'[m] = Outcomes(r)[m].next
          /\ FailureDated(monitors[m], run[r].checkedAt, monitors'[m])
      BY <2>0, <2>2, PersistRow DEF CheckEffect
    <3>2. j \in Resolved
      BY <1>12, <3>1 DEF Dating, Counting
    <3>3. CASE monitors'[m].firstFailureAt = run[r].checkedAt
      <4>1. run[r].states[m].version = monitors[m].version
        BY <1>1, <2>2 DEF VersionsMatch
      <4> QED
        BY <1>1, <3>2, <3>3, <4>1 DEF Chronicle, CheckFollows
    <3>4. CASE Counting(monitors[m]) /\ monitors'[m].firstFailureAt = monitors[m].firstFailureAt
      BY <3>2, <3>4 DEF Dating, Chronicle, CountedOutageFollows
    <3> QED
      BY <3>1, <3>3, <3>4 DEF FailureDated, Dating
  <2> QED
    BY <2>1, <2>2
<1>15. CheckFollows'
  <2> SUFFICES ASSUME NEW q \in Runs, run'[q].step = "checked", NEW j \in Resolved',
                      NEW m, m = j.monitor,
                      run'[q].states[m].version = monitors'[m].version
               PROVE  j.resolvedAt <= run'[q].checkedAt
    BY DEF CheckFollows
  <2>1. q # r /\ run'[q] = run[q]
    BY <1>1, IdleSlot
  <2>2. m \in Monitors
    BY <1>12
  <2>3. run[q].states[m].version <= monitors[m].version /\ monitors[m].version \in Nat
    BY <2>1, <2>2 DEF IInv, SnapshotCurrent, TypeOK, MonitorState
  <2>4. monitors'[m].version \in Nat
    BY <1>2, <2>2 DEF IInv, TypeOK, MonitorState
  <2>5. m \notin Rows(r) /\ monitors'[m] = monitors[m]
    BY <2>1, <2>2, <2>3, <2>4, PersistRow
  <2> QED
    BY <1>12, <2>1, <2>5 DEF Chronicle, CheckFollows
<1>16. RecoveryDated'
  <2> SUFFICES ASSUME NEW m \in Monitors, monitors'[m].state = "VERIFYING_UP",
                      monitors'[m].firstSuccessAt # None
               PROVE  /\ monitors'[m].activeIncident <= monitors'[m].firstSuccessAt
                      /\ monitors'[m].firstSuccessAt <= now
    BY <1>1 DEF RecoveryDated
  <2>1. CASE monitors'[m] = monitors[m]
    BY <2>1 DEF Chronicle, RecoveryDated
  <2>2. CASE monitors'[m] # monitors[m]
    <3>1. /\ m \in Rows(r) /\ monitors'[m] = Outcomes(r)[m].next
          /\ monitors[m] \in MonitorState
          /\ CheckEffect(monitors[m], run[r].checkedAt, Outcomes(r)[m])
      BY <2>2, PersistRow
    <3>2. /\ monitors'[m].firstSuccessAt = FirstSuccess(monitors[m], run[r].checkedAt)
          /\ monitors[m].state \in DownStates
      BY <3>1 DEF CheckEffect, SuccessDated
    <3>3. monitors[m].activeIncident # None
      BY <3>2 DEF IInv, RowsSound, RowSound
    <3>4. monitors'[m].activeIncident = monitors[m].activeIncident
      BY <3>1, <3>3 DEF CheckEffect, KeepsIncident, OpensIncident, ResolvesIncident
    <3>5. PICK i \in incidents : i.monitor = m /\ i.openedAt = monitors[m].activeIncident
      BY <3>3 DEF IInv, IncidentMatchesState, OpenIncidents
    <3>6. monitors[m].activeIncident < run[r].checkedAt /\ run[r].checkedAt <= now
      BY <1>1, <3>1, <3>5 DEF IInv, CheckIsNew, NothingAhead, VersionsMatch
    <3>7. monitors[m].activeIncident \in Nat /\ run[r].checkedAt \in Nat
      BY <3>1, <3>3 DEF MonitorState, IInv, TypeOK, RunState
    <3>8. CASE monitors'[m].firstSuccessAt = run[r].checkedAt
      BY <3>4, <3>6, <3>7, <3>8
    <3>9. CASE /\ monitors[m].state = "VERIFYING_UP" /\ monitors[m].firstSuccessAt # None
               /\ monitors'[m].firstSuccessAt = monitors[m].firstSuccessAt
      BY <3>4, <3>9 DEF Chronicle, RecoveryDated
    <3> QED
      BY <3>2, <3>8, <3>9 DEF FirstSuccess
  <2> QED
    BY <2>1, <2>2
<1> QED
  BY <1>9, <1>10, <1>11, <1>13, <1>14, <1>15, <1>16 DEF Chronicle
-----------------------------------------------------------------------------
LEMMA ChronicleStep ==
  ASSUME IInv, Chronicle, [Next]_vars
  PROVE  Chronicle'
<1>1. now \in Nat /\ config.writtenAt <= now
  BY BoundsAssumption DEF IInv, TypeOK, Chronicle, ResolutionsBehind
<1>2. CASE \E mode \in Modes : BeginConfig(mode)
  BY <1>1, <1>2, ConfigLockChronicle DEF BeginConfig
<1>3. CASE AbortConfig
  BY <1>1, <1>3, ConfigLockChronicle DEF AbortConfig, NoConfig
<1>4. CASE UNCHANGED vars
  BY <1>1, <1>4, ConfigLockChronicle DEF vars
<1>5. ASSUME NEW r \in Runs, Load(r) \/ Check(r) \/ Persist(r) \/ Lose(r)
      PROVE  Chronicle'
  BY <1>5, LoadChronicle, CheckChronicle, PersistChronicle, LoseChronicle
<1> QED
  BY <1>2, <1>3, <1>4, <1>5, CommitChronicle DEF Next

LEMMA ChronicleAlways == Spec => []Chronicle
BY InitChronicle, ChronicleStep, IInvAlways, PTL DEF Spec

\* No resolution precedes its opening (incidents_resolution_order) and a
\* monitor's incidents never overlap, although lifecycle changes date theirs by
\* a clock read before the rows were locked and minutes date theirs by checks
\* that were made before they are written.
THEOREM OutagesInOrder == Spec => []IncidentsInOrder
<1>1. Chronicle => IncidentsInOrder
  BY DEF Chronicle
<1> QED
  BY <1>1, ChronicleAlways, PTL

\* Exactly the openings and the recoveries in the table were announced.
THEOREM NoticesComplete == Spec => []NoticesMatchIncidents
<1>1. Chronicle => NoticesMatchIncidents
  BY DEF Chronicle
<1> QED
  BY <1>1, ChronicleAlways, PTL
-----------------------------------------------------------------------------
\* The refinement, one monitor at a time: what a step does to the incidents of a
\* monitor and to the notices about it is one of the ledger's steps.

\* The incidents of monitor m, and the notices about it, stand still.
LEMMA LedgerStays ==
  ASSUME IInv, NEW m \in Monitors,
         \A i : i.monitor = m => (i \in incidents' <=> i \in incidents),
         \A n : n[1] = m => (n \in outbox' <=> n \in outbox),
         monitors[m].state \in DownStates => monitors'[m].state \notin LifecycleStates
  PROVE  Ledger!Stays(m)
<1>1. Ledger!Of(m)' = Ledger!Of(m)
  BY DEF Ledger!Of
<1>2. Ledger!Told(m)' = Ledger!Told(m)
  BY DEF Ledger!Told
<1>3. ASSUME NEW i \in Ledger!Open(m)
      PROVE  m \in Watched'
  <2>1. i \in OpenIncidents(m) /\ i.openedAt \in Nat
    BY DEF Ledger!Open, Ledger!Of, OpenIncidents, IsOpen, IInv, TypeOK, Incident
  <2>2. monitors[m].state \in DownStates
    BY <2>1, NoneAssumption DEF IInv, IncidentMatchesState
  <2> QED
    BY <2>2 DEF Watched
<1> QED
  BY <1>1, <1>2, <1>3 DEF Ledger!Stays

\* The open incidents of a monitor are one.
LEMMA OneOpen ==
  ASSUME IInv, Chronicle, NEW i \in incidents, NEW j \in incidents,
         i.monitor = j.monitor, IsOpen(i), IsOpen(j)
  PROVE  i = j
<1>1. i \in Incident /\ j \in Incident
  BY DEF IInv, TypeOK
<1>2. i.openedAt = j.openedAt
  BY <1>1 DEF IInv, IncidentMatchesState, OpenIncidents, Incident
<1>3. i.resolvedAt = None /\ j.resolvedAt = None /\ i.reason = None /\ j.reason = None
  BY DEF IsOpen, Chronicle, OnlyResolvedHasReason
<1> QED
  BY <1>1, <1>2, <1>3 DEF Incident

\* A row in an outage leaves it by a lifecycle change only when it is paused or
\* archived.
LEMMA LifecycleLeaves ==
  ASSUME NEW cur \in MonitorState, NEW target \in Targets,
         cur.state \in DownStates, LifecycleChanges(cur, target)
  PROVE  LifecycleState(cur, target).state \in LifecycleStates
<1>1. target # "ACTIVE"
  BY DEF LifecycleChanges, VersionSteps, LifecycleSteps, TargetState, DownStates, LifecycleStates
<1>2. TargetState(cur.state, target) \in LifecycleStates
  BY <1>1 DEF TargetState, Targets, LifecycleStates
<1> QED
  BY <1>2 DEF LifecycleState, MonitorState

\* A lifecycle change ends the outage of a monitor that is no longer watched, and
\* touches no other.
LEMMA CommitRecords ==
  ASSUME IInv, Chronicle, CommitConfig, NEW m \in Monitors
  PROVE  Ledger!Stays(m) \/ Ledger!Closes(m)
<1>1. PICK targets \in [Monitors -> Targets] :
        /\ \A k \in Monitors : LifecycleResolves(monitors[k], targets[k]) => ResolutionInOrder(k)
        /\ monitors' = [k \in Monitors |-> LifecycleState(monitors[k], targets[k])]
        /\ incidents' =
             {IF LifecycleResolved(i, targets)
              THEN [i EXCEPT !.resolvedAt = config.writtenAt, !.reason = "lifecycle"]
              ELSE i : i \in incidents}
  BY DEF CommitConfig
<1> DEFINE closed(i) == [i EXCEPT !.resolvedAt = config.writtenAt, !.reason = "lifecycle"]
<1>2. outbox' = outbox /\ config.writtenAt \in Nat
  BY DEF CommitConfig, IInv, TypeOK
<1>3. /\ monitors[m] \in MonitorState /\ RowSound(monitors[m]) /\ targets[m] \in Targets
      /\ monitors'[m] = LifecycleState(monitors[m], targets[m])
  BY <1>1 DEF IInv, TypeOK, RowsSound
<1>4. ASSUME NEW i \in incidents
      PROVE  /\ closed(i).monitor = i.monitor /\ closed(i).openedAt = i.openedAt
             /\ closed(i).resolvedAt = config.writtenAt /\ closed(i).reason = "lifecycle"
  BY DEF IInv, TypeOK, Incident
<1>5. /\ \A j \in incidents' :
           \/ j \in incidents /\ ~LifecycleResolved(j, targets)
           \/ \E i \in incidents : LifecycleResolved(i, targets) /\ j = closed(i)
      /\ \A i \in incidents :
           IF LifecycleResolved(i, targets) THEN closed(i) \in incidents' ELSE i \in incidents'
  BY <1>1
<1> HIDE DEF closed
<1>6. CASE ~LifecycleResolves(monitors[m], targets[m])
  <2>1. ASSUME NEW i, i.monitor = m
        PROVE  i \in incidents' <=> i \in incidents
    BY <1>4, <1>5, <1>6, <2>1 DEF LifecycleResolved
  <2>2. ASSUME monitors[m].state \in DownStates
        PROVE  monitors'[m].state \notin LifecycleStates
    <3>1. ~LifecycleChanges(monitors[m], targets[m])
      BY <1>6, <2>2 DEF LifecycleResolves, IInv, IncidentMatchesState
    <3>2. monitors'[m] = monitors[m]
      BY <1>3, <3>1, LifecycleFacts
    <3> QED
      BY <2>2, <3>2 DEF DownStates, LifecycleStates
  <2> QED
    BY <1>2, <2>1, <2>2, LedgerStays
<1>7. CASE LifecycleResolves(monitors[m], targets[m])
  <2>1. /\ monitors[m].activeIncident # None /\ monitors[m].state \in DownStates
        /\ LifecycleChanges(monitors[m], targets[m])
    BY <1>7 DEF LifecycleResolves, IInv, IncidentMatchesState
  <2>2. m \in Watched /\ m \notin Watched'
    <3>1. monitors[m].state \notin LifecycleStates
      BY <2>1 DEF DownStates, LifecycleStates
    <3>2. monitors'[m].state \in LifecycleStates
      BY <1>3, <2>1, LifecycleLeaves
    <3> QED
      BY <3>1, <3>2 DEF Watched
  <2>3. PICK i \in incidents : ActiveIncident(i, m)
    BY <2>1 DEF IInv, IncidentMatchesState, OpenIncidents, ActiveIncident
  <2>4. LifecycleResolved(i, targets) /\ i.monitor = m /\ IsOpen(i)
    BY <1>7, <2>3 DEF LifecycleResolved, ActiveIncident
  <2>5. \A k \in incidents : k.monitor = m /\ LifecycleResolved(k, targets) => k = i
    BY <2>4, OneOpen DEF LifecycleResolved, ActiveIncident
  <2>6. closed(i) \in incidents'
    BY <1>5, <2>4
  <2>7. Ledger!Of(m)' = (Ledger!Of(m) \ {i}) \cup {closed(i)}
    <3>1. ASSUME NEW j \in Ledger!Of(m)'
          PROVE  j = closed(i) \/ (j \in Ledger!Of(m) /\ j # i)
      <4>1. j \in incidents' /\ j.monitor = m
        BY DEF Ledger!Of
      <4> QED
        BY <1>4, <1>5, <2>4, <2>5, <4>1 DEF Ledger!Of
    <3>2. ASSUME NEW j \in Ledger!Of(m), j # i
          PROVE  j \in Ledger!Of(m)'
      BY <1>5, <2>5, <3>2 DEF Ledger!Of
    <3>3. closed(i) \in Ledger!Of(m)'
      BY <1>4, <2>4, <2>6 DEF Ledger!Of
    <3> QED
      BY <3>1, <3>2, <3>3
  <2>8. i.openedAt <= config.writtenAt /\ config.writtenAt # None
    BY <1>1, <1>2, <1>7, <2>3, NoneAssumption DEF ResolutionInOrder
  <2>9. Ledger!Ends(i, closed(i), "lifecycle")
    BY <1>4, <2>4, <2>7, <2>8 DEF Ledger!Ends
  <2>10. i \in Ledger!Open(m)
    BY <2>4 DEF Ledger!Open, Ledger!Of, IsOpen
  <2>11. Ledger!Told(m)' = Ledger!Told(m)
    BY <1>2 DEF Ledger!Told
  <2> QED
    BY <2>2, <2>6, <2>9, <2>10, <2>11 DEF Ledger!Closes
<1> QED
  BY <1>6, <1>7

\* A minute begins or ends at most one outage of each monitor, and tells of it.
LEMMA PersistRecords ==
  ASSUME IInv, Chronicle, NEW r \in Runs, Persist(r), NEW m \in Monitors
  PROVE  Ledger!Stays(m) \/ Ledger!Begins(m) \/ Ledger!Recovers(m)
<1>1. /\ run[r].step = "checked" /\ ~Throws(r) /\ VersionsMatch(r)
      /\ outbox' = outbox \cup Notices(r)
  BY DEF Persist
<1> DEFINE closed(i) == [i EXCEPT !.resolvedAt = Outcomes(r)[i.monitor].intent.firstSuccessAt,
                                  !.reason = "recovered"]
           first(k)  == FirstFailure(monitors[k], run[r].checkedAt)
<1>2. ASSUME NEW i \in incidents
      PROVE  /\ i.openedAt \in Nat
             /\ closed(i).monitor = i.monitor /\ closed(i).openedAt = i.openedAt
             /\ closed(i).resolvedAt = Outcomes(r)[i.monitor].intent.firstSuccessAt
             /\ closed(i).reason = "recovered"
  BY DEF IInv, TypeOK, Incident
<1>3. incidents' = {IF MinuteResolved(i, r) THEN closed(i) ELSE i : i \in incidents} \cup Inserted(r)
  BY DEF Persist
<1>4. /\ \A j \in incidents' :
           \/ j \in incidents /\ ~MinuteResolved(j, r)
           \/ \E i \in incidents : MinuteResolved(i, r) /\ j = closed(i)
           \/ j \in Inserted(r)
      /\ \A i \in incidents : IF MinuteResolved(i, r) THEN closed(i) \in incidents' ELSE i \in incidents'
      /\ \A j \in Inserted(r) : j \in incidents'
  BY <1>3
<1> HIDE DEF closed
<1>5. Inserted(r) = {OpenedRow(k, first(k)) : k \in Opens(r)}
  BY <1>1, InsertedFacts
<1>6. \A k, t : /\ OpenedRow(k, t).monitor = k /\ OpenedRow(k, t).openedAt = t
                /\ OpenedRow(k, t).resolvedAt = None
  BY DEF OpenedRow
<1>7. \A k \in Opens(r) : k \notin Resolves(r)
  BY DEF Opens, Resolves
<1>8. \A n \in Notices(r) :
        \/ \E k \in Opens(r) : n = <<k, first(k), "opened">>
        \/ \E k \in Resolves(r) : n = <<k, Outcomes(r)[k].intent.incident, "resolved">>
  BY <1>5, <1>6 DEF Notices
<1>9. /\ \A k \in Opens(r) : <<k, first(k), "opened">> \in Notices(r)
      /\ \A k \in Resolves(r) : <<k, Outcomes(r)[k].intent.incident, "resolved">> \in Notices(r)
  <2>1. ASSUME NEW k \in Opens(r)
        PROVE  <<k, first(k), "opened">> \in Notices(r)
    <3>1. OpenedRow(k, first(k)) \in Inserted(r)
      BY <1>5
    <3> QED
      BY <1>6, <3>1 DEF Notices
  <2>2. ASSUME NEW k \in Resolves(r)
        PROVE  <<k, Outcomes(r)[k].intent.incident, "resolved">> \in Notices(r)
    BY DEF Notices
  <2> QED
    BY <2>1, <2>2
<1>10. m \in Rows(r) => m \in Watched /\ m \in Watched'
  <2> HAVE m \in Rows(r)
  <2>1. /\ run[r].states[m] = monitors[m] /\ monitors'[m] = Outcomes(r)[m].next
        /\ CheckEffect(monitors[m], run[r].checkedAt, Outcomes(r)[m])
    BY PersistRow
  <2>2. monitors[m].state \in CheckStates /\ monitors'[m].state \in CheckStates
    BY <2>1 DEF Rows, CheckEffect
  <2> QED
    BY <2>2 DEF Watched, CheckStates, LifecycleStates
<1>11. \A i \in incidents : i.monitor \notin Resolves(r) => ~MinuteResolved(i, r)
  BY DEF MinuteResolved
<1> HIDE DEF first
<1>12. CASE m \in Opens(r)
  <2>a. PICK t : t = first(m)
    OBVIOUS
  <2>b. PICK i : i = OpenedRow(m, t)
    OBVIOUS
  <2>1. Opening(OpenedRow(m, t))
    BY <1>1, <1>12, <2>a, OpensFollow DEF first
  <2>2. i \in incidents' /\ i.monitor = m /\ i.openedAt = t /\ i.resolvedAt = None
    BY <1>4, <1>5, <1>6, <1>12, <2>a, <2>b
  <2>3. \A j \in Ledger!Of(m) : j.openedAt < t /\ ~IsOpen(j) /\ j.resolvedAt <= t
    BY <1>6, <2>1 DEF Opening, Ledger!Of
  <2>4. Ledger!Open(m) = {}
    BY <2>3 DEF Ledger!Open, IsOpen
  <2>5. Ledger!Of(m)' = Ledger!Of(m) \cup {i}
    <3>1. ASSUME NEW j \in Ledger!Of(m)'
          PROVE  j \in Ledger!Of(m) \/ j = i
      <4>1. j \in incidents' /\ j.monitor = m
        BY DEF Ledger!Of
      <4>2. CASE j \in incidents
        BY <4>1, <4>2 DEF Ledger!Of
      <4>3. ASSUME NEW k \in incidents, MinuteResolved(k, r), j = closed(k)
            PROVE  FALSE
        BY <1>2, <1>7, <1>12, <4>1, <4>3 DEF MinuteResolved
      <4>4. CASE j \in Inserted(r)
        BY <1>5, <1>6, <2>a, <2>b, <4>1, <4>4
      <4> QED
        BY <1>4, <4>1, <4>2, <4>3, <4>4
    <3>2. ASSUME NEW j \in Ledger!Of(m)
          PROVE  j \in Ledger!Of(m)'
      BY <1>4, <1>7, <1>11, <1>12 DEF Ledger!Of
    <3>3. i \in Ledger!Of(m)'
      BY <2>2 DEF Ledger!Of
    <3> QED
      BY <3>1, <3>2, <3>3
  <2>6. Ledger!Told(m)' = Ledger!Told(m) \cup {<<m, t, "opened">>}
    <3>1. \A n \in Notices(r) : n[1] = m => n = <<m, t, "opened">>
      BY <1>7, <1>8, <1>12, <2>a
    <3>2. <<m, t, "opened">> \in Notices(r)
      BY <1>9, <1>12, <2>a
    <3> QED
      BY <1>1, <3>1, <3>2 DEF Ledger!Told
  <2>7. m \in Watched /\ m \in Watched'
    BY <1>10, <1>12 DEF Opens
  <2> QED
    BY <2>2, <2>3, <2>4, <2>5, <2>6, <2>7 DEF Ledger!Begins
<1>13. CASE m \in Resolves(r)
  <2>a. PICK t : t = Outcomes(r)[m].intent.firstSuccessAt
    OBVIOUS
  <2>1. /\ monitors[m].activeIncident \in Nat
        /\ Outcomes(r)[m].intent.incident = monitors[m].activeIncident
        /\ t \in Nat /\ monitors[m].activeIncident <= t
    BY <1>1, <1>13, <2>a, ResolvesFollow
  <2>2. PICK i \in incidents : i.monitor = m /\ IsOpen(i) /\ i.openedAt = monitors[m].activeIncident
    BY <2>1, NoneAssumption DEF IInv, IncidentMatchesState, OpenIncidents
  <2>3. MinuteResolved(i, r)
    BY <1>13, <2>1, <2>2 DEF MinuteResolved
  <2>4. \A k \in incidents : k.monitor = m /\ MinuteResolved(k, r) => k = i
    BY <2>2, OneOpen DEF MinuteResolved
  <2>5. closed(i) \in incidents'
    BY <1>4, <2>3
  <2>6. Ledger!Of(m)' = (Ledger!Of(m) \ {i}) \cup {closed(i)}
    <3>1. ASSUME NEW j \in Ledger!Of(m)'
          PROVE  j = closed(i) \/ (j \in Ledger!Of(m) /\ j # i)
      <4>1. j \in incidents' /\ j.monitor = m
        BY DEF Ledger!Of
      <4>2. CASE j \in incidents /\ ~MinuteResolved(j, r)
        BY <2>3, <4>1, <4>2 DEF Ledger!Of
      <4>3. ASSUME NEW k \in incidents, MinuteResolved(k, r), j = closed(k)
            PROVE  j = closed(i)
        BY <1>2, <2>4, <4>1, <4>3
      <4>4. j \notin Inserted(r)
        BY <1>5, <1>6, <1>7, <1>13, <4>1
      <4> QED
        BY <1>4, <4>1, <4>2, <4>3, <4>4
    <3>2. ASSUME NEW j \in Ledger!Of(m), j # i
          PROVE  j \in Ledger!Of(m)'
      BY <1>4, <2>4, <3>2 DEF Ledger!Of
    <3>3. closed(i) \in Ledger!Of(m)'
      BY <1>2, <2>2, <2>5 DEF Ledger!Of
    <3> QED
      BY <3>1, <3>2, <3>3
  <2>7. Ledger!Ends(i, closed(i), "recovered")
    <3>1. /\ closed(i).monitor = m /\ closed(i).openedAt = i.openedAt
          /\ closed(i).resolvedAt = t /\ closed(i).reason = "recovered"
      BY <1>2, <2>2, <2>a
    <3>2. t # None /\ i.openedAt <= t
      BY <2>1, <2>2, NoneAssumption
    <3> QED
      BY <2>2, <2>6, <3>1, <3>2 DEF Ledger!Ends
  <2>8. i \in Ledger!Open(m)
    BY <2>2 DEF Ledger!Open, Ledger!Of, IsOpen
  <2>9. Ledger!Told(m)' = Ledger!Told(m) \cup {<<m, i.openedAt, "resolved">>}
    <3>1. \A n \in Notices(r) : n[1] = m => n = <<m, i.openedAt, "resolved">>
      BY <1>7, <1>8, <1>13, <2>1, <2>2
    <3>2. <<m, i.openedAt, "resolved">> \in Notices(r)
      BY <1>9, <1>13, <2>1, <2>2
    <3> QED
      BY <1>1, <3>1, <3>2 DEF Ledger!Told
  <2>10. m \in Watched /\ m \in Watched'
    BY <1>10, <1>13 DEF Resolves
  <2> QED
    BY <2>5, <2>7, <2>8, <2>9, <2>10 DEF Ledger!Recovers
<1>14. CASE m \notin Opens(r) /\ m \notin Resolves(r)
  <2>1. ASSUME NEW i, i.monitor = m
        PROVE  i \in incidents' <=> i \in incidents
    <3>1. i \notin Inserted(r)
      BY <1>5, <1>6, <1>14, <2>1
    <3>2. \A k \in incidents : MinuteResolved(k, r) => closed(k).monitor # m
      BY <1>2, <1>14 DEF MinuteResolved
    <3> QED
      BY <1>4, <1>11, <1>14, <2>1, <3>1, <3>2
  <2>2. ASSUME NEW n, n[1] = m
        PROVE  n \in outbox' <=> n \in outbox
    BY <1>1, <1>8, <1>14, <2>2
  <2>3. ASSUME monitors[m].state \in DownStates
        PROVE  monitors'[m].state \notin LifecycleStates
    <3>1. CASE m \notin Rows(r)
      BY <2>3, <3>1, PersistRow DEF DownStates, LifecycleStates
    <3>2. CASE m \in Rows(r)
      BY <1>10, <3>2 DEF Watched
    <3> QED
      BY <3>1, <3>2
  <2> QED
    BY <2>1, <2>2, <2>3, LedgerStays
<1> QED
  BY <1>12, <1>13, <1>14

\* Every step of monitoring is one of the ledger, or leaves it alone.
LEMMA StepRecords ==
  ASSUME IInv, Chronicle, [Next]_vars
  PROVE  [Ledger!Next]_Ledger!vars
<1>1. CASE UNCHANGED <<monitors, incidents, outbox>>
  <2>1. Watched' = Watched
    BY <1>1 DEF Watched
  <2> QED
    BY <1>1, <2>1 DEF Ledger!vars
<1>2. CASE CommitConfig
  BY <1>2, CommitRecords DEF Ledger!Next
<1>3. ASSUME NEW r \in Runs, Persist(r)
      PROVE  Ledger!Next
  BY <1>3, PersistRecords DEF Ledger!Next
<1>4. \/ UNCHANGED <<monitors, incidents, outbox>>
      \/ CommitConfig
      \/ \E r \in Runs : Persist(r)
  BY DEF Next, vars, BeginConfig, AbortConfig, Load, Check, Lose
<1> QED
  BY <1>1, <1>2, <1>3, <1>4

\* The record of outages and its announcements are those of OutageLedger,
\* whatever minutes, late statements and configuration transactions overlap.
THEOREM LedgerRefined == Spec => ImplementsOutageLedger
<1>1. Init => Ledger!Init
  BY DEF Init, Ledger!Init, Watched
<1> QED
  BY <1>1, StepRecords, IInvAlways, ChronicleAlways, PTL
  DEF Spec, ImplementsOutageLedger, Ledger!Spec
-----------------------------------------------------------------------------
\* The history of one monitor.  Each of the two streaks ending at the last
\* check is an interval; the row's counters are the lengths of these intervals
\* and its dates those of their first checks.
CheckRecord == [at : Nat, successful : BOOLEAN, thresholds : Thresholds]

HistoryType ==
  /\ monitor \in MonitorState
  /\ checks \in Seq(CheckRecord)
  /\ activated \in BOOLEAN
  /\ clock \in Nat

InTimeOrder ==
  \A k \in 1 .. LastCheck :
    /\ checks[k].at <= clock
    /\ \A j \in 1 .. k - 1 : checks[j].at < checks[k].at

ActivationKept == monitor.activatedAt # None <=> ActiveAt(LastCheck + 1)

NoChecksAside == monitor.state \in LifecycleStates => checks = <<>>

\* The counters, when the failing streak starts at the check f and the
\* succeeding one at s, either being LastCheck + 1 for an empty streak.
CountersMatch(f, s) ==
  /\ Counting(monitor) =>
       /\ monitor.consecutiveFailures = LastCheck + 1 - f
       /\ f <= LastCheck => monitor.firstFailureAt = checks[f].at
       /\ f = LastCheck + 1 => monitor.firstFailureAt = None
  /\ monitor.state = "UP" => f = LastCheck + 1
  /\ monitor.state \in {"UP", "VERIFYING_DOWN"} => monitor.activatedAt # None
  /\ monitor.state = "DOWN" => s = LastCheck + 1
  /\ monitor.state = "VERIFYING_UP" =>
       /\ s <= LastCheck
       /\ monitor.consecutiveSuccesses = LastCheck + 1 - s
       /\ monitor.firstSuccessAt = checks[s].at

Counted ==
  \E f, s \in 1 .. LastCheck + 1 :
    /\ Streak(LastCheck, FALSE) = f .. LastCheck
    /\ Streak(LastCheck, TRUE) = s .. LastCheck
    /\ CountersMatch(f, s)

DownInOutage == monitor.state \in DownStates <=> InOutage

\* The check c is the first to confirm the outage, of a streak from f on.
Dates(c, f) ==
  /\ \A d \in Confirming(LastCheck) : c <= d
  /\ Streak(c, FALSE) = f .. c
  /\ monitor.activeIncident = checks[f].at

OutageDated ==
  InOutage => \E c \in Confirming(LastCheck) : \E f \in 1 .. c : Dates(c, f)

History ==
  /\ HistoryType
  /\ InTimeOrder
  /\ ActivationKept
  /\ NoChecksAside
  /\ Counted
  /\ DownInOutage
  /\ OutageDated

\* The check e follows the last check L.
Appends(e, L) ==
  /\ checks \in Seq(CheckRecord) /\ activated \in BOOLEAN
  /\ e \in CheckRecord
  /\ L = LastCheck
  /\ checks' = Append(checks, e)
  /\ activated' = activated

LEMMA AppendFacts ==
  ASSUME NEW e, NEW L, Appends(e, L)
  PROVE  /\ L \in Nat
         /\ LastCheck' = L + 1
         /\ checks' \in Seq(CheckRecord)
         /\ \A k \in 1 .. L : checks'[k] = checks[k] /\ checks[k] \in CheckRecord
         /\ checks'[L + 1] = e
         /\ e.at \in Nat /\ e.successful \in BOOLEAN
         /\ e.thresholds[1] \in Nat \ {0} /\ e.thresholds[2] \in Nat \ {0}
<1>1. /\ L \in Nat
      /\ LastCheck' = L + 1
      /\ checks' \in Seq(CheckRecord)
      /\ \A k \in 1 .. L : checks'[k] = checks[k] /\ checks[k] \in CheckRecord
      /\ checks'[L + 1] = e
  BY DEF Appends, LastCheck
<1>2. e.at \in Nat /\ e.successful \in BOOLEAN /\ e.thresholds \in Thresholds
  BY DEF Appends, CheckRecord
<1> QED
  BY <1>1, <1>2, ThresholdsAssumption

\* What the earlier checks amounted to stays what it was.
LEMMA StreaksKept ==
  ASSUME NEW e, NEW L, Appends(e, L), NEW k \in 1 .. L, NEW v
  PROVE  Streak(k, v)' = Streak(k, v)
<1>1. \A j \in 1 .. k : \A n \in j .. k : checks'[n] = checks[n]
  BY AppendFacts
<1> QED
  BY <1>1 DEF Streak

LEMMA ActivationsKept ==
  ASSUME NEW e, NEW L, Appends(e, L), NEW k \in 1 .. L + 1
  PROVE  ActiveAt(k)' <=> ActiveAt(k)
<1>1. \A j \in 1 .. k - 1 : checks'[j] = checks[j]
  BY AppendFacts
<1> QED
  BY <1>1 DEF ActiveAt, Appends

LEMMA VerdictsKept ==
  ASSUME NEW e, NEW L, Appends(e, L), NEW k \in 1 .. L
  PROVE  /\ ConfirmsOutage(k)' <=> ConfirmsOutage(k)
         /\ ConfirmsRecovery(k)' <=> ConfirmsRecovery(k)
<1>1. checks'[k] = checks[k] /\ k \in 1 .. L + 1
  BY AppendFacts
<1>2. ActiveAt(k)' <=> ActiveAt(k)
  BY <1>1, ActivationsKept
<1>3. Streak(k, FALSE)' = Streak(k, FALSE) /\ Streak(k, TRUE)' = Streak(k, TRUE)
  BY StreaksKept
<1> QED
  BY <1>1, <1>2, <1>3 DEF ConfirmsOutage, ConfirmsRecovery

\* The new check carries on the streak of its verdict and ends the other.
LEMMA StreakGrows ==
  ASSUME NEW e, NEW L, Appends(e, L), NEW v \in BOOLEAN,
         NEW a \in 1 .. L + 1, Streak(L, v) = a .. L
  PROVE  Streak(L + 1, v)' = (IF e.successful = v THEN a ELSE L + 2) .. L + 1
<1>1. /\ L \in Nat
      /\ \A k \in 1 .. L : checks'[k] = checks[k]
      /\ checks'[L + 1] = e
  BY AppendFacts
<1>2. \A j \in 1 .. L : (\A n \in j .. L : checks[n].successful = v) <=> j \in a .. L
  BY DEF Streak
<1>3. Streak(L + 1, v)' = {j \in 1 .. L + 1 : \A n \in j .. L + 1 : checks'[n].successful = v}
  BY DEF Streak
<1>4. CASE e.successful = v
  <2>1. ASSUME NEW j \in 1 .. L + 1
        PROVE  (\A n \in j .. L + 1 : checks'[n].successful = v) <=> j \in a .. L + 1
    <3>1. CASE j = L + 1
      BY <1>1, <1>4, <3>1
    <3>2. CASE j \in 1 .. L
      <4>1. (\A n \in j .. L + 1 : checks'[n].successful = v)
              <=> (\A n \in j .. L : checks[n].successful = v)
        BY <1>1, <1>4, <3>2
      <4>2. (\A n \in j .. L : checks[n].successful = v) <=> j \in a .. L
        BY <1>2, <3>2
      <4> QED
        BY <4>1, <4>2, <3>2, <1>1
    <3> QED
      BY <3>1, <3>2, <1>1
  <2>2. a .. L + 1 \subseteq 1 .. L + 1
    BY <1>1
  <2>3. Streak(L + 1, v)' = a .. L + 1
    BY <2>1, <2>2, <1>3
  <2> QED
    BY <2>3, <1>4
<1>5. CASE e.successful # v
  <2>1. \A j \in 1 .. L + 1 : L + 1 \in j .. L + 1 /\ checks'[L + 1].successful # v
    BY <1>1, <1>5
  <2>2. Streak(L + 1, v)' = {}
    BY <2>1, <1>3
  <2>3. L + 2 .. L + 1 = {}
    BY <1>1
  <2> QED
    BY <2>2, <2>3, <1>5
<1> QED
  BY <1>4, <1>5

\* The verdict of the new check, from the streaks before it.
LEMMA NewVerdict ==
  ASSUME NEW e, NEW L, Appends(e, L), NEW f \in 1 .. L + 1, NEW s \in 1 .. L + 1,
         Streak(L, FALSE) = f .. L, Streak(L, TRUE) = s .. L
  PROVE  /\ ConfirmsOutage(L + 1)' <=>
              ActiveAt(L + 1) /\ ~e.successful /\ L + 2 - f >= e.thresholds[1]
         /\ ConfirmsRecovery(L + 1)' <=>
              e.successful /\ L + 2 - s >= e.thresholds[2]
<1>1. L \in Nat /\ checks'[L + 1] = e
  BY AppendFacts
<1>2. ActiveAt(L + 1)' <=> ActiveAt(L + 1)
  <2>1. L + 1 \in 1 .. L + 1
    BY <1>1
  <2> QED
    BY <2>1, ActivationsKept
<1>3. PICK t1, t2 \in Nat \ {0} : e.thresholds[1] = t1 /\ e.thresholds[2] = t2
  BY AppendFacts
<1>4. \A a, b \in Int : Cardinality(a .. b) = IF a > b THEN 0 ELSE b - a + 1
  BY FS_Interval
<1>5. PICK failing : failing = Streak(L + 1, FALSE)'
  OBVIOUS
<1>6. PICK succeeding : succeeding = Streak(L + 1, TRUE)'
  OBVIOUS
<1>7. failing = (IF e.successful = FALSE THEN f ELSE L + 2) .. L + 1
  BY <1>5, StreakGrows
<1>8. succeeding = (IF e.successful = TRUE THEN s ELSE L + 2) .. L + 1
  BY <1>6, StreakGrows
<1>9. ConfirmsOutage(L + 1)' <=> ActiveAt(L + 1)' /\ Cardinality(failing) >= t1
  BY <1>1, <1>3, <1>5 DEF ConfirmsOutage
<1>10. ConfirmsRecovery(L + 1)' <=> Cardinality(succeeding) >= t2
  BY <1>1, <1>3, <1>6 DEF ConfirmsRecovery
<1>11. e.successful \in BOOLEAN
  BY AppendFacts
<1>12. Cardinality(failing) = (IF e.successful = FALSE THEN L + 2 - f ELSE 0)
  BY <1>1, <1>4, <1>7
<1>13. Cardinality(succeeding) = (IF e.successful = TRUE THEN L + 2 - s ELSE 0)
  BY <1>1, <1>4, <1>8
<1>14. CASE e.successful = TRUE
  BY <1>14, <1>2, <1>3, <1>9, <1>10, <1>12, <1>13
<1>15. CASE e.successful = FALSE
  BY <1>15, <1>2, <1>3, <1>9, <1>10, <1>12, <1>13
<1> QED
  BY <1>11, <1>14, <1>15

\* The confirmations still standing: those before, unless the new check
\* confirms a recovery, and the new check if it confirms an outage.
LEMMA ConfirmingGrows ==
  ASSUME NEW e, NEW L, Appends(e, L)
  PROVE  Confirming(L + 1)' =
           {c \in Confirming(L) : ~ConfirmsRecovery(L + 1)'}
             \cup {c \in {L + 1} : ConfirmsOutage(L + 1)'}
<1> DEFINE Out(k) == ConfirmsOutage(k)
           Rec(k) == ConfirmsRecovery(k)
           OutNew(k) == ConfirmsOutage(k)'
           RecNew(k) == ConfirmsRecovery(k)'
<1>1. L \in Nat
  BY AppendFacts
<1>2. \A k \in 1 .. L : (OutNew(k) <=> Out(k)) /\ (RecNew(k) <=> Rec(k))
  BY VerdictsKept
<1>3. Confirming(L) = {c \in 1 .. L : Out(c) /\ \A n \in c + 1 .. L : ~Rec(n)}
  BY DEF Confirming
<1>4. Confirming(L + 1)' =
        {c \in 1 .. L + 1 : OutNew(c) /\ \A n \in c + 1 .. L + 1 : ~RecNew(n)}
  BY DEF Confirming
<1>5. (ConfirmsRecovery(L + 1)' <=> RecNew(L + 1)) /\ (ConfirmsOutage(L + 1)' <=> OutNew(L + 1))
  OBVIOUS
<1> HIDE DEF Out, Rec, OutNew, RecNew
<1>6. ASSUME NEW c \in 1 .. L
      PROVE  (OutNew(c) /\ \A n \in c + 1 .. L + 1 : ~RecNew(n))
               <=> ((Out(c) /\ \A n \in c + 1 .. L : ~Rec(n)) /\ ~RecNew(L + 1))
  BY <1>1, <1>2
<1>7. (L + 1) + 1 .. L + 1 = {}
  BY <1>1
<1>8. 1 .. L + 1 = (1 .. L) \cup {L + 1}
  BY <1>1
<1> QED
  BY <1>3, <1>4, <1>5, <1>6, <1>7, <1>8

\* What one recorded check makes of a row's state, counters and dates.
Answered(cur, at, rt, o) ==
  \/ /\ cur.state \notin DownStates
     /\ o.intent.type = "none"
     /\ o.next.state = "UP" /\ o.next.activatedAt # None
  \/ /\ cur.state \in DownStates /\ Successes(cur) < rt
     /\ o.intent.type = "none"
     /\ o.next.state = "VERIFYING_UP" /\ o.next.activatedAt # None
     /\ o.next.consecutiveSuccesses = Successes(cur)
     /\ o.next.firstSuccessAt = FirstSuccess(cur, at)
     /\ o.next.activeIncident = cur.activeIncident
  \/ /\ cur.state \in DownStates /\ Successes(cur) >= rt
     /\ o.intent.type = "resolve"
     /\ o.intent.incident = cur.activeIncident
     /\ o.intent.firstSuccessAt = FirstSuccess(cur, at)
     /\ o.next.state = "UP" /\ o.next.activatedAt # None

CountsFailure(cur, at, ft, o) ==
  /\ \/ cur.state = "PENDING" /\ (Failures(cur) < ft \/ cur.activatedAt = None)
     \/ cur.state \in {"UP", "VERIFYING_DOWN"} /\ Failures(cur) < ft
  /\ o.next.state = IF cur.state = "PENDING" THEN "PENDING" ELSE "VERIFYING_DOWN"
  /\ o.next.consecutiveFailures = Failures(cur)
  /\ o.next.firstFailureAt = FirstFailure(cur, at)

OpensOutage(cur, at, ft, o) ==
  /\ cur.state \notin DownStates
  /\ Failures(cur) >= ft
  /\ cur.state = "PENDING" => cur.activatedAt # None
  /\ o.next.state = "DOWN"
  /\ o.next.activeIncident = FirstFailure(cur, at)

Unanswered(cur, at, ft, o) ==
  /\ o.intent.type # "resolve"
  /\ o.next.activatedAt = cur.activatedAt
  /\ \/ CountsFailure(cur, at, ft, o)
     \/ OpensOutage(cur, at, ft, o)
     \/ /\ cur.state \in DownStates
        /\ o.next.state = "DOWN"
        /\ o.next.activeIncident = cur.activeIncident

LEMMA AnsweredFacts ==
  ASSUME NEW cur \in MonitorState, cur.state \in CheckStates,
         NEW at \in Nat, NEW ft \in Nat, NEW rt \in Nat
  PROVE  /\ CheckedState(cur, at, TRUE, ft, rt).next \in MonitorState
         /\ Answered(cur, at, rt, CheckedState(cur, at, TRUE, ft, rt))
<1>a. PICK o : o = CheckedState(cur, at, TRUE, ft, rt)
  OBVIOUS
<1>0. Successes(cur) \in Nat
  BY DEF Successes, MonitorState
<1> SUFFICES o.next \in MonitorState /\ Answered(cur, at, rt, o)
  BY <1>a
<1>1. CASE cur.state \notin DownStates
  <2>1. o = Outcome(SuccessWhileUp(cur, at), NoIntent)
    BY <1>1, <1>a DEF CheckedState, SuccessOutcome
  <2>2. o.next = SuccessWhileUp(cur, at) /\ o.intent.type = "none"
    BY <2>1 DEF Outcome, NoIntent
  <2> QED
    BY <2>2, <1>1, SuccessWhileUpFacts DEF Answered
<1>2. CASE cur.state \in DownStates /\ Successes(cur) < rt
  <2>1. o = Outcome(RecoveryProgress(cur, at), NoIntent)
    BY <1>2, <1>a DEF CheckedState, SuccessOutcome
  <2>2. o.next = RecoveryProgress(cur, at) /\ o.intent.type = "none"
    BY <2>1 DEF Outcome, NoIntent
  <2> QED
    BY <2>2, <1>2, RecoveryFacts DEF Answered
<1>3. CASE cur.state \in DownStates /\ ~(Successes(cur) < rt)
  <2>1. o = Outcome(Recovered(cur, at), Resolve(cur.activeIncident, FirstSuccess(cur, at)))
    BY <1>3, <1>a DEF CheckedState, SuccessOutcome
  <2>2. /\ o.next = Recovered(cur, at) /\ o.intent.type = "resolve"
        /\ o.intent.incident = cur.activeIncident
        /\ o.intent.firstSuccessAt = FirstSuccess(cur, at)
    BY <2>1 DEF Outcome, Resolve
  <2>3. Successes(cur) >= rt
    BY <1>0, <1>3
  <2> QED
    BY <2>2, <2>3, <1>3, RecoveryFacts DEF Answered
<1> QED
  BY <1>1, <1>2, <1>3

LEMMA UnansweredFacts ==
  ASSUME NEW cur \in MonitorState, cur.state \in CheckStates,
         NEW at \in Nat, NEW ft \in Nat, NEW rt \in Nat
  PROVE  /\ CheckedState(cur, at, FALSE, ft, rt).next \in MonitorState
         /\ Unanswered(cur, at, ft, CheckedState(cur, at, FALSE, ft, rt))
<1>a. PICK o : o = CheckedState(cur, at, FALSE, ft, rt)
  OBVIOUS
<1>0. Failures(cur) \in Nat
  BY DEF Failures, Counting, MonitorState
<1> SUFFICES o.next \in MonitorState /\ Unanswered(cur, at, ft, o)
  BY <1>a
<1>1. CASE cur.state \in DownStates
  <2>1. o = Outcome(StillDown(cur, ft), NoIntent)
    BY <1>1, <1>a DEF CheckedState, FailureOutcome
  <2>2. o.next = StillDown(cur, ft) /\ o.intent.type = "none"
    BY <2>1 DEF Outcome, NoIntent
  <2> QED
    BY <2>2, <1>1, StillDownFacts DEF Unanswered
<1>2. CASE \/ cur.state = "PENDING" /\ (Failures(cur) < ft \/ cur.activatedAt = None)
           \/ cur.state \in {"UP", "VERIFYING_DOWN"} /\ Failures(cur) < ft
  <2>a. PICK s \in CheckStates : s = IF cur.state = "PENDING" THEN "PENDING" ELSE "VERIFYING_DOWN"
    OBVIOUS
  <2>1. o = Outcome(Failed(cur, at, s), NoIntent)
    BY <1>2, <1>a, <2>a DEF CheckedState, FailureOutcome, InSetup
  <2>2. o.next = Failed(cur, at, s) /\ o.intent.type = "none"
    BY <2>1 DEF Outcome, NoIntent
  <2>3. /\ o.next \in MonitorState /\ o.next.state = s
        /\ o.next.consecutiveFailures = Failures(cur)
        /\ o.next.activatedAt = cur.activatedAt
        /\ o.next.firstFailureAt = FirstFailure(cur, at)
    <3> HIDE DEF CheckStates
    <3> QED
      BY <2>2, <2>a, FailedFacts
  <2> QED
    BY <2>2, <2>3, <2>a, <1>2 DEF Unanswered, CountsFailure
<1>3. CASE /\ cur.state \notin DownStates
           /\ ~(Failures(cur) < ft)
           /\ cur.state = "PENDING" => cur.activatedAt # None
  <2>1. o = OpenIncident(cur, at)
    BY <1>3, <1>a DEF CheckedState, FailureOutcome, InSetup
  <2>a. PICK n : n = Failed(cur, at, "DOWN")
    OBVIOUS
  <2>b. PICK t : t = FirstFailure(cur, at)
    OBVIOUS
  <2>2. o.next = [n EXCEPT !.activeIncident = t] /\ o.intent.type = "open"
    BY <2>1, <2>a, <2>b DEF OpenIncident, Outcome, Open
  <2>c. PICK s \in CheckStates : s = "DOWN"
    OBVIOUS
  <2>3. /\ n \in MonitorState /\ n.state = s /\ n.activatedAt = cur.activatedAt
        /\ t \in Nat
    BY <2>a, <2>b, <2>c, FailedFacts
  <2>4. /\ o.next \in MonitorState /\ o.next.state = "DOWN"
        /\ o.next.activatedAt = cur.activatedAt
        /\ o.next.activeIncident = t
    BY <2>2, <2>3, <2>c DEF MonitorState
  <2>5. Failures(cur) >= ft
    BY <1>0, <1>3
  <2> QED
    BY <2>2, <2>4, <2>5, <2>b, <1>3 DEF Unanswered, OpensOutage
<1> QED
  BY <1>0, <1>1, <1>2, <1>3

LEMMA FirstIs ==
  ASSUME NEW S, S \subseteq Int, NEW c \in S, \A n \in S : c <= n
  PROVE  FirstOf(S) = c
<1>1. \A d \in S : (\A n \in S : d <= n) => d = c
  OBVIOUS
<1> QED
  BY <1>1 DEF FirstOf

LEMMA FirstOfInterval ==
  ASSUME NEW a \in Int, NEW b \in Int, a <= b
  PROVE  FirstOf(a .. b) = a
<1>1. a .. b \subseteq Int /\ a \in a .. b /\ \A n \in a .. b : a <= n
  OBVIOUS
<1> QED
  BY <1>1, FirstIs

\* A check recorded, and what it makes of the row.
Recorded(e, o) ==
  /\ Appends(e, LastCheck)
  /\ clock' = clock + 1
  /\ e.at = clock + 1
  /\ monitor.state \in CheckStates
  /\ monitor' = o.next
  /\ o.next \in MonitorState
  /\ \/ e.successful = TRUE /\ Answered(monitor, e.at, e.thresholds[2], o)
     \/ e.successful = FALSE /\ Unanswered(monitor, e.at, e.thresholds[1], o)
  /\ outage' = IF o.intent.type = "resolve"
               THEN [openedAt |-> o.intent.incident, resolvedAt |-> o.intent.firstSuccessAt]
               ELSE outage

LEMMA RecordFacts ==
  ASSUME HistoryType, RecordCheck
  PROVE  \E e, o : Recorded(e, o)
<1>1. PICK ok \in BOOLEAN, t \in Thresholds :
        LET transition == CheckedState(monitor, clock', ok, t[1], t[2]) IN
        /\ monitor' = transition.next
        /\ checks' = Append(checks, [at |-> clock', successful |-> ok, thresholds |-> t])
        /\ outage' = IF transition.intent.type = "resolve"
                     THEN [openedAt |-> transition.intent.incident,
                           resolvedAt |-> transition.intent.firstSuccessAt]
                     ELSE outage
  BY DEF RecordCheck
<1>2. PICK at : at = clock + 1
  OBVIOUS
<1>3. /\ clock' = at /\ at \in Nat
      /\ monitor.state \in CheckStates
      /\ activated' = activated
  BY <1>2 DEF RecordCheck, Tick, HistoryType
<1>4. t \in Thresholds /\ t[1] \in Nat /\ t[2] \in Nat
  BY <1>1, ThresholdsAssumption
<1>5. PICK o : o = CheckedState(monitor, at, ok, t[1], t[2])
  OBVIOUS
<1>6. PICK e : e = [at |-> at, successful |-> ok, thresholds |-> t]
  OBVIOUS
<1>7. /\ monitor' = o.next
      /\ checks' = Append(checks, e)
      /\ outage' = IF o.intent.type = "resolve"
                   THEN [openedAt |-> o.intent.incident, resolvedAt |-> o.intent.firstSuccessAt]
                   ELSE outage
  BY <1>1, <1>3, <1>5, <1>6
<1>8. e \in CheckRecord /\ e.at = at /\ e.successful = ok /\ e.thresholds = t
  BY <1>1, <1>3, <1>4, <1>6 DEF CheckRecord
<1>9. Appends(e, LastCheck)
  BY <1>3, <1>7, <1>8 DEF Appends, HistoryType
<1>10. monitor \in MonitorState
  BY DEF HistoryType
<1>11. /\ o.next \in MonitorState
       /\ \/ ok = TRUE /\ Answered(monitor, at, t[2], o)
          \/ ok = FALSE /\ Unanswered(monitor, at, t[1], o)
  <2>1. CASE ok = TRUE
    BY <2>1, <1>3, <1>4, <1>5, <1>10, AnsweredFacts
  <2>2. CASE ok = FALSE
    BY <2>2, <1>3, <1>4, <1>5, <1>10, UnansweredFacts
  <2> QED
    BY <2>1, <2>2, <1>1
<1> QED
  BY <1>2, <1>3, <1>7, <1>8, <1>9, <1>11 DEF Recorded

LEMMA RecordKeepsOrder ==
  ASSUME History, NEW e, NEW o, Recorded(e, o)
  PROVE  HistoryType' /\ InTimeOrder' /\ NoChecksAside'
<1> DEFINE L == LastCheck
<1>1. /\ Appends(e, L) /\ clock' = clock + 1 /\ e.at = clock + 1 /\ clock \in Nat
      /\ monitor' \in MonitorState
  BY DEF Recorded, History, HistoryType
<1>2. /\ L \in Nat /\ LastCheck' = L + 1 /\ checks' \in Seq(CheckRecord)
      /\ \A k \in 1 .. L : checks'[k] = checks[k] /\ checks[k] \in CheckRecord
      /\ checks'[L + 1] = e
  BY <1>1, AppendFacts
<1>3. HistoryType'
  BY <1>1, <1>2 DEF HistoryType, Appends
<1>4. \A k \in 1 .. L : checks[k].at \in Nat
  BY <1>2 DEF CheckRecord
<1>5. \A k \in 1 .. L : checks[k].at <= clock /\ \A j \in 1 .. k - 1 : checks[j].at < checks[k].at
  BY DEF History, InTimeOrder
<1> HIDE DEF L
<1>6. InTimeOrder'
  <2>1. ASSUME NEW k \in 1 .. L + 1
        PROVE  checks'[k].at <= clock' /\ \A j \in 1 .. k - 1 : checks'[j].at < checks'[k].at
    <3>1. CASE k = L + 1
      BY <3>1, <1>1, <1>2, <1>4, <1>5
    <3>2. CASE k \in 1 .. L
      BY <3>2, <1>1, <1>2, <1>4, <1>5
    <3> QED
      BY <3>1, <3>2, <1>2
  <2> QED
    BY <2>1, <1>2 DEF InTimeOrder
<1>7. monitor'.state \notin LifecycleStates
  BY DEF Recorded, Answered, Unanswered, CountsFailure, OpensOutage
<1> QED
  BY <1>3, <1>6, <1>7 DEF NoChecksAside

LEMMA RecordKeepsActivation ==
  ASSUME History, NEW e, NEW o, Recorded(e, o)
  PROVE  ActivationKept'
<1> DEFINE L == LastCheck
<1>1. Appends(e, L)
  BY DEF Recorded
<1>2. /\ L \in Nat /\ LastCheck' = L + 1
      /\ \A k \in 1 .. L : checks'[k] = checks[k]
      /\ checks'[L + 1] = e
  BY <1>1, AppendFacts
<1>3. monitor.activatedAt # None <=> (activated \/ \E j \in 1 .. L : checks[j].successful)
  BY <1>2 DEF History, ActivationKept, ActiveAt
<1>4. ActiveAt(LastCheck + 1)' <=> (activated' \/ \E j \in 1 .. L + 1 : checks'[j].successful)
  BY <1>2 DEF ActiveAt
<1>5. activated' = activated
  BY <1>1 DEF Appends
<1>6. (\E j \in 1 .. L + 1 : checks'[j].successful)
        <=> ((\E j \in 1 .. L : checks[j].successful) \/ e.successful)
  <2> HIDE DEF L
  <2>1. 1 .. L + 1 = (1 .. L) \cup {L + 1}
    BY <1>2
  <2> QED
    BY <2>1, <1>2
<1>7. \/ e.successful = TRUE /\ monitor'.activatedAt # None
      \/ e.successful = FALSE /\ monitor'.activatedAt = monitor.activatedAt
  BY DEF Recorded, Answered, Unanswered
<1> QED
  BY <1>3, <1>4, <1>5, <1>6, <1>7 DEF ActivationKept

LEMMA CheckTimes ==
  ASSUME HistoryType
  PROVE  LastCheck \in Nat /\ \A k \in 1 .. LastCheck : checks[k].at \in Nat
<1>1. LastCheck \in Nat /\ \A k \in 1 .. LastCheck : checks[k] \in CheckRecord
  BY DEF HistoryType, LastCheck
<1> QED
  BY <1>1 DEF CheckRecord

\* The counters and dates a step reads, from the streaks.
LEMMA FailuresAre ==
  ASSUME HistoryType, NEW f \in 1 .. LastCheck + 1, NEW s, CountersMatch(f, s), NEW at \in Nat,
         monitor.state \in CheckStates \ DownStates
  PROVE  /\ Failures(monitor) = LastCheck + 2 - f
         /\ FirstFailure(monitor, at) = IF f <= LastCheck THEN checks[f].at ELSE at
<1>1. LastCheck \in Nat /\ \A k \in 1 .. LastCheck : checks[k].at \in Nat
  BY CheckTimes
<1>2. CASE Counting(monitor)
  BY <1>1, <1>2, NoneAssumption DEF CountersMatch, Failures, FirstFailure
<1>3. CASE ~Counting(monitor)
  BY <1>1, <1>3 DEF CountersMatch, Failures, FirstFailure, Counting
<1> QED
  BY <1>2, <1>3

LEMMA SuccessesAre ==
  ASSUME HistoryType, NEW f, NEW s \in 1 .. LastCheck + 1, CountersMatch(f, s), NEW at \in Nat,
         monitor.state \in DownStates
  PROVE  /\ Successes(monitor) = LastCheck + 2 - s
         /\ FirstSuccess(monitor, at) = IF s <= LastCheck THEN checks[s].at ELSE at
<1>1. LastCheck \in Nat /\ \A k \in 1 .. LastCheck : checks[k].at \in Nat
  BY CheckTimes
<1>2. CASE monitor.state = "VERIFYING_UP"
  BY <1>1, <1>2, NoneAssumption DEF CountersMatch, Successes, FirstSuccess
<1>3. CASE monitor.state = "DOWN"
  BY <1>1, <1>3 DEF CountersMatch, Successes, FirstSuccess
<1> QED
  BY <1>2, <1>3

LEMMA RecordKeepsCounts ==
  ASSUME History, NEW e, NEW o, Recorded(e, o)
  PROVE  Counted'
<1>a. PICK L : L = LastCheck
  OBVIOUS
<1>b. PICK f, s \in 1 .. L + 1 :
        Streak(L, FALSE) = f .. L /\ Streak(L, TRUE) = s .. L /\ CountersMatch(f, s)
  BY <1>a DEF History, Counted
<1>1. Appends(e, L)
  BY <1>a DEF Recorded
<1>2. /\ L \in Nat /\ LastCheck' = L + 1
      /\ \A k \in 1 .. L : checks'[k] = checks[k]
      /\ checks'[L + 1] = e
      /\ e.at \in Nat /\ e.successful \in BOOLEAN
  BY <1>1, AppendFacts
<1>c. PICK f1 : f1 = IF e.successful = FALSE THEN f ELSE L + 2
  OBVIOUS
<1>d. PICK s1 : s1 = IF e.successful = TRUE THEN s ELSE L + 2
  OBVIOUS
<1>3. Streak(L + 1, FALSE)' = f1 .. L + 1 /\ Streak(L + 1, TRUE)' = s1 .. L + 1
  BY <1>1, <1>b, <1>c, <1>d, StreakGrows
<1>4. f1 \in 1 .. (L + 1) + 1 /\ s1 \in 1 .. (L + 1) + 1
  BY <1>2, <1>b, <1>c, <1>d
<1>5. HistoryType /\ ActivationKept
  BY DEF History
<1>6. monitor' = o.next /\ monitor.state \in CheckStates
  BY DEF Recorded
<1>7. CountersMatch(f1, s1)'
  <2>1. SUFFICES
        /\ Counting(o.next) =>
             /\ o.next.consecutiveFailures = (L + 1) + 1 - f1
             /\ f1 <= L + 1 => o.next.firstFailureAt = checks'[f1].at
             /\ f1 = (L + 1) + 1 => o.next.firstFailureAt = None
        /\ o.next.state = "UP" => f1 = (L + 1) + 1
        /\ o.next.state \in {"UP", "VERIFYING_DOWN"} => o.next.activatedAt # None
        /\ o.next.state = "DOWN" => s1 = (L + 1) + 1
        /\ o.next.state = "VERIFYING_UP" =>
             /\ s1 <= L + 1
             /\ o.next.consecutiveSuccesses = (L + 1) + 1 - s1
             /\ o.next.firstSuccessAt = checks'[s1].at
    BY <1>2, <1>6 DEF CountersMatch, Counting
  <2>2. CASE e.successful = TRUE
    <3>1. Answered(monitor, e.at, e.thresholds[2], o)
      BY <2>2 DEF Recorded
    <3>2. o.next.state \in {"UP", "VERIFYING_UP"} /\ o.next.activatedAt # None
      BY <3>1 DEF Answered
    <3>3. ASSUME o.next.state = "VERIFYING_UP"
          PROVE  /\ s1 <= L + 1
                 /\ o.next.consecutiveSuccesses = (L + 1) + 1 - s1
                 /\ o.next.firstSuccessAt = checks'[s1].at
      <4>1. /\ monitor.state \in DownStates
            /\ o.next.consecutiveSuccesses = Successes(monitor)
            /\ o.next.firstSuccessAt = FirstSuccess(monitor, e.at)
        BY <3>1, <3>3 DEF Answered
      <4>2. /\ Successes(monitor) = L + 2 - s
            /\ FirstSuccess(monitor, e.at) = IF s <= L THEN checks[s].at ELSE e.at
        BY <4>1, <1>a, <1>b, <1>2, <1>5, SuccessesAre
      <4>3. s1 = s /\ s \in 1 .. L + 1
        BY <2>2, <1>b, <1>d
      <4>4. checks'[s].at = IF s <= L THEN checks[s].at ELSE e.at
        BY <1>2, <4>3
      <4> QED
        BY <4>1, <4>2, <4>3, <4>4, <1>2
    <3> QED
      BY <2>2, <3>2, <3>3, <1>2, <1>c DEF Counting
  <2>3. CASE e.successful = FALSE
    <3>1. Unanswered(monitor, e.at, e.thresholds[1], o)
      BY <2>3 DEF Recorded
    <3>2. s1 = (L + 1) + 1
      BY <2>3, <1>d, <1>2
    <3>3. CASE o.next.state = "DOWN"
      BY <3>2, <3>3 DEF Counting
    <3>4. CASE CountsFailure(monitor, e.at, e.thresholds[1], o)
      <4>1. /\ monitor.state \in CheckStates \ DownStates
            /\ o.next.state = IF monitor.state = "PENDING" THEN "PENDING" ELSE "VERIFYING_DOWN"
            /\ o.next.consecutiveFailures = Failures(monitor)
            /\ o.next.firstFailureAt = FirstFailure(monitor, e.at)
            /\ o.next.activatedAt = monitor.activatedAt
        BY <3>1, <3>4 DEF CountsFailure, Unanswered
      <4>2. /\ Failures(monitor) = L + 2 - f
            /\ FirstFailure(monitor, e.at) = IF f <= L THEN checks[f].at ELSE e.at
        BY <4>1, <1>a, <1>b, <1>2, <1>5, FailuresAre
      <4>3. f1 = f /\ f \in 1 .. L + 1
        BY <2>3, <1>b, <1>c
      <4>4. checks'[f].at = IF f <= L THEN checks[f].at ELSE e.at
        BY <1>2, <4>3
      <4>5. o.next.state = "VERIFYING_DOWN" => o.next.activatedAt # None
        BY <4>1, <1>b DEF CountersMatch
      <4>6. o.next.state \in {"PENDING", "VERIFYING_DOWN"}
        BY <4>1
      <4>7. /\ o.next.consecutiveFailures = (L + 1) + 1 - f1
            /\ f1 <= L + 1
            /\ o.next.firstFailureAt = checks'[f1].at
        BY <4>1, <4>2, <4>3, <4>4, <1>2
      <4> QED
        BY <4>5, <4>6, <4>7, <1>2
    <3> QED
      BY <3>1, <3>3, <3>4 DEF Unanswered, OpensOutage
  <2> QED
    BY <2>2, <2>3, <1>2
<1>8. Streak(LastCheck, FALSE)' = f1 .. L + 1 /\ Streak(LastCheck, TRUE)' = s1 .. L + 1
  BY <1>2, <1>3 DEF Streak
<1> QED
  BY <1>2, <1>4, <1>7, <1>8 DEF Counted

\* The new check's verdict is the state machine's.
LEMMA RecordKeepsVerdict ==
  ASSUME History, NEW e, NEW o, Recorded(e, o)
  PROVE  DownInOutage' /\ OutageDated'
<1>a. PICK L : L = LastCheck
  OBVIOUS
<1>b. PICK f, s \in 1 .. L + 1 :
        Streak(L, FALSE) = f .. L /\ Streak(L, TRUE) = s .. L /\ CountersMatch(f, s)
  BY <1>a DEF History, Counted
<1>1. Appends(e, L)
  BY <1>a DEF Recorded
<1>2. /\ L \in Nat /\ LastCheck' = L + 1
      /\ \A k \in 1 .. L : checks'[k] = checks[k]
      /\ checks'[L + 1] = e
      /\ e.at \in Nat /\ e.successful \in BOOLEAN
  BY <1>1, AppendFacts
<1>t. PICK t1, t2 \in Nat \ {0} : e.thresholds[1] = t1 /\ e.thresholds[2] = t2
  BY <1>1, AppendFacts
<1>c. PICK out \in BOOLEAN : out <=> ConfirmsOutage(L + 1)'
  OBVIOUS
<1>d. PICK rec \in BOOLEAN : rec <=> ConfirmsRecovery(L + 1)'
  OBVIOUS
<1>e. PICK before : before = Confirming(L)
  OBVIOUS
<1>g. PICK after : after = Confirming(L + 1)'
  OBVIOUS
<1>3. /\ out <=> ActiveAt(L + 1) /\ ~e.successful /\ L + 2 - f >= t1
      /\ rec <=> e.successful /\ L + 2 - s >= t2
  BY <1>1, <1>b, <1>c, <1>d, <1>t, NewVerdict
<1>4. after = {c \in before : ~rec} \cup {c \in {L + 1} : out}
  BY <1>1, <1>c, <1>d, <1>e, <1>g, ConfirmingGrows
<1>5. HistoryType /\ monitor' = o.next /\ monitor.state \in CheckStates
  BY DEF History, Recorded
<1>6. /\ monitor.state \in DownStates <=> before # {}
      /\ monitor.activatedAt # None <=> ActiveAt(L + 1)
  BY <1>a, <1>e DEF History, DownInOutage, InOutage, ActivationKept
<1>7. Confirming(LastCheck)' = after
  BY <1>2, <1>g DEF Confirming
<1>8. before \subseteq 1 .. L
  BY <1>e DEF Confirming
\* It suffices to look at the row that comes out and the confirmations left.
<1>9. SUFFICES /\ o.next.state \in DownStates <=> after # {}
               /\ after # {} => \E c \in after : \E g \in 1 .. c :
                    /\ \A d \in after : c <= d
                    /\ Streak(c, FALSE)' = g .. c
                    /\ o.next.activeIncident = checks'[g].at
  BY <1>5, <1>7 DEF DownInOutage, InOutage, OutageDated, Dates
\* A step that keeps the incident and the first confirmation keeps its date.
<1>10. ASSUME before # {}, before \subseteq after, after \subseteq before \cup {L + 1},
              o.next.activeIncident = monitor.activeIncident
       PROVE  \E c \in after : \E g \in 1 .. c :
                    /\ \A d \in after : c <= d
                    /\ Streak(c, FALSE)' = g .. c
                    /\ o.next.activeIncident = checks'[g].at
  <2>1. PICK c \in before : \E g \in 1 .. c :
          /\ \A d \in before : c <= d
          /\ Streak(c, FALSE) = g .. c
          /\ monitor.activeIncident = checks[g].at
    BY <1>a, <1>e, <1>10 DEF History, OutageDated, InOutage, Dates
  <2>2. PICK g \in 1 .. c :
          /\ \A d \in before : c <= d
          /\ Streak(c, FALSE) = g .. c
          /\ monitor.activeIncident = checks[g].at
    BY <2>1
  <2>3. c \in 1 .. L /\ g \in 1 .. L
    BY <2>1, <2>2, <1>2, <1>8
  <2>4. Streak(c, FALSE)' = g .. c
    BY <2>2, <2>3, <1>1, StreaksKept
  <2>5. \A d \in after : c <= d
    BY <2>2, <2>3, <1>2, <1>10
  <2>6. o.next.activeIncident = checks'[g].at
    BY <2>2, <2>3, <1>2, <1>10
  <2> QED
    BY <2>1, <2>2, <2>4, <2>5, <2>6, <1>10
<1>11. CASE e.successful = TRUE
  <2>1. Answered(monitor, e.at, t2, o) /\ ~out
    BY <1>11, <1>3, <1>t DEF Recorded
  <2>2. CASE monitor.state \notin DownStates
    <3>1. before = {} /\ after = {}
      BY <2>1, <2>2, <1>4, <1>6
    <3>2. o.next.state = "UP"
      BY <2>1, <2>2 DEF Answered
    <3> QED
      BY <3>1, <3>2
  <2>3. CASE monitor.state \in DownStates
    <3>1. Successes(monitor) = L + 2 - s
      BY <2>3, <1>a, <1>b, <1>2, <1>5, SuccessesAre
    <3>2. rec <=> Successes(monitor) >= t2
      BY <3>1, <1>3, <1>11
    <3>3. CASE rec
      <4>1. after = {}
        BY <3>3, <2>1, <1>4
      <4>2. o.next.state = "UP"
        BY <3>2, <3>3, <2>1, <2>3, <3>1, <1>2, <1>b, <1>t DEF Answered
      <4> QED
        BY <4>1, <4>2
    <3>4. CASE ~rec
      <4>1. after = before /\ before # {}
        BY <3>4, <2>1, <2>3, <1>4, <1>6
      <4>2. o.next.state = "VERIFYING_UP" /\ o.next.activeIncident = monitor.activeIncident
        BY <3>2, <3>4, <2>1, <2>3 DEF Answered
      <4> QED
        BY <4>1, <4>2, <1>10
    <3> QED
      BY <3>3, <3>4
  <2> QED
    BY <2>2, <2>3
<1>12. CASE e.successful = FALSE
  <2>1. Unanswered(monitor, e.at, t1, o) /\ ~rec
    BY <1>12, <1>3, <1>t DEF Recorded
  <2>2. CASE monitor.state \in DownStates
    <3>1. o.next.state = "DOWN" /\ o.next.activeIncident = monitor.activeIncident
      BY <2>1, <2>2 DEF Unanswered, CountsFailure, OpensOutage
    <3>2. before # {} /\ before \subseteq after /\ after \subseteq before \cup {L + 1}
      BY <2>1, <2>2, <1>4, <1>6
    <3> QED
      BY <3>1, <3>2, <1>10
  <2>3. CASE monitor.state \notin DownStates
    <3>1. /\ Failures(monitor) = L + 2 - f
          /\ FirstFailure(monitor, e.at) = IF f <= L THEN checks[f].at ELSE e.at
      BY <2>3, <1>a, <1>b, <1>2, <1>5, FailuresAre
    <3>2. before = {}
      BY <2>3, <1>6
    <3>3. monitor.state \in {"UP", "VERIFYING_DOWN"} => monitor.activatedAt # None
      BY <1>b DEF CountersMatch
    <3>4. out <=> monitor.activatedAt # None /\ Failures(monitor) >= t1
      BY <3>1, <1>3, <1>6, <1>12
    <3>5. CASE CountsFailure(monitor, e.at, t1, o)
      <4>1. ~out
        BY <3>1, <3>4, <3>5, <1>2, <1>b, <1>t DEF CountsFailure
      <4>2. after = {}
        BY <4>1, <3>2, <1>4
      <4>3. o.next.state \notin DownStates
        BY <3>5 DEF CountsFailure
      <4> QED
        BY <4>2, <4>3
    <3>6. CASE OpensOutage(monitor, e.at, t1, o)
      <4>1. out
        BY <3>3, <3>4, <3>6, <1>5 DEF OpensOutage
      <4>2. after = {L + 1}
        BY <4>1, <3>2, <1>4
      <4>3. o.next.state = "DOWN" /\ o.next.activeIncident = FirstFailure(monitor, e.at)
        BY <3>6 DEF OpensOutage
      <4>4. Streak(L + 1, FALSE)' = f .. L + 1
        BY <1>1, <1>b, <1>12, StreakGrows
      <4>5. f \in 1 .. L + 1 /\ checks'[f].at = FirstFailure(monitor, e.at)
        BY <3>1, <1>2, <1>b
      <4>6. PICK c \in after : c = L + 1 /\ \A d \in after : c <= d
        BY <4>2, <1>2
      <4>7. \E g \in 1 .. c :
              /\ Streak(c, FALSE)' = g .. c
              /\ o.next.activeIncident = checks'[g].at
        BY <4>3, <4>4, <4>5, <4>6
      <4> QED
        BY <4>2, <4>3, <4>6, <4>7
    <3> QED
      BY <2>1, <2>3, <3>5, <3>6 DEF Unanswered
  <2> QED
    BY <2>2, <2>3
<1> QED
  BY <1>2, <1>11, <1>12

\* A lifecycle change starts the history over.
LEMMA LifecycleRow ==
  ASSUME NEW cur \in MonitorState, NEW target \in Targets, LifecycleChanges(cur, target)
  PROVE  /\ LifecycleState(cur, target) \in MonitorState
         /\ LifecycleState(cur, target).state \in {"PENDING", "PAUSED", "ARCHIVED"}
         /\ LifecycleState(cur, target).consecutiveFailures = 0
         /\ LifecycleState(cur, target).firstFailureAt = None
         /\ LifecycleState(cur, target).activatedAt = cur.activatedAt
<1>1. VersionSteps(cur, target) \in Nat
  BY DEF VersionSteps, LifecycleSteps, MonitorState
<1>2. PICK s \in {"PENDING", "PAUSED", "ARCHIVED"} : s = TargetState(cur.state, target)
  BY DEF LifecycleChanges, VersionSteps, LifecycleSteps, TargetState, Targets, MonitorState
<1>3. PICK v \in Nat : v = cur.version + VersionSteps(cur, target)
  BY <1>1 DEF MonitorState
<1>4. PICK row : row = LifecycleState(cur, target)
  OBVIOUS
<1>5. row = [cur EXCEPT !.state = s, !.consecutiveFailures = 0, !.consecutiveSuccesses = 0,
                        !.firstFailureAt = None, !.firstSuccessAt = None,
                        !.activeIncident = None, !.version = v]
  BY <1>2, <1>3, <1>4 DEF LifecycleState
<1>6. row \in MonitorState
  BY <1>2, <1>3, <1>5 DEF MonitorState
<1>7. /\ row.state = s /\ row.consecutiveFailures = 0 /\ row.firstFailureAt = None
      /\ row.activatedAt = cur.activatedAt
  BY <1>2, <1>3, <1>5 DEF MonitorState
<1> QED
  BY <1>2, <1>4, <1>6, <1>7

\* A row out of any outage, that counts nothing, fits an empty history.
Blank ==
  /\ HistoryType
  /\ checks = <<>>
  /\ monitor.state \in {"PENDING", "PAUSED", "ARCHIVED"}
  /\ monitor.consecutiveFailures = 0 /\ monitor.firstFailureAt = None
  /\ monitor.activatedAt # None <=> activated

LEMMA BlankHistory == Blank => History
<1> SUFFICES ASSUME Blank PROVE History
  OBVIOUS
<1> USE DEF Blank
<1>1. LastCheck = 0
  BY DEF LastCheck
<1>2. InTimeOrder /\ ActivationKept /\ NoChecksAside
  BY <1>1 DEF InTimeOrder, ActivationKept, NoChecksAside, ActiveAt
<1>3. \A v : Streak(0, v) = 1 .. 0
  BY DEF Streak
<1>4. CountersMatch(1, 1)
  BY <1>1 DEF CountersMatch
<1>5. Counted
  <2>1. PICK f \in 1 .. LastCheck + 1 : f = 1
    BY <1>1
  <2>2. Streak(LastCheck, FALSE) = f .. LastCheck /\ Streak(LastCheck, TRUE) = f .. LastCheck
    BY <1>1, <1>3, <2>1
  <2>3. CountersMatch(f, f)
    BY <1>4, <2>1
  <2> QED
    BY <2>1, <2>2, <2>3 DEF Counted
<1>6. Confirming(LastCheck) = {}
  BY <1>1 DEF Confirming
<1>7. DownInOutage /\ OutageDated
  BY <1>6 DEF DownInOutage, OutageDated, InOutage
<1> QED
  BY <1>2, <1>5, <1>7 DEF History

LEMMA HistoryBegins ==
  ASSUME HistoryInit
  PROVE  History
<1>1. PICK enabled \in BOOLEAN : monitor = NewMonitor(enabled)
  BY DEF HistoryInit
<1>2. /\ monitor \in MonitorState
      /\ monitor.state \in {"PENDING", "PAUSED", "ARCHIVED"}
      /\ monitor.consecutiveFailures = 0 /\ monitor.firstFailureAt = None
      /\ monitor.activatedAt = None
  BY <1>1 DEF NewMonitor, MonitorState
<1>3. checks = <<>> /\ checks \in Seq(CheckRecord)
  BY DEF HistoryInit
<1>4. activated = FALSE /\ clock = 0
  BY DEF HistoryInit
<1>5. HistoryType
  BY <1>2, <1>3, <1>4 DEF HistoryType
<1>6. Blank
  BY <1>2, <1>3, <1>4, <1>5 DEF Blank
<1> QED
  BY <1>6, BlankHistory

LEMMA LifecycleKeepsHistory ==
  ASSUME History, Lifecycle
  PROVE  History'
<1>1. PICK target \in Targets :
        LifecycleChanges(monitor, target) /\ monitor' = LifecycleState(monitor, target)
  BY DEF Lifecycle
<1>2. monitor \in MonitorState /\ clock \in Nat /\ activated \in BOOLEAN
  BY DEF History, HistoryType
<1>3. /\ monitor' \in MonitorState
      /\ monitor'.state \in {"PENDING", "PAUSED", "ARCHIVED"}
      /\ monitor'.consecutiveFailures = 0 /\ monitor'.firstFailureAt = None
      /\ monitor'.activatedAt = monitor.activatedAt
  BY <1>1, <1>2, LifecycleRow
<1>4. checks' = <<>> /\ clock' = clock + 1
      /\ activated' = (activated \/ \E k \in DOMAIN checks : checks[k].successful)
  BY DEF Lifecycle, Tick
<1>5. monitor.activatedAt # None <=> activated'
  <2>1. checks \in Seq(CheckRecord)
    BY DEF History, HistoryType
  <2>2. DOMAIN checks = 1 .. (LastCheck + 1) - 1
    BY <2>1 DEF LastCheck
  <2> QED
    BY <2>2, <1>4 DEF History, ActivationKept, ActiveAt
<1>6. activated' \in BOOLEAN
  BY <1>2, <1>4
<1>7. HistoryType'
  BY <1>2, <1>3, <1>4, <1>6 DEF HistoryType
<1>8. Blank'
  BY <1>3, <1>4, <1>5, <1>7 DEF Blank
<1>9. Blank' => History'
  BY BlankHistory, PTL
<1> QED
  BY <1>8, <1>9

LEMMA HistoryStep == History /\ [HistoryNext]_historyVars => History'
<1> SUFFICES ASSUME History, [HistoryNext]_historyVars
             PROVE  History'
  OBVIOUS
<1>1. CASE RecordCheck
  <2>1. PICK e, o : Recorded(e, o)
    BY <1>1, RecordFacts DEF History
  <2>2. HistoryType' /\ InTimeOrder' /\ NoChecksAside'
    BY <2>1, RecordKeepsOrder
  <2>3. ActivationKept'
    BY <2>1, RecordKeepsActivation
  <2>4. Counted'
    BY <2>1, RecordKeepsCounts
  <2>5. DownInOutage' /\ OutageDated'
    BY <2>1, RecordKeepsVerdict
  <2> QED
    BY <2>2, <2>3, <2>4, <2>5 DEF History
<1>2. CASE Lifecycle
  BY <1>2, LifecycleKeepsHistory
<1>3. CASE UNCHANGED historyVars
  <2>1. /\ monitor' = monitor /\ checks' = checks /\ activated' = activated
        /\ clock' = clock /\ LastCheck' = LastCheck
    BY <1>3 DEF historyVars, LastCheck
  <2>2. \A k, v : Streak(k, v)' = Streak(k, v)
    BY <2>1 DEF Streak
  <2>3. \A k : ConfirmsOutage(k)' = ConfirmsOutage(k) /\ ConfirmsRecovery(k)' = ConfirmsRecovery(k)
    BY <2>1, <2>2 DEF ConfirmsOutage, ConfirmsRecovery, ActiveAt
  <2>4. Confirming(LastCheck)' = Confirming(LastCheck)
    BY <2>1, <2>3 DEF Confirming
  <2>5. \A f, s : CountersMatch(f, s)' = CountersMatch(f, s)
    BY <2>1 DEF CountersMatch, Counting
  <2>6. \A c, f : Dates(c, f)' = Dates(c, f)
    BY <2>1, <2>2, <2>4 DEF Dates
  <2>7. Streak(LastCheck, FALSE)' = Streak(LastCheck, FALSE)
        /\ Streak(LastCheck, TRUE)' = Streak(LastCheck, TRUE)
    BY <2>1 DEF Streak
  <2>8. HistoryType' /\ InTimeOrder' /\ ActivationKept' /\ NoChecksAside'
    BY <2>1 DEF History, HistoryType, InTimeOrder, ActivationKept, NoChecksAside, ActiveAt
  <2>9. Counted'
    BY <2>1, <2>5, <2>7 DEF History, Counted
  <2>10. DownInOutage' /\ OutageDated'
    BY <2>1, <2>4, <2>6 DEF History, DownInOutage, OutageDated, InOutage
  <2> QED
    BY <2>8, <2>9, <2>10 DEF History
<1> QED
  BY <1>1, <1>2, <1>3 DEF HistoryNext

LEMMA HistoryAlways == HistorySpec => []History
<1>1. HistoryInit => History
  BY HistoryBegins
<1> QED
  BY <1>1, HistoryStep, PTL DEF HistorySpec

\* The state machine keeps only counters and dates, and yet a monitor is down
\* exactly when its results, counted afresh, put it in an outage.
THEOREM VerdictsMatch == HistorySpec => []VerdictMatchesHistory
<1>1. History => VerdictMatchesHistory
  BY DEF History, DownInOutage, VerdictMatchesHistory
<1> QED
  BY <1>1, HistoryAlways, PTL

\* The incident of a monitor is dated from the first failure of the streak that
\* confirmed it, whatever happened since.
THEOREM OutagesAreDated == HistorySpec => []OutageStart
<1>1. ASSUME History, InOutage
      PROVE  monitor.activeIncident = checks[FirstOf(Streak(FirstOf(Confirming(LastCheck)), FALSE))].at
  <2>1. PICK c \in Confirming(LastCheck) : \E f \in 1 .. c : Dates(c, f)
    BY <1>1 DEF History, OutageDated
  <2>f. PICK f \in 1 .. c : Dates(c, f)
    BY <2>1
  <2>2. Confirming(LastCheck) \subseteq Int /\ c \in Nat
    BY <2>1 DEF Confirming
  <2>3. FirstOf(Confirming(LastCheck)) = c
    BY <2>1, <2>f, <2>2, FirstIs DEF Dates
  <2>4. FirstOf(f .. c) = f
    BY <2>f, <2>2, FirstOfInterval
  <2> QED
    BY <2>f, <2>3, <2>4 DEF Dates
<1>2. History => OutageStart
  BY <1>1 DEF OutageStart
<1> QED
  BY <1>2, HistoryAlways, PTL

\* A recovery is dated from the first success of the streak that confirmed it,
\* after the outage it ends.
LEMMA RecoveryIsDated ==
  ASSUME History, RecordCheck, outage' # outage
  PROVE  /\ outage'.openedAt = monitor.activeIncident
         /\ outage'.openedAt < outage'.resolvedAt
         /\ outage'.resolvedAt = checks'[FirstOf(Streak(LastCheck, TRUE)')].at
<1>1. PICK e, o : Recorded(e, o)
  BY RecordFacts DEF History
<1>a. PICK L : L = LastCheck
  OBVIOUS
<1>b. PICK f, s \in 1 .. L + 1 :
        Streak(L, FALSE) = f .. L /\ Streak(L, TRUE) = s .. L /\ CountersMatch(f, s)
  BY <1>a DEF History, Counted
<1>2. Appends(e, L) /\ HistoryType /\ InTimeOrder'
  BY <1>1, <1>a, RecordKeepsOrder DEF Recorded, History
<1>3. /\ L \in Nat /\ LastCheck' = L + 1
      /\ \A k \in 1 .. L : checks'[k] = checks[k]
      /\ checks'[L + 1] = e /\ e.at \in Nat
  BY <1>2, AppendFacts
<1>4. /\ o.intent.type = "resolve"
      /\ outage' = [openedAt |-> o.intent.incident, resolvedAt |-> o.intent.firstSuccessAt]
  BY <1>1 DEF Recorded
<1>5. e.successful = TRUE /\ Answered(monitor, e.at, e.thresholds[2], o)
  BY <1>1, <1>4 DEF Recorded, Unanswered
<1>6. /\ monitor.state \in DownStates
      /\ o.intent.incident = monitor.activeIncident
      /\ o.intent.firstSuccessAt = FirstSuccess(monitor, e.at)
  BY <1>4, <1>5 DEF Answered
<1>7. FirstSuccess(monitor, e.at) = checks'[s].at
  <2>1. FirstSuccess(monitor, e.at) = IF s <= L THEN checks[s].at ELSE e.at
    BY <1>2, <1>3, <1>6, <1>a, <1>b, SuccessesAre
  <2> QED
    BY <2>1, <1>3, <1>b
<1>8. FirstOf(Streak(LastCheck, TRUE)') = s
  <2>1. Streak(L + 1, TRUE)' = s .. L + 1
    BY <1>2, <1>5, <1>b, StreakGrows
  <2>2. Streak(LastCheck, TRUE)' = s .. L + 1
    BY <2>1, <1>3 DEF Streak
  <2>3. FirstOf(s .. L + 1) = s
    BY <1>3, <1>b, FirstOfInterval
  <2> QED
    BY <2>2, <2>3
<1>9. PICK g \in 1 .. L : monitor.activeIncident = checks[g].at /\ checks[g].successful = FALSE
  <2>0. PICK c \in Confirming(L) : \E g \in 1 .. c : Dates(c, g)
    BY <1>6, <1>a DEF History, DownInOutage, OutageDated
  <2>1. PICK g \in 1 .. c : Dates(c, g)
    BY <2>0
  <2>2. c \in 1 .. L /\ g \in 1 .. L
    BY <1>3, <2>0, <2>1 DEF Confirming
  <2>3. g \in Streak(c, FALSE)
    <3>1. Streak(c, FALSE) = g .. c
      BY <2>1 DEF Dates
    <3>2. g \in g .. c
      BY <2>1, <2>2, <1>3
    <3> QED
      BY <3>1, <3>2
  <2>4. checks[g].successful = FALSE
    BY <2>2, <2>3 DEF Streak
  <2> QED
    BY <2>1, <2>2, <2>4 DEF Dates
\* A failure of the outage is no success of the recovery: it came before them.
<1>10. g < s
  <2>1. SUFFICES ASSUME s <= g PROVE FALSE
    BY <1>3, <1>9, <1>b
  <2>2. g \in s .. L
    BY <2>1, <1>3, <1>9, <1>b
  <2>3. checks[g].successful = TRUE
    <3>1. g \in {j \in 1 .. L : \A n \in j .. L : checks[n].successful = TRUE}
      BY <2>2, <1>b DEF Streak
    <3> QED
      BY <3>1, <1>3, <1>9
  <2> QED
    BY <2>3, <1>9
<1>11. checks'[g].at < checks'[s].at
  BY <1>2, <1>3, <1>9, <1>10, <1>b DEF InTimeOrder
<1> QED
  BY <1>3, <1>4, <1>6, <1>7, <1>8, <1>9, <1>11

THEOREM RecoveriesAreDated == HistorySpec => OutageEnd
<1>1. History /\ [HistoryNext]_historyVars =>
        [outage' # outage =>
           /\ outage'.openedAt = monitor.activeIncident
           /\ outage'.openedAt < outage'.resolvedAt
           /\ outage'.resolvedAt = checks'[FirstOf(Streak(LastCheck, TRUE)')].at]_historyVars
  <2>1. Lifecycle => outage' = outage
    BY DEF Lifecycle
  <2> QED
    BY <2>1, RecoveryIsDated DEF HistoryNext
<1> QED
  BY <1>1, HistoryAlways, PTL DEF HistorySpec, OutageEnd
=============================================================================
