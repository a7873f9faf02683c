----------------------------- MODULE Monitoring -----------------------------
(***************************************************************************)
(* The monitoring minute against configuration changes, over the tables    *)
(* monitor_state, incidents and notification_outbox.  A check-monitors run *)
(* reads every state row (loadConfig), checks the due monitors, and writes *)
(* the whole minute with one statement (persistAtomicMinute) that aborts   *)
(* when any row's version has moved.  Meanwhile configuration transactions *)
(* of the API and of runs themselves apply lifecycle changes under one     *)
(* advisory lock (synchronizeRegistry).  The lease keeps live runs apart,  *)
(* but the statement of a killed run can still land during the next one:   *)
(* runs overlap freely here.                                               *)
(***************************************************************************)
EXTENDS MonitorStateMachine, FiniteSets

CONSTANTS
  Monitors,    \* monitor ids
  Runs,        \* slots for check-monitors runs in progress
  MaxTime,     \* bound on the clock
  MaxVersion   \* bound on the versions lifecycle changes lead to

ASSUME BoundsAssumption == MaxTime \in Nat /\ MaxVersion \in Nat
ASSUME ReasonsAssumption == None \notin {"recovered", "lifecycle"}

VARIABLES
  now,        \* the clock
  monitors,   \* monitor_state, by monitor
  incidents,  \* rows of incidents
  outbox,     \* idempotency keys in notification_outbox, one recipient
  run,        \* each run: its step, its snapshot and its check results
  config      \* the open configuration transaction

vars == <<now, monitors, incidents, outbox, run, config>>

Modes == {"runtime", "api"}
NoConfig == [mode |-> "none", writtenAt |-> 0]

Incident ==
  [monitor : Monitors, openedAt : Nat, resolvedAt : Time,
   reason : {None, "recovered", "lifecycle"}]

NotDue == "not due"
Results == {NotDue, "success", "failure"}

RunState ==
  [step : {"idle", "loaded", "checked"}, states : [Monitors -> MonitorState],
   checkedAt : Nat, results : [Monitors -> Results], thresholds : Thresholds]

IsOpen(i) == i.resolvedAt = None
OpenIncidents(m) == {i \in incidents : i.monitor = m /\ IsOpen(i)}

TypeOK ==
  /\ now \in 0 .. MaxTime
  /\ monitors \in [Monitors -> MonitorState]
  /\ incidents \subseteq Incident
  /\ outbox \subseteq Monitors \X Nat \X {"opened", "resolved"}
  /\ run \in [Runs -> RunState]
  /\ config \in [mode : Modes \cup {"none"}, writtenAt : Nat]

Idle(states) ==
  [step |-> "idle", states |-> states, checkedAt |-> 0,
   results |-> [m \in Monitors |-> NotDue],
   thresholds |-> CHOOSE t \in Thresholds : TRUE]

Fresh == [m \in Monitors |-> NewMonitor(TRUE)]

Init ==
  /\ now = 0
  /\ monitors \in [Monitors -> {NewMonitor(TRUE), NewMonitor(FALSE)}]
  /\ incidents = {}
  /\ outbox = {}
  /\ run = [r \in Runs |-> Idle(Fresh)]
  /\ config = NoConfig
-----------------------------------------------------------------------------
\* A configuration transaction takes the lock and reads the database clock.
BeginConfig(mode) ==
  /\ config = NoConfig
  /\ config' = [mode |-> mode, writtenAt |-> now]
  /\ UNCHANGED <<now, monitors, incidents, outbox, run>>

\* The row of the incident that monitor m's state names.
ActiveIncident(i, m) ==
  /\ i.monitor = m
  /\ i.openedAt = monitors[m].activeIncident
  /\ IsOpen(i)

\* A runtime synchronization insists on finding the incident it resolves.
ResolutionFound(m) == \E i \in incidents : ActiveIncident(i, m)

\* Mutant: nothing compares a resolution with its incident's opening.
ResolutionInOrder_Ignored(m) == TRUE

\* incidents_resolution_order
ResolutionInOrder(m) ==
  \A i \in incidents : ActiveIncident(i, m) => i.openedAt <= config.writtenAt

LifecycleResolved(i, targets) ==
  LET m == i.monitor
  IN  LifecycleResolves(monitors[m], targets[m]) /\ ActiveIncident(i, m)

\* synchronizeRegistry locks the rows, applies each monitor's lifecycle target
\* and commits, for any targets the new configuration sets.
CommitConfig ==
  /\ config # NoConfig
  /\ \E targets \in [Monitors -> Targets] :
       /\ \A m \in Monitors : LifecycleResolves(monitors[m], targets[m]) =>
            /\ config.mode = "runtime" => ResolutionFound(m)
            /\ ResolutionInOrder(m)
       /\ monitors' = [m \in Monitors |-> LifecycleState(monitors[m], targets[m])]
       /\ \A m \in Monitors : monitors'[m].version <= MaxVersion
       /\ incidents' =
            {IF LifecycleResolved(i, targets)
             THEN [i EXCEPT !.resolvedAt = config.writtenAt, !.reason = "lifecycle"]
             ELSE i : i \in incidents}
  /\ config' = NoConfig
  /\ UNCHANGED <<now, outbox, run>>

\* The transaction fails, or a resolution in it violates a constraint.
AbortConfig ==
  /\ config # NoConfig
  /\ config' = NoConfig
  /\ UNCHANGED <<now, monitors, incidents, outbox, run>>
-----------------------------------------------------------------------------
\* loadConfig reads the state rows after its own transaction has committed.
Load(r) ==
  /\ run[r].step = "idle"
  /\ run' = [run EXCEPT ![r] = [Idle(monitors) EXCEPT !.step = "loaded"]]
  /\ UNCHANGED <<now, monitors, incidents, outbox, config>>

\* The due monitors of the run's configuration, which need not be those the
\* snapshot says are active, are checked; some may be skipped for lack of time.
Check(r) ==
  /\ run[r].step = "loaded"
  /\ now < MaxTime
  /\ now' = now + 1
  /\ \E results \in [Monitors -> Results], thresholds \in Thresholds :
       run' = [run EXCEPT ![r] = [@ EXCEPT !.step = "checked",
                                           !.checkedAt = now',
                                           !.results = results,
                                           !.thresholds = thresholds]]
  /\ UNCHANGED <<monitors, incidents, outbox, config>>

Outcomes(r) ==
  [m \in Monitors |->
     CheckedState(run[r].states[m], run[r].checkedAt, run[r].results[m] = "success",
                  run[r].thresholds[1], run[r].thresholds[2])]

\* The monitors whose row the minute writes.
Rows(r) ==
  {m \in Monitors : run[r].results[m] # NotDue /\ run[r].states[m].state \in CheckStates}

Throws(r) ==
  \E m \in Rows(r) : CheckThrows(run[r].states[m], run[r].results[m] = "success",
                                 run[r].thresholds[2])

\* Mutant: the minute overwrites whatever the rows hold.
VersionsMatch_Ignored(r) == TRUE

\* state_update matches every row only at its expected version, or
\* pulse_assert_equal aborts the statement.
VersionsMatch(r) == \A m \in Rows(r) : monitors[m].version = run[r].states[m].version

Opens(r)    == {m \in Rows(r) : Outcomes(r)[m].intent.type = "open"}
Resolves(r) == {m \in Rows(r) : Outcomes(r)[m].intent.type = "resolve"}

OpenedRow(m, t) == [monitor |-> m, openedAt |-> t, resolvedAt |-> None, reason |-> None]

OpenedRows(r) == {OpenedRow(m, Outcomes(r)[m].intent.firstFailureAt) : m \in Opens(r)}

\* An opened incident whose id exists already is dropped, its notice with it.
SameId(i, j) == i.monitor = j.monitor /\ i.openedAt = j.openedAt
Inserted(r) == {i \in OpenedRows(r) : \A j \in incidents : ~SameId(i, j)}

\* incidents_one_active_per_monitor
OneActive(r) == \A i \in Inserted(r) : OpenIncidents(i.monitor) = {}

\* Mutant: a recovery resolves every incident of its monitor.
MinuteResolved_AnyIncident(i, r) == i.monitor \in Resolves(r)

MinuteResolved(i, r) ==
  /\ i.monitor \in Resolves(r)
  /\ i.openedAt = Outcomes(r)[i.monitor].intent.incident
  /\ IsOpen(i)

\* Mutant: recoveries are not announced.
Notices_OpenedOnly(r) == {<<i.monitor, i.openedAt, "opened">> : i \in Inserted(r)}

Notices(r) ==
  {<<i.monitor, i.openedAt, "opened">> : i \in Inserted(r)} \cup
  {<<m, Outcomes(r)[m].intent.incident, "resolved">> : m \in Resolves(r)}

\* PERSIST_ATOMIC_MINUTE_SQL: state, incidents and outbox in one statement.
Persist(r) ==
  /\ run[r].step = "checked"
  /\ ~Throws(r)
  /\ VersionsMatch(r)
  /\ OneActive(r)
  /\ monitors' = [m \in Monitors |->
                    IF m \in Rows(r) THEN Outcomes(r)[m].next ELSE monitors[m]]
  /\ incidents' =
       {IF MinuteResolved(i, r)
        THEN [i EXCEPT !.resolvedAt = Outcomes(r)[i.monitor].intent.firstSuccessAt,
                       !.reason = "recovered"]
        ELSE i : i \in incidents} \cup Inserted(r)
  /\ outbox' = outbox \cup Notices(r)
  /\ run' = [run EXCEPT ![r] = Idle(Fresh)]
  /\ UNCHANGED <<now, config>>

\* The run throws, its statement aborts, or it is killed before either.
Lose(r) ==
  /\ run[r].step # "idle"
  /\ run' = [run EXCEPT ![r] = Idle(Fresh)]
  /\ UNCHANGED <<now, monitors, incidents, outbox, config>>

Next ==
  \/ \E mode \in Modes : BeginConfig(mode)
  \/ CommitConfig \/ AbortConfig
  \/ \E r \in Runs : Load(r) \/ Check(r) \/ Persist(r) \/ Lose(r)

Spec == Init /\ [][Next]_vars
-----------------------------------------------------------------------------
\* The state row and the incidents table agree: a monitor is in an outage
\* exactly when its row names an incident, that incident is open and it is the
\* monitor's only open one.
IncidentMatchesState ==
  \A m \in Monitors :
    /\ monitors[m].state \in DownStates <=> monitors[m].activeIncident # None
    /\ \A i \in OpenIncidents(m) : i.openedAt = monitors[m].activeIncident
    /\ monitors[m].activeIncident # None =>
         \E i \in OpenIncidents(m) : i.openedAt = monitors[m].activeIncident

\* No snapshot a run works on makes the confirming success throw ("Cannot
\* resolve DOWN monitor without an active incident"), and the incident's id
\* stays derivable from the outage's first failure.
OutageHasCause ==
  \A r \in Runs, m \in Monitors :
    LET s == run[r].states[m] IN
    s.state \in DownStates =>
      s.firstFailureAt # None /\ s.activeIncident = s.firstFailureAt

\* Every incident was announced, every recovery too, and nothing else was: a
\* lifecycle change closes its incident silently.
NoticesMatchIncidents ==
  outbox = {<<i.monitor, i.openedAt, "opened">> : i \in incidents} \cup
           {<<i.monitor, i.openedAt, "resolved">> :
              i \in {j \in incidents : j.reason = "recovered"}}

\* incidents_resolution_order, and no two incidents of a monitor overlap.
IncidentsInOrder ==
  /\ \A i \in incidents : ~IsOpen(i) => i.openedAt <= i.resolvedAt
  /\ \A i, j \in incidents :
       i.monitor = j.monitor /\ i.openedAt < j.openedAt =>
         ~IsOpen(i) /\ i.resolvedAt <= j.openedAt

\* No run or synchronization ever fails on what the tables hold: the confirming
\* success finds the incident to resolve, the assertion of a runtime
\* synchronization finds it open, and the unique index of open incidents is
\* never violated.
NothingToAssert ==
  /\ OutageHasCause
  /\ \A m \in Monitors : monitors[m].activeIncident # None => ResolutionFound(m)
  /\ \A r \in Runs : run[r].step = "checked" /\ VersionsMatch(r) => OneActive(r)

\* A minute never revives or alters a paused or archived monitor, however old
\* the snapshot it was computed from: only a configuration transaction does.
PausedIsLeftAlone ==
  [][\A m \in Monitors :
       monitors[m].state \in LifecycleStates /\ monitors'[m] # monitors[m] =>
         config # NoConfig /\ config' = NoConfig]_vars

\* Every change of a row raises its version, which is what lets a minute
\* notice that its snapshot is stale.
ChangesAreVersioned ==
  [][\A m \in Monitors :
       monitors'[m] # monitors[m] => monitors'[m].version > monitors[m].version]_vars

\* The record of outages and its announcements are those of OutageLedger,
\* whatever minutes, late statements and configuration transactions overlap.
Watched == {m \in Monitors : monitors[m].state \notin LifecycleStates}

Ledger == INSTANCE OutageLedger WITH watched <- Watched

ImplementsOutageLedger == Ledger!Spec

\* An incident row is never lost, and once resolved it never changes.
ResolvedIsFinal ==
  [][\A i \in incidents :
       IF IsOpen(i)
       THEN \E j \in incidents' : j.monitor = i.monitor /\ j.openedAt = i.openedAt
       ELSE i \in incidents']_vars
=============================================================================
