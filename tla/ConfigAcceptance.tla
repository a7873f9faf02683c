-------------------------- MODULE ConfigAcceptance --------------------------
(***************************************************************************)
(* How a monitoring configuration comes into force.  Edge Config holds the *)
(* desired one.  The monitoring cron reads it, then takes the              *)
(* configuration lock and accepts or rejects what it read (lib/scheduler/  *)
(* configuration-acceptance.ts).  The API, the apply endpoint and          *)
(* onboarding take the same lock, change the database, write Edge Config   *)
(* last and commit (lib/api/config-mutation.ts, config-service.ts,         *)
(* lib/onboarding/service.ts).  Snapshots are ordered by acceptedAt, whose *)
(* age is kept for the newest: a stamp of skew s has age -s.               *)
(***************************************************************************)
EXTENDS Tripwire

CONSTANTS
  Crons,       \* monitoring runs in progress
  Operations,  \* idempotency keys of apply requests
  Approvals,   \* slots for rows of config_change_approvals that are still valid
  Candidates,  \* the configurations that changes are drawn from
  Draft,       \* the monitor onboarding activates
  Skews,       \* how far an application host's clock is ahead of the database's
  None,
  Invalid,     \* an absent, unreadable or malformed document
  MaxAge,      \* bound on the age of a snapshot
  MaxChanges   \* bound on changes of the configuration

ASSUME CandidatesAssumption == Candidates \subseteq Config /\ Draft \in Monitors
ASSUME NullsAssumption ==
  None \notin Config \cup {Invalid} \cup [config : Config, age : Int] /\ Invalid \notin Config
ASSUME OperationsAssumption == {"api", "onboarding"} \cap Operations = {}
ASSUME ClockAssumption == Skews \subseteq Int /\ MaxAge \in Nat /\ MaxChanges \in Nat

VARIABLES
  edge,        \* the monitoring key of Edge Config
  late,        \* writes to Edge Config that were given up and may still land
  accepted,    \* the accepted snapshot that sorts newest, and its age
  registry,    \* the configuration of the last synchronizeRegistry
  approvals,   \* target of each valid approval
  operations,  \* config_operations
  reads,       \* what each cron read of Edge Config
  lock,        \* the transaction that holds the configuration lock
  activated,   \* onboarding has left the step "verify"
  changes

vars == <<edge, late, accepted, registry, approvals, operations, reads, lock, activated, changes>>

Snapshot == [config : Config, age : {0 - s : s \in Skews} \cup 0 .. MaxAge]
Operation == [target : Config, state : {"written", "accepted", "rejected"}]
Change ==
  [by : {"api", "onboarding"} \cup Operations, target : Config, step : {"writing", "written"}]

TypeOK ==
  /\ edge \in Config \cup {Invalid}
  /\ late \subseteq Config
  /\ accepted \in Snapshot \cup {None}
  /\ registry \in Config \cup {None}
  /\ approvals \in [Approvals -> Config \cup {None}]
  /\ operations \in [Operations -> Operation \cup {None}]
  /\ reads \in [Crons -> Config \cup {None, Invalid}]
  /\ lock \in Change \cup {None}
  /\ activated \in BOOLEAN
  /\ changes \in 0 .. MaxChanges

Init ==
  /\ edge \in Candidates \cup {Invalid}
  /\ late = {}
  /\ accepted = None
  /\ registry = None
  /\ approvals = [a \in Approvals |-> None]
  /\ operations = [o \in Operations |-> None]
  /\ reads = [c \in Crons |-> None]
  /\ lock = None
  /\ activated = FALSE
  /\ changes = 0
-----------------------------------------------------------------------------
\* findAcceptedSnapshot: does a snapshot stamped with this skew sort newest?
Newer(skew) == \/ accepted = None
               \/ 0 - skew < accepted.age
               \/ skew = 0 /\ accepted.age = 0

\* An accepted snapshot is inserted and the registry synchronized.
Install(config, skew) ==
  /\ accepted' = IF Newer(skew) THEN [config |-> config, age |-> 0 - skew] ELSE accepted
  /\ registry' = config

\* Mutant: the snapshot is stamped before the lock was waited for.
CronSkew_BeforeLock == -1

\* lockedNow
CronSkew == 0

\* Mutant: every change that removes an active monitor needs consent.
NeedsConsent_AnyRemoval(config) ==
  accepted # None /\ ~(Active(accepted.config) \subseteq Active(config))

NeedsConsent(config) ==
  /\ accepted # None /\ accepted.config # config
  /\ Destructive(accepted.config, config)

Consented(config) == \E a \in Approvals : approvals[a] = config

\* Mutant: the approval is checked but not consumed.
Spend_Never(config) == Consented(config) /\ UNCHANGED approvals

\* consume: one valid approval of exactly this configuration
Spend(config) ==
  \E a \in Approvals : approvals[a] = config /\ approvals' = [approvals EXCEPT ![a] = None]

\* Mutant: operations that have ended are concluded again.
Concluded_Again(config, state) ==
  [o \in Operations |->
     IF operations[o] # None /\ operations[o].target = config
     THEN [target |-> config, state |-> state] ELSE operations[o]]

\* Written operations for the configuration come to an end.
Concluded(config, state) ==
  [o \in Operations |->
     IF operations[o] = [target |-> config, state |-> "written"]
     THEN [target |-> config, state |-> state] ELSE operations[o]]

Accepts(desired) ==
  /\ desired \in Config
  /\ IF NeedsConsent(desired) THEN Spend(desired) ELSE UNCHANGED approvals
  /\ Install(desired, CronSkew)
  /\ operations' = Concluded(desired, "accepted")

\* The accepted configuration stays in force; without one the run fails.
FallsBack(desired) ==
  /\ \/ desired = Invalid /\ UNCHANGED operations
     \/ /\ desired \in Config /\ NeedsConsent(desired) /\ ~Consented(desired)
        /\ operations' = Concluded(desired, "rejected")
  /\ registry' = IF accepted = None THEN registry ELSE accepted.config
  /\ UNCHANGED <<accepted, approvals>>

\* readDesiredFromEdgeConfig, outside the lock
ReadEdge(c) ==
  /\ reads[c] = None
  /\ reads' = [reads EXCEPT ![c] = edge]
  /\ UNCHANGED <<edge, late, accepted, registry, approvals, operations, lock, activated, changes>>

MissEdge(c) ==
  /\ reads[c] = None
  /\ reads' = [reads EXCEPT ![c] = Invalid]
  /\ UNCHANGED <<edge, late, accepted, registry, approvals, operations, lock, activated, changes>>

\* acceptDesiredConfiguration
AcceptDesired(c) ==
  /\ lock = None /\ reads[c] # None
  /\ Accepts(reads[c]) \/ FallsBack(reads[c])
  /\ reads' = [reads EXCEPT ![c] = None]
  /\ UNCHANGED <<edge, late, lock, activated, changes>>

\* The run ends before its transaction commits.
StopCron(c) ==
  /\ reads[c] # None
  /\ reads' = [reads EXCEPT ![c] = None]
  /\ UNCHANGED <<edge, late, accepted, registry, approvals, operations, lock, activated, changes>>
-----------------------------------------------------------------------------
Begin(by, target, step) ==
  /\ lock = None /\ changes < MaxChanges
  /\ lock' = [by |-> by, target |-> target, step |-> step]
  /\ changes' = changes + 1
  /\ UNCHANGED <<edge, late, accepted, registry, approvals, operations, reads, activated>>

\* applyConfigChange
BeginMutation ==
  /\ accepted # None
  /\ \E target \in Candidates \ {accepted.config} : Begin("api", target, "writing")

\* configurationService.apply, for a plan of the accepted configuration
BeginApply(o) ==
  /\ accepted # None /\ operations[o] = None
  /\ \E target \in Candidates :
       /\ Destructive(accepted.config, target) => \E a \in Approvals : approvals[a] = None
       /\ Begin(o, target, "writing")

AllOff == [m \in Monitors |-> Off]

\* activateFirstMonitor; Edge Config is written if the configuration changes.
BeginActivation ==
  /\ ~activated
  /\ LET current == IF accepted = None THEN AllOff ELSE accepted.config
         target  == [current EXCEPT ![Draft] = Alone]
     IN  Begin("onboarding", target,
               IF accepted # None /\ target = current THEN "written" ELSE "writing")

WriteEdge ==
  /\ lock # None /\ lock.step = "writing"
  /\ edge' = lock.target
  /\ lock' = [lock EXCEPT !.step = "written"]
  /\ UNCHANGED <<late, accepted, registry, approvals, operations, reads, activated, changes>>

\* The write is refused or times out, and the transaction is rolled back.
FailWrite ==
  /\ lock # None /\ lock.step = "writing"
  /\ late' \in {late, late \cup {lock.target}}
  /\ lock' = None
  /\ UNCHANGED <<edge, accepted, registry, approvals, operations, reads, activated, changes>>

Land ==
  /\ \E config \in late : edge' = config /\ late' = late \ {config}
  /\ UNCHANGED <<accepted, registry, approvals, operations, reads, lock, activated, changes>>

CommitMutation ==
  /\ lock.by = "api"
  /\ Install(lock.target, 0)
  /\ UNCHANGED <<approvals, operations, activated>>

CommitApply ==
  /\ lock.by \in Operations
  /\ operations' = [operations EXCEPT ![lock.by] = [target |-> lock.target, state |-> "written"]]
  /\ IF Destructive(accepted.config, lock.target)
     THEN \E a \in Approvals :
            approvals[a] = None /\ approvals' = [approvals EXCEPT ![a] = lock.target]
     ELSE UNCHANGED approvals
  /\ UNCHANGED <<accepted, registry, activated>>

\* acceptedAt is the host's clock.
CommitActivation ==
  /\ lock.by = "onboarding"
  /\ IF accepted # None /\ accepted.config = lock.target
     THEN registry' = lock.target /\ UNCHANGED accepted
     ELSE \E skew \in Skews : Install(lock.target, skew)
  /\ activated' = TRUE
  /\ UNCHANGED <<approvals, operations>>

Commit ==
  /\ lock # None /\ lock.step = "written"
  /\ CommitMutation \/ CommitApply \/ CommitActivation
  /\ lock' = None
  /\ UNCHANGED <<edge, late, reads, changes>>

\* The commit fails after Edge Config was written.
FailCommit ==
  /\ lock # None /\ lock.step = "written"
  /\ lock' = None
  /\ UNCHANGED <<edge, late, accepted, registry, approvals, operations, reads, activated, changes>>
-----------------------------------------------------------------------------
\* An operator edits Edge Config, or inserts an approval of what it holds.
EditEdge ==
  /\ changes < MaxChanges
  /\ changes' = changes + 1
  /\ edge' \in (Candidates \cup {Invalid}) \ {edge}
  /\ UNCHANGED <<late, accepted, registry, approvals, operations, reads, lock, activated>>

Approve ==
  /\ changes < MaxChanges /\ edge # Invalid
  /\ changes' = changes + 1
  /\ \E a \in Approvals : approvals[a] = None /\ approvals' = [approvals EXCEPT ![a] = edge]
  /\ UNCHANGED <<edge, late, accepted, registry, operations, reads, lock, activated>>

Expire ==
  /\ \E a \in Approvals : approvals[a] # None /\ approvals' = [approvals EXCEPT ![a] = None]
  /\ UNCHANGED <<edge, late, accepted, registry, operations, reads, lock, activated, changes>>

Tick ==
  /\ accepted # None /\ accepted.age < MaxAge
  /\ accepted' = [accepted EXCEPT !.age = @ + 1]
  /\ UNCHANGED <<edge, late, registry, approvals, operations, reads, lock, activated, changes>>

Cron(c) == ReadEdge(c) \/ MissEdge(c) \/ AcceptDesired(c) \/ StopCron(c)
Settle == WriteEdge \/ FailWrite \/ Commit \/ FailCommit

Next ==
  \/ \E c \in Crons : Cron(c)
  \/ BeginMutation \/ BeginActivation \/ \E o \in Operations : BeginApply(o)
  \/ Settle \/ Land
  \/ EditEdge \/ Approve \/ Expire
  \/ Tick

Spec == Init /\ [][Next]_vars

\* Runs and transactions end; of the runs that keep firing not all miss Edge
\* Config, and not all that read it are cut short.
Fairness ==
  /\ \A c \in Crons :
       /\ WF_vars(AcceptDesired(c) \/ StopCron(c))
       /\ SF_vars(ReadEdge(c))
       /\ SF_vars(reads[c] = edge /\ AcceptDesired(c))
  /\ WF_vars(Settle)
  /\ WF_vars(Tick)

FairSpec == Spec /\ Fairness
-----------------------------------------------------------------------------
\* The accepted snapshot readers find is the configuration the registry runs
\* (comments of lib/config/accepted-config.ts and configuration-lock.ts).
RegistryRunsAccepted == registry = IF accepted = None THEN None ELSE accepted.config

\* A cron lets a destructive change come into force only by using up an approval
\* of exactly that configuration, against what is in force at that moment.
CronSpendsConsent ==
  [][lock = None /\ registry # None /\ registry' # registry /\ Destructive(registry, registry')
     => \E a \in Approvals : approvals[a] = registry' /\ approvals'[a] # registry']_vars

\* An operation is accepted in the very transaction that puts its target in
\* force, and rejected in one that does not.
OperationsTellTheTruth ==
  [][\A o \in Operations :
       operations[o] # None /\ operations'[o] # operations[o] =>
         /\ operations[o].state = "written"
         /\ operations'[o].state = (IF registry' = operations[o].target THEN "accepted"
                                    ELSE "rejected")]_vars

\* Docs/OPERATIONS.md: Edge Config is desired state.  Whatever was interrupted,
\* what it holds is in force in the end, unless it is invalid or needs consent.
DesiredComesIntoForce ==
  <>[](edge = Invalid \/ registry = edge \/ (registry # None /\ Destructive(registry, edge)))
=============================================================================
