----------------------- MODULE ConfigAcceptanceProofs -----------------------
(* Proofs about ConfigAcceptance, for any monitors, groups, runs, requests  *)
(* and changes, as long as every acceptedAt is the database's clock.        *)
EXTENDS ConfigAcceptance, TLAPS

USE CandidatesAssumption, NullsAssumption, ClockAssumption

InStepClocks == Skews = {0}

IInv == TypeOK /\ RegistryRunsAccepted

\* A snapshot stamped by the database's clock under the lock sorts newest.
LEMMA InstallFacts ==
  ASSUME InStepClocks, TypeOK, NEW config \in Config, Install(config, 0)
  PROVE  /\ accepted' \in Snapshot /\ accepted'.config = config
         /\ registry' = config
<1>a. PICK z : z = 0 - 0
  OBVIOUS
<1>b. PICK row : row = [config |-> config, age |-> z]
  OBVIOUS
<1>1. z = 0 /\ z \in 0 .. MaxAge
  BY <1>a
<1>2. row \in Snapshot /\ row.config = config
  BY <1>1, <1>b DEF Snapshot
<1>3. accepted # None => accepted.age \in 0 .. MaxAge
  BY DEF TypeOK, Snapshot, InStepClocks
<1>4. Newer(0)
  BY <1>3 DEF Newer
<1>5. accepted' = row
  BY <1>4, <1>a, <1>b DEF Install
<1> QED
  BY <1>2, <1>5 DEF Install

LEMMA RowIsNotNone ==
  ASSUME NEW row \in Snapshot
  PROVE  row # None
<1>1. \A age \in {0 - s : s \in Skews} \cup 0 .. MaxAge : age \in Int
  OBVIOUS
<1>2. row \in [config : Config, age : Int]
  BY <1>1 DEF Snapshot
<1> QED
  BY <1>2

LEMMA SnapshotIsRow ==
  ASSUME TypeOK, accepted # None
  PROVE  accepted \in Snapshot /\ accepted.config \in Config
BY DEF TypeOK, Snapshot

LEMMA SpendFacts ==
  ASSUME TypeOK, NEW config \in Config, Spend(config)
  PROVE  /\ approvals' \in [Approvals -> Config \cup {None}]
         /\ \E a \in Approvals : approvals[a] = config /\ approvals'[a] # config
BY DEF Spend, TypeOK

LEMMA ConcludedFacts ==
  ASSUME TypeOK, NEW config \in Config, NEW state \in {"accepted", "rejected"}
  PROVE  Concluded(config, state) \in [Operations -> Operation \cup {None}]
<1>a. PICK ended : ended = [target |-> config, state |-> state]
  OBVIOUS
<1>1. ended \in Operation
  BY <1>a DEF Operation
<1> QED
  BY <1>1, <1>a DEF Concluded, TypeOK
-----------------------------------------------------------------------------
LEMMA InitIsSound ==
  ASSUME Init
  PROVE  IInv
<1>1. edge \in Config \cup {Invalid} /\ late \subseteq Config
  BY DEF Init
<1>2. /\ approvals \in [Approvals -> Config \cup {None}]
      /\ operations \in [Operations -> Operation \cup {None}]
      /\ reads \in [Crons -> Config \cup {None, Invalid}]
  BY DEF Init
<1>3. accepted = None /\ registry = None /\ lock = None /\ activated = FALSE /\ changes \in 0 .. MaxChanges
  BY DEF Init
<1>4. TypeOK
  BY <1>1, <1>2, <1>3 DEF TypeOK
<1> QED
  BY <1>3, <1>4 DEF IInv, RegistryRunsAccepted

LEMMA AcceptKeeps ==
  ASSUME InStepClocks, IInv, NEW c \in Crons, AcceptDesired(c)
  PROVE  IInv'
<1>1. /\ lock = None /\ reads[c] \in Config \cup {Invalid}
      /\ reads' = [reads EXCEPT ![c] = None]
      /\ UNCHANGED <<edge, late, lock, activated, changes>>
  BY DEF AcceptDesired, IInv, TypeOK
<1>2. reads' \in [Crons -> Config \cup {None, Invalid}]
  BY <1>1 DEF IInv, TypeOK
<1>3. CASE Accepts(reads[c])
  <2>1. reads[c] \in Config /\ Install(reads[c], 0)
    BY <1>3 DEF Accepts, CronSkew
  <2>2. accepted' \in Snapshot /\ accepted'.config = reads[c] /\ registry' = reads[c]
    BY <2>1, InstallFacts DEF IInv
  <2>3. accepted' # None
    BY <2>2, RowIsNotNone
  <2>4. operations' \in [Operations -> Operation \cup {None}]
    BY <1>3, <2>1, ConcludedFacts DEF Accepts, IInv
  <2>5. approvals' \in [Approvals -> Config \cup {None}]
    BY <1>3, <2>1, SpendFacts DEF Accepts, IInv, TypeOK
  <2>6. TypeOK'
    BY <1>1, <1>2, <2>1, <2>2, <2>4, <2>5 DEF IInv, TypeOK
  <2>7. RegistryRunsAccepted'
    BY <2>2, <2>3 DEF RegistryRunsAccepted
  <2> QED
    BY <2>6, <2>7 DEF IInv
<1>4. CASE FallsBack(reads[c])
  <2>1. UNCHANGED <<accepted, approvals>> /\ registry' = registry
    BY <1>4 DEF FallsBack, IInv, RegistryRunsAccepted
  <2>2. operations' \in [Operations -> Operation \cup {None}]
    BY <1>4, ConcludedFacts DEF FallsBack, IInv, TypeOK
  <2>3. TypeOK'
    BY <1>1, <1>2, <2>1, <2>2 DEF IInv, TypeOK
  <2>4. RegistryRunsAccepted'
    BY <2>1 DEF IInv, RegistryRunsAccepted
  <2> QED
    BY <2>3, <2>4 DEF IInv
<1> QED
  BY <1>3, <1>4 DEF AcceptDesired

LEMMA CommitKeeps ==
  ASSUME InStepClocks, IInv, Commit
  PROVE  IInv'
<1>1. lock \in Change /\ lock.target \in Config
  BY DEF Commit, IInv, TypeOK, Change
<1>2. lock' = None /\ UNCHANGED <<edge, late, reads, changes>>
  BY DEF Commit
<1>3. Install(lock.target, 0) => /\ accepted' \in Snapshot \cup {None} /\ registry' \in Config
                                 /\ RegistryRunsAccepted'
  <2> SUFFICES ASSUME Install(lock.target, 0)
               PROVE  /\ accepted' \in Snapshot \cup {None} /\ registry' \in Config
                      /\ RegistryRunsAccepted'
    OBVIOUS
  <2>1. accepted' \in Snapshot /\ accepted'.config = lock.target /\ registry' = lock.target
    BY <1>1, InstallFacts DEF IInv
  <2> QED
    BY <1>1, <2>1, RowIsNotNone DEF RegistryRunsAccepted
<1>4. CASE CommitMutation
  <2>1. TypeOK'
    BY <1>1, <1>2, <1>3, <1>4 DEF CommitMutation, IInv, TypeOK
  <2> QED
    BY <1>3, <1>4, <2>1 DEF CommitMutation, IInv
<1>5. CASE CommitApply
  <2>a. PICK written : written = [target |-> lock.target, state |-> "written"]
    OBVIOUS
  <2>1. written \in Operation
    BY <1>1, <2>a DEF Operation
  <2>2. operations' \in [Operations -> Operation \cup {None}]
    BY <1>5, <2>1, <2>a DEF CommitApply, IInv, TypeOK
  <2>3. approvals' \in [Approvals -> Config \cup {None}]
    BY <1>1, <1>5 DEF CommitApply, IInv, TypeOK
  <2>4. TypeOK'
    BY <1>2, <1>5, <2>2, <2>3 DEF CommitApply, IInv, TypeOK
  <2>5. RegistryRunsAccepted'
    BY <1>5 DEF CommitApply, IInv, RegistryRunsAccepted
  <2> QED
    BY <2>4, <2>5 DEF IInv
<1>6. CASE CommitActivation
  <2>1. activated' = TRUE /\ UNCHANGED <<approvals, operations>>
    BY <1>6 DEF CommitActivation
  <2>2. /\ accepted' \in Snapshot \cup {None} /\ registry' \in Config
        /\ RegistryRunsAccepted'
    <3>1. CASE accepted # None /\ accepted.config = lock.target
      <4>1. registry' = lock.target /\ accepted' = accepted
        BY <1>6, <3>1 DEF CommitActivation
      <4> QED
        BY <1>1, <3>1, <4>1 DEF IInv, TypeOK, RegistryRunsAccepted
    <3>2. CASE ~(accepted # None /\ accepted.config = lock.target)
      <4>1. Install(lock.target, 0)
        BY <1>6, <3>2 DEF CommitActivation, InStepClocks
      <4> QED
        BY <1>3, <4>1
    <3> QED
      BY <3>1, <3>2
  <2>3. TypeOK'
    BY <1>2, <2>1, <2>2 DEF IInv, TypeOK
  <2> QED
    BY <2>2, <2>3 DEF IInv
<1> QED
  BY <1>4, <1>5, <1>6 DEF Commit

\* The other steps leave the database's decisions alone.
LEMMA ElsewhereKeeps ==
  ASSUME IInv, TypeOK', UNCHANGED <<accepted, registry>>
  PROVE  IInv'
BY DEF IInv, RegistryRunsAccepted

LEMMA BeginFacts ==
  ASSUME IInv, NEW by \in {"api", "onboarding"} \cup Operations, NEW target \in Config,
         NEW step \in {"writing", "written"}, Begin(by, target, step)
  PROVE  IInv'
<1>1. lock' \in Change
  BY DEF Begin, Change
<1>2. changes' \in 0 .. MaxChanges
  BY DEF Begin, IInv, TypeOK
<1>3. UNCHANGED <<edge, late, accepted, registry, approvals, operations, reads, activated>>
  BY DEF Begin
<1>4. TypeOK'
  BY <1>1, <1>2, <1>3 DEF IInv, TypeOK
<1> QED
  BY <1>3, <1>4, ElsewhereKeeps

LEMMA BeginKeeps ==
  ASSUME IInv, BeginMutation \/ BeginActivation \/ \E o \in Operations : BeginApply(o)
  PROVE  IInv'
<1>1. CASE BeginMutation
  BY <1>1, BeginFacts DEF BeginMutation
<1>2. ASSUME NEW o \in Operations, BeginApply(o) PROVE IInv'
  BY <1>2, BeginFacts DEF BeginApply
<1>3. CASE BeginActivation
  <2>a. PICK current : current = IF accepted = None THEN AllOff ELSE accepted.config
    OBVIOUS
  <2>b. PICK target : target = [current EXCEPT ![Draft] = Alone]
    OBVIOUS
  <2>1. AllOff \in Config
    BY DEF AllOff, Config
  <2>2. current \in Config
    BY <2>1, <2>a, SnapshotIsRow DEF IInv
  <2>3. target \in Config
    BY <2>2, <2>b DEF Config
  <2>4. \E step \in {"writing", "written"} : Begin("onboarding", target, step)
    BY <1>3, <2>a, <2>b DEF BeginActivation
  <2> QED
    BY <2>3, <2>4, BeginFacts
<1> QED
  BY <1>1, <1>2, <1>3

LEMMA CronKeeps ==
  ASSUME IInv, NEW c \in Crons, ReadEdge(c) \/ MissEdge(c) \/ StopCron(c)
  PROVE  IInv'
<1>1. reads' \in [Crons -> Config \cup {None, Invalid}]
  BY DEF ReadEdge, MissEdge, StopCron, IInv, TypeOK
<1>2. UNCHANGED <<edge, late, accepted, registry, approvals, operations, lock, activated, changes>>
  BY DEF ReadEdge, MissEdge, StopCron
<1>3. TypeOK'
  BY <1>1, <1>2 DEF IInv, TypeOK
<1> QED
  BY <1>2, <1>3, ElsewhereKeeps

LEMMA WriteKeeps ==
  ASSUME IInv, WriteEdge \/ FailWrite \/ FailCommit \/ Land
  PROVE  IInv'
<1>1. CASE WriteEdge
  <2>1. lock \in Change /\ lock.target \in Config
    BY <1>1 DEF WriteEdge, IInv, TypeOK, Change
  <2>2. lock' \in Change
    BY <1>1, <2>1 DEF WriteEdge, Change
  <2>3. TypeOK'
    BY <1>1, <2>1, <2>2 DEF WriteEdge, IInv, TypeOK
  <2> QED
    BY <1>1, <2>3, ElsewhereKeeps DEF WriteEdge
<1>2. CASE FailWrite
  <2>1. lock.target \in Config
    BY <1>2 DEF FailWrite, IInv, TypeOK, Change
  <2>2. TypeOK'
    BY <1>2, <2>1 DEF FailWrite, IInv, TypeOK
  <2> QED
    BY <1>2, <2>2, ElsewhereKeeps DEF FailWrite
<1>3. CASE FailCommit
  <2>1. TypeOK'
    BY <1>3 DEF FailCommit, IInv, TypeOK
  <2> QED
    BY <1>3, <2>1, ElsewhereKeeps DEF FailCommit
<1>4. CASE Land
  <2>1. TypeOK'
    BY <1>4 DEF Land, IInv, TypeOK
  <2> QED
    BY <1>4, <2>1, ElsewhereKeeps DEF Land
<1> QED
  BY <1>1, <1>2, <1>3, <1>4

LEMMA OperatorKeeps ==
  ASSUME IInv, EditEdge \/ Approve \/ Expire
  PROVE  IInv'
<1>1. edge' \in Config \cup {Invalid}
  BY DEF EditEdge, Approve, Expire, IInv, TypeOK
<1>2. approvals' \in [Approvals -> Config \cup {None}]
  BY DEF EditEdge, Approve, Expire, IInv, TypeOK
<1>3. changes' \in 0 .. MaxChanges
  BY DEF EditEdge, Approve, Expire, IInv, TypeOK
<1>4. UNCHANGED <<late, accepted, registry, operations, reads, lock, activated>>
  BY DEF EditEdge, Approve, Expire
<1>5. TypeOK'
  BY <1>1, <1>2, <1>3, <1>4 DEF IInv, TypeOK
<1> QED
  BY <1>4, <1>5, ElsewhereKeeps

LEMMA TickKeeps ==
  ASSUME InStepClocks, IInv, Tick
  PROVE  IInv'
<1>a. PICK old : old = accepted
  OBVIOUS
<1>b. PICK age : age = old.age + 1
  OBVIOUS
<1>1. old \in Snapshot /\ old.age \in 0 .. MaxAge /\ old.age < MaxAge
  BY <1>a DEF Tick, IInv, TypeOK, Snapshot, InStepClocks
<1>2. age \in 0 .. MaxAge
  BY <1>1, <1>b
<1>3. accepted' = [old EXCEPT !.age = age]
  BY <1>a, <1>b DEF Tick
<1>4. accepted' \in Snapshot /\ accepted'.config = old.config
  BY <1>1, <1>2, <1>3 DEF Snapshot
<1>5. UNCHANGED <<edge, late, registry, approvals, operations, reads, lock, activated, changes>>
  BY DEF Tick
<1>6. TypeOK'
  BY <1>4, <1>5 DEF IInv, TypeOK
<1>7. accepted' # None /\ accepted # None
  BY <1>4, RowIsNotNone DEF Tick
<1>8. RegistryRunsAccepted'
  BY <1>4, <1>5, <1>7, <1>a DEF IInv, RegistryRunsAccepted
<1> QED
  BY <1>6, <1>8 DEF IInv

LEMMA StepKeeps ==
  ASSUME InStepClocks, IInv, [Next]_vars
  PROVE  IInv'
<1>1. CASE UNCHANGED vars
  <2>1. TypeOK'
    BY <1>1 DEF vars, IInv, TypeOK
  <2> QED
    BY <1>1, <2>1, ElsewhereKeeps DEF vars
<1>2. ASSUME NEW c \in Crons, Cron(c) PROVE IInv'
  BY <1>2, CronKeeps, AcceptKeeps DEF Cron
<1>3. CASE Settle
  BY <1>3, WriteKeeps, CommitKeeps DEF Settle
<1> QED
  BY <1>1, <1>2, <1>3, BeginKeeps, WriteKeeps, OperatorKeeps, TickKeeps DEF Next

LEMMA IInvAlways ==
  ASSUME InStepClocks
  PROVE  Spec => []IInv
<1>1. Init => IInv
  BY InitIsSound
<1>2. IInv /\ [Next]_vars => IInv'
  BY StepKeeps
<1> QED
  BY <1>1, <1>2, PTL DEF Spec
-----------------------------------------------------------------------------
\* Every variable keeps its type.
THEOREM TypeCorrect ==
  ASSUME InStepClocks
  PROVE  Spec => []TypeOK
<1>1. IInv => TypeOK
  BY DEF IInv
<1> QED
  BY <1>1, IInvAlways, PTL

\* The snapshot that readers find is the one the registry runs, whatever runs,
\* mutations, requests and failures interleave: accepted-config.ts and
\* configuration-lock.ts promise it for writers that stamp with lockedNow.
THEOREM RegistryFollowsSnapshot ==
  ASSUME InStepClocks
  PROVE  Spec => []RegistryRunsAccepted
<1>1. IInv => RegistryRunsAccepted
  BY DEF IInv
<1> QED
  BY <1>1, IInvAlways, PTL

\* A run never puts a destructive change in force without using up an approval
\* of it (acceptDesiredConfiguration under the configuration lock).
THEOREM ConsentIsSpent ==
  ASSUME InStepClocks
  PROVE  Spec => CronSpendsConsent
<1>1. ASSUME IInv, [Next]_vars, lock = None, registry # None, registry' # registry,
             Destructive(registry, registry')
      PROVE  \E a \in Approvals : approvals[a] = registry' /\ approvals'[a] # registry'
  <2>1. PICK c \in Crons : AcceptDesired(c)
    <3>1. ~Settle /\ ~Land
      BY <1>1 DEF Settle, WriteEdge, FailWrite, Commit, FailCommit, Land
    <3>2. ~BeginMutation /\ ~BeginActivation /\ ~(\E o \in Operations : BeginApply(o))
      BY <1>1 DEF BeginMutation, BeginActivation, BeginApply, Begin
    <3> QED
      BY <1>1, <3>1, <3>2 DEF Next, vars, Cron, ReadEdge, MissEdge, StopCron, EditEdge, Approve,
                              Expire, Tick
  <2>2. accepted # None /\ accepted.config = registry
    BY <1>1 DEF IInv, RegistryRunsAccepted
  <2>3. ~FallsBack(reads[c])
    BY <1>1, <2>2 DEF FallsBack
  <2>4. Accepts(reads[c])
    BY <2>1, <2>3 DEF AcceptDesired
  <2>5. reads[c] \in Config /\ registry' = reads[c]
    BY <2>4 DEF Accepts, Install
  <2>6. NeedsConsent(reads[c])
    BY <1>1, <2>2, <2>5 DEF NeedsConsent
  <2>7. Spend(reads[c])
    BY <2>4, <2>6 DEF Accepts
  <2> QED
    BY <1>1, <2>5, <2>7, SpendFacts DEF IInv
<1>2. IInv /\ [Next]_vars =>
        [lock = None /\ registry # None /\ registry' # registry /\ Destructive(registry, registry')
         => \E a \in Approvals : approvals[a] = registry' /\ approvals'[a] # registry']_vars
  BY <1>1
<1> QED
  BY <1>2, IInvAlways, PTL DEF CronSpendsConsent, Spec
-----------------------------------------------------------------------------
\* What becomes of an operation does not depend on the clocks: an apply request
\* under way holds the lock, and no row of its key is there yet.
Unstarted ==
  /\ accepted \in [config : Config, age : Int] \cup {None}
  /\ lock \in Change \cup {None}
  /\ operations \in [Operations -> Operation \cup {None}]
  /\ lock # None /\ lock.by \in Operations => operations[lock.by] = None

LEMMA InitUnstarted ==
  ASSUME Init
  PROVE  Unstarted
BY DEF Init, Unstarted

LEMMA InstallShape ==
  ASSUME Unstarted, NEW config \in Config, NEW skew \in Int, Install(config, skew)
  PROVE  accepted' \in [config : Config, age : Int] \cup {None} /\ registry' = config
<1>a. PICK age : age = 0 - skew
  OBVIOUS
<1>1. age \in Int
  BY <1>a
<1> QED
  BY <1>1, <1>a DEF Install, Unstarted

\* The steps that change neither the operations nor who holds the lock.
LEMMA LockedUnstarted ==
  ASSUME Unstarted, UNCHANGED operations, lock' \in {lock, None},
         accepted' \in [config : Config, age : Int] \cup {None}
  PROVE  Unstarted'
BY DEF Unstarted

LEMMA AcceptUnstarted ==
  ASSUME Unstarted, NEW c \in Crons, AcceptDesired(c)
  PROVE  Unstarted'
<1>1. lock = None /\ lock' = None
  BY DEF AcceptDesired
<1>2. accepted' \in [config : Config, age : Int] \cup {None}
  <2>1. CronSkew \in Int
    BY DEF CronSkew
  <2> QED
    BY <2>1, InstallShape DEF AcceptDesired, Accepts, FallsBack, Unstarted
<1>3. ASSUME NEW config \in Config, NEW state \in {"accepted", "rejected"},
             operations' = Concluded(config, state)
      PROVE  operations' \in [Operations -> Operation \cup {None}]
  <2>a. PICK ended : ended = [target |-> config, state |-> state]
    OBVIOUS
  <2>1. ended \in Operation
    BY <2>a DEF Operation
  <2> QED
    BY <1>3, <2>1, <2>a DEF Concluded, Unstarted
<1>4. operations' \in [Operations -> Operation \cup {None}]
  BY <1>3 DEF AcceptDesired, Accepts, FallsBack, Unstarted
<1> QED
  BY <1>1, <1>2, <1>4 DEF Unstarted

LEMMA BeginUnstarted ==
  ASSUME Unstarted, NEW by \in {"api", "onboarding"} \cup Operations, NEW target \in Config,
         NEW step \in {"writing", "written"}, Begin(by, target, step),
         by \in Operations => operations[by] = None
  PROVE  Unstarted'
<1>1. lock' \in Change /\ lock'.by = by
  BY DEF Begin, Change
<1>2. UNCHANGED <<accepted, operations>>
  BY DEF Begin
<1> QED
  BY <1>1, <1>2 DEF Unstarted

LEMMA ChangesUnstarted ==
  ASSUME Unstarted, BeginMutation \/ BeginActivation \/ \E o \in Operations : BeginApply(o)
  PROVE  Unstarted'
<1>1. CASE BeginMutation
  BY <1>1, OperationsAssumption, BeginUnstarted DEF BeginMutation
<1>2. ASSUME NEW o \in Operations, BeginApply(o) PROVE Unstarted'
  BY <1>2, BeginUnstarted DEF BeginApply
<1>3. CASE BeginActivation
  <2>a. PICK current : current = IF accepted = None THEN AllOff ELSE accepted.config
    OBVIOUS
  <2>b. PICK target : target = [current EXCEPT ![Draft] = Alone]
    OBVIOUS
  <2>1. AllOff \in Config
    BY DEF AllOff, Config
  <2>2. current \in Config
    BY <2>1, <2>a DEF Unstarted
  <2>3. target \in Config
    BY <2>2, <2>b DEF Config
  <2>4. \E step \in {"writing", "written"} : Begin("onboarding", target, step)
    BY <1>3, <2>a, <2>b DEF BeginActivation
  <2> QED
    BY <2>3, <2>4, OperationsAssumption, BeginUnstarted
<1> QED
  BY <1>1, <1>2, <1>3

LEMMA SettleUnstarted ==
  ASSUME Unstarted, Settle
  PROVE  Unstarted'
<1>1. CASE WriteEdge
  <2>1. lock' \in Change /\ lock'.by = lock.by /\ lock # None
    BY <1>1 DEF WriteEdge, Unstarted, Change
  <2>2. UNCHANGED <<accepted, operations>>
    BY <1>1 DEF WriteEdge
  <2> QED
    BY <2>1, <2>2 DEF Unstarted
<1>2. CASE FailWrite \/ FailCommit
  BY <1>2, LockedUnstarted DEF FailWrite, FailCommit, Unstarted
<1>3. CASE Commit
  <2>1. lock \in Change /\ lock.target \in Config /\ lock' = None
    BY <1>3 DEF Commit, Unstarted, Change
  <2>2. CASE CommitMutation
    BY <2>1, <2>2, InstallShape, LockedUnstarted DEF CommitMutation
  <2>3. CASE CommitActivation
    <3>1. accepted' \in [config : Config, age : Int] \cup {None}
      BY <2>1, <2>3, InstallShape DEF CommitActivation, Unstarted
    <3> QED
      BY <2>1, <2>3, <3>1, LockedUnstarted DEF CommitActivation
  <2>4. CASE CommitApply
    <3>a. PICK written : written = [target |-> lock.target, state |-> "written"]
      OBVIOUS
    <3>1. written \in Operation
      BY <2>1, <3>a DEF Operation
    <3>2. operations' \in [Operations -> Operation \cup {None}]
      BY <2>4, <3>1, <3>a DEF CommitApply, Unstarted
    <3> QED
      BY <2>1, <2>4, <3>2 DEF CommitApply, Unstarted
  <2> QED
    BY <1>3, <2>2, <2>3, <2>4 DEF Commit
<1> QED
  BY <1>1, <1>2, <1>3 DEF Settle

LEMMA UnstartedStep ==
  ASSUME Unstarted, [Next]_vars
  PROVE  Unstarted'
<1>1. CASE UNCHANGED vars
  BY <1>1 DEF vars, Unstarted
<1>2. ASSUME NEW c \in Crons, ReadEdge(c) \/ MissEdge(c) \/ StopCron(c)
      PROVE  Unstarted'
  BY <1>2, LockedUnstarted DEF ReadEdge, MissEdge, StopCron, Unstarted
<1>3. CASE Land \/ EditEdge \/ Approve \/ Expire
  BY <1>3, LockedUnstarted DEF Land, EditEdge, Approve, Expire, Unstarted
<1>4. CASE Tick
  <2>a. PICK age : age = accepted.age + 1
    OBVIOUS
  <2>1. accepted \in [config : Config, age : Int] /\ age \in Int
    BY <1>4, <2>a DEF Tick, Unstarted
  <2>2. accepted' = [accepted EXCEPT !.age = age]
    BY <1>4, <2>a DEF Tick
  <2>3. accepted' \in [config : Config, age : Int]
    BY <2>1, <2>2
  <2> QED
    BY <1>4, <2>3, LockedUnstarted DEF Tick
<1> QED
  BY <1>1, <1>2, <1>3, <1>4, AcceptUnstarted, ChangesUnstarted, SettleUnstarted DEF Next, Cron

LEMMA UnstartedAlways == Spec => []Unstarted
BY InitUnstarted, UnstartedStep, PTL DEF Spec

LEMMA ConcludedTruth ==
  ASSUME NEW config, NEW state, operations' = Concluded(config, state),
         NEW o \in Operations, operations'[o] # operations[o]
  PROVE  /\ operations[o].state = "written" /\ operations[o].target = config
         /\ operations'[o].state = state
<1>a. PICK old : old = [target |-> config, state |-> "written"]
  OBVIOUS
<1>b. PICK new : new = [target |-> config, state |-> state]
  OBVIOUS
<1>1. operations'[o] = IF operations[o] = old THEN new ELSE operations[o]
  BY <1>a, <1>b DEF Concluded
<1>2. operations[o] = old /\ operations'[o] = new
  BY <1>1
<1> QED
  BY <1>2, <1>a, <1>b

\* An operation ends once, accepted in the transaction that puts its target in
\* force or rejected in one that leaves another in force, whatever the clocks
\* (acceptDesiredConfiguration and configurationService.apply under one lock).
THEOREM OperationsAreTrue == Spec => OperationsTellTheTruth
<1> DEFINE True ==
      \A o \in Operations :
        operations[o] # None /\ operations'[o] # operations[o] =>
          /\ operations[o].state = "written"
          /\ operations'[o].state = (IF registry' = operations[o].target THEN "accepted"
                                     ELSE "rejected")
<1>1. ASSUME Unstarted, [Next]_vars
      PROVE  True
  <2> SUFFICES ASSUME NEW o \in Operations, operations[o] # None,
                      operations'[o] # operations[o]
               PROVE  /\ operations[o].state = "written"
                      /\ operations'[o].state = (IF registry' = operations[o].target
                                                 THEN "accepted" ELSE "rejected")
    OBVIOUS
  <2>1. ~Commit
    <3> SUFFICES ASSUME Commit PROVE FALSE
      OBVIOUS
    <3>1. CommitApply
      BY DEF Commit, CommitMutation, CommitActivation
    <3>2. lock # None /\ lock.by \in Operations
      BY <3>1 DEF Commit, CommitApply
    <3>3. operations[lock.by] = None
      BY <1>1, <3>2 DEF Unstarted
    <3>4. o # lock.by => operations'[o] = operations[o]
      BY <1>1, <3>1 DEF CommitApply, Unstarted
    <3> QED
      BY <3>3, <3>4
  <2>2. PICK c \in Crons : AcceptDesired(c)
    <3>1. ~BeginMutation /\ ~BeginActivation /\ ~(\E a \in Operations : BeginApply(a))
      BY DEF BeginMutation, BeginActivation, BeginApply, Begin
    <3>2. ~Settle /\ ~Land
      BY <2>1 DEF Settle, WriteEdge, FailWrite, FailCommit, Land
    <3> QED
      BY <1>1, <3>1, <3>2 DEF Next, vars, Cron, ReadEdge, MissEdge, StopCron, EditEdge, Approve,
                              Expire, Tick
  <2>3. CASE Accepts(reads[c])
    <3>1. operations' = Concluded(reads[c], "accepted") /\ registry' = reads[c]
      BY <2>3 DEF Accepts, Install
    <3> QED
      BY <3>1, ConcludedTruth
  <2>4. CASE FallsBack(reads[c])
    <3>1. /\ operations' = Concluded(reads[c], "rejected")
          /\ accepted # None /\ accepted.config # reads[c] /\ registry' = accepted.config
      BY <2>4 DEF FallsBack, NeedsConsent
    <3>2. /\ operations[o].state = "written" /\ operations[o].target = reads[c]
          /\ operations'[o].state = "rejected"
      BY <3>1, ConcludedTruth
    <3> QED
      BY <3>1, <3>2
  <2> QED
    BY <2>2, <2>3, <2>4 DEF AcceptDesired
<1>2. Unstarted /\ [Next]_vars => [True]_vars
  BY <1>1
<1> QED
  BY <1>2, UnstartedAlways, PTL DEF Spec, OperationsTellTheTruth
=============================================================================
