-------------------------- MODULE CronLeaseProofs --------------------------
(* Proofs about CronLease, for any number of invocations and any durations *)
(* with maxDuration below the lease's.                                      *)
EXTENDS CronLease, TLAPS

\* An active invocation is within its time limit.
WithinLimit ==
  \A i \in Invocations :
    pc[i] \in Active => startedAt[i] <= now /\ now <= startedAt[i] + MaxDuration

\* An invocation inside withLease owns the row, and its lease outlasts it.
HolderOwnsLease ==
  \A i \in Invocations :
    pc[i] \in Holding =>
      lease.owner = i /\ startedAt[i] + LeaseDuration <= lease.until

\* The row's owner has acquired it, and did so within its time limit.
OwnerAcquired ==
  lease.owner # NoOwner =>
    /\ pc[lease.owner] \notin {"idle", "invoked", "refused"}
    /\ lease.until <= startedAt[lease.owner] + MaxDuration + LeaseDuration

\* Nobody has a run record before starting it.
NoEarlyRun ==
  \A i \in Invocations :
    pc[i] \in {"idle", "invoked", "leased", "refused"} => runs[i] = "none"

IInv ==
  /\ TypeOK
  /\ now <= MaxTime
  /\ WithinLimit
  /\ HolderOwnsLease
  /\ OwnerAcquired
  /\ NoEarlyRun
  /\ OneRunPerMinute
  /\ LiveRunIsOpen
  /\ RefusalHasRecentRival

USE DEF Active, Holding, Working, Ended, RunStatus

LEMMA IInvInit == Init => IInv
BY NoOwnerAssumption, TimeAssumption
DEF Init, IInv, TypeOK, WithinLimit, HolderOwnsLease, OwnerAcquired,
    NoEarlyRun, OneRunPerMinute, LiveRunIsOpen, RefusalHasRecentRival

LEMMA IInvNext == IInv /\ [Next]_vars => IInv'
<1> SUFFICES ASSUME IInv, [Next]_vars
             PROVE  IInv'
  OBVIOUS
<1> USE NoOwnerAssumption, TimeAssumption, DurationAssumption
<1> USE DEF IInv, TypeOK, Goto, SetRun
<1>1. ASSUME NEW i \in Invocations, Invoke(i) PROVE IInv'
  BY <1>1 DEF Invoke, WithinLimit, HolderOwnsLease, OwnerAcquired, NoEarlyRun,
              OneRunPerMinute, LiveRunIsOpen, RefusalHasRecentRival
<1>2. ASSUME NEW i \in Invocations, Acquire(i) PROVE IInv'
  BY <1>2 DEF Acquire, LeaseFree, WithinLimit, HolderOwnsLease, OwnerAcquired,
              NoEarlyRun, OneRunPerMinute, LiveRunIsOpen, RefusalHasRecentRival
<1>3. ASSUME NEW i \in Invocations, LeaseHeld(i) PROVE IInv'
  BY <1>3 DEF LeaseHeld, LeaseFree, WithinLimit, HolderOwnsLease, OwnerAcquired,
              NoEarlyRun, OneRunPerMinute, LiveRunIsOpen, RefusalHasRecentRival
<1>4. ASSUME NEW i \in Invocations, StartRun(i) PROVE IInv'
  BY <1>4 DEF StartRun, MinuteTaken, WithinLimit, HolderOwnsLease, OwnerAcquired,
              NoEarlyRun, OneRunPerMinute, LiveRunIsOpen, RefusalHasRecentRival
<1>5. ASSUME NEW i \in Invocations, SkipRun(i) \/ Work(i) PROVE IInv'
  BY <1>5 DEF SkipRun, Work, WithinLimit, HolderOwnsLease, OwnerAcquired,
              NoEarlyRun, OneRunPerMinute, LiveRunIsOpen, RefusalHasRecentRival
<1>6. ASSUME NEW i \in Invocations, Complete(i) PROVE IInv'
  BY <1>6 DEF Complete, WithinLimit, HolderOwnsLease, OwnerAcquired,
              NoEarlyRun, OneRunPerMinute, LiveRunIsOpen, RefusalHasRecentRival
<1>7. ASSUME NEW i \in Invocations, Fail(i) PROVE IInv'
  BY <1>7 DEF Fail, WithinLimit, HolderOwnsLease, OwnerAcquired,
              NoEarlyRun, OneRunPerMinute, LiveRunIsOpen, RefusalHasRecentRival
<1>8. ASSUME NEW i \in Invocations, Release(i) PROVE IInv'
  BY <1>8 DEF Release, WithinLimit, HolderOwnsLease, OwnerAcquired,
              NoEarlyRun, OneRunPerMinute, LiveRunIsOpen, RefusalHasRecentRival
<1>9. ASSUME NEW i \in Invocations, Kill(i) PROVE IInv'
  BY <1>9 DEF Kill, WithinLimit, HolderOwnsLease, OwnerAcquired,
              NoEarlyRun, OneRunPerMinute, LiveRunIsOpen, RefusalHasRecentRival
<1>10. CASE ReconcileRuns
  BY <1>10 DEF ReconcileRuns, StaleRun, WithinLimit, HolderOwnsLease, OwnerAcquired,
               NoEarlyRun, OneRunPerMinute, LiveRunIsOpen, RefusalHasRecentRival
<1>11. CASE Tick
  BY <1>11 DEF Tick, WithinLimit, HolderOwnsLease, OwnerAcquired,
               NoEarlyRun, OneRunPerMinute, LiveRunIsOpen, RefusalHasRecentRival
<1>12. CASE UNCHANGED vars
  BY <1>12 DEF vars, WithinLimit, HolderOwnsLease, OwnerAcquired, MinuteOf,
               NoEarlyRun, OneRunPerMinute, LiveRunIsOpen, RefusalHasRecentRival
<1> QED
  BY <1>1, <1>2, <1>3, <1>4, <1>5, <1>6, <1>7, <1>8, <1>9, <1>10, <1>11, <1>12
  DEF Next, Step

LEMMA IInvAlways == Spec => []IInv
BY IInvInit, IInvNext, PTL DEF Spec

\* The variables keep their types.
THEOREM TypeCorrect == Spec => []TypeOK
<1>1. IInv => TypeOK
  BY DEF IInv
<1> QED
  BY <1>1, IInvAlways, PTL

\* withLease excludes: maxDuration below the lease's duration is all it needs.
THEOREM Exclusion == Spec => []MutualExclusion
<1>1. IInv => MutualExclusion
  BY DEF IInv, HolderOwnsLease, MutualExclusion
<1> QED
  BY <1>1, IInvAlways, PTL
\* A minute delivered twice is run once.
THEOREM MinuteOnce == Spec => []OneRunPerMinute
<1>1. IInv => OneRunPerMinute
  BY DEF IInv
<1> QED
  BY <1>1, IInvAlways, PTL

\* Maintenance never fails the run of an invocation still at work.
THEOREM LiveRunsStayOpen == Spec => []LiveRunIsOpen
<1>1. IInv => LiveRunIsOpen
  BY DEF IInv
<1> QED
  BY <1>1, IInvAlways, PTL

\* A dead holder blocks the job for a bounded time only.
THEOREM BoundedRefusal == Spec => []RefusalHasRecentRival
<1>1. IInv => RefusalHasRecentRival
  BY DEF IInv
<1> QED
  BY <1>1, IInvAlways, PTL

RunsFinal == \A i \in Invocations : runs[i] \in {"completed", "failed"} => runs'[i] = runs[i]

\* No call closes a run record twice.
THEOREM ClosedIsFinal == Spec => ClosedRunIsFinal
<1>1. IInv /\ [Next]_vars => [RunsFinal]_vars
  <2> SUFFICES ASSUME IInv, Next PROVE RunsFinal
    BY DEF vars, RunsFinal
  <2> USE DEF IInv, TypeOK, SetRun, RunsFinal
  <2>1. ASSUME NEW i \in Invocations, Step(i) PROVE RunsFinal
    BY <2>1 DEF Step, Acquire, LeaseHeld, StartRun, SkipRun, Work, Complete, Fail,
                Release, Kill, NoEarlyRun
  <2>2. ASSUME NEW i \in Invocations, Invoke(i) PROVE RunsFinal
    BY <2>2 DEF Invoke
  <2>3. CASE ReconcileRuns \/ Tick
    BY <2>3 DEF ReconcileRuns, StaleRun, Tick
  <2> QED
    BY <2>1, <2>2, <2>3 DEF Next
<1> QED
  BY <1>1, IInvAlways, PTL DEF Spec, ClosedRunIsFinal, RunsFinal-----------------------------------------------------------------------------
LEMMA WorkerIsAtWork ==
  ASSUME MutualExclusion, NEW i \in Invocations, pc[i] \in Working
  PROVE  Worker = i
BY DEF MutualExclusion, Worker

LEMMA NobodyAtWork ==
  ASSUME \A i \in Invocations : pc[i] \notin Working
  PROVE  Worker = NoOwner
BY DEF Worker

\* Steps that insert no run record and move no recorded start keep Begun.
LEMMA BegunKept ==
  ASSUME \A i \in Invocations : (runs'[i] # "none") <=> (runs[i] # "none"),
         \A i \in Invocations : runs[i] # "none" => startedAt'[i] = startedAt[i]
  PROVE  Begun' = Begun
BY DEF Begun, MinuteOf

LEMMA StepRefines == IInv /\ IInv' /\ [Next]_vars => [Job!Next]_(Job!vars)
<1> SUFFICES ASSUME IInv, IInv', [Next]_vars
             PROVE  [Job!Next]_(Job!vars)
  OBVIOUS
<1> USE NoOwnerAssumption
<1>1. MutualExclusion /\ MutualExclusion'
  BY DEF IInv, HolderOwnsLease, MutualExclusion
<1>2. SUFFICES ASSUME Worker' # Worker \/ Begun' # Begun
               PROVE  Job!Next
  BY DEF Job!vars
<1>3. ASSUME NEW i \in Invocations, StartRun(i) PROVE Job!Next
  <2> DEFINE m == MinuteOf(startedAt[i])
  <2>1. pc[i] = "leased" /\ runs[i] = "none" /\ m \notin Begun
    BY <1>3 DEF StartRun, MinuteTaken, IInv, NoEarlyRun, Begun
  <2>2. \A j \in Invocations : pc[j] \notin Working
    BY <2>1, <1>1 DEF MutualExclusion
  <2>3. Worker = NoOwner
    BY <2>2, NobodyAtWork
  <2>4. Begun' = Begun \cup {m}
    BY <1>3, <2>1 DEF StartRun, SetRun, Begun, MinuteOf, IInv, TypeOK
  <2>5. m \in {MinuteOf(t) : t \in 0 .. MaxTime}
    BY <2>1, TimeAssumption DEF IInv, TypeOK, WithinLimit
  <2>6. CASE Goto(i, "working")
    <3>1. pc'[i] = "working"
      BY <2>6 DEF Goto, IInv, TypeOK
    <3>2. Worker' = i
      BY <3>1, <1>1 DEF MutualExclusion, Worker
    <3> QED
      BY <2>1, <2>3, <2>4, <2>5, <3>2 DEF Job!Next, Job!Begin
  <2>7. CASE Goto(i, "releasing")
    <3>1. \A j \in Invocations : pc'[j] \notin Working
      BY <2>2, <2>7 DEF Goto, IInv, TypeOK
    <3>2. Worker' = NoOwner
      BY <3>1 DEF Worker
    <3> QED
      BY <2>3, <2>4, <2>5, <3>2 DEF Job!Next, Job!Miss
  <2> QED
    BY <1>3, <2>6, <2>7 DEF StartRun
<1>4. ASSUME NEW i \in Invocations,
             Invoke(i) \/ Acquire(i) \/ LeaseHeld(i) \/ SkipRun(i) \/ Work(i)
               \/ Complete(i) \/ Fail(i) \/ Release(i) \/ Kill(i)
      PROVE  Job!Next
  <2> USE DEF Invoke, Acquire, LeaseHeld, SkipRun, Work, Complete, Fail, Release, Kill
  <2>1. /\ \A j \in Invocations : (runs'[j] # "none") <=> (runs[j] # "none")
        /\ \A j \in Invocations : runs[j] # "none" => startedAt'[j] = startedAt[j]
    BY <1>4 DEF SetRun, IInv, TypeOK, NoEarlyRun, LiveRunIsOpen
  <2>2. Begun' = Begun
    BY <2>1, BegunKept
  <2>3. \A j \in Invocations \ {i} : pc'[j] = pc[j]
    BY <1>4 DEF Goto, IInv, TypeOK
  <2>4. (pc'[i] \in Working) => (pc[i] \in Working)
    BY <1>4 DEF Goto, IInv, TypeOK
  <2>5. PICK w \in Invocations : pc[w] \in Working /\ pc'[w] \notin Working
    <3>1. CASE \A j \in Invocations : (pc[j] \in Working) <=> (pc'[j] \in Working)
      <4>1. Worker' = Worker
        BY <3>1 DEF Worker
      <4> QED
        BY <4>1, <2>2, <1>2
    <3> QED
      BY <3>1, <2>3, <2>4
  <2>6. w = i /\ Worker = i
    BY <2>3, <2>5, <1>1, WorkerIsAtWork
  <2>7. \A j \in Invocations : pc'[j] \notin Working
    BY <2>3, <2>5, <2>6, <1>1 DEF MutualExclusion
  <2>8. Worker' = NoOwner
    BY <2>7 DEF Worker
  <2> QED
    BY <2>2, <2>6, <2>8 DEF Job!Next, Job!End
<1>5. CASE ReconcileRuns \/ Tick \/ UNCHANGED vars
  <2>1. /\ \A j \in Invocations : (runs'[j] # "none") <=> (runs[j] # "none")
        /\ startedAt' = startedAt /\ pc' = pc
    BY <1>5 DEF ReconcileRuns, StaleRun, Tick, vars
  <2>2. Begun' = Begun /\ Worker' = Worker
    BY <2>1, BegunKept DEF Worker
  <2> QED
    BY <2>2, <1>2
<1> QED
  BY <1>3, <1>4, <1>5 DEF Next, Step

\* The coordinator implements ExclusiveJob.
THEOREM Refinement == Spec => ImplementsExclusiveJob
<1>1. Init => Job!Init
  BY NoOwnerAssumption DEF Init, Job!Init, Worker, Begun
<1> QED
  BY <1>1, StepRefines, IInvAlways, PTL DEF Spec, ImplementsExclusiveJob, Job!Spec
=============================================================================
