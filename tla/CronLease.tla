----------------------------- MODULE CronLease -----------------------------
(***************************************************************************)
(* runCronCoordinator (lib/scheduler/cron-coordinator.ts): every cron job  *)
(* takes a row lease, records a run under the scheduled minute it started  *)
(* in, works, closes the run record and gives the lease back.  Several     *)
(* invocations of one job overlap: the platform starts one a minute, may   *)
(* start one twice, and kills any of them at any point, at the latest      *)
(* MaxDuration after it started.  Every database call is a step of its own *)
(* and may fail with or without having taken effect.                       *)
(***************************************************************************)
EXTENDS Integers

CONSTANTS
  Invocations,     \* function invocations of one job
  NoOwner,         \* the lease row does not exist
  TicksPerMinute,  \* clock ticks in a scheduled minute
  MaxDuration,     \* maxDuration of the route, in ticks
  LeaseDuration,   \* LEASE_DURATION_MS, in ticks
  StaleAfter,      \* age at which maintenance fails a running row, in ticks
  MaxTime          \* bound on the clock

ASSUME NoOwnerAssumption == NoOwner \notin Invocations
ASSUME TimeAssumption ==
  /\ TicksPerMinute \in Nat \ {0}
  /\ MaxDuration \in Nat \ {0}
  /\ LeaseDuration \in Nat
  /\ StaleAfter \in Nat
  /\ MaxTime \in Nat
\* vercel.json and the routes: maxDuration is 60 s, the lease lasts 90 s, and
\* a run is stale after 5 minutes.
ASSUME DurationAssumption == MaxDuration < LeaseDuration /\ MaxDuration <= StaleAfter

VARIABLES
  now,        \* the clock, in ticks
  pc,         \* where each invocation is in runCronCoordinator
  startedAt,  \* when each invocation started
  lease,      \* the job_leases row: owner_id and lease_until
  runs        \* the cron_runs row each invocation inserted, by its run id

vars == <<now, pc, startedAt, lease, runs>>

Working == {"working", "succeeded", "failing"}  \* inside the work's try block
Holding == {"leased", "releasing"} \cup Working \* inside withLease
Active  == {"invoked"} \cup Holding
Ended   == {"refused", "finished", "killed"}
RunStatus == {"none", "running", "completed", "failed"}

\* scheduledMinuteAt
MinuteOf(t) == t \div TicksPerMinute

TypeOK ==
  /\ now \in Nat
  /\ pc \in [Invocations -> {"idle"} \cup Active \cup Ended]
  /\ startedAt \in [Invocations -> Nat]
  /\ lease \in [owner : Invocations \cup {NoOwner}, until : Nat]
  /\ runs \in [Invocations -> RunStatus]

Init ==
  /\ now = 0
  /\ pc = [i \in Invocations |-> "idle"]
  /\ startedAt = [i \in Invocations |-> 0]
  /\ lease = [owner |-> NoOwner, until |-> 0]
  /\ runs = [i \in Invocations |-> "none"]

Goto(i, label) == pc' = [pc EXCEPT ![i] = label]
SetRun(i, status) == runs' = [runs EXCEPT ![i] = status]

\* The platform starts an invocation; its scheduled minute is fixed here,
\* before it competes for the lease.
Invoke(i) ==
  /\ pc[i] = "idle"
  /\ Goto(i, "invoked")
  /\ startedAt' = [startedAt EXCEPT ![i] = now]
  /\ UNCHANGED <<now, lease, runs>>

\* Mutant: no lease ever expires.
LeaseFree_NoExpiry == lease.owner = NoOwner

LeaseFree == lease.owner = NoOwner \/ lease.until <= now

\* ACQUIRE_LEASE_SQL inserts the row or takes over an expired one.
Acquire(i) ==
  /\ pc[i] = "invoked"
  /\ LeaseFree
  /\ lease' = [owner |-> i, until |-> now + LeaseDuration]
  /\ Goto(i, "leased")
  /\ UNCHANGED <<now, startedAt, runs>>

LeaseHeld(i) ==
  /\ pc[i] = "invoked"
  /\ ~LeaseFree
  /\ Goto(i, "refused")
  /\ UNCHANGED <<now, startedAt, lease, runs>>

\* Mutant: only an open run takes its minute.
MinuteTaken_Open(i) ==
  \E j \in Invocations :
    runs[j] = "running" /\ MinuteOf(startedAt[j]) = MinuteOf(startedAt[i])

\* cron_runs is unique on the job and its scheduled minute.
MinuteTaken(i) ==
  \E j \in Invocations :
    runs[j] # "none" /\ MinuteOf(startedAt[j]) = MinuteOf(startedAt[i])

StartRun(i) ==
  /\ pc[i] = "leased"
  /\ ~MinuteTaken(i)
  /\ SetRun(i, "running")
  /\ \/ Goto(i, "working")
     \/ Goto(i, "releasing")      \* inserted, but the reply was lost
  /\ UNCHANGED <<now, startedAt, lease>>

\* A duplicate run, or a start that failed, skips the work.
SkipRun(i) ==
  /\ pc[i] = "leased"
  /\ Goto(i, "releasing")
  /\ UNCHANGED <<now, startedAt, lease, runs>>

Work(i) ==
  /\ pc[i] = "working"
  /\ \E outcome \in {"succeeded", "failing"} : Goto(i, outcome)
  /\ UNCHANGED <<now, startedAt, lease, runs>>

\* A complete() that throws, whether or not it took effect, is caught with the
\* work's own errors and leads to fail().
Complete(i) ==
  /\ pc[i] = "succeeded"
  /\ \/ /\ SetRun(i, IF runs[i] = "running" THEN "completed" ELSE runs[i])
        /\ Goto(i, "releasing") \/ Goto(i, "failing")
     \/ /\ Goto(i, "failing")
        /\ UNCHANGED runs
  /\ UNCHANGED <<now, startedAt, lease>>

\* Mutant: fail() closes the record whatever its status.
Fail_AnyStatus(i) ==
  /\ pc[i] = "failing"
  /\ SetRun(i, "failed")
  /\ Goto(i, "releasing")
  /\ UNCHANGED <<now, startedAt, lease>>

\* A fail() that throws still reaches withLease, which releases the lease.
Fail(i) ==
  /\ pc[i] = "failing"
  /\ \/ SetRun(i, IF runs[i] = "running" THEN "failed" ELSE runs[i])
     \/ UNCHANGED runs
  /\ Goto(i, "releasing")
  /\ UNCHANGED <<now, startedAt, lease>>

\* Only the owner's row is deleted; a failed release is logged and forgotten.
Release(i) ==
  /\ pc[i] = "releasing"
  /\ Goto(i, "finished")
  /\ \/ lease' = IF lease.owner = i THEN [lease EXCEPT !.owner = NoOwner] ELSE lease
     \/ UNCHANGED lease
  /\ UNCHANGED <<now, startedAt, runs>>

\* The platform kills an invocation, or one of its calls throws before the
\* lease is held.
Kill(i) ==
  /\ pc[i] \in Active
  /\ Goto(i, "killed")
  /\ UNCHANGED <<now, startedAt, lease, runs>>

\* Mutants: the reconciler tests no age; it fails the recent runs, not the old.
StaleRun_AnyAge(i) == runs[i] = "running"
StaleRun_Recent(i) == runs[i] = "running" /\ startedAt[i] > now - StaleAfter

\* RECONCILE_CRON_SQL, run by maintenance.
StaleRun(i) == runs[i] = "running" /\ startedAt[i] < now - StaleAfter

ReconcileRuns ==
  /\ \E i \in Invocations : StaleRun(i)
  /\ runs' = [i \in Invocations |-> IF StaleRun(i) THEN "failed" ELSE runs[i]]
  /\ UNCHANGED <<now, pc, startedAt, lease>>

\* No invocation outlives maxDuration.
Tick ==
  /\ now < MaxTime
  /\ \A i \in Invocations : pc[i] \in Active => now < startedAt[i] + MaxDuration
  /\ now' = now + 1
  /\ UNCHANGED <<pc, startedAt, lease, runs>>

Step(i) ==
  \/ Acquire(i) \/ LeaseHeld(i) \/ StartRun(i) \/ SkipRun(i) \/ Work(i)
  \/ Complete(i) \/ Fail(i) \/ Release(i) \/ Kill(i)

Next == Tick \/ ReconcileRuns \/ \E i \in Invocations : Invoke(i) \/ Step(i)

Spec == Init /\ [][Next]_vars

\* Code that runs reaches its next step or is killed, time passes, and
\* maintenance comes round; nothing obliges the platform to invoke anything.
Fairness ==
  /\ \A i \in Invocations : WF_vars(Step(i))
  /\ WF_vars(Tick)
  /\ WF_vars(ReconcileRuns)

FairSpec == Spec /\ Fairness
-----------------------------------------------------------------------------
\* Two invocations of a job are never inside withLease's work at once: an
\* expired lease is taken over only after its holder has been killed.
MutualExclusion ==
  \A i, j \in Invocations :
    pc[i] \in Holding /\ pc[j] \in Holding => i = j

\* A scheduled minute has at most one run record, so its work is begun at
\* most once even when the platform delivers the minute twice.
OneRunPerMinute ==
  \A i, j \in Invocations :
    /\ runs[i] # "none" /\ runs[j] # "none"
    /\ MinuteOf(startedAt[i]) = MinuteOf(startedAt[j])
    => i = j

\* The run record of an invocation still at work is open: maintenance never
\* fails the run of a live invocation, and nobody closes another's run.
LiveRunIsOpen ==
  \A i \in Invocations : pc[i] \in {"working", "succeeded"} => runs[i] = "running"

\* A refusal is always the doing of a recent rival: an invocation that died
\* with the lease costs the job only the invocations of the next
\* MaxDuration + LeaseDuration ticks.
RefusalHasRecentRival ==
  \A i \in Invocations : pc[i] = "refused" =>
    \E j \in Invocations \ {i} :
      /\ pc[j] # "idle"
      /\ startedAt[i] < startedAt[j] + MaxDuration + LeaseDuration

\* A closed run record is never reopened nor changed, not by a late complete()
\* or fail(), nor by the reconciler.
ClosedRunIsFinal ==
  [][\A i \in Invocations : runs[i] \in {"completed", "failed"} => runs'[i] = runs[i]]_vars

\* Every run record is closed in the end, by its invocation or, when that died,
\* by maintenance (as far as the clock bound leaves room for it).
RunsAreClosed ==
  \A i \in Invocations :
    (runs[i] = "running" /\ startedAt[i] + StaleAfter < MaxTime)
      ~> (runs[i] \in {"completed", "failed"})

-----------------------------------------------------------------------------
\* The job's work is that of ExclusiveJob: its worker is the invocation at
\* work, and its minutes the ones that have a run record.
Worker == IF \E i \in Invocations : pc[i] \in Working
          THEN CHOOSE i \in Invocations : pc[i] \in Working
          ELSE NoOwner
Begun == {MinuteOf(startedAt[i]) : i \in {j \in Invocations : runs[j] # "none"}}

Job == INSTANCE ExclusiveJob WITH
         Minutes <- {MinuteOf(t) : t \in 0 .. MaxTime},
         worker <- Worker,
         begun <- Begun

\* Lease, run record and platform limits together give every minute's work to
\* at most one invocation and never to two at once.
ImplementsExclusiveJob == Job!Spec
=============================================================================
