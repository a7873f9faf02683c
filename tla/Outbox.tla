------------------------------- MODULE Outbox -------------------------------
(***************************************************************************)
(* Notification delivery (lib/notifications/delivery.ts and sql.ts).       *)
(* Several crons drain one outbox: a drain claims due rows under a token,  *)
(* sends each to the mail provider under the row's permanent idempotency   *)
(* key and marks the result, if the row still carries its token.  Claims   *)
(* whose drain stopped are reconciled once they are stale.  Times are kept *)
(* as ages and delays, in a unit longer than a drain's deadline; a drain's *)
(* slot stands for its claim token, which no two claims of a row share     *)
(* while either can still be written under it.                             *)
(***************************************************************************)
EXTENDS Integers, FiniteSets

CONSTANTS
  Notices,      \* rows of notification_outbox
  Drains,       \* slots for deliverPendingNotifications calls in progress
  None,         \* SQL null
  MaxAttempts,  \* MAX_DELIVERY_ATTEMPTS
  RetryDelay,   \* RETRY_DELAYS_MS, by attempt
  StaleAfter,   \* age past which a claim is reconciled
  Window,       \* PROVIDER_IDEMPOTENCY_WINDOW_MS
  Margin,       \* PROVIDER_IDEMPOTENCY_RETRY_MARGIN_MS
  MaxTrouble    \* bound on stopped drains, lost marks and releases

ASSUME DrainsAssumption == None \notin Drains
ASSUME AttemptsAssumption == MaxAttempts \in Nat \ {0} /\ RetryDelay \in [1 .. MaxAttempts -> Nat]
ASSUME TimesAssumption ==
  /\ StaleAfter \in Nat \ {0} /\ Window \in Nat /\ Margin \in Nat \ {0}
  /\ StaleAfter < Window - Margin
ASSUME TroubleAssumption == MaxTrouble \in Nat

VARIABLES
  outbox,    \* notification_outbox, by notice
  work,      \* what each drain knows of the rows it claimed
  stopped,   \* drains whose function was stopped; a last write may be under way
  network,   \* requests on their way to the provider, by drain and notice
  provider,  \* mails the provider sent for each key, and the last one's age
  trouble    \* how often something went wrong

vars == <<outbox, work, stopped, network, provider, trouble>>

SafeAge == Window - Margin

Final   == {"sent", "dead"}
Decided == {"accepted", "retryable", "permanent"}
Phases  == {"none", "claimed", "sending"} \cup Decided

Row ==
  [status : {"pending", "sending", "failed"} \cup Final, attempts : Nat, wait : Nat,
   claim : Drains \cup {None}, claimAge : 0 .. Window, failedBefore : BOOLEAN]

TypeOK ==
  /\ outbox \in [Notices -> Row]
  /\ work \in [Drains -> [Notices -> Phases]]
  /\ stopped \subseteq Drains
  /\ network \subseteq Drains \X Notices
  /\ provider \in [Notices -> [mails : Nat, keyAge : 0 .. Window]]
  /\ trouble \in 0 .. MaxTrouble

Enqueued ==
  [status |-> "pending", attempts |-> 0, wait |-> 0, claim |-> None, claimAge |-> 0,
   failedBefore |-> FALSE]

NoWork == [n \in Notices |-> "none"]

Init ==
  /\ outbox = [n \in Notices |-> Enqueued]
  /\ work = [d \in Drains |-> NoWork]
  /\ stopped = {}
  /\ network = {}
  /\ provider = [n \in Notices |-> [mails |-> 0, keyAge |-> 0]]
  /\ trouble = 0

Running(d) == d \notin stopped /\ work[d] # NoWork
Holds(d, n) == work[d][n] # "none"
Trouble == trouble < MaxTrouble /\ trouble' = trouble + 1
-----------------------------------------------------------------------------
Due(n) == outbox[n].status \in {"pending", "failed"} /\ outbox[n].wait = 0

ClaimedBy(row, d) ==
  [row EXCEPT !.status = "sending", !.attempts = @ + 1, !.claim = d, !.claimAge = 0]

\* CLAIM_NOTIFICATIONS_SQL skips locked rows and is limited: any due rows.
Claim(d) ==
  /\ work[d] = NoWork /\ d \notin stopped
  /\ \A n \in Notices : <<d, n>> \notin network
  /\ \E batch \in SUBSET {n \in Notices : Due(n)} :
       /\ batch # {}
       /\ outbox' = [n \in Notices |->
            IF n \in batch THEN ClaimedBy(outbox[n], d) ELSE outbox[n]]
       /\ work' = [work EXCEPT ![d] = [n \in Notices |-> IF n \in batch THEN "claimed" ELSE "none"]]
  /\ UNCHANGED <<stopped, network, provider, trouble>>

Send(d, n) ==
  /\ Running(d) /\ work[d][n] = "claimed"
  /\ work' = [work EXCEPT ![d][n] = "sending"]
  /\ network' = network \cup {<<d, n>>}
  /\ UNCHANGED <<outbox, stopped, provider, trouble>>

\* The payload does not parse, or no time is left to send it.
Unsendable(d, n) ==
  /\ Running(d) /\ work[d][n] = "claimed"
  /\ \E failure \in {"permanent", "retryable"} : work' = [work EXCEPT ![d][n] = failure]
  /\ UNCHANGED <<outbox, stopped, network, provider, trouble>>

\* The answer reaches a drain that still waits for it.
Answered(d, n, phase) ==
  IF d \notin stopped /\ work[d][n] = "sending"
  THEN [work EXCEPT ![d][n] = phase] ELSE work

KeyIsKnown(n) == provider[n].mails > 0 /\ provider[n].keyAge < Window

\* The provider accepts a request, and sends a mail unless it knows the key.
Accept(d, n) ==
  /\ <<d, n>> \in network
  /\ network' = network \ {<<d, n>>}
  /\ provider' = IF KeyIsKnown(n) THEN provider
                 ELSE [provider EXCEPT ![n] = [mails |-> @.mails + 1, keyAge |-> 0]]
  /\ work' = Answered(d, n, "accepted")
  /\ UNCHANGED <<outbox, stopped, trouble>>

\* The provider refuses the request, or it is lost on the way.
Refuse(d, n) ==
  /\ <<d, n>> \in network
  /\ network' = network \ {<<d, n>>}
  /\ \E failure \in {"permanent", "retryable"} : work' = Answered(d, n, failure)
  /\ UNCHANGED <<outbox, stopped, provider, trouble>>

\* The drain aborts a send; the request may be accepted all the same.
Timeout(d, n) ==
  /\ Running(d) /\ work[d][n] = "sending"
  /\ work' = [work EXCEPT ![d][n] = "retryable"]
  /\ UNCHANGED <<outbox, stopped, network, provider, trouble>>
-----------------------------------------------------------------------------
\* Mutant: a write does not check the claim it is made under.
Claimed_AnyStatus(d, n) == TRUE

\* What every write under a claim requires of the row.
Claimed(d, n) == outbox[n].status = "sending" /\ outbox[n].claim = d

Unclaimed(row, status) ==
  [row EXCEPT !.status = status, !.claim = None, !.claimAge = 0]

Write(d, n, row) == outbox' = IF Claimed(d, n) THEN [outbox EXCEPT ![n] = row] ELSE outbox

\* Mutant: whatever came back is taken for an acceptance.
MarkSent_AnyAnswer(d, n) ==
  /\ work[d][n] \in Decided
  /\ Write(d, n, Unclaimed(outbox[n], "sent"))
  /\ work' = [work EXCEPT ![d][n] = "none"]
  /\ UNCHANGED <<stopped, network, provider, trouble>>

MarkSent(d, n) ==
  /\ work[d][n] = "accepted"
  /\ Write(d, n, Unclaimed(outbox[n], "sent"))
  /\ work' = [work EXCEPT ![d][n] = "none"]
  /\ UNCHANGED <<stopped, network, provider, trouble>>

\* Mutant: retryable failures are retried without end.
Exhausted_Never(row) == FALSE

Exhausted(row) == row.attempts >= MaxAttempts

\* retryAt counts from the claim, not from the failure.
RetryWait(row) ==
  LET delay == RetryDelay[IF Exhausted(row) THEN MaxAttempts ELSE row.attempts]
  IN  IF delay > row.claimAge THEN delay - row.claimAge ELSE 0

FailedRow(row, failure) ==
  [Unclaimed(row, IF failure = "permanent" \/ Exhausted(row) THEN "dead" ELSE "failed")
     EXCEPT !.wait = RetryWait(row), !.failedBefore = TRUE]

MarkFailed(d, n) ==
  /\ work[d][n] \in {"retryable", "permanent"}
  /\ Write(d, n, FailedRow(outbox[n], work[d][n]))
  /\ work' = [work EXCEPT ![d][n] = "none"]
  /\ UNCHANGED <<stopped, network, provider, trouble>>

\* The write fails or times out, and the drain goes on without it.
LoseMark(d, n) ==
  /\ Trouble
  /\ Running(d) /\ work[d][n] \in Decided
  /\ work' = [work EXCEPT ![d][n] = "none"]
  /\ UNCHANGED <<outbox, stopped, network, provider>>

Released(row) ==
  [Unclaimed(row, IF row.failedBefore THEN "failed" ELSE "pending")
     EXCEPT !.attempts = IF @ > 0 THEN @ - 1 ELSE 0]

\* Out of time, and every started row is settled: the rows not started go back.
Release(d) ==
  /\ Trouble
  /\ Running(d)
  /\ \A n \in Notices : work[d][n] \in {"none", "claimed"}
  /\ outbox' = [n \in Notices |->
       IF work[d][n] = "claimed" /\ Claimed(d, n) THEN Released(outbox[n]) ELSE outbox[n]]
  /\ work' = [work EXCEPT ![d] = NoWork]
  /\ UNCHANGED <<stopped, network, provider>>

\* The function crashes or is stopped at any point.  Writes already sent may
\* still land; then nothing is left of the drain.
Stop(d) ==
  /\ Trouble
  /\ Running(d)
  /\ stopped' = stopped \cup {d}
  /\ work' = [work EXCEPT ![d] = [n \in Notices |-> IF @[n] \in Decided THEN @[n] ELSE "none"]]
  /\ UNCHANGED <<outbox, network, provider>>

Vanish(d) ==
  /\ d \in stopped
  /\ stopped' = stopped \ {d}
  /\ work' = [work EXCEPT ![d] = NoWork]
  /\ UNCHANGED <<outbox, network, provider, trouble>>
-----------------------------------------------------------------------------
\* Mutants: every claim counts as stale; a row on its last attempt never does.
Stale_AnyAge(n) == outbox[n].status = "sending"
Stale_NotTheLast(n) ==
  outbox[n].status = "sending" /\ outbox[n].claimAge > StaleAfter /\ ~Exhausted(outbox[n])

Stale(n) == outbox[n].status = "sending" /\ outbox[n].claimAge > StaleAfter

\* Mutant: a stale claim is always retried.
Reconciled_AlwaysRetry(row) ==
  [Unclaimed(row, "failed") EXCEPT !.wait = 0, !.failedBefore = TRUE]

Reconciled(row) ==
  [Unclaimed(row, IF row.claimAge >= SafeAge THEN "dead" ELSE "failed")
     EXCEPT !.wait = 0, !.failedBefore = TRUE]

\* RECONCILE_STALE_CLAIMS_SQL
Reconcile ==
  /\ \E n \in Notices : Stale(n)
  /\ outbox' = [n \in Notices |-> IF Stale(n) THEN Reconciled(outbox[n]) ELSE outbox[n]]
  /\ UNCHANGED <<work, stopped, network, provider, trouble>>

Older(age) == IF age < Window THEN age + 1 ELSE age

\* A function is stopped before its claims are stale (maxDuration), and a write
\* of a stopped one lands, if ever, within the provider's window.
InTime ==
  \A d \in Drains, n \in Notices :
    Holds(d, n) /\ outbox[n].claim = d =>
      outbox[n].claimAge < (IF d \in stopped THEN SafeAge ELSE StaleAfter)

Tick ==
  /\ InTime
  /\ outbox' = [n \in Notices |->
       [outbox[n] EXCEPT !.wait = IF @ > 0 THEN @ - 1 ELSE 0,
                         !.claimAge = IF outbox[n].claim = None THEN @ ELSE Older(@)]]
  /\ provider' = [n \in Notices |->
       [provider[n] EXCEPT !.keyAge = IF provider[n].mails = 0 THEN @ ELSE Older(@)]]
  /\ UNCHANGED <<work, stopped, network, trouble>>

Settled(d, n) == MarkSent(d, n) \/ MarkFailed(d, n)

Next ==
  \/ \E d \in Drains : Claim(d) \/ Release(d) \/ Stop(d) \/ Vanish(d)
  \/ \E d \in Drains, n \in Notices :
       \/ Send(d, n) \/ Unsendable(d, n)
       \/ Accept(d, n) \/ Refuse(d, n) \/ Timeout(d, n)
       \/ Settled(d, n) \/ LoseMark(d, n)
  \/ Reconcile
  \/ Tick

Spec == Init /\ [][Next]_vars

\* Crons keep firing, a running drain works through its rows, requests are
\* answered or lost, and time passes.
Fairness ==
  /\ \A d \in Drains : WF_vars(Claim(d)) /\ WF_vars(Vanish(d))
  /\ \A d \in Drains, n \in Notices :
       /\ WF_vars(Send(d, n))
       /\ WF_vars(Accept(d, n) \/ Refuse(d, n))
       /\ WF_vars(Settled(d, n))
  /\ WF_vars(Reconcile)
  /\ WF_vars(Tick)

FairSpec == Spec /\ Fairness
-----------------------------------------------------------------------------
\* A row says its mail was sent only if the provider did accept its key, however
\* late the mark is and whichever claim it was made under.
SentWasAccepted == \A n \in Notices : outbox[n].status = "sent" => provider[n].mails > 0

\* While a function runs, its rows are its own: claims of two crons and the
\* reconciliation never put one notice in the hands of two running drains.
OneDrainPerNotice ==
  \A d \in Drains, n \in Notices :
    Running(d) /\ Holds(d, n) => outbox[n].status = "sending" /\ outbox[n].claim = d

\* A notice is attempted MaxAttempts times, and once more for every claim that
\* was cut short: stale claims are retried without counting their attempts.
AttemptsBounded == \A n \in Notices : outbox[n].attempts <= MaxAttempts + trouble

\* sent and dead are never left, whatever late writes still land.
OutcomeIsFinal ==
  [][\A n \in Notices : outbox[n].status \in Final => outbox'[n].status = outbox[n].status]_vars

\* A first attempt that is given back for a retry after its mail went out is
\* still within the provider's window: its age decides between retry and death.
FirstRetryIsSafe ==
  [][\A n \in Notices :
       /\ outbox[n].status = "sending" /\ outbox[n].attempts = 1
       /\ outbox'[n].status = "failed" /\ provider[n].mails > 0
       => provider[n].keyAge < Window]_vars

\* Every notice ends up sent or dead.
EveryNoticeSettles == \A n \in Notices : <>(outbox[n].status \in Final)

\* Docs/OPERATIONS.md, Notification delivery: ambiguous sends older than the
\* window become dead "to prevent duplicate delivery".
NoDuplicateDelivery == \A n \in Notices : provider[n].mails <= 1
=============================================================================
