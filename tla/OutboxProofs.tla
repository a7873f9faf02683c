---------------------------- MODULE OutboxProofs ----------------------------
(* Proofs about Outbox, for any notices, drains, attempts, delays and       *)
(* windows.                                                                 *)
EXTENDS Outbox, TLAPS

USE DrainsAssumption, AttemptsAssumption, TimesAssumption, TroubleAssumption
USE DEF Final, Decided, Phases

Alive(d, n) == d \notin stopped /\ Holds(d, n)

\* What a running drain holds is claimed by it, and no older than StaleAfter.
Owned ==
  \A d \in Drains, n \in Notices : Alive(d, n) =>
    outbox[n].status = "sending" /\ outbox[n].claim = d /\ outbox[n].claimAge <= StaleAfter

\* A drain knows of an acceptance only if there was one.
AnswersAreTrue == \A d \in Drains, n \in Notices : work[d][n] = "accepted" => provider[n].mails > 0

\* The attempts of a row: within MaxAttempts + trouble while a running drain
\* holds it, and below otherwise, since something went wrong with its last claim
\* or its last failure left an attempt.
Charged ==
  \A n \in Notices :
    /\ outbox[n].attempts <= MaxAttempts + trouble
    /\ outbox[n].status = "sending" => outbox[n].attempts > 0
    /\ \/ outbox[n].status \in Final
       \/ \E d \in Drains : Alive(d, n)
       \/ outbox[n].attempts < MaxAttempts + trouble

IInv == TypeOK /\ Owned /\ AnswersAreTrue /\ SentWasAccepted /\ Charged

\* The rows that claims, writes and reconciliation produce.
LEMMA ClaimedRow ==
  ASSUME NEW row \in Row, NEW d \in Drains, NEW r, r = ClaimedBy(row, d)
  PROVE  /\ r \in Row /\ r.status = "sending" /\ r.claim = d /\ r.claimAge = 0
         /\ r.attempts = row.attempts + 1
<1>a. PICK k : k = row.attempts + 1
  OBVIOUS
<1>b. PICK z : z = 0
  OBVIOUS
<1>1. k \in Nat /\ z \in 0 .. Window
  BY <1>a, <1>b DEF Row
<1>2. r = [row EXCEPT !.status = "sending", !.attempts = k, !.claim = d, !.claimAge = z]
  BY <1>a, <1>b DEF ClaimedBy
<1>3. r \in Row
  BY <1>1, <1>2 DEF Row
<1> QED
  BY <1>a, <1>b, <1>2, <1>3 DEF Row

LEMMA UnclaimedRow ==
  ASSUME NEW row \in Row, NEW s \in {"pending", "failed"} \cup Final
  PROVE  /\ Unclaimed(row, s) \in Row
         /\ Unclaimed(row, s).status = s
         /\ Unclaimed(row, s).claim = None
         /\ Unclaimed(row, s).attempts = row.attempts
<1>a. PICK r : r = Unclaimed(row, s)
  OBVIOUS
<1>b. PICK z : z = 0
  OBVIOUS
<1>1. r = [row EXCEPT !.status = s, !.claim = None, !.claimAge = z]
  BY <1>a, <1>b DEF Unclaimed
<1>3. z \in 0 .. Window
  BY <1>b
<1>2. r \in Row
  BY <1>1, <1>3 DEF Row
<1> QED
  BY <1>a, <1>1, <1>2 DEF Row

LEMMA FailedRowFacts ==
  ASSUME NEW row \in Row, row.attempts > 0, NEW failure
  PROVE  /\ FailedRow(row, failure) \in Row
         /\ FailedRow(row, failure).status \in {"failed", "dead"}
         /\ FailedRow(row, failure).status = "failed" => row.attempts < MaxAttempts
         /\ FailedRow(row, failure).attempts = row.attempts
         /\ FailedRow(row, failure).claim = None
<1>a. PICK s : s = IF failure = "permanent" \/ Exhausted(row) THEN "dead" ELSE "failed"
  OBVIOUS
<1>b. PICK u : u = Unclaimed(row, s)
  OBVIOUS
<1>c. PICK w : w = RetryWait(row)
  OBVIOUS
<1>d. PICK r : r = FailedRow(row, failure)
  OBVIOUS
<1>1. row.attempts \in Nat /\ row.claimAge \in Nat
  BY DEF Row
<1>2. w \in Nat
  <2>1. (IF Exhausted(row) THEN MaxAttempts ELSE row.attempts) \in 1 .. MaxAttempts
    BY <1>1 DEF Exhausted
  <2>2. RetryDelay[IF Exhausted(row) THEN MaxAttempts ELSE row.attempts] \in Nat
    BY <2>1
  <2> QED
    BY <1>1, <1>c, <2>2 DEF RetryWait
<1>3. u \in Row /\ u.status = s /\ u.attempts = row.attempts /\ u.claim = None
  BY <1>a, <1>b, UnclaimedRow
<1>4. r = [u EXCEPT !.wait = w, !.failedBefore = TRUE]
  BY <1>a, <1>b, <1>c, <1>d DEF FailedRow
<1>5. r \in Row /\ r.status = u.status /\ r.attempts = u.attempts /\ r.claim = u.claim
  BY <1>2, <1>3, <1>4 DEF Row
<1>6. s = "failed" => row.attempts < MaxAttempts
  BY <1>1, <1>a DEF Exhausted
<1> QED
  BY <1>3, <1>5, <1>6, <1>a, <1>d

LEMMA ReleasedRow ==
  ASSUME NEW row \in Row
  PROVE  /\ Released(row) \in Row
         /\ Released(row).status \in {"pending", "failed"}
         /\ Released(row).attempts <= row.attempts
         /\ row.attempts > 0 => Released(row).attempts = row.attempts - 1
         /\ Released(row).claim = None
<1>a. PICK s : s = IF row.failedBefore THEN "failed" ELSE "pending"
  OBVIOUS
<1>b. PICK u : u = Unclaimed(row, s)
  OBVIOUS
<1>1. u \in Row /\ u.status = s /\ u.attempts = row.attempts /\ u.claim = None
  BY <1>a, <1>b, UnclaimedRow
<1>c. PICK k : k = IF u.attempts > 0 THEN u.attempts - 1 ELSE 0
  OBVIOUS
<1>2. k \in Nat /\ k <= u.attempts /\ (row.attempts > 0 => k = row.attempts - 1)
  BY <1>1, <1>c DEF Row
<1>3. Released(row) = [u EXCEPT !.attempts = k]
  BY <1>a, <1>b, <1>c DEF Released
<1>4. [u EXCEPT !.attempts = k] \in Row
  BY <1>1, <1>2 DEF Row
<1> QED
  BY <1>1, <1>2, <1>3, <1>4, <1>a DEF Row

LEMMA ReconciledRow ==
  ASSUME NEW row \in Row
  PROVE  /\ Reconciled(row) \in Row
         /\ Reconciled(row).status \in {"failed", "dead"}
         /\ Reconciled(row).attempts = row.attempts
         /\ Reconciled(row).claim = None
         /\ Reconciled(row).status = "failed" => row.claimAge < SafeAge
<1>a. PICK s : s = IF row.claimAge >= SafeAge THEN "dead" ELSE "failed"
  OBVIOUS
<1>b. PICK u : u = Unclaimed(row, s)
  OBVIOUS
<1>1. u \in Row /\ u.status = s /\ u.attempts = row.attempts /\ u.claim = None
  BY <1>a, <1>b, UnclaimedRow
<1>2. Reconciled(row) = [u EXCEPT !.wait = 0, !.failedBefore = TRUE]
  BY <1>a, <1>b DEF Reconciled
<1>c. PICK r : r = Reconciled(row)
  OBVIOUS
<1>d. r = [u EXCEPT !.wait = 0, !.failedBefore = TRUE]
  BY <1>2, <1>c
<1>3. r \in Row /\ r.status = s /\ r.attempts = row.attempts /\ r.claim = None
  BY <1>1, <1>d DEF Row
<1>4. row.claimAge \in Nat /\ SafeAge \in Int
  BY DEF Row, SafeAge
<1>5. s \in {"failed", "dead"} /\ (s = "failed" => row.claimAge < SafeAge)
  BY <1>4, <1>a
<1> QED
  BY <1>3, <1>5, <1>c
-----------------------------------------------------------------------------
LEMMA InitIsSound ==
  ASSUME Init
  PROVE  IInv
<1>1. Enqueued \in Row /\ Enqueued.status = "pending" /\ Enqueued.attempts = 0
  BY DEF Enqueued, Row
<1>2. TypeOK
  BY <1>1 DEF Init, TypeOK, NoWork
<1>3. Owned /\ AnswersAreTrue
  BY DEF Init, Owned, AnswersAreTrue, Alive, Holds, NoWork
<1>4. SentWasAccepted /\ Charged
  BY <1>1 DEF Init, SentWasAccepted, Charged
<1> QED
  BY <1>2, <1>3, <1>4 DEF IInv

\* The steps between a drain and the provider leave the rows alone.
LEMMA ExchangeKeeps ==
  ASSUME IInv, UNCHANGED <<outbox, stopped, trouble>>,
         work' \in [Drains -> [Notices -> Phases]],
         network' \subseteq Drains \X Notices,
         provider' \in [Notices -> [mails : Nat, keyAge : 0 .. Window]],
         \A n \in Notices : provider[n].mails > 0 => provider'[n].mails > 0,
         \A d \in Drains, n \in Notices : work'[d][n] # "none" <=> work[d][n] # "none",
         \A d \in Drains, n \in Notices :
           work'[d][n] = "accepted" => work[d][n] = "accepted" \/ provider'[n].mails > 0
  PROVE  IInv'
<1>1. TypeOK'
  BY DEF IInv, TypeOK
<1>2. \A d \in Drains, n \in Notices : Alive(d, n)' <=> Alive(d, n)
  BY DEF Alive, Holds
<1>3. Owned'
  BY <1>2 DEF IInv, Owned
<1>4. AnswersAreTrue' /\ SentWasAccepted'
  BY DEF IInv, AnswersAreTrue, SentWasAccepted
<1>5. Charged'
  BY <1>2 DEF IInv, Charged
<1> QED
  BY <1>1, <1>3, <1>4, <1>5 DEF IInv

LEMMA PhaseChange ==
  ASSUME TypeOK, NEW d \in Drains, NEW n \in Notices, NEW phase \in Phases \ {"none"},
         work[d][n] # "none", work' = [work EXCEPT ![d][n] = phase]
  PROVE  /\ work' \in [Drains -> [Notices -> Phases]]
         /\ \A e \in Drains, k \in Notices : work'[e][k] # "none" <=> work[e][k] # "none"
         /\ \A e \in Drains, k \in Notices :
              work'[e][k] = "accepted" => work[e][k] = "accepted" \/ (phase = "accepted" /\ k = n)
BY DEF TypeOK

LEMMA SendKeeps ==
  ASSUME IInv, NEW d \in Drains, NEW n \in Notices,
         Send(d, n) \/ Unsendable(d, n) \/ Timeout(d, n)
  PROVE  IInv'
<1>1. PICK phase \in {"sending", "permanent", "retryable"} : work' = [work EXCEPT ![d][n] = phase]
  BY DEF Send, Unsendable, Timeout
<1>2. /\ work[d][n] # "none" /\ UNCHANGED <<outbox, stopped, provider, trouble>>
      /\ network' \subseteq Drains \X Notices
  BY DEF Send, Unsendable, Timeout, IInv, TypeOK
<1>3. /\ work' \in [Drains -> [Notices -> Phases]]
      /\ \A e \in Drains, k \in Notices : work'[e][k] # "none" <=> work[e][k] # "none"
      /\ \A e \in Drains, k \in Notices : work'[e][k] = "accepted" => work[e][k] = "accepted"
  BY <1>1, <1>2, PhaseChange DEF IInv
<1>4. provider \in [Notices -> [mails : Nat, keyAge : 0 .. Window]]
  BY DEF IInv, TypeOK
<1> QED
  BY <1>2, <1>3, <1>4, ExchangeKeeps

LEMMA AnsweredFacts ==
  ASSUME TypeOK, NEW d \in Drains, NEW n \in Notices, NEW phase \in Decided,
         work' = Answered(d, n, phase)
  PROVE  /\ work' \in [Drains -> [Notices -> Phases]]
         /\ \A e \in Drains, k \in Notices : work'[e][k] # "none" <=> work[e][k] # "none"
         /\ \A e \in Drains, k \in Notices :
              work'[e][k] = "accepted" => work[e][k] = "accepted" \/ (phase = "accepted" /\ k = n)
<1>1. CASE d \notin stopped /\ work[d][n] = "sending"
  <2>1. work' = [work EXCEPT ![d][n] = phase] /\ work[d][n] # "none"
    BY <1>1 DEF Answered
  <2>2. phase \in Phases \ {"none"}
    BY DEF Decided, Phases
  <2> QED
    BY <2>1, <2>2, PhaseChange
<1>2. CASE ~(d \notin stopped /\ work[d][n] = "sending")
  BY <1>2 DEF Answered, TypeOK
<1> QED
  BY <1>1, <1>2

LEMMA AnswerKeeps ==
  ASSUME IInv, NEW d \in Drains, NEW n \in Notices, Accept(d, n) \/ Refuse(d, n)
  PROVE  IInv'
<1>1. UNCHANGED <<outbox, stopped, trouble>> /\ network' \subseteq Drains \X Notices
  BY DEF Accept, Refuse, IInv, TypeOK
<1>2. provider \in [Notices -> [mails : Nat, keyAge : 0 .. Window]]
  BY DEF IInv, TypeOK
<1>3. CASE Accept(d, n)
  <2>1. /\ provider' \in [Notices -> [mails : Nat, keyAge : 0 .. Window]]
        /\ provider'[n].mails > 0
        /\ \A k \in Notices : provider[k].mails > 0 => provider'[k].mails > 0
    <3>1. CASE KeyIsKnown(n)
      BY <1>2, <1>3, <3>1 DEF Accept, KeyIsKnown
    <3>2. CASE ~KeyIsKnown(n)
      <4>a. PICK key : key = [mails |-> provider[n].mails + 1, keyAge |-> 0]
        OBVIOUS
      <4>1. key \in [mails : Nat, keyAge : 0 .. Window] /\ key.mails > 0
        BY <1>2, <4>a
      <4>2. provider' = [provider EXCEPT ![n] = key]
        BY <1>2, <1>3, <3>2, <4>a DEF Accept
      <4> QED
        BY <1>2, <4>1, <4>2
    <3> QED
      BY <3>1, <3>2
  <2>2. /\ work' \in [Drains -> [Notices -> Phases]]
        /\ \A e \in Drains, k \in Notices : work'[e][k] # "none" <=> work[e][k] # "none"
        /\ \A e \in Drains, k \in Notices :
             work'[e][k] = "accepted" => work[e][k] = "accepted" \/ k = n
    BY <1>3, AnsweredFacts DEF Accept, IInv
  <2> QED
    BY <1>1, <2>1, <2>2, ExchangeKeeps
<1>4. CASE Refuse(d, n)
  <2>1. PICK failure \in {"permanent", "retryable"} : work' = Answered(d, n, failure)
    BY <1>4 DEF Refuse
  <2>2. /\ work' \in [Drains -> [Notices -> Phases]]
        /\ \A e \in Drains, k \in Notices : work'[e][k] # "none" <=> work[e][k] # "none"
        /\ \A e \in Drains, k \in Notices : work'[e][k] = "accepted" => work[e][k] = "accepted"
    BY <2>1, AnsweredFacts DEF IInv
  <2>3. provider' = provider
    BY <1>4 DEF Refuse
  <2> QED
    BY <1>1, <1>2, <2>2, <2>3, ExchangeKeeps
<1> QED
  BY <1>3, <1>4
-----------------------------------------------------------------------------
LEMMA WorkDropped ==
  ASSUME TypeOK, NEW d \in Drains, NEW n \in Notices,
         work' = [work EXCEPT ![d][n] = "none"], stopped' = stopped
  PROVE  /\ work' \in [Drains -> [Notices -> Phases]]
         /\ \A e \in Drains, k \in Notices : Alive(e, k)' <=> Alive(e, k) /\ ~(e = d /\ k = n)
         /\ \A e \in Drains, k \in Notices : work'[e][k] = "accepted" => work[e][k] = "accepted"
<1>1. work' \in [Drains -> [Notices -> Phases]]
  BY DEF TypeOK
<1>2. work'[d][n] = "none"
  BY DEF TypeOK
<1>3. \A e \in Drains, k \in Notices : e # d \/ k # n => work'[e][k] = work[e][k]
  BY DEF TypeOK
<1> QED
  BY <1>1, <1>2, <1>3 DEF Alive, Holds

\* A drain writes the end of its claim on a row, or finds that the claim is gone.
LEMMA MarkKeeps ==
  ASSUME IInv, NEW d \in Drains, NEW n \in Notices, NEW row \in Row,
         Write(d, n, row), work[d][n] # "none",
         work' = [work EXCEPT ![d][n] = "none"], UNCHANGED <<stopped, network, provider, trouble>>,
         Claimed(d, n) => /\ row.status \in {"sent", "failed", "dead"}
                          /\ row.status = "sent" => provider[n].mails > 0
                          /\ row.status = "failed" => row.attempts < MaxAttempts
                          /\ row.attempts = outbox[n].attempts
  PROVE  IInv'
<1>1. /\ work' \in [Drains -> [Notices -> Phases]]
      /\ \A e \in Drains, k \in Notices : Alive(e, k)' <=> Alive(e, k) /\ ~(e = d /\ k = n)
      /\ \A e \in Drains, k \in Notices : work'[e][k] = "accepted" => work[e][k] = "accepted"
  BY WorkDropped DEF IInv
<1>2. AnswersAreTrue'
  BY <1>1 DEF IInv, AnswersAreTrue
<1>3. MaxAttempts \in Nat /\ trouble \in Nat /\ \A k \in Notices : outbox[k].attempts \in Nat
  BY DEF IInv, TypeOK, Row
<1>4. CASE Claimed(d, n)
  <2>1. outbox' = [outbox EXCEPT ![n] = row] /\ outbox \in [Notices -> Row]
    BY <1>4 DEF Write, IInv, TypeOK
  <2>2. outbox' \in [Notices -> Row] /\ outbox'[n] = row
        /\ \A k \in Notices : k # n => outbox'[k] = outbox[k]
    BY <2>1
  <2>3. \A e \in Drains : ~Alive(e, n)'
    BY <1>1, <1>4 DEF Claimed, IInv, Owned
  <2>4. TypeOK'
    BY <1>1, <2>2 DEF IInv, TypeOK
  <2>5. Owned'
    BY <1>1, <2>2, <2>3 DEF IInv, Owned
  <2>6. SentWasAccepted'
    BY <1>4, <2>2 DEF IInv, SentWasAccepted
  <2>7. Charged'
    <3> SUFFICES ASSUME NEW k \in Notices
                 PROVE  /\ outbox'[k].attempts <= MaxAttempts + trouble
                        /\ outbox'[k].status = "sending" => outbox'[k].attempts > 0
                        /\ \/ outbox'[k].status \in Final
                           \/ \E e \in Drains : Alive(e, k)'
                           \/ outbox'[k].attempts < MaxAttempts + trouble
      BY DEF Charged
    <3>1. CASE k = n
      BY <1>3, <1>4, <2>2, <3>1 DEF IInv, Charged
    <3>2. CASE k # n
      BY <1>1, <2>2, <3>2 DEF IInv, Charged
    <3> QED
      BY <3>1, <3>2
  <2> QED
    BY <1>2, <2>4, <2>5, <2>6, <2>7 DEF IInv
<1>5. CASE ~Claimed(d, n)
  <2>1. outbox' = outbox
    BY <1>5 DEF Write
  <2>2. ~Alive(d, n)
    BY <1>5 DEF Claimed, IInv, Owned
  <2>3. \A e \in Drains, k \in Notices : Alive(e, k)' <=> Alive(e, k)
    BY <1>1, <2>2
  <2>4. TypeOK'
    BY <1>1, <2>1 DEF IInv, TypeOK
  <2>5. Owned' /\ Charged'
    BY <2>1, <2>3 DEF IInv, Owned, Charged
  <2>6. SentWasAccepted'
    BY <2>1 DEF IInv, SentWasAccepted
  <2> QED
    BY <1>2, <2>4, <2>5, <2>6 DEF IInv
<1> QED
  BY <1>4, <1>5

LEMMA SettledKeeps ==
  ASSUME IInv, NEW d \in Drains, NEW n \in Notices, Settled(d, n)
  PROVE  IInv'
<1>1. outbox[n] \in Row
  BY DEF IInv, TypeOK
<1>2. CASE MarkSent(d, n)
  <2>1. PICK row : row = Unclaimed(outbox[n], "sent")
    OBVIOUS
  <2>2. row \in Row /\ row.status = "sent" /\ row.attempts = outbox[n].attempts
    BY <1>1, <2>1, UnclaimedRow
  <2>3. provider[n].mails > 0
    BY <1>2 DEF MarkSent, IInv, AnswersAreTrue
  <2>4. /\ Write(d, n, row) /\ work[d][n] # "none"
        /\ work' = [work EXCEPT ![d][n] = "none"] /\ UNCHANGED <<stopped, network, provider, trouble>>
    BY <1>2, <2>1 DEF MarkSent
  <2> QED
    BY <2>2, <2>3, <2>4, MarkKeeps
<1>3. CASE MarkFailed(d, n)
  <2>1. PICK row : row = FailedRow(outbox[n], work[d][n])
    OBVIOUS
  <2>2. /\ Write(d, n, row) /\ work[d][n] # "none"
        /\ work' = [work EXCEPT ![d][n] = "none"] /\ UNCHANGED <<stopped, network, provider, trouble>>
    BY <1>3, <2>1 DEF MarkFailed
  <2>3. CASE outbox[n].attempts > 0
    <3>1. /\ row \in Row /\ row.status \in {"failed", "dead"}
          /\ row.status = "failed" => row.attempts < MaxAttempts
          /\ row.attempts = outbox[n].attempts
      BY <1>1, <2>1, <2>3, FailedRowFacts
    <3> QED
      BY <2>2, <3>1, MarkKeeps
  <2>4. CASE ~(outbox[n].attempts > 0)
    <3>1. ~Claimed(d, n)
      BY <2>4 DEF Claimed, IInv, Charged
    <3>2. Write(d, n, outbox[n])
      BY <2>2, <3>1 DEF Write
    <3> QED
      BY <1>1, <2>2, <3>1, <3>2, MarkKeeps
  <2> QED
    BY <2>3, <2>4
<1> QED
  BY <1>2, <1>3 DEF Settled

\* A drain gives up what it knows, and trouble is one more.
LEMMA LossKeeps ==
  ASSUME IInv, TypeOK', UNCHANGED <<outbox, provider>>, trouble' = trouble + 1,
         \A e \in Drains, k \in Notices : Alive(e, k)' => Alive(e, k),
         \A e \in Drains, k \in Notices : work'[e][k] = "accepted" => work[e][k] = "accepted"
  PROVE  IInv'
<1>1. Owned' /\ AnswersAreTrue' /\ SentWasAccepted'
  BY DEF IInv, Owned, AnswersAreTrue, SentWasAccepted
<1>2. /\ MaxAttempts \in Nat /\ trouble \in Nat
      /\ \A k \in Notices : outbox[k].attempts \in Nat
  BY DEF IInv, TypeOK, Row
<1>3. \A k \in Notices : outbox[k].attempts <= MaxAttempts + trouble
  BY DEF IInv, Charged
<1>4. \A k \in Notices : outbox'[k].attempts < MaxAttempts + trouble'
  BY <1>2, <1>3
<1>5. \A k \in Notices : outbox'[k].attempts <= MaxAttempts + trouble'
  BY <1>2, <1>3
<1>6. Charged'
  BY <1>4, <1>5 DEF IInv, Charged
<1> QED
  BY <1>1, <1>6 DEF IInv

LEMMA LoseMarkKeeps ==
  ASSUME IInv, NEW d \in Drains, NEW n \in Notices, LoseMark(d, n)
  PROVE  IInv'
<1>1. /\ work' = [work EXCEPT ![d][n] = "none"]
      /\ UNCHANGED <<outbox, stopped, network, provider>>
      /\ trouble' = trouble + 1 /\ trouble < MaxTrouble
  BY DEF LoseMark, Trouble
<1>2. /\ work' \in [Drains -> [Notices -> Phases]]
      /\ \A e \in Drains, k \in Notices : Alive(e, k)' => Alive(e, k)
      /\ \A e \in Drains, k \in Notices : work'[e][k] = "accepted" => work[e][k] = "accepted"
  BY <1>1, WorkDropped DEF IInv
<1>3. trouble' \in 0 .. MaxTrouble
  BY <1>1 DEF IInv, TypeOK
<1>4. TypeOK'
  BY <1>1, <1>2, <1>3 DEF IInv, TypeOK
<1> QED
  BY <1>1, <1>2, <1>4, LossKeeps

LEMMA StopKeeps ==
  ASSUME IInv, NEW d \in Drains, Stop(d)
  PROVE  IInv'
<1>a. PICK left : left = [n \in Notices |-> IF work[d][n] \in Decided THEN work[d][n] ELSE "none"]
  OBVIOUS
<1>1. /\ work' = [work EXCEPT ![d] = left] /\ stopped' = stopped \cup {d}
      /\ UNCHANGED <<outbox, network, provider>>
      /\ trouble' = trouble + 1 /\ trouble < MaxTrouble
  BY <1>a DEF Stop, Trouble
<1>2. left \in [Notices -> Phases] /\ \A k \in Notices : left[k] = "accepted" => work[d][k] = "accepted"
  BY <1>a DEF IInv, TypeOK
<1>3. /\ work' \in [Drains -> [Notices -> Phases]] /\ work'[d] = left
      /\ \A e \in Drains : e # d => work'[e] = work[e]
  BY <1>1, <1>2 DEF IInv, TypeOK
<1>4. trouble' \in 0 .. MaxTrouble
  BY <1>1 DEF IInv, TypeOK
<1>5. TypeOK'
  BY <1>1, <1>3, <1>4 DEF IInv, TypeOK
<1>6. \A e \in Drains, k \in Notices : Alive(e, k)' => Alive(e, k)
  BY <1>1, <1>3 DEF Alive, Holds
<1>7. \A e \in Drains, k \in Notices : work'[e][k] = "accepted" => work[e][k] = "accepted"
  BY <1>2, <1>3
<1> QED
  BY <1>1, <1>5, <1>6, <1>7, LossKeeps

LEMMA VanishKeeps ==
  ASSUME IInv, NEW d \in Drains, Vanish(d)
  PROVE  IInv'
<1>1. /\ work' = [work EXCEPT ![d] = NoWork] /\ stopped' = stopped \ {d} /\ d \in stopped
      /\ UNCHANGED <<outbox, network, provider, trouble>>
  BY DEF Vanish
<1>2. NoWork \in [Notices -> Phases] /\ \A k \in Notices : NoWork[k] = "none"
  BY DEF NoWork
<1>3. /\ work' \in [Drains -> [Notices -> Phases]] /\ work'[d] = NoWork
      /\ \A e \in Drains : e # d => work'[e] = work[e]
  BY <1>1, <1>2 DEF IInv, TypeOK
<1>4. TypeOK'
  BY <1>1, <1>3 DEF IInv, TypeOK
<1>5. \A e \in Drains, k \in Notices : Alive(e, k)' <=> Alive(e, k)
  BY <1>1, <1>2, <1>3 DEF Alive, Holds
<1>6. \A e \in Drains, k \in Notices : work'[e][k] = "accepted" => work[e][k] = "accepted"
  BY <1>2, <1>3
<1>7. Owned' /\ Charged'
  BY <1>1, <1>5 DEF IInv, Owned, Charged
<1>8. AnswersAreTrue' /\ SentWasAccepted'
  BY <1>1, <1>6 DEF IInv, AnswersAreTrue, SentWasAccepted
<1> QED
  BY <1>4, <1>7, <1>8 DEF IInv

LEMMA ClaimKeeps ==
  ASSUME IInv, NEW d \in Drains, Claim(d)
  PROVE  IInv'
<1>1. PICK batch \in SUBSET {n \in Notices : Due(n)} :
        /\ outbox' = [n \in Notices |->
             IF n \in batch THEN ClaimedBy(outbox[n], d) ELSE outbox[n]]
        /\ work' = [work EXCEPT ![d] = [n \in Notices |-> IF n \in batch THEN "claimed" ELSE "none"]]
  BY DEF Claim
<1>2. /\ UNCHANGED <<stopped, network, provider, trouble>>
      /\ work[d] = NoWork /\ d \notin stopped
  BY DEF Claim
<1>3. outbox \in [Notices -> Row] /\ MaxAttempts \in Nat /\ trouble \in Nat
  BY DEF IInv, TypeOK
<1>4. \A k \in batch : /\ outbox'[k] \in Row /\ outbox'[k].status = "sending"
                       /\ outbox'[k].claim = d /\ outbox'[k].claimAge = 0
                       /\ outbox'[k].attempts = outbox[k].attempts + 1
  <2> SUFFICES ASSUME NEW k \in batch
               PROVE  /\ outbox'[k] \in Row /\ outbox'[k].status = "sending"
                      /\ outbox'[k].claim = d /\ outbox'[k].claimAge = 0
                      /\ outbox'[k].attempts = outbox[k].attempts + 1
    OBVIOUS
  <2>1. outbox'[k] = ClaimedBy(outbox[k], d)
    BY <1>1
  <2>2. outbox[k] \in Row
    BY <1>3
  <2> QED
    BY <2>1, <2>2, ClaimedRow
<1>5. \A k \in Notices \ batch : outbox'[k] = outbox[k]
  BY <1>1
<1>6. outbox' \in [Notices -> Row]
  <2>1. DOMAIN outbox' = Notices /\ outbox' = [k \in Notices |-> outbox'[k]]
    BY <1>1
  <2>2. \A k \in Notices : outbox'[k] \in Row
    BY <1>3, <1>4, <1>5
  <2> QED
    BY <2>1, <2>2
<1>7. PICK mine : mine = [n \in Notices |-> IF n \in batch THEN "claimed" ELSE "none"]
  OBVIOUS
<1>8. /\ mine \in [Notices -> Phases]
      /\ \A k \in Notices : mine[k] # "none" <=> k \in batch
      /\ \A k \in Notices : mine[k] # "accepted"
  BY <1>7
<1>9. /\ work' \in [Drains -> [Notices -> Phases]] /\ work'[d] = mine
      /\ \A e \in Drains : e # d => work'[e] = work[e]
  BY <1>1, <1>7, <1>8 DEF IInv, TypeOK
<1>10. TypeOK'
  BY <1>2, <1>6, <1>9 DEF IInv, TypeOK
<1>11. \A e \in Drains, k \in batch : ~Alive(e, k)
  BY DEF Due, IInv, Owned
<1>12. \A k \in Notices : Alive(d, k)' <=> k \in batch
  BY <1>2, <1>8, <1>9 DEF Alive, Holds
<1>13. \A e \in Drains, k \in Notices : e # d => (Alive(e, k)' <=> Alive(e, k))
  BY <1>2, <1>9 DEF Alive, Holds
<1>14. \A k \in Notices : ~Alive(d, k)
  BY <1>2 DEF Alive, Holds, NoWork
<1>15. Owned'
  <2> SUFFICES ASSUME NEW e \in Drains, NEW k \in Notices, Alive(e, k)'
               PROVE  outbox'[k].status = "sending" /\ outbox'[k].claim = e
                      /\ outbox'[k].claimAge <= StaleAfter
    BY DEF Owned
  <2>1. CASE k \in batch
    <3>1. e = d
      BY <1>11, <1>13, <2>1
    <3> QED
      BY <1>4, <2>1, <3>1
  <2>2. CASE k \notin batch
    <3>1. Alive(e, k) /\ outbox'[k] = outbox[k]
      BY <1>5, <1>12, <1>13, <2>2
    <3> QED
      BY <3>1 DEF IInv, Owned
  <2> QED
    BY <2>1, <2>2
<1>16. AnswersAreTrue'
  BY <1>2, <1>8, <1>9 DEF IInv, AnswersAreTrue
<1>17. SentWasAccepted'
  BY <1>2, <1>4, <1>5 DEF IInv, SentWasAccepted
<1>18. Charged'
  <2> SUFFICES ASSUME NEW k \in Notices
               PROVE  /\ outbox'[k].attempts <= MaxAttempts + trouble'
                      /\ outbox'[k].status = "sending" => outbox'[k].attempts > 0
                      /\ \/ outbox'[k].status \in Final
                         \/ \E e \in Drains : Alive(e, k)'
                         \/ outbox'[k].attempts < MaxAttempts + trouble'
    BY DEF Charged
  <2>1. outbox[k].attempts \in Nat
    BY <1>3 DEF Row
  <2>2. CASE k \in batch
    <3>1. outbox[k].status \notin Final
      BY <2>2 DEF Due
    <3>2. outbox[k].attempts < MaxAttempts + trouble
      BY <1>11, <2>2, <3>1 DEF IInv, Charged
    <3>3. outbox'[k].attempts = outbox[k].attempts + 1
      BY <1>4, <2>2
    <3>4. Alive(d, k)'
      BY <1>12, <2>2
    <3>5. outbox'[k].attempts <= MaxAttempts + trouble' /\ outbox'[k].attempts > 0
      BY <1>2, <1>3, <2>1, <3>2, <3>3
    <3> QED
      BY <3>4, <3>5
  <2>3. CASE k \notin batch
    <3>1. outbox'[k] = outbox[k] /\ trouble' = trouble
      BY <1>2, <1>5, <2>3
    <3>2. \A e \in Drains : Alive(e, k) => Alive(e, k)'
      BY <1>13, <1>14
    <3> QED
      BY <3>1, <3>2 DEF IInv, Charged
  <2> QED
    BY <2>2, <2>3
<1> QED
  BY <1>10, <1>15, <1>16, <1>17, <1>18 DEF IInv

LEMMA ReconcileKeeps ==
  ASSUME IInv, Reconcile
  PROVE  IInv'
<1>1. /\ outbox' = [n \in Notices |-> IF Stale(n) THEN Reconciled(outbox[n]) ELSE outbox[n]]
      /\ UNCHANGED <<work, stopped, network, provider, trouble>>
  BY DEF Reconcile
<1>2. outbox \in [Notices -> Row] /\ MaxAttempts \in Nat /\ trouble \in Nat
  BY DEF IInv, TypeOK
<1>3. \A k \in Notices : Stale(k) =>
        /\ outbox'[k] \in Row /\ outbox'[k].status \in {"failed", "dead"}
        /\ outbox'[k].attempts = outbox[k].attempts
  <2> SUFFICES ASSUME NEW k \in Notices, Stale(k)
               PROVE  /\ outbox'[k] \in Row /\ outbox'[k].status \in {"failed", "dead"}
                      /\ outbox'[k].attempts = outbox[k].attempts
    OBVIOUS
  <2>1. outbox'[k] = Reconciled(outbox[k])
    BY <1>1
  <2> QED
    BY <1>2, <2>1, ReconciledRow
<1>4. \A k \in Notices : ~Stale(k) => outbox'[k] = outbox[k]
  BY <1>1
<1>5. outbox' \in [Notices -> Row]
  <2>1. outbox' = [k \in Notices |-> outbox'[k]]
    BY <1>1
  <2>2. \A k \in Notices : outbox'[k] \in Row
    BY <1>2, <1>3, <1>4
  <2> QED
    BY <2>1, <2>2
<1>6. TypeOK'
  BY <1>1, <1>5 DEF IInv, TypeOK
<1>7. \A e \in Drains, k \in Notices : Alive(e, k)' <=> Alive(e, k)
  BY <1>1 DEF Alive, Holds
<1>8. \A e \in Drains, k \in Notices : Stale(k) => ~Alive(e, k)
  <2> SUFFICES ASSUME NEW e \in Drains, NEW k \in Notices, Stale(k), Alive(e, k)
               PROVE  FALSE
    OBVIOUS
  <2>1. outbox[k].claimAge <= StaleAfter
    BY DEF IInv, Owned
  <2>2. outbox[k].claimAge \in Nat /\ outbox[k].claimAge > StaleAfter
    BY <1>2 DEF Stale, Row
  <2> QED
    BY <2>1, <2>2
<1>9. Owned'
  BY <1>4, <1>7, <1>8 DEF IInv, Owned
<1>10. AnswersAreTrue'
  BY <1>1 DEF IInv, AnswersAreTrue
<1>11. SentWasAccepted'
  BY <1>1, <1>3, <1>4 DEF IInv, SentWasAccepted
<1>12. Charged'
  <2> SUFFICES ASSUME NEW k \in Notices
               PROVE  /\ outbox'[k].attempts <= MaxAttempts + trouble'
                      /\ outbox'[k].status = "sending" => outbox'[k].attempts > 0
                      /\ \/ outbox'[k].status \in Final
                         \/ \E e \in Drains : Alive(e, k)'
                         \/ outbox'[k].attempts < MaxAttempts + trouble'
    BY DEF Charged
  <2>1. CASE Stale(k)
    <3>1. outbox[k].attempts < MaxAttempts + trouble
      BY <1>8, <2>1 DEF Stale, IInv, Charged
    <3>2. outbox'[k].attempts = outbox[k].attempts /\ outbox'[k].status # "sending"
      BY <1>3, <2>1
    <3>3. outbox[k].attempts \in Nat
      BY <1>2 DEF Row
    <3> QED
      BY <1>1, <1>2, <3>1, <3>2, <3>3
  <2>2. CASE ~Stale(k)
    BY <1>1, <1>4, <1>7, <2>2 DEF IInv, Charged
  <2> QED
    BY <2>1, <2>2
<1> QED
  BY <1>6, <1>9, <1>10, <1>11, <1>12 DEF IInv

LEMMA ReleaseKeeps ==
  ASSUME IInv, NEW d \in Drains, Release(d)
  PROVE  IInv'
<1> DEFINE Given(k) == work[d][k] = "claimed" /\ Claimed(d, k)
<1>1. /\ outbox' = [n \in Notices |-> IF Given(n) THEN Released(outbox[n]) ELSE outbox[n]]
      /\ work' = [work EXCEPT ![d] = NoWork]
      /\ UNCHANGED <<stopped, network, provider>>
      /\ trouble' = trouble + 1 /\ trouble < MaxTrouble
      /\ d \notin stopped
  BY DEF Release, Trouble, Running
<1>2. outbox \in [Notices -> Row] /\ MaxAttempts \in Nat /\ trouble \in Nat
  BY DEF IInv, TypeOK
<1>a. \A k \in Notices : Given(k) => Claimed(d, k)
  OBVIOUS
<1> HIDE DEF Given
<1>3. \A k \in Notices : Given(k) =>
        /\ outbox'[k] \in Row /\ outbox'[k].status \in {"pending", "failed"}
        /\ outbox'[k].attempts <= outbox[k].attempts
  <2> SUFFICES ASSUME NEW k \in Notices, Given(k)
               PROVE  /\ outbox'[k] \in Row /\ outbox'[k].status \in {"pending", "failed"}
                      /\ outbox'[k].attempts <= outbox[k].attempts
    OBVIOUS
  <2>1. outbox'[k] = Released(outbox[k])
    BY <1>1
  <2> QED
    BY <1>2, <2>1, ReleasedRow
<1>4. \A k \in Notices : ~Given(k) => outbox'[k] = outbox[k]
  BY <1>1
<1>5. outbox' \in [Notices -> Row]
  <2>1. outbox' = [k \in Notices |-> outbox'[k]]
    BY <1>1
  <2>2. \A k \in Notices : outbox'[k] \in Row
    BY <1>2, <1>3, <1>4
  <2> QED
    BY <2>1, <2>2
<1>6. /\ work' \in [Drains -> [Notices -> Phases]] /\ work'[d] = NoWork
      /\ \A e \in Drains : e # d => work'[e] = work[e]
      /\ \A k \in Notices : NoWork[k] = "none"
  BY <1>1 DEF IInv, TypeOK, NoWork
<1>7. trouble' \in 0 .. MaxTrouble
  BY <1>1, <1>2
<1>8. TypeOK'
  BY <1>1, <1>5, <1>6, <1>7 DEF IInv, TypeOK
<1>9. \A e \in Drains, k \in Notices : Alive(e, k)' => Alive(e, k) /\ e # d
  BY <1>1, <1>6 DEF Alive, Holds
<1>10. \A e \in Drains, k \in Notices : Given(k) => ~Alive(e, k) \/ e = d
  BY <1>a DEF Claimed, IInv, Owned
<1>11. Owned'
  BY <1>4, <1>9, <1>10 DEF IInv, Owned
<1>12. AnswersAreTrue'
  BY <1>1, <1>6 DEF IInv, AnswersAreTrue
<1>13. SentWasAccepted'
  BY <1>1, <1>3, <1>4 DEF IInv, SentWasAccepted
<1>14. \A k \in Notices : /\ outbox'[k].attempts <= MaxAttempts + trouble
                          /\ outbox'[k].attempts \in Nat
  <2> SUFFICES ASSUME NEW k \in Notices
               PROVE  outbox'[k].attempts <= MaxAttempts + trouble /\ outbox'[k].attempts \in Nat
    OBVIOUS
  <2>1. outbox[k].attempts \in Nat /\ outbox'[k].attempts \in Nat
    BY <1>2, <1>5 DEF Row
  <2>2. outbox[k].attempts <= MaxAttempts + trouble
    BY DEF IInv, Charged
  <2>3. outbox'[k].attempts <= outbox[k].attempts
    BY <1>3, <1>4, <2>1
  <2> QED
    BY <1>2, <2>1, <2>2, <2>3
<1>15. \A k \in Notices : /\ outbox'[k].attempts <= MaxAttempts + trouble'
                          /\ outbox'[k].attempts < MaxAttempts + trouble'
  BY <1>1, <1>2, <1>14
<1>16. \A k \in Notices : outbox'[k].status = "sending" => outbox'[k].attempts > 0
  BY <1>3, <1>4 DEF IInv, Charged
<1>17. Charged'
  BY <1>15, <1>16 DEF Charged
<1> QED
  BY <1>8, <1>11, <1>12, <1>13, <1>17 DEF IInv

LEMMA OlderFacts ==
  ASSUME NEW age \in 0 .. Window
  PROVE  /\ Older(age) \in 0 .. Window /\ Older(age) <= age + 1
         /\ \A younger \in 0 .. Window : younger <= age => Older(younger) <= Older(age)
BY DEF Older

LEMMA TickKeeps ==
  ASSUME IInv, Tick
  PROVE  IInv'
<1>1. /\ outbox \in [Notices -> Row] /\ provider \in [Notices -> [mails : Nat, keyAge : 0 .. Window]]
      /\ UNCHANGED <<work, stopped, network, trouble>>
  BY DEF Tick, IInv, TypeOK
<1>2. \A k \in Notices :
        /\ outbox'[k] \in Row
        /\ outbox'[k].status = outbox[k].status /\ outbox'[k].attempts = outbox[k].attempts
        /\ outbox'[k].claim = outbox[k].claim
        /\ outbox'[k].claimAge <= outbox[k].claimAge + 1
  <2> SUFFICES ASSUME NEW k \in Notices
               PROVE  /\ outbox'[k] \in Row
                      /\ outbox'[k].status = outbox[k].status
                      /\ outbox'[k].attempts = outbox[k].attempts
                      /\ outbox'[k].claim = outbox[k].claim
                      /\ outbox'[k].claimAge <= outbox[k].claimAge + 1
    OBVIOUS
  <2>a. PICK old : old = outbox[k]
    OBVIOUS
  <2>b. PICK wait : wait = IF old.wait > 0 THEN old.wait - 1 ELSE 0
    OBVIOUS
  <2>c. PICK age : age = IF old.claim = None THEN old.claimAge ELSE Older(old.claimAge)
    OBVIOUS
  <2>d. PICK new : new = [old EXCEPT !.wait = wait, !.claimAge = age]
    OBVIOUS
  <2>1. outbox'[k] = new
    BY <2>a, <2>b, <2>c, <2>d DEF Tick
  <2>2. old \in Row /\ old.wait \in Nat /\ old.claimAge \in 0 .. Window
    BY <1>1, <2>a DEF Row
  <2>3. wait \in Nat
    BY <2>2, <2>b
  <2>4. age \in 0 .. Window /\ age <= old.claimAge + 1
    <3>1. Older(old.claimAge) \in 0 .. Window /\ Older(old.claimAge) <= old.claimAge + 1
      BY <2>2, OlderFacts
    <3> QED
      BY <2>2, <2>c, <3>1
  <2>5. new \in Row
    BY <2>2, <2>3, <2>4, <2>d DEF Row
  <2>6. /\ new.status = old.status /\ new.attempts = old.attempts
        /\ new.claim = old.claim /\ new.claimAge = age
    BY <2>2, <2>d DEF Row
  <2> QED
    BY <2>1, <2>4, <2>5, <2>6, <2>a
<1>3. outbox' \in [Notices -> Row]
  <2>1. outbox' = [k \in Notices |-> outbox'[k]]
    BY DEF Tick
  <2> QED
    BY <1>2, <2>1
<1>4. \A k \in Notices : /\ provider'[k] \in [mails : Nat, keyAge : 0 .. Window]
                         /\ provider'[k].mails = provider[k].mails
  <2> SUFFICES ASSUME NEW k \in Notices
               PROVE  /\ provider'[k] \in [mails : Nat, keyAge : 0 .. Window]
                      /\ provider'[k].mails = provider[k].mails
    OBVIOUS
  <2>a. PICK old : old = provider[k]
    OBVIOUS
  <2>b. PICK age : age = IF old.mails = 0 THEN old.keyAge ELSE Older(old.keyAge)
    OBVIOUS
  <2>1. provider'[k] = [old EXCEPT !.keyAge = age]
    BY <2>a, <2>b DEF Tick
  <2>2. old \in [mails : Nat, keyAge : 0 .. Window] /\ old.keyAge \in 0 .. Window
    BY <1>1, <2>a
  <2>3. age \in 0 .. Window
    BY <2>2, <2>b, OlderFacts
  <2> QED
    BY <2>1, <2>2, <2>3, <2>a
<1>5. provider' \in [Notices -> [mails : Nat, keyAge : 0 .. Window]]
  <2>1. provider' = [k \in Notices |-> provider'[k]]
    BY DEF Tick
  <2> QED
    BY <1>4, <2>1
<1>6. TypeOK'
  BY <1>1, <1>3, <1>5 DEF IInv, TypeOK
<1>7. \A e \in Drains, k \in Notices : Alive(e, k)' <=> Alive(e, k)
  BY <1>1 DEF Alive, Holds
<1>8. Owned'
  <2> SUFFICES ASSUME NEW e \in Drains, NEW k \in Notices, Alive(e, k)
               PROVE  outbox'[k].status = "sending" /\ outbox'[k].claim = e
                      /\ outbox'[k].claimAge <= StaleAfter
    BY <1>7 DEF Owned
  <2>1. outbox[k].status = "sending" /\ outbox[k].claim = e
    BY DEF IInv, Owned
  <2>2. outbox[k].claimAge < StaleAfter
    BY <2>1 DEF Tick, InTime, Alive
  <2>3. outbox[k].claimAge \in Nat /\ outbox'[k].claimAge \in Nat
    BY <1>1, <1>3 DEF Row
  <2>4. outbox'[k].claimAge <= StaleAfter
    BY <1>2, <2>2, <2>3
  <2> QED
    BY <1>2, <2>1, <2>4
<1>9. AnswersAreTrue' /\ SentWasAccepted'
  BY <1>1, <1>2, <1>4 DEF IInv, AnswersAreTrue, SentWasAccepted
<1>10. Charged'
  BY <1>1, <1>2, <1>7 DEF IInv, Charged
<1> QED
  BY <1>6, <1>8, <1>9, <1>10 DEF IInv

LEMMA StepKeeps ==
  ASSUME IInv, [Next]_vars
  PROVE  IInv'
<1>1. CASE UNCHANGED vars
  <2>1. TypeOK' /\ AnswersAreTrue' /\ SentWasAccepted'
    BY <1>1 DEF vars, IInv, TypeOK, AnswersAreTrue, SentWasAccepted
  <2>2. Owned' /\ Charged'
    BY <1>1 DEF vars, IInv, Owned, Charged, Alive, Holds
  <2> QED
    BY <2>1, <2>2 DEF IInv
<1>2. ASSUME NEW d \in Drains, Claim(d) \/ Release(d) \/ Stop(d) \/ Vanish(d)
      PROVE  IInv'
  BY <1>2, ClaimKeeps, ReleaseKeeps, StopKeeps, VanishKeeps
<1>3. ASSUME NEW d \in Drains, NEW n \in Notices,
             \/ Send(d, n) \/ Unsendable(d, n)
             \/ Accept(d, n) \/ Refuse(d, n) \/ Timeout(d, n)
             \/ Settled(d, n) \/ LoseMark(d, n)
      PROVE  IInv'
  BY <1>3, SendKeeps, AnswerKeeps, SettledKeeps, LoseMarkKeeps
<1> QED
  BY <1>1, <1>2, <1>3, ReconcileKeeps, TickKeeps DEF Next

LEMMA IInvAlways == Spec => []IInv
<1>1. Init => IInv
  BY InitIsSound
<1>2. IInv /\ [Next]_vars => IInv'
  BY StepKeeps
<1> QED
  BY <1>1, <1>2, PTL DEF Spec
-----------------------------------------------------------------------------
\* Every variable keeps its type (what the claims, the writes under them and
\* the reconciliation of delivery.ts and sql.ts leave behind are rows).
THEOREM TypeCorrect == Spec => []TypeOK
<1>1. IInv => TypeOK
  BY DEF IInv
<1> QED
  BY <1>1, IInvAlways, PTL

\* A notice is marked sent only if the provider accepted its key (the writes of
\* deliverClaimedRow, late ones and those of stopped functions included).
THEOREM SentOnlyIfAccepted == Spec => []SentWasAccepted
<1>1. IInv => SentWasAccepted
  BY DEF IInv
<1> QED
  BY <1>1, IInvAlways, PTL

\* No two running drains hold one notice, whatever crons claim and reconcile
\* meanwhile: a running function is younger than its claims' stale age.
THEOREM ClaimsAreExclusive == Spec => []OneDrainPerNotice
<1>1. IInv => OneDrainPerNotice
  BY DEF IInv, OneDrainPerNotice, Owned, Running, Alive
<1> QED
  BY <1>1, IInvAlways, PTL

\* A notice is attempted at most MaxAttempts times and once more for everything
\* that went wrong with a claim (RECONCILE_STALE_CLAIMS_SQL counts nothing).
THEOREM AttemptsAreBounded == Spec => []AttemptsBounded
<1>1. IInv => AttemptsBounded
  BY DEF IInv, AttemptsBounded, Charged
<1> QED
  BY <1>1, IInvAlways, PTL

\* sent and dead are never left (every statement of sql.ts on a row requires the
\* status it is to leave).
THEOREM OutcomesAreFinal == Spec => OutcomeIsFinal
<1>1. ASSUME IInv, [Next]_vars, NEW n \in Notices, outbox[n].status \in Final
      PROVE  outbox'[n].status = outbox[n].status
  <2>1. outbox[n].status \notin {"pending", "failed", "sending"} /\ outbox \in [Notices -> Row]
    BY <1>1 DEF IInv, TypeOK
  <2>2. CASE outbox' = outbox
    BY <2>2
  <2>3. ASSUME NEW d \in Drains, Claim(d) PROVE outbox'[n] = outbox[n]
    BY <2>1, <2>3 DEF Claim, Due
  <2>4. ASSUME NEW d \in Drains, Release(d) PROVE outbox'[n] = outbox[n]
    BY <2>1, <2>4 DEF Release, Claimed
  <2>5. ASSUME NEW d \in Drains, NEW k \in Notices, NEW row, Write(d, k, row)
        PROVE  outbox'[n] = outbox[n]
    BY <2>1, <2>5 DEF Write, Claimed
  <2>6. ASSUME NEW d \in Drains, NEW k \in Notices, Settled(d, k) PROVE outbox'[n] = outbox[n]
    <3>1. \E row : Write(d, k, row)
      BY <2>6 DEF Settled, MarkSent, MarkFailed
    <3> QED
      BY <3>1, <2>5
  <2>7. ASSUME Reconcile PROVE outbox'[n] = outbox[n]
    BY <2>1, <2>7 DEF Reconcile, Stale
  <2>8. ASSUME Tick PROVE outbox'[n].status = outbox[n].status
    <3>a. PICK old : old = outbox[n]
      OBVIOUS
    <3>b. PICK wait : wait = IF old.wait > 0 THEN old.wait - 1 ELSE 0
      OBVIOUS
    <3>c. PICK age : age = IF old.claim = None THEN old.claimAge ELSE Older(old.claimAge)
      OBVIOUS
    <3>1. outbox'[n] = [old EXCEPT !.wait = wait, !.claimAge = age]
      BY <2>8, <3>a, <3>b, <3>c DEF Tick
    <3>2. old \in Row
      BY <2>1, <3>a
    <3> QED
      BY <3>1, <3>2, <3>a DEF Row
  <2>9. \/ outbox' = outbox
        \/ \E d \in Drains : Claim(d) \/ Release(d)
        \/ \E d \in Drains, k \in Notices : Settled(d, k)
        \/ Reconcile \/ Tick
    BY <1>1 DEF Next, vars, Stop, Vanish, Send, Unsendable, Accept, Refuse, Timeout, LoseMark
  <2> QED
    BY <2>2, <2>3, <2>4, <2>6, <2>7, <2>8, <2>9
<1>2. IInv /\ [Next]_vars => [\A n \in Notices : outbox[n].status \in Final =>
                                outbox'[n].status = outbox[n].status]_vars
  BY <1>1
<1> QED
  BY <1>2, IInvAlways, PTL DEF OutcomeIsFinal, Spec
-----------------------------------------------------------------------------
\* The first attempt, an invariant above IInv.  A notice never attempted, or
\* whose first claim has not sent it yet, is unknown to the provider; so the key
\* of a first attempt is younger than its claim, and no write is made under a
\* claim that has outlived the provider's window.
Untried(n) == provider[n].mails = 0 /\ \A d \in Drains : <<d, n>> \notin network

Unused == \A n \in Notices : outbox[n].attempts = 0 => Untried(n)

ClaimUnsent ==
  \A d \in Drains, n \in Notices :
    Alive(d, n) /\ work[d][n] = "claimed" /\ outbox[n].attempts = 1 => Untried(n)

KeyIsYounger ==
  \A n \in Notices :
    outbox[n].status = "sending" /\ outbox[n].attempts = 1 /\ provider[n].mails > 0 =>
      provider[n].keyAge <= outbox[n].claimAge

WritesAreYoung ==
  \A d \in Drains, n \in Notices :
    Holds(d, n) /\ outbox[n].claim = d => outbox[n].claimAge <= SafeAge

SendingIsClaimed ==
  \A n \in Notices : outbox[n].status = "sending" => outbox[n].claim \in Drains

FirstAttempt == Unused /\ ClaimUnsent /\ KeyIsYounger /\ WritesAreYoung /\ SendingIsClaimed

LEMMA InitFirst ==
  ASSUME Init
  PROVE  FirstAttempt
<1>1. \A n \in Notices : /\ outbox[n].status = "pending" /\ outbox[n].attempts = 0
                          /\ provider[n].mails = 0
  BY DEF Init, Enqueued
<1>2. network = {} /\ \A d \in Drains, n \in Notices : work[d][n] = "none"
  BY DEF Init, NoWork
<1> QED
  BY <1>1, <1>2 DEF FirstAttempt, Unused, ClaimUnsent, KeyIsYounger, WritesAreYoung,
                    SendingIsClaimed, Untried, Holds

\* Steps in which rows at most end their claims, and drains lose work.
LEMMA ClaimsEnd ==
  ASSUME IInv, IInv', FirstAttempt, UNCHANGED <<network, provider>>,
         \A n \in Notices :
           \/ outbox'[n] = outbox[n]
           \/ /\ outbox'[n].status # "sending" /\ outbox'[n].claim = None
              /\ outbox'[n].attempts = 0 => Untried(n),
         \A d \in Drains, n \in Notices :
           /\ Holds(d, n)' => Holds(d, n)
           /\ Alive(d, n)' /\ work'[d][n] = "claimed" => Alive(d, n) /\ work[d][n] = "claimed"
  PROVE  FirstAttempt'
<1>1. \A n \in Notices : Untried(n)' <=> Untried(n)
  BY DEF Untried
<1>2. Unused'
  BY <1>1 DEF FirstAttempt, Unused
<1>3. ClaimUnsent'
  BY <1>1 DEF FirstAttempt, ClaimUnsent, IInv, Owned
<1>4. KeyIsYounger' /\ SendingIsClaimed'
  BY DEF FirstAttempt, KeyIsYounger, SendingIsClaimed
<1>5. WritesAreYoung'
  BY DEF FirstAttempt, WritesAreYoung
<1> QED
  BY <1>2, <1>3, <1>4, <1>5 DEF FirstAttempt

LEMMA LossFirst ==
  ASSUME IInv, FirstAttempt, NEW d \in Drains,
         Stop(d) \/ Vanish(d) \/ \E n \in Notices : LoseMark(d, n)
  PROVE  FirstAttempt'
<1>1. UNCHANGED <<outbox, network, provider>>
  BY DEF Stop, Vanish, LoseMark
<1>2. IInv'
  BY StopKeeps, VanishKeeps, LoseMarkKeeps
<1>3. ASSUME NEW e \in Drains, NEW k \in Notices
      PROVE  /\ Holds(e, k)' => Holds(e, k)
             /\ Alive(e, k)' /\ work'[e][k] = "claimed" => Alive(e, k) /\ work[e][k] = "claimed"
  <2>1. work \in [Drains -> [Notices -> Phases]]
    BY DEF IInv, TypeOK
  <2>2. CASE Stop(d)
    <3>1. /\ e # d => work'[e] = work[e]
          /\ work'[d][k] = IF work[d][k] \in Decided THEN work[d][k] ELSE "none"
          /\ stopped' = stopped \cup {d}
      BY <2>1, <2>2 DEF Stop
    <3> QED
      BY <3>1 DEF Holds, Alive
  <2>3. CASE Vanish(d)
    <3>1. /\ e # d => work'[e] = work[e]
          /\ work'[d][k] = "none" /\ stopped' = stopped \ {d}
      BY <2>1, <2>3 DEF Vanish, NoWork
    <3> QED
      BY <3>1 DEF Holds, Alive
  <2>4. ASSUME NEW n \in Notices, LoseMark(d, n)
        PROVE  /\ Holds(e, k)' => Holds(e, k)
               /\ Alive(e, k)' /\ work'[e][k] = "claimed" => Alive(e, k) /\ work[e][k] = "claimed"
    <3>1. stopped' = stopped /\ (work'[e][k] = work[e][k] \/ work'[e][k] = "none")
      BY <2>1, <2>4 DEF LoseMark
    <3> QED
      BY <3>1 DEF Holds, Alive
  <2> QED
    BY <2>2, <2>3, <2>4
<1> QED
  BY <1>1, <1>2, <1>3, ClaimsEnd

LEMMA SettledFirst ==
  ASSUME IInv, FirstAttempt, NEW d \in Drains, NEW n \in Notices, Settled(d, n)
  PROVE  FirstAttempt'
<1>1. /\ work' = [work EXCEPT ![d][n] = "none"] /\ UNCHANGED <<stopped, network, provider>>
  BY DEF Settled, MarkSent, MarkFailed
<1>2. IInv'
  BY SettledKeeps
<1>3. ASSUME NEW e \in Drains, NEW k \in Notices
      PROVE  /\ Holds(e, k)' => Holds(e, k)
             /\ Alive(e, k)' /\ work'[e][k] = "claimed" => Alive(e, k) /\ work[e][k] = "claimed"
  <2>1. work'[e][k] = work[e][k] \/ work'[e][k] = "none"
    BY <1>1 DEF IInv, TypeOK
  <2> QED
    BY <1>1, <2>1 DEF Holds, Alive
<1>4. outbox[n] \in Row /\ outbox \in [Notices -> Row]
  BY DEF IInv, TypeOK
<1>5. CASE ~Claimed(d, n)
  <2>1. outbox' = outbox
    BY <1>5 DEF Settled, MarkSent, MarkFailed, Write
  <2> QED
    BY <1>1, <1>2, <1>3, <2>1, ClaimsEnd
<1>6. CASE Claimed(d, n)
  <2>1. outbox[n].attempts > 0 /\ outbox[n].attempts \in Nat
    BY <1>4, <1>6 DEF Claimed, IInv, Charged, Row
  <2>2. PICK row : /\ outbox' = [outbox EXCEPT ![n] = row]
                   /\ row.status # "sending" /\ row.claim = None
                   /\ row.attempts = outbox[n].attempts
    <3>1. CASE MarkSent(d, n)
      <4>1. PICK row : row = Unclaimed(outbox[n], "sent")
        OBVIOUS
      <4>2. row.status = "sent" /\ row.claim = None /\ row.attempts = outbox[n].attempts
        BY <1>4, <4>1, UnclaimedRow
      <4>3. outbox' = [outbox EXCEPT ![n] = row]
        BY <1>6, <3>1, <4>1 DEF MarkSent, Write
      <4> QED
        BY <4>2, <4>3
    <3>2. CASE MarkFailed(d, n)
      <4>1. PICK row : row = FailedRow(outbox[n], work[d][n])
        OBVIOUS
      <4>2. row.status # "sending" /\ row.claim = None /\ row.attempts = outbox[n].attempts
        BY <1>4, <2>1, <4>1, FailedRowFacts
      <4>3. outbox' = [outbox EXCEPT ![n] = row]
        BY <1>6, <3>2, <4>1 DEF MarkFailed, Write
      <4> QED
        BY <4>2, <4>3
    <3> QED
      BY <3>1, <3>2 DEF Settled
  <2>3. \A k \in Notices : \/ outbox'[k] = outbox[k]
                            \/ /\ outbox'[k].status # "sending" /\ outbox'[k].claim = None
                               /\ outbox'[k].attempts = 0 => Untried(k)
    BY <1>4, <2>1, <2>2
  <2> QED
    BY <1>1, <1>2, <1>3, <2>3, ClaimsEnd
<1> QED
  BY <1>5, <1>6

LEMMA ReconcileFirst ==
  ASSUME IInv, FirstAttempt, Reconcile
  PROVE  FirstAttempt'
<1>1. /\ outbox' = [n \in Notices |-> IF Stale(n) THEN Reconciled(outbox[n]) ELSE outbox[n]]
      /\ UNCHANGED <<work, stopped, network, provider>>
  BY DEF Reconcile
<1>2. ASSUME NEW n \in Notices, Stale(n)
      PROVE  /\ outbox'[n].status # "sending" /\ outbox'[n].claim = None
             /\ outbox'[n].attempts = 0 => Untried(n)
  <2>1. outbox[n] \in Row /\ outbox'[n] = Reconciled(outbox[n])
    BY <1>1, <1>2 DEF IInv, TypeOK
  <2> QED
    BY <2>1, ReconciledRow DEF FirstAttempt, Unused
<1>3. \A n \in Notices : ~Stale(n) => outbox'[n] = outbox[n]
  BY <1>1
<1>4. \A e \in Drains, k \in Notices :
        /\ Holds(e, k)' => Holds(e, k)
        /\ Alive(e, k)' /\ work'[e][k] = "claimed" => Alive(e, k) /\ work[e][k] = "claimed"
  BY <1>1 DEF Holds, Alive
<1> QED
  BY <1>1, <1>2, <1>3, <1>4, ReconcileKeeps, ClaimsEnd

\* A released claim is uncounted, but what it claimed was not sent under it.
LEMMA ReleaseFirst ==
  ASSUME IInv, FirstAttempt, NEW d \in Drains, Release(d)
  PROVE  FirstAttempt'
<1> DEFINE Given(k) == work[d][k] = "claimed" /\ Claimed(d, k)
<1>1. /\ outbox' = [n \in Notices |-> IF Given(n) THEN Released(outbox[n]) ELSE outbox[n]]
      /\ work' = [work EXCEPT ![d] = NoWork]
      /\ UNCHANGED <<stopped, network, provider>>
      /\ d \notin stopped
  BY DEF Release, Running
<1>2. ASSUME NEW n \in Notices, Given(n)
      PROVE  /\ outbox'[n].status # "sending" /\ outbox'[n].claim = None
             /\ outbox'[n].attempts = 0 => Untried(n)
  <2>1. outbox[n] \in Row /\ outbox'[n] = Released(outbox[n])
    BY <1>1, <1>2 DEF IInv, TypeOK
  <2>2. outbox[n].attempts > 0 /\ outbox[n].attempts \in Nat
    BY <1>2, <2>1 DEF Claimed, IInv, Charged, Row
  <2>3. Alive(d, n) /\ work[d][n] = "claimed"
    BY <1>1, <1>2 DEF Alive, Holds
  <2>4. outbox[n].attempts = 1 => Untried(n)
    BY <2>3 DEF FirstAttempt, ClaimUnsent
  <2> QED
    BY <2>1, <2>2, <2>4, ReleasedRow
<1>3. \A n \in Notices : ~Given(n) => outbox'[n] = outbox[n]
  BY <1>1
<1> HIDE DEF Given
<1>4. ASSUME NEW e \in Drains, NEW k \in Notices
      PROVE  /\ Holds(e, k)' => Holds(e, k)
             /\ Alive(e, k)' /\ work'[e][k] = "claimed" => Alive(e, k) /\ work[e][k] = "claimed"
  <2>1. work'[e][k] = work[e][k] \/ work'[e][k] = "none"
    BY <1>1 DEF IInv, TypeOK, NoWork
  <2> QED
    BY <1>1, <2>1 DEF Holds, Alive
<1> QED
  BY <1>1, <1>2, <1>3, <1>4, ReleaseKeeps, ClaimsEnd

\* A first claim is on a notice the provider has never heard of.
LEMMA ClaimFirst ==
  ASSUME IInv, FirstAttempt, NEW d \in Drains, Claim(d)
  PROVE  FirstAttempt'
<1>1. PICK batch \in SUBSET {n \in Notices : Due(n)} :
        /\ outbox' = [n \in Notices |->
             IF n \in batch THEN ClaimedBy(outbox[n], d) ELSE outbox[n]]
        /\ work' = [work EXCEPT ![d] = [n \in Notices |-> IF n \in batch THEN "claimed" ELSE "none"]]
  BY DEF Claim
<1>2. /\ UNCHANGED <<stopped, network, provider>> /\ d \notin stopped
      /\ \A k \in Notices : work[d][k] = "none"
  BY DEF Claim, NoWork
<1>3. outbox \in [Notices -> Row] /\ work \in [Drains -> [Notices -> Phases]]
  BY DEF IInv, TypeOK
<1>4. ASSUME NEW k \in batch
      PROVE  /\ outbox'[k].claim = d /\ outbox'[k].claimAge = 0
             /\ outbox'[k].attempts = outbox[k].attempts + 1
             /\ outbox[k].attempts \in Nat
             /\ outbox'[k].attempts = 1 => Untried(k)
  <2>1. outbox'[k] = ClaimedBy(outbox[k], d) /\ outbox[k] \in Row
    BY <1>1, <1>3
  <2>2. outbox[k].attempts \in Nat /\ (outbox[k].attempts = 0 => Untried(k))
    BY <2>1 DEF Row, FirstAttempt, Unused
  <2> QED
    BY <2>1, <2>2, ClaimedRow
<1>5. \A k \in Notices \ batch : outbox'[k] = outbox[k]
  BY <1>1
<1>6. \A e \in Drains, k \in Notices :
        work'[e][k] = IF e # d THEN work[e][k] ELSE IF k \in batch THEN "claimed" ELSE "none"
  BY <1>1, <1>3
<1>7. \A n \in Notices : Untried(n)' <=> Untried(n)
  BY <1>2 DEF Untried
<1>8. Unused'
  BY <1>4, <1>5, <1>7 DEF FirstAttempt, Unused
<1>9. ClaimUnsent'
  <2> SUFFICES ASSUME NEW e \in Drains, NEW k \in Notices,
                      Alive(e, k)', work'[e][k] = "claimed", outbox'[k].attempts = 1
               PROVE  Untried(k)
    BY <1>7 DEF ClaimUnsent
  <2>1. CASE k \in batch
    BY <1>4, <2>1
  <2>2. CASE k \notin batch
    <3>1. e # d /\ work'[e][k] = work[e][k] /\ outbox'[k] = outbox[k]
      BY <1>5, <1>6, <2>2
    <3>2. Alive(e, k)
      BY <1>2, <3>1 DEF Alive, Holds
    <3> QED
      BY <3>1, <3>2 DEF FirstAttempt, ClaimUnsent
  <2> QED
    BY <2>1, <2>2
<1>10. KeyIsYounger'
  BY <1>2, <1>4, <1>5 DEF FirstAttempt, KeyIsYounger, Untried
<1>11. WritesAreYoung'
  <2> SUFFICES ASSUME NEW e \in Drains, NEW k \in Notices, work'[e][k] # "none", outbox'[k].claim = e
               PROVE  outbox'[k].claimAge <= SafeAge
    BY DEF WritesAreYoung, Holds
  <2>1. CASE k \in batch
    BY <1>4, <2>1 DEF SafeAge
  <2>2. CASE k \notin batch
    <3>1. work[e][k] # "none" /\ outbox'[k] = outbox[k]
      BY <1>5, <1>6, <2>2
    <3> QED
      BY <3>1 DEF FirstAttempt, WritesAreYoung, Holds
  <2> QED
    BY <2>1, <2>2
<1>12. SendingIsClaimed'
  BY <1>4, <1>5 DEF FirstAttempt, SendingIsClaimed
<1> QED
  BY <1>8, <1>9, <1>10, <1>11, <1>12 DEF FirstAttempt

\* Requests on their way, and their answers.
LEMMA ExchangeFirst ==
  ASSUME IInv, FirstAttempt, UNCHANGED <<outbox, stopped>>,
         NEW d \in Drains, NEW n \in Notices,
         network' \subseteq network \cup {<<d, n>>},
         \A e \in Drains, k \in Notices :
           /\ Holds(e, k)' => Holds(e, k)
           /\ work'[e][k] = "claimed" => work[e][k] = "claimed",
         \A k \in Notices : k # n => provider'[k] = provider[k],
         \/ Alive(d, n) /\ work'[d][n] # "claimed" /\ provider' = provider
         \/ <<d, n>> \in network /\ (provider'[n] = provider[n] \/ provider'[n].keyAge = 0)
  PROVE  FirstAttempt'
<1>1. \A e \in Drains, k \in Notices : Alive(e, k)' => Alive(e, k)
  BY DEF Alive
<1>2. \A k \in Notices : k # n /\ Untried(k) => Untried(k)'
  BY DEF Untried
<1>3. outbox[n].attempts = 0 => ~Untried(n) \/ Untried(n)'
  <2>1. CASE Alive(d, n)
    BY <2>1 DEF IInv, Owned, Charged
  <2>2. CASE <<d, n>> \in network
    BY <2>2 DEF Untried
  <2> QED
    BY <2>1, <2>2
<1>4. Unused'
  BY <1>2, <1>3 DEF FirstAttempt, Unused
<1>5. ClaimUnsent'
  <2> SUFFICES ASSUME NEW e \in Drains, NEW k \in Notices,
                      Alive(e, k)', work'[e][k] = "claimed", outbox[k].attempts = 1
               PROVE  Untried(k)'
    BY DEF ClaimUnsent
  <2>1. Alive(e, k) /\ Untried(k)
    BY <1>1 DEF FirstAttempt, ClaimUnsent
  <2>2. CASE k # n
    BY <1>2, <2>1, <2>2
  <2>3. CASE k = n
    <3>1. <<d, n>> \notin network
      BY <2>1, <2>3 DEF Untried
    <3>2. Alive(d, n) /\ work'[d][n] # "claimed"
      BY <3>1
    <3>3. e = d
      BY <2>1, <2>3, <3>2 DEF IInv, Owned
    <3> QED
      BY <2>3, <3>2, <3>3
  <2> QED
    BY <2>2, <2>3
<1>6. KeyIsYounger'
  <2>1. outbox[n].claimAge \in Nat
    BY DEF IInv, TypeOK, Row
  <2> QED
    BY <2>1 DEF FirstAttempt, KeyIsYounger
<1>7. WritesAreYoung' /\ SendingIsClaimed'
  BY DEF FirstAttempt, WritesAreYoung, SendingIsClaimed
<1> QED
  BY <1>4, <1>5, <1>6, <1>7 DEF FirstAttempt

LEMMA SendFirst ==
  ASSUME IInv, FirstAttempt, NEW d \in Drains, NEW n \in Notices,
         Send(d, n) \/ Unsendable(d, n) \/ Timeout(d, n)
  PROVE  FirstAttempt'
<1>1. PICK phase \in {"sending", "permanent", "retryable"} : work' = [work EXCEPT ![d][n] = phase]
  BY DEF Send, Unsendable, Timeout
<1>2. /\ UNCHANGED <<outbox, stopped, provider>> /\ network' \subseteq network \cup {<<d, n>>}
      /\ Alive(d, n)
  BY DEF Send, Unsendable, Timeout, Running, Alive, Holds
<1>3. /\ work'[d][n] = phase
      /\ \A e \in Drains, k \in Notices : e # d \/ k # n => work'[e][k] = work[e][k]
  BY <1>1 DEF IInv, TypeOK
<1>4. \A e \in Drains, k \in Notices :
        /\ Holds(e, k)' => Holds(e, k)
        /\ work'[e][k] = "claimed" => work[e][k] = "claimed"
  BY <1>2, <1>3 DEF Holds, Alive
<1> QED
  BY <1>2, <1>3, <1>4, ExchangeFirst

LEMMA AnswerFirst ==
  ASSUME IInv, FirstAttempt, NEW d \in Drains, NEW n \in Notices, Accept(d, n) \/ Refuse(d, n)
  PROVE  FirstAttempt'
<1>1. /\ UNCHANGED <<outbox, stopped>> /\ network' \subseteq network \cup {<<d, n>>}
      /\ <<d, n>> \in network
  BY DEF Accept, Refuse
<1>2. /\ \A k \in Notices : k # n => provider'[k] = provider[k]
      /\ provider'[n] = provider[n] \/ provider'[n].keyAge = 0
  <2>1. provider \in [Notices -> [mails : Nat, keyAge : 0 .. Window]]
    BY DEF IInv, TypeOK
  <2>2. CASE provider' = provider
    BY <2>2
  <2>3. CASE provider' # provider
    <3>1. provider' = [provider EXCEPT ![n] = [mails |-> provider[n].mails + 1, keyAge |-> 0]]
      BY <2>1, <2>3 DEF Accept, Refuse
    <3> QED
      BY <2>1, <3>1
  <2> QED
    BY <2>2, <2>3
<1>3. PICK phase \in Decided : work' = Answered(d, n, phase)
  BY DEF Accept, Refuse
<1>4. \A e \in Drains, k \in Notices :
        /\ Holds(e, k)' => Holds(e, k)
        /\ work'[e][k] = "claimed" => work[e][k] = "claimed"
  <2>1. work \in [Drains -> [Notices -> Phases]]
    BY DEF IInv, TypeOK
  <2> QED
    BY <1>3, <2>1 DEF Answered, Holds
<1> QED
  BY <1>1, <1>2, <1>4, ExchangeFirst

\* Time ages the key of a first attempt no faster than its claim.
LEMMA TickFirst ==
  ASSUME IInv, FirstAttempt, Tick
  PROVE  FirstAttempt'
<1>1. /\ outbox \in [Notices -> Row] /\ provider \in [Notices -> [mails : Nat, keyAge : 0 .. Window]]
      /\ UNCHANGED <<work, stopped, network>> /\ InTime
  BY DEF Tick, IInv, TypeOK
<1>2. ASSUME NEW k \in Notices
      PROVE  /\ outbox'[k].status = outbox[k].status /\ outbox'[k].attempts = outbox[k].attempts
             /\ outbox'[k].claim = outbox[k].claim
             /\ outbox'[k].claimAge =
                  IF outbox[k].claim = None THEN outbox[k].claimAge ELSE Older(outbox[k].claimAge)
  <2>a. PICK old : old = outbox[k]
    OBVIOUS
  <2>b. PICK wait : wait = IF old.wait > 0 THEN old.wait - 1 ELSE 0
    OBVIOUS
  <2>c. PICK age : age = IF old.claim = None THEN old.claimAge ELSE Older(old.claimAge)
    OBVIOUS
  <2>d. PICK new : new = [old EXCEPT !.wait = wait, !.claimAge = age]
    OBVIOUS
  <2>1. outbox'[k] = new
    BY <2>a, <2>b, <2>c, <2>d DEF Tick
  <2>2. old \in Row
    BY <1>1, <2>a
  <2>3. /\ new.status = old.status /\ new.attempts = old.attempts
        /\ new.claim = old.claim /\ new.claimAge = age
    BY <2>2, <2>d DEF Row
  <2> QED
    BY <2>1, <2>3, <2>a, <2>c
<1>3. ASSUME NEW k \in Notices
      PROVE  /\ provider'[k].mails = provider[k].mails
             /\ provider'[k].keyAge =
                  IF provider[k].mails = 0 THEN provider[k].keyAge ELSE Older(provider[k].keyAge)
  <2>a. PICK old : old = provider[k]
    OBVIOUS
  <2>b. PICK age : age = IF old.mails = 0 THEN old.keyAge ELSE Older(old.keyAge)
    OBVIOUS
  <2>1. provider'[k] = [old EXCEPT !.keyAge = age]
    BY <2>a, <2>b DEF Tick
  <2>2. old \in [mails : Nat, keyAge : 0 .. Window]
    BY <1>1, <2>a
  <2> QED
    BY <2>1, <2>2, <2>a, <2>b
<1>4. ASSUME NEW k \in Notices
      PROVE  /\ outbox[k].claimAge \in 0 .. Window
             /\ provider[k].keyAge \in 0 .. Window /\ provider[k].mails \in Nat
  BY <1>1 DEF Row
<1>5. \A e \in Drains, k \in Notices :
        /\ Alive(e, k)' <=> Alive(e, k)
        /\ Holds(e, k)' <=> Holds(e, k)
  BY <1>1 DEF Alive, Holds
<1>6. \A k \in Notices : Untried(k)' <=> Untried(k)
  BY <1>1, <1>3 DEF Untried
<1>7. Unused' /\ ClaimUnsent' /\ SendingIsClaimed'
  BY <1>1, <1>2, <1>5, <1>6 DEF FirstAttempt, Unused, ClaimUnsent, SendingIsClaimed
<1>8. KeyIsYounger'
  <2> SUFFICES ASSUME NEW k \in Notices, outbox[k].status = "sending", outbox[k].attempts = 1,
                      provider[k].mails > 0
               PROVE  provider'[k].keyAge <= outbox'[k].claimAge
    BY <1>2, <1>3 DEF KeyIsYounger
  <2>1. outbox[k].claim # None
    BY DEF FirstAttempt, SendingIsClaimed
  <2>2. provider[k].keyAge <= outbox[k].claimAge
    BY DEF FirstAttempt, KeyIsYounger
  <2>3. provider'[k].keyAge = Older(provider[k].keyAge) /\ outbox'[k].claimAge = Older(outbox[k].claimAge)
    BY <1>2, <1>3, <1>4, <2>1
  <2> QED
    BY <1>4, <2>2, <2>3, OlderFacts
<1>9. WritesAreYoung'
  <2> SUFFICES ASSUME NEW e \in Drains, NEW k \in Notices, Holds(e, k), outbox[k].claim = e
               PROVE  outbox'[k].claimAge <= SafeAge
    BY <1>2, <1>5 DEF WritesAreYoung
  <2>0. SafeAge \in Int /\ StaleAfter < SafeAge
    BY DEF SafeAge
  <2>a. PICK age \in 0 .. Window : age = outbox[k].claimAge
    BY <1>4
  <2>1. age < SafeAge
    <3>1. age < StaleAfter \/ age < SafeAge
      BY <1>1, <2>a DEF InTime
    <3> QED
      BY <2>0, <3>1
  <2>2. outbox'[k].claimAge = Older(age)
    BY <1>2, <2>a
  <2>3. Older(age) \in 0 .. Window /\ Older(age) <= age + 1
    BY OlderFacts
  <2> QED
    BY <2>0, <2>1, <2>2, <2>3
<1> QED
  BY <1>7, <1>8, <1>9 DEF FirstAttempt

LEMMA FirstStep ==
  ASSUME IInv, FirstAttempt, [Next]_vars
  PROVE  FirstAttempt'
<1>1. CASE UNCHANGED vars
  <2>1. IInv' /\ UNCHANGED <<outbox, work, stopped, network, provider>>
    BY <1>1, StepKeeps DEF vars
  <2>2. \A d \in Drains, n \in Notices :
          /\ Holds(d, n)' => Holds(d, n)
          /\ Alive(d, n)' /\ work'[d][n] = "claimed" => Alive(d, n) /\ work[d][n] = "claimed"
    BY <2>1 DEF Holds, Alive
  <2> QED
    BY <2>1, <2>2, ClaimsEnd
<1>2. ASSUME NEW d \in Drains, Claim(d) \/ Release(d) \/ Stop(d) \/ Vanish(d)
      PROVE  FirstAttempt'
  BY <1>2, ClaimFirst, ReleaseFirst, LossFirst
<1>3. ASSUME NEW d \in Drains, NEW n \in Notices,
             \/ Send(d, n) \/ Unsendable(d, n)
             \/ Accept(d, n) \/ Refuse(d, n) \/ Timeout(d, n)
             \/ Settled(d, n) \/ LoseMark(d, n)
      PROVE  FirstAttempt'
  BY <1>3, SendFirst, AnswerFirst, SettledFirst, LossFirst
<1> QED
  BY <1>1, <1>2, <1>3, ReconcileFirst, TickFirst DEF Next

LEMMA FirstAlways == Spec => []FirstAttempt
BY InitFirst, FirstStep, IInvAlways, PTL DEF Spec

\* A first attempt whose mail went out is handed back for a retry only within
\* the provider's window: reconciliation looks at the claim's age, which is never
\* less than the key's (RECONCILE_STALE_CLAIMS_SQL), and no write is made under a
\* claim that is older.
THEOREM FirstRetries == Spec => FirstRetryIsSafe
<1> DEFINE Safe ==
      \A n \in Notices :
        /\ outbox[n].status = "sending" /\ outbox[n].attempts = 1
        /\ outbox'[n].status = "failed" /\ provider[n].mails > 0
        => provider[n].keyAge < Window
<1>1. ASSUME IInv, FirstAttempt, [Next]_vars
      PROVE  Safe
  <2> SUFFICES ASSUME NEW n \in Notices,
                      outbox[n].status = "sending", outbox[n].attempts = 1,
                      outbox'[n].status = "failed", provider[n].mails > 0
               PROVE  provider[n].keyAge < Window
    OBVIOUS
  <2>0. /\ outbox \in [Notices -> Row] /\ outbox[n].claimAge \in Nat
        /\ provider[n].keyAge \in Nat /\ provider[n].keyAge <= outbox[n].claimAge
    BY <1>1 DEF IInv, TypeOK, Row, FirstAttempt, KeyIsYounger
  <2>1. SafeAge \in Int /\ SafeAge < Window /\ StaleAfter < SafeAge
    BY DEF SafeAge
  <2>2. ASSUME outbox[n].claimAge <= SafeAge
        PROVE  provider[n].keyAge < Window
    BY <2>0, <2>1, <2>2
  <2>3. ASSUME NEW d \in Drains, Holds(d, n), outbox[n].claim = d
        PROVE  provider[n].keyAge < Window
    BY <1>1, <2>2, <2>3 DEF FirstAttempt, WritesAreYoung
  <2>4. ASSUME NEW d \in Drains, NEW k \in Notices, Settled(d, k)
        PROVE  provider[n].keyAge < Window
    <3>1. PICK row : Write(d, k, row)
      BY <2>4 DEF Settled, MarkSent, MarkFailed
    <3>2. ~Claimed(d, k) => outbox' = outbox
      BY <3>1 DEF Write
    <3>3. k # n => outbox'[n] = outbox[n]
      BY <2>0, <3>1 DEF Write
    <3>4. k = n /\ Claimed(d, n)
      BY <3>2, <3>3
    <3>5. Holds(d, n)
      BY <2>4, <3>4 DEF Settled, MarkSent, MarkFailed, Holds
    <3> QED
      BY <2>3, <3>4, <3>5 DEF Claimed
  <2>5. ASSUME NEW d \in Drains, Release(d)
        PROVE  provider[n].keyAge < Window
    <3>a. ASSUME ~(work[d][n] = "claimed" /\ Claimed(d, n))
          PROVE  outbox'[n] = outbox[n]
      BY <2>5, <3>a DEF Release
    <3>1. work[d][n] = "claimed" /\ Claimed(d, n)
      BY <3>a
    <3> QED
      BY <2>3, <3>1 DEF Holds, Claimed
  <2>6. ASSUME Reconcile
        PROVE  provider[n].keyAge < Window
    <3>1. outbox'[n] = Reconciled(outbox[n])
      BY <2>6 DEF Reconcile
    <3>2. outbox[n].claimAge < SafeAge
      BY <2>0, <2>1, <3>1, ReconciledRow
    <3> QED
      BY <2>0, <2>1, <2>2, <3>2
  <2>7. ASSUME NEW d \in Drains, Claim(d)
        PROVE  FALSE
    BY <2>7 DEF Claim, Due
  <2>8. ASSUME Tick
        PROVE  FALSE
    <3>a. PICK old : old = outbox[n]
      OBVIOUS
    <3>b. PICK wait : wait = IF old.wait > 0 THEN old.wait - 1 ELSE 0
      OBVIOUS
    <3>c. PICK age : age = IF old.claim = None THEN old.claimAge ELSE Older(old.claimAge)
      OBVIOUS
    <3>1. outbox'[n] = [old EXCEPT !.wait = wait, !.claimAge = age]
      BY <2>8, <3>a, <3>b, <3>c DEF Tick
    <3>2. old \in Row
      BY <2>0, <3>a
    <3> QED
      BY <3>1, <3>2, <3>a DEF Row
  <2>9. \/ outbox' = outbox
        \/ \E d \in Drains : Claim(d) \/ Release(d)
        \/ \E d \in Drains, k \in Notices : Settled(d, k)
        \/ Reconcile \/ Tick
    BY <1>1 DEF Next, vars, Stop, Vanish, Send, Unsendable, Accept, Refuse, Timeout, LoseMark
  <2> QED
    BY <2>4, <2>5, <2>6, <2>7, <2>8, <2>9
<1>2. IInv /\ FirstAttempt /\ [Next]_vars => [Safe]_vars
  BY <1>1
<1> QED
  BY <1>2, IInvAlways, FirstAlways, PTL DEF Spec, FirstRetryIsSafe

=============================================================================
