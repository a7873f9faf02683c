------------------------- MODULE IdempotencyProofs -------------------------
(***************************************************************************)
(* That a key's change is made once, for every number of requests, every   *)
(* assignment of modes to routes and all durations that satisfy            *)
(* LifetimeAssumption.                                                     *)
(***************************************************************************)
EXTENDS Idempotency, TLAPS

Ran      == {"landing", "answered", "stopped"} \cup Executing
Landing(r) == phase[r] = "landing" /\ Mode(r) = "atomic"

\* No request is live beyond its limit.
Timely ==
  \A r \in Requests :
    /\ phase[r] # "idle" => began[r] <= clock
    /\ phase[r] \in Live => clock <= began[r] + Lifetime

\* An id names a request that has finished acquiring, and its route.
Known(id, x) ==
  /\ id \in Requests
  /\ phase[id] \notin Acquiring \cup {"idle"}
  /\ route[id] = x

\* What the record, the rows read from it and the operations in hand say.
IdsAreKnown ==
  /\ record # None => Known(record.id, record.route)
  /\ \A r \in Requests :
       /\ seen[r] # None => Known(seen[r].id, seen[r].route)
       /\ op[r] # None =>
            /\ Known(op[r], route[r])
            /\ phase[r] \notin Acquiring \cup {"idle"}
            /\ Mode(r) = "conservative" => op[r] = r

SeenInHand ==
  \A r \in Requests :
    /\ phase[r] \in {"reclaiming", "judging", "claiming"} => seen[r] # None
    /\ phase[r] = "claiming" => seen[r].route = route[r]

\* A request at work owns the record, dated by its own clock, alone.
OwnerHolds ==
  /\ \A r \in Requests : phase[r] \in Executing =>
       /\ op[r] # None
       /\ RecordIs(op[r])
       /\ record.createdAt = began[r]
       /\ record.completed => Mode(r) = "replay_safe"
  /\ \A r, q \in Requests : phase[r] \in Executing /\ phase[q] \in Executing => r = q

\* A transaction that is open, or on its way to commit, has the row's lock and
\* keeps everybody else from owning the record.
LockHolds ==
  /\ \A r \in Requests :
       /\ phase[r] = "locked" => Mode(r) = "atomic"
       /\ phase[r] = "worked" => Mode(r) # "atomic"
       /\ phase[r] = "locked" \/ Landing(r) <=> locked = r
  /\ \A r \in Requests : locked = r =>
       /\ op[r] # None
       /\ RecordIs(op[r])
       /\ record.createdAt = began[r]
       /\ ~record.completed
       /\ \A q \in Requests : phase[q] \in Executing => q = r

\* A change was made by a request that got that far, for its operation.
ChangesAreMade ==
  /\ \A e \in applied :
       /\ op[e.by] = e.op
       /\ phase[e.by] \in Ran \ {"owner", "locked"}
       /\ ~Landing(e.by)
  /\ \A r \in Requests :
       (phase[r] \in {"worked", "landing"} /\ Mode(r) # "atomic") =>
         op[r] # None /\ ChangesOf(op[r]) # {}

\* A change is remembered by the record until its retention is over.
Remembered ==
  \A e \in applied :
    \/ clock >= began[e.by] + Retention
    \/ /\ RecordIs(e.op)
       /\ record.expiresAt >= began[e.by] + Retention
       /\ ~record.completed => Mode(e.by) # "atomic"

RecordDated ==
  record # None =>
    record.expiresAt = record.createdAt + Retention

\* A completed row that was read is of a change.
SeenIsTrue ==
  \A r \in Requests : seen[r] # None /\ seen[r].completed =>
    \E e \in applied : e.op = seen[r].id /\ e.by = seen[r].answer

IInv ==
  /\ TypeOK /\ Timely /\ IdsAreKnown /\ SeenInHand /\ OwnerHolds /\ LockHolds
  /\ ChangesAreMade /\ Remembered /\ RecordDated /\ SeenIsTrue
  /\ AppliedOnce /\ AnswersAreChanges

\* A record that is inserted or replaced satisfies the schema.
LEMMA NewRecordIsRecord ==
  ASSUME TypeOK, NEW r \in Requests
  PROVE  /\ NewRecord(r) \in Record /\ NewRecord(r) # None
         /\ NewRecord(r).id = r /\ NewRecord(r).route = route[r]
         /\ NewRecord(r).createdAt = began[r] /\ NewRecord(r).expiresAt = began[r] + Retention
         /\ NewRecord(r).completed = FALSE
<1>1. NewRecord(r) \in Record
  BY BoundsAssumption, LifetimeAssumption DEF NewRecord, Record, TypeOK
<1> QED
  BY <1>1, NoneAssumption DEF NewRecord

\* While a request is at work nobody can take the record from it: it is neither
\* absent nor expired nor stale.
LEMMA OwnerIsSafe ==
  ASSUME IInv, NEW q \in Requests, phase[q] \in Executing
  PROVE  /\ record # None /\ record \in Record
         /\ clock < record.expiresAt
         /\ clock <= record.createdAt + StaleAfter
BY BoundsAssumption, LifetimeAssumption
   DEF IInv, TypeOK, OwnerHolds, Timely, RecordDated, RecordIs, Record, Live

\* A request acquires a record only when nobody is at work.
LEMMA NobodyAtWork ==
  ASSUME IInv, NEW r \in Requests, phase[r] \in Acquiring,
         \/ record = None
         \/ record # None /\ Expired(record, r)
         \/ record # None /\ record.createdAt < began[r] - StaleAfter
  PROVE  \A q \in Requests : phase[q] \notin Executing
<1>1. began[r] \in Nat /\ clock \in Nat /\ began[r] <= clock
  BY DEF IInv, TypeOK, Timely, Acquiring
<1>2. record # None => record.createdAt \in Nat /\ record.expiresAt \in Nat
  BY DEF IInv, TypeOK, Record
<1>3. ASSUME NEW q \in Requests, phase[q] \in Executing  PROVE FALSE
  <2>1. record # None /\ clock < record.expiresAt /\ clock <= record.createdAt + StaleAfter
    BY <1>3, OwnerIsSafe
  <2> QED
    BY <1>1, <1>2, <2>1, BoundsAssumption DEF Expired
<1> QED
  BY <1>3

\* A claim dates the record anew and keeps all else.
LEMMA ClaimKeepsRecord ==
  ASSUME TypeOK, record # None, NEW r \in Requests
  PROVE  /\ Claimed(r) \in Record /\ Claimed(r) # None
         /\ Claimed(r).id = record.id /\ Claimed(r).route = record.route
         /\ Claimed(r).completed = record.completed /\ Claimed(r).answer = record.answer
         /\ Claimed(r).createdAt = began[r] /\ Claimed(r).expiresAt = began[r] + Retention
<1>1. record \in Record
  BY DEF TypeOK
<1>2. began[r] \in Nat /\ began[r] + Retention \in Nat /\ began[r] + Retention > began[r]
  BY BoundsAssumption, LifetimeAssumption DEF TypeOK
<1>3. Claimed(r) \in Record
  BY <1>1, <1>2 DEF Claimed, Record
<1> QED
  BY <1>3, NoneAssumption DEF Claimed

\* A completion sets the answer of the record it finds and keeps all else.
LEMMA CompletionKeepsRecord ==
  ASSUME TypeOK, NEW id, NEW by \in Requests
  PROVE  /\ record = None <=> Completed(id, by) = None
         /\ record # None =>
              /\ Completed(id, by) \in Record
              /\ Completed(id, by).id = record.id
              /\ Completed(id, by).route = record.route
              /\ Completed(id, by).createdAt = record.createdAt
              /\ Completed(id, by).expiresAt = record.expiresAt
              /\ record.completed => Completed(id, by).completed
              /\ record.id = id =>
                   Completed(id, by).completed /\ Completed(id, by).answer = by
              /\ record.id # id => Completed(id, by) = record
<1>1. CASE RecordIs(id)
  <2> DEFINE done == [record EXCEPT !.completed = TRUE, !.answer = by]
  <2>1. record \in Record /\ record # None /\ record.id = id
    BY <1>1 DEF TypeOK, RecordIs
  <2>2. done \in Record
    BY <2>1, NoneAssumption DEF Record
  <2>3. done # None /\ done.id = record.id /\ done.route = record.route
        /\ done.createdAt = record.createdAt /\ done.expiresAt = record.expiresAt
        /\ done.completed = TRUE /\ done.answer = by
    BY <2>2, NoneAssumption
  <2>4. Completed(id, by) = done
    BY <1>1 DEF Completed
  <2> HIDE DEF done
  <2> QED
    BY <2>1, <2>2, <2>3, <2>4
<1>2. CASE ~RecordIs(id)
  BY <1>2 DEF Completed, RecordIs, TypeOK
<1> QED
  BY <1>1, <1>2

\* Start keeps the invariant: a request that arrives has an id nobody used.
LEMMA StartStep ==
  ASSUME IInv, NEW r \in Requests, Start(r)
  PROVE  IInv'
<1>1. TypeOK'
  BY DEF IInv, TypeOK, Phases, Live, Acquiring, Start, Goto
<1>2. Timely'
  BY BoundsAssumption DEF IInv, TypeOK, Timely, Start, Goto
<1>3. IdsAreKnown'
  BY DEF IInv, IdsAreKnown, Known, Mode, Start, Goto
<1>4. SeenInHand'
  BY DEF IInv, SeenInHand, Start, Goto
<1>5. OwnerHolds'
  BY DEF IInv, OwnerHolds, Executing, RecordIs, Mode, Start, Goto
<1>6. LockHolds'
  BY DEF IInv, LockHolds, Landing, Executing, RecordIs, Mode, Start, Goto
<1>7. ChangesAreMade'
  BY NoneAssumption
     DEF IInv, TypeOK, ChangesAreMade, IdsAreKnown, Landing, Mode, ChangesOf, Start, Goto
<1>8. Remembered'
  BY NoneAssumption
     DEF IInv, TypeOK, Remembered, IdsAreKnown, ChangesAreMade, RecordIs, Mode, Start
<1>9. AppliedOnce'
  BY NoneAssumption DEF IInv, TypeOK, AppliedOnce, IdsAreKnown, ChangesAreMade, Start
<1>10. AnswersAreChanges'
  BY NoneAssumption
     DEF IInv, TypeOK, AnswersAreChanges, IdsAreKnown, ChangesAreMade, ChangesOf, Start, Goto
<1>11. (RecordDated /\ SeenIsTrue)'
  BY DEF IInv, RecordDated, SeenIsTrue, Start
<1> QED
  BY <1>1, <1>2, <1>3, <1>4, <1>5, <1>6, <1>7, <1>8, <1>9, <1>10, <1>11 DEF IInv

\* Insert keeps the invariant: the insert is only of a key without record.
LEMMA InsertStep ==
  ASSUME IInv, NEW r \in Requests, Insert(r)
  PROVE  IInv'
<1>a. NewRecord(r) \in Record /\ NewRecord(r) # None /\ NewRecord(r).id = r
      /\ NewRecord(r).createdAt = began[r] /\ ~NewRecord(r).completed
  BY NewRecordIsRecord DEF IInv
<1>b. record = None => \A q \in Requests : phase[q] \notin Executing
  BY NobodyAtWork DEF Insert, Acquiring
<1>1. TypeOK'
  BY <1>a DEF IInv, TypeOK, Phases, Live, Acquiring, Executing, Insert, Own, Goto, memory
<1>2. Timely'
  BY DEF IInv, TypeOK, Timely, Live, Acquiring, Insert, Own, Goto, memory
<1>3. IdsAreKnown'
  BY DEF IInv, TypeOK, IdsAreKnown, Known, Acquiring, Mode, Insert, Own, NewRecord, Goto, memory
<1>4. SeenInHand'
  BY DEF IInv, TypeOK, SeenInHand, Insert, Own, Goto, memory
<1>5. OwnerHolds'
  BY <1>a, NoneAssumption
     DEF IInv, TypeOK, OwnerHolds, RecordIs, Mode, Executing, Insert, Own, Goto, memory
<1>6. LockHolds'
  BY DEF IInv, TypeOK, LockHolds, Landing, Executing, RecordIs, Mode, Insert, Own, Goto, memory
<1>7. ChangesAreMade'
  BY DEF IInv, TypeOK, ChangesAreMade, Ran, Executing, Landing, Mode, ChangesOf, Insert, Own,
         Goto, memory
<1>8. Remembered'
  BY DEF IInv, Remembered, RecordIs, Mode, Insert, memory
<1>9. RecordDated'
  BY DEF IInv, RecordDated, Insert, NewRecord
<1>10. AnswersAreChanges'
  BY NoneAssumption
     DEF IInv, TypeOK, AnswersAreChanges, IdsAreKnown, ChangesAreMade, ChangesOf, Known,
         Acquiring, Insert, Own, NewRecord, Goto, memory
<1>11. (SeenIsTrue /\ AppliedOnce)'
  BY DEF IInv, SeenIsTrue, AppliedOnce, Insert, memory
<1> QED
  BY <1>1, <1>2, <1>3, <1>4, <1>5, <1>6, <1>7, <1>8, <1>9, <1>10, <1>11 DEF IInv

\* Find keeps the invariant: what is read was so when it was read.
LEMMA FindStep ==
  ASSUME IInv, NEW r \in Requests, Find(r)
  PROVE  IInv'
<1>1. TypeOK'
  BY DEF IInv, TypeOK, Phases, Live, Acquiring, Find, NextAttempt, Goto, memory
<1>2. Timely'
  BY DEF IInv, TypeOK, Timely, Live, Acquiring, Find, NextAttempt, Goto, memory
<1>3. IdsAreKnown'
  BY DEF IInv, TypeOK, IdsAreKnown, Known, Acquiring, Mode, Find, NextAttempt, Goto, memory
<1>4. SeenInHand'
  BY DEF IInv, TypeOK, SeenInHand, Find, NextAttempt, Goto, memory
<1>5. OwnerHolds'
  BY DEF IInv, TypeOK, OwnerHolds, Executing, RecordIs, Mode, Find, NextAttempt, Goto, memory
<1>6. LockHolds'
  BY DEF IInv, TypeOK, LockHolds, Landing, Executing, RecordIs, Mode, Find, NextAttempt, Goto,
         memory
<1>7. ChangesAreMade'
  BY DEF IInv, TypeOK, ChangesAreMade, Ran, Executing, Landing, Mode, ChangesOf, Find,
         NextAttempt, Goto, memory
<1>8. SeenIsTrue'
  BY DEF IInv, SeenIsTrue, AnswersAreChanges, Find
<1>9. AnswersAreChanges'
  BY DEF IInv, TypeOK, AnswersAreChanges, ChangesOf, Find, NextAttempt, Goto, memory
<1>10. (Remembered /\ RecordDated /\ AppliedOnce)'
  BY DEF IInv, Remembered, RecordDated, AppliedOnce, RecordIs, Mode, Find, memory
<1> QED
  BY <1>1, <1>2, <1>3, <1>4, <1>5, <1>6, <1>7, <1>8, <1>9, <1>10 DEF IInv

\* Reclaim keeps the invariant: a record is replaced only once its retention is over.
LEMMA ReclaimStep ==
  ASSUME IInv, NEW r \in Requests, Reclaim(r)
  PROVE  IInv'
<1>a. NewRecord(r) \in Record /\ NewRecord(r) # None /\ NewRecord(r).id = r
      /\ NewRecord(r).createdAt = began[r] /\ ~NewRecord(r).completed
  BY NewRecordIsRecord DEF IInv
<1>b. RecordIs(seen[r].id) /\ Expired(record, r) => \A q \in Requests : phase[q] \notin Executing
  BY NobodyAtWork DEF Reclaim, Acquiring
<1>1. TypeOK'
  BY <1>a
     DEF IInv, TypeOK, Phases, Live, Acquiring, Executing, Reclaim, NextAttempt, Own, Goto,
         memory
<1>2. Timely'
  BY DEF IInv, TypeOK, Timely, Live, Acquiring, Reclaim, NextAttempt, Own, Goto, memory
<1>3. IdsAreKnown'
  BY DEF IInv, TypeOK, IdsAreKnown, Known, Acquiring, Mode, Reclaim, NextAttempt, Own,
         NewRecord, Goto, memory
<1>4. SeenInHand'
  BY DEF IInv, TypeOK, SeenInHand, Reclaim, NextAttempt, Own, Goto, memory
<1>5. OwnerHolds'
  BY <1>a, <1>b, NoneAssumption
     DEF IInv, TypeOK, OwnerHolds, RecordIs, Mode, Executing, Reclaim, NextAttempt, Own, Goto,
         memory
<1>6. LockHolds'
  BY NoneAssumption
     DEF IInv, TypeOK, LockHolds, Landing, Executing, RecordIs, Mode, Reclaim, NextAttempt,
         Own, Unlocked, Goto, memory
<1>7. ChangesAreMade'
  BY DEF IInv, TypeOK, ChangesAreMade, Ran, Executing, Landing, Mode, ChangesOf, Reclaim,
         NextAttempt, Own, Goto, memory
<1>8. Remembered'
  <2>1. ASSUME NEW e \in applied, RecordIs(e.op),
               record.expiresAt >= began[e.by] + Retention, Expired(record, r)
        PROVE  clock >= began[e.by] + Retention
    <3>1. record.expiresAt \in Nat /\ e.by \in Requests
      BY <2>1 DEF IInv, TypeOK, Record, RecordIs
    <3>2. began[r] <= clock
      BY DEF IInv, Timely, Reclaim
    <3> QED
      BY <2>1, <3>1, <3>2, BoundsAssumption DEF IInv, TypeOK, Expired
  <2>2. Remembered
    BY DEF IInv
  <2> QED
    BY <2>1, <2>2 DEF Remembered, RecordIs, Mode, Reclaim, memory
<1>9. RecordDated'
  BY DEF IInv, RecordDated, Reclaim, NewRecord
<1>10. AnswersAreChanges'
  BY NoneAssumption
     DEF IInv, TypeOK, AnswersAreChanges, IdsAreKnown, ChangesAreMade, ChangesOf, Known,
         Acquiring, Reclaim, NextAttempt, Own, NewRecord, Goto, memory
<1>11. (SeenIsTrue /\ AppliedOnce)'
  BY DEF IInv, SeenIsTrue, AppliedOnce, Reclaim, memory
<1> QED
  BY <1>1, <1>2, <1>3, <1>4, <1>5, <1>6, <1>7, <1>8, <1>9, <1>10, <1>11 DEF IInv

\* Settle keeps the invariant: a replay answers with a change that was made.
LEMMA SettleStep ==
  ASSUME IInv, NEW r \in Requests, Settle(r)
  PROVE  IInv'
<1>1. TypeOK'
  BY DEF IInv, TypeOK, Phases, Live, Acquiring, Settle, Goto, memory
<1>2. Timely'
  BY DEF IInv, Timely, Live, Acquiring, Settle, Goto, memory
<1>3. IdsAreKnown'
  BY DEF IInv, IdsAreKnown, Known, Acquiring, Mode, Settle, Goto, memory
<1>4. SeenInHand'
  BY DEF IInv, TypeOK, SeenInHand, Settle, Goto, memory
<1>5. OwnerHolds'
  BY DEF IInv, OwnerHolds, Executing, RecordIs, Mode, Settle, Goto, memory
<1>6. LockHolds'
  BY DEF IInv, LockHolds, Landing, Executing, RecordIs, Mode, Settle, Goto, memory
<1>7. ChangesAreMade'
  BY DEF IInv, ChangesAreMade, Ran, Executing, Landing, Mode, ChangesOf, Settle, Goto, memory
<1>8. SeenIsTrue'
  BY DEF IInv, SeenIsTrue, AnswersAreChanges, Settle
<1>9. AnswersAreChanges'
  BY DEF IInv, AnswersAreChanges, ChangesOf, Settle, Goto, memory
<1>10. (Remembered /\ RecordDated /\ AppliedOnce)'
  BY DEF IInv, Remembered, RecordDated, AppliedOnce, RecordIs, Mode, Settle, memory
<1> QED
  BY <1>1, <1>2, <1>3, <1>4, <1>5, <1>6, <1>7, <1>8, <1>9, <1>10 DEF IInv

\* Judge keeps the invariant: what is decided from the row read changes no record.
LEMMA JudgeStep ==
  ASSUME IInv, NEW r \in Requests, Judge(r)
  PROVE  IInv'
<1>1. TypeOK'
  BY DEF IInv, TypeOK, SeenInHand, Phases, Live, Acquiring, Record, Judge, Goto, memory
<1>2. Timely'
  BY DEF IInv, TypeOK, Timely, Live, Acquiring, Judge, Goto, memory
<1>3. IdsAreKnown'
  BY DEF IInv, TypeOK, IdsAreKnown, Known, Acquiring, Mode, Judge, Goto, memory
<1>4. SeenInHand'
  BY DEF IInv, TypeOK, SeenInHand, Judge, Goto, memory
<1>5. OwnerHolds'
  BY DEF IInv, TypeOK, OwnerHolds, Executing, RecordIs, Mode, Judge, Goto, memory
<1>6. LockHolds'
  BY DEF IInv, TypeOK, LockHolds, Landing, Executing, RecordIs, Mode, Judge, Goto, memory
<1>7. ChangesAreMade'
  BY DEF IInv, TypeOK, ChangesAreMade, Ran, Executing, Landing, Mode, ChangesOf, Judge, Goto,
         memory
<1>8. AnswersAreChanges'
  BY NoneAssumption
     DEF IInv, TypeOK, AnswersAreChanges, IdsAreKnown, SeenInHand, SeenIsTrue, ChangesAreMade,
         ChangesOf, Known, Judge, Goto, memory
<1>9. (Remembered /\ RecordDated /\ SeenIsTrue /\ AppliedOnce)'
  BY DEF IInv, Remembered, RecordDated, SeenIsTrue, AppliedOnce, RecordIs, Mode, Judge, memory
<1> QED
  BY <1>1, <1>2, <1>3, <1>4, <1>5, <1>6, <1>7, <1>8, <1>9 DEF IInv

\* ClaimStale keeps the invariant: a stale record has no owner at work.
LEMMA ClaimStaleStep ==
  ASSUME IInv, NEW r \in Requests, ClaimStale(r)
  PROVE  IInv'
<1>a. record # None => Claimed(r) \in Record /\ Claimed(r) # None
        /\ Claimed(r).id = record.id /\ Claimed(r).route = record.route
        /\ Claimed(r).completed = record.completed /\ Claimed(r).answer = record.answer
        /\ Claimed(r).createdAt = began[r] /\ Claimed(r).expiresAt = began[r] + Retention
  BY ClaimKeepsRecord DEF IInv
<1>b. Claimable(r) => record # None /\ \A q \in Requests : phase[q] \notin Executing
  BY NobodyAtWork DEF ClaimStale, Claimable, Acquiring, RecordIs
<1>c. seen[r] # None /\ seen[r].route = route[r] /\ seen[r].id \in Requests
  BY DEF IInv, SeenInHand, IdsAreKnown, Known, ClaimStale
<1>1. TypeOK'
  BY <1>a, <1>b, <1>c DEF IInv, TypeOK, Phases, Live, Executing, ClaimStale, Own, Goto, memory
<1>2. Timely'
  BY DEF IInv, TypeOK, Timely, Live, Acquiring, ClaimStale, Own, Goto, memory
<1>3. IdsAreKnown'
  BY <1>a, <1>c
     DEF IInv, TypeOK, IdsAreKnown, Known, Acquiring, Mode, RecordIs, Claimable, ClaimStale,
         Own, Goto, memory
<1>4. SeenInHand'
  BY DEF IInv, TypeOK, SeenInHand, ClaimStale, Own, Goto, memory
<1>5. OwnerHolds'
  BY <1>a, <1>b, <1>c, NoneAssumption
     DEF IInv, TypeOK, OwnerHolds, Executing, RecordIs, Mode, Claimable, ClaimStale, Own, Goto,
         memory
<1>6. LockHolds'
  BY NoneAssumption
     DEF IInv, TypeOK, LockHolds, Landing, Executing, RecordIs, Mode, ClaimStale, Claimable,
         Unlocked, Own, Goto, memory
<1>7. ChangesAreMade'
  BY DEF IInv, TypeOK, ChangesAreMade, Ran, Executing, Landing, Mode, ChangesOf, ClaimStale,
         Own, Goto, memory
<1>8. Remembered'
  <2>1. ASSUME NEW e \in applied, RecordIs(e.op),
               record.expiresAt >= began[e.by] + Retention, Claimable(r)
        PROVE  Claimed(r).expiresAt >= began[e.by] + Retention
    BY <1>a, <1>b, <2>1, BoundsAssumption DEF IInv, TypeOK, RecordDated, Record, Claimable
  <2> QED
    BY <1>a, <2>1 DEF IInv, Remembered, RecordIs, Mode, ClaimStale, memory
<1>9. RecordDated'
  BY <1>a, <1>b DEF IInv, RecordDated, ClaimStale
<1>10. AnswersAreChanges'
  BY <1>a, <1>b DEF IInv, TypeOK, AnswersAreChanges, ChangesOf, ClaimStale, Own, Goto, memory
<1>11. (SeenIsTrue /\ AppliedOnce)'
  BY DEF IInv, SeenIsTrue, AppliedOnce, ClaimStale, memory
<1> QED
  BY <1>1, <1>2, <1>3, <1>4, <1>5, <1>6, <1>7, <1>8, <1>9, <1>10, <1>11 DEF IInv

\* LockOwner keeps the invariant: the lock is taken only of the record that was claimed.
LEMMA LockOwnerStep ==
  ASSUME IInv, NEW r \in Requests, LockOwner(r)
  PROVE  IInv'
<1>1. TypeOK'
  BY DEF IInv, TypeOK, Phases, Live, Executing, LockOwner, Goto, memory
<1>2. Timely'
  BY DEF IInv, Timely, Live, Executing, LockOwner, Goto, memory
<1>3. IdsAreKnown'
  BY DEF IInv, IdsAreKnown, Known, Acquiring, Mode, LockOwner, Goto, memory
<1>4. SeenInHand'
  BY DEF IInv, SeenInHand, LockOwner, Goto, memory
<1>5. OwnerHolds'
  BY DEF IInv, OwnerHolds, Executing, RecordIs, LockOwner, Goto, memory
<1>6. LockHolds'
  BY DEF IInv, TypeOK, LockHolds, OwnerHolds, Landing, Executing, RecordIs, Mode, LockOwner,
         Goto, memory
<1>7. ChangesAreMade'
  BY DEF IInv, ChangesAreMade, Landing, Mode, ChangesOf, LockOwner, Goto, memory
<1>8. AnswersAreChanges'
  BY DEF IInv, AnswersAreChanges, ChangesOf, LockOwner, Goto, memory
<1>9. (Remembered /\ RecordDated /\ SeenIsTrue /\ AppliedOnce)'
  BY DEF IInv, Remembered, RecordDated, SeenIsTrue, AppliedOnce, RecordIs, Mode, LockOwner,
         memory
<1> QED
  BY <1>1, <1>2, <1>3, <1>4, <1>5, <1>6, <1>7, <1>8, <1>9 DEF IInv

\* Commit keeps the invariant: change and completion are one.
LEMMA CommitStep ==
  ASSUME IInv, NEW r \in Requests, Commit(r)
  PROVE  IInv'
<1>a. /\ record = None <=> record' = None
      /\ record # None =>
           /\ record' \in Record /\ record'.id = record.id /\ record'.route = record.route
           /\ record'.createdAt = record.createdAt /\ record'.expiresAt = record.expiresAt
           /\ record.completed => record'.completed
           /\ record.id = op[r] => record'.completed /\ record'.answer = r
           /\ record.id # op[r] => record' = record
  BY CompletionKeepsRecord DEF IInv, Commit
<1>b. /\ locked = r /\ op[r] # None /\ RecordIs(op[r])
      /\ record.createdAt = began[r] /\ ~record.completed
      /\ \A q \in Requests : phase[q] \in Executing => q = r
  BY DEF IInv, LockHolds, Landing, Commit
<1>1. TypeOK'
  BY <1>a, <1>b DEF IInv, TypeOK, Phases, Commit, Change, Unlock, Goto, memory
<1>2. Timely'
  BY DEF IInv, TypeOK, Timely, Live, Acquiring, Executing, Commit, Goto, memory
<1>3. IdsAreKnown'
  BY DEF IInv, TypeOK, IdsAreKnown, Known, Acquiring, Mode, RecordIs, Commit, Completed, Goto,
         memory
<1>4. SeenInHand'
  BY DEF IInv, TypeOK, SeenInHand, Commit, Goto, memory
<1>5. OwnerHolds'
  BY <1>b DEF IInv, TypeOK, OwnerHolds, Executing, Commit, Goto
<1>6. LockHolds'
  BY NoneAssumption DEF IInv, TypeOK, LockHolds, Landing, Mode, Commit, Unlock, Goto, memory
<1>7. ChangesAreMade'
  BY DEF IInv, TypeOK, ChangesAreMade, Ran, Landing, Mode, ChangesOf, Commit, Change, Goto,
         memory
<1>8. Remembered'
  <2>1. ASSUME NEW e \in applied
        PROVE  \/ clock >= began[e.by] + Retention
               \/ record.expiresAt >= began[e.by] + Retention /\ record.id = e.op
    <3>1. Remembered
      BY DEF IInv
    <3> QED
      BY <3>1 DEF Remembered, RecordIs
  <2>2. record.expiresAt >= began[r] + Retention
    BY <1>b, BoundsAssumption DEF IInv, TypeOK, RecordDated, RecordIs
  <2> QED
    BY <1>a, <1>b, <2>1, <2>2 DEF Remembered, RecordIs, Commit, Change, memory
<1>9. RecordDated'
  BY DEF IInv, RecordDated, RecordIs, Commit, Completed
<1>10. SeenIsTrue'
  BY DEF IInv, SeenIsTrue, Commit
<1>11. AppliedOnce'
  BY DEF IInv, TypeOK, AppliedOnce, IdsAreKnown, LockHolds, ChangesAreMade, Remembered, Mode,
         Landing, Known, RecordIs, Commit, Change, memory
<1>12. AnswersAreChanges'
  <2>1. /\ Change(r) \in applied' /\ Change(r).op = op[r] /\ Change(r).by = r
        /\ applied \subseteq applied'
    BY DEF Commit, Change
  <2>2. AnswersAreChanges
    BY DEF IInv
  <2>3. \A q \in Requests : phase'[q] = "answered" =>
          \E e \in applied' : e.by = answer'[q] /\ route'[e.by] = route'[q]
    BY <2>1 DEF IInv, TypeOK, AnswersAreChanges, Commit, Goto, memory
  <2> QED
    BY <1>a, <1>b, <2>1, <2>3 DEF AnswersAreChanges, RecordIs
<1> QED
  BY <1>1, <1>2, <1>3, <1>4, <1>5, <1>6, <1>7, <1>8, <1>9, <1>10, <1>11, <1>12 DEF IInv

\* Work keeps the invariant: a change is made only when the operation has none.
LEMMA WorkStep ==
  ASSUME IInv, NEW r \in Requests, Work(r)
  PROVE  IInv'
<1>1. TypeOK'
  <2>1. op[r] \in Requests
    BY DEF IInv, TypeOK, OwnerHolds, Executing, Work
  <2> QED
    BY <2>1 DEF IInv, TypeOK, Phases, Live, Executing, Work, Change, Goto, memory
<1>2. Timely'
  BY DEF IInv, Timely, Live, Executing, Work, Goto, memory
<1>3. IdsAreKnown'
  BY DEF IInv, IdsAreKnown, Known, Acquiring, Mode, Work, Goto, memory
<1>4. SeenInHand'
  BY DEF IInv, SeenInHand, Work, Goto, memory
<1>5. OwnerHolds'
  BY DEF IInv, OwnerHolds, Executing, RecordIs, Mode, Work, Goto, memory
<1>6. LockHolds'
  BY DEF IInv, LockHolds, Landing, Executing, Mode, Work, Goto, memory
<1>7. ChangesAreMade'
  <2>1. ChangesAreMade /\ op[r] \in Requests
    BY DEF IInv, TypeOK, OwnerHolds, Executing, Work
  <2>2. \A e \in applied' : /\ op[e.by] = e.op
                            /\ phase'[e.by] \in Ran \ {"owner", "locked"}
                            /\ ~Landing(e.by)'
    BY DEF IInv, TypeOK, ChangesAreMade, Landing, Mode, Ran, Executing, Work, Change, Goto,
           memory
  <2>3. \E e \in applied' : e.op = op[r]
    <3>1. CASE Mode(r) = "replay_safe" /\ ChangesOf(op[r]) # {}
      BY <3>1 DEF Work, ChangesOf
    <3>2. CASE ~(Mode(r) = "replay_safe" /\ ChangesOf(op[r]) # {})
      <4>1. Change(r) \in applied'
        BY <3>2 DEF Work
      <4> QED
        BY <4>1 DEF Change
    <3> QED
      BY <3>1, <3>2
  <2>4. applied \subseteq applied'
    BY DEF Work
  <2> QED
    BY <2>1, <2>2, <2>3, NoneAssumption DEF ChangesAreMade, ChangesOf, Mode, Work, Goto, memory
<1>8. Remembered'
  BY BoundsAssumption
     DEF IInv, TypeOK, Remembered, OwnerHolds, RecordDated, RecordIs, Mode, Executing, Work,
         Change, memory
<1>9. SeenIsTrue'
  BY DEF IInv, SeenIsTrue, Work
<1>10. AppliedOnce'
  BY RoutesAssumption
     DEF IInv, TypeOK, AppliedOnce, IdsAreKnown, OwnerHolds, ChangesAreMade, Remembered, Mode,
         Known, Executing, RecordIs, ChangesOf, Work, Change, memory
<1>11. AnswersAreChanges'
  BY DEF IInv, AnswersAreChanges, IdsAreKnown, OwnerHolds, RecordIs, Known, Mode, Executing,
         Work, Goto, memory
<1>12. RecordDated'
  BY DEF IInv, RecordDated, Work
<1> QED
  BY <1>1, <1>2, <1>3, <1>4, <1>5, <1>6, <1>7, <1>8, <1>9, <1>10, <1>11, <1>12 DEF IInv

\* Complete keeps the invariant: a completion answers with the change of its operation.
LEMMA CompleteStep ==
  ASSUME IInv, NEW r \in Requests, Complete(r)
  PROVE  IInv'
<1> DEFINE by == (CHOOSE e \in ChangesOf(op[r]) : TRUE).by
<1>w. PICK w \in ChangesOf(op[r]) : w = CHOOSE e \in ChangesOf(op[r]) : TRUE
  BY DEF IInv, ChangesAreMade, Complete
<1>v. w \in applied /\ w.op = op[r] /\ w.by = by /\ by \in Requests
  BY <1>w DEF IInv, TypeOK, ChangesOf
<1> HIDE DEF by
<1>a. /\ record = None <=> record' = None
      /\ record # None =>
           /\ record' \in Record /\ record'.id = record.id /\ record'.route = record.route
           /\ record'.createdAt = record.createdAt /\ record'.expiresAt = record.expiresAt
           /\ record.completed => record'.completed
           /\ record.id = op[r] => record'.completed /\ record'.answer = by
           /\ record.id # op[r] => record' = record
  BY <1>v, CompletionKeepsRecord DEF IInv, Complete, by
<1>b. \/ /\ phase[r] = "worked" /\ phase' = [phase EXCEPT ![r] = "answered"]
         /\ answer' = [answer EXCEPT ![r] = by]
      \/ phase[r] = "landing" /\ phase' = [phase EXCEPT ![r] = "stopped"] /\ UNCHANGED answer
  BY DEF Complete, Goto, by
<1>c. op[r] # None /\ Known(op[r], route[r]) /\ (Mode(r) = "conservative" => op[r] = r)
  BY DEF IInv, ChangesAreMade, IdsAreKnown, Complete
<1>1. TypeOK'
  BY <1>a, <1>b, <1>v DEF IInv, TypeOK, Phases, Complete, memory
<1>2. Timely'
  BY DEF IInv, TypeOK, Timely, Live, Acquiring, Executing, Complete, Goto, memory
<1>3. IdsAreKnown'
  BY DEF IInv, TypeOK, IdsAreKnown, Known, Acquiring, Mode, RecordIs, Complete, Completed,
         Goto, memory
<1>4. SeenInHand'
  BY DEF IInv, TypeOK, SeenInHand, Complete, Goto, memory
<1>5. OwnerHolds'
  <2>1. ASSUME NEW q \in Requests, phase'[q] \in Executing
        PROVE  q # r /\ phase[q] \in Executing
    BY <1>b, <2>1 DEF IInv, TypeOK, Executing
  <2>2. ASSUME NEW q \in Requests, phase'[q] \in Executing, op[q] = op[r]
        PROVE  Mode(q) = "replay_safe"
    BY <1>c, <2>1, <2>2, RoutesAssumption DEF IInv, TypeOK, IdsAreKnown, Known, Mode, Complete
  <2>3. OwnerHolds
    BY DEF IInv
  <2>4. ASSUME NEW q \in Requests, phase'[q] \in Executing
        PROVE  /\ op'[q] # None /\ RecordIs(op[q])' /\ record'.createdAt = began'[q]
               /\ record'.completed => Mode(q)' = "replay_safe"
    <3>1. op[q] # None /\ RecordIs(op[q]) /\ record.createdAt = began[q]
          /\ (record.completed => Mode(q) = "replay_safe")
      BY <2>1, <2>3, <2>4 DEF OwnerHolds
    <3> QED
      BY <1>a, <2>2, <2>4, <3>1 DEF RecordIs, Mode, Complete, memory
  <2>5. \A p, q \in Requests : phase'[p] \in Executing /\ phase'[q] \in Executing => p = q
    BY <2>1, <2>3 DEF OwnerHolds
  <2> QED
    BY <2>4, <2>5 DEF OwnerHolds
<1>6. LockHolds'
  <2>1. ASSUME NEW q \in Requests, locked = q
        PROVE  record.id # op[r] /\ q # r /\ record' = record
    <3>1. Mode(q) = "atomic" /\ op[q] # None /\ RecordIs(op[q])
      BY <2>1 DEF IInv, LockHolds, Landing
    <3>2. Known(op[q], route[q])
      BY <3>1 DEF IInv, IdsAreKnown
    <3> QED
      BY <1>a, <1>c, <3>1, <3>2 DEF Known, Mode, RecordIs, Complete
  <2> QED
    BY <1>b, <2>1
       DEF IInv, TypeOK, LockHolds, Landing, RecordIs, Mode, Executing, Complete, memory
<1>7. ChangesAreMade'
  BY DEF IInv, TypeOK, ChangesAreMade, Ran, Landing, Mode, ChangesOf, Complete, Goto, memory
<1>8. Remembered'
  BY <1>a DEF IInv, Remembered, RecordIs, Mode, Complete, memory
<1>9. RecordDated'
  BY DEF IInv, RecordDated, RecordIs, Complete, Completed
<1>10. AnswersAreChanges'
  <2>1. w.by = by /\ route[w.by] = route[r]
    BY <1>c, <1>v DEF IInv, ChangesAreMade, IdsAreKnown, Known
  <2>2. AnswersAreChanges
    BY DEF IInv
  <2>3. \A q \in Requests : phase'[q] = "answered" =>
          \E e \in applied' : e.by = answer'[q] /\ route'[e.by] = route'[q]
    BY <1>b, <1>v, <2>1 DEF IInv, TypeOK, AnswersAreChanges, Complete, memory
  <2>4. record' # None =>
          IF record'.completed
          THEN \E e \in applied' : e.op = record'.id /\ e.by = record'.answer
          ELSE ModeOf[record'.route] = "atomic" => ChangesOf(record.id)' = {}
    <3>1. CASE record # None /\ record.id = op[r]
      BY <1>a, <1>v, <3>1 DEF Complete
    <3>2. CASE record' = record
      <4>1. applied' = applied
        BY DEF Complete
      <4>2. ChangesOf(record.id)' = ChangesOf(record.id)
        BY <3>2, <4>1 DEF ChangesOf
      <4> QED
        BY <2>2, <3>2, <4>1, <4>2 DEF AnswersAreChanges
    <3> QED
      BY <1>a, <3>1, <3>2
  <2> QED
    BY <2>3, <2>4 DEF AnswersAreChanges
<1>11. (SeenIsTrue /\ AppliedOnce)'
  BY DEF IInv, SeenIsTrue, AppliedOnce, Complete, memory
<1> QED
  BY <1>1, <1>2, <1>3, <1>4, <1>5, <1>6, <1>7, <1>8, <1>9, <1>10, <1>11 DEF IInv

\* Stop keeps the invariant: what is cut off is either undone or lands.
LEMMA StopStep ==
  ASSUME IInv, NEW r \in Requests, Stop(r)
  PROVE  IInv'
<1>1. TypeOK'
  BY DEF IInv, TypeOK, Phases, Stop, Unlock, Goto, memory
<1>2. Timely'
  BY DEF IInv, TypeOK, Timely, Live, Acquiring, Executing, Stop, Goto, memory
<1>3. IdsAreKnown'
  BY DEF IInv, TypeOK, IdsAreKnown, Known, Acquiring, Mode, Stop, Goto, memory
<1>4. SeenInHand'
  BY DEF IInv, TypeOK, SeenInHand, Stop, Goto, memory
<1>5. OwnerHolds'
  BY DEF IInv, TypeOK, OwnerHolds, Executing, RecordIs, Mode, Stop, Goto, memory
<1>6. LockHolds'
  <2>0. LockHolds /\ ChangesAreMade /\ DOMAIN phase = Requests /\ Mode(r)' = Mode(r)
    BY DEF IInv, TypeOK, Stop, Mode, memory
  <2>1. CASE phase' = [phase EXCEPT ![r] = "stopped"] /\ locked' = Unlock(r)
    BY <2>0, <2>1, NoneAssumption
       DEF LockHolds, Landing, Mode, RecordIs, Executing, memory, Unlock, Stop
  <2>2. CASE phase[r] = "locked" /\ phase' = [phase EXCEPT ![r] = "landing"] /\ UNCHANGED locked
    BY <2>0, <2>2 DEF LockHolds, Landing, Mode, RecordIs, memory, Stop
  <2>3. CASE phase[r] = "worked" /\ phase' = [phase EXCEPT ![r] = "landing"] /\ UNCHANGED locked
    <3>1. Mode(r) # "atomic"
      BY <2>3 DEF IInv, LockHolds
    <3> QED
      BY <2>0, <2>3 DEF LockHolds, Landing, Mode, Executing, memory, Stop
  <2> QED
    BY <2>1, <2>2, <2>3 DEF Stop, Goto
<1>7. ChangesAreMade'
  <2>0. LockHolds /\ ChangesAreMade /\ DOMAIN phase = Requests /\ Mode(r)' = Mode(r)
    BY DEF IInv, TypeOK, Stop, Mode, memory
  <2>1. CASE phase' = [phase EXCEPT ![r] = "stopped"] /\ locked' = Unlock(r)
    BY <2>0, <2>1 DEF ChangesAreMade, Landing, Mode, ChangesOf, Ran, memory, Stop
  <2>2. CASE phase[r] = "locked" /\ phase' = [phase EXCEPT ![r] = "landing"] /\ UNCHANGED locked
    BY <2>0, <2>2 DEF ChangesAreMade, LockHolds, Landing, Mode, ChangesOf, memory, Stop
  <2>3. CASE phase[r] = "worked" /\ phase' = [phase EXCEPT ![r] = "landing"] /\ UNCHANGED locked
    <3>1. Mode(r) # "atomic"
      BY <2>3 DEF IInv, LockHolds
    <3> QED
      BY <2>0, <2>3, <3>1 DEF ChangesAreMade, Landing, Mode, ChangesOf, Ran, memory, Stop
  <2> QED
    BY <2>1, <2>2, <2>3 DEF Stop, Goto
<1>8. AnswersAreChanges'
  BY DEF IInv, TypeOK, AnswersAreChanges, ChangesOf, Stop, Goto, memory
<1>9. (Remembered /\ RecordDated /\ SeenIsTrue /\ AppliedOnce)'
  BY DEF IInv, Remembered, RecordDated, SeenIsTrue, AppliedOnce, RecordIs, Mode, Stop, memory
<1> QED
  BY <1>1, <1>2, <1>3, <1>4, <1>5, <1>6, <1>7, <1>8, <1>9 DEF IInv

\* Expire keeps the invariant: only what need not be remembered is deleted.
LEMMA ExpireStep ==
  ASSUME IInv, Expire
  PROVE  IInv'
<1>1. TypeOK'
  BY DEF IInv, TypeOK, Expire, memory
<1>2. IdsAreKnown'
  BY DEF IInv, IdsAreKnown, Known, Mode, Expire, memory
<1>3. OwnerHolds'
  BY BoundsAssumption, LifetimeAssumption
     DEF IInv, TypeOK, OwnerHolds, Timely, RecordDated, Live, Expire
<1>4. LockHolds'
  BY NoneAssumption DEF IInv, LockHolds, Landing, Mode, Expire, memory
<1>5. Remembered'
  <2>1. ASSUME NEW e \in applied, RecordIs(e.op), record.expiresAt >= began[e.by] + Retention
        PROVE  clock >= began[e.by] + Retention
    <3>1. record.expiresAt \in Nat /\ e.by \in Requests
      BY <2>1 DEF IInv, TypeOK, Record, RecordIs
    <3> QED
      BY <2>1, <3>1, BoundsAssumption DEF IInv, TypeOK, Expire
  <2>2. Remembered
    BY DEF IInv
  <2> QED
    BY <2>1, <2>2 DEF Remembered, Expire, memory
<1>6. RecordDated'
  BY DEF RecordDated, Expire
<1>7. AnswersAreChanges'
  BY DEF IInv, AnswersAreChanges, Expire, memory
<1>8. (Timely /\ SeenInHand /\ ChangesAreMade /\ SeenIsTrue /\ AppliedOnce)'
  BY DEF IInv, Timely, SeenInHand, ChangesAreMade, SeenIsTrue, AppliedOnce, Landing, Mode,
         ChangesOf, Expire, memory
<1> QED
  BY <1>1, <1>2, <1>3, <1>4, <1>5, <1>6, <1>7, <1>8 DEF IInv

\* Tick keeps the invariant: time cannot outlast the limit of a live request.
LEMMA TickStep ==
  ASSUME IInv, Tick
  PROVE  IInv'
<1>1. TypeOK'
  BY DEF IInv, TypeOK, Tick, memory
<1>2. Timely'
  BY BoundsAssumption DEF IInv, TypeOK, Timely, Tick, memory
<1>3. Remembered'
  BY BoundsAssumption DEF IInv, TypeOK, Remembered, RecordIs, Mode, Tick, memory
<1>4. (IdsAreKnown /\ SeenInHand /\ OwnerHolds /\ LockHolds /\ ChangesAreMade)'
      /\ (RecordDated /\ SeenIsTrue /\ AppliedOnce /\ AnswersAreChanges)'
  BY DEF IInv, IdsAreKnown, SeenInHand, OwnerHolds, LockHolds, ChangesAreMade, RecordDated,
         SeenIsTrue, AppliedOnce, AnswersAreChanges, Known, Mode, RecordIs, ChangesOf, Landing,
         Tick, memory
<1> QED
  BY <1>1, <1>2, <1>3, <1>4 DEF IInv

\* The invariant holds at first.
LEMMA InitIInv == Init => IInv
<1> SUFFICES ASSUME Init PROVE IInv
  OBVIOUS
<1> USE DEF Init
<1>1. TypeOK
  BY RoutesAssumption DEF TypeOK, Phases
<1>2. Timely /\ IdsAreKnown /\ SeenInHand
  BY DEF Timely, Live, Acquiring, Executing, IdsAreKnown, SeenInHand
<1>3. OwnerHolds /\ LockHolds
  BY NoneAssumption DEF OwnerHolds, LockHolds, Landing, Executing
<1>4. ChangesAreMade /\ Remembered /\ RecordDated /\ SeenIsTrue
  BY DEF ChangesAreMade, Remembered, RecordDated, SeenIsTrue
<1>5. AppliedOnce /\ AnswersAreChanges
  BY DEF AppliedOnce, AnswersAreChanges
<1> QED
  BY <1>1, <1>2, <1>3, <1>4, <1>5 DEF IInv

\* Every step keeps the invariant.
LEMMA NextIInv == IInv /\ [Next]_vars => IInv'
<1> SUFFICES ASSUME IInv, [Next]_vars PROVE IInv'
  OBVIOUS
<1>1. CASE UNCHANGED vars
  <2> USE <1>1 DEF vars, memory
  <2>1. (TypeOK /\ Timely /\ IdsAreKnown /\ SeenInHand)'
    BY DEF IInv, TypeOK, Timely, IdsAreKnown, Known, SeenInHand, Mode
  <2>2. (OwnerHolds /\ LockHolds /\ RecordDated)'
    BY DEF IInv, OwnerHolds, LockHolds, Landing, RecordIs, RecordDated, Mode
  <2>3. (ChangesAreMade /\ Remembered /\ SeenIsTrue /\ AppliedOnce)'
    BY DEF IInv, ChangesAreMade, ChangesOf, Landing, Remembered, RecordIs, SeenIsTrue,
           AppliedOnce, Mode
  <2>4. AnswersAreChanges'
    BY DEF IInv, AnswersAreChanges, ChangesOf
  <2> QED
    BY <2>1, <2>2, <2>3, <2>4 DEF IInv
<1>2. CASE Tick \/ Expire
  BY <1>2, TickStep, ExpireStep
<1>3. ASSUME NEW r \in Requests,
             \/ Start(r) \/ Insert(r) \/ Find(r) \/ Reclaim(r) \/ Settle(r) \/ Judge(r)
             \/ ClaimStale(r) \/ LockOwner(r) \/ Commit(r) \/ Work(r) \/ Complete(r) \/ Stop(r)
      PROVE  IInv'
  BY <1>3, StartStep, InsertStep, FindStep, ReclaimStep, SettleStep, JudgeStep,
     ClaimStaleStep, LockOwnerStep, CommitStep, WorkStep, CompleteStep, StopStep
<1> QED
  BY <1>1, <1>2, <1>3 DEF Next

\* The strengthened invariant is one.
LEMMA Invariance == Spec => []IInv
BY InitIInv, NextIInv, PTL DEF Spec

\* Every variable keeps its type, the record the checks of its schema.
THEOREM TypeCorrect == Spec => []TypeOK
<1>1. IInv => TypeOK
  BY DEF IInv
<1> QED
  BY <1>1, Invariance, PTL

\* However requests of a key overlap, are stopped, claimed or retried, its change
\* is made at most once while the record of it is retained.
THEOREM ChangedOnce == Spec => []AppliedOnce
<1>1. IInv => AppliedOnce
  BY DEF IInv
<1> QED
  BY <1>1, Invariance, PTL

\* Every answer, and every completed record, is of a change that was made; a
\* running atomic record has changed nothing.
THEOREM AnswersAreTrue == Spec => []AnswersAreChanges
<1>1. IInv => AnswersAreChanges
  BY DEF IInv
<1> QED
  BY <1>1, Invariance, PTL
=============================================================================
