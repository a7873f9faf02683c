---------------------------- MODULE Idempotency ----------------------------
(***************************************************************************)
(* executeIdempotent (lib/api/idempotency.ts) for one Idempotency-Key of   *)
(* one principal.  The first request of the key inserts a running record   *)
(* and does the work; a later one replays the stored answer, is refused,   *)
(* takes over a record that expired, or claims one that has been running   *)
(* for StaleAfter.  A request may be stopped at any point, at the latest   *)
(* Lifetime after it began; the last statement it sent may still land.     *)
(***************************************************************************)
EXTENDS Integers

CONSTANTS
  Requests,   \* requests that carry the key
  Routes,     \* what a request asks for: method, path, query and body
  ModeOf,     \* the mode a route declares
  Lifetime,   \* how long the platform lets a request run
  StaleAfter, \* age at which a running record may be claimed, five minutes
  Retention,  \* retentionSeconds
  MaxTime,    \* bound on the clock
  None

ASSUME RoutesAssumption ==
  /\ Routes # {}
  /\ ModeOf \in [Routes -> {"atomic", "replay_safe", "conservative"}]
ASSUME BoundsAssumption ==
  /\ Lifetime \in Nat /\ StaleAfter \in Nat /\ Retention \in Nat /\ MaxTime \in Nat
\* No API route raises maxDuration above the platform's 300 seconds, and a record
\* is kept for a day.
ASSUME LifetimeAssumption == Lifetime <= StaleAfter /\ Lifetime < Retention

VARIABLES
  clock,    \* the clock every host and the database agree on
  record,   \* the api_idempotency row of the key
  locked,   \* the request whose transaction holds the row's lock
  phase,    \* where each request is in executeIdempotent
  began,    \* each request's now, read once
  route,    \* what each request asks for
  seen,     \* the row each request found
  op,       \* each request's operationId, named after the request that made it
  applied,  \* the changes made: by which request, for which operation, when
  answer    \* the request whose work each request's answer is of

vars == <<clock, record, locked, phase, began, route, seen, op, applied, answer>>
memory == <<began, route>>

\* With the checks of the schema on expiry and completion.
Record ==
  {row \in [id : Requests, route : Routes, completed : BOOLEAN,
            answer : Requests \cup {None}, createdAt : Nat, expiresAt : Nat] :
     /\ row.expiresAt > row.createdAt
     /\ row.completed <=> row.answer # None}

ASSUME NoneAssumption == None \notin Requests /\ None \notin Record

Acquiring == {"inserting", "finding", "reclaiming", "settling", "judging", "claiming"}
Executing == {"owner", "locked", "worked"}
Live      == Acquiring \cup Executing
\* "landing": stopped with a commit or a completion on its way.
Phases    == {"idle", "landing", "answered", "refused", "stopped"} \cup Live

TypeOK ==
  /\ clock \in Nat
  /\ record # None => record \in Record
  /\ locked \in Requests \cup {None}
  /\ phase \in [Requests -> Phases]
  /\ began \in [Requests -> Nat]
  /\ route \in [Requests -> Routes]
  /\ DOMAIN seen = Requests
  /\ \A r \in Requests : seen[r] # None => seen[r] \in Record
  /\ op \in [Requests -> Requests \cup {None}]
  /\ applied \subseteq [op : Requests, by : Requests, at : Nat]
  /\ answer \in [Requests -> Requests \cup {None}]

Init ==
  /\ clock = 0
  /\ record = None
  /\ locked = None
  /\ phase = [r \in Requests |-> "idle"]
  /\ began = [r \in Requests |-> 0]
  /\ route = [r \in Requests |-> CHOOSE x \in Routes : TRUE]
  /\ seen = [r \in Requests |-> None]
  /\ op = [r \in Requests |-> None]
  /\ applied = {}
  /\ answer = [r \in Requests |-> None]

Mode(r) == ModeOf[route[r]]
Goto(r, label) == phase' = [phase EXCEPT ![r] = label]

RecordIs(id) == record # None /\ record.id = id

\* An update of the row waits for the transaction that holds it.
Unlocked(id) == RecordIs(id) => locked = None

NewRecord(r) ==
  [id |-> r, route |-> route[r], completed |-> FALSE, answer |-> None,
   createdAt |-> began[r], expiresAt |-> began[r] + Retention]

Start(r) ==
  /\ phase[r] = "idle"
  /\ Goto(r, "inserting")
  /\ began' = [began EXCEPT ![r] = clock]
  /\ \E x \in Routes : route' = [route EXCEPT ![r] = x]
  /\ UNCHANGED <<clock, record, locked, seen, op, applied, answer>>
-----------------------------------------------------------------------------
(* acquireIdempotencyOwner *)

Own(r, id) ==
  /\ op' = [op EXCEPT ![r] = id]
  /\ Goto(r, "owner")

Insert(r) ==
  /\ phase[r] = "inserting"
  /\ IF record = None
     THEN record' = NewRecord(r) /\ Own(r, r)
     ELSE Goto(r, "finding") /\ UNCHANGED <<record, op>>
  /\ UNCHANGED <<clock, locked, memory, seen, applied, answer>>

\* A round that came to nothing; whether it was the last is left open.
NextAttempt(r) == Goto(r, "inserting") \/ Goto(r, "settling")

Expired(row, r) == row.expiresAt <= began[r]

Find(r) ==
  /\ phase[r] = "finding"
  /\ seen' = [seen EXCEPT ![r] = record]
  /\ \/ record = None /\ NextAttempt(r)
     \/ /\ record # None
        /\ Goto(r, IF Expired(record, r) THEN "reclaiming" ELSE "judging")
  /\ UNCHANGED <<clock, record, locked, memory, op, applied, answer>>

\* An expired record is replaced whole, under a new id.
Reclaim(r) ==
  /\ phase[r] = "reclaiming"
  /\ Unlocked(seen[r].id)
  /\ IF RecordIs(seen[r].id) /\ Expired(record, r)
     THEN record' = NewRecord(r) /\ Own(r, r)
     ELSE NextAttempt(r) /\ UNCHANGED <<record, op>>
  /\ UNCHANGED <<clock, locked, memory, seen, applied, answer>>

\* Out of attempts: whatever a last look finds is judged.
Settle(r) ==
  /\ phase[r] = "settling"
  /\ seen' = [seen EXCEPT ![r] = record]
  /\ Goto(r, IF record = None THEN "refused" ELSE "judging")
  /\ UNCHANGED <<clock, record, locked, memory, op, applied, answer>>

\* Young: not older than StaleAfter when the request began.
Young(row, r) == row.createdAt > began[r] - StaleAfter

\* The stored answer is replayed, the key is taken by another request or its
\* work is in progress, or the record is stale.
Judge(r) ==
  /\ phase[r] = "judging"
  /\ \/ /\ seen[r].route = route[r] /\ seen[r].completed
        /\ Goto(r, "answered")
        /\ answer' = [answer EXCEPT ![r] = seen[r].answer]
     \/ /\ seen[r].route # route[r] \/ (~seen[r].completed /\ Young(seen[r], r))
        /\ Goto(r, "refused")
        /\ UNCHANGED answer
     \/ /\ seen[r].route = route[r] /\ ~seen[r].completed /\ ~Young(seen[r], r)
        /\ Goto(r, "claiming")
        /\ UNCHANGED answer
  /\ UNCHANGED <<clock, record, locked, memory, seen, op, applied>>

\* Mutant: a record may be claimed when it is exactly StaleAfter old.
Claimable_NotStrict(r) ==
  /\ RecordIs(seen[r].id)
  /\ ~record.completed
  /\ ModeOf[record.route] \in {"atomic", "replay_safe"}
  /\ record.createdAt <= began[r] - StaleAfter

Claimable(r) ==
  /\ RecordIs(seen[r].id)
  /\ ~record.completed
  /\ ModeOf[record.route] \in {"atomic", "replay_safe"}
  /\ record.createdAt < began[r] - StaleAfter

\* The operation keeps its id; the record is dated anew.
Claimed(r) == [record EXCEPT !.createdAt = began[r], !.expiresAt = began[r] + Retention]

ClaimStale(r) ==
  /\ phase[r] = "claiming"
  /\ Unlocked(seen[r].id)
  /\ IF Claimable(r)
     THEN record' = Claimed(r) /\ Own(r, seen[r].id)
     ELSE Goto(r, "refused") /\ UNCHANGED <<record, op>>
  /\ UNCHANGED <<clock, locked, memory, seen, applied, answer>>
-----------------------------------------------------------------------------
(* The work and its completion. *)

Change(r) == [op |-> op[r], by |-> r, at |-> clock]

\* complete() finds the record by its id alone.
Completed(id, by) ==
  IF RecordIs(id) THEN [record EXCEPT !.completed = TRUE, !.answer = by] ELSE record

\* An atomic owner opens its transaction with a lock on its record.
LockOwner(r) ==
  /\ phase[r] = "owner"
  /\ Mode(r) = "atomic"
  /\ Unlocked(op[r])
  /\ locked' = IF RecordIs(op[r]) THEN r ELSE locked
  /\ Goto(r, "locked")
  /\ UNCHANGED <<clock, record, memory, seen, op, applied, answer>>

Unlock(r) == IF locked = r THEN None ELSE locked

\* Mutant: the completion is left for after the transaction.
Commit_WithoutCompletion(r) ==
  /\ Mode(r) = "atomic"
  /\ phase[r] \in {"locked", "landing"}
  /\ applied' = applied \cup {Change(r)}
  /\ locked' = Unlock(r)
  /\ IF phase[r] = "locked"
     THEN Goto(r, "answered") /\ answer' = [answer EXCEPT ![r] = r]
     ELSE Goto(r, "stopped") /\ UNCHANGED answer
  /\ UNCHANGED <<clock, record, memory, seen, op>>

\* Work and completion are committed together, perhaps after the request was
\* stopped.
Commit(r) ==
  /\ Mode(r) = "atomic"
  /\ phase[r] \in {"locked", "landing"}
  /\ applied' = applied \cup {Change(r)}
  /\ record' = Completed(op[r], r)
  /\ locked' = Unlock(r)
  /\ IF phase[r] = "locked"
     THEN Goto(r, "answered") /\ answer' = [answer EXCEPT ![r] = r]
     ELSE Goto(r, "stopped") /\ UNCHANGED answer
  /\ UNCHANGED <<clock, memory, seen, op>>

\* The changes made for an operation, of which a replay-safe one has one.
ChangesOf(id) == {e \in applied : e.op = id}

\* Replay-safe work done again finds its change in place.
Work(r) ==
  /\ phase[r] = "owner"
  /\ Mode(r) # "atomic"
  /\ applied' = IF Mode(r) = "replay_safe" /\ ChangesOf(op[r]) # {}
                THEN applied
                ELSE applied \cup {Change(r)}
  /\ Goto(r, "worked")
  /\ UNCHANGED <<clock, record, locked, memory, seen, op, answer>>

\* The completion after the fact, and the answer that is returned.
Complete(r) ==
  /\ Mode(r) # "atomic"
  /\ phase[r] \in {"worked", "landing"}
  /\ LET by == (CHOOSE e \in ChangesOf(op[r]) : TRUE).by
     IN  /\ record' = Completed(op[r], by)
         /\ IF phase[r] = "worked"
            THEN Goto(r, "answered") /\ answer' = [answer EXCEPT ![r] = by]
            ELSE Goto(r, "stopped") /\ UNCHANGED answer
  /\ UNCHANGED <<clock, locked, memory, seen, op, applied>>
-----------------------------------------------------------------------------
\* A call throws or the platform ends the request: its transaction rolls back,
\* unless the commit or the completion is already on its way.
Stop(r) ==
  /\ phase[r] \in Live
  /\ \/ Goto(r, "stopped") /\ locked' = Unlock(r)
     \/ phase[r] \in {"locked", "worked"} /\ Goto(r, "landing") /\ UNCHANGED locked
  /\ UNCHANGED <<clock, record, memory, seen, op, applied, answer>>

\* EXPIRE_IDEMPOTENCY_SQL, run by maintenance and the sweep.
Expire ==
  /\ record # None
  /\ record.expiresAt < clock
  /\ locked = None
  /\ record' = None
  /\ UNCHANGED <<clock, locked, phase, memory, seen, op, applied, answer>>

Tick ==
  /\ clock < MaxTime
  /\ \A r \in Requests : phase[r] \in Live => clock < began[r] + Lifetime
  /\ clock' = clock + 1
  /\ UNCHANGED <<record, locked, phase, memory, seen, op, applied, answer>>

Next ==
  \/ Tick \/ Expire
  \/ \E r \in Requests :
       \/ Start(r) \/ Insert(r) \/ Find(r) \/ Reclaim(r) \/ Settle(r) \/ Judge(r)
       \/ ClaimStale(r) \/ LockOwner(r) \/ Commit(r) \/ Work(r) \/ Complete(r) \/ Stop(r)

Spec == Init /\ [][Next]_vars
-----------------------------------------------------------------------------
\* The change a key stands for is made once, however often and in whatever
\* overlap its requests are sent: a second change comes only when the record of
\* the first has been kept for all of its retention.
AppliedOnce ==
  \A e, f \in applied : e # f =>
    \/ e.at >= began[f.by] + Retention
    \/ f.at >= began[e.by] + Retention

\* A record that says completed, and an answer that was returned or replayed,
\* is of a change that was made for the same route; and a running record of an
\* atomic route has changed nothing, which is why it may be claimed.
AnswersAreChanges ==
  /\ \A r \in Requests : phase[r] = "answered" =>
       \E e \in applied : e.by = answer[r] /\ route[e.by] = route[r]
  /\ record # None =>
       IF record.completed
       THEN \E e \in applied : e.op = record.id /\ e.by = record.answer
       ELSE ModeOf[record.route] = "atomic" => ChangesOf(record.id) = {}
=============================================================================
