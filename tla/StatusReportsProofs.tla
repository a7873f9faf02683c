------------------------- MODULE StatusReportsProofs -------------------------
(* Proofs about StatusReports. *)
EXTENDS StatusReports, TLAPS

\* What must hold of one report and its updates.
Settled(d) ==
  Present(d) =>
    /\ UpdatesOf(update, d) # {}
    /\ report[d].resolvedAt = DeriveResolvedAt(update, d)
    /\ WindowInOrder(report[d].startsAt, report[d].endsAt)
    /\ report[d].type = "incident" => report[d].endsAt = None

\* No update outlives its report.
UpdatesOwned == \A u \in Updates : update[u] # None => Present(update[u].report)

\* A promotion's rows are new, an incident with one update that does not resolve it.
PromotionSound(r) ==
  LET t == request[r] IN
  t.op = "promote" =>
    /\ ~Present(t.report)
    /\ update[t.update] = None
    /\ t.row.report = t.report /\ ~t.row.resolves
    /\ t.new.type = "incident" /\ t.new.endsAt = None /\ t.new.resolvedAt = None
    /\ t.new.origin # None /\ ~Promoted(t.new.origin)

\* A patch gives the row it has locked a window that is in order.
PatchSound(r) ==
  LET t == request[r] IN
  t.op = "patch" =>
    /\ Present(t.report)
    /\ "startsAt" \notin t.given => t.startsAt = report[t.report].startsAt
    /\ "endsAt" \notin t.given => t.endsAt = report[t.report].endsAt
    /\ WindowInOrder(t.startsAt, t.endsAt)
    /\ report[t.report].type = "incident" => t.endsAt = None

\* A mutation of an update writes a row of the report it has locked, and leaves one.
WriteSound(r) ==
  LET t == request[r] IN
  t.op \in {"update", "resolve"} =>
    /\ Present(t.report)
    /\ update[t.update] # None => update[t.update].report = t.report
    /\ t.row # None => t.row.report = t.report
    /\ t.row = None => UpdatesOf(update, t.report) \ {t.update} # {}

\* A resolution that was derived is that of what will be committed.
ResolutionSound(r) ==
  LET t == request[r] IN
  t.op = "resolve" =>
    t.resolvedAt = DeriveResolvedAt([update EXCEPT ![t.update] = t.row], t.report)

RequestSound(r) == PromotionSound(r) /\ PatchSound(r) /\ WriteSound(r) /\ ResolutionSound(r)

\* One transaction holds a report, writes an update, promotes an incident.
Exclusive ==
  \A r, s \in Requests : r # s =>
    /\ Busy(r) /\ Busy(s) => request[r].report # request[s].report
    /\ Writes(r) /\ Writes(s) => request[r].update # request[s].update
    /\ request[r].op = "promote" /\ request[s].op = "promote"
         => request[r].new.origin # request[s].new.origin

IInv ==
  /\ TypeOK
  /\ \A d \in Reports : Settled(d)
  /\ UpdatesOwned
  /\ OneReportPerIncident
  /\ \A r \in Requests : RequestSound(r)
  /\ Exclusive
-----------------------------------------------------------------------------
(* Records *)

\* The fields a transaction has, by its operation.
LEMMA TransactionFields ==
  ASSUME NEW t \in Transaction \cup {Idle, Refused}
  PROVE  /\ t \in {Idle, Refused} <=> t.op \in {"idle", "refused"}
         /\ t.op \in {"idle", "refused", "promote", "patch", "update", "resolve"}
         /\ t \notin {Idle, Refused} => t.report \in Reports
         /\ t.op \in {"promote", "update", "resolve"} =>
              t.update \in Updates /\ t.row \in Update \cup {None}
         /\ t.op = "promote" => t.new \in Report /\ t.row \in Update
         /\ t.op = "patch" => t.startsAt \in Times /\ t.endsAt \in Times \cup {None}
         /\ t.op = "resolve" => t.resolvedAt \in Times \cup {None}
  BY DEF Transaction, Idle, Refused

\* None is neither a report nor an update.
LEMMA NoneIsNoRow == None \notin Report /\ None \notin Update
  BY NoneAssumption

\* What is derived is a date of an update or nothing.
LEMMA DerivedType ==
  ASSUME NEW rows \in [Updates -> Update \cup {None}], NEW d \in Reports
  PROVE  DeriveResolvedAt(rows, d) \in Times \cup {None}
  <1>1. ResolvingDates(rows, d) \subseteq Times
    BY DEF ResolvingDates, LatestUpdates, UpdatesOf, Update
  <1> QED BY <1>1 DEF DeriveResolvedAt

\* What is derived for a report depends on its own updates alone.
LEMMA DerivedFromOwn ==
  ASSUME NEW rows, NEW other, NEW d,
         UpdatesOf(rows, d) = UpdatesOf(other, d),
         \A u \in UpdatesOf(rows, d) : rows[u] = other[u]
  PROVE  DeriveResolvedAt(rows, d) = DeriveResolvedAt(other, d)
  <1>1. LatestUpdates(rows, d) = LatestUpdates(other, d)
    BY DEF LatestUpdates, IsAfter
  <1>2. ResolvingDates(rows, d) = ResolvingDates(other, d)
    BY <1>1 DEF ResolvingDates, LatestUpdates
  <1> QED BY <1>2 DEF DeriveResolvedAt
-----------------------------------------------------------------------------
(* Types *)

\* Beginning a transaction of the right type keeps the type.
LEMMA BeginType ==
  ASSUME TypeOK, NEW r \in Requests, NEW t \in Transaction \cup {Idle, Refused}, Begin(r, t)
  PROVE  request' \in [Requests -> Transaction \cup {Idle, Refused}]
  BY DEF TypeOK, Begin

\* What a request begins with a report keeps the types.
LEMMA TypeOfReports ==
  ASSUME TypeOK, NEW r \in Requests, NEW d \in Reports
  PROVE  /\ PublishStatusReport(r, d) => TypeOK'
         /\ DeleteStatusReport(r, d) => TypeOK'
         /\ UpdateStatusReport(r, d) => TypeOK'
  <1> USE DEF TypeOK, Refuse
  <1>0. Idle \in Transaction \cup {Idle, Refused} /\ Refused \in Transaction \cup {Idle, Refused}
    OBVIOUS
  <1>1. PublishStatusReport(r, d) => TypeOK'
    <2>1. Present(d) => [report[d] EXCEPT !.published = TRUE] \in Report
      BY DEF Present, Report
    <2> QED BY <1>0, <2>1, BeginType DEF PublishStatusReport
  <1>2. DeleteStatusReport(r, d) => TypeOK'
    BY <1>0, BeginType DEF DeleteStatusReport
  <1>3. UpdateStatusReport(r, d) => TypeOK'
    <2>1. ASSUME NEW given \in SUBSET {"startsAt", "endsAt"}, NEW startsAt \in Times,
                 NEW endsAt \in Times \cup {None}
          PROVE  [op |-> "patch", report |-> d, given |-> given,
                  startsAt |-> startsAt, endsAt |-> endsAt] \in Transaction
      BY DEF Transaction
    <2> QED BY <1>0, <2>1, BeginType DEF UpdateStatusReport
  <1> QED BY <1>1, <1>2, <1>3

\* What a request begins with an update keeps the types.
LEMMA TypeOfUpdates ==
  ASSUME TypeOK, NEW r \in Requests, NEW d \in Reports, NEW u \in Updates
  PROVE  /\ CreateStatusReport(r, d, u) => TypeOK'
         /\ \A i \in Incidents : PromoteIncident(r, i, d, u) => TypeOK'
         /\ AddReportUpdate(r, d, u) => TypeOK'
         /\ EditReportUpdate(r, d, u) => TypeOK'
         /\ DeleteReportUpdate(r, d, u) => TypeOK'
  <1> USE DEF TypeOK, Refuse
  <1>0. Idle \in Transaction \cup {Idle, Refused} /\ Refused \in Transaction \cup {Idle, Refused}
    OBVIOUS
  <1>1. CreateStatusReport(r, d, u) => TypeOK'
    BY <1>0, BeginType DEF CreateStatusReport
  <1>2. ASSUME NEW i \in Incidents, PromoteIncident(r, i, d, u) PROVE TypeOK'
    <2>1. ASSUME NEW at \in Times
          PROVE  [op |-> "promote", report |-> d, update |-> u,
                  new |-> [type |-> "incident", startsAt |-> at, endsAt |-> None,
                           published |-> FALSE, resolvedAt |-> None, origin |-> i],
                  row |-> [report |-> d, resolves |-> FALSE, publishedAt |-> at]] \in Transaction
      BY DEF Transaction, Report, Update
    <2> QED BY <1>0, <1>2, <2>1, BeginType DEF PromoteIncident, Draft
  <1>3. ASSUME NEW row \in Update \cup {None}, Write(r, d, u, row)
        PROVE  request' \in [Requests -> Transaction \cup {Idle, Refused}]
    <2>1. [op |-> "update", report |-> d, update |-> u, row |-> row] \in Transaction
      BY DEF Transaction
    <2> QED BY <1>3, <2>1, BeginType DEF Write
  <1>4. AddReportUpdate(r, d, u) => TypeOK'
    BY <1>0, <1>3, BeginType DEF AddReportUpdate
  <1>5. EditReportUpdate(r, d, u) => TypeOK'
    BY <1>0, <1>3, BeginType DEF EditReportUpdate
  <1>6. DeleteReportUpdate(r, d, u) => TypeOK'
    BY <1>0, <1>3, BeginType DEF DeleteReportUpdate
  <1> QED BY <1>1, <1>2, <1>4, <1>5, <1>6

\* A step inside a transaction, or its end, keeps the types.
LEMMA TypeEnd ==
  ASSUME TypeOK, NEW r \in Requests
  PROVE  /\ Recompute(r) => TypeOK'
         /\ CommitPromotion(r) => TypeOK'
         /\ CommitPatch(r) => TypeOK'
         /\ CommitUpdate(r) => TypeOK'
         /\ Die(r) => TypeOK'
  <1> USE DEF TypeOK
  <1> DEFINE t == request[r]
  <1>0. t \in Transaction \cup {Idle, Refused}
    OBVIOUS
  <1>1. Recompute(r) => TypeOK'
    <2> SUFFICES ASSUME Recompute(r) PROVE TypeOK'
      OBVIOUS
    <2>1. t.report \in Reports /\ t.update \in Updates /\ t.row \in Update \cup {None}
      BY <1>0, TransactionFields DEF Recompute
    <2> DEFINE written == [update EXCEPT ![t.update] = t.row]
    <2>2. written \in [Updates -> Update \cup {None}]
      BY <2>1
    <2>3. DeriveResolvedAt(written, t.report) \in Times \cup {None}
      BY <2>1, <2>2, DerivedType
    <2>4. [op |-> "resolve", report |-> t.report, update |-> t.update, row |-> t.row,
           resolvedAt |-> DeriveResolvedAt(written, t.report)] \in Transaction
      BY <2>1, <2>3 DEF Transaction
    <2> QED BY <2>2, <2>4 DEF Recompute
  <1>2. CommitPromotion(r) => TypeOK'
    BY <1>0, TransactionFields DEF CommitPromotion
  <1>3. CommitPatch(r) => TypeOK'
    <2> SUFFICES ASSUME CommitPatch(r) PROVE TypeOK'
      OBVIOUS
    <2>1. t.report \in Reports /\ t.startsAt \in Times /\ t.endsAt \in Times \cup {None}
      BY <1>0, TransactionFields DEF CommitPatch
    <2>2. Present(t.report) => Patched(report[t.report], t) \in Report
      BY <2>1 DEF Present, Patched, Report
    <2> QED BY <2>1, <2>2 DEF CommitPatch
  <1>4. CommitUpdate(r) => TypeOK'
    <2> SUFFICES ASSUME CommitUpdate(r) PROVE TypeOK'
      OBVIOUS
    <2>1. /\ t.report \in Reports /\ t.update \in Updates /\ t.row \in Update \cup {None}
          /\ t.resolvedAt \in Times \cup {None}
      BY <1>0, TransactionFields DEF CommitUpdate
    <2>2. Present(t.report) => [report[t.report] EXCEPT !.resolvedAt = t.resolvedAt] \in Report
      BY <2>1 DEF Present, Report
    <2> QED BY <2>1, <2>2 DEF CommitUpdate
  <1>5. Die(r) => TypeOK'
    BY DEF Die
  <1> QED BY <1>1, <1>2, <1>3, <1>4, <1>5

\* Every step keeps the types.
LEMMA TypeKept == TypeOK /\ [Next]_vars => TypeOK'
  <1> SUFFICES ASSUME TypeOK, [Next]_vars PROVE TypeOK'
    OBVIOUS
  <1>1. CASE UNCHANGED vars
    BY <1>1 DEF TypeOK, vars
  <1>2. CASE Next
    <2>1. PICK r \in Requests :
            \/ \E d \in Reports, u \in Updates :
                 \/ CreateStatusReport(r, d, u)
                 \/ \E i \in Incidents : PromoteIncident(r, i, d, u)
                 \/ AddReportUpdate(r, d, u)
                 \/ EditReportUpdate(r, d, u)
                 \/ DeleteReportUpdate(r, d, u)
            \/ \E d \in Reports :
                 PublishStatusReport(r, d) \/ DeleteStatusReport(r, d) \/ UpdateStatusReport(r, d)
            \/ Recompute(r) \/ CommitPromotion(r) \/ CommitPatch(r) \/ CommitUpdate(r) \/ Die(r)
      BY <1>2, Zenon DEF Next
    <2> QED BY <2>1, TypeOfReports, TypeOfUpdates, TypeEnd, Zenon
  <1> QED BY <1>1, <1>2

\* Every reachable report, update and transaction has its type.
THEOREM TypeCorrect == Spec => []TypeOK
  <1>1. Init => TypeOK
    BY DEF Init, TypeOK
  <1> QED BY <1>1, TypeKept, PTL DEF Spec
-----------------------------------------------------------------------------
(* What a step leaves alone *)

\* The step of r changes report d and its updates, nothing another transaction has.
TouchesOnly(r, d) ==
  /\ \A e \in Reports : e # d => report'[e] = report[e]
  /\ \A u \in Updates : update'[u] # update[u] =>
       /\ update[u] # None => update[u].report = d
       /\ update'[u] # None => update'[u].report = d
  /\ \A s \in Requests : s # r =>
       /\ Busy(s) => request[s].report # d
       /\ Writes(s) => update'[request[s].update] = update[request[s].update]
       /\ request[s].op = "promote" /\ Present(d)' => report'[d].origin # request[s].new.origin

\* The updates of another report are what they were.
LEMMA OtherUpdates ==
  ASSUME NEW r, NEW d, TouchesOnly(r, d), NEW e, e # d
  PROVE  /\ UpdatesOf(update', e) = UpdatesOf(update, e)
         /\ \A u \in UpdatesOf(update, e) : update'[u] = update[u]
  BY DEF TouchesOnly, UpdatesOf

\* Another report stays settled.
LEMMA OtherReports ==
  ASSUME NEW r, NEW d \in Reports, TouchesOnly(r, d), NEW e \in Reports, e # d, Settled(e)
  PROVE  Settled(e)'
  <1>1. report'[e] = report[e]
    BY DEF TouchesOnly
  <1>2. UpdatesOf(update', e) = UpdatesOf(update, e)
    BY OtherUpdates
  <1>3. DeriveResolvedAt(update', e) = DeriveResolvedAt(update, e)
    BY <1>2, OtherUpdates, DerivedFromOwn
  <1> QED BY <1>1, <1>2, <1>3 DEF Settled, Present

\* Another transaction stays sound.
LEMMA OtherRequests ==
  ASSUME TypeOK, TypeOK', NEW r \in Requests, NEW d \in Reports, TouchesOnly(r, d),
         NEW s \in Requests, s # r, request'[s] = request[s], RequestSound(s)
  PROVE  RequestSound(s)'
  <1> DEFINE t == request[s]
  <1>0. t \in Transaction \cup {Idle, Refused}
    BY DEF TypeOK
  <1>1. CASE t.op = "promote"
    <2>1. /\ t.report \in Reports /\ t.report # d /\ t.update \in Updates
          /\ update'[t.update] = update[t.update]
      BY <1>0, <1>1, TransactionFields DEF TouchesOnly, Busy, Writes
    <2>2. report'[t.report] = report[t.report]
      BY <2>1 DEF TouchesOnly
    <2>3. ~Promoted(t.new.origin)'
      BY <1>1 DEF TouchesOnly, Promoted, Present, RequestSound, PromotionSound
    <2> QED BY <1>1, <2>1, <2>2, <2>3
        DEF RequestSound, PromotionSound, PatchSound, WriteSound, ResolutionSound, Present
  <1>2. CASE t.op = "patch"
    <2>1. t.report \in Reports /\ t.report # d
      BY <1>0, <1>2, TransactionFields DEF TouchesOnly, Busy
    <2>2. report'[t.report] = report[t.report]
      BY <2>1 DEF TouchesOnly
    <2> QED BY <1>2, <2>1, <2>2
        DEF RequestSound, PromotionSound, PatchSound, WriteSound, ResolutionSound, Present
  <1>3. CASE t.op \in {"update", "resolve"}
    <2>1. /\ t.report \in Reports /\ t.report # d /\ t.update \in Updates
          /\ t.row \in Update \cup {None}
          /\ update'[t.update] = update[t.update]
      BY <1>0, <1>3, TransactionFields DEF TouchesOnly, Busy, Writes
    <2>2. report'[t.report] = report[t.report]
      BY <2>1 DEF TouchesOnly
    <2>3. UpdatesOf(update', t.report) = UpdatesOf(update, t.report)
      BY <2>1, OtherUpdates
    <2>4. WriteSound(s)'
      BY <1>3, <2>1, <2>2, <2>3 DEF RequestSound, WriteSound, Present
    <2>5. ResolutionSound(s)'
      <3> DEFINE before == [update EXCEPT ![t.update] = t.row]
                 after  == [update' EXCEPT ![t.update] = t.row]
      <3>1. UpdatesOf(after, t.report) = UpdatesOf(before, t.report)
        BY <2>1, <2>3 DEF UpdatesOf, TypeOK
      <3>2. ASSUME NEW u \in UpdatesOf(after, t.report) PROVE after[u] = before[u]
        <4>1. u # t.update => u \in UpdatesOf(update', t.report)
          BY DEF UpdatesOf, TypeOK
        <4>2. u # t.update => update'[u] = update[u]
          BY <2>1, <2>3, <4>1, OtherUpdates
        <4> QED BY <4>2 DEF UpdatesOf, TypeOK
      <3>3. DeriveResolvedAt(after, t.report) = DeriveResolvedAt(before, t.report)
        <4> HIDE DEF before, after
        <4> QED BY <3>1, <3>2, DerivedFromOwn
      <3> QED BY <3>3 DEF RequestSound, ResolutionSound
    <2> QED BY <1>3, <2>4, <2>5 DEF RequestSound, PromotionSound, PatchSound
  <1>4. CASE t.op \in {"idle", "refused"}
    BY <1>4 DEF RequestSound, PromotionSound, PatchSound, WriteSound, ResolutionSound
  <1> QED BY <1>0, <1>1, <1>2, <1>3, <1>4, TransactionFields
-----------------------------------------------------------------------------
(* How a step keeps the invariant *)

\* Whoever is not in a transaction is sound and excludes nobody.
LEMMA IdleIsSound ==
  ASSUME NEW r \in Requests, request[r] \in {Idle, Refused}
  PROVE  RequestSound(r) /\ ~Busy(r) /\ ~Writes(r) /\ request[r].op # "promote"
  BY DEF RequestSound, PromotionSound, PatchSound, WriteSound, ResolutionSound, Busy, Writes,
         Idle, Refused

\* A transaction begins or goes on, and nothing is written yet.
LEMMA Begins ==
  ASSUME IInv, TypeOK', NEW r \in Requests, NEW t,
         request' = [request EXCEPT ![r] = t], UNCHANGED <<report, update>>,
         RequestSound(r)',
         \A s \in Requests : s # r =>
           /\ Busy(r)' /\ Busy(s) => t.report # request[s].report
           /\ Writes(r)' /\ Writes(s) => t.update # request[s].update
           /\ t.op = "promote" /\ request[s].op = "promote" => t.new.origin # request[s].new.origin
  PROVE  IInv'
  <1>0. request \in [Requests -> Transaction \cup {Idle, Refused}] /\ request'[r] = t
    BY DEF IInv, TypeOK
  <1>1. \A d \in Reports : Settled(d)'
    BY DEF IInv, Settled, Present
  <1>2. UpdatesOwned' /\ OneReportPerIncident'
    BY DEF IInv, UpdatesOwned, OneReportPerIncident, Present
  <1>3. ASSUME NEW s \in Requests PROVE RequestSound(s)'
    <2>1. CASE s = r
      BY <2>1
    <2>2. CASE s # r
      <3>1. request'[s] = request[s]
        BY <1>0, <2>2
      <3>2. PromotionSound(s)' /\ PatchSound(s)'
        BY <3>1 DEF IInv, RequestSound, PromotionSound, PatchSound, Present, Promoted
      <3>3. WriteSound(s)'
        BY <3>1 DEF IInv, RequestSound, WriteSound, Present
      <3>4. ResolutionSound(s)'
        BY <3>1 DEF IInv, RequestSound, ResolutionSound
      <3> QED BY <3>2, <3>3, <3>4 DEF RequestSound
    <2> QED BY <2>1, <2>2
  <1>4. Exclusive'
    <2> SUFFICES ASSUME NEW p \in Requests, NEW q \in Requests, p # q
                 PROVE  /\ (Busy(p) /\ Busy(q))' => request'[p].report # request'[q].report
                        /\ (Writes(p) /\ Writes(q))' => request'[p].update # request'[q].update
                        /\ request'[p].op = "promote" /\ request'[q].op = "promote"
                             => request'[p].new.origin # request'[q].new.origin
      BY DEF Exclusive
    <2>1. CASE p # r /\ q # r
      BY <1>0, <2>1 DEF IInv, Exclusive, Busy, Writes
    <2>2. CASE p = r
      BY <1>0, <2>2 DEF Busy, Writes
    <2>3. CASE q = r
      BY <1>0, <2>3 DEF Busy, Writes
    <2> QED BY <2>1, <2>2, <2>3
  <1> QED BY <1>1, <1>2, <1>3, <1>4 DEF IInv

\* A request that ends with nothing written.
LEMMA Leaves ==
  ASSUME IInv, TypeOK', NEW r \in Requests, NEW t \in {Idle, Refused},
         request' = [request EXCEPT ![r] = t], UNCHANGED <<report, update>>
  PROVE  IInv'
  <1>1. request'[r] = t
    BY DEF IInv, TypeOK
  <1>2. RequestSound(r)' /\ ~Busy(r)' /\ ~Writes(r)' /\ t.op # "promote"
    BY <1>1 DEF RequestSound, PromotionSound, PatchSound, WriteSound, ResolutionSound, Busy, Writes,
         Idle, Refused
  <1> QED BY <1>2, Begins

\* A request ends and what it wrote is committed.
LEMMA Commits ==
  ASSUME IInv, TypeOK', NEW r \in Requests, NEW d \in Reports,
         request' = [request EXCEPT ![r] = Idle], TouchesOnly(r, d),
         Settled(d)',
         Present(d)' \/ UpdatesOf(update', d) = {},
         Present(d)' /\ report'[d].origin # None =>
           \A e \in Reports : e # d /\ Present(e) => report[e].origin # report'[d].origin
  PROVE  IInv'
  <1>0. /\ request \in [Requests -> Transaction \cup {Idle, Refused}] /\ request'[r] = Idle
        /\ \A s \in Requests : s # r => request'[s] = request[s]
    BY DEF IInv, TypeOK
  <1>1. \A e \in Reports : Settled(e)'
    BY OtherReports DEF IInv
  <1>2. UpdatesOwned'
    <2> SUFFICES ASSUME NEW u \in Updates, update'[u] # None
                 PROVE  report'[update'[u].report] # None
      BY DEF UpdatesOwned, Present
    <2>1. CASE update'[u].report = d
      BY <2>1 DEF UpdatesOf, Present
    <2>2. CASE update'[u].report # d
      <3>1. update'[u] = update[u]
        BY <2>2 DEF TouchesOnly
      <3>2. update[u].report \in Reports
        BY <3>1, NoneIsNoRow DEF IInv, TypeOK, Update
      <3> QED BY <2>2, <3>1, <3>2 DEF IInv, UpdatesOwned, TouchesOnly, Present
    <2> QED BY <2>1, <2>2
  <1>3. OneReportPerIncident'
    <2> SUFFICES ASSUME NEW e \in Reports, NEW f \in Reports, e # f,
                        report'[e] # None, report'[f] # None,
                        report'[e].origin # None, report'[e].origin = report'[f].origin
                 PROVE  FALSE
      BY DEF OneReportPerIncident, Present
    <2>1. CASE e # d /\ f # d
      BY <2>1 DEF IInv, OneReportPerIncident, TouchesOnly, Present
    <2>2. CASE e = d
      BY <2>2 DEF TouchesOnly, Present
    <2>3. CASE f = d
      BY <2>3 DEF TouchesOnly, Present
    <2> QED BY <2>1, <2>2, <2>3
  <1>4. ASSUME NEW s \in Requests PROVE RequestSound(s)'
    <2>1. CASE s = r
      BY <1>0, <2>1
      DEF RequestSound, PromotionSound, PatchSound, WriteSound, ResolutionSound, Idle
    <2>2. CASE s # r
      BY <1>0, <2>2, OtherRequests DEF IInv
    <2> QED BY <2>1, <2>2
  <1>5. Exclusive'
    <2>1. ~Busy(r)' /\ ~Writes(r)' /\ request'[r].op # "promote"
      BY <1>0 DEF Busy, Writes, Idle
    <2> QED BY <1>0, <2>1 DEF IInv, Exclusive, Busy, Writes
  <1> QED BY <1>1, <1>2, <1>3, <1>4, <1>5 DEF IInv
-----------------------------------------------------------------------------
(* Requests that end in one step *)

\* A report that is not there has no updates.
LEMMA NoOrphans ==
  ASSUME IInv, NEW d \in Reports, ~Present(d)
  PROVE  UpdatesOf(update, d) = {}
  BY DEF IInv, UpdatesOwned, UpdatesOf

\* A new report comes with one update, which decides its resolution.
LEMMA CreateKeeps ==
  ASSUME IInv, TypeOK', NEW r \in Requests, NEW d \in Reports, NEW u \in Updates,
         CreateStatusReport(r, d, u)
  PROVE  IInv'
  <1>1. PICK new \in Report, row \in Update :
          /\ new.origin = None
          /\ new.type = "incident" => new.endsAt = None
          /\ WindowInOrder(new.startsAt, new.endsAt)
          /\ row.report = d
          /\ update' = [update EXCEPT ![u] = row]
          /\ new.resolvedAt = DeriveResolvedAt(update', d)
          /\ report' = [report EXCEPT ![d] = new]
    BY DEF CreateStatusReport
  <1>2. report'[d] = new /\ update'[u] = row /\ row # None /\ Present(d)'
    BY <1>1, NoneIsNoRow DEF IInv, TypeOK, Present
  <1>3. TouchesOnly(r, d)
    <2>1. update[u] = None /\ \A s \in Requests : Writes(s) => request[s].update # u
      BY DEF CreateStatusReport, NewUpdate
    <2>2. \A s \in Requests : Busy(s) => request[s].report # d
      BY DEF CreateStatusReport, NewReport, Held
    <2>3. \A s \in Requests : request[s].op = "promote" => request[s].new.origin # None
      BY DEF IInv, RequestSound, PromotionSound
    <2> QED BY <1>1, <1>2, <2>1, <2>2, <2>3 DEF TouchesOnly, IInv, TypeOK
  <1>4. UpdatesOf(update', d) # {}
    BY <1>1, <1>2 DEF UpdatesOf
  <1>5. Settled(d)'
    BY <1>1, <1>2, <1>4 DEF Settled
  <1>6. request' = [request EXCEPT ![r] = Idle]
    BY DEF CreateStatusReport, Begin
  <1> QED BY <1>1, <1>2, <1>3, <1>5, <1>6, Commits

\* A report is published once.
LEMMA PublishKeeps ==
  ASSUME IInv, TypeOK', NEW r \in Requests, NEW d \in Reports, PublishStatusReport(r, d)
  PROVE  IInv'
  <1>1. CASE Present(d) /\ ~report[d].published
    <2>1. /\ report' = [report EXCEPT ![d].published = TRUE] /\ update' = update
          /\ request' = [request EXCEPT ![r] = Idle]
          /\ \A s \in Requests : Busy(s) => request[s].report # d
      BY <1>1 DEF PublishStatusReport, Begin, Free, Held
    <2>2. /\ Present(d)' /\ report[d] \in Report /\ report'[d] = [report[d] EXCEPT !.published = TRUE]
          /\ \A e \in Reports : e # d => report'[e] = report[e]
      BY <1>1, <2>1, NoneIsNoRow DEF IInv, TypeOK, Present, Report
    <2>3. /\ report'[d].startsAt = report[d].startsAt /\ report'[d].endsAt = report[d].endsAt
          /\ report'[d].type = report[d].type /\ report'[d].origin = report[d].origin
          /\ report'[d].resolvedAt = report[d].resolvedAt
      BY <2>2 DEF Report
    <2>4. TouchesOnly(r, d)
      BY <1>1, <2>1, <2>2, <2>3
      DEF TouchesOnly, IInv, RequestSound, PromotionSound, Promoted
    <2>5. Settled(d)'
      BY <1>1, <2>1, <2>3 DEF IInv, Settled
    <2>6. \A e \in Reports : e # d /\ Present(e) /\ report'[d].origin # None
            => report[e].origin # report'[d].origin
      BY <1>1, <2>3 DEF IInv, OneReportPerIncident
    <2> QED BY <2>1, <2>2, <2>4, <2>5, <2>6, Commits
  <1>2. CASE ~(Present(d) /\ ~report[d].published)
    BY <1>2, Leaves DEF PublishStatusReport, Refuse, Begin
  <1> QED BY <1>1, <1>2

\* A report that is deleted takes its updates with it.
LEMMA DeleteKeeps ==
  ASSUME IInv, TypeOK', NEW r \in Requests, NEW d \in Reports, DeleteStatusReport(r, d)
  PROVE  IInv'
  <1>1. CASE Present(d)
    <2>1. /\ report' = [report EXCEPT ![d] = None]
          /\ update' = [u \in Updates |-> IF u \in UpdatesOf(update, d) THEN None ELSE update[u]]
          /\ request' = [request EXCEPT ![r] = Idle]
          /\ \A s \in Requests : Busy(s) => request[s].report # d
      BY <1>1 DEF DeleteStatusReport, Begin, Free, Held
    <2>2. report'[d] = None /\ ~Present(d)'
      BY <2>1 DEF IInv, TypeOK, Present
    <2>3. ASSUME NEW s \in Requests, Writes(s)
          PROVE  update'[request[s].update] = update[request[s].update]
      <3>1. request[s] \in Transaction \cup {Idle, Refused}
        BY DEF IInv, TypeOK
      <3>2. request[s].update \in Updates /\ Busy(s)
        BY <2>3, <3>1, TransactionFields DEF Writes, Busy
      <3>3. update[request[s].update] # None => update[request[s].update].report # d
        BY <2>1, <2>3, <3>2 DEF IInv, RequestSound, PromotionSound, WriteSound, Writes
      <3> QED BY <2>1, <3>2, <3>3 DEF UpdatesOf
    <2>4. TouchesOnly(r, d)
      BY <2>1, <2>2, <2>3 DEF TouchesOnly, IInv, TypeOK, UpdatesOf
    <2>5. UpdatesOf(update', d) = {}
      BY <2>1 DEF UpdatesOf
    <2>6. Settled(d)'
      BY <2>2 DEF Settled
    <2> QED BY <2>1, <2>2, <2>4, <2>5, <2>6, Commits
  <1>2. CASE ~Present(d)
    BY <1>2, Leaves DEF DeleteStatusReport, Refuse, Begin
  <1> QED BY <1>1, <1>2
-----------------------------------------------------------------------------
(* The ends of transactions *)

\* The draft of a promotion is committed.
LEMMA CommitPromotionKeeps ==
  ASSUME IInv, TypeOK', NEW r \in Requests, CommitPromotion(r)
  PROVE  IInv'
  <1>0. PICK t, d : t = request[r] /\ d = t.report
    OBVIOUS
  <1>1. /\ t \in Transaction \cup {Idle, Refused} /\ t.op = "promote" /\ Busy(r) /\ Writes(r)
        /\ d \in Reports /\ t.update \in Updates /\ t.new \in Report /\ t.row \in Update
    BY <1>0, TransactionFields DEF IInv, TypeOK, CommitPromotion, Busy, Writes
  <1>2. /\ ~Present(d) /\ update[t.update] = None
        /\ t.row.report = d /\ ~t.row.resolves
        /\ t.new.type = "incident" /\ t.new.endsAt = None /\ t.new.resolvedAt = None
        /\ t.new.origin # None /\ ~Promoted(t.new.origin)
    BY <1>0, <1>1 DEF IInv, RequestSound, PromotionSound
  <1>3. /\ report' = [report EXCEPT ![d] = t.new] /\ update' = [update EXCEPT ![t.update] = t.row]
        /\ request' = [request EXCEPT ![r] = Idle]
    BY <1>0 DEF CommitPromotion
  <1>4. report'[d] = t.new /\ update'[t.update] = t.row /\ Present(d)'
    BY <1>1, <1>3, NoneIsNoRow DEF IInv, TypeOK, Present
  <1>5. TouchesOnly(r, d)
    <2>1. \A e \in Reports : e # d => report'[e] = report[e]
      BY <1>3 DEF IInv, TypeOK
    <2>2. \A u \in Updates : u # t.update => update'[u] = update[u]
      BY <1>3 DEF IInv, TypeOK
    <2>3. ASSUME NEW s \in Requests, s # r
          PROVE  /\ Busy(s) => request[s].report # d
                 /\ Writes(s) => update'[request[s].update] = update[request[s].update]
                 /\ request[s].op = "promote" => t.new.origin # request[s].new.origin
      <3>1. request[s] \in Transaction \cup {Idle, Refused}
        BY DEF IInv, TypeOK
      <3>2. /\ Busy(s) => request[s].report # d
            /\ Writes(s) => request[s].update # t.update
            /\ request[s].op = "promote" => t.new.origin # request[s].new.origin
        BY <1>0, <1>1, <2>3 DEF IInv, Exclusive
      <3> QED BY <2>2, <3>1, <3>2, TransactionFields DEF Writes
    <2> QED BY <1>2, <1>4, <2>1, <2>2, <2>3 DEF TouchesOnly
  <1>6. Settled(d)'
    <2>1. UpdatesOf(update', d) = {t.update}
      <3>1. UpdatesOf(update, d) = {}
        BY <1>1, <1>2, NoOrphans
      <3> QED BY <1>1, <1>2, <1>3, <1>4, <3>1, NoneIsNoRow DEF UpdatesOf, IInv, TypeOK
    <2>2. ResolvingDates(update', d) = {}
      BY <1>2, <1>4, <2>1 DEF ResolvingDates, LatestUpdates
    <2>3. DeriveResolvedAt(update', d) = None
      BY <2>2 DEF DeriveResolvedAt
    <2> QED BY <1>2, <1>4, <2>1, <2>3 DEF Settled, WindowInOrder
  <1>7. \A e \in Reports : e # d /\ Present(e) => report[e].origin # report'[d].origin
    BY <1>2, <1>4 DEF Promoted
  <1> QED BY <1>1, <1>3, <1>4, <1>5, <1>6, <1>7, Commits

\* A window that was checked against the locked row is committed.
LEMMA CommitPatchKeeps ==
  ASSUME IInv, TypeOK', NEW r \in Requests, CommitPatch(r)
  PROVE  IInv'
  <1>0. PICK t, d : t = request[r] /\ d = t.report
    OBVIOUS
  <1>1. /\ t \in Transaction \cup {Idle, Refused} /\ t.op = "patch" /\ Busy(r)
        /\ d \in Reports /\ t.startsAt \in Times /\ t.endsAt \in Times \cup {None}
    BY <1>0, TransactionFields DEF IInv, TypeOK, CommitPatch, Busy
  <1>2. /\ Present(d) /\ WindowInOrder(t.startsAt, t.endsAt)
        /\ "startsAt" \notin t.given => t.startsAt = report[d].startsAt
        /\ "endsAt" \notin t.given => t.endsAt = report[d].endsAt
        /\ report[d].type = "incident" => t.endsAt = None
    BY <1>0, <1>1 DEF IInv, RequestSound, PatchSound
  <1>3. /\ report' = [report EXCEPT ![d] = Patched(report[d], t)] /\ update' = update
        /\ request' = [request EXCEPT ![r] = Idle]
    BY <1>0, <1>2 DEF CommitPatch
  <1>4. /\ report'[d] = Patched(report[d], t) /\ report[d] \in Report
        /\ \A e \in Reports : e # d => report'[e] = report[e]
    BY <1>1, <1>2, <1>3 DEF IInv, TypeOK, Present
  <1>5. /\ report'[d].startsAt = t.startsAt /\ report'[d].endsAt = t.endsAt
        /\ report'[d].type = report[d].type /\ report'[d].origin = report[d].origin
        /\ report'[d].resolvedAt = report[d].resolvedAt
    BY <1>2, <1>4 DEF Patched, Report
  <1>6. report'[d] \in Report /\ Present(d)'
    <2>1. Patched(report[d], t) \in Report
      BY <1>1, <1>4 DEF Report, Patched
    <2> QED BY <1>4, <2>1, NoneIsNoRow DEF Present
  <1>7. TouchesOnly(r, d)
    <2>1. \A s \in Requests : s # r /\ Busy(s) => request[s].report # d
      BY <1>0, <1>1 DEF IInv, Exclusive
    <2>2. \A s \in Requests : request[s].op = "promote" => report[d].origin # request[s].new.origin
      BY <1>1, <1>2 DEF IInv, RequestSound, PromotionSound, Promoted
    <2> QED BY <1>3, <1>4, <1>5, <2>1, <2>2 DEF TouchesOnly
  <1>8. Settled(d)'
    BY <1>1, <1>2, <1>3, <1>5 DEF IInv, Settled
  <1>9. \A e \in Reports : e # d /\ Present(e) /\ report'[d].origin # None
          => report[e].origin # report'[d].origin
    BY <1>1, <1>2, <1>5 DEF IInv, OneReportPerIncident
  <1> QED BY <1>1, <1>3, <1>6, <1>7, <1>8, <1>9, Commits

\* An update and the resolution derived with it are committed.
LEMMA CommitUpdateKeeps ==
  ASSUME IInv, TypeOK', NEW r \in Requests, CommitUpdate(r)
  PROVE  IInv'
  <1>0. PICK t, d : t = request[r] /\ d = t.report
    OBVIOUS
  <1>1. /\ t \in Transaction \cup {Idle, Refused} /\ t.op = "resolve" /\ Busy(r) /\ Writes(r)
        /\ d \in Reports /\ t.update \in Updates /\ t.row \in Update \cup {None}
        /\ t.resolvedAt \in Times \cup {None}
    BY <1>0, TransactionFields DEF IInv, TypeOK, CommitUpdate, Busy, Writes
  <1>2. /\ Present(d)
        /\ update[t.update] # None => update[t.update].report = d
        /\ t.row # None => t.row.report = d
        /\ t.row = None => UpdatesOf(update, d) \ {t.update} # {}
        /\ t.resolvedAt = DeriveResolvedAt([update EXCEPT ![t.update] = t.row], d)
    BY <1>0, <1>1 DEF IInv, RequestSound, WriteSound, ResolutionSound
  <1>3. /\ report' = [report EXCEPT ![d].resolvedAt = t.resolvedAt]
        /\ update' = [update EXCEPT ![t.update] = t.row]
        /\ request' = [request EXCEPT ![r] = Idle]
    BY <1>0, <1>2 DEF CommitUpdate
  <1>4. /\ report'[d] = [report[d] EXCEPT !.resolvedAt = t.resolvedAt] /\ report[d] \in Report
        /\ \A e \in Reports : e # d => report'[e] = report[e]
        /\ update'[t.update] = t.row
        /\ \A u \in Updates : u # t.update => update'[u] = update[u]
    BY <1>1, <1>2, <1>3 DEF IInv, TypeOK, Present
  <1>5. /\ report'[d].startsAt = report[d].startsAt /\ report'[d].endsAt = report[d].endsAt
        /\ report'[d].type = report[d].type /\ report'[d].origin = report[d].origin
        /\ report'[d].resolvedAt = DeriveResolvedAt(update', d)
    <2>1. report'[d].resolvedAt = t.resolvedAt
      BY <1>4 DEF Report
    <2>2. t.resolvedAt = DeriveResolvedAt(update', d)
      BY <1>2, <1>3
    <2> QED BY <1>4, <2>1, <2>2 DEF Report
  <1>6. Present(d)'
    <2>1. [report[d] EXCEPT !.resolvedAt = t.resolvedAt] \in Report
      BY <1>1, <1>4 DEF Report
    <2> QED BY <1>4, <2>1, NoneIsNoRow DEF Present
  <1>7. TouchesOnly(r, d)
    <2>1. \A s \in Requests : request[s].op = "promote" => report[d].origin # request[s].new.origin
      BY <1>1, <1>2 DEF IInv, RequestSound, PromotionSound, Promoted
    <2>2. ASSUME NEW s \in Requests, s # r
          PROVE  /\ Busy(s) => request[s].report # d
                 /\ Writes(s) => update'[request[s].update] = update[request[s].update]
      <3>1. request[s] \in Transaction \cup {Idle, Refused}
        BY DEF IInv, TypeOK
      <3>2. /\ Busy(s) => request[s].report # d
            /\ Writes(s) => request[s].update # t.update
        BY <1>0, <1>1, <2>2 DEF IInv, Exclusive
      <3> QED BY <1>4, <3>1, <3>2, TransactionFields DEF Writes
    <2> QED BY <1>2, <1>4, <1>5, <2>1, <2>2 DEF TouchesOnly
  <1>8. Settled(d)'
    <2>1. UpdatesOf(update', d) # {}
      <3>1. CASE t.row = None
        BY <1>2, <1>4, <3>1 DEF UpdatesOf
      <3>2. CASE t.row # None
        BY <1>1, <1>2, <1>4, <3>2 DEF UpdatesOf
      <3> QED BY <3>1, <3>2
    <2> QED BY <1>1, <1>2, <1>5, <2>1 DEF IInv, Settled
  <1>9. \A e \in Reports : e # d /\ Present(e) /\ report'[d].origin # None
          => report[e].origin # report'[d].origin
    BY <1>1, <1>2, <1>5 DEF IInv, OneReportPerIncident
  <1> QED BY <1>1, <1>3, <1>6, <1>7, <1>8, <1>9, Commits
-----------------------------------------------------------------------------
(* The beginnings of transactions *)

\* A promotion finds its report or begins a draft.
LEMMA PromoteKeeps ==
  ASSUME IInv, TypeOK', NEW r \in Requests, NEW d \in Reports, NEW u \in Updates, NEW i \in Incidents,
         PromoteIncident(r, i, d, u)
  PROVE  IInv'
  <1>1. CASE Promoted(i)
    BY <1>1, Leaves DEF PromoteIncident, Refuse, Begin
  <1>2. CASE ~Promoted(i)
    <2>1. PICK at \in Times :
            Begin(r, [op |-> "promote", report |-> d, update |-> u,
                      new |-> [type |-> "incident", startsAt |-> at, endsAt |-> None,
                               published |-> FALSE, resolvedAt |-> None, origin |-> i],
                      row |-> [report |-> d, resolves |-> FALSE, publishedAt |-> at]])
      BY <1>2 DEF PromoteIncident, Draft
    <2>2. PICK t : t = [op |-> "promote", report |-> d, update |-> u,
                        new |-> [type |-> "incident", startsAt |-> at, endsAt |-> None,
                                 published |-> FALSE, resolvedAt |-> None, origin |-> i],
                        row |-> [report |-> d, resolves |-> FALSE, publishedAt |-> at]]
      OBVIOUS
    <2>3. request' = [request EXCEPT ![r] = t] /\ UNCHANGED <<report, update>>
      BY <2>1, <2>2 DEF Begin, PromoteIncident
    <2>4. request'[r] = t
      BY <2>3 DEF IInv, TypeOK
    <2>5. /\ ~Present(d) /\ update[u] = None
          /\ \A s \in Requests : Busy(s) => request[s].report # d
          /\ \A s \in Requests : Writes(s) => request[s].update # u
          /\ \A s \in Requests : request[s].op = "promote" => request[s].new.origin # i
      BY <1>2 DEF PromoteIncident, Draft, NewReport, NewUpdate, Held
    <2>6. RequestSound(r)'
      BY <1>2, <2>2, <2>3, <2>4, <2>5, NoneAssumption
      DEF RequestSound, PromotionSound, PatchSound, WriteSound, ResolutionSound, Present, Promoted
    <2>7. \A s \in Requests : s # r =>
            /\ Busy(r)' /\ Busy(s) => t.report # request[s].report
            /\ Writes(r)' /\ Writes(s) => t.update # request[s].update
            /\ t.op = "promote" /\ request[s].op = "promote"
                 => t.new.origin # request[s].new.origin
      BY <2>2, <2>5
    <2> QED BY <2>3, <2>6, <2>7, Begins
  <1> QED BY <1>1, <1>2

\* A patch is refused or begins with the window it gives.
LEMMA PatchKeeps ==
  ASSUME IInv, TypeOK', NEW r \in Requests, NEW d \in Reports, UpdateStatusReport(r, d)
  PROVE  IInv'
  <1>1. CASE Refuse(r)
    BY <1>1, Leaves DEF UpdateStatusReport, Refuse, Begin
  <1>2. CASE ~Refuse(r)
    <2>1. PICK given \in SUBSET {"startsAt", "endsAt"}, startsAt \in Times, endsAt \in Times \cup {None} :
            /\ "startsAt" \notin given => startsAt = report[d].startsAt
            /\ "endsAt" \notin given => endsAt = report[d].endsAt
            /\ MayPatch(d, given, startsAt, endsAt)
            /\ Begin(r, [op |-> "patch", report |-> d, given |-> given,
                         startsAt |-> startsAt, endsAt |-> endsAt])
      BY <1>2 DEF UpdateStatusReport
    <2>2. PICK t : t = [op |-> "patch", report |-> d, given |-> given,
                        startsAt |-> startsAt, endsAt |-> endsAt]
      OBVIOUS
    <2>3. request' = [request EXCEPT ![r] = t] /\ UNCHANGED <<report, update>>
      BY <2>1, <2>2 DEF Begin, UpdateStatusReport
    <2>4. request'[r] = t
      BY <2>3 DEF IInv, TypeOK
    <2>5. Present(d) /\ \A s \in Requests : Busy(s) => request[s].report # d
      BY <1>2 DEF UpdateStatusReport, Free, Held
    <2>6. report[d].type = "incident" => endsAt = None
      BY <2>1, <2>5 DEF MayPatch, IInv, Settled
    <2>7. RequestSound(r)'
      BY <2>1, <2>2, <2>3, <2>4, <2>5, <2>6
      DEF RequestSound, PromotionSound, PatchSound, WriteSound, ResolutionSound, Present, MayPatch
    <2>8. \A s \in Requests : s # r =>
            /\ Busy(r)' /\ Busy(s) => t.report # request[s].report
            /\ Writes(r)' /\ Writes(s) => t.update # request[s].update
            /\ t.op = "promote" /\ request[s].op = "promote"
                 => t.new.origin # request[s].new.origin
      BY <2>2, <2>4, <2>5 DEF Writes
    <2> QED BY <2>3, <2>7, <2>8, Begins
  <1> QED BY <1>1, <1>2

\* A write of an update begins on a report nobody else holds.
LEMMA WriteKeeps ==
  ASSUME IInv, TypeOK', NEW r \in Requests, NEW d \in Reports, NEW u \in Updates,
         NEW row \in Update \cup {None}, Free(d), Present(d), Write(r, d, u, row),
         UNCHANGED <<report, update>>,
         NewUpdate(u) \/ u \in UpdatesOf(update, d),
         row # None => row.report = d,
         row = None => UpdatesOf(update, d) \ {u} # {}
  PROVE  IInv'
  <1>1. PICK t : t = [op |-> "update", report |-> d, update |-> u, row |-> row]
    OBVIOUS
  <1>2. request' = [request EXCEPT ![r] = t]
    BY <1>1 DEF Write, Begin
  <1>3. request'[r] = t
    BY <1>2 DEF IInv, TypeOK
  <1>4. \A s \in Requests : Busy(s) => request[s].report # d
    BY DEF Free, Held
  <1>5. ASSUME NEW s \in Requests, Writes(s) PROVE request[s].update # u
    <2>1. CASE NewUpdate(u)
      BY <1>5, <2>1 DEF NewUpdate
    <2>2. CASE u \in UpdatesOf(update, d)
      <3>1. request[s] \in Transaction \cup {Idle, Refused}
        BY DEF IInv, TypeOK
      <3>2. Busy(s)
        BY <1>5, <3>1, TransactionFields DEF Writes, Busy
      <3> QED BY <1>4, <1>5, <2>2, <3>2
          DEF IInv, RequestSound, PromotionSound, WriteSound, Writes, UpdatesOf
    <2> QED BY <2>1, <2>2
  <1>6. RequestSound(r)'
    BY <1>1, <1>3
    DEF RequestSound, PromotionSound, PatchSound, WriteSound, ResolutionSound, Present,
        NewUpdate, UpdatesOf
  <1>7. \A s \in Requests : s # r =>
          /\ Busy(r)' /\ Busy(s) => t.report # request[s].report
          /\ Writes(r)' /\ Writes(s) => t.update # request[s].update
          /\ t.op = "promote" /\ request[s].op = "promote"
               => t.new.origin # request[s].new.origin
    BY <1>1, <1>4, <1>5
  <1> QED BY <1>2, <1>6, <1>7, Begins

\* Updates are added, edited and deleted under the report's lock.
LEMMA UpdatesKeep ==
  ASSUME IInv, TypeOK', NEW r \in Requests, NEW d \in Reports, NEW u \in Updates,
         AddReportUpdate(r, d, u) \/ EditReportUpdate(r, d, u) \/ DeleteReportUpdate(r, d, u)
  PROVE  IInv'
  <1>0. UNCHANGED <<report, update>> /\ Free(d)
    BY DEF AddReportUpdate, EditReportUpdate, DeleteReportUpdate
  <1>1. CASE Refuse(r)
    BY <1>0, <1>1, Leaves DEF Refuse, Begin
  <1>2. CASE ~Refuse(r)
    <2>1. PICK row \in Update \cup {None} :
            /\ Present(d) /\ Write(r, d, u, row)
            /\ NewUpdate(u) \/ u \in UpdatesOf(update, d)
            /\ row # None => row.report = d
            /\ row = None => UpdatesOf(update, d) \ {u} # {}
      BY <1>2, NoneIsNoRow DEF AddReportUpdate, EditReportUpdate, DeleteReportUpdate
    <2> QED BY <1>0, <2>1, WriteKeeps
  <1> QED BY <1>1, <1>2

\* The resolution is derived while the report is still held.
LEMMA RecomputeKeeps ==
  ASSUME IInv, TypeOK', NEW r \in Requests, Recompute(r)
  PROVE  IInv'
  <1>0. PICK t : t = request[r]
    OBVIOUS
  <1>1. /\ t \in Transaction \cup {Idle, Refused} /\ t.op = "update" /\ Busy(r) /\ Writes(r)
        /\ Present(t.report)
    BY <1>0, TransactionFields DEF IInv, TypeOK, Recompute, Busy, Writes, RequestSound, WriteSound
  <1>2. PICK n : n = [op |-> "resolve", report |-> t.report, update |-> t.update, row |-> t.row,
                      resolvedAt |-> DeriveResolvedAt([update EXCEPT ![t.update] = t.row], t.report)]
    OBVIOUS
  <1>3. request' = [request EXCEPT ![r] = n] /\ UNCHANGED <<report, update>>
    BY <1>0, <1>1, <1>2 DEF Recompute
  <1>4. request'[r] = n
    BY <1>3 DEF IInv, TypeOK
  <1>5. RequestSound(r)'
    <2>1. WriteSound(r)'
      BY <1>0, <1>1, <1>2, <1>3, <1>4 DEF IInv, RequestSound, WriteSound, Present
    <2>2. n.update = t.update /\ n.row = t.row /\ n.report = t.report
      BY <1>2
    <2>3. n.resolvedAt = DeriveResolvedAt([update' EXCEPT ![n.update] = n.row], n.report)
      BY <1>2, <1>3, <2>2
    <2>4. ResolutionSound(r)'
      BY <1>4, <2>3 DEF ResolutionSound
    <2> QED BY <1>2, <1>4, <2>1, <2>4 DEF RequestSound, PromotionSound, PatchSound
  <1>6. \A s \in Requests : s # r =>
          /\ Busy(r)' /\ Busy(s) => n.report # request[s].report
          /\ Writes(r)' /\ Writes(s) => n.update # request[s].update
          /\ n.op = "promote" /\ request[s].op = "promote"
               => n.new.origin # request[s].new.origin
    BY <1>0, <1>1, <1>2 DEF IInv, Exclusive
  <1> QED BY <1>3, <1>5, <1>6, Begins
-----------------------------------------------------------------------------
(* The invariant *)

\* At first there are no reports.
LEMMA InitIInv == Init => IInv
  <1> SUFFICES ASSUME Init PROVE IInv
    OBVIOUS
  <1>1. TypeOK
    BY DEF Init, TypeOK
  <1>2. \A r \in Requests : RequestSound(r) /\ ~Busy(r) /\ ~Writes(r) /\ request[r].op # "promote"
    BY IdleIsSound DEF Init
  <1> QED BY <1>1, <1>2
      DEF Init, IInv, Settled, Present, UpdatesOwned, OneReportPerIncident, Exclusive

\* Every step keeps the invariant.
LEMMA IInvKept == IInv /\ [Next]_vars => IInv'
  <1> SUFFICES ASSUME IInv, [Next]_vars PROVE IInv'
    OBVIOUS
  <1>0. TypeOK'
    BY TypeKept DEF IInv
  <1>1. CASE UNCHANGED vars
    BY <1>1 DEF vars, IInv, TypeOK, Settled, UpdatesOwned, OneReportPerIncident, RequestSound,
        PromotionSound, PatchSound, WriteSound, ResolutionSound, Exclusive, Busy, Writes, Present,
        Promoted
  <1>2. ASSUME NEW r \in Requests, NEW d \in Reports, NEW u \in Updates,
               \/ CreateStatusReport(r, d, u)
               \/ \E i \in Incidents : PromoteIncident(r, i, d, u)
               \/ AddReportUpdate(r, d, u)
               \/ EditReportUpdate(r, d, u)
               \/ DeleteReportUpdate(r, d, u)
        PROVE  IInv'
    BY <1>0, <1>2, CreateKeeps, PromoteKeeps, UpdatesKeep
  <1>3. ASSUME NEW r \in Requests, NEW d \in Reports,
               PublishStatusReport(r, d) \/ DeleteStatusReport(r, d) \/ UpdateStatusReport(r, d)
        PROVE  IInv'
    BY <1>0, <1>3, PublishKeeps, DeleteKeeps, PatchKeeps
  <1>4. ASSUME NEW r \in Requests,
               Recompute(r) \/ CommitPromotion(r) \/ CommitPatch(r) \/ CommitUpdate(r) \/ Die(r)
        PROVE  IInv'
    <2>1. CASE Die(r)
      BY <1>0, <2>1, Leaves DEF Die
    <2> QED BY <1>0, <1>4, <2>1, RecomputeKeeps, CommitPromotionKeeps, CommitPatchKeeps, CommitUpdateKeeps
  <1>5. CASE Next
    BY <1>2, <1>3, <1>4, <1>5, Zenon DEF Next
  <1> QED BY <1>1, <1>5

\* Reports are settled and transactions sound in every reachable state.
THEOREM InvariantHolds == Spec => []IInv
  BY InitIInv, IInvKept, PTL DEF Spec

\* However mutations of a report interleave, die or fail, its resolution is that of its
\* latest update, it keeps an update, and no update outlives it.
THEOREM ReportsStayDerived == Spec => []ReportsMatchUpdates
  <1>1. IInv => ReportsMatchUpdates
    BY DEF IInv, Settled, UpdatesOwned, ReportsMatchUpdates
  <1> QED BY <1>1, InvariantHolds, PTL

\* Concurrent patches of one bound each leave no inverted window.
THEOREM WindowsStayInOrder == Spec => []WindowsInOrder
  <1>1. IInv => WindowsInOrder
    BY DEF IInv, Settled, WindowsInOrder
  <1> QED BY <1>1, InvariantHolds, PTL

\* An incident is promoted once.
THEOREM PromotedOnce == Spec => []OneReportPerIncident
  <1>1. IInv => OneReportPerIncident
    BY DEF IInv
  <1> QED BY <1>1, InvariantHolds, PTL

\* The query's ranking and the classification agree at every instant.
THEOREM OngoingIsKept == Spec => []CutKeepsTheOngoing
  <1>1. ASSUME IInv PROVE CutKeepsTheOngoing
    <2> SUFFICES ASSUME NEW d \in OnPublicPage, NEW e \in OnPublicPage, NEW now \in Times,
                        \/ Phase(d, now) = "ongoing" /\ Phase(e, now) # "ongoing"
                        \/ Phase(d, now) = "upcoming" /\ Phase(e, now) = "window_ended"
                 PROVE  RanksBefore(d, e, now)
      BY DEF CutKeepsTheOngoing
    <2>1. ASSUME NEW c \in OnPublicPage
          PROVE  /\ c \in Reports /\ report[c] \in Report
                 /\ report[c].startsAt \in Nat
                 /\ report[c].endsAt # None =>
                      report[c].endsAt \in Nat /\ report[c].endsAt > report[c].startsAt
                 /\ report[c].type = "incident" => report[c].endsAt = None
                 /\ report[c].type \in {"incident", "maintenance"}
      BY <1>1, OrderAssumption
      DEF OnPublicPage, IInv, TypeOK, Settled, Present, Report, WindowInOrder
    <2>2. now \in Nat
      BY OrderAssumption
    <2>3. Future(d, now) => ~Ended(d, now)
      <3> DEFINE starts == report[d].startsAt
                 ends   == report[d].endsAt
      <3>1. starts \in Nat /\ (ends # None => ends \in Nat /\ ends > starts)
        BY <2>1
      <3>2. ends # None /\ ends <= now => ~(starts > now)
        <4> HIDE DEF starts, ends
        <4> QED BY <2>2, <3>1
      <3> QED BY <3>2 DEF Future, Ended
    <2> QED BY <2>1, <2>2, <2>3 DEF Phase, RanksBefore, Future, Ended
  <1> QED BY <1>1, InvariantHolds, PTL

\* A request that is answered with an error leaves everything as it was.
THEOREM ErrorsLeaveAll == Spec => ErrorsChangeNothing
  <1>1. ASSUME IInv, [Next]_vars
        PROVE  [\A r \in Requests :
                  request'[r] = Refused /\ request[r] # Refused => UNCHANGED <<report, update>>]_vars
    <2> SUFFICES ASSUME Next, NEW r \in Requests, request'[r] = Refused, request[r] # Refused
                 PROVE  UNCHANGED <<report, update>>
      BY <1>1
    <2>0. request \in [Requests -> Transaction \cup {Idle, Refused}] /\ Idle # Refused
      BY <1>1 DEF IInv, TypeOK, Idle, Refused
    <2>1. ASSUME NEW q \in Requests, request' = [request EXCEPT ![q] = Idle] PROVE FALSE
      BY <2>0, <2>1
    <2>2. ASSUME NEW q \in Requests, NEW d \in Reports, NEW u \in Updates,
                 \/ CreateStatusReport(q, d, u)
                 \/ \E i \in Incidents : PromoteIncident(q, i, d, u)
                 \/ AddReportUpdate(q, d, u)
                 \/ EditReportUpdate(q, d, u)
                 \/ DeleteReportUpdate(q, d, u)
          PROVE  UNCHANGED <<report, update>>
      BY <2>1, <2>2
      DEF CreateStatusReport, Begin, PromoteIncident, AddReportUpdate, EditReportUpdate,
          DeleteReportUpdate
    <2>3. ASSUME NEW q \in Requests, NEW d \in Reports,
                 PublishStatusReport(q, d) \/ DeleteStatusReport(q, d) \/ UpdateStatusReport(q, d)
          PROVE  UNCHANGED <<report, update>>
      BY <2>1, <2>3 DEF PublishStatusReport, DeleteStatusReport, UpdateStatusReport, Begin
    <2>4. ASSUME NEW q \in Requests,
                 Recompute(q) \/ CommitPromotion(q) \/ CommitPatch(q) \/ CommitUpdate(q) \/ Die(q)
          PROVE  UNCHANGED <<report, update>>
      <3>1. CASE Recompute(q)
        <4>1. Present(request[q].report)
          BY <1>1, <3>1 DEF IInv, RequestSound, WriteSound, Recompute
        <4> QED BY <3>1, <4>1 DEF Recompute
      <3> QED BY <2>1, <2>4, <3>1 DEF CommitPromotion, CommitPatch, CommitUpdate, Die
    <2> QED BY <2>2, <2>3, <2>4, Zenon DEF Next
  <1> QED BY <1>1, InvariantHolds, PTL DEF Spec, ErrorsChangeNothing
=============================================================================
