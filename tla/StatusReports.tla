---------------------------- MODULE StatusReports ----------------------------
(***************************************************************************)
(* Authored status reports with their timelines                            *)
(* (lib/api/status-reports.ts).  A mutation is one transaction: what it    *)
(* writes is seen by nobody else before it commits, an error of its own is *)
(* recorded as its answer and commits too (runStatusReportMutation), and a *)
(* mutation that dies is rolled back.  A statement sees what is committed  *)
(* when it starts; who has locked a report's row holds it to the end.      *)
(***************************************************************************)
EXTENDS Integers, FiniteSets

CONSTANTS
  Reports,      \* ids of reports
  Updates,      \* ids of updates, in the order that breaks ties
  Incidents,    \* incidents that may be promoted
  Requests,     \* requests that mutate reports
  Times,        \* instants that windows and updates are dated with
  None

ASSUME OrderAssumption == Updates \subseteq Nat /\ Times \subseteq Nat

VARIABLES
  report,   \* status_reports
  update,   \* status_report_updates
  request   \* the transaction each request is in

vars == <<report, update, request>>

\* published: published_at is set.
Report ==
  [type : {"incident", "maintenance"}, startsAt : Times, endsAt : Times \cup {None},
   published : BOOLEAN, resolvedAt : Times \cup {None}, origin : Incidents \cup {None}]

\* resolves: the status is resolved or completed.
Update == [report : Reports, resolves : BOOLEAN, publishedAt : Times]

\* What a transaction writes: a new draft, the given bounds of a window, or one
\* update (None to delete it) and, once recomputed, the resolution.
Transaction ==
  [op : {"promote"}, report : Reports, new : Report, update : Updates, row : Update]
    \cup [op : {"patch"}, report : Reports, given : SUBSET {"startsAt", "endsAt"},
          startsAt : Times, endsAt : Times \cup {None}]
    \cup [op : {"update"}, report : Reports, update : Updates, row : Update \cup {None}]
    \cup [op : {"resolve"}, report : Reports, update : Updates, row : Update \cup {None},
          resolvedAt : Times \cup {None}]

Idle    == [op |-> "idle"]
Refused == [op |-> "refused"]

ASSUME NoneAssumption == None \notin Report \cup Update \cup Times \cup Incidents

TypeOK ==
  /\ report \in [Reports -> Report \cup {None}]
  /\ update \in [Updates -> Update \cup {None}]
  /\ request \in [Requests -> Transaction \cup {Idle, Refused}]

Init ==
  /\ report = [d \in Reports |-> None]
  /\ update = [u \in Updates |-> None]
  /\ request = [r \in Requests |-> Idle]

Present(d) == report[d] # None
Busy(r) == request[r] \notin {Idle, Refused}

UpdatesOf(rows, d) == {u \in Updates : rows[u] # None /\ rows[u].report = d}

\* compareReportUpdates
IsAfter(rows, u, v) ==
  \/ rows[u].publishedAt > rows[v].publishedAt
  \/ rows[u].publishedAt = rows[v].publishedAt /\ u > v

\* latestReportUpdate: the one that is after all others.
LatestUpdates(rows, d) ==
  {u \in UpdatesOf(rows, d) : \A v \in UpdatesOf(rows, d) : u = v \/ IsAfter(rows, u, v)}

ResolvingDates(rows, d) ==
  {rows[u].publishedAt : u \in {v \in LatestUpdates(rows, d) : rows[v].resolves}}

DeriveResolvedAt(rows, d) ==
  IF ResolvingDates(rows, d) = {} THEN None
  ELSE CHOOSE t \in ResolvingDates(rows, d) : TRUE

\* A transaction holds the row of the report.
Held(d) == \E r \in Requests : Busy(r) /\ request[r].report = d

\* Mutant: the row of a report is read without a lock.
Free_NoLock(d) == TRUE

\* SELECT ... FOR UPDATE, UPDATE and DELETE wait for who holds the row.
Free(d) == ~Held(d)

\* Ids nothing refers to stand for new ones.
NewReport(d) == ~Present(d) /\ ~Held(d)
Writes(r) == request[r].op \in {"promote", "update", "resolve"}
NewUpdate(u) ==
  /\ update[u] = None
  /\ \A r \in Requests : Writes(r) => request[r].update # u

Begin(r, transaction) == ~Busy(r) /\ request' = [request EXCEPT ![r] = transaction]
Refuse(r) == Begin(r, Refused)
-----------------------------------------------------------------------------
(* Mutations of one statement, or of rows nobody else can know *)

WindowInOrder(startsAt, endsAt) == endsAt # None => endsAt > startsAt

CreateStatusReport(r, d, u) ==
  /\ NewReport(d) /\ NewUpdate(u)
  /\ \E new \in Report, row \in Update :
       /\ new.origin = None
       /\ new.type = "incident" => new.endsAt = None
       /\ WindowInOrder(new.startsAt, new.endsAt)
       /\ row.report = d
       /\ update' = [update EXCEPT ![u] = row]
       /\ new.resolvedAt = DeriveResolvedAt(update', d)
       /\ report' = [report EXCEPT ![d] = new]
  /\ Begin(r, Idle)

PublishStatusReport(r, d) ==
  /\ Free(d)
  /\ IF Present(d) /\ ~report[d].published
     THEN report' = [report EXCEPT ![d].published = TRUE] /\ Begin(r, Idle)
     ELSE Refuse(r) /\ UNCHANGED report
  /\ UNCHANGED update

\* The updates go with their report.
DeleteStatusReport(r, d) ==
  /\ Free(d)
  /\ IF Present(d)
     THEN /\ report' = [report EXCEPT ![d] = None]
          /\ update' = [u \in Updates |-> IF u \in UpdatesOf(update, d) THEN None ELSE update[u]]
          /\ Begin(r, Idle)
     ELSE Refuse(r) /\ UNCHANGED <<report, update>>
-----------------------------------------------------------------------------
(* Promotion of an incident *)

Promoted(i) == \E d \in Reports : Present(d) /\ report[d].origin = i

\* The report is a draft with one update, both dated when the incident opened.
Draft(r, i, d, u) ==
  /\ NewReport(d) /\ NewUpdate(u)
  /\ \E at \in Times :
       Begin(r, [op |-> "promote", report |-> d, update |-> u,
                 new |-> [type |-> "incident", startsAt |-> at, endsAt |-> None,
                          published |-> FALSE, resolvedAt |-> None, origin |-> i],
                 row |-> [report |-> d, resolves |-> FALSE, publishedAt |-> at]])

\* Mutant: the incident's report is looked for, and no index stops a second one.
PromoteIncident_LooksFirst(r, i, d, u) ==
  /\ IF Promoted(i) THEN Begin(r, Idle) \/ Refuse(r) ELSE Draft(r, i, d, u)
  /\ UNCHANGED <<report, update>>

\* The insert waits for another of the same incident.  A report that was there is
\* returned, unless it is deleted before it is read.
PromoteIncident(r, i, d, u) ==
  /\ \A s \in Requests : request[s].op = "promote" => request[s].new.origin # i
  /\ IF Promoted(i) THEN Begin(r, Idle) \/ Refuse(r) ELSE Draft(r, i, d, u)
  /\ UNCHANGED <<report, update>>
-----------------------------------------------------------------------------
(* Mutations that lock the report first *)

\* assertNoIncidentWindow and the window the patch gives the locked row.
MayPatch(d, given, startsAt, endsAt) ==
  /\ report[d].type = "incident" /\ "endsAt" \in given => endsAt = None
  /\ WindowInOrder(startsAt, endsAt)

UpdateStatusReport(r, d) ==
  /\ Free(d)
  /\ \/ ~Present(d) /\ Refuse(r)
     \/ /\ Present(d)
        /\ \E given \in SUBSET {"startsAt", "endsAt"}, startsAt \in Times, endsAt \in Times \cup {None} :
             /\ "startsAt" \notin given => startsAt = report[d].startsAt
             /\ "endsAt" \notin given => endsAt = report[d].endsAt
             /\ IF MayPatch(d, given, startsAt, endsAt)
                THEN Begin(r, [op |-> "patch", report |-> d, given |-> given,
                               startsAt |-> startsAt, endsAt |-> endsAt])
                ELSE Refuse(r)
  /\ UNCHANGED <<report, update>>

Write(r, d, u, row) ==
  Begin(r, [op |-> "update", report |-> d, update |-> u, row |-> row])

AddReportUpdate(r, d, u) ==
  /\ Free(d)
  /\ IF Present(d)
     THEN NewUpdate(u) /\ \E row \in Update : row.report = d /\ Write(r, d, u, row)
     ELSE Refuse(r)
  /\ UNCHANGED <<report, update>>

EditReportUpdate(r, d, u) ==
  /\ Free(d)
  /\ IF Present(d) /\ u \in UpdatesOf(update, d)
     THEN \E row \in Update : row.report = d /\ Write(r, d, u, row)
     ELSE Refuse(r)
  /\ UNCHANGED <<report, update>>

\* Mutant: what is left is counted after the update was deleted.
DeleteReportUpdate_ThenCounts(r, d, u) ==
  /\ Free(d)
  /\ \/ /\ Present(d) /\ u \in UpdatesOf(update, d) /\ UpdatesOf(update, d) # {u}
        /\ Write(r, d, u, None)
        /\ UNCHANGED update
     \/ /\ UpdatesOf(update, d) = {u}
        /\ update' = [update EXCEPT ![u] = None]
        /\ Refuse(r)
  /\ UNCHANGED report

\* Neither an update that is missing nor the last one can be deleted.
DeleteReportUpdate(r, d, u) ==
  /\ Free(d)
  /\ IF Present(d) /\ u \in UpdatesOf(update, d) /\ UpdatesOf(update, d) # {u}
     THEN Write(r, d, u, None)
     ELSE Refuse(r)
  /\ UNCHANGED <<report, update>>

\* recomputeResolution.  It runs under the same lock; a report it does not find is
\* an answer, and what was written before stands.
Recompute(r) ==
  /\ request[r].op = "update"
  /\ LET t       == request[r]
         written == [update EXCEPT ![t.update] = t.row]
     IN IF Present(t.report)
        THEN /\ request' = [request EXCEPT ![r] =
                  [op |-> "resolve", report |-> t.report, update |-> t.update, row |-> t.row,
                   resolvedAt |-> DeriveResolvedAt(written, t.report)]]
             /\ UNCHANGED update
        ELSE /\ request' = [request EXCEPT ![r] = Refused]
             /\ update' = written
  /\ UNCHANGED report
-----------------------------------------------------------------------------
(* The end of a transaction *)

CommitPromotion(r) ==
  /\ request[r].op = "promote"
  /\ report' = [report EXCEPT ![request[r].report] = request[r].new]
  /\ update' = [update EXCEPT ![request[r].update] = request[r].row]
  /\ request' = [request EXCEPT ![r] = Idle]

\* Only the bounds that were given are set.
Patched(row, patch) ==
  [row EXCEPT !.startsAt = IF "startsAt" \in patch.given THEN patch.startsAt ELSE @,
              !.endsAt   = IF "endsAt" \in patch.given THEN patch.endsAt ELSE @]

CommitPatch(r) ==
  /\ request[r].op = "patch"
  /\ LET d == request[r].report
     IN report' = IF Present(d) THEN [report EXCEPT ![d] = Patched(@, request[r])] ELSE report
  /\ request' = [request EXCEPT ![r] = Idle]
  /\ UNCHANGED update

CommitUpdate(r) ==
  /\ request[r].op = "resolve"
  /\ LET d == request[r].report
     IN report' = IF Present(d) THEN [report EXCEPT ![d].resolvedAt = request[r].resolvedAt]
                  ELSE report
  /\ update' = [update EXCEPT ![request[r].update] = request[r].row]
  /\ request' = [request EXCEPT ![r] = Idle]

\* The request fails or its process is killed.
Die(r) ==
  /\ Busy(r)
  /\ request' = [request EXCEPT ![r] = Idle]
  /\ UNCHANGED <<report, update>>

Next ==
  \E r \in Requests :
    \/ \E d \in Reports :
         \/ \E u \in Updates :
              \/ CreateStatusReport(r, d, u)
              \/ \E i \in Incidents : PromoteIncident(r, i, d, u)
              \/ AddReportUpdate(r, d, u)
              \/ EditReportUpdate(r, d, u)
              \/ DeleteReportUpdate(r, d, u)
         \/ PublishStatusReport(r, d) \/ DeleteStatusReport(r, d) \/ UpdateStatusReport(r, d)
    \/ Recompute(r)
    \/ CommitPromotion(r)
    \/ CommitPatch(r)
    \/ CommitUpdate(r)
    \/ Die(r)

Spec == Init /\ [][Next]_vars
-----------------------------------------------------------------------------
(* The public page *)

\* classifyPublicReport, in the order the page shows the phases of what is unresolved.
Phase(d, now) ==
  IF report[d].startsAt > now THEN "upcoming"
  ELSE IF report[d].type = "maintenance" /\ report[d].endsAt # None /\ report[d].endsAt <= now
  THEN "window_ended" ELSE "ongoing"

Ended(d, now)  == report[d].endsAt # None /\ report[d].endsAt <= now
Future(d, now) == report[d].startsAt > now

\* The query that takes the first unresolved reports ranks d before e.
RanksBefore(d, e, now) ==
  IF Ended(d, now) # Ended(e, now) THEN Ended(e, now)
  ELSE IF Future(d, now) # Future(e, now) THEN Future(e, now)
  ELSE IF Future(d, now) THEN report[d].startsAt < report[e].startsAt
  ELSE report[d].startsAt > report[e].startsAt

OnPublicPage == {d \in Reports : Present(d) /\ report[d].published /\ report[d].resolvedAt = None}
-----------------------------------------------------------------------------
(* Safety *)

\* The resolution of a report is that of its latest update, however updates of one
\* report are added, edited, backdated and deleted at the same time; a report keeps an
\* update and no update outlives its report (recomputeResolution, deleteUpdate).
ReportsMatchUpdates ==
  /\ \A d \in Reports : Present(d) =>
       UpdatesOf(update, d) # {} /\ report[d].resolvedAt = DeriveResolvedAt(update, d)
  /\ \A u \in Updates : update[u] # None => Present(update[u].report)

\* A window ends after it starts, though its bounds are patched by requests that each
\* give one of them (updateReport).
WindowsInOrder ==
  \A d \in Reports : Present(d) => WindowInOrder(report[d].startsAt, report[d].endsAt)

\* An incident has one report, whoever promotes it and however often (promoteIncident).
OneReportPerIncident ==
  \A d, e \in Reports :
    Present(d) /\ Present(e) /\ report[d].origin # None /\ report[d].origin = report[e].origin
      => d = e

\* The query that cuts off the unresolved reports and the classification agree: what is
\* ongoing ranks before what is upcoming and this before windows that ended, so that
\* only the last of these can be cut off in favour of another (getPublicReportRows).
CutKeepsTheOngoing ==
  \A d, e \in OnPublicPage, now \in Times :
    \/ Phase(d, now) = "ongoing" /\ Phase(e, now) # "ongoing"
    \/ Phase(d, now) = "upcoming" /\ Phase(e, now) = "window_ended"
    => RanksBefore(d, e, now)

\* A request that is answered with an error has changed nothing, though the error is
\* committed with whatever was done before it (runStatusReportMutation).
ErrorsChangeNothing ==
  [][\A r \in Requests :
       request'[r] = Refused /\ request[r] # Refused => UNCHANGED <<report, update>>]_vars
=============================================================================
