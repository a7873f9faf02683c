------------------------------- MODULE Access -------------------------------
(***************************************************************************)
(* Who may act (lib/auth, lib/api/account.ts, lib/api/device-              *)
(* authorization.ts): the people of an install and their roles, and the    *)
(* command line clients an administrator links by approving a device code. *)
(* A client polls with its code and is given a session of its installation.*)
(*                                                                         *)
(* Transactions that change roles, emails or credentials exclude each      *)
(* other by the advisory lock of machine credentials.  Role changes,       *)
(* removals and changes of email take the lock of team roles just before   *)
(* it and read nothing in between, so one lock stands for both.  A role    *)
(* change or a removal is two steps, what it reads and what it writes from *)
(* it; a poll is two steps, up to its wait for the lock and from there.    *)
(*                                                                         *)
(* An authorization's ten minutes may be over at any time: what finds an   *)
(* elapsed row is Expire, then what finds an expired one.  Deleted rows    *)
(* count as expired.  Left out: invites (a person may join at any time in  *)
(* either role), human sessions (an administrator acts while one), API     *)
(* tokens, the pace of polls, and credential epochs, which nothing raises. *)
(***************************************************************************)
EXTENDS Integers, FiniteSets

CONSTANTS
  People,    \* ids of admin_users rows, never used twice
  Emails,
  Devices,   \* installation keys
  Codes,     \* device authorizations
  DeviceOf,  \* the installation key each of Codes was started with
  Polls,     \* idempotency keys of polls: a retry keeps its key
  CodeOf,    \* the code each of Polls is for
  Requests,  \* team requests in flight
  None

ASSUME DevicesAssumption == DeviceOf \in [Codes -> Devices]
ASSUME CodesAssumption == CodeOf \in [Polls -> Codes]
VARIABLES
  person,        \* admin_users
  installation,  \* cli_installations
  session,       \* cli_sessions, by the poll that was given it
  authorization, \* state of device_authorizations
  poll,          \* "waiting" holds the row lock of its authorization
  request,       \* what a team request has read
  lock           \* the team request that holds the advisory locks

vars == <<person, installation, session, authorization, poll, request, lock>>

Person       == [role : {"admin", "viewer"}, email : Emails]
Installation == [owner : People \cup {None}, email : Emails, revoked : BOOLEAN]
Session      == [email : Emails, revoked : BOOLEAN]
\* role is the one to give, or, for a change of email, the one the person has.
Request ==
  [op : {"remove"}, person : People, role : {None}, email : Emails, next : Emails]
  \cup [op : {"role", "email"}, person : People, role : {"admin", "viewer"},
        email : Emails, next : Emails]

ASSUME NoneAssumption ==
  None \notin People \cup Requests \cup Person \cup Installation \cup Session \cup Request

TypeOK ==
  /\ person \in [People -> Person \cup {None}]
  /\ installation \in [Devices -> Installation \cup {None}]
  /\ session \in [Polls -> Session \cup {None}]
  /\ authorization \in
       [Codes -> {"none", "pending", "approved", "denied", "consumed", "expired"}]
  /\ poll \in [Polls -> {"idle", "waiting", "refused"}]
  /\ request \in [Requests -> Request \cup {None}]
  /\ lock \in Requests \cup {None}

Init ==
  /\ person = [p \in People |-> None]
  /\ installation = [d \in Devices |-> None]
  /\ session = [k \in Polls |-> None]
  /\ authorization = [c \in Codes |-> "none"]
  /\ poll = [k \in Polls |-> "idle"]
  /\ request = [r \in Requests |-> None]
  /\ lock = None

Present(p) == person[p] # None
IsAdmin(p) == Present(p) /\ person[p].role = "admin"
Another(p) == \E q \in People \ {p} : IsAdmin(q)
Free(email) == \A p \in People : Present(p) => person[p].email # email

Linked(d) == installation[d] # None /\ ~installation[d].revoked
Issued(k) == session[k] # None
DeviceIn(k) == DeviceOf[CodeOf[k]]
\* What authenticates a request: findCliSession joins the three rows.
Live(k) ==
  /\ Issued(k) /\ ~session[k].revoked
  /\ Linked(DeviceIn(k)) /\ installation[DeviceIn(k)].owner # None
-----------------------------------------------------------------------------
(* Revocations, all of them under the lock *)

RevokedInstallations(D) ==
  [d \in Devices |->
     IF installation[d] # None /\ d \in D
     THEN [installation[d] EXCEPT !.revoked = TRUE] ELSE installation[d]]

RevokedSessions(K) ==
  [k \in Polls |->
     IF Issued(k) /\ k \in K THEN [session[k] EXCEPT !.revoked = TRUE] ELSE session[k]]

\* An installation is revoked with its sessions: one of them, or all.
RevokeInstallations(D) ==
  /\ lock = None
  /\ installation' = RevokedInstallations(D)
  /\ session' = RevokedSessions({k \in Polls : DeviceIn(k) \in D})
  /\ UNCHANGED <<person, authorization, poll, request, lock>>

DevicesOf(p) ==
  {d \in Devices : installation[d] # None /\
     (installation[d].owner = p \/ installation[d].email = person[p].email)}

\* A change of password revokes the installations of the person.
ChangePassword(p) == Present(p) /\ RevokeInstallations(DevicesOf(p))
-----------------------------------------------------------------------------
(* People *)

\* The first administrator, under a lock of its own: nobody else is there.
CreateOnlyAdmin(p, email) ==
  /\ \A q \in People : ~Present(q)
  /\ person' = [person EXCEPT ![p] = [role |-> "admin", email |-> email]]
  /\ UNCHANGED <<installation, session, authorization, poll, request, lock>>

\* An invite is accepted, under no lock.  An id nothing refers to stands for a new one.
AcceptInvite(p, role, email) ==
  /\ \E q \in People : Present(q)
  /\ ~Present(p) /\ Free(email)
  /\ \A r \in Requests : request[r] # None => request[r].person # p
  /\ person' = [person EXCEPT ![p] = [role |-> role, email |-> email]]
  /\ UNCHANGED <<installation, session, authorization, poll, request, lock>>

\* What a role change or a removal finds once it has the locks.
MayChange(p, role) ==
  /\ Present(p) /\ person[p].role # role
  /\ IsAdmin(p) => Another(p)

\* Mutant: a role change or a removal does not wait for the locks.
DecideChange_Unlocked(r, p, role) ==
  /\ request[r] = None
  /\ MayChange(p, role)
  /\ request' = [request EXCEPT ![r] =
       [op |-> IF role = None THEN "remove" ELSE "role", person |-> p, role |-> role,
        email |-> person[p].email, next |-> person[p].email]]
  /\ lock' = r
  /\ UNCHANGED <<person, installation, session, authorization, poll>>

DecideChange(r, p, role) ==
  /\ request[r] = None
  /\ lock = None
  /\ MayChange(p, role)
  /\ request' = [request EXCEPT ![r] =
       [op |-> IF role = None THEN "remove" ELSE "role", person |-> p, role |-> role,
        email |-> person[p].email, next |-> person[p].email]]
  /\ lock' = r
  /\ UNCHANGED <<person, installation, session, authorization, poll>>

Finished(r) ==
  /\ request' = [request EXCEPT ![r] = None]
  /\ lock' = IF lock = r THEN None ELSE lock
  /\ UNCHANGED <<authorization, poll>>

\* Everything a person holds, found by email.
RevokeIssuedCredentials(email) ==
  /\ installation' =
       RevokedInstallations({d \in Devices : Linked(d) /\ installation[d].email = email})
  /\ session' = RevokedSessions({k \in Polls : Issued(k) /\ session[k].email = email})

ChangeUserRole(r) ==
  LET q == request[r] IN
  /\ q # None /\ q.op = "role"
  /\ person' = [p \in People |->
       IF p = q.person /\ Present(p) THEN [person[p] EXCEPT !.role = q.role] ELSE person[p]]
  /\ IF q.role = "viewer" THEN RevokeIssuedCredentials(q.email)
                          ELSE UNCHANGED <<installation, session>>
  /\ Finished(r)

\* Removing a user also sets user_id to null where it is theirs (the foreign key).
RemoveUser(r) ==
  LET q == request[r]
      held == RevokedInstallations(
                {d \in Devices : Linked(d) /\ installation[d].email = q.email})
  IN  /\ q # None /\ q.op = "remove"
      /\ person' = [person EXCEPT ![q.person] = None]
      /\ installation' =
           [d \in Devices |->
              IF held[d] # None /\ held[d].owner = q.person
              THEN [held[d] EXCEPT !.owner = None] ELSE held[d]]
      /\ session' = RevokedSessions({k \in Polls : Issued(k) /\ session[k].email = q.email})
      /\ Finished(r)

\* The old email is read before the password is verified, under no lock.
AskEmail(r, p, email) ==
  /\ request[r] = None
  /\ Present(p) /\ email # person[p].email
  /\ request' = [request EXCEPT ![r] =
       [op |-> "email", person |-> p, role |-> person[p].role,
        email |-> person[p].email, next |-> email]]
  /\ UNCHANGED <<person, installation, session, authorization, poll, lock>>

\* The rows that carry an email get the new one, revoked or not.
RenamedRows(rows, old, new) ==
  [i \in DOMAIN rows |->
     IF rows[i] # None /\ rows[i].email = old
     THEN [rows[i] EXCEPT !.email = new] ELSE rows[i]]

\* A conflict or a duplicate email changes nothing.
ApplyEmailChange(r) ==
  LET q == request[r] IN
  /\ q # None /\ q.op = "email"
  /\ lock = None
  /\ IF Present(q.person) /\ person[q.person].email = q.email /\ Free(q.next)
     THEN /\ person' = [person EXCEPT ![q.person].email = q.next]
          /\ installation' = RenamedRows(installation, q.email, q.next)
          /\ session' = RenamedRows(session, q.email, q.next)
     ELSE UNCHANGED <<person, installation, session>>
  /\ Finished(r)

\* A request that dies rolls back and frees its locks.
RequestDies(r) ==
  /\ request[r] # None
  /\ Finished(r)
  /\ UNCHANGED <<person, installation, session>>
-----------------------------------------------------------------------------
(* Device authorizations *)

Move(c, from, to) ==
  /\ authorization[c] = from
  /\ authorization' = [authorization EXCEPT ![c] = to]

Start(c) ==
  /\ Move(c, "none", "pending")
  /\ UNCHANGED <<person, installation, session, poll, request, lock>>

\* Mutant: the update of the authorization does not look at its state.
Approve_AnyState(p, c) ==
  /\ lock = None
  /\ IsAdmin(p)
  /\ authorization' = [authorization EXCEPT ![c] = "approved"]
  /\ installation' = [installation EXCEPT ![DeviceOf[c]] =
       [owner |-> p, email |-> person[p].email, revoked |-> FALSE]]
  /\ UNCHANGED <<person, session, poll, request, lock>>

\* The installation is the approver's from here, and live again if it was revoked.
Approve(p, c) ==
  /\ lock = None
  /\ IsAdmin(p)
  /\ Move(c, "pending", "approved")
  /\ installation' = [installation EXCEPT ![DeviceOf[c]] =
       [owner |-> p, email |-> person[p].email, revoked |-> FALSE]]
  /\ UNCHANGED <<person, session, poll, request, lock>>

Deny(c) ==
  /\ Move(c, "pending", "denied")
  /\ UNCHANGED <<person, installation, session, poll, request, lock>>

RowLocked(c) == \E k \in Polls : CodeOf[k] = c /\ poll[k] = "waiting"

\* expireStaleDeviceAuthorizations, the maintenance task, or a poll.
Expire(c) ==
  /\ ~RowLocked(c)
  /\ \E from \in {"pending", "approved"} : Move(c, from, "expired")
  /\ UNCHANGED <<person, installation, session, poll, request, lock>>
-----------------------------------------------------------------------------
(* Polls *)

\* A poll with its key's first answer.  A retry of an answered key changes nothing:
\* it is told the same error, or given its session again while that is live.
Unanswered(k) == poll[k] = "idle" /\ ~Issued(k)

\* Any state but approved is an error; that a code was consumed is answered by expiry.
PollRefused(k) ==
  LET c == CodeOf[k] IN
  /\ Unanswered(k) /\ ~RowLocked(c)
  /\ authorization[c] # "approved"
  /\ poll' = [poll EXCEPT ![k] = "refused"]
  /\ authorization' = [authorization EXCEPT ![c] = IF @ = "consumed" THEN "expired" ELSE @]
  /\ UNCHANGED <<person, installation, session, request, lock>>

\* Approved: the poll keeps its row lock and waits for the lock of credentials.
PollApproved(k) ==
  /\ Unanswered(k) /\ ~RowLocked(CodeOf[k])
  /\ authorization[CodeOf[k]] = "approved"
  /\ poll' = [poll EXCEPT ![k] = "waiting"]
  /\ UNCHANGED <<person, installation, session, authorization, request, lock>>

\* Mutant: a poll does not look again whether its installation was revoked.
PollIssues_Unchecked(k) ==
  LET d == DeviceIn(k) IN
  /\ poll[k] = "waiting" /\ lock = None
  /\ Move(CodeOf[k], "approved", "consumed")
  /\ session' = [session EXCEPT ![k] = [email |-> installation[d].email, revoked |-> FALSE]]
  /\ poll' = [poll EXCEPT ![k] = "idle"]
  /\ UNCHANGED <<person, installation, request, lock>>

\* With the lock: the installation may be gone, and else gets its session.
PollIssues(k) ==
  LET d == DeviceIn(k) IN
  /\ poll[k] = "waiting" /\ lock = None
  /\ IF Linked(d)
     THEN /\ Move(CodeOf[k], "approved", "consumed")
          /\ session' = [session EXCEPT ![k] =
               [email |-> installation[d].email, revoked |-> FALSE]]
          /\ poll' = [poll EXCEPT ![k] = "idle"]
     ELSE /\ poll' = [poll EXCEPT ![k] = "refused"]
          /\ UNCHANGED <<session, authorization>>
  /\ UNCHANGED <<person, installation, request, lock>>

PollDies(k) ==
  /\ poll[k] = "waiting"
  /\ poll' = [poll EXCEPT ![k] = "idle"]
  /\ UNCHANGED <<person, installation, session, authorization, request, lock>>
-----------------------------------------------------------------------------
Next ==
  \/ \E D \in SUBSET Devices : RevokeInstallations(D)
  \/ \E p \in People : ChangePassword(p)
  \/ \E p \in People, email \in Emails :
       \/ CreateOnlyAdmin(p, email)
       \/ \E role \in {"admin", "viewer"} : AcceptInvite(p, role, email)
       \/ \E r \in Requests : AskEmail(r, p, email)
  \/ \E r \in Requests :
       \/ \E p \in People, role \in {"admin", "viewer", None} : DecideChange(r, p, role)
       \/ ChangeUserRole(r)
       \/ RemoveUser(r)
       \/ ApplyEmailChange(r)
       \/ RequestDies(r)
  \/ \E c \in Codes :
       \/ Start(c)
       \/ \E p \in People : Approve(p, c)
       \/ Deny(c)
       \/ Expire(c)
  \/ \E k \in Polls : PollRefused(k) \/ PollApproved(k) \/ PollIssues(k) \/ PollDies(k)

Spec == Init /\ [][Next]_vars
-----------------------------------------------------------------------------
(* Properties *)

\* Once an install has people it has an administrator, however the demotions,
\* removals and changes of its administrators meet (assertAnotherAdminExists).
AnAdminRemains ==
  (\E p \in People : Present(p)) => \E p \in People : IsAdmin(p)

\* A session that authenticates is that of a current administrator by its email,
\* and so is its installation by its owner: no demotion, removal or renaming
\* leaves a client behind that still acts, one waiting in its poll included.
LiveSessionsAreBacked ==
  \A k \in Polls : Live(k) =>
    /\ IsAdmin(installation[DeviceIn(k)].owner)
    /\ \E p \in People : IsAdmin(p) /\ person[p].email = session[k].email

\* A code yields one session, whatever polls and retries it gets and whoever
\* else approves a code of the same installation.
OneSessionPerCode ==
  \A j, k \in Polls : Issued(j) /\ Issued(k) /\ CodeOf[j] = CodeOf[k] => j = k
=============================================================================
