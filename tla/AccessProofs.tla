---------------------------- MODULE AccessProofs ----------------------------
(***************************************************************************)
(* Proofs about Access and, from "Domain health" on, about DomainHealth.   *)
(* The two share no definition, and neither half cites the other.          *)
(***************************************************************************)
EXTENDS Access, DomainHealth, TLAPS

\* Someone's current email is nobody else's (admin_users_email_unique).
EmailsDiffer ==
  \A p, q \in People :
    Present(p) /\ Present(q) /\ person[p].email = person[q].email => p = q

\* A role change or a removal that has decided holds the lock, and what it read
\* still holds.
DecisionsHold ==
  \A r \in Requests : request[r] # None /\ request[r].op # "email" =>
    LET q == request[r] IN
    /\ lock = r
    /\ Present(q.person) /\ person[q.person].email = q.email
    /\ (q.op = "remove" \/ q.role = "viewer") /\ IsAdmin(q.person) => Another(q.person)

\* An installation that is not revoked is an administrator's and has their email.
InstallationsAreBacked ==
  \A d \in Devices : Linked(d) =>
    /\ installation[d].owner \in People
    /\ IsAdmin(installation[d].owner)
    /\ person[installation[d].owner].email = installation[d].email

\* A session that is not revoked has the email of an administrator.
SessionsAreBacked ==
  \A k \in Polls : Issued(k) /\ ~session[k].revoked =>
    \E p \in People : IsAdmin(p) /\ person[p].email = session[k].email

\* A code that gave a session is consumed, and never approved again.
IssuedIsConsumed ==
  \A k \in Polls : Issued(k) => authorization[CodeOf[k]] \in {"consumed", "expired"}

IInv ==
  /\ TypeOK
  /\ EmailsDiffer
  /\ DecisionsHold
  /\ AnAdminRemains
  /\ InstallationsAreBacked
  /\ SessionsAreBacked
  /\ IssuedIsConsumed
  /\ OneSessionPerCode
-----------------------------------------------------------------------------
(* Types *)

\* Revocations keep the types and touch nothing but the mark.
LEMMA Revocations ==
  ASSUME TypeOK
  PROVE  /\ \A D : RevokedInstallations(D) \in [Devices -> Installation \cup {None}]
         /\ \A K : RevokedSessions(K) \in [Polls -> Session \cup {None}]
  BY NoneAssumption
  DEF TypeOK, RevokedInstallations, RevokedSessions, Issued, Installation, Session

\* Renaming keeps the types.
LEMMA Renamings ==
  ASSUME TypeOK, NEW old \in Emails, NEW new \in Emails
  PROVE  /\ RenamedRows(installation, old, new) \in [Devices -> Installation \cup {None}]
         /\ RenamedRows(session, old, new) \in [Polls -> Session \cup {None}]
  BY NoneAssumption DEF TypeOK, RenamedRows, Installation, Session

\* What a request holds.
LEMMA RequestFields ==
  ASSUME TypeOK, NEW r \in Requests, request[r] # None
  PROVE  /\ request[r].person \in People
         /\ request[r].email \in Emails /\ request[r].next \in Emails
         /\ request[r].op \in {"remove", "role", "email"}
         /\ request[r].op = "remove" => request[r].role = None
         /\ request[r].op = "role" => request[r].role \in {"admin", "viewer"}
  BY DEF TypeOK, Request

\* Every variable starts with a value of its type.
LEMMA InitTypeOK == Init => TypeOK
  BY NoneAssumption DEF Init, TypeOK

\* Every step keeps the types.
LEMMA NextTypeOK == TypeOK /\ [Next]_vars => TypeOK'
<1> SUFFICES ASSUME TypeOK, [Next]_vars PROVE TypeOK'
  OBVIOUS
<1> USE NoneAssumption, DevicesAssumption, CodesAssumption
<1>1. ASSUME NEW D \in SUBSET Devices, RevokeInstallations(D) PROVE TypeOK'
  BY <1>1, Revocations DEF TypeOK, RevokeInstallations
<1>2. ASSUME NEW p \in People, ChangePassword(p) PROVE TypeOK'
  BY <1>2, Revocations DEF TypeOK, ChangePassword, RevokeInstallations
<1>3. ASSUME NEW p \in People, NEW email \in Emails, CreateOnlyAdmin(p, email)
      PROVE  TypeOK'
  BY <1>3 DEF TypeOK, CreateOnlyAdmin, Person
<1>4. ASSUME NEW p \in People, NEW email \in Emails, NEW role \in {"admin", "viewer"},
             AcceptInvite(p, role, email)
      PROVE  TypeOK'
  BY <1>4 DEF TypeOK, AcceptInvite, Person
<1>5. ASSUME NEW p \in People, NEW email \in Emails, NEW r \in Requests, AskEmail(r, p, email)
      PROVE  TypeOK'
  <2>1. person[p] \in Person
    BY <1>5 DEF TypeOK, AskEmail, Present
  <2>2. [op |-> "email", person |-> p, role |-> person[p].role,
         email |-> person[p].email, next |-> email] \in Request
    BY <2>1 DEF Person, Request
  <2> QED BY <1>5, <2>2 DEF TypeOK, AskEmail
<1>6. ASSUME NEW r \in Requests, NEW p \in People, NEW role \in {"admin", "viewer", None},
             DecideChange(r, p, role)
      PROVE  TypeOK'
  <2>1. person[p] \in Person
    BY <1>6 DEF TypeOK, DecideChange, MayChange, Present
  <2>2. [op |-> IF role = None THEN "remove" ELSE "role", person |-> p, role |-> role,
         email |-> person[p].email, next |-> person[p].email] \in Request
    BY <2>1 DEF Person, Request
  <2> QED BY <1>6, <2>2 DEF TypeOK, DecideChange
<1>7. ASSUME NEW r \in Requests, Finished(r)
      PROVE  /\ request' \in [Requests -> Request \cup {None}]
             /\ lock' \in Requests \cup {None}
             /\ authorization' = authorization /\ poll' = poll
  BY <1>7 DEF TypeOK, Finished
<1>8. ASSUME NEW r \in Requests, ChangeUserRole(r)  PROVE TypeOK'
  <2>1. request[r].role \in {"admin", "viewer"}
    BY <1>8, RequestFields DEF ChangeUserRole
  <2>2. person' \in [People -> Person \cup {None}]
    BY <1>8, <2>1 DEF TypeOK, ChangeUserRole, Person, Present
  <2>3. /\ installation' \in [Devices -> Installation \cup {None}]
        /\ session' \in [Polls -> Session \cup {None}]
    BY <1>8, Revocations DEF TypeOK, ChangeUserRole, RevokeIssuedCredentials
  <2> QED BY <1>7, <1>8, <2>2, <2>3 DEF TypeOK, ChangeUserRole
<1>9. ASSUME NEW r \in Requests, RemoveUser(r) PROVE TypeOK'
  <2> DEFINE held == RevokedInstallations(
                       {d \in Devices : Linked(d) /\ installation[d].email = request[r].email})
  <2>1. held \in [Devices -> Installation \cup {None}]
    BY Revocations
  <2>2. installation' = [d \in Devices |->
              IF held[d] # None /\ held[d].owner = request[r].person
              THEN [held[d] EXCEPT !.owner = None] ELSE held[d]]
    BY <1>9 DEF RemoveUser
  <2> HIDE DEF held
  <2>3. installation' \in [Devices -> Installation \cup {None}]
    BY <2>1, <2>2 DEF Installation
  <2>4. /\ person' \in [People -> Person \cup {None}]
        /\ session' \in [Polls -> Session \cup {None}]
    BY <1>9, Revocations DEF TypeOK, RemoveUser
  <2> QED BY <1>7, <1>9, <2>3, <2>4 DEF TypeOK, RemoveUser
<1>10. ASSUME NEW r \in Requests, ApplyEmailChange(r) PROVE TypeOK'
  <2> DEFINE q == request[r]
  <2>1. q.person \in People /\ q.email \in Emails /\ q.next \in Emails
    BY <1>10, RequestFields DEF ApplyEmailChange
  <2>2. person' \in [People -> Person \cup {None}]
    <3>1. \/ person' = person
          \/ Present(q.person) /\ person' = [person EXCEPT ![q.person].email = q.next]
      BY <1>10 DEF ApplyEmailChange
    <3> HIDE DEF q
    <3> QED BY <2>1, <3>1 DEF TypeOK, Person, Present
  <2>3. /\ installation' \in [Devices -> Installation \cup {None}]
        /\ session' \in [Polls -> Session \cup {None}]
    BY <1>10, <2>1, Renamings DEF TypeOK, ApplyEmailChange
  <2> QED BY <1>7, <1>10, <2>2, <2>3 DEF TypeOK, ApplyEmailChange
<1>11. ASSUME NEW r \in Requests, RequestDies(r) PROVE TypeOK'
  BY <1>7, <1>11 DEF TypeOK, RequestDies
<1>12. ASSUME NEW c \in Codes, Start(c) \/ Deny(c) \/ Expire(c) PROVE TypeOK'
  BY <1>12 DEF TypeOK, Start, Deny, Expire, Move
<1>13. ASSUME NEW c \in Codes, NEW p \in People, Approve(p, c) PROVE TypeOK'
  BY <1>13 DEF TypeOK, Approve, Move, Installation, IsAdmin, Present, Person
<1>14. ASSUME NEW k \in Polls, PollRefused(k) \/ PollApproved(k) \/ PollDies(k) PROVE TypeOK'
  BY <1>14 DEF TypeOK, PollRefused, PollApproved, PollDies
<1>15. ASSUME NEW k \in Polls, PollIssues(k) PROVE TypeOK'
  <2>1. /\ DeviceIn(k) \in Devices
        /\ Linked(DeviceIn(k)) =>
             [email |-> installation[DeviceIn(k)].email, revoked |-> FALSE] \in Session
    BY DEF TypeOK, Linked, DeviceIn, Installation, Session
  <2>2. /\ session' \in [Polls -> Session \cup {None}]
        /\ authorization' \in
             [Codes -> {"none", "pending", "approved", "denied", "consumed", "expired"}]
        /\ poll' \in [Polls -> {"idle", "waiting", "refused"}]
    <3>1. CASE Linked(DeviceIn(k))
      <4>1. PICK s \in Session : session' = [session EXCEPT ![k] = s]
        BY <1>15, <2>1, <3>1 DEF PollIssues
      <4>2. /\ authorization' = [authorization EXCEPT ![CodeOf[k]] = "consumed"]
            /\ poll' = [poll EXCEPT ![k] = "idle"]
        BY <1>15, <3>1 DEF PollIssues, Move
      <4> QED BY <4>1, <4>2 DEF TypeOK
    <3>2. CASE ~Linked(DeviceIn(k))
      BY <1>15, <3>2 DEF TypeOK, PollIssues
    <3> QED BY <3>1, <3>2
  <2> QED BY <1>15, <2>2 DEF TypeOK, PollIssues
<1>16. CASE UNCHANGED vars
  BY <1>16 DEF TypeOK, vars
<1> QED
  BY <1>1, <1>2, <1>3, <1>4, <1>5, <1>6, <1>8, <1>9, <1>10, <1>11, <1>12, <1>13, <1>14,
     <1>15, <1>16
  DEF Next

\* Every reachable value of the variables has its type.
THEOREM TypeCorrect == Spec => []TypeOK
<1> QED BY InitTypeOK, NextTypeOK, PTL DEF Spec
-----------------------------------------------------------------------------
(* The invariant *)

\* What is not marked by a revocation is as it was, and was not to be marked.
LEMMA MarksOnly ==
  ASSUME TypeOK
  PROVE  /\ \A D : \A d \in Devices : LET n == RevokedInstallations(D)[d] IN
              /\ n # None <=> installation[d] # None
              /\ n # None /\ ~n.revoked => n = installation[d] /\ d \notin D
         /\ \A K : \A k \in Polls : LET n == RevokedSessions(K)[k] IN
              /\ n # None <=> Issued(k)
              /\ n # None /\ ~n.revoked => n = session[k] /\ k \notin K
<1>1. ASSUME NEW D, NEW d \in Devices
      PROVE  LET n == RevokedInstallations(D)[d] IN
             /\ n # None <=> installation[d] # None
             /\ n # None /\ ~n.revoked => n = installation[d] /\ d \notin D
  <2>1. CASE installation[d] # None /\ d \in D
    <3>1. installation[d] \in Installation
      BY <2>1 DEF TypeOK
    <3>2. [installation[d] EXCEPT !.revoked = TRUE] \in Installation
      BY <3>1 DEF Installation
    <3>3. [installation[d] EXCEPT !.revoked = TRUE].revoked
      BY <3>1 DEF Installation
    <3> QED BY <2>1, <3>2, <3>3, NoneAssumption DEF RevokedInstallations
  <2>2. CASE ~(installation[d] # None /\ d \in D)
    BY <2>2 DEF RevokedInstallations
  <2> QED BY <2>1, <2>2
<1>2. ASSUME NEW K, NEW k \in Polls
      PROVE  LET n == RevokedSessions(K)[k] IN
             /\ n # None <=> Issued(k)
             /\ n # None /\ ~n.revoked => n = session[k] /\ k \notin K
  <2>1. CASE Issued(k) /\ k \in K
    <3>1. session[k] \in Session
      BY <2>1 DEF TypeOK, Issued
    <3>2. [session[k] EXCEPT !.revoked = TRUE] \in Session
      BY <3>1 DEF Session
    <3>3. [session[k] EXCEPT !.revoked = TRUE].revoked
      BY <3>1 DEF Session
    <3> QED BY <2>1, <3>2, <3>3, NoneAssumption DEF RevokedSessions
  <2>2. CASE ~(Issued(k) /\ k \in K)
    BY <2>2 DEF RevokedSessions, Issued
  <2> QED BY <2>1, <2>2
<1> QED BY <1>1, <1>2

\* What only the people and the requests say stays true while these stay.
LEMMA PeopleStay ==
  ASSUME IInv, person' = person
  PROVE  /\ EmailsDiffer' /\ AnAdminRemains'
         /\ UNCHANGED <<request, lock>> => DecisionsHold'
  BY DEF IInv, EmailsDiffer, AnAdminRemains, DecisionsHold, Present, IsAdmin, Another

\* Without new people, revocations keep what is not revoked backed.
LEMMA RevocationsStay ==
  ASSUME IInv, person' = person,
         \/ installation' = installation
         \/ \E D : installation' = RevokedInstallations(D),
         \/ session' = session
         \/ \E K : session' = RevokedSessions(K)
  PROVE  InstallationsAreBacked' /\ SessionsAreBacked'
<1>1. ASSUME NEW d \in Devices, Linked(d)'
      PROVE  Linked(d) /\ installation'[d] = installation[d]
  BY <1>1, MarksOnly DEF IInv, Linked
<1>2. ASSUME NEW k \in Polls, Issued(k)', ~session'[k].revoked
      PROVE  Issued(k) /\ ~session[k].revoked /\ session'[k] = session[k]
  BY <1>2, MarksOnly DEF IInv, Issued
<1> QED
  BY <1>1, <1>2
  DEF IInv, InstallationsAreBacked, SessionsAreBacked, IsAdmin, Present

\* No step gives a session but to a poll of an approved code.
LEMMA CodesStay ==
  ASSUME IInv,
         \A k \in Polls : Issued(k)' => Issued(k),
         \A c \in Codes : authorization[c] \in {"consumed", "expired"} =>
                           authorization'[c] \in {"consumed", "expired"}
  PROVE  IssuedIsConsumed' /\ OneSessionPerCode'
  BY CodesAssumption DEF IInv, IssuedIsConsumed, OneSessionPerCode

\* Revocations give no session.
LEMMA RevocationsGiveNone ==
  ASSUME TypeOK, NEW K, session' = RevokedSessions(K)
  PROVE  \A k \in Polls : Issued(k)' => Issued(k)
  BY MarksOnly DEF Issued

\* Renaming gives no session either, and gives the new email to what had the old.
LEMMA RenamesOnly ==
  ASSUME TypeOK, NEW old \in Emails, NEW new \in Emails
  PROVE  /\ \A d \in Devices : LET n == RenamedRows(installation, old, new)[d] IN
              /\ n # None <=> installation[d] # None
              /\ n # None => /\ n.owner = installation[d].owner
                             /\ n.revoked = installation[d].revoked
                             /\ n.email = IF installation[d].email = old THEN new
                                          ELSE installation[d].email
         /\ \A k \in Polls : LET n == RenamedRows(session, old, new)[k] IN
              /\ n # None <=> session[k] # None
              /\ n # None => /\ n.revoked = session[k].revoked
                             /\ n.email = IF session[k].email = old THEN new
                                          ELSE session[k].email
<1>1. ASSUME NEW d \in Devices
      PROVE  LET n == RenamedRows(installation, old, new)[d] IN
              /\ n # None <=> installation[d] # None
              /\ n # None => /\ n.owner = installation[d].owner
                             /\ n.revoked = installation[d].revoked
                             /\ n.email = IF installation[d].email = old THEN new
                                          ELSE installation[d].email
  <2>1. RenamedRows(installation, old, new)[d] =
          IF installation[d] # None /\ installation[d].email = old
          THEN [installation[d] EXCEPT !.email = new] ELSE installation[d]
    BY DEF TypeOK, RenamedRows
  <2>2. installation[d] = None \/ installation[d] \in Installation
    BY DEF TypeOK
  <2>3. installation[d] \in Installation =>
          [installation[d] EXCEPT !.email = new] \in Installation
    BY DEF Installation
  <2> QED BY <2>1, <2>2, <2>3, NoneAssumption DEF Installation
<1>2. ASSUME NEW k \in Polls
      PROVE  LET n == RenamedRows(session, old, new)[k] IN
              /\ n # None <=> session[k] # None
              /\ n # None => /\ n.revoked = session[k].revoked
                             /\ n.email = IF session[k].email = old THEN new
                                          ELSE session[k].email
  <2>1. RenamedRows(session, old, new)[k] =
          IF session[k] # None /\ session[k].email = old
          THEN [session[k] EXCEPT !.email = new] ELSE session[k]
    BY DEF TypeOK, RenamedRows
  <2>2. session[k] = None \/ session[k] \in Session
    BY DEF TypeOK
  <2>3. session[k] \in Session => [session[k] EXCEPT !.email = new] \in Session
    BY DEF Session
  <2> QED BY <2>1, <2>2, <2>3, NoneAssumption DEF Session
<1> QED BY <1>1, <1>2

LEMMA InitIInv == Init => IInv
  BY InitTypeOK
  DEF Init, IInv, EmailsDiffer, DecisionsHold, AnAdminRemains, InstallationsAreBacked,
      SessionsAreBacked, IssuedIsConsumed, OneSessionPerCode, Present, Linked, Issued

\* A person who joins leaves everybody else as they were.
LEMMA Joins ==
  ASSUME IInv, NEW p \in People, ~Present(p), NEW email \in Emails, Free(email),
         NEW role \in {"admin", "viewer"},
         (\A q \in People : ~Present(q)) => role = "admin",
         person' = [person EXCEPT ![p] = [role |-> role, email |-> email]],
         UNCHANGED <<installation, session, authorization, poll, request, lock>>
  PROVE  /\ EmailsDiffer' /\ DecisionsHold' /\ AnAdminRemains'
         /\ InstallationsAreBacked' /\ SessionsAreBacked'
         /\ IssuedIsConsumed' /\ OneSessionPerCode'
<1>1. [role |-> role, email |-> email] \in Person
  BY DEF Person
<1>2. \A q \in People : Present(q) => q # p /\ Present(q)' /\ person'[q] = person[q]
  BY DEF IInv, TypeOK, Present
<1>3. Present(p)' /\ person'[p].role = role /\ person'[p].email = email
  BY <1>1, NoneAssumption DEF IInv, TypeOK, Present
<1>4. \A q \in People : Present(q)' => q = p \/ Present(q)
  BY DEF IInv, TypeOK, Present
<1>5. \A q \in People : IsAdmin(q) => IsAdmin(q)'
  BY <1>2 DEF IsAdmin
<1>6. EmailsDiffer'
  BY <1>2, <1>3, <1>4 DEF IInv, EmailsDiffer, Free
<1>7. AnAdminRemains'
  BY <1>3, <1>5, <1>4 DEF IInv, AnAdminRemains, IsAdmin
<1>8. DecisionsHold'
  <2>1. ASSUME NEW q \in People, Present(q), IsAdmin(q)', Another(q) PROVE Another(q)'
    BY <1>5, <2>1 DEF Another
  <2>2. ASSUME NEW q \in People, Present(q), IsAdmin(q)' PROVE IsAdmin(q)
    BY <1>2, <2>2 DEF IsAdmin
  <2>3. \A r \in Requests : request[r] # None => request[r].person \in People
    BY RequestFields DEF IInv
  <2> QED BY <1>2, <2>1, <2>2, <2>3 DEF IInv, DecisionsHold
<1>9. InstallationsAreBacked' /\ SessionsAreBacked'
  BY <1>2, <1>5
  DEF IInv, InstallationsAreBacked, SessionsAreBacked, Linked, Issued, IsAdmin
<1> QED
  BY <1>6, <1>7, <1>8, <1>9
  DEF IInv, IssuedIsConsumed, OneSessionPerCode, Issued

\* The decision that holds the lock is the only one, and ends with it.
LEMMA OneDecision ==
  ASSUME IInv, NEW r \in Requests, request[r] # None, request[r].op # "email", Finished(r)
  PROVE  DecisionsHold'
<1>1. lock = r
  BY DEF IInv, DecisionsHold
<1>2. \A s \in Requests : request'[s] # None => s # r /\ request'[s] = request[s]
  BY DEF IInv, TypeOK, Finished
<1> QED BY <1>1, <1>2 DEF IInv, DecisionsHold

\* While nobody holds the lock no decision is open.
LEMMA NoDecision ==
  ASSUME IInv, lock = None, NEW r \in Requests, request[r] # None
  PROVE  request[r].op = "email"
  BY NoneAssumption DEF IInv, DecisionsHold

\* A role change keeps another administrator and revokes what a demoted one holds.
LEMMA RoleChanges ==
  ASSUME IInv, NEW r \in Requests, ChangeUserRole(r)
  PROVE  /\ EmailsDiffer' /\ DecisionsHold' /\ AnAdminRemains'
         /\ InstallationsAreBacked' /\ SessionsAreBacked'
         /\ IssuedIsConsumed' /\ OneSessionPerCode'
<1> DEFINE q == request[r]
<1>1. /\ q # None /\ q.op = "role" /\ q.person \in People /\ q.role \in {"admin", "viewer"}
      /\ Present(q.person) /\ person[q.person].email = q.email
      /\ q.role = "viewer" /\ IsAdmin(q.person) => Another(q.person)
  BY RequestFields DEF IInv, ChangeUserRole, DecisionsHold
<1>2. \A p \in People : person'[p] =
        IF p = q.person /\ Present(p) THEN [person[p] EXCEPT !.role = q.role] ELSE person[p]
  BY DEF ChangeUserRole
<1>3. /\ q.role = "viewer" =>
           /\ installation' = RevokedInstallations(
                {d \in Devices : Linked(d) /\ installation[d].email = q.email})
           /\ session' = RevokedSessions({k \in Polls : Issued(k) /\ session[k].email = q.email})
      /\ q.role # "viewer" => UNCHANGED <<installation, session>>
  BY DEF ChangeUserRole, RevokeIssuedCredentials
<1>4. DecisionsHold'
  BY <1>1, OneDecision DEF ChangeUserRole
<1>5. authorization' = authorization
  BY DEF ChangeUserRole, Finished
<1> HIDE DEF q
<1>6. \A p \in People : /\ Present(p)' <=> Present(p)
                        /\ Present(p) => person'[p].email = person[p].email
                        /\ p # q.person => person'[p] = person[p]
  <2>1. ASSUME NEW p \in People, Present(p)
        PROVE  /\ [person[p] EXCEPT !.role = q.role] \in Person
               /\ [person[p] EXCEPT !.role = q.role].email = person[p].email
    BY <1>1, <2>1 DEF IInv, TypeOK, Present, Person
  <2> QED BY <1>1, <1>2, <2>1, NoneAssumption DEF Present
<1>7. person'[q.person].role = q.role
  <2>1. person[q.person] \in Person
    BY <1>1 DEF IInv, TypeOK, Present
  <2> QED BY <1>1, <1>2, <2>1 DEF Person
<1>8. \A p \in People : IsAdmin(p) /\ (p # q.person \/ q.role = "admin") => IsAdmin(p)'
  BY <1>6, <1>7 DEF IsAdmin
<1>9. EmailsDiffer'
  BY <1>6 DEF IInv, EmailsDiffer
<1>10. AnAdminRemains'
  <2>1. CASE q.role = "admin"
    BY <1>1, <1>6, <1>7, <2>1 DEF AnAdminRemains, IsAdmin
  <2>2. CASE q.role = "viewer"
    <3>1. \E p \in People : p # q.person /\ IsAdmin(p)
      BY <1>1, <2>2 DEF IInv, AnAdminRemains, Another
    <3> QED BY <1>8, <3>1 DEF AnAdminRemains
  <2> QED BY <1>1, <2>1, <2>2
<1>11. InstallationsAreBacked'
  <2> SUFFICES ASSUME NEW d \in Devices, Linked(d)'
               PROVE  \E o \in People :
                        /\ installation'[d].owner = o /\ IsAdmin(o)'
                        /\ person'[o].email = installation'[d].email
    BY DEF InstallationsAreBacked, IsAdmin, Present
  <2>1. /\ Linked(d) /\ installation'[d] = installation[d]
        /\ q.role = "viewer" => installation[d].email # q.email
    BY <1>1, <1>3, MarksOnly DEF IInv, Linked
  <2>2. /\ installation[d].owner \in People /\ IsAdmin(installation[d].owner)
        /\ person[installation[d].owner].email = installation[d].email
    BY <2>1 DEF IInv, InstallationsAreBacked
  <2> QED BY <1>1, <1>6, <1>8, <2>1, <2>2 DEF IsAdmin
<1>12. SessionsAreBacked'
  <2> SUFFICES ASSUME NEW k \in Polls, Issued(k)', ~session'[k].revoked
               PROVE  \E p \in People : IsAdmin(p)' /\ person'[p].email = session'[k].email
    BY DEF SessionsAreBacked
  <2>1. /\ Issued(k) /\ ~session[k].revoked /\ session'[k] = session[k]
        /\ q.role = "viewer" => session[k].email # q.email
    BY <1>1, <1>3, MarksOnly DEF IInv, Issued
  <2>2. PICK p \in People : IsAdmin(p) /\ person[p].email = session[k].email
    BY <2>1 DEF IInv, SessionsAreBacked
  <2> QED BY <1>1, <1>6, <1>8, <2>1, <2>2 DEF IsAdmin
<1>13. IssuedIsConsumed' /\ OneSessionPerCode'
  <2>1. \A k \in Polls : Issued(k)' => Issued(k)
    BY <1>1, <1>3, MarksOnly DEF IInv, Issued
  <2> QED BY <1>5, <2>1, CodesStay
<1> QED BY <1>4, <1>9, <1>10, <1>11, <1>12, <1>13

\* A removal does the same, and leaves no installation to the person removed.
LEMMA Removals ==
  ASSUME IInv, NEW r \in Requests, RemoveUser(r)
  PROVE  /\ EmailsDiffer' /\ DecisionsHold' /\ AnAdminRemains'
         /\ InstallationsAreBacked' /\ SessionsAreBacked'
         /\ IssuedIsConsumed' /\ OneSessionPerCode'
<1> DEFINE q == request[r]
           marked == {d \in Devices : Linked(d) /\ installation[d].email = q.email}
           held == RevokedInstallations(marked)
<1>1. /\ q # None /\ q.op = "remove" /\ q.person \in People
      /\ Present(q.person) /\ person[q.person].email = q.email
      /\ IsAdmin(q.person) => Another(q.person)
  BY RequestFields DEF IInv, RemoveUser, DecisionsHold
<1>2. /\ person' = [person EXCEPT ![q.person] = None]
      /\ installation' = [d \in Devices |->
              IF held[d] # None /\ held[d].owner = q.person
              THEN [held[d] EXCEPT !.owner = None] ELSE held[d]]
      /\ session' = RevokedSessions({k \in Polls : Issued(k) /\ session[k].email = q.email})
      /\ authorization' = authorization
  BY DEF RemoveUser, Finished
<1>3. DecisionsHold'
  BY <1>1, OneDecision DEF RemoveUser
<1>4. \A d \in Devices : /\ held[d] # None <=> installation[d] # None
                         /\ held[d] # None /\ ~held[d].revoked =>
                              held[d] = installation[d] /\ d \notin marked
  BY MarksOnly DEF IInv
<1>5. held \in [Devices -> Installation \cup {None}]
  BY Revocations DEF IInv
<1>6. \A d \in Devices : d \notin marked /\ Linked(d) => installation[d].email # q.email
  OBVIOUS
<1> HIDE DEF q, marked, held
<1>7. \A p \in People : /\ Present(p)' <=> Present(p) /\ p # q.person
                        /\ p # q.person => person'[p] = person[p]
  BY <1>1, <1>2 DEF IInv, TypeOK, Present
<1>8. \A p \in People : IsAdmin(p) /\ p # q.person => IsAdmin(p)'
  BY <1>7 DEF IsAdmin
<1>9. EmailsDiffer'
  BY <1>7 DEF IInv, EmailsDiffer
<1>10. AnAdminRemains'
  <2>1. \E p \in People : p # q.person /\ IsAdmin(p)
    BY <1>1 DEF IInv, AnAdminRemains, Another
  <2> QED BY <1>8, <2>1 DEF AnAdminRemains
<1>11. InstallationsAreBacked'
  <2> SUFFICES ASSUME NEW d \in Devices, Linked(d)'
               PROVE  \E o \in People :
                        /\ installation'[d].owner = o /\ IsAdmin(o)'
                        /\ person'[o].email = installation'[d].email
    BY DEF InstallationsAreBacked, IsAdmin, Present
  <2>1. held[d] # None /\ ~held[d].revoked
    <3>1. held[d] = None => ~Linked(d)'
      BY <1>2 DEF Linked
    <3>2. held[d] # None => held[d] \in Installation
      BY <1>5
    <3>3. held[d] # None => installation'[d].revoked = held[d].revoked
      BY <1>2, <3>2 DEF Installation
    <3> QED BY <3>1, <3>3 DEF Linked
  <2>2. held[d] = installation[d] /\ Linked(d) /\ installation[d].email # q.email
    BY <1>4, <1>6, <2>1 DEF Linked
  <2>3. /\ installation[d].owner \in People /\ IsAdmin(installation[d].owner)
        /\ person[installation[d].owner].email = installation[d].email
    BY <2>2 DEF IInv, InstallationsAreBacked
  <2>4. installation[d].owner # q.person
    BY <1>1, <2>2, <2>3
  <2>5. installation'[d] = installation[d]
    BY <1>2, <2>2, <2>4
  <2> QED BY <1>7, <1>8, <2>3, <2>4, <2>5
<1>12. SessionsAreBacked'
  <2> SUFFICES ASSUME NEW k \in Polls, Issued(k)', ~session'[k].revoked
               PROVE  \E p \in People : IsAdmin(p)' /\ person'[p].email = session'[k].email
    BY DEF SessionsAreBacked
  <2>1. /\ Issued(k) /\ ~session[k].revoked /\ session'[k] = session[k]
        /\ session[k].email # q.email
    BY <1>2, MarksOnly DEF IInv, Issued
  <2>2. PICK p \in People : IsAdmin(p) /\ person[p].email = session[k].email
    BY <2>1 DEF IInv, SessionsAreBacked
  <2> QED BY <1>1, <1>7, <1>8, <2>1, <2>2
<1>13. IssuedIsConsumed' /\ OneSessionPerCode'
  BY <1>2, RevocationsGiveNone, CodesStay DEF IInv
<1> QED BY <1>3, <1>9, <1>10, <1>11, <1>12, <1>13

\* A change of email takes everything that carries the old one along.
LEMMA EmailChanges ==
  ASSUME IInv, NEW r \in Requests, ApplyEmailChange(r)
  PROVE  /\ EmailsDiffer' /\ DecisionsHold' /\ AnAdminRemains'
         /\ InstallationsAreBacked' /\ SessionsAreBacked'
         /\ IssuedIsConsumed' /\ OneSessionPerCode'
<1> DEFINE q == request[r]
           Current == Present(q.person) /\ person[q.person].email = q.email /\ Free(q.next)
<1>1. /\ lock = None
      /\ q.person \in People /\ q.email \in Emails /\ q.next \in Emails
      /\ authorization' = authorization
  BY RequestFields DEF IInv, ApplyEmailChange, Finished
<1>2. DecisionsHold'
  <2>1. \A s \in Requests : request'[s] # None => request'[s] = request[s]
    BY DEF IInv, TypeOK, ApplyEmailChange, Finished
  <2> QED BY <1>1, <2>1, NoDecision DEF DecisionsHold
<1>3. CASE ~Current
  <2>1. UNCHANGED <<person, installation, session>>
    BY <1>3 DEF ApplyEmailChange
  <2>2. \A k \in Polls : Issued(k)' => Issued(k)
    BY <2>1 DEF Issued
  <2> QED BY <1>1, <1>2, <2>1, <2>2, PeopleStay, RevocationsStay, CodesStay
<1>4. CASE Current
  <2>1. /\ person' = [person EXCEPT ![q.person].email = q.next]
        /\ installation' = RenamedRows(installation, q.email, q.next)
        /\ session' = RenamedRows(session, q.email, q.next)
    BY <1>4 DEF ApplyEmailChange
  <2>2. person[q.person] \in Person
    BY <1>1, <1>4 DEF IInv, TypeOK, Present
  <2>3. Present(q.person) /\ person[q.person].email = q.email /\ Free(q.next)
    BY <1>4
  <2> HIDE DEF q, Current
  <2>4. \A p \in People : /\ Present(p)' <=> Present(p)
                          /\ p # q.person => person'[p] = person[p]
    BY <1>1, <2>1, <2>2, <2>3, NoneAssumption DEF IInv, TypeOK, Present, Person
  <2>5. person'[q.person].role = person[q.person].role /\ person'[q.person].email = q.next
    BY <1>1, <2>1, <2>2 DEF IInv, TypeOK, Person
  <2>6. \A p \in People : IsAdmin(p)' <=> IsAdmin(p)
    BY <2>4, <2>5 DEF IsAdmin
  <2>7. \A p \in People : Present(p) => person'[p].email =
          IF person[p].email = q.email THEN q.next ELSE person[p].email
    BY <1>1, <2>3, <2>4, <2>5 DEF IInv, EmailsDiffer
  <2>8. EmailsDiffer'
    BY <2>3, <2>4, <2>7 DEF IInv, EmailsDiffer, Free
  <2>9. AnAdminRemains'
    BY <2>4, <2>6 DEF IInv, AnAdminRemains
  <2>10. InstallationsAreBacked'
    <3> SUFFICES ASSUME NEW d \in Devices, Linked(d)'
                 PROVE  \E o \in People :
                          /\ installation'[d].owner = o /\ IsAdmin(o)'
                          /\ person'[o].email = installation'[d].email
      BY DEF InstallationsAreBacked, IsAdmin, Present
    <3>1. /\ Linked(d) /\ installation'[d].owner = installation[d].owner
          /\ installation'[d].email = IF installation[d].email = q.email THEN q.next
                                      ELSE installation[d].email
      BY <1>1, <2>1, RenamesOnly DEF IInv, Linked
    <3>2. /\ installation[d].owner \in People /\ IsAdmin(installation[d].owner)
          /\ person[installation[d].owner].email = installation[d].email
      BY <3>1 DEF IInv, InstallationsAreBacked
    <3> QED BY <2>6, <2>7, <3>1, <3>2 DEF IsAdmin
  <2>11. SessionsAreBacked'
    <3> SUFFICES ASSUME NEW k \in Polls, Issued(k)', ~session'[k].revoked
                 PROVE  \E p \in People : IsAdmin(p)' /\ person'[p].email = session'[k].email
      BY DEF SessionsAreBacked
    <3>1. /\ Issued(k) /\ ~session[k].revoked
          /\ session'[k].email = IF session[k].email = q.email THEN q.next
                                 ELSE session[k].email
      BY <1>1, <2>1, RenamesOnly DEF IInv, Issued
    <3>2. PICK p \in People : IsAdmin(p) /\ person[p].email = session[k].email
      BY <3>1 DEF IInv, SessionsAreBacked
    <3> QED BY <2>6, <2>7, <3>1, <3>2 DEF IsAdmin
  <2>12. \A k \in Polls : Issued(k)' => Issued(k)
    BY <1>1, <2>1, RenamesOnly DEF IInv, Issued
  <2> QED BY <1>1, <1>2, <2>8, <2>9, <2>10, <2>11, <2>12, CodesStay
<1> QED BY <1>3, <1>4

\* A poll that has the lock gives the session of a linked installation, of a code
\* that gave none before.
LEMMA Issues ==
  ASSUME IInv, NEW k \in Polls, PollIssues(k)
  PROVE  SessionsAreBacked' /\ IssuedIsConsumed' /\ OneSessionPerCode'
<1> USE CodesAssumption, DevicesAssumption
<1>1. DeviceIn(k) \in Devices /\ CodeOf[k] \in Codes
  BY DEF DeviceIn
<1>2. CASE ~Linked(DeviceIn(k))
  <2>1. UNCHANGED <<person, session, authorization, installation>>
    BY <1>2 DEF PollIssues
  <2> QED
    BY <2>1 DEF IInv, SessionsAreBacked, IssuedIsConsumed, OneSessionPerCode, Issued,
                IsAdmin, Present
<1>3. CASE Linked(DeviceIn(k))
  <2>1. /\ authorization[CodeOf[k]] = "approved"
        /\ authorization' = [authorization EXCEPT ![CodeOf[k]] = "consumed"]
        /\ session' = [session EXCEPT ![k] =
             [email |-> installation[DeviceIn(k)].email, revoked |-> FALSE]]
        /\ person' = person
    BY <1>3 DEF PollIssues, Move
  <2>2. \A j \in Polls : /\ j # k => session'[j] = session[j] /\ (Issued(j)' <=> Issued(j))
                         /\ session'[k].email = installation[DeviceIn(k)].email
    BY <2>1 DEF IInv, TypeOK, Issued
  <2>3. SessionsAreBacked'
    <3>1. /\ installation[DeviceIn(k)].owner \in People
          /\ IsAdmin(installation[DeviceIn(k)].owner)
          /\ person[installation[DeviceIn(k)].owner].email = installation[DeviceIn(k)].email
      BY <1>1, <1>3 DEF IInv, InstallationsAreBacked
    <3> QED BY <2>1, <2>2, <3>1 DEF IInv, SessionsAreBacked, IsAdmin, Present
  <2>4. \A j \in Polls : j # k /\ Issued(j) => CodeOf[j] # CodeOf[k]
    BY <2>1 DEF IInv, IssuedIsConsumed
  <2>5. authorization'[CodeOf[k]] = "consumed" /\
        \A c \in Codes : c # CodeOf[k] => authorization'[c] = authorization[c]
    BY <1>1, <2>1 DEF IInv, TypeOK
  <2>6. IssuedIsConsumed'
    BY <2>2, <2>4, <2>5 DEF IInv, IssuedIsConsumed
  <2>7. OneSessionPerCode'
    BY <2>2, <2>4 DEF IInv, OneSessionPerCode
  <2> QED BY <2>3, <2>6, <2>7
<1> QED BY <1>2, <1>3

\* Every step keeps the invariant.
LEMMA NextIInv == IInv /\ [Next]_vars => IInv'
<1> SUFFICES ASSUME IInv, [Next]_vars PROVE IInv'
  OBVIOUS
<1> USE CodesAssumption, DevicesAssumption
<1>0. TypeOK'
  BY NextTypeOK DEF IInv
<1>1. ASSUME NEW D, RevokeInstallations(D) PROVE IInv'
  <2>1. /\ UNCHANGED <<person, authorization, poll, request, lock>>
        /\ installation' = RevokedInstallations(D)
        /\ session' = RevokedSessions({k \in Polls : DeviceIn(k) \in D})
    BY <1>1 DEF RevokeInstallations
  <2>2. \A k \in Polls : Issued(k)' => Issued(k)
    BY <2>1, RevocationsGiveNone DEF IInv
  <2> QED BY <1>0, <2>1, <2>2, PeopleStay, RevocationsStay, CodesStay DEF IInv
<1>2. ASSUME NEW p \in People, ChangePassword(p) PROVE IInv'
  BY <1>1, <1>2 DEF ChangePassword
<1>3. ASSUME NEW p \in People, NEW email \in Emails, CreateOnlyAdmin(p, email) PROVE IInv'
  BY <1>0, <1>3, Joins DEF IInv, CreateOnlyAdmin, Free
<1>4. ASSUME NEW p \in People, NEW email \in Emails, NEW role \in {"admin", "viewer"},
             AcceptInvite(p, role, email)
      PROVE  IInv'
  BY <1>0, <1>4, Joins DEF IInv, AcceptInvite
<1>5. ASSUME NEW r \in Requests, ChangeUserRole(r) PROVE IInv'
  BY <1>0, <1>5, RoleChanges DEF IInv
<1>6. ASSUME NEW r \in Requests, RemoveUser(r) PROVE IInv'
  BY <1>0, <1>6, Removals DEF IInv
<1>7. ASSUME NEW r \in Requests, ApplyEmailChange(r) PROVE IInv'
  BY <1>0, <1>7, EmailChanges DEF IInv
<1>8. ASSUME UNCHANGED <<person, installation, session, authorization>>, DecisionsHold'
      PROVE  IInv'
  <2>1. \A k \in Polls : Issued(k)' => Issued(k)
    BY <1>8 DEF Issued
  <2> QED BY <1>0, <1>8, <2>1, PeopleStay, RevocationsStay, CodesStay DEF IInv
<1>9. ASSUME NEW r \in Requests, RequestDies(r) PROVE IInv'
  <2>1. \A s \in Requests : request'[s] # None => s # r /\ request'[s] = request[s]
    BY <1>9 DEF IInv, TypeOK, RequestDies, Finished
  <2>2. lock' = IF lock = r THEN None ELSE lock
    BY <1>9 DEF RequestDies, Finished
  <2>3. UNCHANGED <<person, installation, session, authorization>>
    BY <1>9 DEF RequestDies, Finished
  <2>4. DecisionsHold'
    BY <2>1, <2>2, <2>3 DEF IInv, DecisionsHold, Present, IsAdmin, Another
  <2> QED BY <1>8, <2>3, <2>4
<1>10. ASSUME NEW r \in Requests, NEW p \in People, NEW role \in {"admin", "viewer", None},
              DecideChange(r, p, role)
       PROVE  IInv'
  <2> DEFINE q == [op |-> IF role = None THEN "remove" ELSE "role", person |-> p,
                   role |-> role, email |-> person[p].email, next |-> person[p].email]
  <2>1. /\ UNCHANGED <<person, installation, session, authorization>>
        /\ lock = None /\ lock' = r /\ MayChange(p, role)
        /\ \A s \in Requests : request'[s] = IF s = r THEN q ELSE request[s]
    BY <1>10 DEF IInv, TypeOK, DecideChange
  <2>2. \A s \in Requests : s # r /\ request'[s] # None => request'[s].op = "email"
    BY <2>1, NoDecision
  <2>3. /\ q.person = p /\ q.email = person[p].email
        /\ Present(p)' /\ person'[p].email = person[p].email
        /\ IsAdmin(p)' => Another(p)'
    BY <2>1 DEF MayChange, Present, IsAdmin, Another
  <2>4. DecisionsHold'
    BY <2>1, <2>2, <2>3 DEF DecisionsHold
  <2> QED BY <1>8, <2>1, <2>4
<1>11. ASSUME NEW r \in Requests, NEW p \in People, NEW email \in Emails,
              AskEmail(r, p, email)
       PROVE  IInv'
  <2>1. /\ UNCHANGED <<person, installation, session, authorization, lock>>
        /\ \A s \in Requests : s # r => request'[s] = request[s]
        /\ request'[r].op = "email"
    BY <1>11 DEF IInv, TypeOK, AskEmail
  <2>2. DecisionsHold'
    BY <2>1 DEF IInv, DecisionsHold, Present, IsAdmin, Another
  <2> QED BY <1>8, <2>1, <2>2
<1>12. ASSUME NEW c \in Codes, Start(c) \/ Deny(c) \/ Expire(c) PROVE IInv'
  <2>1. /\ UNCHANGED <<person, installation, session, request, lock>>
        /\ authorization[c] \in {"none", "pending", "approved"}
        /\ \A b \in Codes : b # c => authorization'[b] = authorization[b]
    BY <1>12 DEF IInv, TypeOK, Start, Deny, Expire, Move
  <2>2. \A k \in Polls : Issued(k)' => Issued(k)
    BY <2>1 DEF Issued
  <2>3. IssuedIsConsumed' /\ OneSessionPerCode'
    BY <2>1, <2>2, CodesStay
  <2> QED BY <1>0, <2>1, <2>3, PeopleStay, RevocationsStay DEF IInv
<1>13. ASSUME NEW c \in Codes, NEW p \in People, Approve(p, c) PROVE IInv'
  <2>1. /\ UNCHANGED <<person, session, request, lock>>
        /\ authorization[c] = "pending" /\ IsAdmin(p)
        /\ \A b \in Codes : b # c => authorization'[b] = authorization[b]
        /\ installation' = [installation EXCEPT ![DeviceOf[c]] =
             [owner |-> p, email |-> person[p].email, revoked |-> FALSE]]
    BY <1>13 DEF IInv, TypeOK, Approve, Move
  <2>2. \A k \in Polls : Issued(k)' => Issued(k)
    BY <2>1 DEF Issued
  <2>3. IssuedIsConsumed' /\ OneSessionPerCode'
    BY <2>1, <2>2, CodesStay
  <2>4. InstallationsAreBacked'
    <3>1. ASSUME NEW d \in Devices, d # DeviceOf[c]
          PROVE  installation'[d] = installation[d]
      BY <2>1, <3>1 DEF IInv, TypeOK
    <3>2. /\ installation'[DeviceOf[c]].owner = p
          /\ installation'[DeviceOf[c]].email = person[p].email
      BY <2>1 DEF IInv, TypeOK
    <3> QED
      BY <2>1, <3>1, <3>2 DEF IInv, InstallationsAreBacked, Linked, IsAdmin, Present
  <2>5. SessionsAreBacked'
    BY <2>1 DEF IInv, SessionsAreBacked, Issued, IsAdmin, Present
  <2> QED BY <1>0, <2>1, <2>3, <2>4, <2>5, PeopleStay DEF IInv
<1>14. ASSUME NEW k \in Polls, PollRefused(k) \/ PollApproved(k) \/ PollDies(k) PROVE IInv'
  <2>1. UNCHANGED <<person, installation, session, request, lock>>
    BY <1>14 DEF PollRefused, PollApproved, PollDies
  <2>2. \A c \in Codes : authorization[c] \in {"consumed", "expired"} =>
                          authorization'[c] \in {"consumed", "expired"}
    BY <1>14 DEF IInv, TypeOK, PollRefused, PollApproved, PollDies
  <2>3. \A j \in Polls : Issued(j)' => Issued(j)
    BY <2>1 DEF Issued
  <2> QED BY <1>0, <2>1, <2>2, <2>3, PeopleStay, RevocationsStay, CodesStay DEF IInv
<1>15. ASSUME NEW k \in Polls, PollIssues(k) PROVE IInv'
  <2>1. UNCHANGED <<person, installation, request, lock>>
    BY <1>15 DEF PollIssues
  <2>2. InstallationsAreBacked'
    BY <2>1 DEF IInv, InstallationsAreBacked, Linked, IsAdmin, Present
  <2> QED BY <1>0, <1>15, <2>1, <2>2, Issues, PeopleStay DEF IInv
<1>16. CASE UNCHANGED vars
  <2>1. UNCHANGED <<person, installation, session, authorization, request, lock>>
    BY <1>16 DEF vars
  <2> QED BY <1>8, <2>1, PeopleStay
<1> QED
  BY <1>1, <1>2, <1>3, <1>4, <1>5, <1>6, <1>7, <1>9, <1>10, <1>11, <1>12, <1>13, <1>14,
     <1>15, <1>16
  DEF Next
-----------------------------------------------------------------------------
(* What it gives *)

\* The invariant holds in every reachable state.
LEMMA Invariance == Spec => []IInv
<1> QED BY InitIInv, NextIInv, PTL DEF Spec

\* An install with people has an administrator, whatever requests meet.
THEOREM AdministratorRemains == Spec => []AnAdminRemains
<1>1. IInv => AnAdminRemains
  BY DEF IInv
<1> QED BY <1>1, Invariance, PTL

\* No session that authenticates outlives the authority it was given with.
THEOREM SessionsBacked == Spec => []LiveSessionsAreBacked
<1>1. IInv => LiveSessionsAreBacked
  <2> SUFFICES ASSUME IInv, NEW k \in Polls, Live(k)
               PROVE  /\ IsAdmin(installation[DeviceIn(k)].owner)
                      /\ \E p \in People : IsAdmin(p) /\ person[p].email = session[k].email
    BY DEF LiveSessionsAreBacked
  <2>1. DeviceIn(k) \in Devices
    BY CodesAssumption, DevicesAssumption DEF DeviceIn
  <2> QED BY <2>1 DEF IInv, Live, InstallationsAreBacked, SessionsAreBacked
<1> QED BY <1>1, Invariance, PTL

\* A code yields one session at most.
THEOREM CodeYieldsOnce == Spec => []OneSessionPerCode
<1>1. IInv => OneSessionPerCode
  BY DEF IInv
<1> QED BY <1>1, Invariance, PTL
-----------------------------------------------------------------------------
(* Domain health *)

\* A run becomes row, and no other changes.
Becomes(r, row) == row \in Run /\ run' = [run EXCEPT ![r] = row]

LEMMA BecomesFacts ==
  ASSUME HealthType, NEW r \in Runs, NEW row, Becomes(r, row)
  PROVE  /\ run' \in [Runs -> Run]
         /\ run'[r] = row
         /\ \A s \in Runs \ {r} : run'[s] = run[s]
BY DEF Becomes, HealthType

LEMMA NothingType == Nothing \in [Domains -> Nat \cup {Null}] /\ Nothing \in [Domains -> Facts \cup {Null}]
BY DEF Nothing

LEMMA IdleType == Idle \in Run
BY NothingType, DaysAssumption DEF Idle, Run, Places, Days

LEMMA GoesTo ==
  ASSUME HealthType, NEW r \in Runs, NEW place \in Places, Goes(r, place)
  PROVE  \E row : /\ Becomes(r, row)
                  /\ row.at = place /\ row.held = run[r].held
                  /\ row.refreshes = run[r].refreshes /\ row.known = run[r].known
<1>1. PICK row : row = [run[r] EXCEPT !.at = place]
  OBVIOUS
<1>2. run[r] \in Run
  BY DEF HealthType
<1>3. run' = [run EXCEPT ![r] = row]
  BY <1>1 DEF Goes
<1>4. row \in Run
  BY <1>1, <1>2 DEF Run
<1>5. /\ row.at = place /\ row.held = run[r].held
      /\ row.refreshes = run[r].refreshes /\ row.known = run[r].known
  BY <1>1, <1>2 DEF Run
<1> QED
  BY <1>3, <1>4, <1>5 DEF Becomes

LEMMA OverAt ==
  ASSUME HealthType, NEW r \in Runs, NEW place \in Places, IsOver(r, place)
  PROVE  \E row : /\ Becomes(r, row)
                  /\ row.at = place /\ row.held = run[r].held
                  /\ row.refreshes = run[r].refreshes
<1>1. PICK row : row = [Idle EXCEPT !.at = place, !.held = run[r].held, !.refreshes = run[r].refreshes]
  OBVIOUS
<1>2. run[r] \in Run
  BY DEF HealthType
<1>3. run' = [run EXCEPT ![r] = row]
  BY <1>1 DEF IsOver
<1>4. PICK idle : idle = Idle
  OBVIOUS
<1>5. idle \in Run
  BY <1>4, IdleType
<1>6. row = [idle EXCEPT !.at = place, !.held = run[r].held, !.refreshes = run[r].refreshes]
  BY <1>1, <1>4
<1>7. row \in Run
  BY <1>2, <1>5, <1>6 DEF Run
<1>8. row.at = place /\ row.held = run[r].held /\ row.refreshes = run[r].refreshes
  BY <1>2, <1>5, <1>6 DEF Run
<1> QED
  BY <1>3, <1>7, <1>8 DEF Becomes

LEMMA EndsIdle ==
  ASSUME HealthType, NEW r \in Runs, Ends(r)
  PROVE  Becomes(r, Idle)
BY IdleType DEF Becomes, Ends

LEMMA IdleFields == Idle.at = "idle" /\ Idle.held = {} /\ Idle.refreshes = Nothing
BY DEF Idle

\* What each step of a run makes of it.
LEMMA ClaimRow ==
  ASSUME HealthType, NEW r \in Runs, Claim(r)
  PROVE  \E row : /\ Becomes(r, row)
                  /\ row.at \in {"sorted", "claimed"}
                  /\ row.held = {e \in Events : Claimable(e)}
                  /\ row.refreshes = run[r].refreshes
<1>1. PICK es : es = {e \in Events : Claimable(e)}
  OBVIOUS
<1>2. PICK place \in {"sorted", "claimed"} : place = IF es = {} THEN "sorted" ELSE "claimed"
  OBVIOUS
<1>3. PICK row : row = [run[r] EXCEPT !.at = place, !.held = es]
  OBVIOUS
<1>4. run' = [run EXCEPT ![r].at = place, ![r].held = es]
  BY <1>1, <1>2 DEF Claim
<1>5. run[r] \in Run /\ run \in [Runs -> Run] /\ es \subseteq Events
  BY <1>1 DEF HealthType
<1>6. run' = [run EXCEPT ![r] = row]
  BY <1>3, <1>4, <1>5
<1>7. row \in Run /\ row.at = place /\ row.held = es /\ row.refreshes = run[r].refreshes
  BY <1>2, <1>3, <1>5 DEF Run, Places
<1> QED
  BY <1>1, <1>2, <1>6, <1>7 DEF Becomes

LEMMA SortRow ==
  ASSUME HealthType, NEW r \in Runs, Sort(r)
  PROVE  \E row : /\ Becomes(r, row)
                  /\ row.at = "sorted"
                  /\ row.held = run[r].held \ {e \in run[r].held : receipt[e].domain \notin monitored}
                  /\ row.refreshes = run[r].refreshes
<1>1. PICK es : es = {e \in run[r].held : receipt[e].domain \notin monitored}
  OBVIOUS
<1>3. PICK row : row = [run[r] EXCEPT !.at = "sorted", !.held = @ \ es]
  OBVIOUS
<1>4. run' = [run EXCEPT ![r].at = "sorted", ![r].held = @ \ es]
  BY <1>1 DEF Sort
<1>5. run[r] \in Run /\ run \in [Runs -> Run]
  BY DEF HealthType
<1>6. run' = [run EXCEPT ![r] = row]
  BY <1>3, <1>4, <1>5
<1>7. row \in Run /\ row.at = "sorted" /\ row.held = run[r].held \ es /\ row.refreshes = run[r].refreshes
  BY <1>3, <1>5 DEF Run, Places
<1> QED
  BY <1>1, <1>6, <1>7 DEF Becomes

LEMMA EnterRow ==
  ASSUME HealthType, NEW r \in Runs, Enter(r)
  PROVE  \E row : /\ Becomes(r, row)
                  /\ row.at = "entered" /\ row.held = run[r].held
                  /\ row.refreshes = run[r].refreshes
<1>1. PICK row : row = [run[r] EXCEPT !.at = "entered", !.targets = monitored, !.enabled = enabled]
  OBVIOUS
<1>2. run[r] \in Run /\ run \in [Runs -> Run] /\ monitored \subseteq Domains /\ enabled \in BOOLEAN
  BY DEF HealthType
<1>3. run' = [run EXCEPT ![r] = row]
  BY <1>1, <1>2 DEF Enter
<1>4. row \in Run
  BY <1>1, <1>2 DEF Run, Places
<1>5. row.at = "entered" /\ row.held = run[r].held /\ row.refreshes = run[r].refreshes
  BY <1>1, <1>2 DEF Run
<1> QED
  BY <1>3, <1>4, <1>5 DEF Becomes

LEMMA BeginRow ==
  ASSUME HealthType, NEW r \in Runs, Begin(r), \A d \in Domains : FromPorkbun(d) => asset[d].expiresAt \in Nat
  PROVE  \E row : /\ Becomes(r, row)
                  /\ row.at = "loaded" /\ row.held = run[r].held
                  /\ row.refreshes = run[r].refreshes
                  /\ \A d \in Domains : row.known[d] # Null => FromPorkbun(d) /\ row.known[d] = asset[d].expiresAt
<1>1. PICK known : known = [d \in Domains |->
         IF d \in run[r].targets /\ FromPorkbun(d) THEN asset[d].expiresAt ELSE Null]
  OBVIOUS
<1>2. PICK due : due = {d \in run[r].targets : IsDue(r, d)}
  OBVIOUS
<1>3. run[r] \in Run /\ run \in [Runs -> Run] /\ clock \in Days
  BY DEF HealthType
<1>4. run[r].targets \subseteq Domains
  BY <1>3 DEF Run
<1>5. due \subseteq Domains
  BY <1>2, <1>4
<1>6. known \in [Domains -> Nat \cup {Null}]
  BY <1>1
<1>7. PICK row : row = [run[r] EXCEPT !.at = "loaded", !.checkedAt = clock, !.targets = {},
                                      !.due = due, !.known = known]
  OBVIOUS
<1>8. run' = [run EXCEPT ![r].at = "loaded", ![r].checkedAt = clock, ![r].targets = {},
                         ![r].due = due, ![r].known = known]
  BY <1>1, <1>2 DEF Begin
<1>9. run' = [run EXCEPT ![r] = row]
  BY <1>3, <1>7, <1>8
<1>10. row \in Run
  BY <1>3, <1>5, <1>6, <1>7 DEF Run, Places, Working
<1>11. /\ row.at = "loaded" /\ row.held = run[r].held /\ row.refreshes = run[r].refreshes
       /\ row.known = known
  BY <1>3, <1>7 DEF Run
<1>12. \A d \in Domains : known[d] # Null => FromPorkbun(d) /\ known[d] = asset[d].expiresAt
  BY <1>1
<1> QED
  BY <1>9, <1>10, <1>11, <1>12 DEF Becomes

LEMMA FetchRow ==
  ASSUME HealthType, NEW r \in Runs, Fetch(r)
  PROVE  \E row :
           /\ Becomes(r, row)
           /\ row.at = "fetched" /\ row.held = run[r].held
           /\ \A d \in Domains :
                /\ row.refreshes[d] # Null /\ row.refreshes[d].source = "porkbun" =>
                     /\ row.refreshes[d].expiresAt = registrar[d].expiresAt
                     /\ row.known[d] = registrar[d].expiresAt
                /\ row.known[d] # Null => row.known[d] \in {registrar[d].expiresAt, run[r].known[d]}
<1>1. PICK outcome, answers :
        LET refreshes == Refreshes(r, outcome, answers)
        IN run' = [run EXCEPT ![r].at = "fetched", ![r].due = {}, ![r].refreshes = refreshes,
                              ![r].known = Known(r, refreshes)]
  BY DEF Fetch
<1>2. PICK refreshes : refreshes = Refreshes(r, outcome, answers)
  OBVIOUS
<1>3. PICK known : known = Known(r, refreshes)
  OBVIOUS
<1>4. /\ run[r] \in Run /\ run \in [Runs -> Run]
      /\ \A d \in Domains : registrar[d].expiresAt \in Nat
  BY DEF HealthType
<1>5. run[r].known \in [Domains -> Nat \cup {Null}]
  BY <1>4 DEF Run
<1>6. \A d \in Domains :
        \/ refreshes[d] = [source |-> "porkbun", expiresAt |-> registrar[d].expiresAt]
        \/ refreshes[d] = [source |-> "rdap", expiresAt |-> Null]
        \/ refreshes[d] = Null
  BY <1>2 DEF Refreshes
<1>7. refreshes \in [Domains -> Facts \cup {Null}]
  <2>1. DOMAIN refreshes = Domains /\ refreshes = [d \in Domains |-> refreshes[d]]
    BY <1>2 DEF Refreshes
  <2>2. ASSUME NEW d \in Domains
        PROVE  refreshes[d] \in Facts \cup {Null}
    <3>1. PICK expiresAt \in Nat : expiresAt = registrar[d].expiresAt
      BY <1>4
    <3>2. /\ [source |-> "porkbun", expiresAt |-> expiresAt] \in Facts
          /\ [source |-> "rdap", expiresAt |-> Null] \in Facts
      BY <3>1 DEF Facts
    <3> QED
      BY <3>1, <3>2, <1>6
  <2> QED
    BY <2>1, <2>2
<1>8. \A d \in Domains :
        known[d] = IF refreshes[d] = Null THEN run[r].known[d]
                   ELSE IF refreshes[d].source = "porkbun" THEN refreshes[d].expiresAt ELSE Null
  BY <1>3 DEF Known
<1>9. ASSUME NEW d \in Domains
      PROVE  /\ refreshes[d] # Null /\ refreshes[d].source = "porkbun" =>
                  /\ refreshes[d].expiresAt = registrar[d].expiresAt
                  /\ known[d] = registrar[d].expiresAt
             /\ known[d] # Null => known[d] \in {registrar[d].expiresAt, run[r].known[d]}
             /\ known[d] \in Nat \cup {Null}
  <2>1. PICK expiresAt \in Nat : expiresAt = registrar[d].expiresAt
    BY <1>4
  <2>2. PICK facts : facts = refreshes[d]
    OBVIOUS
  <2>6. known[d] = IF facts = Null THEN run[r].known[d]
                   ELSE IF facts.source = "porkbun" THEN facts.expiresAt ELSE Null
    BY <2>2, <1>8
  <2>7. run[r].known[d] \in Nat \cup {Null}
    BY <1>5
  <2>3. CASE facts = [source |-> "porkbun", expiresAt |-> expiresAt]
    <3>1. facts.source = "porkbun" /\ facts.expiresAt = expiresAt
      BY <2>3
    <3> QED
      BY <2>1, <2>2, <2>6, <2>7, <3>1
  <2>4. CASE facts = [source |-> "rdap", expiresAt |-> Null]
    <3>1. facts.source = "rdap"
      BY <2>4
    <3> QED
      BY <2>1, <2>2, <2>6, <2>7, <3>1
  <2>5. CASE facts = Null
    BY <2>1, <2>2, <2>5, <1>5, <1>8
  <2> QED
    BY <2>1, <2>2, <2>3, <2>4, <2>5, <1>6
<1>10. known \in [Domains -> Nat \cup {Null}]
  <2>1. known = [d \in Domains |-> known[d]]
    BY <1>3 DEF Known
  <2> QED
    BY <2>1, <1>9
<1>11. PICK row : row = [run[r] EXCEPT !.at = "fetched", !.due = {}, !.refreshes = refreshes, !.known = known]
  OBVIOUS
<1>12. run' = [run EXCEPT ![r].at = "fetched", ![r].due = {}, ![r].refreshes = refreshes, ![r].known = known]
  BY <1>1, <1>2, <1>3
<1>13. run' = [run EXCEPT ![r] = row]
  BY <1>4, <1>11, <1>12
<1>14. row \in Run
  BY <1>4, <1>7, <1>10, <1>11 DEF Run, Places, Working
<1>15. row.at = "fetched" /\ row.held = run[r].held /\ row.refreshes = refreshes /\ row.known = known
  BY <1>4, <1>11 DEF Run
<1> QED
  BY <1>9, <1>13, <1>14, <1>15 DEF Becomes

LEMMA TellRow ==
  ASSUME HealthType, NEW r \in Runs, Tell(r)
  PROVE  \E row : /\ Becomes(r, row)
                  /\ row.at = "told" /\ row.held = run[r].held
                  /\ row.refreshes = run[r].refreshes
                  /\ row.known = Nothing
<1>1. PICK nothing : nothing = Nothing
  OBVIOUS
<1>2. nothing \in [Domains -> Nat \cup {Null}]
  BY <1>1, NothingType
<1>3. PICK row : row = [run[r] EXCEPT !.at = "told", !.known = nothing]
  OBVIOUS
<1>4. run[r] \in Run /\ run \in [Runs -> Run]
  BY DEF HealthType
<1>5. run' = [run EXCEPT ![r] = row]
  BY <1>1, <1>3, <1>4 DEF Tell
<1>6. row \in Run
  BY <1>2, <1>3, <1>4 DEF Run, Places, Working
<1>7. row.at = "told" /\ row.held = run[r].held /\ row.refreshes = run[r].refreshes /\ row.known = nothing
  BY <1>3, <1>4 DEF Run
<1> QED
  BY <1>1, <1>5, <1>6, <1>7 DEF Becomes

\* The first invariant: a receipt a run has in hand is pending, bears its claim
\* and was charged an attempt; a pending receipt was charged for no more than
\* the runs that worked on it, but for the one that has it in hand.
Held(e) == \E r \in Runs : e \in run[r].held

Holding ==
  \A r \in Runs : \A e \in run[r].held :
    /\ e \in Events /\ Pending(e)
    /\ receipt[e].claim = r /\ receipt[e].attempts >= 1

Accounted ==
  \A e \in Events : Pending(e) =>
    \/ receipt[e].attempts <= receipt[e].tried
    \/ Held(e) /\ receipt[e].attempts <= receipt[e].tried + 1

IdleHoldsNothing == \A r \in Runs : At(r, "idle") => run[r].held = {}

Custody == Holding /\ Accounted /\ IdleHoldsNothing /\ DeadWasTried

\* A receipt as a run that had it in hand may leave it.
Left(e) ==
  /\ receipt'[e] \in Receipt
  /\ receipt'[e].domain = receipt[e].domain /\ receipt'[e].arrived = receipt[e].arrived
  /\ receipt'[e].status = "pending" => receipt'[e].attempts <= receipt'[e].tried
  /\ receipt'[e].status = "dead" => receipt'[e].tried >= MaxAttempts

AllMarks == {"processed", "ignored", "released", "deferred", "lost"}

LEMMA MarkedFacts ==
  ASSUME NEW row \in Receipt, row.status = "pending", row.attempts >= 1,
         row.attempts <= row.tried + 1, NEW mark \in AllMarks
  PROVE  /\ Marked(row, mark) \in Receipt
         /\ Marked(row, mark).domain = row.domain /\ Marked(row, mark).arrived = row.arrived
         /\ Marked(row, mark).status = "pending" => Marked(row, mark).attempts <= Marked(row, mark).tried
         /\ Marked(row, mark).status = "dead" => Marked(row, mark).tried >= MaxAttempts
         /\ Marked(row, mark).status = "processed" => mark = "processed"
<1>a. PICK new : new = Marked(row, mark)
  OBVIOUS
<1>0. SUFFICES /\ new \in Receipt
               /\ new.domain = row.domain /\ new.arrived = row.arrived
               /\ new.status = "pending" => new.attempts <= new.tried
               /\ new.status = "dead" => new.tried >= MaxAttempts
               /\ new.status = "processed" => mark = "processed"
  BY <1>a
<1>n. /\ row.attempts \in Nat /\ row.tried \in Nat /\ MaxAttempts \in Nat
      /\ row.attempts - 1 \in Nat
  BY BoundsAssumption DEF Receipt
<1>1. CASE mark = "released"
  <2>1. PICK status \in {"pending", "dead"} :
          status = IF row.attempts >= MaxAttempts THEN "dead" ELSE row.status
    OBVIOUS
  <2>2. PICK tried \in Nat : tried = row.tried + 1
    BY <1>n
  <2>3. new = [row EXCEPT !.claim = Null, !.tried = tried, !.status = status]
    BY <1>1, <1>a, <2>1, <2>2 DEF Marked, Released
  <2>4. new \in Receipt
    BY <2>1, <2>2, <2>3 DEF Receipt
  <2>5. /\ new.domain = row.domain /\ new.arrived = row.arrived
        /\ new.status = status /\ new.attempts = row.attempts /\ new.tried = tried
    BY <2>3 DEF Receipt
  <2> QED
    BY <1>n, <2>1, <2>2, <2>4, <2>5
<1>2. CASE mark = "deferred"
  <2>1. PICK attempts \in Nat : attempts = row.attempts - 1
    BY <1>n
  <2>2. new = [row EXCEPT !.claim = Null, !.attempts = attempts]
    BY <1>2, <1>a, <2>1 DEF Marked, Deferred
  <2>3. new \in Receipt
    BY <2>1, <2>2 DEF Receipt
  <2>4. /\ new.domain = row.domain /\ new.arrived = row.arrived
        /\ new.status = row.status /\ new.attempts = attempts /\ new.tried = row.tried
    BY <2>2 DEF Receipt
  <2> QED
    BY <1>n, <2>1, <2>3, <2>4
<1>3. CASE mark = "lost"
  <2>1. new = [row EXCEPT !.tried = row.tried + 1]
    BY <1>3, <1>a DEF Marked
  <2>2. new \in Receipt
    BY <1>n, <2>1 DEF Receipt
  <2>3. /\ new.domain = row.domain /\ new.arrived = row.arrived
        /\ new.status = row.status /\ new.attempts = row.attempts /\ new.tried = row.tried + 1
    BY <2>1 DEF Receipt
  <2> QED
    BY <1>n, <2>2, <2>3
<1>4. CASE mark \in {"processed", "ignored"}
  <2>1. new = [row EXCEPT !.status = mark, !.claim = Null]
    BY <1>4, <1>a DEF Marked
  <2>2. new \in Receipt
    BY <1>4, <2>1 DEF Receipt
  <2>3. new.domain = row.domain /\ new.arrived = row.arrived /\ new.status = mark
    BY <2>1 DEF Receipt
  <2> QED
    BY <1>4, <2>2, <2>3
<1> QED
  BY <1>1, <1>2, <1>3, <1>4 DEF AllMarks

LEMMA HeldFacts ==
  ASSUME HealthType, Custody, NEW r \in Runs, NEW e \in run[r].held
  PROVE  /\ e \in Events
         /\ receipt[e] \in Receipt /\ receipt[e].status = "pending" /\ receipt[e].claim = r
         /\ receipt[e].attempts >= 1 /\ receipt[e].attempts <= receipt[e].tried + 1
<1>1. /\ e \in Events /\ Pending(e)
      /\ receipt[e].claim = r /\ receipt[e].attempts >= 1
  BY DEF Custody, Holding
<1>2. receipt[e] \in Receipt /\ receipt[e].status = "pending"
  BY <1>1 DEF Pending, HealthType
<1>3. receipt[e].attempts \in Nat /\ receipt[e].tried \in Nat
  BY <1>2 DEF Receipt
<1>4. receipt[e].attempts <= receipt[e].tried + 1
  BY <1>1, <1>3 DEF Custody, Accounted
<1> QED
  BY <1>1, <1>2, <1>4

\* What becomes of the receipts a run settles, and of the others.
LEMMA SettleFacts ==
  ASSUME HealthType, Custody, NEW r \in Runs, NEW wanted, NEW failures \in {0, 1},
         Settle(r, wanted, failures), DOMAIN wanted \subseteq run[r].held
  PROVE  /\ trouble' \in 0 .. MaxTrouble
         /\ receipt' \in [Events -> Receipt \cup {Null}]
         /\ \A e \in Events \ DOMAIN wanted : receipt'[e] = receipt[e]
         /\ \A e \in DOMAIN wanted :
              /\ Left(e)
              /\ receipt'[e].status = "processed" => "processed" \in Marks(wanted[e])
<1>1. PICK mark \in [DOMAIN wanted -> AllMarks] :
        /\ \A e \in DOMAIN wanted : mark[e] \in Marks(wanted[e])
        /\ receipt' = [e \in Events |->
             IF e \in DOMAIN wanted /\ Pending(e) /\ receipt[e].claim = r
             THEN Marked(receipt[e], mark[e]) ELSE receipt[e]]
        /\ Trouble(failures + IF mark = wanted THEN 0 ELSE 1)
  BY DEF Settle, AllMarks
<1>2. trouble' \in 0 .. MaxTrouble
  <2>1. PICK n \in Nat : n = failures + IF mark = wanted THEN 0 ELSE 1
    OBVIOUS
  <2>2. trouble + n <= MaxTrouble /\ trouble' = trouble + n
    BY <1>1, <2>1 DEF Trouble
  <2> QED
    BY <2>1, <2>2, BoundsAssumption DEF HealthType
<1>3. \A e \in Events \ DOMAIN wanted : receipt'[e] = receipt[e]
  BY <1>1
<1>4. ASSUME NEW e \in DOMAIN wanted
      PROVE  /\ e \in Events /\ Left(e)
             /\ receipt'[e].status = "processed" => "processed" \in Marks(wanted[e])
  <2>1. /\ e \in Events
        /\ receipt[e] \in Receipt /\ receipt[e].status = "pending" /\ receipt[e].claim = r
        /\ receipt[e].attempts >= 1 /\ receipt[e].attempts <= receipt[e].tried + 1
    BY <1>4, HeldFacts
  <2>2. Pending(e)
    BY <1>4 DEF Custody, Holding
  <2>3. receipt'[e] = Marked(receipt[e], mark[e])
    BY <1>1, <1>4, <2>1, <2>2
  <2>4. mark[e] \in AllMarks /\ mark[e] \in Marks(wanted[e])
    BY <1>1, <1>4
  <2> QED
    BY <2>1, <2>3, <2>4, MarkedFacts DEF Left
<1>5. receipt' \in [Events -> Receipt \cup {Null}]
  <2>1. receipt' = [e \in Events |-> receipt'[e]]
    BY <1>1
  <2>2. \A e \in Events : receipt'[e] \in Receipt \cup {Null}
    BY <1>3, <1>4 DEF Left, HealthType
  <2> QED
    BY <2>1, <2>2
<1> QED
  BY <1>2, <1>3, <1>4, <1>5

\* A run that leaves some of what it has in hand behind.
LEMMA LeavesBehind ==
  ASSUME HealthType, Custody, NEW r \in Runs, NEW row, Becomes(r, row), NEW S, S \subseteq run[r].held,
         row.held = run[r].held \ S, row.at = "idle" => row.held = {},
         \A e \in S : Left(e), \A e \in Events \ S : receipt'[e] = receipt[e]
  PROVE  Custody'
<1>1. run'[r] = row /\ \A s \in Runs \ {r} : run'[s] = run[s]
  BY BecomesFacts
<1>2. \A s \in Runs : \A e \in run'[s].held : e \in run[s].held \ S
  <2>1. ASSUME NEW s \in Runs \ {r}, NEW e \in run[s].held, e \in S
        PROVE  FALSE
    <3>1. receipt[e].claim = s /\ receipt[e].claim = r
      BY <2>1, HeldFacts
    <3> QED
      BY <3>1
  <2> QED
    BY <1>1, <2>1
<1>3. Holding'
  <2>1. ASSUME NEW s \in Runs, NEW e \in run'[s].held
        PROVE  /\ e \in Events /\ Pending(e)'
               /\ receipt'[e].claim = s /\ receipt'[e].attempts >= 1
    <3>1. e \in run[s].held \ S
      BY <1>2, <2>1
    <3>2. /\ e \in Events /\ Pending(e)
          /\ receipt[e].claim = s /\ receipt[e].attempts >= 1
      BY <3>1 DEF Custody, Holding
    <3>3. receipt'[e] = receipt[e]
      BY <3>1, <3>2
    <3> QED
      BY <3>2, <3>3 DEF Pending
  <2> QED
    BY <2>1 DEF Holding
<1>4. Accounted'
  <2>1. ASSUME NEW e \in Events, Pending(e)'
        PROVE  \/ receipt'[e].attempts <= receipt'[e].tried
               \/ Held(e)' /\ receipt'[e].attempts <= receipt'[e].tried + 1
    <3>1. CASE e \in S
      BY <2>1, <3>1 DEF Left, Pending
    <3>2. CASE e \notin S
      <4>1. receipt'[e] = receipt[e]
        BY <3>2
      <4>2. Pending(e)
        BY <2>1, <4>1 DEF Pending
      <4>3. Held(e) => Held(e)'
        BY <1>1, <3>2 DEF Held
      <4> QED
        BY <4>1, <4>2, <4>3 DEF Custody, Accounted
    <3> QED
      BY <3>1, <3>2
  <2> QED
    BY <2>1 DEF Accounted
<1>5. IdleHoldsNothing'
  BY <1>1 DEF Custody, IdleHoldsNothing, At
<1>6. DeadWasTried'
  <2>1. ASSUME NEW e \in Events, receipt'[e] # Null, receipt'[e].status = "dead"
        PROVE  receipt'[e].tried >= MaxAttempts
    <3>1. CASE e \in S
      BY <2>1, <3>1 DEF Left
    <3>2. CASE e \notin S
      BY <2>1, <3>2 DEF Custody, DeadWasTried
    <3> QED
      BY <3>1, <3>2
  <2> QED
    BY <2>1 DEF DeadWasTried
<1> QED
  BY <1>3, <1>4, <1>5, <1>6 DEF Custody

\* The second invariant.  Only the holder of the lease works, and everything it
\* may go by is at least as new as whatever a delivery was processed for, or may
\* yet be: the stored facts of the account, and what a working run knows.
Early   == {"idle", "claimed", "sorted", "entered", "deferred", "loaded"}
Lasting == {"stored", "told", "completed"}

Refreshed(r, d) == run[r].refreshes[d] # Null /\ run[r].refreshes[d].source = "porkbun"

Exclusive == \A r \in Runs : run[r].at \in Working => lease = r

EarlyIsEmpty == \A r \in Runs : run[r].at \in Early => run[r].refreshes = Nothing

ArrivalsBehind ==
  \A e \in Events : receipt[e] # Null =>
    receipt[e].arrived <= registrar[receipt[e].domain].expiresAt

\* What the account said is not ahead of it, and not behind the deliveries the
\* run had in hand when it asked.
Behind(facts, held, d) ==
  /\ facts.expiresAt \in Nat
  /\ facts.expiresAt <= registrar[d].expiresAt
  /\ \A e \in held : receipt[e].domain = d => receipt[e].arrived <= facts.expiresAt

RefreshesBehind ==
  \A r \in Runs, d \in Domains :
    Refreshed(r, d) => Behind(run[r].refreshes[d], run[r].held, d)

\* A date of the domain d that no processed delivery is ahead of, nor any that a
\* run that stored its facts has yet to decide about.
Covers(d, x) ==
  /\ \A e \in Events :
       receipt[e] # Null /\ receipt[e].status = "processed" /\ receipt[e].domain = d
         => receipt[e].arrived <= x
  /\ \A s \in Runs :
       run[s].at \in Lasting /\ Refreshed(s, d) => run[s].refreshes[d].expiresAt <= x

AssetsCover ==
  \A d \in Domains :
    FromPorkbun(d) => asset[d].expiresAt \in Nat /\ Covers(d, asset[d].expiresAt)

KnownCovers ==
  \A r \in Runs, d \in Domains :
    run[r].at \in Working /\ run[r].known[d] # Null => Covers(d, run[r].known[d])

KnownIsRefreshed ==
  \A r \in Runs, d \in Domains :
    run[r].at \in {"fetched", "stored"} /\ Refreshed(r, d) =>
      run[r].known[d] = run[r].refreshes[d].expiresAt

Fresh ==
  /\ Exclusive /\ EarlyIsEmpty
  /\ ArrivalsBehind /\ RefreshesBehind
  /\ AssetsCover /\ KnownCovers /\ KnownIsRefreshed

\* What a step of the run r may do to the receipts: it processes only those it
\* has in hand, of domains it refreshed from the account.
ReceiptsKept(r) ==
  \A e \in Events :
    /\ receipt'[e] # Null <=> receipt[e] # Null
    /\ receipt'[e].domain = receipt[e].domain /\ receipt'[e].arrived = receipt[e].arrived
    /\ receipt'[e].status = "processed" =>
         \/ receipt[e].status = "processed"
         \/ At(r, "completed") /\ e \in run[r].held /\ Refreshed(r, receipt[e].domain)

\* A run that stored nothing by this step makes no date fall behind.
LEMMA CoversKept ==
  ASSUME HealthType, Fresh, NEW r \in Runs, NEW row, Becomes(r, row), ReceiptsKept(r),
         row.at \in Lasting => run[r].at \in Lasting /\ row.refreshes = run[r].refreshes,
         NEW d \in Domains, NEW x \in Nat, Covers(d, x)
  PROVE  Covers(d, x)'
<1>1. run'[r] = row /\ \A s \in Runs \ {r} : run'[s] = run[s]
  BY BecomesFacts
<1>2. ASSUME NEW e \in Events, receipt'[e] # Null, receipt'[e].status = "processed",
             receipt'[e].domain = d
      PROVE  receipt'[e].arrived <= x
  <2>1. /\ receipt[e] # Null /\ receipt[e].domain = d /\ receipt'[e].arrived = receipt[e].arrived
        /\ \/ receipt[e].status = "processed"
           \/ At(r, "completed") /\ e \in run[r].held /\ Refreshed(r, d)
    BY <1>2 DEF ReceiptsKept
  <2>2. CASE receipt[e].status = "processed"
    BY <2>1, <2>2 DEF Covers
  <2>3. CASE At(r, "completed") /\ e \in run[r].held /\ Refreshed(r, d)
    <3>1. Behind(run[r].refreshes[d], run[r].held, d)
      BY <2>3 DEF Fresh, RefreshesBehind
    <3>2. run[r].refreshes[d].expiresAt \in Nat /\ receipt[e].arrived <= run[r].refreshes[d].expiresAt
      BY <2>1, <2>3, <3>1 DEF Behind
    <3>3. run[r].refreshes[d].expiresAt <= x
      BY <2>3 DEF Covers, Lasting, At
    <3>4. receipt[e].arrived \in Nat
      BY <2>1 DEF HealthType, Receipt
    <3> QED
      BY <2>1, <3>2, <3>3, <3>4
  <2> QED
    BY <2>1, <2>2, <2>3
<1>3. ASSUME NEW s \in Runs, run'[s].at \in Lasting, Refreshed(s, d)'
      PROVE  run'[s].refreshes[d].expiresAt <= x
  <2>1. run[s].at \in Lasting /\ run'[s].refreshes = run[s].refreshes
    BY <1>1, <1>3
  <2>2. Refreshed(s, d)
    BY <1>3, <2>1 DEF Refreshed
  <2> QED
    BY <2>1, <2>2 DEF Covers
<1> QED
  BY <1>2, <1>3 DEF Covers

\* A step of one run that leaves the stored facts alone.
LEMMA RunKeepsFresh ==
  ASSUME HealthType, Custody, Fresh, NEW r \in Runs, NEW row, Becomes(r, row), ReceiptsKept(r),
         registrar' = registrar, asset' = asset,
         row.held \subseteq Events,
         row.at \in Early => row.refreshes = Nothing,
         \A d \in Domains : row.refreshes[d] # Null /\ row.refreshes[d].source = "porkbun" =>
           Behind(row.refreshes[d], row.held, d),
         row.at \in Lasting => run[r].at \in Lasting /\ row.refreshes = run[r].refreshes,
         row.at \in Working =>
           /\ lease' = r
           /\ \A d \in Domains : row.known[d] # Null => Covers(d, row.known[d]),
         row.at \in {"fetched", "stored"} =>
           \A d \in Domains : row.refreshes[d] # Null /\ row.refreshes[d].source = "porkbun" =>
             row.known[d] = row.refreshes[d].expiresAt,
         \A s \in Runs \ {r} : run[s].at \in Working => lease' = lease
  PROVE  Fresh'
<1>1. run'[r] = row /\ \A s \in Runs \ {r} : run'[s] = run[s]
  BY BecomesFacts
<1>2. \A d \in Domains, x \in Nat : Covers(d, x) => Covers(d, x)'
  BY CoversKept
<1>3. Exclusive'
  BY <1>1 DEF Fresh, Exclusive
<1>4. EarlyIsEmpty'
  BY <1>1 DEF Fresh, EarlyIsEmpty
<1>5. ArrivalsBehind'
  BY DEF Fresh, ArrivalsBehind, ReceiptsKept
<1>6. RefreshesBehind'
  <2>1. ASSUME NEW s \in Runs, NEW d \in Domains, Refreshed(s, d)'
        PROVE  Behind(run'[s].refreshes[d], run'[s].held, d)
    <3>1. CASE s = r
      BY <1>1, <2>1, <3>1 DEF Refreshed
    <3>2. CASE s # r
      BY <1>1, <2>1, <3>2 DEF Refreshed, Fresh, RefreshesBehind
    <3> QED
      BY <3>1, <3>2
  <2>2. \A s \in Runs : run'[s].held \subseteq Events
    BY <1>1 DEF HealthType, Run
  <2>3. ASSUME NEW s \in Runs, NEW d \in Domains, Refreshed(s, d)'
        PROVE  Behind(run[s].refreshes[d], run[s].held, d)'
    <3>1. PICK facts, held : facts = run'[s].refreshes[d] /\ held = run'[s].held
      OBVIOUS
    <3>2. Behind(facts, held, d) /\ held \subseteq Events
      BY <2>1, <2>2, <2>3, <3>1
    <3>3. Behind(facts, held, d)'
      BY <3>2 DEF Behind, ReceiptsKept
    <3> QED
      BY <3>1, <3>3 DEF Behind
  <2> QED
    BY <2>3 DEF RefreshesBehind
<1>7. AssetsCover'
  <2>1. ASSUME NEW d \in Domains, FromPorkbun(d)'
        PROVE  (asset[d].expiresAt \in Nat /\ Covers(d, asset[d].expiresAt))'
    <3>1. PICK x : x = asset[d].expiresAt
      OBVIOUS
    <3>2. x \in Nat /\ Covers(d, x)
      BY <2>1, <3>1 DEF Fresh, AssetsCover, FromPorkbun
    <3>3. Covers(d, x)'
      BY <1>2, <3>2
    <3> QED
      BY <3>1, <3>2, <3>3 DEF Covers
  <2> QED
    BY <2>1 DEF AssetsCover
<1>8. KnownCovers'
  <2>1. ASSUME NEW s \in Runs, NEW d \in Domains, run'[s].at \in Working, run'[s].known[d] # Null
        PROVE  Covers(d, run[s].known[d])'
    <3>1. PICK x : x = run'[s].known[d]
      OBVIOUS
    <3>2. Covers(d, x)
      BY <1>1, <2>1, <3>1 DEF Fresh, KnownCovers
    <3>3. x \in Nat
      <4>1. run'[s] \in Run
        BY BecomesFacts
      <4>2. run'[s].known \in [Domains -> Nat \cup {Null}]
        BY <4>1 DEF Run
      <4> QED
        BY <2>1, <3>1, <4>2
    <3>4. Covers(d, x)'
      BY <1>2, <3>2, <3>3
    <3> QED
      BY <3>1, <3>4 DEF Covers
  <2> QED
    BY <2>1 DEF KnownCovers
<1>9. KnownIsRefreshed'
  BY <1>1 DEF Fresh, KnownIsRefreshed, Refreshed
<1> QED
  BY <1>3, <1>4, <1>5, <1>6, <1>7, <1>8, <1>9 DEF Fresh

\* The step that stores them.
LEMMA ReconcileKeepsFresh ==
  ASSUME HealthType, Custody, Fresh, NEW r \in Runs, Reconcile(r)
  PROVE  Fresh'
<1>1. PICK row : /\ Becomes(r, row)
                 /\ row.at = "stored" /\ row.held = run[r].held
                 /\ row.refreshes = run[r].refreshes /\ row.known = run[r].known
  BY GoesTo DEF Reconcile, Places, Working
<1>2. run'[r] = row /\ \A s \in Runs \ {r} : run'[s] = run[s]
  BY <1>1, BecomesFacts
<1>3. PICK pruned \in SUBSET {d \in Domains \ monitored : run[r].refreshes[d] = Null} :
        asset' = [d \in Domains |-> IF d \in pruned THEN Null ELSE Reconciled(r, d)]
  BY DEF Reconcile
<1>4. /\ registrar' = registrar /\ receipt' = receipt /\ lease' = lease /\ run[r].at = "fetched"
  BY DEF Reconcile, outside, At
<1>5. \A s \in Runs : run[s].at \in Working => s = r
  BY <1>4 DEF Fresh, Exclusive, Working
<1>6. \A s \in Runs : /\ run'[s].refreshes = run[s].refreshes
                      /\ run'[s].held = run[s].held /\ run'[s].known = run[s].known
  BY <1>1, <1>2
\* Whatever covers a domain and is not behind what this run refreshed still does.
<1>7. ASSUME NEW d \in Domains, NEW x \in Nat, Covers(d, x),
             Refreshed(r, d) => x = run[r].refreshes[d].expiresAt
      PROVE  Covers(d, x)'
  <2>1. ASSUME NEW s \in Runs, run'[s].at \in Lasting, Refreshed(s, d)'
        PROVE  run'[s].refreshes[d].expiresAt <= x
    <3>1. Refreshed(s, d)
      BY <1>6, <2>1 DEF Refreshed
    <3>2. CASE s = r
      BY <1>6, <1>7, <3>1, <3>2
    <3>3. CASE s # r
      BY <1>2, <1>7, <2>1, <3>1, <3>3 DEF Covers
    <3> QED
      BY <3>2, <3>3
  <2> QED
    BY <1>4, <1>7, <2>1 DEF Covers
<1>8. Exclusive'
  BY <1>1, <1>2, <1>4 DEF Fresh, Exclusive, Working
<1>9. EarlyIsEmpty'
  BY <1>1, <1>2 DEF Fresh, EarlyIsEmpty, Early
<1>10. ArrivalsBehind'
  BY <1>4 DEF Fresh, ArrivalsBehind
<1>11. RefreshesBehind'
  BY <1>4, <1>6 DEF Fresh, RefreshesBehind, Refreshed, Behind
<1>12. AssetsCover'
  <2>1. ASSUME NEW d \in Domains, FromPorkbun(d)'
        PROVE  (asset[d].expiresAt \in Nat /\ Covers(d, asset[d].expiresAt))'
    <3>1. PICK x : x = asset'[d].expiresAt
      OBVIOUS
    <3>2. asset'[d] # Null /\ asset'[d].source = "porkbun" /\ asset'[d] = Reconciled(r, d)
      BY <1>3, <2>1 DEF FromPorkbun
    <3>3. CASE run[r].refreshes[d] # Null
      <4>1. asset'[d] = [source |-> run[r].refreshes[d].source,
                         expiresAt |-> run[r].refreshes[d].expiresAt,
                         checkedAt |-> run[r].checkedAt]
        BY <3>2, <3>3 DEF Reconciled
      <4>2. Refreshed(r, d) /\ x = run[r].refreshes[d].expiresAt
        BY <3>1, <3>2, <3>3, <4>1 DEF Refreshed
      <4>3. x \in Nat
        BY <4>2 DEF Fresh, RefreshesBehind, Behind
      <4>4. run[r].known[d] = x
        BY <4>2, <1>4 DEF Fresh, KnownIsRefreshed
      <4>5. x # Null
        BY <4>3, NullAssumption
      <4>6. Covers(d, x)
        BY <4>4, <4>5, <1>4 DEF Fresh, KnownCovers, Working
      <4>7. Covers(d, x)'
        BY <4>2, <4>3, <4>6, <1>7
      <4> QED
        BY <3>1, <4>3, <4>7 DEF Covers
    <3>4. CASE run[r].refreshes[d] = Null
      <4>1. asset'[d] = asset[d]
        <5>1. asset'[d] \in {[source |-> "rdap", expiresAt |-> Null, checkedAt |-> Null], asset[d]}
          BY <3>2, <3>4 DEF Reconciled
        <5>2. [source |-> "rdap", expiresAt |-> Null, checkedAt |-> Null].source # "porkbun"
          OBVIOUS
        <5> QED
          BY <3>2, <5>1, <5>2
      <4>2. x \in Nat /\ Covers(d, x)
        BY <3>1, <3>2, <4>1 DEF Fresh, AssetsCover, FromPorkbun
      <4>3. Covers(d, x)'
        BY <3>4, <4>2, <1>7 DEF Refreshed
      <4> QED
        BY <3>1, <4>2, <4>3 DEF Covers
    <3> QED
      BY <3>3, <3>4
  <2> QED
    BY <2>1 DEF AssetsCover
<1>13. KnownCovers'
  <2>1. ASSUME NEW s \in Runs, NEW d \in Domains, run'[s].at \in Working, run'[s].known[d] # Null
        PROVE  Covers(d, run[s].known[d])'
    <3>1. s = r /\ run[r].at \in Working
      BY <1>2, <1>4, <1>5, <2>1 DEF Working
    <3>2. PICK x : x = run[r].known[d]
      OBVIOUS
    <3>3. x = run'[s].known[d] /\ x # Null
      BY <1>6, <2>1, <3>1, <3>2
    <3>4. Covers(d, x)
      BY <3>1, <3>2, <3>3 DEF Fresh, KnownCovers
    <3>5. x \in Nat
      <4>1. run[r].known \in [Domains -> Nat \cup {Null}]
        BY DEF HealthType, Run
      <4> QED
        BY <3>2, <3>3, <4>1
    <3>6. Refreshed(r, d) => x = run[r].refreshes[d].expiresAt
      BY <1>4, <3>2 DEF Fresh, KnownIsRefreshed
    <3>7. Covers(d, x)'
      BY <3>4, <3>5, <3>6, <1>7
    <3> QED
      BY <3>3, <3>7 DEF Covers
  <2> QED
    BY <2>1 DEF KnownCovers
<1>14. KnownIsRefreshed'
  BY <1>1, <1>2, <1>4 DEF Fresh, KnownIsRefreshed, Refreshed
<1> QED
  BY <1>8, <1>9, <1>10, <1>11, <1>12, <1>13, <1>14 DEF Fresh

HealthSound == HealthType /\ Custody /\ Fresh

LEMMA HealthBegins ==
  ASSUME HealthInit
  PROVE  HealthSound
<1>1. \A r \in Runs : run[r] = Idle
  BY DEF HealthInit
<1>2. PICK idle : idle = Idle
  OBVIOUS
<1>3. /\ idle \in Run /\ idle.at = "idle" /\ idle.held = {} /\ idle.refreshes = Nothing
      /\ \A r \in Runs : run[r] = idle
  BY <1>1, <1>2, IdleType, IdleFields
<1>4. /\ \A e \in Events : receipt[e] = Null
      /\ \A d \in Domains : asset[d] = Null /\ Nothing[d] = Null
  BY DEF HealthInit, Nothing
<1>5. HealthType
  <2>1. 0 \in Days /\ 0 \in 0 .. MaxChanges /\ 0 \in 0 .. MaxTrouble
    BY DaysAssumption, BoundsAssumption DEF Days
  <2>2. registrar \in [Domains -> [covered : BOOLEAN, expiresAt : Nat]]
    BY DaysAssumption DEF HealthInit
  <2>3. run = [r \in Runs |-> idle]
    BY <1>2 DEF HealthInit
  <2>4. run \in [Runs -> Run]
    BY <1>3, <2>3
  <2>5. asset = [d \in Domains |-> Null]
    BY DEF HealthInit, Nothing
  <2> QED
    BY <2>1, <2>2, <2>4, <2>5 DEF HealthInit, HealthType
<1>6. Custody
  BY <1>3, <1>4 DEF Custody, Holding, Accounted, IdleHoldsNothing, DeadWasTried, Pending, At
<1>7. \A r \in Runs, d \in Domains : ~Refreshed(r, d)
  BY <1>3, <1>4 DEF Refreshed
<1>8. Fresh
  BY <1>3, <1>4, <1>7
  DEF Fresh, Exclusive, EarlyIsEmpty, ArrivalsBehind, RefreshesBehind, AssetsCover, KnownCovers,
      KnownIsRefreshed, FromPorkbun, Working
<1> QED
  BY <1>5, <1>6, <1>8 DEF HealthSound

\* Steps outside the cron; a registration is renewed, never shortened.
LEMMA OutsideKeeps ==
  ASSUME HealthSound, HealthType',
         receipt' = receipt, run' = run, asset' = asset, lease' = lease,
         \A d \in Domains : registrar'[d].expiresAt >= registrar[d].expiresAt
  PROVE  HealthSound'
<1>1. HealthType
  BY DEF HealthSound
<1>2. Custody'
  BY DEF HealthSound, Custody, Holding, Accounted, IdleHoldsNothing, DeadWasTried, Pending, Held, At
<1>3. \A d \in Domains : registrar[d].expiresAt \in Nat /\ registrar'[d].expiresAt \in Nat
  BY <1>1 DEF HealthType
<1>4. \A r \in Runs, d \in Domains : Refreshed(r, d)' <=> Refreshed(r, d)
  BY DEF Refreshed
<1>5. \A d \in Domains : \A x : Covers(d, x)' <=> Covers(d, x)
  BY <1>4 DEF Covers
<1>6. ArrivalsBehind'
  <2>1. \A e \in Events : receipt[e] # Null => receipt[e].domain \in Domains /\ receipt[e].arrived \in Nat
    BY <1>1 DEF HealthType, Receipt
  <2> QED
    BY <1>3, <2>1 DEF HealthSound, Fresh, ArrivalsBehind
<1>7. RefreshesBehind'
  <2>1. ASSUME NEW r \in Runs, NEW d \in Domains, Refreshed(r, d)
        PROVE  Behind(run[r].refreshes[d], run[r].held, d)'
    <3>1. Behind(run[r].refreshes[d], run[r].held, d)
      BY <2>1 DEF HealthSound, Fresh, RefreshesBehind
    <3> QED
      BY <1>3, <3>1 DEF Behind
  <2> QED
    BY <1>4, <2>1 DEF RefreshesBehind
<1>8. AssetsCover'
  <2>1. ASSUME NEW d \in Domains, FromPorkbun(d)'
        PROVE  (asset[d].expiresAt \in Nat /\ Covers(d, asset[d].expiresAt))'
    <3>1. PICK x : x = asset[d].expiresAt
      OBVIOUS
    <3>2. x \in Nat /\ Covers(d, x)
      BY <2>1, <3>1 DEF HealthSound, Fresh, AssetsCover, FromPorkbun
    <3>3. Covers(d, x)'
      BY <1>5, <3>2
    <3> QED
      BY <3>1, <3>2, <3>3 DEF Covers
  <2> QED
    BY <2>1 DEF AssetsCover
<1>9. KnownCovers'
  <2>1. ASSUME NEW r \in Runs, NEW d \in Domains, run'[r].at \in Working, run'[r].known[d] # Null
        PROVE  Covers(d, run[r].known[d])'
    <3>1. PICK x : x = run[r].known[d]
      OBVIOUS
    <3>2. Covers(d, x)
      BY <2>1, <3>1 DEF HealthSound, Fresh, KnownCovers
    <3>3. Covers(d, x)'
      BY <1>5, <3>2
    <3> QED
      BY <3>1, <3>3 DEF Covers
  <2> QED
    BY <2>1 DEF KnownCovers
<1>10. Exclusive' /\ EarlyIsEmpty' /\ KnownIsRefreshed'
  BY DEF HealthSound, Fresh, Exclusive, EarlyIsEmpty, KnownIsRefreshed, Refreshed
<1> QED
  BY <1>2, <1>6, <1>7, <1>8, <1>9, <1>10 DEF HealthSound, Fresh

LEMMA ChangesKeep ==
  ASSUME HealthSound,
         \/ Tick \/ SwitchAlerts
         \/ \E d \in Domains : Renew(d) \/ Transfer(d) \/ Configure(d)
  PROVE  HealthSound'
<1>1. HealthType
  BY DEF HealthSound
<1>2. receipt' = receipt /\ run' = run /\ asset' = asset /\ lease' = lease
  BY DEF Tick, SwitchAlerts, Renew, Transfer, Configure, stored
<1>3. /\ registrar' \in [Domains -> [covered : BOOLEAN, expiresAt : Nat]]
      /\ \A d \in Domains : registrar'[d].expiresAt >= registrar[d].expiresAt
  <2>0. registrar \in [Domains -> [covered : BOOLEAN, expiresAt : Nat]] /\ Term \in Nat
    BY <1>1, DaysAssumption DEF HealthType
  <2>1. CASE Tick \/ SwitchAlerts \/ \E d \in Domains : Configure(d)
    BY <2>0, <2>1 DEF Tick, SwitchAlerts, Configure
  <2>2. ASSUME NEW d \in Domains, Renew(d)
        PROVE  /\ registrar' \in [Domains -> [covered : BOOLEAN, expiresAt : Nat]]
               /\ \A c \in Domains : registrar'[c].expiresAt >= registrar[c].expiresAt
    <3>1. registrar' = [registrar EXCEPT ![d].expiresAt = @ + Term]
      BY <2>2 DEF Renew
    <3> QED
      BY <2>0, <3>1
  <2>3. ASSUME NEW d \in Domains, Transfer(d)
        PROVE  /\ registrar' \in [Domains -> [covered : BOOLEAN, expiresAt : Nat]]
               /\ \A c \in Domains : registrar'[c].expiresAt >= registrar[c].expiresAt
    <3>1. PICK covered \in BOOLEAN : covered = ~registrar[d].covered
      OBVIOUS
    <3>2. registrar' = [registrar EXCEPT ![d].covered = covered]
      BY <2>3, <3>1 DEF Transfer
    <3> QED
      BY <2>0, <3>2
  <2> QED
    BY <2>1, <2>2, <2>3
<1>4. clock' \in Days /\ monitored' \subseteq Domains /\ enabled' \in BOOLEAN
  <2>1. MaxClock \in Nat
    BY DaysAssumption
  <2>2. clock' \in Days
    BY <1>1, <2>1 DEF HealthType, Days, Tick, SwitchAlerts, Renew, Transfer, Configure
  <2>3. monitored' \subseteq Domains
    BY <1>1 DEF HealthType, Tick, SwitchAlerts, Renew, Transfer, Configure
  <2>4. enabled' = enabled \/ enabled' = ~enabled
    BY DEF Tick, SwitchAlerts, Renew, Transfer, Configure
  <2> QED
    BY <1>1, <2>2, <2>3, <2>4 DEF HealthType
<1>5. changes' \in 0 .. MaxChanges /\ trouble' \in 0 .. MaxTrouble /\ alerts' \subseteq Alert
  <2>1. MaxChanges \in Nat
    BY BoundsAssumption
  <2> QED
    BY <1>1, <2>1 DEF HealthType, Tick, SwitchAlerts, Renew, Transfer, Configure, Change, stored
<1>6. HealthType'
  BY <1>1, <1>2, <1>3, <1>4, <1>5 DEF HealthType
<1> QED
  BY <1>2, <1>3, <1>6, OutsideKeeps

\* A delivery is nothing any run has in hand yet.
LEMMA DeliverKeeps ==
  ASSUME HealthSound, NEW e \in Events, NEW d \in Domains, Deliver(e, d)
  PROVE  HealthSound'
<1>1. HealthType /\ Custody /\ Fresh
  BY DEF HealthSound
<1>2. /\ receipt[e] = Null
      /\ run' = run /\ asset' = asset /\ lease' = lease /\ registrar' = registrar
  BY DEF Deliver, outside, stored
<1>3. PICK row : row = [domain |-> d, status |-> "pending", attempts |-> 0, claim |-> Null,
                        arrived |-> registrar[d].expiresAt, tried |-> 0]
  OBVIOUS
<1>4. registrar[d].expiresAt \in Nat
  BY <1>1 DEF HealthType
<1>5. /\ row \in Receipt /\ row # Null
      /\ row.domain = d /\ row.status = "pending" /\ row.attempts = 0 /\ row.tried = 0
      /\ row.arrived = registrar[d].expiresAt
  BY <1>3, <1>4, RowsAssumption DEF Receipt
<1>6. receipt' = [receipt EXCEPT ![e] = row]
  BY <1>3 DEF Deliver
<1>7. /\ receipt' \in [Events -> Receipt \cup {Null}]
      /\ receipt'[e] = row /\ \A c \in Events \ {e} : receipt'[c] = receipt[c]
  BY <1>1, <1>5, <1>6 DEF HealthType
<1>8. HealthType'
  BY <1>1, <1>2, <1>7 DEF HealthType, Deliver, outside, stored
<1>9. \A r \in Runs : e \notin run[r].held
  BY <1>1, <1>2 DEF Custody, Holding, Pending
<1>10. Custody'
  <2>1. Holding'
    <3>1. ASSUME NEW r \in Runs, NEW c \in run[r].held
          PROVE  /\ c \in Events /\ receipt'[c] # Null /\ receipt'[c].status = "pending"
                 /\ receipt'[c].claim = r /\ receipt'[c].attempts >= 1
      BY <1>1, <1>7, <1>9, <3>1 DEF Custody, Holding, Pending
    <3> QED
      BY <1>2, <3>1 DEF Holding, Pending
  <2>2. Accounted'
    <3>1. ASSUME NEW c \in Events, Pending(c)'
          PROVE  \/ receipt'[c].attempts <= receipt'[c].tried
                 \/ Held(c)' /\ receipt'[c].attempts <= receipt'[c].tried + 1
      <4>1. CASE c = e
        BY <1>5, <1>7, <4>1
      <4>2. CASE c # e
        <5>1. receipt'[c] = receipt[c] /\ Pending(c)
          BY <1>7, <3>1, <4>2 DEF Pending
        <5>2. Held(c)' <=> Held(c)
          BY <1>2 DEF Held
        <5> QED
          BY <1>1, <5>1, <5>2 DEF Custody, Accounted
      <4> QED
        BY <4>1, <4>2
    <3> QED
      BY <3>1 DEF Accounted
  <2>3. IdleHoldsNothing'
    BY <1>1, <1>2 DEF Custody, IdleHoldsNothing, At
  <2>4. DeadWasTried'
    <3>1. ASSUME NEW c \in Events, receipt'[c] # Null, receipt'[c].status = "dead"
          PROVE  receipt'[c].tried >= MaxAttempts
      <4>1. c # e
        BY <1>5, <1>7, <3>1
      <4> QED
        BY <1>1, <1>7, <3>1, <4>1 DEF Custody, DeadWasTried
    <3> QED
      BY <3>1 DEF DeadWasTried
  <2> QED
    BY <2>1, <2>2, <2>3, <2>4 DEF Custody
<1>11. \A c \in Domains : \A x : Covers(c, x) => Covers(c, x)'
  <2>1. ASSUME NEW c \in Domains, NEW x, Covers(c, x)
        PROVE  Covers(c, x)'
    <3>1. ASSUME NEW b \in Events, receipt'[b] # Null, receipt'[b].status = "processed",
                 receipt'[b].domain = c
          PROVE  receipt'[b].arrived <= x
      <4>1. b # e
        BY <1>5, <1>7, <3>1
      <4> QED
        BY <1>7, <2>1, <3>1, <4>1 DEF Covers
    <3>2. \A s \in Runs : Refreshed(s, c)' <=> Refreshed(s, c)
      BY <1>2 DEF Refreshed
    <3> QED
      BY <1>2, <2>1, <3>1, <3>2 DEF Covers
  <2> QED
    BY <2>1
<1>12. ArrivalsBehind'
  <2>1. ASSUME NEW c \in Events, receipt'[c] # Null
        PROVE  receipt'[c].arrived <= registrar[receipt'[c].domain].expiresAt
    <3>1. CASE c = e
      BY <1>4, <1>5, <1>7, <3>1
    <3>2. CASE c # e
      BY <1>1, <1>7, <2>1, <3>2 DEF Fresh, ArrivalsBehind
    <3> QED
      BY <3>1, <3>2
  <2> QED
    BY <1>2, <2>1 DEF ArrivalsBehind
<1>13. RefreshesBehind'
  <2>1. ASSUME NEW r \in Runs, NEW c \in Domains, Refreshed(r, c)
        PROVE  Behind(run[r].refreshes[c], run[r].held, c)'
    <3>1. Behind(run[r].refreshes[c], run[r].held, c)
      BY <1>1, <2>1 DEF Fresh, RefreshesBehind
    <3>2. \A b \in run[r].held : receipt'[b] = receipt[b]
      BY <1>1, <1>7, <1>9 DEF Custody, Holding
    <3> QED
      BY <1>2, <3>1, <3>2 DEF Behind
  <2> QED
    BY <1>2, <2>1 DEF RefreshesBehind, Refreshed
<1>14. AssetsCover'
  <2>1. ASSUME NEW c \in Domains, FromPorkbun(c)'
        PROVE  (asset[c].expiresAt \in Nat /\ Covers(c, asset[c].expiresAt))'
    <3>1. PICK x : x = asset[c].expiresAt
      OBVIOUS
    <3>2. x \in Nat /\ Covers(c, x)
      BY <1>1, <1>2, <2>1, <3>1 DEF Fresh, AssetsCover, FromPorkbun
    <3>3. Covers(c, x)'
      BY <1>11, <3>2
    <3> QED
      BY <1>2, <3>1, <3>2, <3>3 DEF Covers
  <2> QED
    BY <2>1 DEF AssetsCover
<1>15. KnownCovers'
  <2>1. ASSUME NEW r \in Runs, NEW c \in Domains, run'[r].at \in Working, run'[r].known[c] # Null
        PROVE  Covers(c, run[r].known[c])'
    <3>1. PICK x : x = run[r].known[c]
      OBVIOUS
    <3>2. Covers(c, x)
      BY <1>1, <1>2, <2>1, <3>1 DEF Fresh, KnownCovers
    <3>3. Covers(c, x)'
      BY <1>11, <3>2
    <3> QED
      BY <1>2, <3>1, <3>3 DEF Covers
  <2> QED
    BY <2>1 DEF KnownCovers
<1>16. Exclusive' /\ EarlyIsEmpty' /\ KnownIsRefreshed'
  BY <1>1, <1>2 DEF Fresh, Exclusive, EarlyIsEmpty, KnownIsRefreshed, Refreshed
<1> QED
  BY <1>8, <1>10, <1>12, <1>13, <1>14, <1>15, <1>16 DEF HealthSound, Fresh

\* What every step of a run leaves well-typed.
LEMMA RunKeepsType ==
  ASSUME HealthType, NEW r \in Runs, NEW row, Becomes(r, row),
         UNCHANGED outside, enabled' = enabled,
         receipt' \in [Events -> Receipt \cup {Null}],
         asset' \in [Domains -> Asset \cup {Null}], alerts' \subseteq Alert,
         lease' \in Runs \cup {Null}, trouble' \in 0 .. MaxTrouble
  PROVE  HealthType'
BY BecomesFacts DEF HealthType, outside

LEMMA TroubleType ==
  ASSUME HealthType, NEW n \in {0, 1}, Trouble(n)
  PROVE  trouble' \in 0 .. MaxTrouble
BY BoundsAssumption DEF HealthType, Trouble

LEMMA SameReceipts ==
  ASSUME HealthType, Custody, NEW r \in Runs, NEW row, Becomes(r, row), receipt' = receipt,
         row.held = run[r].held, row.at # "idle"
  PROVE  Custody' /\ ReceiptsKept(r)
<1>1. Custody'
  <2>1. PICK S : S = {}
    OBVIOUS
  <2> QED
    BY <2>1, LeavesBehind
<1> QED
  BY <1>1 DEF ReceiptsKept

LEMMA SettledKept ==
  ASSUME HealthType, Custody, NEW r \in Runs, NEW S, S \subseteq run[r].held,
         \A e \in Events \ S : receipt'[e] = receipt[e],
         \A e \in S :
           /\ Left(e)
           /\ receipt'[e].status = "processed" => At(r, "completed") /\ Refreshed(r, receipt[e].domain)
  PROVE  ReceiptsKept(r)
<1>1. \A e \in S : e \in Events /\ receipt[e] \in Receipt
  BY HeldFacts
<1>2. \A e \in S : receipt[e] # Null /\ receipt'[e] # Null
  BY <1>1, RowsAssumption DEF Left
<1> QED
  BY <1>1, <1>2 DEF ReceiptsKept, Left

\* A step that makes of the run's own facts no more than they were.
LEMMA QuietStep ==
  ASSUME HealthType, Custody, Fresh, NEW r \in Runs, NEW row, Becomes(r, row), ReceiptsKept(r),
         registrar' = registrar, asset' = asset, lease' = lease \/ run[r].at \in Working,
         row.held \subseteq run[r].held \/ run[r].at = "idle",
         row.refreshes = run[r].refreshes \/ row.refreshes = Nothing,
         row.at \in Early => run[r].at \in Early \/ row.refreshes = Nothing,
         row.at \in Lasting => run[r].at \in Lasting /\ row.refreshes = run[r].refreshes,
         row.at \in Working => run[r].at \in Working /\ lease' = lease /\ row.known = Nothing,
         row.at \notin {"fetched", "stored"}
  PROVE  Fresh'
<1>1. \A d \in Domains : Nothing[d] = Null
  BY DEF Nothing
<1>2. row.at \in Early => row.refreshes = Nothing
  BY DEF Fresh, EarlyIsEmpty
<1>3. row.held \subseteq Events
  BY DEF Becomes, Run
<1>4. ASSUME NEW d \in Domains, row.refreshes[d] # Null, row.refreshes[d].source = "porkbun"
      PROVE  Behind(row.refreshes[d], row.held, d)
  <2>1. row.refreshes = run[r].refreshes /\ row.refreshes # Nothing
    BY <1>1, <1>4
  <2>2. row.held \subseteq run[r].held
    BY <2>1 DEF Fresh, EarlyIsEmpty, Early
  <2>3. Behind(row.refreshes[d], run[r].held, d)
    BY <2>1, <1>4 DEF Fresh, RefreshesBehind, Refreshed
  <2> QED
    BY <2>2, <2>3 DEF Behind
<1>5. row.at \in Working => lease' = r /\ \A d \in Domains : row.known[d] = Null
  BY <1>1 DEF Fresh, Exclusive
<1>6. \A s \in Runs \ {r} : run[s].at \in Working => lease' = lease
  BY DEF Fresh, Exclusive
<1> QED
  BY <1>2, <1>3, <1>4, <1>5, <1>6, RunKeepsFresh

LEMMA ClaimKeeps ==
  ASSUME HealthSound, NEW r \in Runs, Claim(r)
  PROVE  HealthSound'
<1>1. HealthType /\ Custody /\ Fresh
  BY DEF HealthSound
<1>2. PICK row : /\ Becomes(r, row)
                 /\ row.at \in {"sorted", "claimed"}
                 /\ row.held = {e \in Events : Claimable(e)}
                 /\ row.refreshes = run[r].refreshes
  BY <1>1, ClaimRow
<1>3. /\ run'[r] = row /\ \A s \in Runs \ {r} : run'[s] = run[s]
  BY <1>1, <1>2, BecomesFacts
<1>4. run[r].at = "idle" /\ run[r].held = {}
  BY <1>1 DEF Custody, IdleHoldsNothing, Claim, At
\* What is claimable is in nobody's hands.
<1>5. ASSUME NEW e \in Events, Claimable(e), NEW s \in Runs, e \in run[s].held
      PROVE  FALSE
  <2>1. receipt[e].claim = s
    BY <1>1, <1>5 DEF Custody, Holding
  <2>2. s # Null
    BY NullAssumption
  <2> QED
    BY <1>5, <2>1, <2>2 DEF Claimable, Stale
<1>6. ASSUME NEW e \in Events, Claimable(e)
      PROVE  /\ receipt'[e] \in Receipt
             /\ receipt'[e].domain = receipt[e].domain /\ receipt'[e].arrived = receipt[e].arrived
             /\ receipt'[e].status = "pending" /\ receipt'[e].claim = r
             /\ receipt'[e].attempts >= 1 /\ receipt'[e].attempts <= receipt'[e].tried + 1
             /\ receipt[e] # Null /\ receipt'[e] # Null /\ receipt[e].status = "pending"
  <2>1. Pending(e) /\ ~Held(e)
    BY <1>5, <1>6 DEF Claimable, Held
  <2>2. receipt[e] \in Receipt /\ receipt[e].status = "pending" /\ receipt[e] # Null
    BY <1>1, <2>1 DEF Pending, HealthType
  <2>3. receipt[e].attempts <= receipt[e].tried
    BY <1>1, <2>1 DEF Custody, Accounted
  <2>4. receipt[e].attempts \in Nat /\ receipt[e].tried \in Nat
    BY <2>2 DEF Receipt
  <2>5. PICK attempts \in Nat : attempts = receipt[e].attempts + 1
    BY <2>4
  <2>6. receipt'[e] = [receipt[e] EXCEPT !.claim = r, !.attempts = attempts]
    BY <1>6, <2>5 DEF Claim
  <2>7. PICK new : new = receipt'[e]
    OBVIOUS
  <2>8. new = [receipt[e] EXCEPT !.claim = r, !.attempts = attempts]
    BY <2>6, <2>7
  <2>9. /\ new \in Receipt
        /\ new.domain = receipt[e].domain /\ new.arrived = receipt[e].arrived
        /\ new.status = receipt[e].status /\ new.claim = r
        /\ new.attempts = attempts /\ new.tried = receipt[e].tried
    BY <2>2, <2>5, <2>8 DEF Receipt
  <2> QED
    BY <2>2, <2>3, <2>4, <2>5, <2>7, <2>9, RowsAssumption
<1>7. \A e \in Events : ~Claimable(e) => receipt'[e] = receipt[e]
  BY DEF Claim
<1>8. receipt' \in [Events -> Receipt \cup {Null}]
  <2>1. receipt' = [e \in Events |-> receipt'[e]]
    BY DEF Claim
  <2>2. \A e \in Events : receipt'[e] \in Receipt \cup {Null}
    BY <1>1, <1>6, <1>7 DEF HealthType
  <2> QED
    BY <2>1, <2>2
<1>9. HealthType'
  <2>1. PICK n \in {0, 1} : Trouble(n)
    BY DEF Claim
  <2>2. trouble' \in 0 .. MaxTrouble
    BY <1>1, <2>1, TroubleType
  <2>3. UNCHANGED outside /\ enabled' = enabled /\ asset' = asset /\ alerts' = alerts /\ lease' = lease
    BY DEF Claim, stored
  <2>4. asset \in [Domains -> Asset \cup {Null}] /\ alerts \subseteq Alert /\ lease \in Runs \cup {Null}
    BY <1>1 DEF HealthType
  <2> QED
    BY <1>1, <1>2, <1>8, <2>2, <2>3, <2>4, RunKeepsType
<1>10. Custody'
  <2>1. Holding'
    <3>1. ASSUME NEW s \in Runs, NEW e \in run'[s].held
          PROVE  /\ e \in Events /\ receipt'[e] # Null /\ receipt'[e].status = "pending"
                 /\ receipt'[e].claim = s /\ receipt'[e].attempts >= 1
      <4>1. CASE s = r
        BY <1>2, <1>3, <1>6, <3>1, <4>1
      <4>2. CASE s # r
        <5>1. e \in run[s].held
          BY <1>3, <3>1, <4>2
        <5>2. e \in Events /\ Pending(e) /\ receipt[e].claim = s /\ receipt[e].attempts >= 1
          BY <1>1, <5>1 DEF Custody, Holding
        <5>3. receipt'[e] = receipt[e]
          BY <1>5, <1>7, <5>1, <5>2
        <5> QED
          BY <5>2, <5>3 DEF Pending
      <4> QED
        BY <4>1, <4>2
    <3> QED
      BY <3>1 DEF Holding, Pending
  <2>2. Accounted'
    <3>1. ASSUME NEW e \in Events, Pending(e)'
          PROVE  \/ receipt'[e].attempts <= receipt'[e].tried
                 \/ Held(e)' /\ receipt'[e].attempts <= receipt'[e].tried + 1
      <4>1. CASE Claimable(e)
        BY <1>2, <1>3, <1>6, <4>1 DEF Held
      <4>2. CASE ~Claimable(e)
        <5>1. receipt'[e] = receipt[e] /\ Pending(e)
          BY <1>7, <3>1, <4>2 DEF Pending
        <5>2. Held(e) => Held(e)'
          BY <1>3, <1>4 DEF Held
        <5> QED
          BY <1>1, <5>1, <5>2 DEF Custody, Accounted
      <4> QED
        BY <4>1, <4>2
    <3> QED
      BY <3>1 DEF Accounted
  <2>3. IdleHoldsNothing'
    BY <1>1, <1>2, <1>3 DEF Custody, IdleHoldsNothing, At
  <2>4. DeadWasTried'
    BY <1>1, <1>6, <1>7 DEF Custody, DeadWasTried
  <2> QED
    BY <2>1, <2>2, <2>3, <2>4 DEF Custody
<1>11. ReceiptsKept(r)
  BY <1>6, <1>7 DEF ReceiptsKept
<1>12. Fresh'
  <2>1. registrar' = registrar /\ asset' = asset /\ lease' = lease
    BY DEF Claim, outside, stored
  <2>2. row.at \notin Lasting /\ row.at \notin Working /\ run[r].at \in Early
    BY <1>2, <1>4 DEF Lasting, Working, Early
  <2> QED
    BY <1>1, <1>2, <1>4, <1>11, <2>1, <2>2, QuietStep DEF Working
<1> QED
  BY <1>9, <1>10, <1>12 DEF HealthSound

\* A step that leaves receipts behind, before the work or after it.
LEMMA LeaveKeeps ==
  ASSUME HealthSound, NEW r \in Runs, NEW row, Becomes(r, row),
         NEW S, S \subseteq run[r].held, row.held = run[r].held \ S,
         \A e \in Events \ S : receipt'[e] = receipt[e],
         \A e \in S :
           /\ Left(e)
           /\ receipt'[e].status = "processed" => At(r, "completed") /\ Refreshed(r, receipt[e].domain),
         receipt' \in [Events -> Receipt \cup {Null}], trouble' \in 0 .. MaxTrouble,
         UNCHANGED <<outside, enabled, stored, lease>>,
         \/ row.at = "idle" /\ row.held = {} /\ row.refreshes = Nothing
         \/ row.at = "sorted" /\ run[r].at \in Early /\ row.refreshes = run[r].refreshes
  PROVE  HealthSound'
<1>1. HealthType /\ Custody /\ Fresh
  BY DEF HealthSound
<1>2. /\ UNCHANGED outside /\ enabled' = enabled /\ registrar' = registrar
      /\ asset' = asset /\ alerts' = alerts /\ lease' = lease
  BY DEF outside, stored
<1>3. HealthType'
  <2>1. asset \in [Domains -> Asset \cup {Null}] /\ alerts \subseteq Alert /\ lease \in Runs \cup {Null}
    BY <1>1 DEF HealthType
  <2> QED
    BY <1>1, <1>2, <2>1, RunKeepsType
<1>4. Custody'
  <2>1. row.at = "idle" => row.held = {}
    OBVIOUS
  <2>2. \A e \in S : Left(e)
    OBVIOUS
  <2> QED
    BY <1>1, <2>1, <2>2, LeavesBehind
<1>5. ReceiptsKept(r)
  BY <1>1, SettledKept
<1>6. Fresh'
  <2>1. row.at \notin Lasting /\ row.at \notin Working /\ row.at \notin {"fetched", "stored"}
    BY DEF Lasting, Working
  <2>2. row.refreshes = run[r].refreshes \/ row.refreshes = Nothing
    OBVIOUS
  <2>3. row.at \in Early => run[r].at \in Early \/ row.refreshes = Nothing
    OBVIOUS
  <2>4. row.held \subseteq run[r].held
    OBVIOUS
  <2> QED
    BY <1>1, <1>2, <1>5, <2>1, <2>2, <2>3, <2>4, QuietStep
<1> QED
  BY <1>3, <1>4, <1>6 DEF HealthSound

LEMMA SettleKeeps ==
  ASSUME HealthSound, NEW r \in Runs, NEW row, Becomes(r, row),
         NEW wanted, NEW failures \in {0, 1}, Settle(r, wanted, failures),
         DOMAIN wanted \subseteq run[r].held, row.held = run[r].held \ DOMAIN wanted,
         \A e \in DOMAIN wanted :
           "processed" \in Marks(wanted[e]) => At(r, "completed") /\ Refreshed(r, receipt[e].domain),
         UNCHANGED <<outside, enabled, stored, lease>>,
         \/ row.at = "idle" /\ row.held = {} /\ row.refreshes = Nothing
         \/ row.at = "sorted" /\ run[r].at \in Early /\ row.refreshes = run[r].refreshes
  PROVE  HealthSound'
<1>1. HealthType /\ Custody
  BY DEF HealthSound
<1>2. PICK S : S = DOMAIN wanted
  OBVIOUS
<1>3. /\ trouble' \in 0 .. MaxTrouble
      /\ receipt' \in [Events -> Receipt \cup {Null}]
      /\ \A e \in Events \ S : receipt'[e] = receipt[e]
      /\ \A e \in S :
           /\ Left(e)
           /\ receipt'[e].status = "processed" => At(r, "completed") /\ Refreshed(r, receipt[e].domain)
  BY <1>1, <1>2, SettleFacts
<1> QED
  BY <1>2, <1>3, LeaveKeeps

LEMMA SortKeeps ==
  ASSUME HealthSound, NEW r \in Runs, Sort(r)
  PROVE  HealthSound'
<1>1. HealthType /\ Custody /\ Fresh
  BY DEF HealthSound
<1>2. PICK settled : settled = {e \in run[r].held : receipt[e].domain \notin monitored}
  OBVIOUS
<1>3. PICK wanted : wanted = [e \in settled |-> "ignored"]
  OBVIOUS
<1>4. Settle(r, wanted, 0) /\ UNCHANGED <<outside, enabled, stored, lease>> /\ run[r].at = "claimed"
  BY <1>2, <1>3 DEF Sort, At
<1>5. PICK row : /\ Becomes(r, row)
                 /\ row.at = "sorted" /\ row.held = run[r].held \ settled
                 /\ row.refreshes = run[r].refreshes
  BY <1>1, <1>2, SortRow
<1>6. DOMAIN wanted = settled /\ settled \subseteq run[r].held
  BY <1>2, <1>3
<1>7. \A e \in DOMAIN wanted : "processed" \notin Marks(wanted[e])
  BY <1>3 DEF Marks
<1>8. run[r].at \in Early
  BY <1>4 DEF Early
<1> QED
  BY <1>4, <1>5, <1>6, <1>7, <1>8, SettleKeeps

LEMMA SortFailsKeeps ==
  ASSUME HealthSound, NEW r \in Runs, SortFails(r)
  PROVE  HealthSound'
<1>1. HealthType
  BY DEF HealthSound
<1>2. PICK wanted : wanted = AllHeld(r, "released")
  OBVIOUS
<1>3. Settle(r, wanted, 1) /\ UNCHANGED <<outside, enabled, stored, lease>> /\ Ends(r)
  BY <1>2 DEF SortFails
<1>4. PICK row : Becomes(r, row) /\ row.at = "idle" /\ row.held = {} /\ row.refreshes = Nothing
  BY <1>1, <1>3, EndsIdle, IdleFields
<1>5. DOMAIN wanted = run[r].held /\ \A e \in DOMAIN wanted : "processed" \notin Marks(wanted[e])
  BY <1>2 DEF AllHeld, Marks
<1>6. row.held = run[r].held \ DOMAIN wanted
  BY <1>4, <1>5
<1> QED
  BY <1>3, <1>4, <1>5, <1>6, SettleKeeps

LEMMA ConcludeKeeps ==
  ASSUME HealthSound, NEW r \in Runs, Conclude(r)
  PROVE  HealthSound'
<1>1. HealthType
  BY DEF HealthSound
<1>2. PICK wanted : wanted = [e \in run[r].held |->
        IF At(r, "deferred") THEN "deferred"
        ELSE IF At(r, "completed") /\ Confirmed(r, e) THEN "processed" ELSE "released"]
  OBVIOUS
<1>3. Settle(r, wanted, 0) /\ UNCHANGED <<outside, enabled, stored, lease>> /\ Ends(r)
  BY <1>2 DEF Conclude
<1>4. PICK row : Becomes(r, row) /\ row.at = "idle" /\ row.held = {} /\ row.refreshes = Nothing
  BY <1>1, <1>3, EndsIdle, IdleFields
<1>5. DOMAIN wanted = run[r].held
  BY <1>2
<1>6. ASSUME NEW e \in DOMAIN wanted, "processed" \in Marks(wanted[e])
      PROVE  At(r, "completed") /\ Refreshed(r, receipt[e].domain)
  <2>1. wanted[e] = "processed"
    BY <1>6 DEF Marks
  <2>2. wanted[e] = IF At(r, "deferred") THEN "deferred"
                    ELSE IF At(r, "completed") /\ Confirmed(r, e) THEN "processed" ELSE "released"
    BY <1>2, <1>6
  <2>3. At(r, "completed") /\ Confirmed(r, e)
    BY <2>1, <2>2
  <2> QED
    BY <2>3 DEF Confirmed, Refreshed
<1>7. row.held = run[r].held \ DOMAIN wanted
  BY <1>4, <1>5
<1> QED
  BY <1>3, <1>4, <1>5, <1>6, <1>7, SettleKeeps

LEMMA DieKeeps ==
  ASSUME HealthSound, NEW r \in Runs, Die(r)
  PROVE  HealthSound'
<1>1. HealthType /\ Custody
  BY DEF HealthSound
<1>2. PICK row : Becomes(r, row) /\ row.at = "idle" /\ row.held = {} /\ row.refreshes = Nothing
  BY <1>1, EndsIdle, IdleFields DEF Die
<1>3. PICK S : S = run[r].held
  OBVIOUS
<1>4. /\ \A e \in Events \ S : receipt'[e] = receipt[e]
      /\ receipt' = [e \in Events |-> receipt'[e]]
      /\ UNCHANGED <<outside, enabled, stored, lease>>
  BY <1>3 DEF Die
<1>5. ASSUME NEW e \in S
      PROVE  Left(e) /\ receipt'[e].status # "processed"
  <2>1. /\ e \in Events
        /\ receipt[e] \in Receipt /\ receipt[e].status = "pending"
        /\ receipt[e].attempts <= receipt[e].tried + 1
    BY <1>1, <1>3, <1>5, HeldFacts
  <2>2. PICK old \in Receipt : old = receipt[e]
    BY <2>1
  <2>3. old.tried \in Nat /\ old.attempts \in Nat
    BY <2>2 DEF Receipt
  <2>4. PICK tried \in Nat : tried = old.tried + 1
    BY <2>3
  <2>5. PICK new : new = [old EXCEPT !.tried = tried]
    OBVIOUS
  <2>6. /\ new \in Receipt
        /\ new.domain = old.domain /\ new.arrived = old.arrived
        /\ new.status = old.status /\ new.attempts = old.attempts /\ new.tried = tried
    BY <2>2, <2>4, <2>5 DEF Receipt
  <2>7. receipt'[e] = new
    BY <1>3, <1>5, <2>1, <2>2, <2>4, <2>5 DEF Die
  <2>8. new.attempts <= new.tried
    BY <2>1, <2>2, <2>3, <2>4, <2>6
  <2> QED
    BY <2>1, <2>2, <2>6, <2>7, <2>8 DEF Left
<1>6. receipt' \in [Events -> Receipt \cup {Null}]
  <2>1. \A e \in Events : receipt'[e] \in Receipt \cup {Null}
    BY <1>1, <1>4, <1>5 DEF Left, HealthType
  <2> QED
    BY <1>4, <2>1
<1>7. trouble' \in 0 .. MaxTrouble
  BY <1>1, TroubleType DEF Die
<1>8. row.held = run[r].held \ S
  BY <1>2, <1>3
<1> QED
  BY <1>2, <1>3, <1>4, <1>5, <1>6, <1>7, <1>8, LeaveKeeps

\* A step that only moves a run on.
LEMMA QuietKeeps ==
  ASSUME HealthSound, NEW r \in Runs, NEW row, Becomes(r, row),
         row.held = run[r].held, row.refreshes = run[r].refreshes,
         UNCHANGED <<outside, enabled, receipt, asset>>, alerts' \subseteq Alert,
         trouble' \in 0 .. MaxTrouble,
         \/ lease' = lease
         \/ lease' = Null /\ run[r].at \in Working /\ row.at \notin Working,
         row.at \notin {"idle", "fetched", "stored"},
         row.at \in Early => run[r].at \in Early,
         row.at \in Lasting => run[r].at \in Lasting,
         row.at \in Working => run[r].at \in Working /\ row.known = Nothing
  PROVE  HealthSound'
<1>1. HealthType /\ Custody /\ Fresh
  BY DEF HealthSound
<1>2. /\ UNCHANGED outside /\ enabled' = enabled /\ registrar' = registrar
      /\ asset' = asset /\ receipt' = receipt
  BY DEF outside
<1>3. HealthType'
  <2>1. /\ asset \in [Domains -> Asset \cup {Null}] /\ receipt \in [Events -> Receipt \cup {Null}]
        /\ lease' \in Runs \cup {Null}
    BY <1>1 DEF HealthType
  <2> QED
    BY <1>1, <1>2, <2>1, RunKeepsType
<1>4. Custody' /\ ReceiptsKept(r)
  <2>1. row.at # "idle"
    OBVIOUS
  <2> QED
    BY <1>1, <1>2, <2>1, SameReceipts
<1>5. Fresh'
  <2>1. lease' = lease \/ run[r].at \in Working
    OBVIOUS
  <2>2. row.at \in Working => run[r].at \in Working /\ lease' = lease /\ row.known = Nothing
    OBVIOUS
  <2>3. row.at \notin {"fetched", "stored"}
    OBVIOUS
  <2> QED
    BY <1>1, <1>2, <1>4, <2>1, <2>2, <2>3, QuietStep
<1> QED
  BY <1>3, <1>4, <1>5 DEF HealthSound

LEMMA EnterKeeps ==
  ASSUME HealthSound, NEW r \in Runs, Enter(r)
  PROVE  HealthSound'
<1>1. HealthType
  BY DEF HealthSound
<1>2. PICK row : /\ Becomes(r, row)
                 /\ row.at = "entered" /\ row.held = run[r].held
                 /\ row.refreshes = run[r].refreshes
  BY <1>1, EnterRow
<1>3. /\ UNCHANGED <<outside, enabled, receipt, asset>> /\ alerts' \subseteq Alert
      /\ trouble' \in 0 .. MaxTrouble /\ lease' = lease /\ run[r].at = "sorted"
  BY <1>1 DEF Enter, At, stored, HealthType
<1> QED
  BY <1>2, <1>3, QuietKeeps DEF Early, Lasting, Working

LEMMA DeferKeeps ==
  ASSUME HealthSound, NEW r \in Runs, Defer(r)
  PROVE  HealthSound'
<1>1. HealthType
  BY DEF HealthSound
<1>2. PICK row : /\ Becomes(r, row)
                 /\ row.at = "deferred" /\ row.held = run[r].held
                 /\ row.refreshes = run[r].refreshes
  BY <1>1, OverAt DEF Defer, Places
<1>3. /\ UNCHANGED <<outside, enabled, receipt, asset>> /\ alerts' \subseteq Alert
      /\ lease' = lease /\ run[r].at = "entered"
  BY <1>1 DEF Defer, At, stored, HealthType
<1>4. trouble' \in 0 .. MaxTrouble
  <2>1. PICK n \in {0, 1} : Trouble(n)
    BY DEF Defer
  <2> QED
    BY <1>1, <2>1, TroubleType
<1> QED
  BY <1>2, <1>3, <1>4, QuietKeeps DEF Early, Lasting, Working

LEMMA FinishKeeps ==
  ASSUME HealthSound, NEW r \in Runs, Finish(r)
  PROVE  HealthSound'
<1>1. HealthType
  BY DEF HealthSound
<1>2. PICK row : /\ Becomes(r, row)
                 /\ row.at = "completed" /\ row.held = run[r].held
                 /\ row.refreshes = run[r].refreshes
  BY <1>1, OverAt DEF Finish, Places
<1>3. /\ UNCHANGED <<outside, enabled, receipt, asset>> /\ alerts' \subseteq Alert
      /\ trouble' \in 0 .. MaxTrouble /\ run[r].at = "told" /\ lease' \in {Null, lease}
  BY <1>1 DEF Finish, At, stored, HealthType
<1> QED
  BY <1>2, <1>3, QuietKeeps DEF Early, Lasting, Working

LEMMA FailKeeps ==
  ASSUME HealthSound, NEW r \in Runs, Fail(r)
  PROVE  HealthSound'
<1>1. HealthType
  BY DEF HealthSound
<1>2. PICK row : /\ Becomes(r, row)
                 /\ row.at = "failed" /\ row.held = run[r].held
                 /\ row.refreshes = run[r].refreshes
  BY <1>1, OverAt DEF Fail, Places
<1>3. /\ UNCHANGED <<outside, enabled, receipt, asset>> /\ alerts' \subseteq Alert
      /\ lease' = lease \/ (lease' = Null /\ run[r].at \in Working)
  <2>1. /\ UNCHANGED <<outside, enabled, receipt, asset>> /\ alerts' = alerts /\ alerts \subseteq Alert
    BY <1>1 DEF Fail, stored, HealthType
  <2>2. CASE run[r].at \in Working /\ lease' \in {Null, lease}
    BY <2>1, <2>2
  <2>3. CASE UNCHANGED lease
    BY <2>1, <2>3
  <2> QED
    BY <2>2, <2>3 DEF Fail
<1>4. trouble' \in 0 .. MaxTrouble
  BY <1>1, TroubleType DEF Fail
<1>5. row.at \notin Early /\ row.at \notin Lasting /\ row.at \notin Working
  BY <1>2 DEF Early, Lasting, Working
<1> QED
  BY <1>2, <1>3, <1>4, <1>5, QuietKeeps

LEMMA AlertsType ==
  ASSUME HealthType, NEW r \in Runs
  PROVE  DomainExpiryAlerts(r) \subseteq Alert
<1>1. ASSUME NEW d \in Domains, NEW t \in {Critical, Warning}, run[r].known[d] # Null
      PROVE  [domain |-> d, expiresAt |-> run[r].known[d], threshold |-> t] \in Alert
  <2>1. run[r].known \in [Domains -> Nat \cup {Null}]
    BY DEF HealthType, Run
  <2>2. run[r].known[d] \in Nat
    BY <1>1, <2>1
  <2> QED
    BY <2>2 DEF Alert
<1>2. ASSUME NEW a \in DomainExpiryAlerts(r)
      PROVE  a \in Alert
  <2>1. PICK d \in Domains, t \in {Critical, Warning} :
          /\ run[r].known[d] # Null
          /\ a = [domain |-> d, expiresAt |-> run[r].known[d], threshold |-> t]
    BY <1>2 DEF DomainExpiryAlerts
  <2> QED
    BY <1>1, <2>1
<1> QED
  BY <1>2

LEMMA TellKeeps ==
  ASSUME HealthSound, NEW r \in Runs, Tell(r)
  PROVE  HealthSound'
<1>1. HealthType
  BY DEF HealthSound
<1>2. PICK row : /\ Becomes(r, row)
                 /\ row.at = "told" /\ row.held = run[r].held
                 /\ row.refreshes = run[r].refreshes /\ row.known = Nothing
  BY <1>1, TellRow
<1>3. /\ UNCHANGED <<outside, enabled, receipt, asset>> /\ lease' = lease
      /\ trouble' \in 0 .. MaxTrouble /\ run[r].at = "stored"
  BY <1>1 DEF Tell, At, HealthType
<1>4. alerts' \subseteq Alert
  BY <1>1, AlertsType DEF Tell, HealthType
<1>5. row.at \notin Early /\ run[r].at \in Lasting /\ run[r].at \in Working
  BY <1>2, <1>3 DEF Early, Lasting, Working
<1> QED
  BY <1>2, <1>3, <1>4, <1>5, QuietKeeps

\* The lease is free, so no other run is at work, and the stored facts cover.
LEMMA BeginKeeps ==
  ASSUME HealthSound, NEW r \in Runs, Begin(r)
  PROVE  HealthSound'
<1>1. HealthType /\ Custody /\ Fresh
  BY DEF HealthSound
<1>2. \A d \in Domains : FromPorkbun(d) => asset[d].expiresAt \in Nat
  BY <1>1 DEF Fresh, AssetsCover
<1>3. PICK row :
        /\ Becomes(r, row)
        /\ row.at = "loaded" /\ row.held = run[r].held
        /\ row.refreshes = run[r].refreshes
        /\ \A d \in Domains : row.known[d] # Null => FromPorkbun(d) /\ row.known[d] = asset[d].expiresAt
  BY <1>1, <1>2, BeginRow
<1>4. /\ UNCHANGED outside /\ enabled' = enabled /\ registrar' = registrar
      /\ asset' = asset /\ alerts' = alerts /\ receipt' = receipt /\ trouble' = trouble
      /\ lease = Null /\ lease' = r /\ run[r].at = "entered"
  BY DEF Begin, outside, stored, At
<1>5. HealthType'
  <2>1. /\ asset \in [Domains -> Asset \cup {Null}] /\ receipt \in [Events -> Receipt \cup {Null}]
        /\ alerts \subseteq Alert /\ trouble \in 0 .. MaxTrouble
    BY <1>1 DEF HealthType
  <2> QED
    BY <1>1, <1>3, <1>4, <2>1, RunKeepsType
<1>6. Custody' /\ ReceiptsKept(r)
  BY <1>1, <1>3, <1>4, SameReceipts
<1>7. Fresh'
  <2>1. row.held \subseteq Events
    BY <1>3 DEF Becomes, Run
  <2>2. row.refreshes = Nothing /\ \A d \in Domains : row.refreshes[d] = Null
    BY <1>1, <1>3, <1>4 DEF Fresh, EarlyIsEmpty, Early, Nothing
  <2>3. \A d \in Domains : row.known[d] # Null => Covers(d, row.known[d])
    BY <1>1, <1>3 DEF Fresh, AssetsCover
  <2>4. \A s \in Runs \ {r} : run[s].at \notin Working
    BY <1>1, <1>4, NullAssumption DEF Fresh, Exclusive
  <2>5. row.at \notin Lasting /\ row.at \notin {"fetched", "stored"}
    BY <1>3 DEF Lasting
  <2> QED
    BY <1>1, <1>3, <1>4, <1>6, <2>1, <2>2, <2>3, <2>4, <2>5, RunKeepsFresh
<1> QED
  BY <1>5, <1>6, <1>7 DEF HealthSound

\* What the account says is ahead of every delivery that has arrived, and of all
\* that was read from it before.
LEMMA RegistrarCovers ==
  ASSUME HealthType, Fresh, NEW d \in Domains
  PROVE  Covers(d, registrar[d].expiresAt)
<1>1. \A e \in Events : receipt[e] # Null /\ receipt[e].domain = d =>
        receipt[e].arrived <= registrar[d].expiresAt
  BY DEF Fresh, ArrivalsBehind
<1>2. \A s \in Runs : Refreshed(s, d) => run[s].refreshes[d].expiresAt <= registrar[d].expiresAt
  BY DEF Fresh, RefreshesBehind, Behind
<1> QED
  BY <1>1, <1>2 DEF Covers

LEMMA FetchKeeps ==
  ASSUME HealthSound, NEW r \in Runs, Fetch(r)
  PROVE  HealthSound'
<1>1. HealthType /\ Custody /\ Fresh
  BY DEF HealthSound
<1>2. PICK row :
        /\ Becomes(r, row)
        /\ row.at = "fetched" /\ row.held = run[r].held
        /\ \A d \in Domains :
             /\ row.refreshes[d] # Null /\ row.refreshes[d].source = "porkbun" =>
                  /\ row.refreshes[d].expiresAt = registrar[d].expiresAt
                  /\ row.known[d] = registrar[d].expiresAt
             /\ row.known[d] # Null => row.known[d] \in {registrar[d].expiresAt, run[r].known[d]}
  BY <1>1, FetchRow
<1>3. /\ UNCHANGED outside /\ enabled' = enabled /\ registrar' = registrar
      /\ asset' = asset /\ alerts' = alerts /\ receipt' = receipt /\ lease' = lease
      /\ run[r].at = "loaded"
  BY DEF Fetch, outside, stored, At
<1>4. trouble' \in 0 .. MaxTrouble
  <2>1. trouble' = trouble \/ Trouble(1)
    BY DEF Fetch
  <2> QED
    BY <1>1, <2>1, TroubleType DEF HealthType
<1>5. HealthType'
  <2>1. /\ asset \in [Domains -> Asset \cup {Null}] /\ receipt \in [Events -> Receipt \cup {Null}]
        /\ alerts \subseteq Alert /\ lease \in Runs \cup {Null}
    BY <1>1 DEF HealthType
  <2> QED
    BY <1>1, <1>2, <1>3, <1>4, <2>1, RunKeepsType
<1>6. Custody' /\ ReceiptsKept(r)
  BY <1>1, <1>2, <1>3, SameReceipts
<1>7. Fresh'
  <2>1. row.held \subseteq Events
    BY <1>2 DEF Becomes, Run
  <2>2. ASSUME NEW d \in Domains, row.refreshes[d] # Null, row.refreshes[d].source = "porkbun"
        PROVE  Behind(row.refreshes[d], row.held, d)
    <3>1. row.refreshes[d].expiresAt = registrar[d].expiresAt /\ registrar[d].expiresAt \in Nat
      BY <1>1, <1>2, <2>2 DEF HealthType
    <3>2. \A e \in row.held : receipt[e] # Null
      BY <1>1, <1>2 DEF Custody, Holding, Pending
    <3>3. \A e \in row.held : receipt[e].domain = d => receipt[e].arrived <= registrar[d].expiresAt
      BY <1>1, <2>1, <3>2 DEF Fresh, ArrivalsBehind
    <3> QED
      BY <3>1, <3>3 DEF Behind
  <2>3. ASSUME NEW d \in Domains, row.known[d] # Null
        PROVE  Covers(d, row.known[d])
    <3>1. CASE row.known[d] = registrar[d].expiresAt
      BY <1>1, <3>1, RegistrarCovers
    <3>2. CASE row.known[d] = run[r].known[d]
      BY <1>1, <1>3, <2>3, <3>2 DEF Fresh, KnownCovers, Working
    <3> QED
      BY <1>2, <2>3, <3>1, <3>2
  <2>4. lease' = r
    BY <1>1, <1>3 DEF Fresh, Exclusive, Working
  <2>5. row.at \notin Early /\ row.at \notin Lasting
    BY <1>2 DEF Early, Lasting
  <2>6. \A d \in Domains : row.refreshes[d] # Null /\ row.refreshes[d].source = "porkbun" =>
          row.known[d] = row.refreshes[d].expiresAt
    BY <1>2
  <2> QED
    BY <1>1, <1>2, <1>3, <1>6, <2>1, <2>2, <2>3, <2>4, <2>5, <2>6, RunKeepsFresh
<1> QED
  BY <1>5, <1>6, <1>7 DEF HealthSound

LEMMA ReconcileKeeps ==
  ASSUME HealthSound, NEW r \in Runs, Reconcile(r)
  PROVE  HealthSound'
<1>1. HealthType /\ Custody /\ Fresh
  BY DEF HealthSound
<1>2. PICK row : /\ Becomes(r, row)
                 /\ row.at = "stored" /\ row.held = run[r].held
  BY <1>1, GoesTo DEF Reconcile, Places, Working
<1>3. /\ UNCHANGED outside /\ enabled' = enabled
      /\ alerts' = alerts /\ receipt' = receipt /\ lease' = lease /\ trouble' = trouble
  BY DEF Reconcile
<1>4. asset' \in [Domains -> Asset \cup {Null}]
  <2>1. PICK pruned : asset' = [d \in Domains |-> IF d \in pruned THEN Null ELSE Reconciled(r, d)]
    BY DEF Reconcile
  <2>2. ASSUME NEW d \in Domains
        PROVE  Reconciled(r, d) \in Asset \cup {Null}
    <3>1. /\ asset[d] \in Asset \cup {Null}
          /\ run[r].refreshes[d] \in Facts \cup {Null} /\ run[r].checkedAt \in Days
      BY <1>1 DEF HealthType, Run
    <3>2. CASE run[r].refreshes[d] # Null
      <4>1. PICK facts \in Facts : facts = run[r].refreshes[d]
        BY <3>1, <3>2
      <4>2. [source |-> facts.source, expiresAt |-> facts.expiresAt, checkedAt |-> run[r].checkedAt] \in Asset
        BY <3>1, <4>1 DEF Facts, Asset
      <4> QED
        BY <3>2, <4>1, <4>2 DEF Reconciled
    <3>3. CASE run[r].refreshes[d] = Null
      <4>1. [source |-> "rdap", expiresAt |-> Null, checkedAt |-> Null] \in Asset
        BY DEF Asset
      <4> QED
        BY <3>1, <3>3, <4>1 DEF Reconciled
    <3> QED
      BY <3>2, <3>3
  <2> QED
    BY <2>1, <2>2
<1>5. HealthType'
  <2>1. /\ receipt \in [Events -> Receipt \cup {Null}] /\ alerts \subseteq Alert
        /\ lease \in Runs \cup {Null} /\ trouble \in 0 .. MaxTrouble
    BY <1>1 DEF HealthType
  <2> QED
    BY <1>1, <1>2, <1>3, <1>4, <2>1, RunKeepsType
<1>6. Custody'
  BY <1>1, <1>2, <1>3, SameReceipts
<1> QED
  BY <1>1, <1>5, <1>6, ReconcileKeepsFresh DEF HealthSound

\* Nobody works under a lease that runs out.
LEMMA LeaseExpiresKeeps ==
  ASSUME HealthSound, LeaseExpires
  PROVE  HealthSound'
<1>1. HealthType /\ Custody /\ Fresh
  BY DEF HealthSound
<1>2. /\ UNCHANGED <<outside, enabled, stored, receipt, run, trouble>>
      /\ lease' = Null /\ run[lease].at \notin Working
  BY DEF LeaseExpires
<1>3. HealthType'
  BY <1>1, <1>2 DEF HealthType, outside, stored
<1>4. Custody'
  BY <1>1, <1>2 DEF Custody, Holding, Accounted, IdleHoldsNothing, DeadWasTried, Pending, Held, At
<1>5. Exclusive'
  BY <1>1, <1>2 DEF Fresh, Exclusive
<1>6. \A r \in Runs, d \in Domains : Refreshed(r, d)' <=> Refreshed(r, d)
  BY <1>2 DEF Refreshed
<1>7. \A d \in Domains : \A x : Covers(d, x)' <=> Covers(d, x)
  BY <1>2, <1>6 DEF Covers
<1>8. AssetsCover'
  <2>1. ASSUME NEW d \in Domains, FromPorkbun(d)'
        PROVE  (asset[d].expiresAt \in Nat /\ Covers(d, asset[d].expiresAt))'
    <3>1. PICK x : x = asset[d].expiresAt
      OBVIOUS
    <3>2. x \in Nat /\ Covers(d, x)
      BY <1>1, <1>2, <2>1, <3>1 DEF Fresh, AssetsCover, FromPorkbun, stored
    <3>3. Covers(d, x)'
      BY <1>7, <3>2
    <3> QED
      BY <1>2, <3>1, <3>2, <3>3 DEF Covers, stored
  <2> QED
    BY <2>1 DEF AssetsCover
<1>9. KnownCovers'
  <2>1. ASSUME NEW r \in Runs, NEW d \in Domains, run'[r].at \in Working, run'[r].known[d] # Null
        PROVE  Covers(d, run[r].known[d])'
    <3>1. PICK x : x = run[r].known[d]
      OBVIOUS
    <3>2. Covers(d, x)
      BY <1>1, <1>2, <2>1, <3>1 DEF Fresh, KnownCovers
    <3>3. Covers(d, x)'
      BY <1>7, <3>2
    <3> QED
      BY <1>2, <3>1, <3>3 DEF Covers
  <2> QED
    BY <2>1 DEF KnownCovers
<1>10. EarlyIsEmpty' /\ ArrivalsBehind' /\ RefreshesBehind' /\ KnownIsRefreshed'
  BY <1>1, <1>2 DEF Fresh, EarlyIsEmpty, ArrivalsBehind, RefreshesBehind, Behind, KnownIsRefreshed,
                    Refreshed, outside
<1> QED
  BY <1>3, <1>4, <1>5, <1>8, <1>9, <1>10 DEF HealthSound, Fresh

LEMMA HealthStep ==
  ASSUME HealthSound, HealthNext \/ UNCHANGED healthVars
  PROVE  HealthSound'
<1>1. CASE UNCHANGED healthVars
  <2>1. /\ receipt' = receipt /\ run' = run /\ asset' = asset /\ lease' = lease /\ registrar' = registrar
    BY <1>1 DEF healthVars, outside, stored
  <2>2. HealthType'
    BY <1>1 DEF HealthSound, HealthType, healthVars, outside, stored
  <2>3. \A d \in Domains : registrar'[d].expiresAt >= registrar[d].expiresAt
    BY <2>1 DEF HealthSound, HealthType
  <2> QED
    BY <2>1, <2>2, <2>3, OutsideKeeps
<1>2. CASE Tick \/ SwitchAlerts \/ \E d \in Domains : Renew(d) \/ Transfer(d) \/ Configure(d)
  BY <1>2, ChangesKeep
<1>3. CASE \E e \in Events, d \in Domains : Deliver(e, d)
  BY <1>3, DeliverKeeps
<1>4. ASSUME NEW r \in Runs, Step(r)
      PROVE  HealthSound'
  BY <1>4, SortKeeps, EnterKeeps, DeferKeeps, BeginKeeps, FetchKeeps, ReconcileKeeps, TellKeeps,
     FinishKeeps, ConcludeKeeps
  DEF Step
<1>5. ASSUME NEW r \in Runs, Claim(r) \/ SortFails(r) \/ Fail(r) \/ Die(r)
      PROVE  HealthSound'
  BY <1>5, ClaimKeeps, SortFailsKeeps, FailKeeps, DieKeeps
<1>6. CASE LeaseExpires
  BY <1>6, LeaseExpiresKeeps
<1> QED
  BY <1>1, <1>2, <1>3, <1>4, <1>5, <1>6 DEF HealthNext

LEMMA HealthAlways == HealthSpec => []HealthSound
<1>1. HealthInit => HealthSound
  BY HealthBegins
<1>2. HealthSound /\ [HealthNext]_healthVars => HealthSound'
  BY HealthStep
<1> QED
  BY <1>1, <1>2, PTL DEF HealthSpec

\* Whatever runs, failures and deliveries do: a delivery is given up only after
\* as many runs worked on it as attempts are allowed, although runs die with it
\* in hand, lose its marks, or hand an attempt back (lib/porkbun-webhooks/receipts.ts).
THEOREM GivenUpAreTried == HealthSpec => []Sound
<1>1. HealthSound => Sound
  BY DEF HealthSound, Custody, Sound
<1> QED
  BY <1>1, HealthAlways, PTL

\* Alerts are enqueued in one step only, and each is about a date the run knows.
LEMMA NewAlerts ==
  ASSUME HealthSound, HealthNext \/ UNCHANGED healthVars, NEW a \in alerts' \ alerts
  PROVE  \E r \in Runs : /\ a.domain \in Domains
                         /\ run[r].at = "stored" /\ run[r].known[a.domain] # Null
                         /\ a.expiresAt = run[r].known[a.domain]
<1>1. PICK r \in Runs : Tell(r)
  <2>1. alerts' # alerts
    OBVIOUS
  <2>2. ~ UNCHANGED healthVars
    BY <2>1 DEF healthVars, stored
  <2>3. ~(Tick \/ SwitchAlerts \/ LeaseExpires)
    BY <2>1 DEF Tick, SwitchAlerts, LeaseExpires, stored
  <2>4. \A d \in Domains : ~(Renew(d) \/ Transfer(d) \/ Configure(d))
    BY <2>1 DEF Renew, Transfer, Configure, stored
  <2>5. \A e \in Events, d \in Domains : ~Deliver(e, d)
    BY <2>1 DEF Deliver, stored
  <2>6. \A r \in Runs : ~(Claim(r) \/ SortFails(r) \/ Fail(r) \/ Die(r))
    BY <2>1 DEF Claim, SortFails, Fail, Die, stored
  <2>7. \A r \in Runs : ~(Sort(r) \/ Enter(r) \/ Defer(r) \/ Begin(r) \/ Fetch(r) \/ Reconcile(r)
                            \/ Finish(r) \/ Conclude(r))
    BY <2>1 DEF Sort, Enter, Defer, Begin, Fetch, Reconcile, Finish, Conclude, stored
  <2> QED
    BY <2>2, <2>3, <2>4, <2>5, <2>6, <2>7 DEF HealthNext, Step
<1>2. a \in DomainExpiryAlerts(r) /\ run[r].at = "stored"
  BY <1>1 DEF Tell, At
<1>3. PICK d \in Domains, t \in {Critical, Warning} :
        /\ run[r].known[d] # Null
        /\ a = [domain |-> d, expiresAt |-> run[r].known[d], threshold |-> t]
  BY <1>2 DEF DomainExpiryAlerts
<1>4. a.domain = d /\ a.expiresAt = run[r].known[d]
  BY <1>3
<1> QED
  BY <1>2, <1>3, <1>4

\* Once a delivery about a domain counts as processed, nobody is warned of a date
\* of expiry from before it arrived (lib/domain-health/service.ts): the only run
\* that enqueues alerts holds the lease, and goes by dates that cover it.
THEOREM NobodyWarnedOfRenewed == HealthSpec => NoAlertOfRenewed
<1>1. HealthSound /\ [HealthNext]_healthVars =>
        \A a \in alerts' \ alerts, e \in Events :
          receipt[e] # Null /\ receipt[e].status = "processed" /\ receipt[e].domain = a.domain
            => a.expiresAt >= receipt[e].arrived
  <2>1. SUFFICES ASSUME HealthSound, HealthNext \/ UNCHANGED healthVars,
                        NEW a \in alerts' \ alerts, NEW e \in Events,
                        receipt[e] # Null, receipt[e].status = "processed",
                        receipt[e].domain = a.domain
                 PROVE  a.expiresAt >= receipt[e].arrived
    OBVIOUS
  <2>2. PICK r \in Runs : /\ a.domain \in Domains
                          /\ run[r].at = "stored" /\ run[r].known[a.domain] # Null
                          /\ a.expiresAt = run[r].known[a.domain]
    BY <2>1, NewAlerts
  <2>3. Covers(a.domain, a.expiresAt)
    BY <2>1, <2>2 DEF HealthSound, Fresh, KnownCovers, Working
  <2>4. receipt[e].arrived <= a.expiresAt
    BY <2>1, <2>3 DEF Covers
  <2>5. receipt[e].arrived \in Nat
    BY <2>1 DEF HealthSound, HealthType, Receipt
  <2>6. a.expiresAt \in Nat
    <3>1. run[r].known \in [Domains -> Nat \cup {Null}]
      BY <2>1 DEF HealthSound, HealthType, Run
    <3> QED
      BY <2>2, <3>1
  <2> QED
    BY <2>4, <2>5, <2>6
<1> QED
  BY <1>1, HealthAlways, PTL DEF HealthSpec, NoAlertOfRenewed
=============================================================================
