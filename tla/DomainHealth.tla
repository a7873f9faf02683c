---------------------------- MODULE DomainHealth ----------------------------
(***************************************************************************)
(* Registration facts of the monitored domains and the alerts of their     *)
(* expiry (lib/domain-health), refreshed once a day, or at once for the    *)
(* domains of the registrar's deliveries (lib/porkbun-webhooks).  A run of *)
(* the check-domains cron claims deliveries that were recorded, works      *)
(* under the lease of its job, stores what the registrar says, enqueues    *)
(* alerts and then decides about the deliveries it holds.  Time is in      *)
(* days; the registrar's account and its deliveries are external.          *)
(* Names such as HealthSpec and Null keep clear of those of Access, since   *)
(* one module has the proofs about both.                                   *)
(***************************************************************************)
EXTENDS Integers, FiniteSets

CONSTANTS
  Domains,      \* apex domains
  Events,       \* event ids of deliveries
  Runs,         \* invocations of the cron in progress
  Null,         \* SQL null
  MaxAttempts,  \* PORKBUN_WEBHOOK_RECEIPT_MAX_ATTEMPTS
  Critical,     \* DOMAIN_EXPIRY_ALERT_THRESHOLDS, in days
  Warning,
  Term,         \* days a registration is renewed for
  MaxClock,     \* bound on the clock
  MaxChanges,   \* bound on what people and the registrar change
  MaxTrouble    \* bound on deaths, failed calls and overlapping runs

ASSUME NullAssumption == Null \notin Domains \cup Runs \cup Nat
ASSUME DaysAssumption ==
  /\ Critical \in Nat /\ Warning \in Nat /\ Critical < Warning
  /\ Term \in Nat \ {0} /\ MaxClock \in Nat
ASSUME BoundsAssumption == MaxAttempts \in Nat \ {0} /\ MaxChanges \in Nat /\ MaxTrouble \in Nat

VARIABLES
  clock,      \* the day
  monitored,  \* domains of the accepted configuration and of the registry
  registrar,  \* which domains the account has, and when they expire
  enabled,    \* expiry_alerts_enabled
  asset,      \* domain_health_assets
  receipt,    \* porkbun_webhook_receipts
  alerts,     \* keys of the domain.expiry rows of the outbox
  lease,      \* who took the lease of check-domains
  run,        \* what an invocation has in memory
  changes,    \* how often something was changed
  trouble     \* how often something went wrong

outside == <<clock, monitored, registrar, changes>>
stored  == <<asset, alerts>>
healthVars == <<outside, enabled, stored, receipt, lease, run, trouble>>

Days == 0 .. MaxClock

\* Facts of a domain; of what RDAP answers, which alerts are never about, no date is kept.
Facts == [source : {"porkbun", "rdap"}, expiresAt : Nat \cup {Null}]
Asset == [source : {"porkbun", "rdap"}, expiresAt : Nat \cup {Null},
          checkedAt : Days \cup {Null}]

\* The claim stands for the attempt count and the start of processing together.
\* History: the date of expiry when the delivery arrived, and how often a run worked on it.
Receipt == [domain : Domains, status : {"pending", "processed", "ignored", "dead"},
            attempts : Nat, claim : Runs \cup {Null}, arrived : Nat, tried : Nat]

ASSUME RowsAssumption == Null \notin Receipt

Working == {"loaded", "fetched", "stored", "told"}
Places  == {"idle", "claimed", "sorted", "entered", "deferred", "completed", "failed"} \cup Working

Run == [at : Places, held : SUBSET Events, targets : SUBSET Domains, enabled : BOOLEAN,
        checkedAt : Days, due : SUBSET Domains, known : [Domains -> Nat \cup {Null}],
        refreshes : [Domains -> Facts \cup {Null}]]

Alert == [domain : Domains, expiresAt : Nat, threshold : {Critical, Warning}]

HealthType ==
  /\ clock \in Days
  /\ monitored \subseteq Domains
  /\ registrar \in [Domains -> [covered : BOOLEAN, expiresAt : Nat]]
  /\ enabled \in BOOLEAN
  /\ asset \in [Domains -> Asset \cup {Null}]
  /\ receipt \in [Events -> Receipt \cup {Null}]
  /\ alerts \subseteq Alert
  /\ lease \in Runs \cup {Null}
  /\ run \in [Runs -> Run]
  /\ changes \in 0 .. MaxChanges /\ trouble \in 0 .. MaxTrouble

Nothing == [d \in Domains |-> Null]

Idle == [at |-> "idle", held |-> {}, targets |-> {}, enabled |-> FALSE, checkedAt |-> 0,
         due |-> {}, known |-> Nothing, refreshes |-> Nothing]

HealthInit ==
  /\ clock = 0
  /\ monitored = Domains
  /\ registrar = [d \in Domains |-> [covered |-> TRUE, expiresAt |-> Term]]
  /\ enabled \in BOOLEAN
  /\ asset = Nothing
  /\ receipt = [e \in Events |-> Null]
  /\ alerts = {}
  /\ lease = Null
  /\ run = [r \in Runs |-> Idle]
  /\ changes = 0 /\ trouble = 0

At(r, place) == run[r].at = place
Goes(r, place) == run' = [run EXCEPT ![r].at = place]
\* Only what it holds and what it refreshed is looked at when its work is over.
IsOver(r, place) ==
  run' = [run EXCEPT ![r] = [Idle EXCEPT !.at = place, !.held = run[r].held, !.refreshes = run[r].refreshes]]
Ends(r) == run' = [run EXCEPT ![r] = Idle]
Change == changes < MaxChanges /\ changes' = changes + 1
Trouble(n) == trouble + n <= MaxTrouble /\ trouble' = trouble + n
-----------------------------------------------------------------------------
(* Outside the cron *)

\* The last day is long: nothing new happens on it, so that what is owed can be seen to be done.
Tick ==
  /\ clock < MaxClock
  /\ clock' = clock + 1
  /\ UNCHANGED <<changes, monitored, registrar, enabled, stored, receipt, lease, run, trouble>>

Renew(d) ==
  /\ clock < MaxClock
  /\ Change
  /\ registrar' = [registrar EXCEPT ![d].expiresAt = @ + Term]
  /\ UNCHANGED <<clock, monitored, enabled, stored, receipt, lease, run, trouble>>

\* A domain is moved to another registrar, or into the account.
Transfer(d) ==
  /\ clock < MaxClock
  /\ Change
  /\ registrar' = [registrar EXCEPT ![d].covered = ~@]
  /\ UNCHANGED <<clock, monitored, enabled, stored, receipt, lease, run, trouble>>

\* The configuration changes, its registry with it.
Configure(d) ==
  /\ Change
  /\ monitored' = IF d \in monitored THEN monitored \ {d} ELSE monitored \cup {d}
  /\ UNCHANGED <<clock, registrar, enabled, stored, receipt, lease, run, trouble>>

\* updateDomainMonitoringSettings, whatever it knows of the connection.
SwitchAlerts ==
  /\ Change
  /\ enabled' = ~enabled
  /\ UNCHANGED <<clock, monitored, registrar, stored, receipt, lease, run, trouble>>

\* A delivery is recorded once; one that comes again changes nothing.  It may be late, and
\* of a domain nobody monitors.
Deliver(e, d) ==
  /\ receipt[e] = Null
  /\ receipt' = [receipt EXCEPT ![e] =
       [domain |-> d, status |-> "pending", attempts |-> 0, claim |-> Null,
        arrived |-> registrar[d].expiresAt, tried |-> 0]]
  /\ UNCHANGED <<outside, enabled, stored, lease, run, trouble>>
-----------------------------------------------------------------------------
(* Receipts *)

Pending(e) == receipt[e] # Null /\ receipt[e].status = "pending"

\* A claim is stale after ten minutes, when no invocation has the receipt in hand any more.
Stale(e) == receipt[e].claim # Null /\ e \notin run[receipt[e].claim].held

\* Mutant: what a run that died had claimed is never claimed again.
Claimable_OnlyReleased(e) == Pending(e) /\ receipt[e].claim = Null

Claimable(e) == Pending(e) /\ (receipt[e].claim = Null \/ Stale(e))

\* An invocation starts and claims what there is.
Claim(r) ==
  /\ At(r, "idle")
  /\ LET es == {e \in Events : Claimable(e)}
     IN /\ receipt' = [e \in Events |->
             IF e \in es THEN [receipt[e] EXCEPT !.claim = r, !.attempts = @ + 1] ELSE receipt[e]]
        /\ run' = [run EXCEPT ![r].at = IF es = {} THEN "sorted" ELSE "claimed", ![r].held = es]
  /\ Trouble(IF \A s \in Runs : At(s, "idle") THEN 0 ELSE 1)
  /\ UNCHANGED <<outside, enabled, stored, lease>>

\* releaseDomainReceipts: failed, or dead after the last attempt.
Released(row) ==
  [row EXCEPT !.claim = Null, !.tried = @ + 1,
              !.status = IF row.attempts >= MaxAttempts THEN "dead" ELSE @]

\* Mutant: a deferred receipt stays charged.
Deferred_Charged(row) == [row EXCEPT !.claim = Null]

\* deferDomainReceipts: the claim does not count.
Deferred(row) == [row EXCEPT !.claim = Null, !.attempts = @ - 1]

Marked(row, mark) ==
  CASE mark = "released" -> Released(row)
    [] mark = "deferred" -> Deferred(row)
    [] mark = "lost"     -> [row EXCEPT !.tried = @ + 1]
    [] OTHER             -> [row EXCEPT !.status = mark, !.claim = Null]

\* A mark that fails is lost; a receipt that cannot be processed or ignored is then released.
Marks(wanted) ==
  {wanted, "lost"} \cup IF wanted \in {"processed", "ignored"} THEN {"released"} ELSE {}

\* Receipts are marked as wanted if they still carry the claim.
Settle(r, wanted, failures) ==
  \E mark \in [DOMAIN wanted -> {"processed", "ignored", "released", "deferred", "lost"}] :
    /\ \A e \in DOMAIN wanted : mark[e] \in Marks(wanted[e])
    /\ receipt' = [e \in Events |->
         IF e \in DOMAIN wanted /\ Pending(e) /\ receipt[e].claim = r
         THEN Marked(receipt[e], mark[e]) ELSE receipt[e]]
    /\ Trouble(failures + IF mark = wanted THEN 0 ELSE 1)

AllHeld(r, mark) == [e \in run[r].held |-> mark]

\* Deliveries of domains that are not monitored are ignored.
Sort(r) ==
  /\ At(r, "claimed")
  /\ LET settled == {e \in run[r].held : receipt[e].domain \notin monitored}
     IN /\ Settle(r, [e \in settled |-> "ignored"], 0)
        /\ run' = [run EXCEPT ![r].at = "sorted", ![r].held = @ \ settled]
  /\ UNCHANGED <<outside, enabled, stored, lease>>

\* The configuration cannot be read: the run ends before it began.
SortFails(r) ==
  /\ At(r, "claimed")
  /\ Settle(r, AllHeld(r, "released"), 1)
  /\ Ends(r)
  /\ UNCHANGED <<outside, enabled, stored, lease>>
-----------------------------------------------------------------------------
(* The run *)

\* runDomainHealthCron reads the configuration again, and the settings.
Enter(r) ==
  /\ At(r, "sorted")
  /\ run' = [run EXCEPT ![r].at = "entered", ![r].targets = monitored, ![r].enabled = enabled]
  /\ UNCHANGED <<outside, enabled, stored, receipt, lease, trouble>>

\* The lease is held, or the minute has had its run.
Defer(r) ==
  /\ At(r, "entered")
  /\ IsOver(r, "deferred")
  /\ Trouble(IF lease = Null THEN 1 ELSE 0)
  /\ UNCHANGED <<outside, enabled, stored, receipt, lease>>

Forced(r) == {receipt[e].domain : e \in run[r].held}

\* selectDueDomainHealthTargets.  Days begin with the moment at which registrations expire: one
\* that expired since it was looked at was not looked at today.
IsDue(r, d) ==
  \/ d \in Forced(r)
  \/ asset[d] = Null
  \/ asset[d].checkedAt = Null
  \/ asset[d].checkedAt < clock

FromPorkbun(d) == asset[d] # Null /\ asset[d].source = "porkbun"

\* The lease is taken, the minute recorded and the stored facts loaded.
Begin(r) ==
  /\ At(r, "entered")
  /\ lease = Null
  /\ lease' = r
  /\ run' = [run EXCEPT ![r].at = "loaded", ![r].checkedAt = clock,
       ![r].targets = {}, ![r].due = {d \in run[r].targets : IsDue(r, d)},
       ![r].known = [d \in Domains |->
         IF d \in run[r].targets /\ FromPorkbun(d) THEN asset[d].expiresAt ELSE Null]]
  /\ UNCHANGED <<outside, enabled, stored, receipt, trouble>>

\* RDAP is asked about domains that are not the account's; when the account cannot be
\* read, about those that were not.
AskedOfRdap(r, outcome) ==
  {d \in run[r].due :
     CASE outcome = "resolved"     -> ~registrar[d].covered
       [] outcome = "unconfigured" -> TRUE
       [] outcome = "failed"       -> run[r].known[d] = Null}

Refreshes(r, outcome, answers) ==
  [d \in Domains |->
     IF outcome = "resolved" /\ d \in run[r].due /\ registrar[d].covered
     THEN [source |-> "porkbun", expiresAt |-> registrar[d].expiresAt]
     ELSE IF d \in answers THEN [source |-> "rdap", expiresAt |-> Null] ELSE Null]

\* Mutant: alerts are only about what this run refreshed.
Known_Refreshed(r, refreshes) ==
  [d \in Domains |->
     IF refreshes[d] # Null /\ refreshes[d].source = "porkbun" THEN refreshes[d].expiresAt ELSE Null]

\* What alerts are about: the account's facts as they were loaded, then refreshed.
Known(r, refreshes) ==
  [d \in Domains |->
     IF refreshes[d] = Null THEN run[r].known[d]
     ELSE IF refreshes[d].source = "porkbun" THEN refreshes[d].expiresAt ELSE Null]

\* The account is read if anything is due, then RDAP, which may not answer in time.
Fetch(r) ==
  /\ At(r, "loaded")
  /\ \E outcome \in IF run[r].due = {} THEN {"unconfigured"} ELSE {"resolved", "unconfigured", "failed"} :
       /\ \E answers \in SUBSET AskedOfRdap(r, outcome) :
            LET refreshes == Refreshes(r, outcome, answers)
            IN run' = [run EXCEPT ![r].at = "fetched", ![r].due = {}, ![r].refreshes = refreshes,
                                  ![r].known = Known(r, refreshes)]
       /\ IF run[r].due = {} \/ outcome = "resolved" THEN UNCHANGED trouble
          ELSE Trouble(1) /\ run[r].checkedAt < MaxClock
  /\ UNCHANGED <<outside, enabled, stored, receipt, lease>>

\* A row for each domain that is monitored now, and for each that was refreshed.
Reconciled(r, d) ==
  IF run[r].refreshes[d] # Null
  THEN [source |-> run[r].refreshes[d].source, expiresAt |-> run[r].refreshes[d].expiresAt,
        checkedAt |-> run[r].checkedAt]
  ELSE IF d \in monitored /\ asset[d] = Null
  THEN [source |-> "rdap", expiresAt |-> Null, checkedAt |-> Null]
  ELSE asset[d]

\* reconcileDomainHealthAssets, under the configuration lock.  Rows of domains that are no longer
\* monitored go after a grace of two days, here at any time.
Reconcile(r) ==
  /\ At(r, "fetched")
  /\ \E pruned \in SUBSET {d \in Domains \ monitored : run[r].refreshes[d] = Null} :
       asset' = [d \in Domains |-> IF d \in pruned THEN Null ELSE Reconciled(r, d)]
  /\ Goes(r, "stored")
  /\ UNCHANGED <<outside, enabled, alerts, receipt, lease, trouble>>

ReachedThreshold(expiresAt, now) ==
  IF expiresAt - now <= Critical THEN {Critical}
  ELSE IF expiresAt - now <= Warning THEN {Warning} ELSE {}

DomainExpiryAlerts(r) ==
  {[domain |-> d, expiresAt |-> run[r].known[d], threshold |-> t] :
     d \in {x \in Domains : run[r].known[x] # Null /\ ReachedThreshold(run[r].known[x], run[r].checkedAt) # {}},
     t \in {Critical, Warning}}

\* buildDomainExpiryAlertRows and the insert, whose keys are unique
Tell(r) ==
  /\ At(r, "stored")
  /\ alerts' = IF run[r].enabled
               THEN alerts \cup {a \in DomainExpiryAlerts(r) :
                                   a.threshold \in ReachedThreshold(a.expiresAt, run[r].checkedAt)}
               ELSE alerts
  /\ run' = [run EXCEPT ![r].at = "told", ![r].known = Nothing]
  /\ UNCHANGED <<outside, enabled, asset, receipt, lease, trouble>>

\* Releasing the lease may fail.
Finish(r) ==
  /\ At(r, "told")
  /\ lease' \in {Null, lease}
  /\ IsOver(r, "completed")
  /\ UNCHANGED <<outside, enabled, stored, receipt, trouble>>

\* A call of the work throws, whether or not it took effect, or one before it.
Fail(r) ==
  /\ \/ run[r].at \in Working /\ lease' \in {Null, lease}
     \/ run[r].at \in {"sorted", "entered"} /\ UNCHANGED lease
  /\ IsOver(r, "failed")
  /\ Trouble(1)
  /\ UNCHANGED <<outside, enabled, stored, receipt>>

\* Mutant: what a completed run held is processed.
Confirmed_Always(r, e) == TRUE

\* porkbunRefreshedApexDomains has the domain.
Confirmed(r, e) ==
  LET facts == run[r].refreshes[receipt[e].domain]
  IN facts # Null /\ facts.source = "porkbun"

Conclude(r) ==
  /\ run[r].at \in {"deferred", "completed", "failed"}
  /\ Settle(r, [e \in run[r].held |->
       IF At(r, "deferred") THEN "deferred"
       ELSE IF At(r, "completed") /\ Confirmed(r, e) THEN "processed" ELSE "released"], 0)
  /\ Ends(r)
  /\ UNCHANGED <<outside, enabled, stored, lease>>

\* The function is stopped.
Die(r) ==
  /\ ~At(r, "idle")
  /\ receipt' = [e \in Events |->
       IF e \in run[r].held THEN [receipt[e] EXCEPT !.tried = @ + 1] ELSE receipt[e]]
  /\ Ends(r)
  /\ Trouble(1)
  /\ UNCHANGED <<outside, enabled, stored, lease>>

\* A lease that nobody released runs out after its holder is gone.
LeaseExpires ==
  /\ lease # Null /\ run[lease].at \notin Working
  /\ lease' = Null
  /\ UNCHANGED <<outside, enabled, stored, receipt, run, trouble>>

Step(r) ==
  Sort(r) \/ Enter(r) \/ Defer(r) \/ Begin(r) \/ Fetch(r) \/ Reconcile(r) \/ Tell(r) \/ Finish(r)
    \/ Conclude(r)

HealthNext ==
  \/ Tick
  \/ \E d \in Domains : Renew(d) \/ Transfer(d) \/ Configure(d)
  \/ SwitchAlerts
  \/ \E e \in Events, d \in Domains : Deliver(e, d)
  \/ \E r \in Runs :
       \/ Claim(r) \/ Step(r) \/ SortFails(r) \/ Fail(r) \/ Die(r)
  \/ LeaseExpires

HealthSpec == HealthInit /\ [][HealthNext]_healthVars

\* The cron fires, invocations work on, leases run out and days pass.
Fairness ==
  /\ WF_healthVars(\E r \in Runs : Claim(r))
  /\ \A r \in Runs : WF_healthVars(Step(r))
  /\ WF_healthVars(LeaseExpires)
  /\ WF_healthVars(Tick)

FairSpec == HealthSpec /\ Fairness
-----------------------------------------------------------------------------
\* A delivery is given up only after that many runs worked on it: one that merely found the lease
\* taken hands the attempt back.
DeadWasTried ==
  \A e \in Events : receipt[e] # Null /\ receipt[e].status = "dead" => receipt[e].tried >= MaxAttempts

Sound == HealthType /\ DeadWasTried

\* Once a delivery about a domain counts as processed, nobody is warned of a date of expiry from
\* before it arrived: the facts stored by then are at least that new, in whatever order runs,
\* deliveries and failed calls came.
NoAlertOfRenewed ==
  [][\A a \in alerts' \ alerts, e \in Events :
       receipt[e] # Null /\ receipt[e].status = "processed" /\ receipt[e].domain = a.domain
         => a.expiresAt >= receipt[e].arrived]_healthVars

\* Every delivery is processed, ignored or given up in the end, if finitely much goes wrong.
EveryReceiptSettles ==
  \A e \in Events : Pending(e) ~> ~Pending(e)

\* An alert about the present date of expiry is due, and not enqueued.
Owed(d) ==
  /\ d \in monitored /\ enabled
  /\ registrar[d].covered /\ registrar[d].expiresAt - clock <= Warning
  /\ \A a \in alerts : a.domain = d => a.expiresAt # registrar[d].expiresAt

\* Whoever has alerts enabled is told of a registration that runs out, although facts are
\* refreshed once a day and the run that refreshed them may die, or may have found alerts switched
\* off, before it told of them.
EveryExpiryIsTold == \A d \in Domains : Owed(d) ~> ~Owed(d)
=============================================================================
