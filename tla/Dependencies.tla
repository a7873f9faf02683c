---------------------------- MODULE Dependencies ----------------------------
(***************************************************************************)
(* Dependency monitoring (lib/dependencies) for one provider.  Its status  *)
(* page opens and ends incidents; polls, one at a time because CronLease   *)
(* keeps the runs apart, read the page and then, in one transaction, load  *)
(* the installed dependencies and apply what was read: stored incidents,   *)
(* their matches, the state of each dependency, and the notices of what    *)
(* opened and what recovered.  Installs, removals, refreshes and the       *)
(* catalog's drift check run beside them.                                  *)
(*                                                                         *)
(* A preset stands for a preset with a scope.  OUTAGE stands for DEGRADED  *)
(* and MAINTENANCE too, which every test here treats alike.  next_poll_at  *)
(* only delays: a poll may start whenever none is under way.  Whether a    *)
(* dependency wants notices may change at any time: a load finds either.   *)
(* Interval histories and what is left of removed dependencies are left    *)
(* out.                                                                    *)
(***************************************************************************)
EXTENDS Integers

CONSTANTS
  Incidents,  \* external ids of the provider's incidents
  Presets,    \* presets of the source
  Rows,       \* ids of dependencies: a preset may be removed and added again
  PresetOf,   \* the preset each of Rows is of
  Fidelity,   \* "component" or "incident_only", of each preset
  MaxClock,   \* bound on the changes of the page
  None

ASSUME PresetsAssumption ==
  /\ PresetOf \in [Rows -> Presets]
  /\ Fidelity \in [Presets -> {"component", "incident_only"}]
ASSUME ClockAssumption == MaxClock \in Nat

VARIABLES
  clock,      \* moves with every change of the page
  page,       \* each incident as the provider has it
  validators, \* whether the source's etag is that of the page as it is
  row,        \* provider_incidents, with the components stored beside them
  match,      \* dependency_incident_matches
  dependency, \* dependencies and their state
  enabled,    \* presets that are enabled
  outbox,     \* the notices enqueued
  poll        \* the poll under way

vars == <<clock, page, validators, row, match, dependency, enabled, outbox, poll>>

States == {"OPERATIONAL", "OUTAGE", "UNKNOWN"}
\* What an incident names.  An incident of components may name none of Presets.
Scopes == {[kind |-> "source", names |-> {}], [kind |-> "unmapped", names |-> {}]}
          \cup [kind : {"components"}, names : SUBSET Presets]

\* cycle counts the times the provider opened the id, ended is 0 while it is open.
Cycle    == [cycle : Nat, ended : Nat]
\* kind is kept for the properties: the kind of scope it was last listed with.
Stored   == [cycle : Nat \ {0}, ended : Nat, names : SUBSET Presets,
             kind : {"components", "source", "unmapped"}]
\* awaits is kept for the properties: what the dependency waits for a page for, its
\* first state, unless it was installed under a disabled preset or behind the back
\* of a poll that had loaded, or its state again after it was disabled.
Dependency ==
  [status : {"absent", "installed", "removed"}, state : States,
   awaits : {"nothing", "first", "again"}]
\* at is what notificationKeyExternalId adds to the id, 0 for nothing.
Notice ==
  [row : Rows, preset : Presets, event : {"incident", "recovery"},
   incident : Incidents, at : Nat, cycle : Nat \ {0}]

Poll ==
  [phase : {"idle", "claimed", "fetched", "loaded"}, now : Nat, validators : BOOLEAN,
   seen : [Incidents -> Cycle], loaded : SUBSET Rows, notified : SUBSET Rows]

ASSUME NoneAssumption == None \notin Stored \cup Scopes

TypeOK ==
  /\ clock \in Nat \ {0} /\ validators \in BOOLEAN
  /\ page \in [Incidents -> Cycle]
  /\ row \in [Incidents -> Stored \cup {None}]
  /\ match \in [Rows -> SUBSET Incidents]
  /\ dependency \in [Rows -> Dependency]
  /\ enabled \subseteq Presets
  /\ outbox \subseteq Notice
  /\ poll \in Poll /\ poll.notified \subseteq poll.loaded

NoCycles == [e \in Incidents |-> [cycle |-> 0, ended |-> 0]]

Idle ==
  [phase |-> "idle", now |-> 0, validators |-> FALSE, seen |-> NoCycles,
   loaded |-> {}, notified |-> {}]

Absent ==
  [status |-> "absent", state |-> "UNKNOWN", awaits |-> "nothing"]

Init ==
  /\ clock = 1
  /\ page = NoCycles
  /\ validators = FALSE
  /\ row = [e \in Incidents |-> None]
  /\ match = [d \in Rows |-> {}]
  /\ dependency = [d \in Rows |-> Absent]
  /\ enabled = Presets
  /\ outbox = {}
  /\ poll = Idle

IsOpen(cycle) == cycle.cycle > 0 /\ cycle.ended = 0
Installed(d) == dependency[d].status = "installed"
-----------------------------------------------------------------------------
(* The provider *)

Changed ==
  /\ clock < MaxClock /\ clock' = clock + 1
  /\ validators' = FALSE
  /\ poll' = [poll EXCEPT !.validators = FALSE]
  /\ UNCHANGED <<row, match, dependency, enabled, outbox>>

Opens(e) ==
  /\ ~IsOpen(page[e])
  /\ page' = [page EXCEPT ![e] = [cycle |-> page[e].cycle + 1, ended |-> 0]]
  /\ Changed

Ends(e) ==
  /\ IsOpen(page[e])
  /\ page' = [page EXCEPT ![e].ended = clock + 1]
  /\ Changed
-----------------------------------------------------------------------------
(* Installs and removals (service.ts) *)

\* Mutant: the validators are kept.
Cleared_Kept == validators

\* etag and last_modified set to null.
Cleared == FALSE

\* Resolved incidents that name the preset: the recent ones are matched, none if the
\* scan fails.
Backfill(d) ==
  {e \in Incidents : row[e] # None /\ row[e].ended # 0 /\ PresetOf[d] \in row[e].names}

\* loadRecentStateForCatalogScope, or UNKNOWN: the state of an earlier install.
FirstStates(d) ==
  {state \in States :
     state = "UNKNOWN" \/ \E x \in Rows : /\ PresetOf[x] = PresetOf[d]
                                         /\ dependency[x].status = "removed"}

\* addDependency reads the preset and its recent state before the transaction that
\* inserts: by then the preset may be disabled and the state another.
Install(d) ==
  /\ dependency[d].status = "absent"
  /\ \A x \in Rows : PresetOf[x] = PresetOf[d] => ~Installed(x)
  /\ \E state \in FirstStates(d) :
       dependency' = [dependency EXCEPT ![d] =
         [status |-> "installed", state |-> state,
          awaits |-> IF poll.phase = "loaded" \/ PresetOf[d] \notin enabled
                     THEN "nothing" ELSE "first"]]
  /\ \E found \in SUBSET Backfill(d) : match' = [match EXCEPT ![d] = found]
  /\ validators' = Cleared
  /\ UNCHANGED <<clock, page, row, enabled, outbox, poll>>

\* What state a removed row is left with does not matter: FirstStates allows any.
RemoveDependency(d) ==
  /\ Installed(d)
  /\ dependency' = [dependency EXCEPT ![d] = [Absent EXCEPT !.status = "removed"]]
  /\ UNCHANGED <<clock, page, validators, row, match, enabled, outbox, poll>>

\* scheduleDependencyPoll
Refresh ==
  /\ \E d \in Rows : Installed(d)
  /\ validators /\ validators' = Cleared
  /\ UNCHANGED <<clock, page, row, match, dependency, enabled, outbox, poll>>
-----------------------------------------------------------------------------
(* The catalog's drift check *)

\* disablePreset and flipDependenciesToUnknown
Disable(p) ==
  /\ p \in enabled /\ enabled' = enabled \ {p}
  /\ dependency' = [d \in Rows |-> IF Installed(d) /\ PresetOf[d] = p
                                   THEN [dependency[d] EXCEPT !.state = "UNKNOWN",
                                                              !.awaits = "again"]
                                   ELSE dependency[d]]
  /\ UNCHANGED <<clock, page, validators, row, match, outbox, poll>>

ReEnable(p) ==
  /\ p \notin enabled
  /\ enabled' = enabled \cup {p}
  /\ UNCHANGED <<clock, page, validators, row, match, dependency, outbox, poll>>
-----------------------------------------------------------------------------
(* A poll: claimDueSources, pollOneSource *)

Claim ==
  /\ poll.phase = "idle" /\ \E d \in Rows : Installed(d)
  /\ poll' = [Idle EXCEPT !.phase = "claimed", !.now = clock,
                          !.validators = validators]
  /\ UNCHANGED <<clock, page, validators, row, match, dependency, enabled, outbox>>

Fetch ==
  /\ poll.phase = "claimed"
  /\ poll' = [poll EXCEPT !.phase = "fetched", !.validators = TRUE, !.seen = page]
  /\ UNCHANGED <<clock, page, validators, row, match, dependency, enabled, outbox>>

\* 304: only the source's times change.
NotModified ==
  /\ poll.phase = "claimed" /\ poll.validators
  /\ poll' = Idle
  /\ UNCHANGED <<clock, page, validators, row, match, dependency, enabled, outbox>>

FetchFails ==
  /\ poll.phase = "claimed"
  /\ poll' = Idle
  /\ UNCHANGED <<clock, page, validators, row, match, dependency, enabled, outbox>>

\* The process is killed or the transaction fails.
PollDies ==
  /\ poll.phase # "idle"
  /\ poll' = Idle
  /\ UNCHANGED <<clock, page, validators, row, match, dependency, enabled, outbox>>
-----------------------------------------------------------------------------
(* applyPollOutcome *)

Observed == {d \in Rows : Installed(d) /\ PresetOf[d] \in enabled}

LoadInstalled ==
  /\ poll.phase = "fetched"
  /\ \E notified \in SUBSET Observed :
       poll' = [poll EXCEPT !.phase = "loaded", !.loaded = Observed, !.notified = notified]
  /\ UNCHANGED <<clock, page, validators, row, match, dependency, enabled, outbox>>

\* What a page may say of the incidents seen and of the presets' components, and
\* whether it says that it lists at least all open incidents.  A scope of None is
\* an incident that is not listed.
Snapshots ==
  {s \in [scope : [Incidents -> Scopes \cup {None}], complete : BOOLEAN,
          health : [Presets -> States]] :
     \A e \in Incidents :
       /\ s.scope[e] # None => poll.seen[e].cycle > 0
       /\ s.complete /\ IsOpen(poll.seen[e]) => s.scope[e] # None}

Listed(s) == {e \in Incidents : s.scope[e] # None}

Active(e) == poll.seen[e].ended = 0
\* priorResolvedAt null, and a date; it is neither without a stored row.
WasOpen(e)     == row[e] # None /\ row[e].ended = 0
WasResolved(e) == row[e] # None /\ row[e].ended # 0

Linked(d, e, scope) ==
  \/ scope.kind = "components" /\ PresetOf[d] \in scope.names
  \/ scope.kind = "source" /\ Active(e)

Matched(d, e, scope) == e \in match[d] \/ Linked(d, e, scope)

\* shouldNotifyDependencyIncident
MayOpen(kind, state) ==
  kind = "source" \/ (kind = "components" /\ state = "OUTAGE")

\* shouldNotifyDependencyRecovery
MayRecover(d, state) ==
  \/ state = "OPERATIONAL"
  \/ state = "UNKNOWN" /\ Fidelity[PresetOf[d]] = "incident_only"

\* Mutant: whatever is active has just opened.
HasOpened_EachPoll(d, e) == Active(e)

\* deriveNotificationEvent
HasOpened(d, e)    == Active(e) /\ (e \notin match[d] \/ WasResolved(e))
HasRecovered(e)    == ~Active(e) /\ WasOpen(e)

\* Mutant: a reopened incident keeps its bare id.
OpeningKey_Bare(e) == 0

\* notificationKeyExternalId
OpeningKey(e) == IF WasResolved(e) THEN row[e].ended ELSE 0

\* Mutant: what is not listed is closed after any fetch.
Disappeared_Unguarded(s) == {e \in Incidents : WasOpen(e) /\ s.scope[e] = None}

Disappeared(s) == {e \in Incidents : s.complete /\ WasOpen(e) /\ s.scope[e] = None}

NoticeOf(d, event, e, at, cycle) ==
  [row |-> d, preset |-> PresetOf[d], event |-> event, incident |-> e, at |-> at,
   cycle |-> cycle]

NoticesOf(d, s) ==
  LET state == s.health[PresetOf[d]]
      matched == {e \in Listed(s) : Matched(d, e, s.scope[e])}
  IN {NoticeOf(d, "incident", e, OpeningKey(e), poll.seen[e].cycle) :
        e \in {x \in matched : HasOpened(d, x) /\ MayOpen(s.scope[x].kind, state)}}
     \cup
     {NoticeOf(d, "recovery", e, poll.seen[e].ended, poll.seen[e].cycle) :
        e \in {x \in matched : HasRecovered(x) /\ MayRecover(d, state)}}
     \cup
     {NoticeOf(d, "recovery", e, poll.now, row[e].cycle) :
        e \in {x \in Disappeared(s) \cap match[d] : MayRecover(d, state)}}

SameKey(m, n) ==
  m.preset = n.preset /\ m.event = n.event /\ m.incident = n.incident /\ m.at = n.at

Enqueue(notices) ==
  outbox' = outbox \cup {n \in notices : \A m \in outbox : ~SameKey(m, n)}

\* upsertIncident and upsertIncidentComponents
Upserted(e, scope) ==
  [cycle |-> poll.seen[e].cycle, ended |-> poll.seen[e].ended, kind |-> scope.kind,
   names |-> scope.names \cup IF row[e] = None THEN {} ELSE row[e].names]

ApplySnapshot ==
  /\ poll.phase = "loaded"
  /\ \E s \in Snapshots :
       /\ row' = [e \in Incidents |->
                    CASE e \in Listed(s)      -> Upserted(e, s.scope[e])
                      [] e \in Disappeared(s) -> [row[e] EXCEPT !.ended = poll.now]
                      [] OTHER                -> row[e]]
       /\ match' = [d \in Rows |->
            IF d \in poll.loaded
            THEN match[d] \cup {e \in Listed(s) : Linked(d, e, s.scope[e])}
            ELSE match[d]]
       /\ dependency' = [d \in Rows |->
            IF d \in poll.loaded
            THEN [dependency[d] EXCEPT !.state = s.health[PresetOf[d]],
                                       !.awaits = "nothing"]
            ELSE dependency[d]]
       /\ Enqueue(UNION {NoticesOf(d, s) : d \in poll.notified})
  /\ validators' = poll.validators
  /\ poll' = Idle
  /\ UNCHANGED <<clock, page, enabled>>

\* A failed fetch when the last success is long ago.
ApplyStale ==
  /\ poll.phase = "claimed"
  /\ dependency' = [d \in Rows |-> IF d \in Observed
                                   THEN [dependency[d] EXCEPT !.state = "UNKNOWN"]
                                   ELSE dependency[d]]
  /\ poll' = Idle
  /\ UNCHANGED <<clock, page, validators, row, match, enabled, outbox>>
-----------------------------------------------------------------------------
Next ==
  \/ \E e \in Incidents : Opens(e) \/ Ends(e)
  \/ \E d \in Rows : Install(d) \/ RemoveDependency(d)
  \/ Refresh
  \/ \E p \in Presets : Disable(p) \/ ReEnable(p)
  \/ Claim \/ Fetch \/ NotModified \/ FetchFails \/ PollDies
  \/ LoadInstalled \/ ApplySnapshot \/ ApplyStale

Spec == Init /\ [][Next]_vars

\* The cron fires every minute; the provider is not out of reach for ever, and of
\* the polls that fetch and that load again and again not every one dies.
FairSpec ==
  /\ Spec
  /\ WF_vars(Claim)
  /\ SF_vars(Fetch \/ NotModified)
  /\ SF_vars(LoadInstalled) /\ SF_vars(ApplySnapshot)
-----------------------------------------------------------------------------
(* Properties *)

\* An incident is stored as resolved only if the provider ended it: neither a page
\* that lists less than all open incidents nor a failed fetch resolves one.
ResolvedHasEnded ==
  \A e \in Incidents : row[e] # None /\ row[e].ended # 0 =>
    page[e].cycle > row[e].cycle \/ page[e].ended # 0

\* A dependency is told at most once that an incident opened and at most once that
\* it recovered, for each time the provider opens it.
ToldOnce ==
  \A m, n \in outbox :
    m.row = n.row /\ m.event = n.event /\ m.incident = n.incident /\ m.cycle = n.cycle
      => m = n

Told(d, event, e, cycle) ==
  \E n \in outbox' :
    /\ n.row = d /\ n.event = event /\ n.incident = e /\ n.cycle = cycle

\* An earlier install of the preset was told of the id under its bare key.
ToldPredecessor(d, e) ==
  \E n \in outbox : /\ n.row # d /\ n.preset = PresetOf[d] /\ n.event = "incident"
                    /\ n.incident = e /\ n.at = 0

\* No notice is lost to a key that was used before: when a poll is applied, every
\* dependency that is to be told of an opening, reopening or recovery has the
\* notice of this cycle in the outbox.  The one exception is a preset that was
\* removed and added again while the incident went on.
EveryCycleIsTold ==
  [][\A d \in poll.notified, e \in Incidents :
       row'[e] # None /\ e \in match'[d] =>
         /\ WasOpen(e) /\ row'[e].ended # 0 /\ MayRecover(d, dependency'[d].state) =>
              Told(d, "recovery", e, row'[e].cycle)
         /\ row'[e].ended = 0 /\ (~WasOpen(e) \/ e \notin match[d])
            /\ MayOpen(row'[e].kind, dependency'[d].state)
            => Told(d, "incident", e, row'[e].cycle) \/ ToldPredecessor(d, e)]_vars

\* A dependency that waits for its first state never faces validators the provider
\* may answer 304 to.
FirstPageIsFull ==
  \A d \in Rows : Installed(d) /\ dependency[d].awaits = "first" => ~validators

\* What the comment of reEnablePreset says of a preset whose components are back on
\* the page (catalog-sync.ts:544): its installs get their state on the next poll.
ReEnabledRecomputes ==
  \A d \in Rows :
    Installed(d) /\ dependency[d].awaits = "again" /\ PresetOf[d] \in enabled
      ~> dependency[d].awaits = "nothing" \/ ~Installed(d) \/ PresetOf[d] \notin enabled
=============================================================================
