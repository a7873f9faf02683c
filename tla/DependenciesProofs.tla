------------------------- MODULE DependenciesProofs -------------------------
(***************************************************************************)
(* Proofs about Dependencies, for any number of incidents, presets and     *)
(* dependencies, any fidelity and any bound on the clock.                  *)
(***************************************************************************)
EXTENDS Dependencies, TLAPS

\* A dependency that waits for its first state is of an enabled preset, is in every
\* poll that has loaded, and the validators are cleared until one is applied.
FirstIsAwaited ==
  \A d \in Rows : Installed(d) /\ dependency[d].awaits = "first" =>
    /\ ~validators
    /\ PresetOf[d] \in enabled
    /\ poll.phase = "loaded" => d \in poll.loaded

\* What is stored of an incident is not ahead of the page.
StoredIsBehind ==
  \A e \in Incidents : row[e] # None => row[e].cycle <= page[e].cycle

\* What a poll in hand has seen is between what is stored and the page.
SeenIsBetween ==
  poll.phase \in {"fetched", "loaded"} =>
    /\ poll.now # 0
    /\ \A e \in Incidents :
         /\ poll.seen[e].cycle <= page[e].cycle
         /\ poll.seen[e].cycle = page[e].cycle /\ poll.seen[e].ended # 0 => page[e].ended # 0
         /\ row[e] # None =>
              /\ row[e].cycle <= poll.seen[e].cycle
              /\ row[e].ended # 0 =>
                   poll.seen[e].cycle > row[e].cycle \/ poll.seen[e].ended # 0

\* What was told is in the stored rows: the opening as a match, the recovery as an
\* end that only a later cycle takes back.
ToldIsStored ==
  \A n \in outbox :
    /\ dependency[n.row].status # "absent"
    /\ n.incident \in match[n.row]
    /\ row[n.incident] # None
    /\ n.cycle <= row[n.incident].cycle
    /\ n.event = "recovery" /\ n.cycle = row[n.incident].cycle => row[n.incident].ended # 0

LoadedIsPresent ==
  \A d \in poll.loaded : dependency[d].status # "absent"

\* Cycles only go forward, from the page to the poll to the stored rows.
Behind ==
  /\ poll.phase # "idle" => poll.now # 0
  /\ ResolvedHasEnded
  /\ StoredIsBehind
  /\ SeenIsBetween

\* What was told cannot be told again.
Remembered ==
  /\ LoadedIsPresent
  /\ ToldIsStored
  /\ ToldOnce

\* The inductive invariant.
IInv ==
  /\ TypeOK
  /\ FirstIsAwaited
  /\ Behind
  /\ Remembered
-----------------------------------------------------------------------------
(* Types *)

\* Idle is a poll in no hand.
LEMMA IdleType ==
  /\ Idle \in Poll /\ Idle.phase = "idle"
  /\ Idle.loaded = {} /\ Idle.notified = {}
  BY DEF Idle, Poll, NoCycles, Cycle

\* The first state has its types.
LEMMA InitTypeOK == Init => TypeOK
<1>1. NoCycles \in [Incidents -> Cycle]
  BY DEF NoCycles, Cycle
<1>2. Absent \in Dependency
  BY DEF Absent, Dependency, States
<1> SUFFICES ASSUME Init PROVE TypeOK
  OBVIOUS
<1>3. clock \in Nat \ {0} /\ page \in [Incidents -> Cycle]
  BY <1>1 DEF Init
<1>7. validators \in BOOLEAN
  BY DEF Init
<1>4. row \in [Incidents -> Stored \cup {None}] /\ match \in [Rows -> SUBSET Incidents]
  BY DEF Init
<1>5. dependency \in [Rows -> Dependency] /\ enabled \subseteq Presets /\ outbox \subseteq Notice
  BY <1>2 DEF Init
<1>6. poll \in Poll /\ poll.notified \subseteq poll.loaded
  BY IdleType DEF Init
<1> QED BY <1>3, <1>4, <1>5, <1>6, <1>7 DEF TypeOK

\* What a snapshot says of a listed incident.
LEMMA ListedFacts ==
  ASSUME TypeOK, NEW s \in Snapshots, NEW e \in Listed(s)
  PROVE  /\ e \in Incidents /\ s.scope[e] \in Scopes
         /\ s.scope[e].kind \in {"components", "source", "unmapped"}
         /\ s.scope[e].names \in SUBSET Presets
         /\ poll.seen[e] \in Cycle /\ poll.seen[e].cycle > 0
         /\ Upserted(e, s.scope[e]) \in Stored
         /\ Upserted(e, s.scope[e]).cycle = poll.seen[e].cycle
         /\ Upserted(e, s.scope[e]).ended = poll.seen[e].ended
<1>1. e \in Incidents /\ s.scope[e] \in Scopes
  BY DEF Snapshots, Listed
<1>2. /\ s.scope[e].kind \in {"components", "source", "unmapped"}
      /\ s.scope[e].names \in SUBSET Presets
  BY <1>1 DEF Scopes
<1>3. poll.seen[e] \in Cycle /\ poll.seen[e].cycle > 0
  BY <1>1 DEF TypeOK, Poll, Snapshots, Listed
<1>4. row[e] = None \/ row[e].names \in SUBSET Presets
  BY <1>1 DEF TypeOK, Stored
<1>5. Upserted(e, s.scope[e]) \in Stored
  <2>1. (s.scope[e].names \cup IF row[e] = None THEN {} ELSE row[e].names) \in SUBSET Presets
    BY <1>2, <1>4
  <2>2. poll.seen[e].cycle \in Nat \ {0} /\ poll.seen[e].ended \in Nat
    BY <1>3 DEF Cycle
  <2> QED BY <1>2, <2>1, <2>2 DEF Upserted, Stored
<1> QED BY <1>1, <1>2, <1>3, <1>5 DEF Upserted

\* What a snapshot says of a disappeared incident.
LEMMA DisappearedFacts ==
  ASSUME TypeOK, NEW s \in Snapshots, NEW e \in Disappeared(s)
  PROVE  /\ e \in Incidents /\ e \notin Listed(s)
         /\ row[e] \in Stored /\ row[e].ended = 0
         /\ ~IsOpen(poll.seen[e])
         /\ [row[e] EXCEPT !.ended = poll.now] \in Stored
         /\ [row[e] EXCEPT !.ended = poll.now].cycle = row[e].cycle
         /\ [row[e] EXCEPT !.ended = poll.now].ended = poll.now
  BY DEF TypeOK, Snapshots, Disappeared, Listed, WasOpen, Stored, Poll

\* The rows a snapshot leaves.
LEMMA AppliedRows ==
  ASSUME TypeOK, NEW s \in Snapshots,
         row' = [e \in Incidents |->
                    CASE e \in Listed(s)      -> Upserted(e, s.scope[e])
                      [] e \in Disappeared(s) -> [row[e] EXCEPT !.ended = poll.now]
                      [] OTHER                -> row[e]]
  PROVE  /\ row' \in [Incidents -> Stored \cup {None}]
         /\ \A e \in Listed(s) : /\ row'[e] # None
                                 /\ row'[e].cycle = poll.seen[e].cycle
                                 /\ row'[e].ended = poll.seen[e].ended
         /\ \A e \in Disappeared(s) : /\ row'[e] # None
                                      /\ row'[e].cycle = row[e].cycle
                                      /\ row'[e].ended = poll.now
         /\ \A e \in Incidents \ (Listed(s) \cup Disappeared(s)) : row'[e] = row[e]
<1>1. ASSUME NEW e \in Listed(s) PROVE e \in Incidents /\ row'[e] = Upserted(e, s.scope[e])
  <2>1. e \in Incidents /\ e \notin Disappeared(s)
    BY DEF Listed, Disappeared
  <2> QED BY <2>1
<1>2. ASSUME NEW e \in Disappeared(s)
      PROVE  e \in Incidents /\ row'[e] = [row[e] EXCEPT !.ended = poll.now]
  BY DisappearedFacts
<1>3. \A e \in Incidents \ (Listed(s) \cup Disappeared(s)) : row'[e] = row[e]
  OBVIOUS
<1>4. \A e \in Incidents : row'[e] \in Stored \cup {None}
  BY <1>1, <1>2, <1>3, ListedFacts, DisappearedFacts DEF TypeOK
<1>5. ASSUME NEW e \in Listed(s)
      PROVE  /\ row'[e] # None
             /\ row'[e].cycle = poll.seen[e].cycle
             /\ row'[e].ended = poll.seen[e].ended
  <2>1. Upserted(e, s.scope[e]) # None
    BY ListedFacts, NoneAssumption
  <2> QED BY <1>1, <2>1, ListedFacts
<1>6. ASSUME NEW e \in Disappeared(s)
      PROVE  /\ row'[e] # None
             /\ row'[e].cycle = row[e].cycle
             /\ row'[e].ended = poll.now
  BY <1>2, DisappearedFacts, NoneAssumption
<1>7. row' \in [Incidents -> Stored \cup {None}]
  BY <1>4
<1> QED BY <1>3, <1>5, <1>6, <1>7

\* The notices of a poll are notices, and say what they say.
LEMMA NoticesFacts ==
  ASSUME TypeOK, NEW s \in Snapshots, NEW d \in Rows, NEW n \in NoticesOf(d, s)
  PROVE  /\ n \in Notice /\ n.row = d
         /\ \/ /\ n.event = "incident" /\ n.incident \in Listed(s)
               /\ Matched(d, n.incident, s.scope[n.incident])
               /\ HasOpened(d, n.incident)
               /\ n = NoticeOf(d, "incident", n.incident, OpeningKey(n.incident),
                               poll.seen[n.incident].cycle)
            \/ /\ n.event = "recovery" /\ n.incident \in Listed(s)
               /\ Matched(d, n.incident, s.scope[n.incident])
               /\ HasRecovered(n.incident)
               /\ n = NoticeOf(d, "recovery", n.incident, poll.seen[n.incident].ended,
                               poll.seen[n.incident].cycle)
            \/ /\ n.event = "recovery" /\ n.incident \in Disappeared(s) \cap match[d]
               /\ n = NoticeOf(d, "recovery", n.incident, poll.now, row[n.incident].cycle)
<1> USE PresetsAssumption
<1>1. ASSUME NEW e \in Listed(s), Matched(d, e, s.scope[e]), HasOpened(d, e),
             n = NoticeOf(d, "incident", e, OpeningKey(e), poll.seen[e].cycle)
      PROVE  /\ n \in Notice /\ n.row = d /\ n.event = "incident" /\ n.incident = e
  <2>1. OpeningKey(e) \in Nat
    BY ListedFacts DEF TypeOK, Stored, OpeningKey, WasResolved
  <2> QED BY <1>1, <2>1, ListedFacts DEF Cycle, NoticeOf, Notice
<1>2. ASSUME NEW e \in Listed(s), Matched(d, e, s.scope[e]), HasRecovered(e),
             n = NoticeOf(d, "recovery", e, poll.seen[e].ended, poll.seen[e].cycle)
      PROVE  /\ n \in Notice /\ n.row = d /\ n.event = "recovery" /\ n.incident = e
  BY <1>2, ListedFacts DEF Cycle, NoticeOf, Notice
<1>3. ASSUME NEW e \in Disappeared(s) \cap match[d],
             n = NoticeOf(d, "recovery", e, poll.now, row[e].cycle)
      PROVE  /\ n \in Notice /\ n.row = d /\ n.event = "recovery" /\ n.incident = e
  BY <1>3, DisappearedFacts DEF TypeOK, Poll, Stored, NoticeOf, Notice
<1>4. \/ \E e \in Listed(s) : /\ Matched(d, e, s.scope[e]) /\ HasOpened(d, e)
                             /\ n = NoticeOf(d, "incident", e, OpeningKey(e), poll.seen[e].cycle)
      \/ \E e \in Listed(s) : /\ Matched(d, e, s.scope[e]) /\ HasRecovered(e)
                             /\ n = NoticeOf(d, "recovery", e, poll.seen[e].ended,
                                             poll.seen[e].cycle)
      \/ \E e \in Disappeared(s) \cap match[d] :
            n = NoticeOf(d, "recovery", e, poll.now, row[e].cycle)
  BY DEF NoticesOf
<1> QED BY <1>1, <1>2, <1>3, <1>4

\* Every step keeps the types.
LEMMA NextTypeOK == TypeOK /\ [Next]_vars => TypeOK'
<1> SUFFICES ASSUME TypeOK, [Next]_vars PROVE TypeOK'
  OBVIOUS
<1> USE NoneAssumption, PresetsAssumption, ClockAssumption
<1>1. ASSUME NEW e \in Incidents, Opens(e) PROVE TypeOK'
  <2>1. [cycle |-> page[e].cycle + 1, ended |-> 0] \in Cycle
    BY DEF TypeOK, Cycle
  <2>2. page' \in [Incidents -> Cycle]
    BY <1>1, <2>1 DEF TypeOK, Opens
  <2>3. poll' \in Poll /\ poll'.notified = poll.notified /\ poll'.loaded = poll.loaded
    BY <1>1 DEF TypeOK, Poll, Opens, Changed
  <2>4. Changed
    BY <1>1 DEF Opens
  <2>5. clock' \in Nat \ {0}
    BY <2>4 DEF TypeOK, Changed
  <2>6. validators' = FALSE /\ UNCHANGED <<row, match, dependency, enabled, outbox>>
    BY <2>4 DEF Changed
  <2> QED BY <2>2, <2>3, <2>5, <2>6 DEF TypeOK
<1>2. ASSUME NEW e \in Incidents, Ends(e) PROVE TypeOK'
  <2>1. page' \in [Incidents -> Cycle]
    BY <1>2 DEF TypeOK, Ends, Cycle
  <2>3. poll' \in Poll /\ poll'.notified = poll.notified /\ poll'.loaded = poll.loaded
    BY <1>2 DEF TypeOK, Poll, Ends, Changed
  <2>4. Changed
    BY <1>2 DEF Ends
  <2>5. clock' \in Nat \ {0}
    BY <2>4 DEF TypeOK, Changed
  <2>6. validators' = FALSE /\ UNCHANGED <<row, match, dependency, enabled, outbox>>
    BY <2>4 DEF Changed
  <2> QED BY <2>1, <2>3, <2>5, <2>6 DEF TypeOK
<1>3. ASSUME NEW d \in Rows, Install(d) PROVE TypeOK'
  <2>1. dependency' \in [Rows -> Dependency]
    BY <1>3 DEF TypeOK, Install, FirstStates, Dependency
  <2>2. match' \in [Rows -> SUBSET Incidents]
    BY <1>3 DEF TypeOK, Install, Backfill
  <2> QED BY <1>3, <2>1, <2>2 DEF TypeOK, Install, Cleared
<1>4. ASSUME NEW d \in Rows, RemoveDependency(d) PROVE TypeOK'
  <2>1. [Absent EXCEPT !.status = "removed"] \in Dependency
    BY DEF Absent, Dependency, States
  <2> QED BY <1>4, <2>1 DEF TypeOK, RemoveDependency
<1>5. ASSUME Refresh PROVE TypeOK'
  BY <1>5 DEF TypeOK, Refresh, Cleared
<1>6. ASSUME NEW p \in Presets, Disable(p) \/ ReEnable(p) PROVE TypeOK'
  <2>1. \A d \in Rows :
          [dependency[d] EXCEPT !.state = "UNKNOWN", !.awaits = "again"] \in Dependency
    BY DEF TypeOK, Dependency, States
  <2>2. dependency' \in [Rows -> Dependency]
    BY <1>6, <2>1 DEF TypeOK, Disable, ReEnable
  <2> QED BY <1>6, <2>2 DEF TypeOK, Disable, ReEnable
<1>7. ASSUME Claim PROVE TypeOK'
  <2>1. poll' \in Poll /\ poll'.notified = {}
    BY <1>7, IdleType DEF TypeOK, Poll, Claim
  <2> QED BY <1>7, <2>1 DEF TypeOK, Claim
<1>8. ASSUME Fetch PROVE TypeOK'
  <2>1. poll' \in Poll /\ poll'.notified = poll.notified /\ poll'.loaded = poll.loaded
    BY <1>8 DEF TypeOK, Poll, Fetch
  <2> QED BY <1>8, <2>1 DEF TypeOK, Fetch
<1>9. ASSUME NotModified \/ FetchFails \/ PollDies PROVE TypeOK'
  BY <1>9, IdleType DEF TypeOK, NotModified, FetchFails, PollDies
<1>10. ASSUME LoadInstalled PROVE TypeOK'
  <2>1. poll' \in Poll /\ poll'.notified \subseteq poll'.loaded
    <3>1. PICK notified \in SUBSET Observed :
            poll' = [poll EXCEPT !.phase = "loaded", !.loaded = Observed,
                                 !.notified = notified]
      BY <1>10 DEF LoadInstalled
    <3>2. Observed \in SUBSET Rows
      BY DEF Observed
    <3> QED BY <3>1, <3>2 DEF TypeOK, Poll
  <2> QED BY <1>10, <2>1 DEF TypeOK, LoadInstalled
<1>11. ASSUME ApplySnapshot PROVE TypeOK'
  <2>1. PICK s \in Snapshots :
          /\ row' = [e \in Incidents |->
                    CASE e \in Listed(s)      -> Upserted(e, s.scope[e])
                      [] e \in Disappeared(s) -> [row[e] EXCEPT !.ended = poll.now]
                      [] OTHER                -> row[e]]
          /\ match' = [d \in Rows |->
               IF d \in poll.loaded
               THEN match[d] \cup {e \in Listed(s) : Linked(d, e, s.scope[e])}
               ELSE match[d]]
          /\ dependency' = [d \in Rows |->
               IF d \in poll.loaded
               THEN [dependency[d] EXCEPT !.state = s.health[PresetOf[d]],
                                          !.awaits = "nothing"]
               ELSE dependency[d]]
          /\ Enqueue(UNION {NoticesOf(d, s) : d \in poll.notified})
    BY <1>11 DEF ApplySnapshot
  <2>2. row' \in [Incidents -> Stored \cup {None}]
    BY <2>1, AppliedRows
  <2>3. match' \in [Rows -> SUBSET Incidents]
    BY <2>1 DEF TypeOK, Listed
  <2>4. dependency' \in [Rows -> Dependency]
    <3>1. \A d \in Rows : s.health[PresetOf[d]] \in States
      BY DEF Snapshots
    <3>2. \A d \in Rows : [dependency[d] EXCEPT !.state = s.health[PresetOf[d]],
                                               !.awaits = "nothing"] \in Dependency
      BY <3>1 DEF TypeOK, Dependency
    <3> QED BY <2>1, <3>2 DEF TypeOK
  <2>5. outbox' \subseteq Notice
    <3>1. poll.notified \subseteq Rows
      BY DEF TypeOK, Poll
    <3>2. ASSUME NEW n \in outbox', n \notin outbox
          PROVE  \E d \in poll.notified : n \in NoticesOf(d, s)
      BY <2>1, <3>2 DEF Enqueue
    <3> QED BY <3>1, <3>2, NoticesFacts DEF TypeOK
  <2>6. validators' \in BOOLEAN /\ poll' = Idle /\ UNCHANGED <<clock, page, enabled>>
    BY <1>11 DEF TypeOK, Poll, ApplySnapshot
  <2> QED BY <2>2, <2>3, <2>4, <2>5, <2>6, IdleType DEF TypeOK
<1>12. ASSUME ApplyStale PROVE TypeOK'
  <2>1. \A d \in Rows : [dependency[d] EXCEPT !.state = "UNKNOWN"] \in Dependency
    BY DEF TypeOK, Dependency, States
  <2>2. dependency' \in [Rows -> Dependency]
    BY <1>12, <2>1 DEF TypeOK, ApplyStale
  <2> QED BY <1>12, <2>2, IdleType DEF TypeOK, ApplyStale
<1>13. CASE UNCHANGED vars
  BY <1>13 DEF TypeOK, vars
<1> QED
  BY <1>1, <1>2, <1>3, <1>4, <1>5, <1>6, <1>7, <1>8, <1>9, <1>10, <1>11, <1>12, <1>13
  DEF Next

\* Every reachable value of the variables has its type.
THEOREM TypeCorrect == Spec => []TypeOK
<1> QED BY InitTypeOK, NextTypeOK, PTL DEF Spec
-----------------------------------------------------------------------------
(* The first page *)

\* A dependency that waits for its first state waits for a page that is not a 304
\* and is in the poll that brings it.
LEMMA FirstNext == TypeOK /\ FirstIsAwaited /\ [Next]_vars => FirstIsAwaited'
<1> SUFFICES ASSUME TypeOK, FirstIsAwaited, [Next]_vars,
                    NEW d \in Rows, Installed(d)', dependency'[d].awaits = "first"
             PROVE  /\ ~validators'
                    /\ PresetOf[d] \in enabled'
                    /\ poll'.phase = "loaded" => d \in poll'.loaded
  BY DEF FirstIsAwaited
<1> USE DEF Installed
<1>1. ASSUME NEW e \in Incidents, Opens(e) \/ Ends(e)
      PROVE  /\ ~validators' /\ dependency' = dependency /\ enabled' = enabled
             /\ poll'.phase = poll.phase /\ poll'.loaded = poll.loaded
  BY <1>1 DEF Opens, Ends, Changed, TypeOK, Poll
<1>2. ASSUME NEW x \in Rows, Install(x)
      PROVE  /\ ~validators' /\ PresetOf[d] \in enabled'
             /\ poll'.phase = "loaded" => d \in poll'.loaded
  <2>1. ~validators' /\ UNCHANGED <<enabled, poll>>
    BY <1>2 DEF Install, Cleared
  <2>2. CASE d = x
    BY <1>2, <2>1, <2>2 DEF Install, TypeOK
  <2>3. CASE d # x
    BY <1>2, <2>1, <2>3 DEF Install, TypeOK, FirstIsAwaited
  <2> QED BY <2>2, <2>3
<1>3. ASSUME NEW x \in Rows, RemoveDependency(x)
      PROVE  dependency'[d] = dependency[d] /\ UNCHANGED <<validators, enabled, poll>>
  <2>1. d # x
    BY <1>3 DEF RemoveDependency, TypeOK, Dependency, Absent
  <2> QED BY <1>3, <2>1 DEF RemoveDependency, TypeOK
<1>4. ASSUME Refresh
      PROVE  ~validators' /\ UNCHANGED <<dependency, enabled, poll>>
  BY <1>4 DEF Refresh, Cleared
<1>5. ASSUME NEW p \in Presets, Disable(p)
      PROVE  /\ dependency'[d] = dependency[d] /\ PresetOf[d] # p
             /\ enabled' = enabled \ {p} /\ UNCHANGED <<validators, poll>>
  BY <1>5 DEF Disable, TypeOK, Dependency
<1>6. ASSUME NEW p \in Presets, ReEnable(p)
      PROVE  enabled \subseteq enabled' /\ UNCHANGED <<dependency, validators, poll>>
  BY <1>6 DEF ReEnable
<1>7. ASSUME Claim \/ Fetch \/ NotModified \/ FetchFails \/ PollDies
      PROVE  poll'.phase # "loaded" /\ UNCHANGED <<dependency, enabled, validators>>
  <2>1. ASSUME Claim PROVE poll'.phase = "claimed"
    BY <2>1 DEF Claim, Idle
  <2>2. ASSUME Fetch PROVE poll'.phase = "fetched"
    BY <2>2 DEF Fetch, TypeOK, Poll
  <2>3. ASSUME NotModified \/ FetchFails \/ PollDies PROVE poll'.phase = "idle"
    BY <2>3, IdleType DEF NotModified, FetchFails, PollDies
  <2>4. UNCHANGED <<dependency, enabled, validators>>
    BY <1>7 DEF Claim, Fetch, NotModified, FetchFails, PollDies
  <2> QED BY <1>7, <2>1, <2>2, <2>3, <2>4
<1>8. ASSUME LoadInstalled
      PROVE  /\ ~validators' /\ PresetOf[d] \in enabled'
             /\ poll'.phase = "loaded" => d \in poll'.loaded
  <2>1. poll'.loaded = Observed /\ UNCHANGED <<dependency, enabled, validators>>
    BY <1>8 DEF LoadInstalled, TypeOK, Poll
  <2> QED BY <2>1 DEF Observed, FirstIsAwaited
<1>9. ASSUME ApplySnapshot PROVE FALSE
  <2>1. PICK s \in Snapshots :
          dependency' = [x \in Rows |->
            IF x \in poll.loaded
            THEN [dependency[x] EXCEPT !.state = s.health[PresetOf[x]],
                                       !.awaits = "nothing"]
            ELSE dependency[x]]
    BY <1>9 DEF ApplySnapshot
  <2>2. CASE d \in poll.loaded
    BY <2>1, <2>2 DEF TypeOK, Dependency
  <2>3. CASE d \notin poll.loaded
    BY <1>9, <2>1, <2>3 DEF FirstIsAwaited, ApplySnapshot
  <2> QED BY <2>2, <2>3
<1>10. ASSUME ApplyStale
       PROVE  /\ dependency[d].status = "installed" /\ dependency[d].awaits = "first"
              /\ poll'.phase # "loaded" /\ UNCHANGED <<enabled, validators>>
  BY <1>10 DEF ApplyStale, TypeOK, Dependency, Idle
<1>11. CASE UNCHANGED vars
  BY <1>11 DEF vars, FirstIsAwaited
<1>12. ASSUME /\ dependency[d].status = "installed" /\ dependency[d].awaits = "first"
              /\ ~validators' \/ validators' = validators
              /\ PresetOf[d] \in enabled => PresetOf[d] \in enabled'
              /\ \/ poll'.phase # "loaded"
                 \/ poll'.phase = poll.phase /\ poll'.loaded = poll.loaded
       PROVE  /\ ~validators' /\ PresetOf[d] \in enabled'
              /\ poll'.phase = "loaded" => d \in poll'.loaded
  BY <1>12 DEF FirstIsAwaited
<1>13. ASSUME \E e \in Incidents : Opens(e) \/ Ends(e)
       PROVE  /\ ~validators' /\ PresetOf[d] \in enabled'
              /\ poll'.phase = "loaded" => d \in poll'.loaded
  BY <1>1, <1>12, <1>13
<1>14. ASSUME (\E x \in Rows : RemoveDependency(x)) \/ Refresh
       PROVE  /\ ~validators' /\ PresetOf[d] \in enabled'
              /\ poll'.phase = "loaded" => d \in poll'.loaded
  BY <1>3, <1>4, <1>12, <1>14
<1>15. ASSUME \E p \in Presets : Disable(p) \/ ReEnable(p)
       PROVE  /\ ~validators' /\ PresetOf[d] \in enabled'
              /\ poll'.phase = "loaded" => d \in poll'.loaded
  BY <1>5, <1>6, <1>12, <1>15
<1>16. ASSUME Claim \/ Fetch \/ NotModified \/ FetchFails \/ PollDies \/ ApplyStale
       PROVE  /\ ~validators' /\ PresetOf[d] \in enabled'
              /\ poll'.phase = "loaded" => d \in poll'.loaded
  BY <1>7, <1>10, <1>12, <1>16
<1> QED
  BY <1>2, <1>8, <1>9, <1>11, <1>13, <1>14, <1>15, <1>16 DEF Next
-----------------------------------------------------------------------------
(* Cycles: the page, the poll and the stored rows *)

\* A step that changes neither the page nor the rows and leaves a poll that has
\* seen nothing.
LEMMA IdleBehind ==
  ASSUME TypeOK, Behind, UNCHANGED <<page, row>>, poll'.phase \in {"idle", "claimed"},
         poll'.phase = "claimed" => poll'.now # 0
  PROVE  Behind'
  BY DEF Behind, ResolvedHasEnded, StoredIsBehind, SeenIsBetween

\* A step that changes neither the page nor the rows nor what the poll has seen.
LEMMA SameBehind ==
  ASSUME TypeOK, Behind, UNCHANGED <<page, row>>, poll'.phase # "idle" => poll.phase # "idle",
         poll'.phase \in {"fetched", "loaded"} => poll.phase \in {"fetched", "loaded"},
         poll'.now = poll.now, poll'.seen = poll.seen
  PROVE  Behind'
  BY DEF Behind, ResolvedHasEnded, StoredIsBehind, SeenIsBetween

\* The stored rows stay behind the page, and resolve no incident that goes on.
LEMMA BehindNext == TypeOK /\ Behind /\ [Next]_vars => Behind'
<1> SUFFICES ASSUME TypeOK, Behind, [Next]_vars PROVE Behind'
  OBVIOUS
<1>1. ASSUME NEW e \in Incidents, Opens(e) \/ Ends(e) PROVE Behind'
  <2>1. /\ row' = row /\ poll'.phase = poll.phase /\ poll'.now = poll.now
        /\ poll'.seen = poll.seen
    BY <1>1 DEF Opens, Ends, Changed, TypeOK, Poll
  <2>2. \A x \in Incidents :
          \/ page'[x] = page[x]
          \/ page'[x].cycle = page[x].cycle + 1
          \/ page'[x].cycle = page[x].cycle /\ page'[x].ended # 0
    <3>1. ASSUME Opens(e), NEW x \in Incidents
          PROVE  page'[x] = page[x] \/ page'[x].cycle = page[x].cycle + 1
      BY <3>1 DEF Opens, TypeOK
    <3>2. ASSUME Ends(e), NEW x \in Incidents
          PROVE  \/ page'[x] = page[x]
                 \/ page'[x].cycle = page[x].cycle /\ page'[x].ended = clock + 1
      BY <3>2 DEF Ends, TypeOK, Cycle
    <3>3. clock + 1 # 0
      BY DEF TypeOK
    <3> QED BY <1>1, <3>1, <3>2, <3>3
  <2>3. \A x \in Incidents : page[x].cycle \in Nat /\ poll.seen[x].cycle \in Nat
    BY DEF TypeOK, Cycle, Poll
  <2>4. \A x \in Incidents : row[x] # None => row[x].cycle \in Nat
    BY DEF TypeOK, Stored
  <2>5. ResolvedHasEnded'
    BY <2>1, <2>2, <2>3, <2>4 DEF Behind, ResolvedHasEnded, StoredIsBehind
  <2>6. StoredIsBehind'
    BY <2>1, <2>2, <2>3, <2>4 DEF Behind, StoredIsBehind
  <2>7. SeenIsBetween'
    BY <2>1, <2>2, <2>3 DEF Behind, SeenIsBetween
  <2> QED BY <2>1, <2>5, <2>6, <2>7 DEF Behind
<1>2. ASSUME NEW d \in Rows, Install(d) \/ RemoveDependency(d) PROVE Behind'
  BY <1>2, SameBehind DEF Install, RemoveDependency
<1>3. ASSUME Refresh PROVE Behind'
  BY <1>3, SameBehind DEF Refresh
<1>4. ASSUME NEW p \in Presets, Disable(p) \/ ReEnable(p) PROVE Behind'
  BY <1>4, SameBehind DEF Disable, ReEnable
<1>5. ASSUME Claim PROVE Behind'
  <2>1. poll'.phase = "claimed" /\ poll'.now = clock
    BY <1>5 DEF Claim, Idle
  <2> QED BY <1>5, <2>1, IdleBehind DEF Claim, TypeOK
<1>6. ASSUME Fetch PROVE Behind'
  <2>1. /\ poll'.phase = "fetched" /\ poll'.now = poll.now /\ poll'.seen = page
        /\ poll.now # 0 /\ UNCHANGED <<page, row>>
    BY <1>6 DEF Fetch, TypeOK, Poll, Behind
  <2>2. \A x \in Incidents : page[x].cycle \in Nat
    BY DEF TypeOK, Cycle
  <2>3. SeenIsBetween'
    BY <2>1, <2>2 DEF Behind, SeenIsBetween, StoredIsBehind, ResolvedHasEnded
  <2> QED BY <2>1, <2>3 DEF Behind, StoredIsBehind, ResolvedHasEnded
<1>7. ASSUME NotModified \/ FetchFails \/ PollDies \/ ApplyStale PROVE Behind'
  <2>1. poll'.phase = "idle" /\ UNCHANGED <<page, row>>
    BY <1>7, IdleType DEF NotModified, FetchFails, PollDies, ApplyStale
  <2> QED BY <2>1, IdleBehind
<1>8. ASSUME LoadInstalled PROVE Behind'
  <2>1. /\ poll'.phase = "loaded" /\ poll.phase = "fetched" /\ poll'.now = poll.now
        /\ poll'.seen = poll.seen /\ UNCHANGED <<page, row>>
    BY <1>8 DEF LoadInstalled, TypeOK, Poll
  <2> QED BY <2>1, SameBehind
<1>9. ASSUME ApplySnapshot PROVE Behind'
  <2>1. PICK s \in Snapshots :
          row' = [e \in Incidents |->
                    CASE e \in Listed(s)      -> Upserted(e, s.scope[e])
                      [] e \in Disappeared(s) -> [row[e] EXCEPT !.ended = poll.now]
                      [] OTHER                -> row[e]]
    BY <1>9 DEF ApplySnapshot
  <2>2. page' = page /\ poll'.phase = "idle" /\ poll.phase = "loaded"
    BY <1>9, IdleType DEF ApplySnapshot
  <2>3. ASSUME NEW e \in Incidents, row'[e] # None
        PROVE  /\ row'[e].cycle <= page[e].cycle
               /\ row'[e].ended # 0 => page[e].cycle > row'[e].cycle \/ page[e].ended # 0
    <3>1. page[e].cycle \in Nat /\ poll.seen[e].cycle \in Nat
      BY DEF TypeOK, Cycle, Poll
    <3>2. poll.seen[e].cycle <= page[e].cycle
          /\ (poll.seen[e].cycle = page[e].cycle /\ poll.seen[e].ended # 0 => page[e].ended # 0)
      BY <2>2 DEF Behind, SeenIsBetween
    <3>3. CASE e \in Listed(s)
      <4>1. row'[e].cycle = poll.seen[e].cycle /\ row'[e].ended = poll.seen[e].ended
        BY <2>1, <3>3, AppliedRows
      <4> QED BY <3>1, <3>2, <4>1
    <3>4. CASE e \in Disappeared(s)
      <4>1. row'[e].cycle = row[e].cycle
        BY <2>1, <3>4, AppliedRows
      <4>2. row[e] # None /\ row[e].cycle \in Nat \ {0} /\ ~IsOpen(poll.seen[e])
        BY <3>4, DisappearedFacts, NoneAssumption DEF Stored
      <4>3. row[e].cycle <= poll.seen[e].cycle
        BY <2>2, <4>2 DEF Behind, SeenIsBetween
      <4>4. poll.seen[e].ended # 0
        BY <3>1, <4>2, <4>3 DEF IsOpen
      <4> QED BY <3>1, <3>2, <4>1, <4>2, <4>3, <4>4
    <3>5. CASE e \notin Listed(s) \cup Disappeared(s)
      <4>1. row'[e] = row[e]
        BY <2>1, <3>5, AppliedRows
      <4> QED BY <2>3, <4>1 DEF Behind, StoredIsBehind, ResolvedHasEnded
    <3> QED BY <3>3, <3>4, <3>5
  <2> QED BY <2>2, <2>3 DEF Behind, StoredIsBehind, ResolvedHasEnded, SeenIsBetween
<1>10. CASE UNCHANGED vars
  BY <1>10, SameBehind DEF vars
<1> QED
  BY <1>1, <1>2, <1>3, <1>4, <1>5, <1>6, <1>7, <1>8, <1>9, <1>10 DEF Next
-----------------------------------------------------------------------------
(* What was told *)

\* A step that tells nothing, changes no row, and no match of a dependency that is
\* or was installed.
LEMMA QuietRemembered ==
  ASSUME TypeOK, Remembered, UNCHANGED <<row, outbox>>,
         \A d \in Rows : dependency[d].status # "absent" =>
           dependency'[d].status # "absent" /\ match'[d] = match[d],
         \A d \in poll'.loaded : d \in Rows /\ dependency[d].status # "absent"
  PROVE  Remembered'
<1>1. LoadedIsPresent'
  BY DEF LoadedIsPresent
<1>2. \A n \in outbox : n.row \in Rows
  BY DEF TypeOK, Notice
<1>3. ToldIsStored'
  BY <1>2 DEF Remembered, ToldIsStored
<1>4. ToldOnce'
  BY DEF Remembered, ToldOnce
<1> QED BY <1>1, <1>3, <1>4 DEF Remembered

\* What the steps of a poll leave of the rows of incidents told about.
LEMMA KeptRows ==
  ASSUME TypeOK, Behind, poll.phase = "loaded", NEW s \in Snapshots,
         row' = [e \in Incidents |->
                    CASE e \in Listed(s)      -> Upserted(e, s.scope[e])
                      [] e \in Disappeared(s) -> [row[e] EXCEPT !.ended = poll.now]
                      [] OTHER                -> row[e]],
         NEW e \in Incidents, row[e] # None
  PROVE  /\ row'[e] # None
         /\ row[e].cycle <= row'[e].cycle
         /\ row[e].ended # 0 /\ row'[e].cycle = row[e].cycle => row'[e].ended # 0
<1>1. row[e].cycle \in Nat /\ poll.seen[e].cycle \in Nat
  BY DEF TypeOK, Stored, Poll, Cycle
<1>2. /\ row[e].cycle <= poll.seen[e].cycle
      /\ row[e].ended # 0 => poll.seen[e].cycle > row[e].cycle \/ poll.seen[e].ended # 0
  BY DEF Behind, SeenIsBetween
<1>3. CASE e \in Listed(s)
  <2>1. /\ row'[e] # None /\ row'[e].cycle = poll.seen[e].cycle
        /\ row'[e].ended = poll.seen[e].ended
    BY <1>3, AppliedRows
  <2> QED BY <1>1, <1>2, <2>1
<1>4. CASE e \in Disappeared(s)
  <2>1. row'[e] # None /\ row'[e].cycle = row[e].cycle
    BY <1>4, AppliedRows
  <2>2. row[e].ended = 0
    BY <1>4, DisappearedFacts
  <2> QED BY <1>1, <2>1, <2>2
<1>5. CASE e \notin Listed(s) \cup Disappeared(s)
  <2>1. row'[e] = row[e]
    BY <1>5, AppliedRows
  <2>2. row[e].cycle <= row'[e].cycle
    BY <1>1, <2>1
  <2>3. row'[e] # None /\ (row[e].ended # 0 => row'[e].ended # 0)
    BY <2>1
  <2> QED BY <2>2, <2>3
<1> QED BY <1>3, <1>4, <1>5

\* A notice of the poll is of a cycle that was not told before.
LEMMA NewCycle ==
  ASSUME TypeOK, Behind, Remembered, poll.phase = "loaded", NEW s \in Snapshots,
         NEW d \in Rows, NEW n \in NoticesOf(d, s), NEW m \in outbox,
         m.row = d, m.event = n.event, m.incident = n.incident
  PROVE  m.cycle # n.cycle
<1> DEFINE e == n.incident
<1>1. /\ e \in match[d] /\ row[e] # None /\ m.cycle <= row[e].cycle
      /\ m.event = "recovery" /\ m.cycle = row[e].cycle => row[e].ended # 0
  BY DEF Remembered, ToldIsStored
<1>2. e \in Incidents /\ m.cycle \in Nat
  BY DEF TypeOK, Notice
<1>3. /\ row[e].cycle \in Nat /\ poll.seen[e].cycle \in Nat
      /\ row[e].cycle <= poll.seen[e].cycle
      /\ row[e].ended # 0 => poll.seen[e].cycle > row[e].cycle \/ poll.seen[e].ended # 0
  BY <1>1, <1>2 DEF TypeOK, Stored, Poll, Cycle, Behind, SeenIsBetween
<1>4. CASE /\ n.event = "incident" /\ HasOpened(d, e)
           /\ n = NoticeOf(d, "incident", e, OpeningKey(e), poll.seen[e].cycle)
  <2>1. n.cycle = poll.seen[e].cycle
    BY <1>4 DEF NoticeOf
  <2>2. poll.seen[e].ended = 0 /\ row[e].ended # 0
    BY <1>1, <1>4 DEF HasOpened, Active, WasResolved
  <2> HIDE DEF e
  <2> QED BY <1>1, <1>2, <1>3, <2>1, <2>2
<1>5. CASE /\ n.event = "recovery" /\ HasRecovered(e)
           /\ n = NoticeOf(d, "recovery", e, poll.seen[e].ended, poll.seen[e].cycle)
  <2>1. n.cycle = poll.seen[e].cycle
    BY <1>5 DEF NoticeOf
  <2>2. row[e].ended = 0
    BY <1>5 DEF HasRecovered, WasOpen
  <2>3. m.event = "recovery"
    BY <1>5
  <2> HIDE DEF e
  <2> QED BY <1>1, <1>2, <1>3, <2>1, <2>2, <2>3
<1>6. CASE /\ n.event = "recovery" /\ e \in Disappeared(s) \cap match[d]
           /\ n = NoticeOf(d, "recovery", e, poll.now, row[e].cycle)
  <2>1. n.cycle = row[e].cycle
    BY <1>6 DEF NoticeOf
  <2>2. row[e].ended = 0
    BY <1>6, DisappearedFacts
  <2>3. m.event = "recovery"
    BY <1>6
  <2> HIDE DEF e
  <2> QED BY <1>1, <1>2, <1>3, <2>1, <2>2, <2>3
<1> QED BY <1>4, <1>5, <1>6, NoticesFacts

\* A poll makes one notice of a dependency, an event and an incident.
LEMMA OnePerPoll ==
  ASSUME TypeOK, NEW s \in Snapshots, NEW d \in Rows,
         NEW m \in NoticesOf(d, s), NEW n \in NoticesOf(d, s),
         m.event = n.event, m.incident = n.incident
  PROVE  m = n
<1> DEFINE e == n.incident
<1>1. e \in Listed(s) => e \notin Disappeared(s)
  BY DEF Listed, Disappeared
<1>2. CASE n.event = "incident"
  <2>1. /\ n = NoticeOf(d, "incident", e, OpeningKey(e), poll.seen[e].cycle)
        /\ m = NoticeOf(d, "incident", e, OpeningKey(e), poll.seen[e].cycle)
    BY <1>2, NoticesFacts
  <2> QED BY <2>1
<1>3. CASE e \in Listed(s) /\ n.event = "recovery"
  <2>1. /\ n = NoticeOf(d, "recovery", e, poll.seen[e].ended, poll.seen[e].cycle)
        /\ m = NoticeOf(d, "recovery", e, poll.seen[e].ended, poll.seen[e].cycle)
    BY <1>1, <1>3, NoticesFacts
  <2> QED BY <2>1
<1>4. CASE e \in Disappeared(s) /\ n.event = "recovery"
  <2>1. /\ n = NoticeOf(d, "recovery", e, poll.now, row[e].cycle)
        /\ m = NoticeOf(d, "recovery", e, poll.now, row[e].cycle)
    BY <1>1, <1>4, NoticesFacts
  <2> QED BY <2>1
<1> QED BY <1>2, <1>3, <1>4, NoticesFacts

\* A poll that applies a page tells only what it stores.
LEMMA ApplyRemembered == TypeOK /\ Behind /\ Remembered /\ ApplySnapshot => Remembered'
<1> SUFFICES ASSUME TypeOK, Behind, Remembered, ApplySnapshot PROVE Remembered'
  OBVIOUS
<1>1. PICK s \in Snapshots :
          /\ row' = [e \in Incidents |->
                    CASE e \in Listed(s)      -> Upserted(e, s.scope[e])
                      [] e \in Disappeared(s) -> [row[e] EXCEPT !.ended = poll.now]
                      [] OTHER                -> row[e]]
          /\ match' = [d \in Rows |->
               IF d \in poll.loaded
               THEN match[d] \cup {e \in Listed(s) : Linked(d, e, s.scope[e])}
               ELSE match[d]]
          /\ dependency' = [d \in Rows |->
               IF d \in poll.loaded
               THEN [dependency[d] EXCEPT !.state = s.health[PresetOf[d]],
                                          !.awaits = "nothing"]
               ELSE dependency[d]]
          /\ Enqueue(UNION {NoticesOf(d, s) : d \in poll.notified})
  BY DEF ApplySnapshot
<1>2. poll.phase = "loaded" /\ poll'.loaded = {} /\ poll.now # 0
  BY IdleType DEF ApplySnapshot, Behind, SeenIsBetween
<1>3. \A d \in Rows : dependency'[d].status = dependency[d].status
  BY <1>1 DEF TypeOK, Dependency
<1>4. poll.notified \subseteq poll.loaded /\ poll.loaded \subseteq Rows
  BY DEF TypeOK, Poll
<1>5. ASSUME NEW n \in outbox', n \notin outbox
      PROVE  \E d \in poll.notified : n \in NoticesOf(d, s) /\ n.row = d
  <2>1. PICK d \in poll.notified : n \in NoticesOf(d, s)
    BY <1>1, <1>5 DEF Enqueue
  <2> QED BY <1>4, <2>1, NoticesFacts
<1>6. ASSUME NEW d \in Rows PROVE match[d] \subseteq match'[d]
  BY <1>1
<1>7. LoadedIsPresent'
  BY <1>2 DEF LoadedIsPresent
<1>8. ToldIsStored'
  <2>1. ASSUME NEW n \in outbox
        PROVE  /\ dependency'[n.row].status # "absent"
               /\ n.incident \in match'[n.row]
               /\ row'[n.incident] # None
               /\ n.cycle <= row'[n.incident].cycle
               /\ n.event = "recovery" /\ n.cycle = row'[n.incident].cycle
                    => row'[n.incident].ended # 0
    <3> DEFINE e == n.incident
    <3>1. /\ dependency[n.row].status # "absent" /\ e \in match[n.row] /\ row[e] # None
          /\ n.cycle <= row[e].cycle
          /\ n.event = "recovery" /\ n.cycle = row[e].cycle => row[e].ended # 0
      BY DEF Remembered, ToldIsStored
    <3>2. n.row \in Rows /\ e \in Incidents /\ n.cycle \in Nat
      BY DEF TypeOK, Notice
    <3>3. /\ row'[e] # None /\ row[e].cycle <= row'[e].cycle
          /\ row[e].ended # 0 /\ row'[e].cycle = row[e].cycle => row'[e].ended # 0
      BY <1>1, <1>2, <3>1, <3>2, KeptRows
    <3>4. row[e].cycle \in Nat /\ row'[e].cycle \in Nat
      <4>1. row' \in [Incidents -> Stored \cup {None}]
        BY <1>1, AppliedRows
      <4> QED BY <3>1, <3>2, <3>3, <4>1 DEF TypeOK, Stored
    <3>5. dependency'[n.row].status # "absent" /\ e \in match'[n.row]
      BY <1>3, <1>6, <3>1, <3>2
    <3> HIDE DEF e
    <3>6. n.cycle <= row'[e].cycle
      BY <3>1, <3>2, <3>3, <3>4
    <3>7. n.event = "recovery" /\ n.cycle = row'[e].cycle => row'[e].ended # 0
      BY <3>1, <3>2, <3>3, <3>4
    <3> QED BY <3>3, <3>5, <3>6, <3>7 DEF e
  <2>2. ASSUME NEW n \in outbox', n \notin outbox
        PROVE  /\ dependency'[n.row].status # "absent"
               /\ n.incident \in match'[n.row]
               /\ row'[n.incident] # None
               /\ n.cycle <= row'[n.incident].cycle
               /\ n.event = "recovery" /\ n.cycle = row'[n.incident].cycle
                    => row'[n.incident].ended # 0
    <3> DEFINE e == n.incident
    <3>1. PICK d \in poll.notified : n \in NoticesOf(d, s) /\ n.row = d
      BY <1>5, <2>2
    <3>2. d \in Rows /\ d \in poll.loaded /\ dependency'[d].status # "absent"
      BY <1>3, <1>4, <3>1 DEF Remembered, LoadedIsPresent
    <3>3. CASE e \in Listed(s) /\ Matched(d, e, s.scope[e]) /\ n.cycle = poll.seen[e].cycle
               /\ (n.event = "recovery" => HasRecovered(e))
      <4>1. e \in match'[d]
        BY <1>1, <1>6, <3>2, <3>3 DEF Matched
      <4>2. row'[e] # None /\ row'[e].cycle = poll.seen[e].cycle
            /\ row'[e].ended = poll.seen[e].ended
        BY <1>1, <3>3, AppliedRows
      <4>3. n.event = "recovery" => poll.seen[e].ended # 0
        BY <3>3 DEF HasRecovered, Active
      <4>4. poll.seen[e].cycle \in Nat
        BY <3>3 DEF TypeOK, Poll, Cycle, Listed
      <4> HIDE DEF e
      <4> QED BY <3>1, <3>2, <3>3, <4>1, <4>2, <4>3, <4>4 DEF e
    <3>4. CASE e \in Disappeared(s) \cap match[d] /\ n.cycle = row[e].cycle
      <4>1. e \in match'[d]
        BY <1>6, <3>2, <3>4
      <4>2. row'[e] # None /\ row'[e].cycle = row[e].cycle /\ row'[e].ended = poll.now
        BY <1>1, <3>4, AppliedRows
      <4>3. row[e].cycle \in Nat
        BY <3>4, DisappearedFacts DEF Stored
      <4> HIDE DEF e
      <4> QED BY <1>2, <3>1, <3>2, <3>4, <4>1, <4>2, <4>3 DEF e
    <3>5. \/ /\ e \in Listed(s) /\ Matched(d, e, s.scope[e])
             /\ n.cycle = poll.seen[e].cycle
             /\ n.event = "recovery" => HasRecovered(e)
          \/ e \in Disappeared(s) \cap match[d] /\ n.cycle = row[e].cycle
      <4>1. CASE /\ n.event = "incident" /\ e \in Listed(s) /\ Matched(d, e, s.scope[e])
                 /\ n = NoticeOf(d, "incident", e, OpeningKey(e), poll.seen[e].cycle)
        BY <4>1 DEF NoticeOf
      <4>2. CASE /\ n.event = "recovery" /\ e \in Listed(s) /\ Matched(d, e, s.scope[e])
                 /\ HasRecovered(e)
                 /\ n = NoticeOf(d, "recovery", e, poll.seen[e].ended, poll.seen[e].cycle)
        BY <4>2 DEF NoticeOf
      <4>3. CASE /\ e \in Disappeared(s) \cap match[d]
                 /\ n = NoticeOf(d, "recovery", e, poll.now, row[e].cycle)
        BY <4>3 DEF NoticeOf
      <4> QED BY <3>1, <3>2, <4>1, <4>2, <4>3, NoticesFacts
    <3> QED BY <3>3, <3>4, <3>5
  <2> QED BY <2>1, <2>2 DEF ToldIsStored
<1>9. ToldOnce'
  <2> SUFFICES ASSUME NEW m \in outbox', NEW n \in outbox', m.row = n.row,
                      m.event = n.event, m.incident = n.incident, m.cycle = n.cycle
               PROVE  m = n
    BY DEF ToldOnce
  <2>1. CASE m \in outbox /\ n \in outbox
    BY <2>1 DEF Remembered, ToldOnce
  <2>2. CASE m \in outbox /\ n \notin outbox
    <3>1. PICK d \in poll.notified : n \in NoticesOf(d, s) /\ n.row = d
      BY <1>5, <2>2
    <3> QED BY <1>2, <1>4, <2>2, <3>1, NewCycle
  <2>3. CASE m \notin outbox /\ n \in outbox
    <3>1. PICK d \in poll.notified : m \in NoticesOf(d, s) /\ m.row = d
      BY <1>5, <2>3
    <3> QED BY <1>2, <1>4, <2>3, <3>1, NewCycle
  <2>4. CASE m \notin outbox /\ n \notin outbox
    <3>1. PICK d \in poll.notified : n \in NoticesOf(d, s) /\ n.row = d
      BY <1>5, <2>4
    <3>2. m \in NoticesOf(d, s)
      BY <1>5, <2>4, <3>1
    <3> QED BY <1>4, <3>1, <3>2, OnePerPoll
  <2> QED BY <2>1, <2>2, <2>3, <2>4
<1> QED BY <1>7, <1>8, <1>9 DEF Remembered

\* Every step keeps what was told in the stored rows.
LEMMA RememberedNext == TypeOK /\ Behind /\ Remembered /\ [Next]_vars => Remembered'
<1> SUFFICES ASSUME TypeOK, Behind, Remembered, [Next]_vars PROVE Remembered'
  OBVIOUS
<1>1. \A d \in poll.loaded : d \in Rows /\ dependency[d].status # "absent"
  BY DEF TypeOK, Poll, Remembered, LoadedIsPresent
<1>2. ASSUME NEW e \in Incidents, Opens(e) \/ Ends(e) PROVE Remembered'
  <2>1. poll'.loaded = poll.loaded /\ UNCHANGED <<row, match, dependency, outbox>>
    BY <1>2 DEF Opens, Ends, Changed, TypeOK, Poll
  <2> QED BY <1>1, <2>1, QuietRemembered
<1>3. ASSUME NEW d \in Rows, Install(d) PROVE Remembered'
  <2>1. /\ dependency[d].status = "absent"
        /\ \A x \in Rows \ {d} : dependency'[x] = dependency[x] /\ match'[x] = match[x]
        /\ UNCHANGED <<row, outbox, poll>>
    BY <1>3 DEF Install, TypeOK
  <2> QED BY <1>1, <2>1, QuietRemembered
<1>4. ASSUME NEW d \in Rows, RemoveDependency(d) PROVE Remembered'
  <2>1. /\ \A x \in Rows : x # d => dependency'[x] = dependency[x]
        /\ dependency'[d].status = "removed"
        /\ UNCHANGED <<row, match, outbox, poll>>
    BY <1>4 DEF RemoveDependency, TypeOK, Absent
  <2> QED BY <1>1, <2>1, QuietRemembered
<1>5. ASSUME Refresh PROVE Remembered'
  BY <1>1, <1>5, QuietRemembered DEF Refresh
<1>6. ASSUME NEW p \in Presets, Disable(p) \/ ReEnable(p) PROVE Remembered'
  <2>1. ASSUME Disable(p), NEW x \in Rows
        PROVE  dependency'[x].status = dependency[x].status
    <3>1. dependency[x] \in Dependency
      BY DEF TypeOK
    <3>2. \/ dependency'[x] = dependency[x]
          \/ dependency'[x] = [dependency[x] EXCEPT !.state = "UNKNOWN", !.awaits = "again"]
      BY <2>1 DEF Disable
    <3> QED BY <3>1, <3>2 DEF Dependency
  <2>2. ReEnable(p) => dependency' = dependency
    BY DEF ReEnable
  <2>3. \A x \in Rows : dependency'[x].status = dependency[x].status
    BY <1>6, <2>1, <2>2
  <2>4. UNCHANGED <<row, match, outbox, poll>>
    BY <1>6 DEF Disable, ReEnable
  <2> QED BY <1>1, <2>3, <2>4, QuietRemembered
<1>7. ASSUME Claim PROVE Remembered'
  <2>1. poll'.loaded = {} /\ UNCHANGED <<row, match, dependency, outbox>>
    BY <1>7 DEF Claim, Idle
  <2> QED BY <2>1, QuietRemembered
<1>8. ASSUME Fetch PROVE Remembered'
  <2>1. poll'.loaded = poll.loaded /\ UNCHANGED <<row, match, dependency, outbox>>
    BY <1>8 DEF Fetch, TypeOK, Poll
  <2> QED BY <1>1, <2>1, QuietRemembered
<1>9. ASSUME NotModified \/ FetchFails \/ PollDies PROVE Remembered'
  <2>1. poll'.loaded = {} /\ UNCHANGED <<row, match, dependency, outbox>>
    BY <1>9, IdleType DEF NotModified, FetchFails, PollDies
  <2> QED BY <2>1, QuietRemembered
<1>10. ASSUME LoadInstalled PROVE Remembered'
  <2>1. poll'.loaded = Observed /\ UNCHANGED <<row, match, dependency, outbox>>
    BY <1>10 DEF LoadInstalled, TypeOK, Poll
  <2>2. \A d \in Observed : d \in Rows /\ dependency[d].status # "absent"
    BY DEF Observed, Installed
  <2> QED BY <2>1, <2>2, QuietRemembered
<1>11. ASSUME ApplyStale PROVE Remembered'
  <2>1. \A x \in Rows : dependency'[x].status = dependency[x].status
    BY <1>11 DEF ApplyStale, TypeOK, Dependency
  <2>2. poll'.loaded = {} /\ UNCHANGED <<row, match, outbox>>
    BY <1>11, IdleType DEF ApplyStale
  <2> QED BY <2>1, <2>2, QuietRemembered
<1>12. CASE UNCHANGED vars
  BY <1>1, <1>12, QuietRemembered DEF vars
<1> QED
  BY <1>2, <1>3, <1>4, <1>5, <1>6, <1>7, <1>8, <1>9, <1>10, <1>11, <1>12, ApplyRemembered
  DEF Next
-----------------------------------------------------------------------------
(* The theorems *)

\* The first state satisfies the inductive invariant.
LEMMA InitIInv == Init => IInv
<1> SUFFICES ASSUME Init PROVE IInv
  OBVIOUS
<1>1. FirstIsAwaited
  BY DEF Init, FirstIsAwaited, Absent, Installed
<1>2. Behind
  BY IdleType DEF Init, Behind, ResolvedHasEnded, StoredIsBehind, SeenIsBetween
<1>3. Remembered
  BY IdleType DEF Init, Remembered, LoadedIsPresent, ToldIsStored, ToldOnce
<1> QED BY <1>1, <1>2, <1>3, InitTypeOK DEF IInv

\* Every step keeps the inductive invariant.
LEMMA NextIInv == IInv /\ [Next]_vars => IInv'
<1> SUFFICES ASSUME IInv, [Next]_vars PROVE IInv'
  OBVIOUS
<1>1. TypeOK /\ FirstIsAwaited /\ Behind /\ Remembered
  BY DEF IInv
<1>2. TypeOK' /\ FirstIsAwaited' /\ Behind' /\ Remembered'
  BY <1>1, NextTypeOK, FirstNext, BehindNext, RememberedNext
<1> QED BY <1>2 DEF IInv

\* The inductive invariant holds throughout.
LEMMA Invariance == Spec => []IInv
<1> QED BY InitIInv, NextIInv, PTL DEF Spec

\* An incident is stored as resolved only if the provider ended it, whatever the
\* pages list, however the polls fail and whenever the page changes under one.
THEOREM ResolvedEnded == Spec => []ResolvedHasEnded
<1>1. IInv => ResolvedHasEnded
  BY DEF IInv, Behind
<1> QED BY <1>1, Invariance, PTL

\* No dependency that waits for its first state faces validators: the poll that
\* was under way when it was installed cannot have the provider answer 304 to it.
THEOREM FirstPage == Spec => []FirstPageIsFull
<1>1. IInv => FirstPageIsFull
  BY DEF IInv, FirstIsAwaited, FirstPageIsFull
<1> QED BY <1>1, Invariance, PTL

\* An opening and a recovery are told at most once for each dependency and each
\* cycle of an incident.
THEOREM ToldAtMostOnce == Spec => []ToldOnce
<1>1. IInv => ToldOnce
  BY DEF IInv, Remembered
<1> QED BY <1>1, Invariance, PTL
-----------------------------------------------------------------------------
(* The keys of notices *)

InHand == poll.phase \in {"fetched", "loaded"}

\* A time stamped on an incident is past when its next end is counted: it is before
\* the current opening of the page, of the poll in hand, and of the stored row.
Past(e, at) ==
  /\ at <= clock
  /\ IsOpen(page[e]) => at < clock
  /\ InHand /\ IsOpen(poll.seen[e]) =>
       at < clock /\ (page[e].ended # 0 => at < page[e].ended)
  /\ WasOpen(e) =>
       /\ at < clock
       /\ poll.phase # "idle" => at < poll.now
       /\ page[e].ended # 0 => at < page[e].ended
       /\ InHand /\ poll.seen[e].ended # 0 => at < poll.seen[e].ended

\* The clock moves with the page: a poll overtaken by a reopening is in the past.
TimesArePast ==
  /\ poll.phase # "idle" => poll.now <= clock
  /\ \A e \in Incidents :
       /\ page[e].ended <= clock
       /\ InHand => /\ poll.seen[e].ended <= clock
                    /\ page[e].cycle > poll.seen[e].cycle =>
                         poll.seen[e].ended < clock /\ poll.now < clock

\* Every end that was stored or told is past.
MarksArePast ==
  /\ \A n \in outbox : Past(n.incident, n.at)
  /\ \A e \in Incidents : row[e] # None => Past(e, row[e].ended)

\* An opening that was told has a key before the end of its cycle.
OpeningsArePast ==
  \A n \in outbox : n.event = "incident" =>
    /\ page[n.incident].ended # 0 => n.at < page[n.incident].ended
    /\ InHand /\ poll.seen[n.incident].ended # 0 => n.at < poll.seen[n.incident].ended
    /\ row[n.incident] # None /\ row[n.incident].ended # 0 => n.at < row[n.incident].ended

MatchesAreStored == \A d \in Rows : \A e \in match[d] : row[e] # None

\* Keys are never used again.
Timeline ==
  /\ TimesArePast
  /\ MarksArePast
  /\ OpeningsArePast
  /\ MatchesAreStored

LEMMA TimeTypes ==
  ASSUME TypeOK
  PROVE  /\ clock \in Nat \ {0} /\ poll.now \in Nat
         /\ \A e \in Incidents : /\ page[e].cycle \in Nat /\ page[e].ended \in Nat
                                 /\ poll.seen[e].cycle \in Nat /\ poll.seen[e].ended \in Nat
                                 /\ row[e] # None => row[e].cycle \in Nat /\ row[e].ended \in Nat
         /\ \A n \in outbox : n.row \in Rows /\ n.incident \in Incidents /\ n.at \in Nat
BY DEF TypeOK, Poll, Cycle, Stored, Notice

LEMMA InitTimeline ==
  ASSUME Init
  PROVE  Timeline
<1>1. TimesArePast
  BY IdleType DEF Init, TimesArePast, NoCycles, InHand
<1>2. outbox = {} /\ (\A e \in Incidents : row[e] = None) /\ \A d \in Rows : match[d] = {}
  BY DEF Init
<1> QED
  BY <1>1, <1>2 DEF Timeline, MarksArePast, OpeningsArePast, MatchesAreStored

\* A step that tells and stores nothing keeps what was past there.
LEMMA KeptTimeline ==
  ASSUME TypeOK, Timeline, UNCHANGED <<row, outbox>>,
         \A d \in Rows, e \in Incidents : e \in match'[d] => e \in match[d] \/ row[e] # None,
         \A d \in Rows : match'[d] \subseteq Incidents,
         \A e \in Incidents, at \in Nat : Past(e, at) => Past(e, at)'
  PROVE  MarksArePast' /\ MatchesAreStored'
<1>1. \A n \in outbox' : Past(n.incident, n.at)'
  <2> SUFFICES ASSUME NEW n \in outbox' PROVE Past(n.incident, n.at)'
    OBVIOUS
  <2>1. n \in outbox /\ n.incident \in Incidents /\ n.at \in Nat
    BY TimeTypes
  <2> QED
    BY <2>1 DEF Timeline, MarksArePast
<1>2. ASSUME NEW e \in Incidents, row'[e] # None
      PROVE  Past(e, row[e].ended)'
  <2>a. PICK at : at = row[e].ended
    OBVIOUS
  <2>1. at \in Nat /\ Past(e, at)
    BY <1>2, <2>a, TimeTypes DEF Timeline, MarksArePast
  <2>2. Past(e, at)' /\ row'[e].ended = at
    BY <2>1, <2>a
  <2> QED
    BY <2>2 DEF Past
<1>3. MatchesAreStored'
  BY DEF Timeline, MatchesAreStored
<1> QED
  BY <1>1, <1>2, <1>3 DEF MarksArePast

\* A step of a poll, or beside it, while the page stands.
LEMMA QuietTimeline ==
  ASSUME TypeOK, Timeline, UNCHANGED <<clock, page, row, outbox>>,
         \A d \in Rows, e \in Incidents : e \in match'[d] => e \in match[d] \/ row[e] # None,
         \A d \in Rows : match'[d] \subseteq Incidents,
         \/ poll'.phase = "idle"
         \/ poll'.phase = "claimed" /\ poll'.now = clock
         \/ /\ poll.phase = "claimed" /\ poll'.phase = "fetched"
            /\ poll'.now = poll.now /\ poll'.seen = page
         \/ /\ poll'.phase # "idle" => poll.phase # "idle"
            /\ InHand' => InHand
            /\ poll'.now = poll.now /\ poll'.seen = poll.seen
  PROVE  Timeline'
<1>1. ASSUME NEW e \in Incidents, NEW at \in Nat, Past(e, at)
      PROVE  Past(e, at)'
  <2>1. CASE poll'.phase = "idle"
    BY <1>1, <2>1 DEF Past, IsOpen, WasOpen, InHand
  <2>2. CASE poll'.phase = "claimed" /\ poll'.now = clock
    BY <1>1, <2>2 DEF Past, IsOpen, WasOpen, InHand
  <2>3. CASE /\ poll.phase = "claimed" /\ poll'.phase = "fetched"
             /\ poll'.now = poll.now /\ poll'.seen = page
    BY <1>1, <2>3 DEF Past, IsOpen, WasOpen, InHand
  <2>4. CASE /\ poll'.phase # "idle" => poll.phase # "idle"
             /\ InHand' => InHand
             /\ poll'.now = poll.now /\ poll'.seen = poll.seen
    BY <1>1, <2>4 DEF Past, IsOpen, WasOpen, InHand
  <2> QED
    BY <2>1, <2>2, <2>3, <2>4
<1>2. TimesArePast'
  <2>1. poll'.phase # "idle" => poll'.now <= clock'
    BY TimeTypes DEF Timeline, TimesArePast
  <2>2. ASSUME NEW e \in Incidents
        PROVE  /\ page'[e].ended <= clock'
               /\ InHand' => /\ poll'.seen[e].ended <= clock'
                             /\ page'[e].cycle > poll'.seen[e].cycle =>
                                  poll'.seen[e].ended < clock' /\ poll'.now < clock'
    BY TimeTypes DEF Timeline, TimesArePast, InHand
  <2> QED
    BY <2>1, <2>2 DEF TimesArePast
<1>3. OpeningsArePast'
  BY TimeTypes DEF Timeline, OpeningsArePast, InHand
<1> QED
  BY <1>1, <1>2, <1>3, KeptTimeline DEF Timeline

\* The page moves with the clock.
LEMMA PageTimeline ==
  ASSUME TypeOK, Timeline, NEW i \in Incidents, Opens(i) \/ Ends(i)
  PROVE  Timeline'
<1>1. /\ UNCHANGED <<row, outbox, match>> /\ clock' = clock + 1
      /\ poll'.phase = poll.phase /\ poll'.now = poll.now /\ poll'.seen = poll.seen
  BY DEF Opens, Ends, Changed, TypeOK, Poll
<1>2. \A e \in Incidents :
        \/ page'[e] = page[e]
        \/ page'[e].cycle = page[e].cycle + 1 /\ page'[e].ended = 0
        \/ page'[e].cycle = page[e].cycle /\ page'[e].ended = clock + 1
  <2>1. CASE Opens(i)
    BY <2>1 DEF Opens, TypeOK
  <2>2. CASE Ends(i)
    BY <2>2 DEF Ends, TypeOK, Cycle
  <2> QED
    BY <2>1, <2>2
<1>3. ASSUME NEW e \in Incidents, NEW at \in Nat, Past(e, at)
      PROVE  Past(e, at)'
  <2>a. clock \in Nat /\ at <= clock
    BY <1>3, TimeTypes DEF Past
  <2>1. at <= clock' /\ at < clock'
    BY <1>1, <2>a
  <2>2. page'[e].ended # 0 => at < page'[e].ended \/ page'[e] = page[e]
    BY <1>1, <1>2, <2>a, <2>1
  <2> QED
    BY <1>1, <1>3, <2>1, <2>2 DEF Past, IsOpen, WasOpen, InHand
<1>4. TimesArePast'
  <2>1. ASSUME NEW e \in Incidents
        PROVE  /\ page'[e].ended <= clock'
               /\ InHand' => /\ poll'.seen[e].ended <= clock'
                             /\ poll'.seen[e].ended < clock' /\ poll'.now < clock'
    BY <1>1, <1>2, TimeTypes DEF Timeline, TimesArePast, InHand
  <2>2. poll'.phase # "idle" => poll'.now <= clock'
    BY <1>1, TimeTypes DEF Timeline, TimesArePast
  <2> QED
    BY <2>1, <2>2 DEF TimesArePast
<1>5. OpeningsArePast'
  <2> SUFFICES ASSUME NEW n \in outbox', n.event = "incident"
               PROVE  /\ page'[n.incident].ended # 0 => n.at < page'[n.incident].ended
                      /\ InHand' /\ poll'.seen[n.incident].ended # 0
                           => n.at < poll'.seen[n.incident].ended
                      /\ row'[n.incident] # None /\ row'[n.incident].ended # 0
                           => n.at < row'[n.incident].ended
    BY DEF OpeningsArePast
  <2>a. PICK e : e = n.incident
    OBVIOUS
  <2>b. PICK at : at = n.at
    OBVIOUS
  <2>1. e \in Incidents /\ at \in Nat /\ at <= clock
    BY <1>1, <2>a, <2>b, TimeTypes DEF Timeline, MarksArePast, Past
  <2>2. /\ page[e].ended # 0 => at < page[e].ended
        /\ InHand /\ poll.seen[e].ended # 0 => at < poll.seen[e].ended
        /\ row[e] # None /\ row[e].ended # 0 => at < row[e].ended
    BY <1>1, <2>a, <2>b DEF Timeline, OpeningsArePast
  <2>3. page'[e].ended # 0 => at < page'[e].ended
    BY <1>1, <1>2, <2>1, <2>2, TimeTypes
  <2> QED
    BY <1>1, <2>2, <2>3, <2>a, <2>b DEF InHand
<1>6. \A d \in Rows : match[d] \subseteq Incidents
  BY DEF TypeOK
<1> QED
  BY <1>1, <1>3, <1>4, <1>5, <1>6, KeptTimeline DEF Timeline

\* An end that a poll stores is past once it is stored.
LEMMA EndIsPast ==
  ASSUME TypeOK, Behind, Timeline, poll.phase = "loaded", poll'.phase = "idle",
         UNCHANGED <<clock, page>>, NEW e \in Incidents, ~IsOpen(poll.seen[e]),
         poll.seen[e].cycle > 0, NEW at \in {poll.seen[e].ended, poll.now}, row'[e].ended # 0
  PROVE  Past(e, at)'
<1>1. InHand /\ poll.phase # "idle"
  BY DEF InHand
<1>2. poll.seen[e].ended # 0
  BY DEF IsOpen
<1>3. at <= clock /\ (page[e].cycle > poll.seen[e].cycle => at < clock)
  BY <1>1, TimeTypes DEF Timeline, TimesArePast
<1>4. IsOpen(page[e]) => page[e].cycle > poll.seen[e].cycle
  BY <1>2, TimeTypes DEF Behind, SeenIsBetween, IsOpen
<1>5. ~WasOpen(e)' /\ ~InHand'
  BY DEF WasOpen, InHand
<1> QED
  BY <1>3, <1>4, <1>5 DEF Past, IsOpen

LEMMA ZeroIsPast ==
  ASSUME TypeOK, poll'.phase = "idle", UNCHANGED <<clock, page>>, NEW e \in Incidents
  PROVE  Past(e, 0)'
BY TimeTypes DEF Past, InHand, IsOpen

\* What a poll stores and tells when it is applied was past, or ends a cycle now.
LEMMA ApplyTimeline ==
  ASSUME TypeOK, Behind, Timeline, ApplySnapshot
  PROVE  Timeline'
<1>1. PICK s \in Snapshots :
          /\ row' = [e \in Incidents |->
                    CASE e \in Listed(s)      -> Upserted(e, s.scope[e])
                      [] e \in Disappeared(s) -> [row[e] EXCEPT !.ended = poll.now]
                      [] OTHER                -> row[e]]
          /\ match' = [d \in Rows |->
               IF d \in poll.loaded
               THEN match[d] \cup {e \in Listed(s) : Linked(d, e, s.scope[e])}
               ELSE match[d]]
          /\ Enqueue(UNION {NoticesOf(d, s) : d \in poll.notified})
  BY DEF ApplySnapshot
<1>2. poll.phase = "loaded" /\ poll'.phase = "idle" /\ UNCHANGED <<clock, page>>
  BY IdleType DEF ApplySnapshot
<1>3. InHand /\ ~InHand' /\ poll.now # 0
  BY <1>2 DEF InHand, Behind, SeenIsBetween
<1>4. /\ \A e \in Listed(s) : /\ e \in Incidents /\ row'[e] # None /\ poll.seen[e].cycle > 0
                              /\ row'[e].ended = poll.seen[e].ended
      /\ \A e \in Disappeared(s) : e \in Incidents /\ row'[e] # None /\ row'[e].ended = poll.now
      /\ \A e \in Incidents \ (Listed(s) \cup Disappeared(s)) : row'[e] = row[e]
  BY <1>1, AppliedRows, ListedFacts, DisappearedFacts
<1>5. \A e \in Disappeared(s) :
        /\ row[e] # None /\ row[e].ended = 0 /\ ~IsOpen(poll.seen[e]) /\ poll.seen[e].cycle > 0
  <2> SUFFICES ASSUME NEW e \in Disappeared(s)
               PROVE  /\ row[e] # None /\ row[e].ended = 0
                      /\ ~IsOpen(poll.seen[e]) /\ poll.seen[e].cycle > 0
    OBVIOUS
  <2>1. /\ e \in Incidents /\ row[e] # None /\ row[e].ended = 0 /\ ~IsOpen(poll.seen[e])
        /\ row[e].cycle \in Nat \ {0}
    BY DisappearedFacts, NoneAssumption DEF Stored
  <2>2. row[e].cycle <= poll.seen[e].cycle
    BY <1>2, <2>1 DEF Behind, SeenIsBetween
  <2> QED
    BY <2>1, <2>2, TimeTypes
<1>6. ASSUME NEW e \in Incidents, NEW at \in Nat, Past(e, at)
      PROVE  Past(e, at)'
  <2>1. WasOpen(e)' => WasOpen(e) \/ IsOpen(poll.seen[e])
    BY <1>3, <1>4 DEF WasOpen, IsOpen
  <2>2. WasOpen(e)' => at < clock /\ (page[e].ended # 0 => at < page[e].ended)
    BY <1>3, <1>6, <2>1 DEF Past
  <2> QED
    BY <1>2, <1>3, <1>6, <2>2 DEF Past, IsOpen
<1>7. ASSUME NEW e \in Listed(s), NEW at, at = poll.seen[e].ended, at # 0
      PROVE  Past(e, at)'
  BY <1>2, <1>4, <1>7, EndIsPast DEF IsOpen
<1>8. ASSUME NEW e \in Disappeared(s), NEW at, at = poll.now
      PROVE  Past(e, at)'
  BY <1>2, <1>3, <1>4, <1>5, <1>8, EndIsPast
<1>9. ASSUME NEW n \in outbox', n \notin outbox
      PROVE  \E d \in Rows : n \in NoticesOf(d, s)
  <2>1. PICK d \in poll.notified : n \in NoticesOf(d, s)
    BY <1>1, <1>9 DEF Enqueue
  <2> QED
    BY <2>1 DEF TypeOK, Poll
<1>10. ASSUME NEW n \in outbox', n \notin outbox
       PROVE  \/ /\ n.event = "incident" /\ n.incident \in Listed(s)
                 /\ poll.seen[n.incident].ended = 0 /\ n.at = OpeningKey(n.incident)
              \/ /\ n.event = "recovery" /\ n.incident \in Listed(s)
                 /\ poll.seen[n.incident].ended # 0 /\ n.at = poll.seen[n.incident].ended
              \/ /\ n.event = "recovery" /\ n.incident \in Disappeared(s) /\ n.at = poll.now
  <2>1. PICK d \in Rows : n \in NoticesOf(d, s)
    BY <1>9, <1>10
  <2>a. PICK e : e = n.incident
    OBVIOUS
  <2>2. CASE /\ n.event = "incident" /\ e \in Listed(s) /\ HasOpened(d, e)
             /\ n = NoticeOf(d, "incident", e, OpeningKey(e), poll.seen[e].cycle)
    BY <2>2, <2>a DEF NoticeOf, HasOpened, Active
  <2>3. CASE /\ n.event = "recovery" /\ e \in Listed(s) /\ HasRecovered(e)
             /\ n = NoticeOf(d, "recovery", e, poll.seen[e].ended, poll.seen[e].cycle)
    BY <2>3, <2>a DEF NoticeOf, HasRecovered, Active
  <2>4. CASE /\ n.event = "recovery" /\ e \in Disappeared(s)
             /\ n = NoticeOf(d, "recovery", e, poll.now, row[e].cycle)
    BY <2>4, <2>a DEF NoticeOf
  <2> QED
    BY <2>1, <2>2, <2>3, <2>4, <2>a, NoticesFacts
<1>11. ASSUME NEW e \in Listed(s), poll.seen[e].ended = 0, NEW at, at = OpeningKey(e)
       PROVE  Past(e, at)' /\ (page[e].ended # 0 => at < page[e].ended)
  <2>1. e \in Incidents /\ IsOpen(poll.seen[e])
    BY <1>4, <1>11 DEF IsOpen
  <2>2. CASE at = 0
    BY <1>2, <2>1, <2>2, ZeroIsPast, TimeTypes
  <2>3. CASE at # 0
    <3>1. row[e] # None /\ at = row[e].ended
      BY <1>11, <2>3 DEF OpeningKey, WasResolved
    <3>2. at \in Nat /\ Past(e, at)
      BY <2>1, <3>1, TimeTypes DEF Timeline, MarksArePast
    <3> QED
      BY <1>3, <1>6, <2>1, <3>2 DEF Past
  <2> QED
    BY <2>2, <2>3
<1>12. MarksArePast'
  <2>1. ASSUME NEW n \in outbox'
        PROVE  Past(n.incident, n.at)'
    <3>1. CASE n \in outbox
      <4>1. n.incident \in Incidents /\ n.at \in Nat /\ Past(n.incident, n.at)
        BY <3>1, TimeTypes DEF Timeline, MarksArePast
      <4> QED
        BY <1>6, <4>1
    <3>2. CASE n \notin outbox
      BY <1>7, <1>8, <1>10, <1>11, <3>2
    <3> QED
      BY <3>1, <3>2
  <2>2. ASSUME NEW e \in Incidents, row'[e] # None
        PROVE  Past(e, row[e].ended)'
    <3>a. PICK at : at = row'[e].ended
      OBVIOUS
    <3>1. Past(e, at)'
      <4>1. CASE e \in Listed(s) /\ at # 0
        BY <1>4, <1>7, <3>a, <4>1
      <4>2. CASE e \in Disappeared(s)
        BY <1>4, <1>8, <3>a, <4>2
      <4>3. CASE at = 0
        BY <1>2, <4>3, ZeroIsPast
      <4>4. CASE e \notin Listed(s) \cup Disappeared(s)
        <5>1. row[e] # None /\ at = row[e].ended
          BY <1>4, <2>2, <3>a, <4>4
        <5>2. at \in Nat /\ Past(e, at)
          BY <5>1, TimeTypes DEF Timeline, MarksArePast
        <5> QED
          BY <1>6, <5>2
      <4> QED
        BY <4>1, <4>2, <4>3, <4>4
    <3> QED
      BY <3>1, <3>a DEF Past
  <2> QED
    BY <2>1, <2>2 DEF MarksArePast
<1>13. OpeningsArePast'
  <2> SUFFICES ASSUME NEW n \in outbox', n.event = "incident"
               PROVE  /\ page[n.incident].ended # 0 => n.at < page[n.incident].ended
                      /\ row'[n.incident] # None /\ row'[n.incident].ended # 0
                           => n.at < row'[n.incident].ended
    BY <1>2, <1>3 DEF OpeningsArePast
  <2>a. PICK e : e = n.incident
    OBVIOUS
  <2>b. PICK at : at = n.at
    OBVIOUS
  <2>1. CASE n \in outbox
    <3>1. e \in Incidents /\ Past(e, at)
      BY <2>1, <2>a, <2>b, TimeTypes DEF Timeline, MarksArePast
    <3>2. /\ page[e].ended # 0 => at < page[e].ended
          /\ poll.seen[e].ended # 0 => at < poll.seen[e].ended
          /\ row[e] # None /\ row[e].ended # 0 => at < row[e].ended
      BY <1>3, <2>1, <2>a, <2>b DEF Timeline, OpeningsArePast
    <3>3. e \in Disappeared(s) => at < poll.now
      BY <1>2, <1>5, <3>1 DEF Past, WasOpen
    <3>4. row'[e] # None /\ row'[e].ended # 0 => at < row'[e].ended
      BY <1>4, <3>1, <3>2, <3>3
    <3> QED
      BY <3>2, <3>4, <2>a, <2>b
  <2>2. CASE n \notin outbox
    <3>1. e \in Listed(s) /\ poll.seen[e].ended = 0 /\ at = OpeningKey(e)
      BY <1>10, <2>2, <2>a, <2>b
    <3> QED
      BY <1>4, <1>11, <3>1, <2>a, <2>b
  <2> QED
    BY <2>1, <2>2
<1>14. TimesArePast'
  BY <1>2, <1>3 DEF Timeline, TimesArePast
<1>15. MatchesAreStored'
  <2>1. ASSUME NEW d \in Rows, NEW e \in match'[d]
        PROVE  row'[e] # None
    <3>1. e \in Incidents /\ (e \in Listed(s) \/ row[e] # None)
      BY <1>1, <1>4 DEF Timeline, MatchesAreStored, TypeOK
    <3> QED
      BY <1>4, <3>1
  <2> QED
    BY <2>1 DEF MatchesAreStored
<1> QED
  BY <1>12, <1>13, <1>14, <1>15 DEF Timeline

\* Every step keeps the keys of the past.
LEMMA TimelineNext ==
  ASSUME IInv, Timeline, [Next]_vars
  PROVE  Timeline'
<1>1. TypeOK /\ Behind /\ \A d \in Rows : match[d] \subseteq Incidents
  BY DEF IInv, TypeOK
<1>2. ASSUME NEW d \in Rows, Install(d) PROVE Timeline'
  <2>1. PICK found \in SUBSET Backfill(d) : match' = [match EXCEPT ![d] = found]
    BY <1>2 DEF Install
  <2>2. \A e \in found : e \in Incidents /\ row[e] # None
    BY <2>1 DEF Backfill
  <2>3. \A x \in Rows : match'[x] = match[x] \/ match'[x] = found
    BY <2>1 DEF IInv, TypeOK
  <2>4. /\ \A x \in Rows, e \in Incidents : e \in match'[x] => e \in match[x] \/ row[e] # None
        /\ \A x \in Rows : match'[x] \subseteq Incidents
    BY <1>1, <2>2, <2>3
  <2>5. UNCHANGED <<clock, page, row, outbox, poll>>
    BY <1>2 DEF Install
  <2> QED
    BY <1>1, <2>4, <2>5, QuietTimeline DEF InHand
<1>3. CASE UNCHANGED <<clock, page, row, match, outbox, poll>>
  BY <1>1, <1>3, QuietTimeline DEF InHand
<1>4. CASE Claim
  <2>1. /\ poll'.phase = "claimed" /\ poll'.now = clock
        /\ UNCHANGED <<clock, page, row, match, outbox>>
    BY <1>4 DEF Claim, Idle
  <2> QED
    BY <1>1, <2>1, QuietTimeline
<1>5. CASE Fetch
  <2>1. /\ poll.phase = "claimed" /\ poll'.phase = "fetched"
        /\ poll'.now = poll.now /\ poll'.seen = page
        /\ UNCHANGED <<clock, page, row, match, outbox>>
    BY <1>1, <1>5 DEF Fetch, TypeOK, Poll
  <2> QED
    BY <1>1, <2>1, QuietTimeline
<1>6. CASE NotModified \/ FetchFails \/ PollDies \/ ApplyStale
  <2>1. poll'.phase = "idle" /\ UNCHANGED <<clock, page, row, match, outbox>>
    BY <1>6, IdleType DEF NotModified, FetchFails, PollDies, ApplyStale
  <2> QED
    BY <1>1, <2>1, QuietTimeline
<1>7. CASE LoadInstalled
  <2>1. /\ poll.phase = "fetched" /\ poll'.phase = "loaded"
        /\ poll'.now = poll.now /\ poll'.seen = poll.seen
        /\ UNCHANGED <<clock, page, row, match, outbox>>
    BY <1>1, <1>7 DEF LoadInstalled, TypeOK, Poll
  <2>2. InHand
    BY <2>1 DEF InHand
  <2> QED
    BY <1>1, <2>1, <2>2, QuietTimeline
<1>8. UNCHANGED <<clock, page, row, match, outbox, poll>>
      \/ (\E d \in Rows : Install(d)) \/ (\E e \in Incidents : Opens(e) \/ Ends(e))
      \/ Claim \/ Fetch \/ NotModified \/ FetchFails \/ PollDies \/ ApplyStale
      \/ LoadInstalled \/ ApplySnapshot
  BY DEF Next, vars, RemoveDependency, Refresh, Disable, ReEnable
<1> QED
  BY <1>1, <1>2, <1>3, <1>4, <1>5, <1>6, <1>7, <1>8, PageTimeline, ApplyTimeline

LEMMA TimelineAlways == Spec => [](IInv /\ Timeline)
<1>1. IInv /\ Timeline /\ [Next]_vars => Timeline'
  BY TimelineNext
<1> QED
  BY <1>1, InitTimeline, Invariance, PTL DEF Spec

\* The notice of a recovery finds its key free.
LEMMA RecoveryIsTold ==
  ASSUME TypeOK, Timeline, poll.phase = "loaded", NEW s \in Snapshots, NEW d \in Rows,
         NEW n \in NoticesOf(d, s), n.event = "recovery", NEW m \in outbox
  PROVE  ~SameKey(m, n)
<1> SUFFICES ASSUME SameKey(m, n) PROVE FALSE
  OBVIOUS
<1>a. PICK e : e = n.incident
  OBVIOUS
<1>b. PICK at : at = m.at
  OBVIOUS
<1>1. m.incident = e /\ n.at = at
  BY <1>a, <1>b DEF SameKey
<1>2. e \in Incidents /\ at \in Nat /\ Past(e, at) /\ InHand
  BY <1>1, <1>b, TimeTypes DEF Timeline, MarksArePast, InHand
<1>3. CASE /\ e \in Listed(s) /\ HasRecovered(e)
           /\ n = NoticeOf(d, "recovery", e, poll.seen[e].ended, poll.seen[e].cycle)
  <2>1. WasOpen(e) /\ poll.seen[e].ended # 0
    BY <1>3 DEF HasRecovered, Active
  <2>2. at = poll.seen[e].ended
    BY <1>1, <1>3 DEF NoticeOf
  <2> QED
    BY <1>2, <2>1, <2>2 DEF Past
<1>4. CASE /\ e \in Disappeared(s)
           /\ n = NoticeOf(d, "recovery", e, poll.now, row[e].cycle)
  <2>1. WasOpen(e)
    BY <1>4 DEF Disappeared
  <2>2. at = poll.now
    BY <1>1, <1>4 DEF NoticeOf
  <2> QED
    BY <1>2, <2>1, <2>2 DEF Past
<1> QED
  BY <1>3, <1>4, <1>a, NoticesFacts

\* So does that of an opening, unless an install before was told of the id.
LEMMA OpeningIsTold ==
  ASSUME TypeOK, Remembered, Timeline, NEW s \in Snapshots, NEW d \in Rows,
         NEW e \in Listed(s), HasOpened(d, e), NEW m \in outbox,
         SameKey(m, NoticeOf(d, "incident", e, OpeningKey(e), poll.seen[e].cycle))
  PROVE  ToldPredecessor(d, e)
<1>1. /\ m.preset = PresetOf[d] /\ m.event = "incident" /\ m.incident = e
      /\ m.at = OpeningKey(e)
  BY DEF SameKey, NoticeOf
<1>2. ~WasResolved(e)
  <2> SUFFICES ASSUME WasResolved(e) PROVE FALSE
    OBVIOUS
  <2>1. row[e] # None /\ row[e].ended # 0 /\ m.at = row[e].ended
    BY <1>1 DEF WasResolved, OpeningKey
  <2>2. m.at < row[e].ended /\ m.at \in Nat
    BY <1>1, <2>1, TimeTypes DEF Timeline, OpeningsArePast
  <2> QED
    BY <2>1, <2>2
<1>3. m.at = 0 /\ e \notin match[d]
  BY <1>1, <1>2 DEF OpeningKey, HasOpened
<1>4. m.row # d
  BY <1>1, <1>3 DEF Remembered, ToldIsStored
<1> QED
  BY <1>1, <1>3, <1>4 DEF ToldPredecessor

\* No notice is lost to a key that was used before: what a poll is to tell of an
\* opening, a reopening or a recovery is in the outbox once it is applied, however
\* the page moved meanwhile (notificationKeyExternalId, enqueueNotification).  Only a
\* preset that was removed and added again may owe it to its earlier install.
THEOREM CyclesAreTold == Spec => EveryCycleIsTold
<1> DEFINE Tells ==
      \A d \in poll.notified, e \in Incidents :
       row'[e] # None /\ e \in match'[d] =>
         /\ WasOpen(e) /\ row'[e].ended # 0 /\ MayRecover(d, dependency'[d].state) =>
              Told(d, "recovery", e, row'[e].cycle)
         /\ row'[e].ended = 0 /\ (~WasOpen(e) \/ e \notin match[d])
            /\ MayOpen(row'[e].kind, dependency'[d].state)
            => Told(d, "incident", e, row'[e].cycle) \/ ToldPredecessor(d, e)
<1>1. ASSUME IInv, Timeline, Next, ~ApplySnapshot
      PROVE  Tells
  <2> SUFFICES ASSUME NEW d \in poll.notified, NEW e \in Incidents,
                      row'[e] # None, e \in match'[d]
               PROVE  /\ ~(WasOpen(e) /\ row'[e].ended # 0)
                      /\ ~(row'[e].ended = 0 /\ (~WasOpen(e) \/ e \notin match[d]))
    OBVIOUS
  <2>1. row' = row
    BY <1>1 DEF Next, Opens, Ends, Changed, Install, RemoveDependency, Refresh, Disable, ReEnable,
                Claim, Fetch, NotModified, FetchFails, PollDies, LoadInstalled, ApplyStale
  <2>2. d \in Rows /\ dependency[d].status # "absent"
    BY <1>1 DEF IInv, TypeOK, Poll, Remembered, LoadedIsPresent
  <2>3. ASSUME NEW x \in Rows, Install(x) PROVE match'[d] = match[d]
    BY <1>1, <2>2, <2>3 DEF Install, IInv, TypeOK
  <2>4. (\E x \in Rows : Install(x)) \/ match' = match
    BY <1>1 DEF Next, Opens, Ends, Changed, RemoveDependency, Refresh, Disable, ReEnable,
                Claim, Fetch, NotModified, FetchFails, PollDies, LoadInstalled, ApplyStale
  <2>5. e \in match[d]
    BY <2>3, <2>4
  <2> QED
    BY <2>1, <2>5 DEF WasOpen
<1>2. ASSUME IInv, Timeline, ApplySnapshot
      PROVE  Tells
  <2>1. PICK s \in Snapshots :
          /\ row' = [e \in Incidents |->
                    CASE e \in Listed(s)      -> Upserted(e, s.scope[e])
                      [] e \in Disappeared(s) -> [row[e] EXCEPT !.ended = poll.now]
                      [] OTHER                -> row[e]]
          /\ match' = [d \in Rows |->
               IF d \in poll.loaded
               THEN match[d] \cup {e \in Listed(s) : Linked(d, e, s.scope[e])}
               ELSE match[d]]
          /\ dependency' = [d \in Rows |->
               IF d \in poll.loaded
               THEN [dependency[d] EXCEPT !.state = s.health[PresetOf[d]],
                                          !.awaits = "nothing"]
               ELSE dependency[d]]
          /\ Enqueue(UNION {NoticesOf(d, s) : d \in poll.notified})
    BY <1>2 DEF ApplySnapshot
  <2>2. TypeOK /\ Behind /\ Remembered /\ poll.phase = "loaded" /\ poll.now # 0
    BY <1>2 DEF IInv, ApplySnapshot, Behind, SeenIsBetween
  <2>3. /\ \A e \in Listed(s) : /\ e \in Incidents
                                /\ row'[e].cycle = poll.seen[e].cycle
                                /\ row'[e].ended = poll.seen[e].ended
                                /\ row'[e].kind = s.scope[e].kind
        /\ \A e \in Disappeared(s) : /\ e \in Incidents /\ row'[e].cycle = row[e].cycle
                                     /\ row'[e].ended = poll.now
        /\ \A e \in Incidents \ (Listed(s) \cup Disappeared(s)) : row'[e] = row[e]
    <3>1. ASSUME NEW e \in Listed(s) PROVE row'[e].kind = s.scope[e].kind
      <4>1. e \in Incidents /\ e \notin Disappeared(s)
        BY DEF Listed, Disappeared
      <4>2. row'[e] = Upserted(e, s.scope[e])
        BY <2>1, <3>1, <4>1
      <4>3. Upserted(e, s.scope[e]).kind = s.scope[e].kind
        BY DEF Upserted
      <4> QED
        BY <4>2, <4>3
    <3>2. \A e \in Listed(s) : e \in Incidents
      BY DEF Listed
    <3> QED
      BY <2>1, <2>2, <3>1, <3>2, AppliedRows, DisappearedFacts
  <2> SUFFICES ASSUME NEW d \in poll.notified, NEW e \in Incidents,
                      row'[e] # None, e \in match'[d]
               PROVE  /\ WasOpen(e) /\ row'[e].ended # 0 /\ MayRecover(d, dependency'[d].state) =>
                           Told(d, "recovery", e, row'[e].cycle)
                      /\ row'[e].ended = 0 /\ (~WasOpen(e) \/ e \notin match[d])
                         /\ MayOpen(row'[e].kind, dependency'[d].state)
                         => Told(d, "incident", e, row'[e].cycle) \/ ToldPredecessor(d, e)
    OBVIOUS
  <2>4. d \in Rows /\ d \in poll.loaded
    BY <2>2 DEF TypeOK, Poll
  <2>5. dependency'[d].state = s.health[PresetOf[d]]
    BY <2>1, <2>2, <2>4 DEF TypeOK, Dependency
  <2>6. e \in match[d] \/ (e \in Listed(s) /\ Linked(d, e, s.scope[e]))
    BY <2>1, <2>4
  <2>7. ASSUME NEW n \in NoticesOf(d, s), \A m \in outbox : ~SameKey(m, n)
        PROVE  n \in outbox'
    BY <2>1, <2>7 DEF Enqueue
  <2>8. ASSUME WasOpen(e), row'[e].ended # 0, MayRecover(d, dependency'[d].state)
        PROVE  Told(d, "recovery", e, row'[e].cycle)
    <3>1. ASSUME NEW at, NEW cycle, cycle = row'[e].cycle,
                 NoticeOf(d, "recovery", e, at, cycle) \in NoticesOf(d, s)
          PROVE  Told(d, "recovery", e, row'[e].cycle)
      <4>a. PICK n : n = NoticeOf(d, "recovery", e, at, cycle)
        OBVIOUS
      <4>1. n.row = d /\ n.event = "recovery" /\ n.incident = e /\ n.cycle = cycle
        BY <4>a DEF NoticeOf
      <4>2. n \in outbox'
        BY <1>2, <2>2, <2>4, <2>7, <3>1, <4>1, <4>a, RecoveryIsTold
      <4> QED
        BY <3>1, <4>1, <4>2 DEF Told
    <3>2. CASE e \in Listed(s)
      <4>1. HasRecovered(e) /\ Matched(d, e, s.scope[e])
        BY <2>3, <2>6, <2>8, <3>2 DEF HasRecovered, Active, Matched
      <4>2. NoticeOf(d, "recovery", e, poll.seen[e].ended, poll.seen[e].cycle) \in NoticesOf(d, s)
        BY <2>5, <2>8, <3>2, <4>1 DEF NoticesOf
      <4> QED
        BY <2>3, <3>1, <3>2, <4>2
    <3>3. CASE e \in Disappeared(s)
      <4>1. e \in match[d]
        BY <2>2, <2>6, <3>3, DisappearedFacts
      <4>2. NoticeOf(d, "recovery", e, poll.now, row[e].cycle) \in NoticesOf(d, s)
        BY <2>5, <2>8, <3>3, <4>1 DEF NoticesOf
      <4> QED
        BY <2>3, <3>1, <3>3, <4>2
    <3> QED
      BY <2>3, <2>8, <3>2, <3>3 DEF WasOpen
  <2>9. ASSUME row'[e].ended = 0, ~WasOpen(e) \/ e \notin match[d],
               MayOpen(row'[e].kind, dependency'[d].state)
        PROVE  Told(d, "incident", e, row'[e].cycle) \/ ToldPredecessor(d, e)
    <3>1. e \in Listed(s)
      <4>1. e \notin Disappeared(s)
        BY <2>2, <2>3, <2>9
      <4>2. row'[e] = row[e] => WasOpen(e)
        BY <2>9 DEF WasOpen
      <4> QED
        BY <2>3, <2>6, <2>9, <4>1, <4>2
    <3>2. Active(e) /\ Matched(d, e, s.scope[e])
      BY <2>3, <2>6, <2>9, <3>1 DEF Active, Matched
    <3>3. e \in match[d] => row[e] # None
      BY <1>2, <2>4 DEF Timeline, MatchesAreStored
    <3>4. HasOpened(d, e)
      BY <2>9, <3>2, <3>3 DEF HasOpened, WasOpen, WasResolved
    <3>5. MayOpen(s.scope[e].kind, s.health[PresetOf[d]])
      BY <2>3, <2>5, <2>9, <3>1
    <3>a. PICK n : n = NoticeOf(d, "incident", e, OpeningKey(e), poll.seen[e].cycle)
      OBVIOUS
    <3>6. n \in NoticesOf(d, s)
      BY <3>1, <3>2, <3>4, <3>5, <3>a DEF NoticesOf
    <3>7. n.row = d /\ n.event = "incident" /\ n.incident = e /\ n.cycle = row'[e].cycle
      BY <2>3, <3>1, <3>a DEF NoticeOf
    <3>8. CASE \A m \in outbox : ~SameKey(m, n)
      BY <2>7, <3>6, <3>7, <3>8 DEF Told
    <3>9. ASSUME NEW m \in outbox, SameKey(m, n)
          PROVE  ToldPredecessor(d, e)
      BY <1>2, <2>2, <2>4, <3>1, <3>4, <3>9, <3>a, OpeningIsTold
    <3> QED
      BY <3>8, <3>9
  <2> QED
    BY <2>8, <2>9
<1>3. IInv /\ Timeline /\ [Next]_vars => [Tells]_vars
  BY <1>1, <1>2
<1> QED
  BY <1>3, TimelineAlways, PTL DEF Spec, EveryCycleIsTold
=============================================================================
