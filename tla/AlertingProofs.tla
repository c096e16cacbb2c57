--------------------------- MODULE AlertingProofs ----------------------------
(***************************************************************************)
(* Theorems about Alerting, for any users, sources and rules, any window   *)
(* and retention, and any number of crashes and failing statements.        *)
(***************************************************************************)
EXTENDS Alerting, FiniteSetTheorems, TLAPS

-----------------------------------------------------------------------------
(* Type correctness *)

\* The constants are numbers, and a missing field is a value like any other.
LEMMA Numbers ==
    /\ RuleCount \in Nat /\ Window \in Nat
    /\ EventRetention \in Nat /\ AlertRetention \in Nat
    /\ MinSignals \in Nat /\ MaxTime \in Nat /\ MaxEvents \in Nat /\ MaxFaults \in Nat
    /\ Ages \subseteq Nat
  BY NumbersAssumption

\* What a rule alerts with is a rule, and never the synthetic one.
LEMMA RuleIsOrdinary == ASSUME NEW rule \in Rules PROVE rule # Correlated /\ rule \in Nat
  BY Numbers DEF Rules, Correlated

AlertType ==
    [id : 1..lastAlert, ts : 1..now, rule : Rules \cup {Correlated}, ref : Nat,
     user : Users, source : Sources]

\* An alert that is inserted for the event in hand is typed, and newer than all others.
LEMMA AlertTyped ==
  ASSUME TypeOK, pc # "idle", NEW rule \in Rules \cup {Correlated}, InsertAlert(rule),
         UNCHANGED now
  PROVE  /\ Alert(rule) \in AlertType' /\ alerts \subseteq AlertType'
         /\ lastAlert' \in Nat /\ alerts' \subseteq AlertType'
         /\ Alert(rule) \notin alerts /\ Alert(rule).id = lastAlert'
         /\ \A a \in alerts : a.id < lastAlert'
  <1>1. /\ events[row] \in [user : Users, source : Sources, ts : Nat] /\ row \in Nat
        /\ now \in Nat \ {0} /\ lastAlert \in Nat
    BY Numbers DEF TypeOK
  <1>2. lastAlert' = lastAlert + 1 /\ alerts' = alerts \cup {Alert(rule)}
    BY DEF InsertAlert
  <1>3. Alert(rule) \in AlertType'
    BY <1>1, <1>2 DEF Alert, AlertType
  <1>4. alerts \subseteq AlertType'
    BY <1>1, <1>2 DEF TypeOK, AlertType
  <1>5. \A a \in alerts : a.id \in 1..lastAlert
    BY DEF TypeOK
  <1>6. Alert(rule).id = lastAlert + 1
    BY DEF Alert
  <1> QED BY <1>1, <1>2, <1>3, <1>4, <1>5, <1>6

\* The initial states are typed.
LEMMA TypeInit == Init => TypeOK
  BY Numbers DEF Init, TypeOK

\* Every step preserves the types.
LEMMA TypeNext == TypeOK /\ [Next]_vars => TypeOK'
  <1> SUFFICES ASSUME TypeOK, [Next]_vars PROVE TypeOK'
    OBVIOUS
  <1> USE Numbers
  <1>1. CASE Tick
    BY <1>1 DEF Tick, TypeOK, store
  <1>2. ASSUME NEW user \in Users, NEW source \in Sources, NEW age \in Ages,
               NEW fires \in SUBSET Rules, StoreEvent(user, source, age, fires)
        PROVE  TypeOK'
    <2>1. \A id \in DOMAIN events' : events'[id] \in [user : Users, source : Sources, ts : Nat]
      BY <1>2 DEF StoreEvent, TypeOK
    <2>2. DOMAIN events' \subseteq 1..lastEvent' /\ row' \in DOMAIN events' /\ lastEvent' \in Nat
      BY <1>2 DEF StoreEvent, NewEventId, TypeOK
    <2> QED BY <1>2, <2>1, <2>2 DEF StoreEvent, TypeOK
  <1>3. ASSUME NEW rule \in todo, RaiseAlert(rule) PROVE TypeOK'
    <2>1. rule \in Rules /\ pc # "idle" /\ InsertAlert(rule) /\ UNCHANGED now
      BY <1>3 DEF RaiseAlert, TypeOK
    <2>2. lastAlert' \in Nat /\ alerts' \subseteq AlertType'
      BY <2>1, AlertTyped
    <2> QED BY <1>3, <2>2 DEF RaiseAlert, TypeOK, AlertType
  <1>4. CASE RulesDone
    BY <1>4 DEF RulesDone, TypeOK, store
  <1>5. CASE Check
    <2>1. CASE InsertAlert(Correlated)
      <3>1. lastAlert' \in Nat /\ alerts' \subseteq AlertType'
        BY <2>1, <1>5, AlertTyped DEF Check
      <3> QED BY <1>5, <3>1 DEF Check, TypeOK, AlertType
    <2>2. CASE UNCHANGED <<alerts, lastAlert>>
      BY <1>5, <2>2 DEF Check, TypeOK
    <2> QED BY <1>5, <2>1, <2>2 DEF Check
  <1>6. CASE RuleRaises
    BY <1>6 DEF RuleRaises, TypeOK, store
  <1>7. CASE Crash
    BY <1>7 DEF Crash, TypeOK, store
  <1>8. CASE Purge
    BY <1>8 DEF Purge, TypeOK
  <1>9. CASE UNCHANGED vars
    BY <1>9 DEF vars, store, TypeOK
  <1> QED BY <1>1, <1>2, <1>3, <1>4, <1>5, <1>6, <1>7, <1>8, <1>9 DEF Next

\* The database and the collector's variables keep their types: above all, the event
\* being evaluated is stored, since retention runs between two polls.
THEOREM TypeCorrect == Spec => []TypeOK
  BY TypeInit, TypeNext, PTL DEF Spec

-----------------------------------------------------------------------------
(* One flag per actor and window *)

\* An alert refers to its own event, or to none: an id is not given out again.
RefInv ==
    \A a \in alerts :
        /\ a.ref \in 1..lastEvent
        /\ Joined(a) => /\ a.user = events[a.ref].user
                        /\ a.source = events[a.ref].source

OnceInv == RefInv /\ OncePerActor

\* An alert inserted for the event in hand refers to it.
LEMMA RefInserted ==
  ASSUME TypeOK, RefInv, pc # "idle", NEW rule, InsertAlert(rule),
         UNCHANGED <<events, lastEvent>>
  PROVE  RefInv'
  BY DEF RefInv, TypeOK, InsertAlert, Alert, Joined

\* Every step keeps the references right.
LEMMA RefNext == TypeOK /\ RefInv /\ [Next]_vars => RefInv'
  <1> SUFFICES ASSUME TypeOK, RefInv, [Next]_vars PROVE RefInv'
    OBVIOUS
  <1>1. ASSUME NEW user \in Users, NEW source \in Sources, NEW age \in Ages,
               NEW fires \in SUBSET Rules, StoreEvent(user, source, age, fires)
        PROVE  RefInv'
    BY <1>1 DEF StoreEvent, NewEventId, RefInv, TypeOK, Joined
  <1>2. ASSUME NEW rule \in todo, RaiseAlert(rule) PROVE RefInv'
    BY <1>2, RefInserted DEF RaiseAlert
  <1>3. CASE Check
    <2>1. CASE InsertAlert(Correlated)
      BY <2>1, <1>3, RefInserted DEF Check
    <2>2. CASE UNCHANGED <<alerts, lastAlert>>
      BY <2>2, <1>3 DEF Check, RefInv, Joined
    <2> QED BY <2>1, <2>2, <1>3 DEF Check
  <1>4. CASE Purge
    BY <1>4 DEF Purge, RefInv, Joined
  <1>5. CASE UNCHANGED store
    BY <1>5 DEF store, RefInv, Joined
  <1> QED BY <1>1, <1>2, <1>3, <1>4, <1>5
          DEF Next, Tick, RulesDone, RuleRaises, Crash, vars

\* What the query of check does not find is older than the window.
LEMMA FlagIsFirst ==
  ASSUME TypeOK, pc = "check", Flags, NEW a \in Flagged, Joined(a),
         Share(events[a.ref], events[row])
  PROVE  now - a.ts > Window
  <1>1. SameActor(events[a.ref])
    BY DEF SameActor, Share, Known
  <1>2. a \notin Matches
    BY DEF Flags, Flagged
  <1>3. ~(a.ts >= checkTs - Window)
    BY <1>1, <1>2 DEF Matches, Flagged, Joined
  <1>4. a.ts \in Nat /\ checkTs \in Nat /\ now \in Nat /\ checkTs <= now
    BY Numbers DEF TypeOK, Flagged
  <1> QED BY <1>3, <1>4, Numbers

\* The flags of a check do not crowd earlier ones.
LEMMA OnceFlagged ==
  ASSUME TypeOK, OnceInv, Check, InsertAlert(Correlated), Flags
  PROVE  OncePerActor'
  <1>1. /\ Alert(Correlated).id = lastAlert' /\ alerts' = alerts \cup {Alert(Correlated)}
        /\ \A a \in alerts : a.id < lastAlert' /\ a.id \in Nat
        /\ lastAlert' \in Nat
    BY AlertTyped DEF Check, InsertAlert, TypeOK
  <1>2. /\ Alert(Correlated).ref = row /\ Alert(Correlated).ts = now
        /\ UNCHANGED <<events, now>>
    BY DEF Check, Alert
  <1>3. SUFFICES ASSUME NEW a \in Flagged', NEW b \in Flagged',
                        Joined(a), Joined(b), a.id < b.id,
                        Share(events[a.ref], events[b.ref])
                 PROVE  b.ts - a.ts > Window
    BY <1>2 DEF OncePerActor, Joined
  <1>4. a \in Flagged
    BY <1>1, <1>3 DEF Flagged
  <1>5. CASE b \in Flagged
    BY <1>3, <1>4, <1>5 DEF OnceInv, OncePerActor
  <1>6. CASE b = Alert(Correlated)
    BY <1>2, <1>3, <1>4, <1>6, FlagIsFirst DEF Check
  <1> QED BY <1>1, <1>5, <1>6 DEF Flagged

\* Every step preserves the invariant.
LEMMA OnceNext == TypeOK /\ OnceInv /\ [Next]_vars => OnceInv'
  <1> SUFFICES ASSUME TypeOK, OnceInv, [Next]_vars PROVE OncePerActor'
    BY RefNext DEF OnceInv
  \* No new flag, and no event that an alert refers to changes.
  <1>a. ASSUME Flagged' \subseteq Flagged,
               \A a \in Flagged : Joined(a)' => Joined(a) /\ events'[a.ref] = events[a.ref]
        PROVE  OncePerActor'
    <2> SUFFICES ASSUME NEW a \in Flagged', NEW b \in Flagged',
                        Joined(a)', Joined(b)', a.id < b.id,
                        Share(events'[a.ref], events'[b.ref])
                 PROVE  b.ts - a.ts > Window
      BY DEF OncePerActor, Share
    <2> QED BY <1>a DEF OnceInv, OncePerActor
  <1>1. ASSUME NEW user \in Users, NEW source \in Sources, NEW age \in Ages,
               NEW fires \in SUBSET Rules, StoreEvent(user, source, age, fires)
        PROVE  OncePerActor'
    <2>1. \A a \in Flagged : a.ref \in 1..lastEvent
      BY DEF OnceInv, RefInv, Flagged
    <2>2. Flagged' = Flagged
      BY <1>1 DEF StoreEvent, Flagged
    <2>3. \A a \in Flagged : Joined(a)' => Joined(a) /\ events'[a.ref] = events[a.ref]
      BY <1>1, <2>1 DEF StoreEvent, NewEventId, Joined, TypeOK
    <2> QED BY <2>2, <2>3, <1>a
  <1>2. ASSUME NEW rule \in todo, RaiseAlert(rule) PROVE OncePerActor'
    <2>1. rule # Correlated
      BY <1>2, RuleIsOrdinary DEF TypeOK
    <2>2. Alert(rule).rule = rule
      BY DEF Alert
    <2>3. Flagged' = Flagged
      BY <1>2, <2>1, <2>2 DEF RaiseAlert, InsertAlert, Flagged
    <2> QED BY <2>3, <1>2, <1>a DEF RaiseAlert, Joined
  <1>3. CASE Check
    <2>1. CASE InsertAlert(Correlated) /\ Flags
      BY <2>1, <1>3, OnceFlagged
    <2>2. CASE UNCHANGED <<alerts, lastAlert>>
      BY <2>2, <1>3, <1>a DEF Check, Flagged, Joined
    <2> QED BY <2>1, <2>2, <1>3 DEF Check
  <1>4. CASE Purge
    BY <1>4, <1>a DEF Purge, Flagged, Joined
  <1>5. CASE UNCHANGED store
    BY <1>5, <1>a DEF store, Flagged, Joined
  <1> QED BY <1>1, <1>2, <1>3, <1>4, <1>5
          DEF Next, Tick, RulesDone, RuleRaises, Crash, vars

\* An actor is flagged once in a window, however its events overlap by user and by
\* source and whatever retention has deleted in between.
THEOREM FlaggedOnce == Spec => []OncePerActor
  <1>1. Init => OnceInv
    BY DEF Init, OnceInv, RefInv, OncePerActor, Flagged
  <1>2. OnceInv => OncePerActor
    BY DEF OnceInv
  <1> QED BY <1>1, <1>2, OnceNext, TypeInit, TypeNext, PTL DEF Spec

-----------------------------------------------------------------------------
(* A flag has one actor *)

\* What check counts: alerts of other rules whose events share the actor.
LEMMA SignalsShare ==
  ASSUME TypeOK, RefInv, pc = "check", NEW m \in Matches
  PROVE  /\ m \in alerts
         /\ Share(m, Alert(Correlated))
  BY DEF Matches, SameActor, Known, Share, Alert, RefInv, Joined

\* Whoever is flagged, and is named by a user or a source that is no placeholder in
\* either, was recorded with each of the MinSignals distinct rules, whatever the fields
\* of the other events hold: an empty field links nobody, nor does the id of a deleted
\* event, nor another event's placeholder.
THEOREM FlagHasOneActor == Spec => FlagsOneActor
  <1>1. TypeOK /\ RefInv /\ [Next]_vars =>
            \A f \in Flagged' \ alerts :
                {f.user, f.source} \cap Placeholders = {} =>
                \E signals \in SUBSET Ordinary :
                    /\ Cardinality({a.rule : a \in signals}) >= MinSignals
                    /\ \A a \in signals : Share(Named(a), Named(f))
    <2> SUFFICES ASSUME TypeOK, RefInv, [Next]_vars, NEW f \in Flagged' \ alerts,
                        {f.user, f.source} \cap Placeholders = {}
                 PROVE  \E signals \in SUBSET Ordinary :
                           /\ Cardinality({a.rule : a \in signals}) >= MinSignals
                           /\ \A a \in signals : Share(Named(a), Named(f))
      OBVIOUS
    <2> DEFINE signals == {m \in Matches : m.rule # Correlated}
    <2>1. Check /\ Flags /\ f = Alert(Correlated)
      <3>1. f \in alerts' /\ f \notin alerts /\ f.rule = Correlated
        BY DEF Flagged
      <3>2. ASSUME NEW rule \in todo, RaiseAlert(rule) PROVE FALSE
        <4>1. rule # Correlated
          BY <3>2, RuleIsOrdinary DEF TypeOK
        <4>2. Alert(rule).rule = rule
          BY DEF Alert
        <4> QED BY <3>1, <3>2, <4>1, <4>2 DEF RaiseAlert, InsertAlert
      <3>3. CASE alerts' \subseteq alerts
        BY <3>3, <3>1
      <3>4. CASE Check
        BY <3>1, <3>4 DEF Check, InsertAlert
      <3> QED BY <3>2, <3>3, <3>4
              DEF Next, StoreEvent, Tick, RulesDone, RuleRaises, Crash, Purge, vars, store
    <2>2. signals \in SUBSET Ordinary
      BY DEF Matches, Ordinary, Flagged
    <2>3. Cardinality({a.rule : a \in signals}) >= MinSignals
      BY <2>1 DEF Flags, DistinctRules
    <2>4. ASSUME NEW a \in signals PROVE Share(Named(a), Named(f))
      <3>1. a \in alerts /\ Share(a, f)
        BY <2>1, <2>4, SignalsShare DEF Check
      <3>2. f.user \notin Placeholders /\ f.source \notin Placeholders
        OBVIOUS
      <3> QED BY <3>1, <3>2 DEF Named, Share
    <2> QED BY <2>2, <2>3, <2>4
  <1>2. Init => RefInv
    BY DEF Init, RefInv
  <1> QED BY <1>1, <1>2, RefNext, TypeInit, TypeNext, PTL DEF Spec, FlagsOneActor

-----------------------------------------------------------------------------
(* No burst goes unflagged *)

\* BurstIsFlagged for one alert.
Recent(a) ==
    {b \in Ordinary : b.id <= a.id /\ b.ts >= a.ts - Window /\ Share(a, b)}
BurstFlagged(a) ==
    Cardinality({b.rule : b \in Recent(a)}) >= MinSignals
    => \E f \in Flagged : Share(a, f) /\ f.ts >= a.ts - Window

\* Alerts differ in their ids, and no more of them are stored than were inserted; the
\* alert being checked is the newest one, of the time for which it is checked.
CountInv ==
    /\ IsFiniteSet(alerts) /\ Cardinality(alerts) <= lastAlert
    /\ \A a, b \in alerts : a.id = b.id => a = b
CheckInv ==
    pc = "check" =>
        \E a \in Ordinary : a.id = lastAlert /\ a.ref = row /\ a.ts = checkTs

BurstInv == RefInv /\ CountInv /\ CheckInv /\ BurstIsFlagged

\* BurstIsFlagged, alert by alert.
LEMMA BurstByAlert ==
    BurstIsFlagged <=>
        (faults = 0 /\ NothingPurged =>
            \A a \in Ordinary : (pc = "check" => a.id # lastAlert) => BurstFlagged(a))
  BY DEF BurstIsFlagged, BurstFlagged, Recent

\* The ids that were given out.
LEMMA IdsFinite ==
  ASSUME TypeOK
  PROVE  IsFiniteSet(1..lastEvent) /\ Cardinality(1..lastEvent) = lastEvent
  <1>1. lastEvent \in Nat
    BY DEF TypeOK
  <1> QED BY <1>1, FS_Interval

\* When no row is gone every alert is joined with its event.
LEMMA AllJoined ==
  ASSUME TypeOK, RefInv, NothingPurged, NEW a \in alerts
  PROVE  Joined(a) /\ a.user = events[a.ref].user /\ a.source = events[a.ref].source
  <1>1. IsFiniteSet(1..lastEvent) /\ Cardinality(1..lastEvent) = lastEvent
    BY IdsFinite
  <1>2. DOMAIN events = 1..lastEvent
    BY <1>1, FS_Subset DEF TypeOK, NothingPurged
  <1> QED BY <1>2 DEF RefInv, Joined

\* One insertion keeps the count.
LEMMA CountInserted ==
  ASSUME TypeOK, CountInv, pc # "idle", NEW rule \in Rules \cup {Correlated},
         InsertAlert(rule), UNCHANGED <<now, events, lastEvent>>
  PROVE  /\ CountInv'
         /\ NothingPurged' => NothingPurged
  <1>1. /\ Alert(rule) \notin alerts /\ Alert(rule).id = lastAlert'
        /\ \A a \in alerts : a.id < lastAlert' /\ a.id \in Nat
        /\ lastAlert' = lastAlert + 1 /\ alerts' = alerts \cup {Alert(rule)}
        /\ lastAlert \in Nat
    BY AlertTyped DEF InsertAlert, TypeOK
  <1>2. /\ IsFiniteSet(alerts') /\ Cardinality(alerts) \in Nat
        /\ Cardinality(alerts') = Cardinality(alerts) + 1
    BY <1>1, FS_AddElement, FS_CardinalityType DEF CountInv
  <1>3. \A a, b \in alerts' : a.id = b.id => a = b
    BY <1>1 DEF CountInv
  <1> QED BY <1>1, <1>2, <1>3 DEF CountInv, NothingPurged

\* A purge that leaves as many rows as were inserted has deleted none.
LEMMA PurgeAllOrNone ==
  ASSUME TypeOK, CountInv, Purge
  PROVE  /\ CountInv'
         /\ NothingPurged' => NothingPurged /\ alerts' = alerts
  <1>1. /\ alerts' \subseteq alerts /\ DOMAIN events' \subseteq DOMAIN events
        /\ UNCHANGED <<lastAlert, lastEvent>>
    BY DEF Purge
  <1>2. /\ IsFiniteSet(alerts') /\ Cardinality(alerts') <= Cardinality(alerts)
        /\ Cardinality(alerts') = Cardinality(alerts) => alerts' = alerts
        /\ Cardinality(alerts) \in Nat /\ Cardinality(alerts') \in Nat
    BY <1>1, FS_Subset, FS_CardinalityType DEF CountInv
  <1>3. /\ IsFiniteSet(DOMAIN events) /\ Cardinality(DOMAIN events) <= lastEvent
        /\ Cardinality(DOMAIN events) \in Nat
    BY IdsFinite, FS_Subset, FS_CardinalityType DEF TypeOK
  <1>4. /\ Cardinality(DOMAIN events') <= Cardinality(DOMAIN events)
        /\ Cardinality(DOMAIN events') \in Nat
    BY <1>1, <1>3, FS_Subset, FS_CardinalityType
  <1>5. CountInv'
    BY <1>1, <1>2 DEF CountInv, TypeOK
  <1>6. NothingPurged' => NothingPurged /\ alerts' = alerts
    BY <1>1, <1>2, <1>3, <1>4 DEF NothingPurged, CountInv, TypeOK
  <1> QED BY <1>5, <1>6

\* A new event: the ids in use still count the events.
LEMMA StoreKeepsAll ==
  ASSUME TypeOK, NEW user, NEW source, NEW age, NEW fires,
         StoreEvent(user, source, age, fires), NothingPurged'
  PROVE  NothingPurged
  <1>1. /\ DOMAIN events' = DOMAIN events \cup {lastEvent + 1}
        /\ lastEvent' = lastEvent + 1 /\ UNCHANGED <<alerts, lastAlert>>
    BY DEF StoreEvent, NewEventId
  <1>2. lastEvent + 1 \notin DOMAIN events /\ IsFiniteSet(DOMAIN events)
    BY IdsFinite, FS_Subset DEF TypeOK
  <1>3. /\ Cardinality(DOMAIN events') = Cardinality(DOMAIN events) + 1
        /\ Cardinality(DOMAIN events) \in Nat
    BY <1>1, <1>2, FS_AddElement, FS_CardinalityType
  <1> QED BY <1>1, <1>3 DEF NothingPurged, TypeOK

\* A newer alert takes nothing from the bursts before it.
LEMMA BurstKept ==
  ASSUME TypeOK, pc # "idle", NEW rule \in Rules \cup {Correlated}, InsertAlert(rule),
         UNCHANGED now, NEW a \in Ordinary, BurstFlagged(a)
  PROVE  BurstFlagged(a)'
  <1>1. /\ Alert(rule).id = lastAlert' /\ alerts' = alerts \cup {Alert(rule)}
        /\ \A b \in alerts : b.id < lastAlert' /\ b.id \in Nat
        /\ lastAlert' \in Nat
    BY AlertTyped DEF InsertAlert, TypeOK
  <1>2. Recent(a)' = Recent(a)
    BY <1>1 DEF Recent, Ordinary, Flagged
  <1>3. Flagged \subseteq Flagged'
    BY <1>1 DEF Flagged
  <1> QED BY <1>2, <1>3 DEF BurstFlagged

\* The check of the newest alert sees the whole burst, and flags it unless it finds a
\* flag of the actor in the window.
LEMMA BurstChecked ==
  ASSUME TypeOK, RefInv, CountInv, CheckInv, NothingPurged, MinSignals > 0, Check,
         NEW a \in Ordinary, a.id = lastAlert
  PROVE  BurstFlagged(a)'
  <1>1. a.ref = row /\ a.ts = checkTs /\ a \in alerts
    BY DEF Check, CheckInv, CountInv, Ordinary
  <1>2. /\ \A b \in alerts : Joined(b) /\ b.user = events[b.ref].user
                                       /\ b.source = events[b.ref].source
        /\ \A b \in alerts : b.id <= lastAlert
    BY AllJoined DEF TypeOK
  <1>3. \A b \in alerts : Share(a, b) <=> SameActor(events[b.ref])
    BY <1>1, <1>2 DEF Share, SameActor, Known
  <1>4. \A b \in alerts : b \in Matches <=> Share(a, b) /\ b.ts >= a.ts - Window
    BY <1>1, <1>2, <1>3 DEF Matches, Joined
  <1>5. Recent(a) = {m \in Matches : m.rule # Correlated}
    <2>1. Matches \subseteq alerts
      BY DEF Matches
    <2>2. Recent(a) \subseteq alerts
      BY DEF Recent, Ordinary
    <2>3. \A b \in alerts : b \in Recent(a) <=> b \in Matches /\ b.rule # Correlated
      BY <1>2, <1>4 DEF Recent, Ordinary, Flagged
    <2> QED BY <2>1, <2>2, <2>3
  <1>6. Recent(a)' = Recent(a) /\ Flagged \subseteq Flagged'
    <2>1. Ordinary' = Ordinary /\ Flagged \subseteq Flagged'
      BY DEF Check, InsertAlert, Alert, Ordinary, Flagged
    <2> QED BY <2>1 DEF Recent
  <1>7. SUFFICES ASSUME Cardinality({b.rule : b \in Recent(a)}) >= MinSignals
                 PROVE  \E f \in Flagged' : Share(a, f) /\ f.ts >= a.ts - Window
    BY <1>6 DEF BurstFlagged
  <1>8. Cardinality(DistinctRules) >= MinSignals
    BY <1>5, <1>7 DEF DistinctRules
  <1>9. ActorKnown
    <2>1. DistinctRules # {}
      BY <1>8, FS_EmptySet, Numbers
    <2>2. PICK m \in Matches : TRUE
      BY <2>1 DEF DistinctRules
    <2> QED BY <2>2 DEF Matches, SameActor, ActorKnown
  <1>10. CASE Flags
    <2>1. Alert(Correlated) \in Flagged' /\ Alert(Correlated).ts = now
      BY <1>10 DEF Check, InsertAlert, Alert, Flagged
    <2>2. Share(a, Alert(Correlated))
      BY <1>1, <1>2, <1>9 DEF Share, Alert, ActorKnown, Known
    <2>3. now >= a.ts - Window
      BY <1>1, Numbers DEF TypeOK
    <2> QED BY <2>1, <2>2, <2>3
  <1>11. CASE ~Flags
    <2>1. PICK f \in Matches : f.rule = Correlated
      BY <1>8, <1>9, <1>11 DEF Flags
    <2>2. f \in Flagged'
      BY <1>6, <2>1 DEF Matches, Flagged
    <2> QED BY <1>4, <2>1, <2>2 DEF Matches
  <1> QED BY <1>10, <1>11

\* Every step keeps the count, and the newest alert at hand for its check.
LEMMA CountNext == TypeOK /\ CountInv /\ CheckInv /\ [Next]_vars => CountInv' /\ CheckInv'
  <1> SUFFICES ASSUME TypeOK, CountInv, CheckInv, [Next]_vars PROVE CountInv' /\ CheckInv'
    OBVIOUS
  <1>1. ASSUME NEW user \in Users, NEW source \in Sources, NEW age \in Ages,
               NEW fires \in SUBSET Rules, StoreEvent(user, source, age, fires)
        PROVE  CountInv' /\ CheckInv'
    BY <1>1 DEF StoreEvent, CountInv, CheckInv
  <1>2. ASSUME NEW rule \in todo, RaiseAlert(rule) PROVE CountInv' /\ CheckInv'
    <2>1. rule \in Rules /\ rule # Correlated
      BY RuleIsOrdinary DEF TypeOK
    <2>2. CountInv'
      BY <1>2, <2>1, CountInserted DEF RaiseAlert
    <2>3. /\ Alert(rule) \in Ordinary' /\ Alert(rule).id = lastAlert'
          /\ Alert(rule).ref = row' /\ Alert(rule).ts = checkTs'
      BY <1>2, <2>1 DEF RaiseAlert, InsertAlert, Alert, Ordinary, Flagged
    <2> QED BY <2>2, <2>3 DEF CheckInv
  <1>3. CASE Check
    <2>1. CASE InsertAlert(Correlated)
      BY <2>1, <1>3, CountInserted DEF Check, CheckInv
    <2>2. CASE UNCHANGED <<alerts, lastAlert>>
      BY <2>2, <1>3 DEF Check, CountInv, CheckInv
    <2> QED BY <2>1, <2>2, <1>3 DEF Check
  <1>4. CASE Purge
    BY <1>4, PurgeAllOrNone DEF Purge, CheckInv
  <1>5. CASE UNCHANGED store /\ pc' # "check"
    BY <1>5 DEF store, CountInv, CheckInv
  <1>6. CASE UNCHANGED <<store, pc, row, checkTs>>
    BY <1>6 DEF store, CountInv, CheckInv, Ordinary, Flagged
  <1> QED BY <1>1, <1>2, <1>3, <1>4, <1>5, <1>6
          DEF Next, Tick, RulesDone, RuleRaises, Crash, vars

\* Every step preserves the property.
LEMMA BurstNext ==
  ASSUME MinSignals > 0
  PROVE  TypeOK /\ BurstInv /\ [Next]_vars => BurstInv'
  <1> SUFFICES ASSUME TypeOK, BurstInv, [Next]_vars PROVE BurstIsFlagged'
    BY RefNext, CountNext DEF BurstInv
  <1>i. RefInv /\ CountInv /\ CheckInv /\ BurstIsFlagged
    BY DEF BurstInv
  \* No alert was inserted, and none is being checked that was not before.
  <1>a. ASSUME faults' = 0 /\ NothingPurged' => faults = 0 /\ NothingPurged,
               UNCHANGED <<alerts, lastAlert>>, pc = "check" => pc' = "check"
        PROVE  BurstIsFlagged'
    BY <1>a, <1>i DEF BurstIsFlagged, Ordinary, Flagged, Share
  <1>1. ASSUME NEW user \in Users, NEW source \in Sources, NEW age \in Ages,
               NEW fires \in SUBSET Rules, StoreEvent(user, source, age, fires)
        PROVE  BurstIsFlagged'
    <2>1. NothingPurged' => NothingPurged
      BY <1>1, StoreKeepsAll
    <2> QED BY <1>1, <2>1, <1>a DEF StoreEvent
  <1>2. ASSUME NEW rule \in todo, RaiseAlert(rule) PROVE BurstIsFlagged'
    <2>1. rule \in Rules /\ rule # Correlated
      BY RuleIsOrdinary DEF TypeOK
    <2>2. InsertAlert(rule) /\ pc # "idle" /\ UNCHANGED <<now, events, lastEvent, faults>>
      BY <1>2 DEF RaiseAlert
    <2>3. NothingPurged' => NothingPurged
      BY <2>1, <2>2, <1>i, CountInserted
    <2>4. Alert(rule).id = lastAlert' /\ Ordinary' \subseteq Ordinary \cup {Alert(rule)}
      BY <2>1, <2>2, AlertTyped DEF InsertAlert, Ordinary, Flagged
    <2>5. SUFFICES ASSUME faults' = 0, NothingPurged', NEW a \in Ordinary',
                          a.id # lastAlert'
                   PROVE  BurstFlagged(a)'
      BY <1>2 DEF RaiseAlert, BurstIsFlagged, BurstFlagged, Recent
    <2>6. a \in Ordinary /\ BurstFlagged(a)
      BY <1>2, <1>i, <2>2, <2>3, <2>4, <2>5, BurstByAlert DEF RaiseAlert
    <2> QED BY <2>1, <2>2, <2>6, BurstKept
  <1>3. CASE Check
    <2>1. UNCHANGED <<now, events, lastEvent, faults>> /\ pc = "check" /\ pc' = "rules"
      BY <1>3 DEF Check
    <2>2. NothingPurged' => NothingPurged
      BY <1>3, <1>i, <2>1, CountInserted DEF Check, NothingPurged
    <2>3. Ordinary' = Ordinary
      BY <1>3 DEF Check, InsertAlert, Alert, Ordinary, Flagged
    <2>4. SUFFICES ASSUME faults' = 0, NothingPurged', NEW a \in Ordinary
                   PROVE  BurstFlagged(a)'
      BY <2>1, <2>3 DEF BurstIsFlagged, BurstFlagged, Recent
    <2>5. CASE a.id = lastAlert
      BY <2>2, <2>4, <2>5, <1>i, <1>3, BurstChecked
    <2>6. CASE a.id # lastAlert
      <3>1. BurstFlagged(a)
        BY <2>1, <2>2, <2>4, <2>6, <1>i, BurstByAlert
      <3>2. CASE InsertAlert(Correlated)
        BY <3>1, <3>2, <2>1, BurstKept
      <3>3. CASE UNCHANGED <<alerts, lastAlert>>
        BY <3>1, <3>3 DEF BurstFlagged, Recent, Ordinary, Flagged
      <3> QED BY <3>2, <3>3, <1>3 DEF Check
    <2> QED BY <2>5, <2>6
  <1>4. CASE Purge
    <2>1. NothingPurged' => NothingPurged /\ alerts' = alerts
      BY <1>4, <1>i, PurgeAllOrNone
    <2>2. CASE NothingPurged'
      BY <2>1, <2>2, <1>4, <1>a DEF Purge
    <2>3. CASE ~NothingPurged'
      BY <2>3 DEF BurstIsFlagged
    <2> QED BY <2>2, <2>3
  <1>5. CASE UNCHANGED store /\ (pc = "check" => pc' = "check") /\ faults' = faults
    BY <1>5, <1>a DEF store, NothingPurged
  <1>6. CASE RuleRaises \/ Crash
    <2>1. faults' # 0
      BY <1>6 DEF RuleRaises, Crash, TypeOK
    <2> QED BY <2>1 DEF BurstIsFlagged
  <1> QED BY <1>1, <1>2, <1>3, <1>4, <1>5, <1>6 DEF Next, Tick, RulesDone, vars

\* As long as nothing has failed or expired, an actor who set off MinSignals distinct
\* rules within a window is flagged.
THEOREM BurstsAreFlagged ==
  ASSUME MinSignals > 0
  PROVE  Spec => []BurstIsFlagged
  <1>1. Init => BurstInv
    BY FS_EmptySet DEF Init, BurstInv, RefInv, CountInv, CheckInv, BurstIsFlagged, Ordinary
  <1>2. BurstInv => BurstIsFlagged
    BY DEF BurstInv
  <1> QED BY <1>1, <1>2, BurstNext, TypeInit, TypeNext, PTL DEF Spec
=============================================================================
