------------------------------- MODULE Alerting ------------------------------
(***************************************************************************)
(* From a stored event to its alerts: engine.evaluate_event runs the rules *)
(* in order, alerts.raise_alert stores an alert for each that fires, and   *)
(* correlation.check adds one "correlated" alert when an actor has set off *)
(* enough distinct rules; retention.purge deletes old events and alerts.   *)
(* All of it runs in the collector thread.                                 *)
(*                                                                         *)
(* Which rules an event fires is left open: any subset.  An alert carries  *)
(* two history fields the table does not have, the user and the source of  *)
(* the event that set it off.                                              *)
(***************************************************************************)
EXTENDS Integers, FiniteSets

CONSTANTS
    Users, Sources,   \* values of events.user and events.source_ip
    Missing,          \* normalize.py's default for a field that is not there
    Placeholders,     \* values Windows writes for a field it has no value for
    RuleCount,        \* the active rules are 1..RuleCount, in RULES order
    Window,           \* correlation.window_minutes, in clock ticks
    MinSignals,       \* correlation.min_signals
    EventRetention, AlertRetention,   \* in clock ticks
    Ages,                             \* how old an event may be when stored
    MaxTime, MaxEvents,               \* bounds
    MaxFaults                         \* bound on crashes and storage failures

Rules == 1..RuleCount
Correlated == 0      \* the rule_id of the synthetic alert

ASSUME ActorsAssumption == Missing \in Users /\ Missing \in Sources
ASSUME NumbersAssumption ==
    /\ {RuleCount, Window, EventRetention, AlertRetention} \subseteq Nat
    /\ Ages \subseteq Nat
    /\ {MinSignals, MaxTime, MaxEvents, MaxFaults} \subseteq Nat

VARIABLES
    now,
    \* the database
    events,      \* events[id]: a row of the events table
    lastEvent,   \* sqlite_sequence: the last id given to an event
    alerts,      \* the rows of the alerts table
    lastAlert,
    \* the collector thread
    pc,          \* "idle", "rules", or "check" after an alert was stored
    row,         \* row_id, the event being evaluated
    todo,        \* the rules that fire on it and have not run
    checkTs,     \* the ts correlation.check was called with
    faults

store == <<events, lastEvent, alerts, lastAlert>>
vars == <<now, store, pc, row, todo, checkTs, faults>>

Init ==
    /\ now = 1
    /\ events = [id \in {} |-> 0] /\ lastEvent = 0
    /\ alerts = {} /\ lastAlert = 0
    /\ pc = "idle" /\ row = 0 /\ todo = {} /\ checkTs = 0
    /\ faults = 0

Tick ==
    /\ now < MaxTime
    /\ now' = now + 1
    /\ UNCHANGED <<store, pc, row, todo, checkTs, faults>>

-----------------------------------------------------------------------------
(* Storing an event and running the rules *)

\* AUTOINCREMENT: larger than every id ever used.
NewEventId == lastEvent + 1

\* insert_event, and the call of evaluate_event.  The event may be old: the
\* collector reads what was logged while it was down.
StoreEvent(user, source, age, fires) ==
    /\ pc = "idle" /\ lastEvent < MaxEvents
    /\ events' = [id \in DOMAIN events \cup {NewEventId} |->
                    IF id = NewEventId
                    THEN [user |-> user, source |-> source,
                          ts |-> IF age < now THEN now - age ELSE 0]
                    ELSE events[id]]
    /\ lastEvent' = NewEventId
    /\ row' = NewEventId
    /\ todo' = fires
    /\ pc' = "rules"
    /\ UNCHANGED <<now, alerts, lastAlert, checkTs, faults>>

Alert(rule) ==
    [id |-> lastAlert + 1, ts |-> now, rule |-> rule, ref |-> row,
     user |-> events[row].user, source |-> events[row].source]

\* Mutant: two alerts get the same id.
InsertSameId(rule) ==
    /\ alerts' = alerts \cup {Alert(rule)}
    /\ lastAlert' = lastAlert

InsertAlert(rule) ==
    /\ alerts' = alerts \cup {Alert(rule)}
    /\ lastAlert' = lastAlert + 1

\* raise_alert: the alert is committed, then notified, then correlated.
RaiseAlert(rule) ==
    /\ pc = "rules" /\ rule \in todo /\ \A other \in todo : rule <= other
    /\ InsertAlert(rule)
    /\ todo' = todo \ {rule}
    /\ checkTs' = now
    /\ pc' = "check"
    /\ UNCHANGED <<now, events, lastEvent, row, faults>>

RulesDone ==
    /\ pc = "rules" /\ todo = {}
    /\ pc' = "idle"
    /\ UNCHANGED <<now, store, row, todo, checkTs, faults>>

-----------------------------------------------------------------------------
(* correlation.check *)

\* Mutant: a missing field links the events that lack it.
KnownWithoutNone(value) == TRUE

\* The empty string stands for no actor.
Known(value) == value # Missing

\* The WHERE clause, for the event being checked and a joined event e.
SameActor(e) ==
    \/ Known(events[row].user)   /\ e.user = events[row].user
    \/ Known(events[row].source) /\ e.source = events[row].source

\* Mutant: an alert exactly at the start of the window is left out.
MatchesAfterStart ==
    {a \in alerts : /\ a.ref \in DOMAIN events /\ SameActor(events[a.ref])
                    /\ a.ts > checkTs - Window}

\* The join of both queries: alerts of the window whose event is still stored
\* and shares the actor.
Matches ==
    {a \in alerts : /\ a.ref \in DOMAIN events /\ SameActor(events[a.ref])
                    /\ a.ts >= checkTs - Window}

DistinctRules == {a.rule : a \in {m \in Matches : m.rule # Correlated}}

\* The early return of check: an event that names nobody is not correlated.
ActorKnown == Known(events[row].user) \/ Known(events[row].source)

\* Mutant: whether the burst was flagged already is not looked up.
AlwaysFlags == ActorKnown /\ Cardinality(DistinctRules) >= MinSignals

Flags == /\ ActorKnown
         /\ Cardinality(DistinctRules) >= MinSignals
         /\ \A m \in Matches : m.rule # Correlated

\* check: the queries and, when they call for it, the synthetic alert.
Check ==
    /\ pc = "check"
    /\ IF Flags THEN InsertAlert(Correlated) ELSE UNCHANGED <<alerts, lastAlert>>
    /\ pc' = "rules"
    /\ UNCHANGED <<now, events, lastEvent, row, todo, checkTs, faults>>

-----------------------------------------------------------------------------
(* Failures *)

\* A statement of the rule, of raise_alert or of check raises; evaluate_event
\* logs it and goes on to the next rule.
RuleRaises ==
    /\ faults < MaxFaults /\ faults' = faults + 1
    /\ \/ /\ pc = "rules"
          /\ \E rule \in todo : /\ \A other \in todo : rule <= other
                                /\ todo' = todo \ {rule}
       \/ pc = "check" /\ UNCHANGED todo
    /\ pc' = "rules"
    /\ UNCHANGED <<now, store, row, checkTs>>

\* The process ends; what is left of the event is not evaluated again.
Crash ==
    /\ pc # "idle" /\ faults < MaxFaults
    /\ faults' = faults + 1
    /\ pc' = "idle" /\ todo' = {}
    /\ UNCHANGED <<now, store, row, checkTs>>

-----------------------------------------------------------------------------
(* retention.purge, between two polls: one transaction for both tables *)

Purge ==
    /\ pc = "idle"
    /\ LET kept == {id \in DOMAIN events : events[id].ts >= now - EventRetention}
       IN events' = [id \in kept |-> events[id]]
    /\ alerts' = {a \in alerts : a.ts >= now - AlertRetention}
    /\ UNCHANGED <<now, lastEvent, lastAlert, pc, row, todo, checkTs, faults>>

-----------------------------------------------------------------------------
Next ==
    \/ Tick
    \/ \E user \in Users, source \in Sources, age \in Ages, fires \in SUBSET Rules :
          StoreEvent(user, source, age, fires)
    \/ \E rule \in todo : RaiseAlert(rule)
    \/ RulesDone
    \/ Check
    \/ RuleRaises
    \/ Crash
    \/ Purge

Spec == Init /\ [][Next]_vars

-----------------------------------------------------------------------------
(* Properties *)

\* Every variable stays in its type.
TypeOK ==
    /\ now \in 1..MaxTime \cup {1}
    /\ DOMAIN events \subseteq 1..lastEvent
    /\ \A id \in DOMAIN events :
          events[id] \in [user : Users, source : Sources, ts : Nat]
    /\ lastEvent \in Nat
    /\ alerts \subseteq [id : 1..lastAlert, ts : 1..now, rule : Rules \cup {Correlated},
                         ref : Nat, user : Users, source : Sources]
    /\ lastAlert \in Nat
    /\ pc \in {"idle", "rules", "check"}
    /\ pc # "idle" => row \in DOMAIN events
    /\ todo \subseteq Rules
    /\ checkTs \in 0..now
    /\ faults \in 0..MaxFaults

Flagged == {a \in alerts : a.rule = Correlated}
Ordinary == alerts \ Flagged

Share(x, y) == \/ x.user = y.user     /\ x.user # Missing
               \/ x.source = y.source /\ x.source # Missing

Joined(a) == a.ref \in DOMAIN events

\* One correlated alert per actor and window: two correlated alerts whose
\* events are stored and share a user or a source are more than a window apart
\* ("Only fire once per actor per still-active burst", correlation.check).
OncePerActor ==
    \A a, b \in Flagged :
        /\ Joined(a) /\ Joined(b) /\ a.id < b.id
        /\ Share(events[a.ref], events[b.ref])
        => b.ts - a.ts > Window

NothingPurged == /\ Cardinality(DOMAIN events) = lastEvent
                 /\ Cardinality(alerts) = lastAlert

\* No burst goes unflagged: when nothing has failed or expired, and the check of
\* an alert is over, if its actor had set off MinSignals distinct rules in the
\* window that ends with it, there is a correlated alert for that actor in the
\* window or after it (README: "several distinct rules fire for the same actor").
BurstIsFlagged ==
    faults = 0 /\ NothingPurged =>
        \A a \in Ordinary :
            LET recent == {b \in Ordinary : /\ b.id <= a.id /\ b.ts >= a.ts - Window
                                            /\ Share(a, b)}
            IN /\ pc = "check" => a.id # lastAlert
               /\ Cardinality({b.rule : b \in recent}) >= MinSignals
               => \E f \in Flagged : Share(a, f) /\ f.ts >= a.ts - Window

Named(e) == [user |-> IF e.user \in Placeholders THEN Missing ELSE e.user,
             source |-> IF e.source \in Placeholders THEN Missing ELSE e.source]

\* A correlated alert has one actor: when it is raised for an event whose own user
\* and source are no placeholder, MinSignals distinct rules have been set off by events
\* that share with it a user or a source that was really there, whatever placeholders
\* the others hold (_actor_for_event: an empty field "never falsely links two unrelated
\* actors together").  An event that does hold a placeholder is linked by it to all
\* the others that do.
FlagsOneActor ==
    [][ \A f \in Flagged' \ alerts :
            {f.user, f.source} \cap Placeholders = {} =>
            \E signals \in SUBSET Ordinary :
                /\ Cardinality({a.rule : a \in signals}) >= MinSignals
                /\ \A a \in signals : Share(Named(a), Named(f))
      ]_vars

=============================================================================
