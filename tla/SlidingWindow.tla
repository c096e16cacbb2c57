---------------------------- MODULE SlidingWindow ----------------------------
(***************************************************************************)
(* The two rules that count in memory: BruteForceRule, by source, the      *)
(* failed logons of a window, and PortScanDetectionRule, by remote         *)
(* address, the distinct local ports of a window.  They share the          *)
(* algorithm: a deque per source, trimmed at each event, the time of the   *)
(* source's last alert, and every PRUNE_EVERY events a sweep that forgets  *)
(* the sources that have gone quiet.  Events come in the order in which    *)
(* they are stored, which need not be that of their timestamps.  What the  *)
(* rules promise is stated in BurstDetector, which this specification      *)
(* implements.                                                             *)
(***************************************************************************)
EXTENDS Integers, Sequences, FiniteSets, Functions

CONSTANTS
    Keys,          \* the sources (addresses or computers) of events
    Items,         \* what distinguishes events of a source: the local port
    Threshold, Window,
    PruneEvery,    \* PRUNE_EVERY
    MaxTime, MaxEvents,  \* bounds on the events
    MaxResets,     \* bound on new rule objects: settings saved, or a restart
    MaxLost        \* bound on alerts that cannot be stored

ASSUME WindowAssumption ==
    /\ {Threshold, Window, MaxTime, MaxEvents, MaxResets, MaxLost} \subseteq Nat
    /\ PruneEvery \in Nat \ {0}

VARIABLES
    which,         \* the rule: "brute_force" or "port_scan_detection"
    attempts,      \* _attempts: the deque of each source tracked
    lastAlert,     \* _last_alert: when each source was last alerted on
    seen,          \* _seen modulo PRUNE_EVERY
    raised,        \* the alerts raised since the rule was built: [key, ts, stored]
    resets, lost,  \* counted for their bounds
    history,       \* history: every event of interest since the rule was built
    newest,        \* history: the latest time among them
    sweptAt        \* history: the event at which the last sweep came, 0 for none

rule == <<attempts, lastAlert, seen>>
vars == <<which, rule, raised, resets, lost, history, newest, sweptAt>>

\* The alerts as the promise speaks of them: when, and for which source.
Alerted == [i \in DOMAIN raised |-> [key |-> raised[i].key, ts |-> raised[i].ts]]

Detector == INSTANCE BurstDetector WITH alerted <- Alerted

WInit ==
    /\ which \in {"brute_force", "port_scan_detection"}
    /\ history = <<>> /\ raised = <<>> /\ lost = 0
    /\ attempts = [key \in {} |-> <<>>]
    /\ lastAlert = [key \in {} |-> 0]
    /\ seen = 0
    /\ resets = 0
    /\ newest = 0 /\ sweptAt = 0

With(f, key, value) ==
    [k \in DOMAIN f \cup {key} |-> IF k = key THEN value ELSE f[k]]

-----------------------------------------------------------------------------
(* prune_stale_sources *)

\* Mutants: the oldest entry of a source decides; nothing is ever forgotten.
FreshByOldest(now) ==
    {key \in DOMAIN attempts : attempts[key] # <<>> /\ attempts[key][1].ts >= now - Window}
AlwaysFresh(now) == DOMAIN attempts

\* The sources whose deque ends inside the window that ends now.
Fresh(now) ==
    {key \in DOMAIN attempts :
        /\ attempts[key] # <<>>
        /\ attempts[key][Len(attempts[key])].ts >= now - Window}

FreshAlerts(now) == {key \in DOMAIN lastAlert : lastAlert[key] >= now - Window}

\* Mutant: the sweep never comes.
NeverDue == FALSE

Due == seen + 1 = PruneEvery

KeptAttempts(now) == IF Due THEN Restrict(attempts, Fresh(now)) ELSE attempts
KeptAlerts(now) == IF Due THEN Restrict(lastAlert, FreshAlerts(now)) ELSE lastAlert

-----------------------------------------------------------------------------
(* evaluate, for an event of interest of source e.key *)

Entry(e) == [ts |-> e.ts, item |-> e.item]

\* The deque after append and popleft: trimmed at the left up to the first
\* entry that is not older than the window.
Trimmed(e) ==
    LET kept  == KeptAttempts(e.ts)
        deque == Append(IF e.key \in DOMAIN kept THEN kept[e.key] ELSE <<>>, Entry(e))
        first == CHOOSE i \in 1..Len(deque) :
                    /\ deque[i].ts >= e.ts - Window
                    /\ \A j \in 1..(i - 1) : deque[j].ts < e.ts - Window
    IN SubSeq(deque, first, Len(deque))

\* brute_force counts events, port_scan_detection distinct ports.
Size(deque) ==
    IF which = "brute_force" THEN Len(deque)
    ELSE Cardinality({deque[i].item : i \in 1..Len(deque)})

Suppressed(e) ==
    /\ e.key \in DOMAIN KeptAlerts(e.ts)
    /\ e.ts - KeptAlerts(e.ts)[e.key] < Window

Fires(e) == Size(Trimmed(e)) >= Threshold /\ ~Suppressed(e)

\* The rule notes the time of an alert before it tries to store it.
Noted(e) ==
    IF Fires(e) THEN With(KeptAlerts(e.ts), e.key, e.ts) ELSE KeptAlerts(e.ts)

\* raise_alert stores the alert, or the write fails and evaluate_event drops the
\* exception: the alert is lost.
Raise(e) ==
    \E stored \in BOOLEAN :
        /\ ~stored => lost < MaxLost
        /\ lost' = IF stored THEN lost ELSE lost + 1
        /\ raised' = Append(raised, [key |-> e.key, ts |-> e.ts, stored |-> stored])

Evaluate(e) ==
    /\ Len(history) < MaxEvents
    /\ history' = Append(history, e)
    /\ newest' = IF e.ts > newest THEN e.ts ELSE newest
    /\ seen' = IF Due THEN 0 ELSE seen + 1
    /\ sweptAt' = IF Due THEN Len(history) + 1 ELSE sweptAt
    /\ attempts' = With(KeptAttempts(e.ts), e.key, Trimmed(e))
    /\ lastAlert' = Noted(e)
    /\ \/ ~Fires(e) /\ UNCHANGED <<raised, lost>>
       \/ Fires(e) /\ Raise(e)
    /\ UNCHANGED <<which, resets>>

\* engine.configure builds new rule objects, at the start and whenever the
\* settings are saved.
Configure ==
    /\ resets < MaxResets
    /\ resets' = resets + 1
    /\ attempts' = [key \in {} |-> <<>>]
    /\ lastAlert' = [key \in {} |-> 0]
    /\ seen' = 0
    /\ history' = <<>> /\ raised' = <<>> /\ newest' = 0 /\ sweptAt' = 0
    /\ UNCHANGED <<which, lost>>

WNext ==
    \/ \E key \in Keys, ts \in 1..MaxTime, item \in Items :
          Evaluate([key |-> key, ts |-> ts, item |-> item])
    \/ Configure

WSpec == WInit /\ [][WNext]_vars

-----------------------------------------------------------------------------
(* Properties *)

\* Every variable stays in its type; no deque is empty.
TypeOK ==
    /\ history \in Seq([key : Keys, ts : 1..MaxTime, item : Items])
    /\ raised \in Seq([key : Keys, ts : 1..MaxTime, stored : BOOLEAN])
    /\ DOMAIN attempts \subseteq Keys /\ DOMAIN lastAlert \subseteq Keys
    /\ \A key \in DOMAIN attempts :
          attempts[key] \in Seq([ts : 1..MaxTime, item : Items]) \ {<<>>}
    /\ \A key \in DOMAIN lastAlert : lastAlert[key] \in 1..MaxTime
    /\ seen \in 0..(PruneEvery - 1)
    /\ resets \in 0..MaxResets /\ lost \in 0..MaxLost
    /\ newest \in 0..MaxTime /\ sweptAt \in 0..Len(history)

\* Trimming the deques and forgetting quiet sources changes no verdict that matters,
\* in whatever order events come: between two saves of the settings the rule alerts
\* when the events it must remember reach the threshold, never when even those it may
\* count do not, and after an alert, whether or not it could be stored, not again until
\* some event is a window later (BurstDetector).
DetectsBursts == Detector!Spec

\* Memory is not filled by sources that were seen once: each source for which there is
\* a deque or the time of an alert has an event that came with the last sweep or after
\* it, or that lies in the window that ended there (prune_stale_sources).
TrackedRecently ==
    \A key \in DOMAIN attempts \cup DOMAIN lastAlert :
        \E i \in 1..Len(history) :
            /\ history[i].key = key
            /\ i >= sweptAt \/ history[i].ts >= history[sweptAt].ts - Window
=============================================================================
