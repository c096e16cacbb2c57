---------------------------- MODULE BurstDetector ----------------------------
(***************************************************************************)
(* What the two counting rules promise, brute_force and                    *)
(* port_scan_detection: an alert for a source as soon as its activity in   *)
(* the window that ends with the event at hand reaches the threshold, and  *)
(* then none for that source until a window after the alert has passed;    *)
(* all of it since the rule was last built.                                *)
(*                                                                         *)
(* Events may come in any order of time.  What has left the window of the  *)
(* newest event need not be remembered, and an old event that came after a *)
(* recent one may be; in between the rule is free.  When events come in    *)
(* order nothing is in between.  Stated over the whole history of events;  *)
(* SlidingWindow, which keeps only a part of it, implements this.          *)
(***************************************************************************)
EXTENDS Integers, Sequences, FiniteSets

CONSTANTS
    Keys,          \* the sources (addresses or computers) of events
    Items,         \* what distinguishes events of a source: the local port
    Threshold, Window,
    MaxTime        \* bound

VARIABLES
    which,     \* the rule: "brute_force" or "port_scan_detection"
    history,   \* every event of interest since the rule was built
    newest,    \* the latest time among them
    alerted    \* the alerts it has raised since: [key, ts]

Init ==
    /\ which \in {"brute_force", "port_scan_detection"}
    /\ history = <<>> /\ newest = 0 /\ alerted = <<>>

Latest(e) == IF e.ts > newest THEN e.ts ELSE newest

\* The events of e's source.
Own(e) == {i \in 1..Len(history) : history[i].key = e.key}

\* Those that must count with e: they lie in the window of the newest event, and no
\* event older than that came after them.
Remembered(e) ==
    {i \in Own(e) : \A j \in Own(e) : i <= j => history[j].ts >= Latest(e) - Window}

\* Those that may count with e: they lie in the window of e, or came after one that does.
Admitted(e) ==
    {i \in Own(e) : \E j \in Own(e) : j <= i /\ history[j].ts >= e.ts - Window}

\* brute_force counts events, port_scan_detection distinct ports; e counts itself.
Count(e, recent) ==
    IF which = "brute_force" THEN Cardinality(recent) + 1
    ELSE Cardinality({history[i].item : i \in recent} \cup {e.item})

AlertedWithin(e, now) ==
    \E i \in 1..Len(alerted) : alerted[i].key = e.key /\ now - alerted[i].ts < Window

MustRaise(e) == Count(e, Remembered(e)) >= Threshold /\ ~AlertedWithin(e, e.ts)
MayRaise(e) == Count(e, Admitted(e)) >= Threshold /\ ~AlertedWithin(e, Latest(e))

Observe(e) ==
    /\ history' = Append(history, e)
    /\ newest' = Latest(e)
    /\ \/ MayRaise(e) /\ alerted' = Append(alerted, [key |-> e.key, ts |-> e.ts])
       \/ ~MustRaise(e) /\ alerted' = alerted
    /\ UNCHANGED which

\* A new rule object starts with nothing.
Rebuild ==
    /\ history' = <<>> /\ newest' = 0 /\ alerted' = <<>>
    /\ UNCHANGED which

Next ==
    \/ \E key \in Keys, ts \in 1..MaxTime, item \in Items :
          Observe([key |-> key, ts |-> ts, item |-> item])
    \/ Rebuild

Spec == Init /\ [][Next]_<<which, history, newest, alerted>>
=============================================================================
