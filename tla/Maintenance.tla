----------------------------- MODULE Maintenance ------------------------------
(***************************************************************************)
(* The periodic tasks of the collector (siem/maintenance.py), with what    *)
(* they do: the purge of old rows and its VACUUM (siem/retention.py), the  *)
(* refresh of the threat intelligence feed (siem/threat_intel.py), and the *)
(* posture scan (siem/posture.py), which the desktop app's Scan Now runs   *)
(* too.  run_periodic_tasks is called in every cycle of the collector and  *)
(* runs, in this order, each task whose last run is an interval ago.       *)
(*                                                                         *)
(* Time is kept as ages, capped where they make no more difference, so the *)
(* model runs for ever.  Between two ticks of the clock the collector ends *)
(* at least one cycle.                                                     *)
(***************************************************************************)
EXTENDS Naturals

CONSTANTS
    Interval,    \* Interval[t]: the hours between two runs of t, in ticks
    LookbackDays,\* threat_intel.lookback_days, in ticks
    FeedCap,     \* the 7 days the feed answers for at most, in ticks
    Switched,    \* the tasks the user switches on and off
    MaxFailed,   \* bound on the count of failed refreshes
    None,        \* no task, no age
    NoPorts      \* instead of the age of a scan: netstat could not be run

Tasks == {"retention", "threat_intel", "posture"}

ASSUME IntervalAssumption == Interval \in [Tasks -> Nat \ {0}]
ASSUME LookbackAssumption == {LookbackDays, FeedCap, MaxFailed} \subseteq Nat

\* fetch_recent_iocs asks for min(days, 7).
Lookback == IF LookbackDays < FeedCap THEN LookbackDays ELSE FeedCap

\* The bound on failed refreshes is beyond what the feed's lookback bridges.
ASSUME MaxFailedAssumption == (MaxFailed + 1) * Interval["threat_intel"] > Lookback
ASSUME SwitchedAssumption == Switched \subseteq Tasks
ASSUME NoneAssumption == None \notin Nat \cup Tasks /\ NoPorts \notin Nat \cup {None}

VARIABLES
    age,       \* age[t]: ticks since maintenance_state says t ran
    enabled,   \* the tasks switched on in the live configuration
    task, step,\* where run_periodic_tasks is
    polled,    \* a cycle has ended since the last tick
    expired,   \* rows older than their retention exist
    freed,     \* the database file holds pages of deleted rows
    unknown,   \* the age of the oldest indicator the feed has reported and
               \* the table does not have
    findings,  \* the age of the netstat output the posture findings are of
    scanned,   \* the netstat output the collector is about to store
    gui,       \* the age of the netstat output Scan Now is about to store
    failed,    \* history: refreshes that failed since the last that did not
    lapsed     \* history: since then, the feed was off or due in a cycle that failed

feed == <<unknown, failed, lapsed>>
scans == <<findings, scanned, gui>>
vars == <<age, enabled, task, step, polled, expired, freed, feed, scans>>

Older(a, limit) == IF a < limit THEN a + 1 ELSE a
Limit(t) == Interval[t] + 1
OldestScan == Limit("posture") + 1

Init ==
    /\ age = [t \in Tasks |-> Interval[t]]     \* a task without a row is due
    /\ enabled \in {Tasks, Tasks \ Switched}
    /\ task = None /\ step = "check" /\ polled = FALSE
    /\ expired = FALSE /\ freed = FALSE
    /\ unknown = None /\ failed = 0 /\ lapsed = TRUE
    /\ findings = None /\ scanned = NoPorts /\ gui = None

-----------------------------------------------------------------------------
(* The environment *)

\* netstat is given 15 seconds: at most one tick passes before it is stored.
Tick ==
    /\ task = None /\ polled /\ gui # 1
    /\ age' = [t \in Tasks |-> Older(age[t], Limit(t))]
    /\ unknown' = IF unknown = None THEN None ELSE Older(unknown, Lookback + 1)
    /\ findings' = IF findings \in {None, NoPorts} THEN findings ELSE Older(findings, OldestScan)
    /\ gui' = IF gui \in {None, NoPorts} THEN gui ELSE Older(gui, 1)
    /\ polled' = FALSE
    /\ UNCHANGED <<enabled, task, step, expired, freed, failed, lapsed, scanned>>

RowsExpire ==
    /\ ~expired /\ expired' = TRUE
    /\ UNCHANGED <<age, enabled, task, step, polled, freed, feed, scans>>

IndicatorReported ==
    /\ unknown = None /\ unknown' = 0
    /\ UNCHANGED <<age, enabled, task, step, polled, expired, freed, failed, lapsed, scans>>

\* The settings are saved: the collector holds the same dict.
Switch(t) ==
    /\ enabled' = IF t \in enabled THEN enabled \ {t} ELSE enabled \cup {t}
    /\ lapsed' = (lapsed \/ t = "threat_intel")
    /\ UNCHANGED <<age, task, step, polled, expired, freed, unknown, failed, scans>>

-----------------------------------------------------------------------------
(* run_periodic_tasks *)

\* Mutant: an interval must have passed and more.
DueLate(t) == t \in enabled /\ age[t] > Interval[t]

Due(t) == t \in enabled /\ age[t] >= Interval[t]

At(t, s) == task = t /\ step = s

\* The task after t, or the end of the cycle.
ToNextTask(t) ==
    /\ step' = "check"
    /\ task' = CASE t = "retention" -> "threat_intel"
                 [] t = "threat_intel" -> "posture"
                 [] t = "posture" -> None
    /\ polled' = (polled \/ t = "posture")

StartCycle ==
    /\ task = None
    /\ task' = "retention"
    /\ UNCHANGED <<age, enabled, step, polled, expired, freed, feed, scans>>

SkipTask(t) ==
    /\ At(t, "check") /\ ~Due(t)
    /\ ToNextTask(t)
    /\ UNCHANGED <<age, enabled, expired, freed, feed, scans>>

\* _mark_done.
MarkDone(t) ==
    /\ At(t, "mark")
    /\ age' = [age EXCEPT ![t] = 0]
    /\ ToNextTask(t)
    /\ UNCHANGED <<enabled, expired, freed, feed, scans>>

\* Mutant: the rows are deleted, the file is left as it is.
PurgeOnly ==
    /\ At("retention", "check") /\ Due("retention")
    /\ expired' = FALSE
    /\ freed' = (freed \/ expired)
    /\ step' = "mark"
    /\ UNCHANGED <<age, enabled, task, polled, feed, scans>>

\* purge: the deletes and their commit, and VACUUM if they deleted anything.
Purge ==
    /\ At("retention", "check") /\ Due("retention")
    /\ expired' = FALSE
    /\ freed' = (freed \/ expired)
    /\ step' = IF expired THEN "vacuum" ELSE "mark"
    /\ UNCHANGED <<age, enabled, task, polled, feed, scans>>

Vacuum ==
    /\ At("retention", "vacuum")
    /\ freed' = FALSE
    /\ step' = "mark"
    /\ UNCHANGED <<age, enabled, task, polled, expired, feed, scans>>

\* refresh: the feed answers with what it has reported in the lookback.
Refresh ==
    /\ At("threat_intel", "check") /\ Due("threat_intel")
    /\ unknown' = None /\ failed' = 0 /\ lapsed' = FALSE
    /\ step' = "mark"
    /\ UNCHANGED <<age, enabled, task, polled, expired, freed, scans>>

\* Mutant: a refresh that failed is not marked done.
RefreshFailsUnmarked ==
    /\ At("threat_intel", "check") /\ Due("threat_intel")
    /\ failed' = Older(failed, MaxFailed)
    /\ ToNextTask("threat_intel")
    /\ UNCHANGED <<age, enabled, expired, freed, unknown, lapsed, scans>>

\* There is no key, or one of the errors refresh expects: it returns 0.
RefreshFails ==
    /\ At("threat_intel", "check") /\ Due("threat_intel")
    /\ failed' = Older(failed, MaxFailed)
    /\ step' = "mark"
    /\ UNCHANGED <<age, enabled, task, polled, expired, freed, unknown, lapsed, scans>>

\* Mutant: the findings of the scan are not stored.
ScanWithoutStore ==
    /\ At("posture", "check") /\ Due("posture")
    /\ scanned' = 0 /\ step' = "mark"
    /\ UNCHANGED <<age, enabled, task, polled, expired, freed, feed, findings, gui>>

\* run_scan: netstat, or no findings when it cannot be run.
Scan ==
    /\ At("posture", "check") /\ Due("posture")
    /\ scanned' \in {0, NoPorts}
    /\ step' = "store"
    /\ UNCHANGED <<age, enabled, task, polled, expired, freed, feed, findings, gui>>

\* replace_posture_findings, one transaction.
StoreScan ==
    /\ At("posture", "store")
    /\ findings' = scanned
    /\ step' = "mark"
    /\ UNCHANGED <<age, enabled, task, polled, expired, freed, feed, scanned, gui>>

\* Something is left to do: a failure where nothing is has the effect of SkipTask.
CycleGoesOn == task # None /\ ~(At("posture", "check") /\ ~Due("posture"))

\* Mutant: the next cycle goes on where this one stopped.
CycleFailsInPlace ==
    /\ CycleGoesOn
    /\ task' = None /\ polled' = TRUE
    /\ lapsed' = (lapsed \/ Due("threat_intel"))
    /\ UNCHANGED <<age, enabled, step, expired, freed, unknown, failed, scans>>

\* A statement or VACUUM raises, or an error of the feed that refresh does not
\* expect, or the process ends: the rest of the cycle is skipped.
CycleFails ==
    /\ CycleGoesOn
    /\ task' = None /\ step' = "check" /\ polled' = TRUE
    /\ lapsed' = (lapsed \/ Due("threat_intel"))
    /\ UNCHANGED <<age, enabled, expired, freed, unknown, failed, scans>>

RunPeriodicTasks ==
    \/ StartCycle
    \/ \E t \in Tasks : SkipTask(t) \/ MarkDone(t)
    \/ Purge \/ Vacuum \/ Refresh \/ RefreshFails \/ Scan \/ StoreScan

-----------------------------------------------------------------------------
(* _run_posture_scan, on the GUI thread *)

ScanNow ==
    /\ gui = None /\ gui' \in {0, NoPorts}
    /\ UNCHANGED <<age, enabled, task, step, polled, expired, freed, feed, findings, scanned>>

StoreScanNow ==
    /\ gui # None
    /\ findings' = gui /\ gui' = None
    /\ UNCHANGED <<age, enabled, task, step, polled, expired, freed, feed, scanned>>

-----------------------------------------------------------------------------
Next ==
    \/ Tick \/ RowsExpire \/ IndicatorReported \/ \E t \in Switched : Switch(t)
    \/ RunPeriodicTasks \/ CycleFails
    \/ ScanNow \/ StoreScanNow

Spec == Init /\ [][Next]_vars

\* Time passes (Tick waits for the cycle under way, hence strong), the collector
\* keeps cycling and netstat ends.
Fairness == SF_vars(Tick) /\ WF_vars(RunPeriodicTasks) /\ WF_vars(StoreScanNow)

FairSpec == Spec /\ Fairness

-----------------------------------------------------------------------------
(* Properties *)

\* Every variable stays in its type; a new cycle starts at the first task.
TypeOK ==
    /\ \A t \in Tasks : age[t] \in 0..Limit(t)
    /\ enabled \subseteq Tasks
    /\ task \in Tasks \cup {None}
    /\ step \in {"check", "vacuum", "store", "mark"}
    /\ task = None => step = "check"
    /\ polled \in BOOLEAN /\ expired \in BOOLEAN /\ freed \in BOOLEAN
    /\ unknown \in 0..(Lookback + 1) \cup {None}
    /\ findings \in 0..OldestScan \cup {None, NoPorts}
    /\ scanned \in {0, NoPorts}
    /\ gui \in {0, 1, NoPorts, None}
    /\ failed \in 0..MaxFailed /\ lapsed \in BOOLEAN

\* Once no cycle fails any more, every task that is switched on runs again and
\* again, a task that had failed before it or the feed's own failures or not.
TasksRun ==
    <>[][~CycleFails]_vars =>
        \A t \in Tasks : []<>(t \notin enabled \/ age[t] = 0)

\* A refresh that fails is tried again only an interval later, and the feed
\* reports no more than the lookback: an indicator is lost only if the feed was
\* off, or a cycle failed, or so many refreshes failed in a row that the next
\* came later than the lookback.
IndicatorsAreSeen ==
    [][ unknown # None /\ unknown' = None =>
            \/ unknown <= Lookback
            \/ lapsed
            \/ (failed + 1) * Interval["threat_intel"] > Lookback
      ]_vars

\* When maintenance_state says the ports were scanned less than an interval ago,
\* the findings are of that scan or a later one, or of a Scan Now that began up
\* to a tick earlier: cycles that fail between scan, store and mark, and scans
\* that overlap, leave none older.
FindingsFollowScan ==
    age["posture"] < Interval["posture"] =>
        \/ findings = NoPorts
        \/ findings # None /\ findings <= age["posture"] + 1

\* What a purge whose VACUUM failed has freed is reclaimed in the end, as long
\* as rows keep expiring and cycles stop failing.
FreedIsReclaimed ==
    /\ <>[][~CycleFails]_vars
    /\ []<>expired /\ <>[]("retention" \in enabled)
    => (freed ~> ~freed)
=============================================================================
