# Verification of pysentinel-siem

pysentinel-siem is a small SIEM for one Windows host. It copies records of the
Windows Event Log into SQLite, runs each through detection rules, correlates
the alerts, and shows them in a browser dashboard and a desktop app, which can
also block an address in the Windows Firewall. This directory holds TLA+ models
of the parts of it that carry state, the TLC configurations that check them, and
TLAPS proofs about all of them.

Contents: [the system](#the-system), [modules](#modules), [runs](#runs),
[fairness](#fairness), [proofs](#proofs), [disagreements](#where-code-and-documentation-disagree),
[what is not modelled](#not-modelled), [plan](#plan).

## The system

Two kinds of process share one SQLite file in WAL mode:

* a **collector**, either `run_collector.py` or a thread of the desktop app;
  nothing keeps both from running at once;
* the **user interfaces**: the desktop app (Tk, one thread, one connection for
  its life) and the dashboard (Flask, a thread and a connection per request).

The collector thread runs everything from the query to the correlated alert:
`run_forever` → `poll_once` → `insert_event` → `evaluate_event` → rules →
`raise_alert` → `correlation.check`; then, once a cycle, `run_periodic_tasks`.

| Component | State it keeps | Operations | Hard behaviour | What makes it correct |
|---|---|---|---|---|
| collector (`siem/collector.py`) | `channel_state` watermarks, `consecutive_failures` | poll each channel in turn; insert, evaluate, advance; back off | each insert is a commit of its own; a crash, a locked database or an unparsable record can end a cycle anywhere; records are fetched again | the watermark passes nothing that was not stored; the engine sees each record once; everything is stored in the end |
| storage (`siem/storage.py`) | the tables, and in each connection an implicit transaction | statements, `commit()` | no function rolls back; the write lock; WAL snapshots; VACUUM against a 10 s timeout | a failure in one place does not stop another from writing or from seeing what is committed |
| engine (`siem/engine.py`) | the list `RULES` | `configure`, `evaluate_event` | replaced by the GUI thread while the collector iterates | every stored event is evaluated; one rule's exception stops no other |
| counting rules (`brute_force`, `port_scan_detection`, `rules/base.py`) | deque and last alert per source, sweep counter | `evaluate`, `prune_stale_sources` | trimming, suppression and sweep share a boundary; records may come late | forgetting changes no verdict on what is in the window; memory does not fill |
| stateless rules (the other eight), normalization | none | `evaluate`, `normalize_event` | missing fields; fields whose meaning depends on the event | match what the documentation says; carry the right actor |
| alerts, correlation (`siem/alerts.py`, `siem/correlation.py`) | `alerts` table, `_settings` | `raise_alert`, `check` | actors overlap by user and by source; a crash between alert and check; retention deletes what the query joins | a burst is flagged once per actor and window, for one actor |
| retention (`siem/retention.py`) | none | `purge`: two deletes, commit, VACUUM | VACUUM fails after the commit | freed space is reclaimed |
| maintenance (`siem/maintenance.py`) | `maintenance_state` | three tasks, each when due | a task that raises skips the later ones; a failed refresh is marked done | every enabled task runs again and again |
| threat feed (`siem/threat_intel.py`) | `threat_intel_iocs` | `refresh` | a feed with a limited lookback, retried an interval later | no reported indicator is missed without a named cause |
| posture (`siem/posture.py`) | `posture_findings` | `run_scan`, replaced by two writers | two scans overlap | findings are as recent as the last scan noted |
| response (`siem/response.py`) | Windows Firewall rules, `blocked_ips` | `block_ip`, `unblock_ip` | two netsh runs and a statement, no common transaction; several clients | the table says what the firewall does |
| web dashboard (`dashboard/`) | the page: filter, rows seen, running flag, Live pill; the server's access token | polling every 5 s, change of filter, block, unblock | overlapping requests, answers out of order, a restarted server | the page settles on the filter and the database; each alert is announced once |
| desktop app (`desktop_app.py`) | one connection, the live `config`, `user_settings.yaml`, `secrets.yaml` | start, refresh, block, scan, save settings | saved settings change the collector's live configuration piecewise; files cut off by a crash | what is reported as saved survives; the app starts again |
| paths, secrets (`siem/paths.py`, `siem/secrets_loader.py`) | files in the data directory | migrate, load, save | an interrupted copy or save | the newest complete settings are the ones in force |
| audit policy (`siem/audit_policy.py`) | Windows' audit policy | check, set | auditpol fails and nobody is told | rules that are on have the events they read |
| notifier, logging, file security | a tray icon; log files; permissions | best effort | — | — |

The hazards this code is exposed to are listed, each at its line and with the
properties that cover it, under `hazards` in `PROJECT.json`.

## Modules

Each module models one component; `map` in `PROJECT.json` gives the lines behind
every definition. Definitions marked *Mutant* are plausible mistakes in the code
which the properties must detect; no specification uses them. Time is counted in
ticks, and an age is capped where it makes no more difference. The `MC` modules
only name the small sets that the `.cfg` files use, and the `Proofs` modules hold the
theorems about the module they are named after; InterfaceProofs those about the two user
interfaces, Configuration and Polling.

**Collector** — `poll_once` and `run_forever`. A record is a channel and its place
in that channel's log, which is what the schema's `UNIQUE(channel, record_id)`
identifies. There is one action per step after which something else can happen:
`FetchNewEvents` (`get_last_ts` and the query, whose time filter is strict),
`InsertEvent`/`InsertDuplicate` (the latter leaves Python's implicit transaction
open), `EvaluateEvent`, `AdvanceWatermark` (`set_last_ts`), `Maintain`, `WakeUp`.
`QueryFails` skips a channel; `NormalizeFails`, `StorageFails` and
`MaintenanceFails` end the cycle as an exception that reaches `run_forever` does;
`Crash` may come anywhere and `Restart` follows it. `Delay` is the back-off.
`Order` says how timestamps relate to record ids: the real log orders records by
when they were written, and a record written later may carry an equal or an earlier
timestamp. `behind` remembers the records that became visible when the collector was
`Past` their timestamp in their channel, by the watermark or by a record the query in
progress has returned; the strict filter does not find those again.

**Alerting** — from a stored event to its alerts. The set of rules that fire on an
event is arbitrary. `RaiseAlert` commits the alert; `Check` runs the two queries
of `correlation.check` (an inner join on `events`, so alerts whose event retention
has deleted do not count) and inserts the correlated alert; for an event with neither
user nor source it returns before them (`ActorKnown`), which matters when one signal
is enough. `RuleRaises` is an
exception caught in `evaluate_event`, `Crash` the end of the process, `Purge`
retention. Ids are handed out as `AUTOINCREMENT` does. An event's source may be one of
`Placeholders`, the `-` that Windows writes for no address: the code links by it as by
any other.

**BurstDetector, SlidingWindow** — the abstract promise of the two counting rules,
stated over the whole history, and their implementation with deques, suppression
and sweep, which keeps only a part of it. Events come in any order of time, as
`poll_once` hands them on in the order of record ids. The promise has two sides, since
the rules do not sort: an alert *must* be raised when the events that have to be counted
reach the threshold (`Remembered`: those in the window of the newest event that no older
one came after), and *may* be raised only when those that can be counted do (`Admitted`:
those in the window of the event at hand, or behind one that is). For events in order of
time both are the events of the window (theorem `InOrderIsExact`). After an alert there
is no other for its source until some event is a window later. SlidingWindow instantiates the abstract module
(`Detector`), mapping the alerts that were *noted* to the abstract `alerted`;
`DetectsBursts` is the abstract specification as a property of the detailed one.
`which` selects the rule: number of events, or of distinct ports. `Raise` stores the
alert or loses it, after its time was noted. `Configure` builds new rule objects,
which start with nothing. `newest` and `sweptAt` are history variables: the latest time
of an event, and the event that set off the last sweep.

**Rules** — `normalize_event`, the conditions of all ten rules, and the loop of
`evaluate_event`. A record has a channel, an id, an hour and a function from the
field names to values; a path stands for its base name, a command line or script for
the set of words in it that some rule looks for. The list of rules is the set of places
in `RuleOrder` that are enabled (`Listed`); `next` is where the loop has got to, and the
rule whose turn it is (`Running`) is the first one ahead. `RuleDecides`, `RuleCounts` and
`RuleRaises` are the three ways an iteration of the loop can go; `RaiseAlert` may
fail to store the alert, which is an exception the loop catches. `Configure`, in the
GUI thread, may replace the list between any two iterations: the `for` statement keeps
the list it began with (`loop`). `Documented` is the reference: the triggers in the
README's table of detections, stated on the record as logged and not on the row.

**Configuration** — `main` and the Settings tab of the desktop app. `disk` and `old` hold
files; a file that was opened for writing and not written yet is `Torn`. The main
thread's steps are `PrepareDataDir`, `CopyFile`/`CopyEnds` per migrated file,
`EnsureConfig`/`WriteDefault`, `Load`, `Start`, and for a save `Save` (the live
dictionary is merged first), `SaveUserSettings`, `SaveSecrets` (two steps each),
`Configure` once per live field in the order in which the three `configure` functions
set them, and `FinishSave`. `StartFails` and `SaveFails` are exceptions, `Crash` comes
anywhere. The collector thread reads the live fields one by one (`Read`) while it judges
an event.

**Polling** — a page of the web dashboard, its server and everybody else who changes the
database. A task is one run of an async function (a refresh, a refresh of the blocked
IPs, a click): it sends its requests one after the other; `Serve`, `Refuse` or
`ServerError` answers the one under way from the database as it is at that moment,
`Continue`, `Finish` or `Throw` delivers the answer later. `Tick` is the timer with its
`running` flag; `ChangeFilter` and `Click` start tasks without looking at it.
`Restart` draws a new access token, `OpenLink` brings it to the browser. `InsertAlert` is
the collector's, `PurgeAlerts` retention's: an alert is dated by when it was raised, so
the oldest rows go, and their ids are not used again. `asof`, in each answer and what is
drawn from it, is a history variable: how often alerts had been added or deleted when the
server answered. The two statements behind the totals count as one. Its
specification is called `PageSpec` because InterfaceProofs extends Configuration, too.

**Response** — `block_ip` and `unblock_ip` as called by any number of clients, one
action per netsh run and statement. `Faults` are what can go wrong: netsh refuses,
netsh times out with its effect done or not, the statement raises, the process
ends. Which addresses `is_blockable_ip` accepts is a parameter. The first check
(`BlockIP`) and the writes are separate steps, so overlapping calls interleave. Two
histories say what the properties except: `broken[ip]` what went wrong in calls for an
address, an overlap included, and `alone[c]` whether another call for its address
overlapped the one client `c` is in.

**Connections** — the transactions of the database connections. `Commit`,
`WriteUncommitted`, `Read` and `WriteFails` are the effect of statements through
Python's `sqlite3`: a writing statement opens a transaction which only `commit()`
ends; a transaction reads a snapshot fixed by its first read and can write only if
that is still the newest state. On top of them run collectors (`GetLastTs` to
`WakeUp`, with VACUUM as a step that holds the lock), windows that refresh and
write, and dashboard requests, whose connection disappears with them. The content
of the database is a version number, the number of events stored and the
watermark.

**Maintenance** — `run_periodic_tasks` with the three tasks. `age[t]` is the time
since `maintenance_state` says task `t` ran. `CycleFails` stops a cycle before any
of its steps. `Refresh` has the feed report what it has learned within its
`Lookback`, the configured days or ThreatFox's cap if that is less; `RefreshFails` covers a missing key and the errors `refresh` expects.
`ScanNow`/`StoreScanNow` are the desktop app's own scan. `unknown` is the age of
the oldest indicator reported and not yet in the table; the history variables
`failed` and `lapsed` record why one may have been missed.

How they fit together: Collector leaves out what happens inside `evaluate_event`,
which is where Alerting begins; Alerting leaves open which rules fire, and
SlidingWindow says when the two stateful ones do. Collector treats the database as
an atomic store whose statements may fail; Connections explains when they do.
Maintenance details the step `Maintain` of the other two. Rules leaves open when the
two counting rules alert, which SlidingWindow decides, and Configuration says which
settings any of them runs on. The clicks in Polling are the calls of Response.

## Runs

All bounds are constants of the configurations. `window_verdicts`, which checks no
liveness, uses symmetry: of the two sources, and of the two ports. No other run does.

| Run | Shows |
|---|---|
| `collector_cycles` | Two channels, up to two records with timestamps in any order that may be unparsable, a crash, a storage error, purges, failing queries and maintenance. `WatermarkCovers`: what lies between the point a channel was first collected from and its watermark was stored, unless it was logged behind the collector. `NotEvaluatedTwice`: only a purge can bring a record back. `OneGapPerCrash`: stored but never evaluated records number at most one per crash. `CollectedOrExcused`: every record is in the end stored, unless it cannot be parsed, comes after one that cannot, was logged more than the lookback before a poll of a channel without watermark, or was logged behind the collector. |
| `collector_crash_gap` | Violation: an event stored and passed by the watermark that the engine never saw. |
| `collector_poison` | Violation: a record that cannot be parsed keeps its channel and all later ones from being collected. |
| `response_calls` | Two clients, two public addresses and a local one, a failure of any kind. `ListedIsBlocked`: an address in the table has both rules unless an unblock has been at it. `TableMatchesFirewall`: they agree between calls on an address whose calls came one at a time and did not fail. `SuccessIsReal`: a call no other call for its address overlapped has done what it says, whatever failed before. `UnblockSucceeds`: who keeps asking succeeds, as long as calls for the address come one at a time and netsh only refuses. |
| `alerting_actors` | `OncePerActor`, `BurstIsFlagged` (not one missed while nothing failed or expired), `FlagsOneActor` (whatever events retention has deleted and placeholders other events hold), under a crash or failing rule, late events and retention. |
| `window_verdicts` | `DetectsBursts`: SlidingWindow implements BurstDetector, both rules, over events in any order of time, a save of the settings and an alert that is lost; `TrackedRecently`: what is remembered after a sweep. |
| `rules_verdicts` | Records of every kind, with fields missing and without a time; a save in the middle of an evaluation; an alert that cannot be stored. `NothingMissed` and `NothingInvented`: the rules against the documentation; the second also says that event 5157 is read correctly whichever reading of its fields is right. `ActorIsDoer`: whom an alert is linked by. |
| `configuration_saves` | A first start or an update, two saves, a failure, two crashes. `SavedSurvives`, `NewestOrDefault`, `JudgedBySettingsInForce`; `StartsUnlessTorn`. |
| `polling_pages` | Both pages, two alerts, two tasks at a time, two acts of the user, of the desktop app or of retention, and a server error or restart. `AnnouncedOnce`: at most once, none of the first table and, on the overview, none older than that; `NeverGoesBack`: on the overview, no older answer is drawn over a newer one; `PageSettles`: the table settles on the filter and the newest alerts, the totals on those there are, the list on the blocked addresses, the pill on whether the server answers. |
| `connections_shared` | Two collectors and a window, VACUUM slower than the timeout. `MarkIsStored`: overlapping batches never move the watermark past a missing event. `SleepsWithoutLock`: no collector sleeps with the write lock, except as named below. `EventuallyStored`; `DisplayCatchesUp`: a window none of whose writes failed keeps showing what is committed. |
| `connections_frozen` | Violation: one failed write and the window shows the same state for ever. |
| `maintenance_tasks` | The three tasks, the posture scan every other tick, up to two refreshes of the feed that fail in a row. `FindingsFollowScan`, `TasksRun`, `IndicatorsAreSeen`, `FreedIsReclaimed`. |

Why these bounds suffice for the questions asked:

* *Collector*: two records in a channel give a batch with a first and a last element,
  so a cycle can be cut before, inside and after one, and the batch of the next cycle
  contains stored and new records; or each channel has one, the second channel's behind
  an unparsable one of the first. Two ticks give two records equal timestamps, or the
  later one the earlier timestamp. With
  `Retention = 0` a row expires above the watermark as soon as time moves. One
  failure reaches `BackoffAfter` and the cap; how long the collector sleeps changes
  nothing else.
* *Alerting*: two events of one actor with two rules make bursts from one event and
  from two, each from the actor's host, from none or from a placeholder; `Window = 1` in
  four ticks puts alerts before, at and beyond the edge;
  `AlertRetention > EventRetention`, as in `config.yaml`, makes dangling references.
* *SlidingWindow*: five events with `PruneEvery = 2` sweep twice, with the source
  swept being or not being the one observed; a window of two in four ticks has times
  before it, at both its edges, inside and after it, and a late event can fall on each;
  with a threshold of two a third event finds out whether the first or the second was
  forgotten. Two sources and two ports tell one's own from another's.
* *Rules*: the records cover each rule with a match, a near miss and a missing field;
  the settings differ in which rules are on and in whether the business hours
  wrap. One save in the middle is enough to mix two lists, one lost alert to end a loop.
* *Configuration*: three settings that differ in every field, so that any mixture shows;
  two saves, so that a failed one can follow a good one; a start, a crash and a second
  start.
* *Polling*: two tasks are what overlapping takes, and one row per table makes every new
  alert push one out, which is when the rows seen and the rows shown differ. The second
  act can undo the first: filter there and back, hide and change. A purge counts as an
  act, and may take the rows shown, those of an answer under way, or all.
* *Response*: two clients overlap in every way two calls can, for one address and for
  two; after one fault a second call finds what the failed one left, and may fail on
  it by itself. The proofs cover any number of each.
* *Connections*: two collectors and a window are the three roles a lock can have
  (holder, waiter, reader). `MaxVersion` bounds only the writes of windows and
  requests. One restart is enough to drop a transaction.
* *Maintenance*: ages are capped one past their interval, so the run has no time
  bound. The lookback of two ticks bridges one failed refresh of the feed, which is due
  every tick, and not two; it is configured as three, so that the cap applies.
  `MaxFailed` is assumed to reach beyond the lookback.

Deadlock is checked where the component runs for ever. It is off for
`alerting_actors` and `window_verdicts`, which stop when their events are used up, and
for `configuration_saves`, where the user may have saved for the last time.

## Fairness

* *Collector*: weak fairness of `poll_once`'s steps, of `run_forever`'s and of
  restarting: the loop is sequential code that is always about to take its next
  step; registered autostart starts it again. Strong fairness of `FetchNewEvents`
  for each channel: a query that is repeated every cycle is answered at some point.
  Nothing is assumed of maintenance, which may fail in every cycle.
* *Response*: a call proceeds to its end (every netsh run has a timeout); and a user
  who sees a listed address asks again whenever the client is idle — strong, as
  clients are idle only now and then.
* *Connections*: weak fairness of each collector's cycle, since each statement
  returns or raises within its timeout, and of each window's refresh, which
  reschedules itself even when it raises (`_do_refresh`).
* *Maintenance*: weak fairness of the collector's steps and of the user's scan
  ending (`netstat` has a timeout); strong fairness of the clock, because the model
  lets time pass only between cycles. Cycles that fail are not fair steps;
  `TasksRun` and `FreedIsReclaimed` are stated for the case that they stop.
* *Configuration*: weak fairness of `Boot`: `main` goes on to its end, and the user (or
  the autostart) starts the app again after each crash.
* *Polling*: weak fairness of the timer and, for each task, of its request being
  answered or failing and of the answer being delivered. The browser sets no timeout; a
  server that accepts a request and never answers would hold the `running` flag for
  ever, which this rules out. Nothing makes the server come back or the tab be shown:
  the properties speak of a page somebody looks at, of a server that accepts it.

## Proofs

Each `Proofs` module proves theorems about its component for every value of the
constants that satisfies the module's named assumptions (`ASSUME`; TLC evaluates them
in the runs) and the hypotheses named below. All follow the same scheme: an invariant
holds initially, each action preserves it (one step per action), it implies the
property, and a temporal step concludes. `Steps` lays the disjuncts of `Next` flat where
it nests, and an "enough to show" step at the head of a preservation proof says which
facts about the next state each action then has to supply. The inductive invariants
beyond the runs' own properties were checked with TLC on the instances of the runs
before they were proved.

| Theorem | Property | Inductive invariant, and why it is needed |
|---|---|---|
| `CollectorProofs!TypeCorrect` | `TypeOK` | `TypeInv`: with `PollInv`, no batch outside a poll, and a record before the engine has a row. Without it an index into the log could belong to another channel once `ci` has moved. |
| `CollectorProofs!EvaluatedOnce` | `NotEvaluatedTwice` | `OnceInv`: only collected records were evaluated. `InsertEvent` needs to know that an evaluated record without a row was purged. |
| `CollectorProofs!WatermarkSound` | `WatermarkCovers` | `CoverInv`: what the watermark has passed is collected or behind (`Covers`); during a poll, which goes on from where the watermark is, the same of whatever the poll is `Past`, unless it is still in the batch (`PollCovers`). Only through `Past` does a poll promise anything of a record that is logged while it runs. For every order of timestamps. |
| `CollectorProofs!OnlyTiesBehind` | | For `Order # "late"`: what is in `behind` carries the timestamp of an earlier record of its channel. `TieInv`: logs are `Sorted`; the collector is `Past` no time that no record has reached (`TimesLogged`); what is behind is `Tied`. |
| `CollectorProofs!NoneBehind` | | For `Order = "increasing"`: `behind` is empty, and `WatermarkCovers` has no exception. |
| `CollectorProofs!OneLostPerCrash` | `OneGapPerCrash` | `GapInv`: the records stored, not evaluated and not in hand are at most as many as the crashes. Counting the one in hand would make the bound fail between `InsertEvent` and `EvaluateEvent`. |
| `ResponseProofs!TypeCorrect` | `TypeOK` | with `TargetsPublic`: whoever is adding rules is doing so for an address that passed `is_blockable_ip`. |
| `ResponseProofs!ListedAreBlocked` | `ListedIsBlocked` | `ListedInv`, with `Added`: a client past a netsh run has added that direction unless an unblock has been there since. Holds under any interleaving, because adding is monotone. |
| `ResponseProofs!SuccessesAreReal` | `SuccessIsReal` | `AloneInv` (a call that is still alone is the only one for its address) and `DoneSoFar` (what such a call has done to the rules of its address so far). Calls for other addresses leave those rules as they are. |
| `ResponseProofs!TableMatches` | `TableMatchesFirewall` | and `MatchInv`: on an address nothing went wrong for, every call is alone, and table and firewall agree unless one is halfway through. |
| `AlertingProofs!TypeCorrect` | `TypeOK` | itself: retention runs only between polls, so the event in hand stays stored. |
| `AlertingProofs!FlaggedOnce` | `OncePerActor` | `RefInv`: an alert whose `ref` is stored was raised for that event, because ids are never handed out again. Only so does the second query find the earlier flag of the same actor. |
| `AlertingProofs!BurstsAreFlagged` | `BurstIsFlagged` | For `MinSignals > 0`. `CountInv`: ids identify alerts and there are no more alerts than ids, so that "nothing purged" means that each alert ever stored is there; `CheckInv`: the alert a check is about is the newest and of the time it is called with. With `MinSignals = 0` even an actor nobody knows would count as a burst, and `check` returns early for it. |
| `AlertingProofs!FlagHasOneActor` | `FlagsOneActor` | `RefInv`. For a flag whose own event holds no placeholder, whatever the others hold: what such an event shares with another is a user or a source that was there. |
| `SlidingWindowProofs!TypeCorrect` | `TypeOK` | itself: an event is in the window that ends with it, so trimming never empties its deque. |
| `SlidingWindowProofs!Implements` | `DetectsBursts` | `IInv`: `TypeOK`; `PlacesInv`, by which each deque is a stretch of its source's history, entry by entry (`Traces`), that holds at least what must be remembered (`Covers`); and `AlertInv`, by which `last_alert` has every alert in the window of the newest event and no other time than that of an alert. Trimming drops entries from the left that are older than the window of an event, and so than that of the newest; the sweep drops a deque whose last entry is. Then each step of the detailed specification is a step of `BurstDetector` or a stutter. |
| `SlidingWindowProofs!InOrderIsExact` | | For an event as new as any, of a source whose events came in order. The promise then has one answer. |
| `SlidingWindowProofs!Tracked` | `TrackedRecently` | `IInv`: what a deque ends with, and what `last_alert` notes, are events of the history. |
| `ConnectionsProofs!TypeCorrect` | `TypeOK` | `TypeInv`: a pinned snapshot is a state of the database, no newer than the committed one. |
| `ConnectionsProofs!MarkCovered` | `MarkIsStored` | `StoredInv`: the marks pinned snapshots show are of stored events, too, and a collector in a batch has stored, or found stored, everything before its next record. The last is what lets a collector overwrite the other's watermark. |
| `ConnectionsProofs!LockReleased` | `SleepsWithoutLock` | `LockInv`: what is stored ends before the first unparsable record; a collector that holds the lock in a transaction reads the newest state and its batch has records beyond the watermark, so that the batch's end commits. |
| `MaintenanceProofs!TypeCorrect` | `TypeOK` | with `age` as a function into the naturals. |
| `MaintenanceProofs!FindingsFresh` | `FindingsFollowScan` | `ScanInv`: a scan about to be marked has stored its findings, or a Scan Now has overwritten them with those it took up to a tick before. |
| `MaintenanceProofs!IndicatorsBridged` | `IndicatorsAreSeen` | an action property, from `FeedInv` (a due refresh runs in the cycle that finds it due, before the next tick, unless the feed lapsed) and `UnknownInv` (the age of an unknown indicator is at most an interval for each failed refresh and the time since the last one). |
| `RulesProofs!TypeCorrect` | `TypeOK` | itself. |
| `RulesProofs!NoneMissed` | `NothingMissed` | For `DefaultLogonId`. `PassedInv`: what the rules the loop has been through were to alert on is stored or was lost; `IdleInv`: nothing is left over from the record before. Rests on `DocumentedIsDecided` (each row of the table of detections, row by row, is a verdict of its rule, which then does not raise) and `OneVerdict` (a rule has one verdict for an event). |
| `RulesProofs!NoneInvented` | `NothingInvented` | For `DefaultLogonId`. The property and `IdleInv`; rests on `DecidedIsDocumented`, the converse with the two exceptions, and `ProbedFromOutside`. |
| `RulesProofs!LinkedByDoer` | `ActorIsDoer` | For `DefaultLogonId`, `DefaultFailedId` and `TargetsAsLogged`. `AlertedInv`: an alert is about an event one of the rules looks for. |
| `InterfaceProofs!StartsFromNewest` | `NewestOrDefault` | `FileInv`: a file holds what was last written in full, or is torn, and after a start the app runs on what it loaded. |
| `InterfaceProofs!SavesHold` | `SavedSurvives` | `SaveInv`: a save in progress has put its settings on disk file by file; `ShapeInv`, with `Applied`: the live fields `Configure` has been through have their new values. |
| `InterfaceProofs!JudgedInForce` | `JudgedBySettingsInForce` | `JudgeInv`: the fields read so far are of settings in `span` (`ReadsInForce`), and each live field is that of the settings applied or of those being applied, all of which are in `span` once something was read (`LiveInForce`). |
| `InterfaceProofs!PageTypeCorrect` | `TypeOK` of Polling | `PageInv`: a task is idle or one run of its function (`Job`) with an answer of the kind its request has, of rows that exist (`AnswerInv`); the flag is up exactly while there is a poll, of which there is never a second (`PollInv`); drawn rows have ids that were given to alerts (`RowsInv`). That they are still in the database is not so until the next refresh. |
| `InterfaceProofs!AnnouncedAtMostOnce` | `AnnouncedOnce` | `AnnounceInv`: whatever was announced has been seen and was not on the page's first table; nothing is seen before the first table is drawn. Without the last, a row drawn first could have been seen already. Holds for any number of overlapping refreshes and answers in any order. For the overview also `OverviewInv`: the first table was the newest rows of a table (`Cut`) no later than any answer under way (`Recent`), so that a row of such an answer is on it or newer, whatever was deleted between. |
| `InterfaceProofs!OverviewNeverGoesBack` | `NeverGoesBack` | an action property, from `OverviewInv`: the overview's only tasks are polls with the one filter it has; what is shown is no later than any answer under way, and that no later than the database. With `PollInv` there is one answer at a time, so that drawing it keeps this. |

What the hypotheses say of the code:

* Windows does not promise any `Order`. `WatermarkSound` holds for every one, and says
  which records the strict query may miss; the two theorems after it say how few these are
  when timestamps never step back (`Order # "late"`) or always grow.
* `DefaultLogonId`, `DefaultFailedId`: the ids of a successful and a failed logon are
  those of `config.yaml`. They can be edited there but not in the Settings tab, and the
  table of detections names the default.
* `TargetsAsLogged`: which Windows events carry a `TargetUserName`; it is a fact of
  Windows, not of the code.
* The assumptions of Rules say what a record is: hours and masks are numbers; a record of
  another channel that happens to have one of Sysmon's ids names no process image (the
  rules look at the id alone, the table says Sysmon); no workstation is called by an
  address of the feed (`normalize_event` takes the workstation for the source when there
  is no address).
* `PageAssumption`: at least one task can run, a page shows at least one row, and "all
  severities" is one of the filters; `dashboard.js` and `app.py` fix all three.
* The assumptions of Configuration say that a file that is missing or cut off is no
  settings, and that the settings have all their fields.

Only model-checked:

* liveness (`CollectedOrExcused`, `UnblockSucceeds`, `TasksRun`, `FreedIsReclaimed`,
  `EventuallyStored`, `DisplayCatchesUp`, `StartsUnlessTorn`, `PageSettles`): it rests
  on fairness, and so on `ENABLED`, which the provers do not handle;
* the violations, which are counterexamples.

## Where code and documentation disagree

With a run that shows it:

1. *An event may be stored and never evaluated* (`collector_crash_gap`). The insert is
   committed before `evaluate_event`; after a crash in between, the next poll sees a
   duplicate and skips the engine. `siem/engine.py:3-5` says it is called for every
   event the collector stores. `OneGapPerCrash` bounds the loss.
2. *One unparsable record stops collection* (`collector_poison`). `normalize_event` is
   not inside a `try`; the cycle ends at the same record each time.
3. *A failed write freezes the desktop app's view* (`connections_frozen`). Nothing rolls
   back the transaction Python began, and the next `SELECT` fixes its snapshot.

Without a run; each is visible in the models, and the properties named are stated so
as to except it:

* The placeholder `-` that Windows writes for no address is stored as a source and links
  unrelated users: `correlation.py:47` turns only the empty string into no value, while
  `normalize.py:83` knows `-` (`FlagsOneActor` excepts a flag whose own event holds it).
* For events 4720 and 4732 the stored user is the new account and the group, not who
  created or added it, so the chain from a logon to a new account that the README gives
  as an example is not linked by the user. Sysmon and PowerShell records have neither
  user nor source for `correlation.check` to link by (`ActorIsDoer`).
* `-Encoding`, and `-e` between spaces anywhere, count as an encoded command; business
  hours that end after midnight make every logon one outside of them
  (`NothingInvented`).
* A change of theme drops the advice to restart for a new poll interval
  (`SavedSurvives`). A negative interval is accepted; at the next start `time.sleep`
  raises outside the `try` of `run_forever`, and the collector thread ends without a word.
* A save that fails has changed the live dictionary already: retention and the feed read
  it, the rules do not (`JudgedBySettingsInForce` is about what is judged). A save that
  is cut off leaves an empty file, and the next start takes `config.yaml`'s settings
  (`NewestOrDefault`).
* A `config.yaml` or a database that was cut off on the first start, or while it was
  migrated, is never repaired, and the app may not start again (`StartsUnlessTorn`).
* `run_collector.py` reads no `user_settings.yaml`: the same database is judged by other
  settings than those of the window when it runs instead of the app.
* "One refresh at a time" (`dashboard.js:654`) holds for polls; a change of filter
  starts its own, and for a moment the older answer may be on the screen. On the alerts
  page an alert beyond the limit of the first table is announced as new when the filter
  reaches it (`AnnouncedOnce` says more of the overview alone).
* A page shows an alert that retention has deleted until its next refresh; a block asked
  for on such a row answers 400 (`ApiBlock`).
* After a restart of the server its pages are refused (a new token), yet their pill says
  that the server cannot be reached and is being retried; only the new link helps
  (`Reachable`).
* Two records with one timestamp, or one that appears with an older timestamp, can be
  missed by the strict watermark query (`behind` in `WatermarkCovers` and in `Excused`).
* A channel without a watermark is queried from the lookback before *now* at every
  poll, so what is logged while the collector is down for longer than that, before
  the channel's first event was collected, is not collected (`origin` in
  `WatermarkCovers`, `Excused` in `CollectedOrExcused`).
* The back-off is capped at 300 s even if the poll interval is longer.
* A duplicate followed by an unparsable record makes the collector sleep with an open
  write transaction (`SleepsWithoutLock`).
* When the second netsh run of a block fails, the first rule stays and no list shows
  it. Overlapping block and unblock calls for one address can leave table and firewall
  apart on it (`TableMatchesFirewall` and `SuccessIsReal` except these).
* After a crash between deleting the rules and the row, or a netsh that is killed
  with its effect done, unblocking fails for ever: netsh finds no rule, and the row is
  removed only after netsh succeeds. Blocking answers "already blocked"
  (`UnblockSucceeds` allows only refusals).
* The counting rules note the time of an alert before storing it, so one that cannot
  be stored silences its source for a window (`DetectsBursts` takes an alert that was
  noted for one); saving the settings resets their memory, so a burst under way is
  alerted on again (`DetectsBursts` is per rule object).
* The deques of the counting rules are in the order in which events came, not in that of
  time. After a record with an earlier timestamp, entries trimmed before are missed and
  entries older than the window may be counted, as `popleft` stops at the first one in
  it; and the sweep, which looks at the last entry alone, may forget a source that was
  active in the window (`BurstDetector` names what must and what may be counted).
* Once retention has deleted the event of a correlated alert its actor may be flagged
  again inside the window (`OncePerActor` is about alerts whose event is stored).
* After a VACUUM that failed, the next purge finds nothing to delete, skips VACUUM
  and is marked done; the space is reclaimed with the next purge that deletes something
  (`FreedIsReclaimed`). A VACUUM that fails in every cycle keeps the two later tasks from
  running (`TasksRun` assumes that failures stop).
* A failed refresh of the feed is marked done and tried again only after an interval
  (`IndicatorsAreSeen` counts them). `refresh` says it never raises, but
  errors of `http.client` other than `URLError` leave it, and skip the posture scan.
* When `netstat` cannot be run the findings are replaced by none, and the status reads
  "Never scanned." (`NoPorts` in `FindingsFollowScan`).

## Not modelled

* `is_blockable_ip` and the parsing in `posture.py`, `threat_intel.py` and
  `audit_policy.py`: pure functions of their input, whose result is a parameter or
  arbitrary where a model depends on it. Strings are abstracted to what is looked for
  in them.
* The notifier: best effort, catches every exception, and apart from the flag that its
  icon could not be made keeps no state; nothing reads it back. Logging: likewise.
* File ownership, links and permissions (`secure_directory`, `file_security.py`) beyond
  the fact that securing the directory may fail and ends the start; the origin check and
  the headers of the dashboard.
* Charts, widgets, themes and time zones, and the queries behind the charts.
* The whole pipeline, from a record to a correlated alert, as one module: the modules
  meet at `evaluate_event` and `raise_alert`, and none shares more with the next than
  the row it hands over.
* Widths of integers: Python's do not overflow, and SQLite's row ids are 64 bits.

## Plan

Modelled and checked: Collector, Response, Alerting, BurstDetector/SlidingWindow,
Connections, Maintenance, Rules, Configuration, Polling. Proved: every safety property
of all of them, and that SlidingWindow implements BurstDetector. What is left is to show
**Maintenance** to be a refinement of the step `Maintain` of Collector.
