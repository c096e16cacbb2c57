------------------------------ MODULE Collector ------------------------------
(***************************************************************************)
(* The collector of pysentinel-siem (siem/collector.py with the parts of   *)
(* siem/storage.py it calls): it polls the configured Windows Event Log    *)
(* channels in turn, stores each new event once, hands it to the detection *)
(* engine, and moves a per-channel watermark over what it has collected.   *)
(*                                                                         *)
(* One action per step between which another process, a failure or a crash *)
(* can come: the channel query, each insert (a commit of its own), each    *)
(* call of the engine, the watermark update, the maintenance call, the     *)
(* sleep.  A record is <<channel, record id>>; the record id is the place  *)
(* of the record in the channel's log.                                     *)
(***************************************************************************)
EXTENDS Integers, Sequences, FiniteSets

CONSTANTS
    Channels,      \* the configured channels, in the order they are polled
    Order,         \* how timestamps follow record ids in a channel's log
    Renderings,    \* {TRUE}, or BOOLEAN when some records cannot be parsed
    Lookback,      \* INITIAL_LOOKBACK, in clock ticks
    Retention,     \* retention.events_days, in clock ticks
    PollInterval,  \* poll_interval_seconds
    BackoffAfter,  \* consecutive failures before the delay grows (5)
    BackoffCap,    \* the longest delay after failures (300)
    MaxTime, MaxRecords, MaxLogged,  \* bounds of the environment: ticks, records
                                     \* in one channel, and in all
    MaxCrashes, MaxStorageErrors, MaxFailures  \* bounds of failures

ChannelSet == {Channels[i] : i \in 1..Len(Channels)}
Record == ChannelSet \X (1..MaxRecords)
NotPolled == -1

ASSUME ChannelsAssumption == /\ Channels \in Seq(ChannelSet)
                             /\ Len(Channels) > 0
ASSUME OrderAssumption == Order \in {"increasing", "ties", "late"}
ASSUME RenderingsAssumption == Renderings \subseteq BOOLEAN
ASSUME NumbersAssumption ==
    /\ {Lookback, Retention, PollInterval, BackoffCap, MaxTime} \subseteq Nat
    /\ {MaxRecords, MaxLogged, MaxCrashes, MaxStorageErrors, MaxFailures} \subseteq Nat
    /\ BackoffAfter \in Nat

VARIABLES
    \* the environment
    now,        \* the wall clock
    log,        \* log[c]: the Windows Event Log of channel c
    \* the database
    rows,       \* the events table: the records stored
    mark,       \* channel_state: the watermark of each channel, 0 for no row
    \* the collector process
    pc, ci,     \* where the loop is, and the index of the channel polled
    since,      \* since_ts of the poll in progress
    newest,     \* newest_ts of the poll in progress
    batch,      \* the record ids fetched and not yet handled
    cur,        \* the record id handed to the engine
    failures,   \* consecutive_failures
    nap,        \* the delay the collector last chose to sleep
    \* counters of failures, to bound them
    crashes, storageErrors,
    \* history
    evaluated,  \* records the engine has been given
    purged,     \* records retention has deleted
    start,      \* start[c]: since_ts of the first answered poll of c
    origin,     \* origin[c]: since_ts of the last poll of c without a watermark
    behind      \* the records logged when the collector was past their timestamp

env      == <<now, log, behind>>
database == <<rows, mark>>
process  == <<pc, ci, since, newest, batch, cur, failures, nap>>
faults   == <<crashes, storageErrors>>
history  == <<evaluated, purged, start, origin>>
vars     == <<env, database, process, faults, history>>

Chan == Channels[ci]
TsOf(e) == log[e[1]][e[2]].ts
Logged == {e \in Record : e[2] <= Len(log[e[1]])}
Collected == rows \cup purged
Current == <<Chan, cur>>

Init ==
    /\ now = 1
    /\ log = [c \in ChannelSet |-> <<>>]
    /\ rows = {} /\ mark = [c \in ChannelSet |-> 0]
    /\ pc = "poll" /\ ci = 1
    /\ since = 0 /\ newest = 0 /\ batch = {} /\ cur = 1
    /\ failures = 0 /\ nap = 0
    /\ crashes = 0 /\ storageErrors = 0
    /\ evaluated = {} /\ purged = {} /\ behind = {}
    /\ start = [c \in ChannelSet |-> NotPolled]
    /\ origin = [c \in ChannelSet |-> NotPolled]

-----------------------------------------------------------------------------
(* The environment: the clock and the Windows Event Log service. *)

Tick ==
    /\ now < MaxTime
    /\ now' = now + 1
    /\ UNCHANGED <<log, behind, database, process, faults, history>>

\* The timestamps a record appended to channel c may carry.  A record becomes
\* visible some time after its timestamp was taken, so ts may lie before now.
LastTs(c) == IF Len(log[c]) = 0 THEN 0 ELSE log[c][Len(log[c])].ts

InOrder(c, ts) == CASE Order = "increasing" -> ts > LastTs(c)
                    [] Order = "ties"       -> ts >= LastTs(c)
                    [] Order = "late"       -> TRUE

\* The collector is past time ts in channel c: by its watermark or, while it polls c,
\* by a record the query has returned.
Past(c, ts) ==
    \/ ts <= mark[c]
    \/ c = Chan /\ \/ newest # since /\ ts <= newest
                   \/ \E r \in batch : ts <= log[c][r].ts
                   \/ pc = "evaluate" /\ ts <= log[c][cur].ts

EventLogged(c) ==
    /\ Len(log[c]) < MaxRecords /\ Cardinality(Logged) < MaxLogged
    /\ \E ts \in 1..now, ok \in Renderings :
          /\ InOrder(c, ts)
          /\ log' = [log EXCEPT ![c] = Append(@, [ts |-> ts, ok |-> ok])]
          /\ behind' = IF Past(c, ts) THEN behind \cup {<<c, Len(log[c]) + 1>>} ELSE behind
    /\ UNCHANGED <<now, database, process, faults, history>>

-----------------------------------------------------------------------------
(* The end of a channel's poll, and of a cycle. *)

\* The locals of poll_once's loop end with it, however it ends.
ForgetPoll == since' = 0 /\ newest' = 0 /\ cur' = 1

\* Mutant: the index is not reset at the end of the channel list.
ToNextWithoutReset ==
    /\ pc' = IF ci < Len(Channels) THEN "poll" ELSE "maintain"
    /\ ci' = ci + 1
    /\ ForgetPoll

ToNextChannel ==
    /\ pc' = IF ci < Len(Channels) THEN "poll" ELSE "maintain"
    /\ ci' = IF ci < Len(Channels) THEN ci + 1 ELSE 1
    /\ ForgetPoll

\* The delay run_forever chooses after f consecutive failures.
Delay(f) ==
    IF f >= BackoffAfter /\ PollInterval * f > BackoffCap THEN BackoffCap
    ELSE IF f >= BackoffAfter THEN PollInterval * f
    ELSE PollInterval

\* The cycle ends, in f consecutive failures, and the collector goes to sleep.
EndCycle(f) ==
    /\ pc' = "sleep" /\ ci' = 1 /\ batch' = {}
    /\ failures' = f /\ nap' = Delay(f)
    /\ ForgetPoll

\* An exception reaches run_forever: the rest of the cycle is skipped.
\* MaxFailures caps the counter.
CycleFails ==
    EndCycle(IF failures < MaxFailures THEN failures + 1 ELSE failures)

-----------------------------------------------------------------------------
(* poll_once *)

SinceTs(c) ==
    IF mark[c] # 0 THEN mark[c]
    ELSE IF now > Lookback THEN now - Lookback ELSE 0

\* get_last_ts and the query: everything newer than since_ts, strictly.
FetchNewEvents(c) ==
    /\ pc = "poll" /\ c = Chan
    /\ since' = SinceTs(c)
    /\ newest' = SinceTs(c)
    /\ batch' = {r \in 1..Len(log[c]) : log[c][r].ts > SinceTs(c)}
    /\ pc' = "insert"
    /\ start' = [start EXCEPT ![c] = IF @ = NotPolled THEN SinceTs(c) ELSE @]
    /\ origin' = [origin EXCEPT ![c] = IF mark[c] = 0 THEN SinceTs(c) ELSE @]
    /\ UNCHANGED <<ci, cur, failures, nap, evaluated, purged>>
    /\ UNCHANGED <<env, database, faults>>

\* A pywintypes.error of the query is logged and the channel passed over.
QueryFails ==
    /\ pc = "poll"
    /\ ToNextChannel
    /\ UNCHANGED <<batch, failures, nap>>
    /\ UNCHANGED <<env, database, faults, history>>

\* r is the oldest record of the batch: the query runs forward.
Oldest(r) == r \in batch /\ \A q \in batch : r <= q

\* Mutant: the watermark follows the wall clock.
NewerByClock(ts) == now

Newer(ts) == IF ts > newest THEN ts ELSE newest

\* normalize_event raises on a record it cannot parse.
NormalizeFails(r) ==
    /\ pc = "insert" /\ Oldest(r) /\ ~log[Chan][r].ok
    /\ CycleFails
    /\ UNCHANGED <<env, database, faults, history>>

\* insert_event stores and commits a record that is new.
InsertEvent(r) ==
    /\ pc = "insert" /\ Oldest(r) /\ log[Chan][r].ok
    /\ <<Chan, r>> \notin rows
    /\ rows' = rows \cup {<<Chan, r>>}
    /\ batch' = batch \ {r}
    /\ cur' = r
    /\ pc' = "evaluate"
    /\ UNCHANGED <<mark, ci, since, newest, failures, nap>>
    /\ UNCHANGED <<env, faults, history>>

\* Mutant: a record already stored is handed to the engine again.
EvaluateDuplicate(r) ==
    /\ pc = "insert" /\ Oldest(r) /\ log[Chan][r].ok
    /\ <<Chan, r>> \in rows
    /\ batch' = batch \ {r}
    /\ cur' = r
    /\ pc' = "evaluate"
    /\ UNCHANGED <<rows, mark, ci, since, newest, failures, nap>>
    /\ UNCHANGED <<env, faults, history>>

\* insert_event meets the UNIQUE constraint: it returns None.  (The transaction
\* it leaves open is the subject of Connections.)
InsertDuplicate(r) ==
    /\ pc = "insert" /\ Oldest(r) /\ log[Chan][r].ok
    /\ <<Chan, r>> \in rows
    /\ batch' = batch \ {r}
    /\ newest' = Newer(log[Chan][r].ts)
    /\ UNCHANGED <<rows, mark, pc, ci, since, cur, failures, nap>>
    /\ UNCHANGED <<env, faults, history>>

\* engine.evaluate_event; the exceptions of the rules do not leave it.
EvaluateEvent ==
    /\ pc = "evaluate"
    /\ evaluated' = evaluated \cup {Current}
    /\ newest' = Newer(log[Chan][cur].ts)
    /\ pc' = "insert"
    /\ UNCHANGED <<ci, since, batch, cur, failures, nap, purged, start, origin>>
    /\ UNCHANGED <<env, database, faults>>

\* The batch is done: set_last_ts, when there is something newer, commits.
AdvanceWatermark ==
    /\ pc = "insert" /\ batch = {}
    /\ mark' = [mark EXCEPT ![Chan] = IF newest # since THEN newest ELSE @]
    /\ ToNextChannel
    /\ UNCHANGED <<rows, batch, failures, nap>>
    /\ UNCHANGED <<env, faults, history>>

\* Mutant: an exception inside the engine leaves evaluate_event.
AtStatementOrRule == pc \in {"poll", "insert", "evaluate"}

\* Where an exception of the storage layer leaves poll_once; one raised inside
\* a rule, at pc = "evaluate", is caught by evaluate_event.
AtStatement == pc \in {"poll", "insert"}

\* A statement of poll_once raises (the database stays locked for longer than
\* the connection's timeout, the disk is full).
StorageFails ==
    /\ AtStatement
    /\ storageErrors < MaxStorageErrors
    /\ storageErrors' = storageErrors + 1
    /\ CycleFails
    /\ UNCHANGED <<crashes>>
    /\ UNCHANGED <<env, database, history>>

-----------------------------------------------------------------------------
(* run_forever *)

Expired == {e \in rows : TsOf(e) + Retention < now}

\* run_periodic_tasks returns; the retention purge was due, or was not.
Maintain ==
    /\ pc = "maintain"
    /\ \/ /\ rows' = rows \ Expired
          /\ purged' = purged \cup Expired
       \/ UNCHANGED <<rows, purged>>
    /\ EndCycle(0)
    /\ UNCHANGED <<mark, evaluated, start, origin>>
    /\ UNCHANGED <<env, faults>>

\* run_periodic_tasks raises, before the purge or after it has committed.
MaintenanceFails ==
    /\ pc = "maintain"
    /\ \/ /\ rows' = rows \ Expired
          /\ purged' = purged \cup Expired
       \/ UNCHANGED <<rows, purged>>
    /\ CycleFails
    /\ UNCHANGED <<mark, evaluated, start, origin>>
    /\ UNCHANGED <<env, faults>>

WakeUp ==
    /\ pc = "sleep"
    /\ pc' = "poll"
    /\ UNCHANGED <<ci, since, newest, batch, cur, failures, nap>>
    /\ UNCHANGED <<env, database, faults, history>>

\* The process ends, at any point.
Crash ==
    /\ pc # "down" /\ crashes < MaxCrashes
    /\ crashes' = crashes + 1
    /\ pc' = "down" /\ ci' = 1 /\ batch' = {}
    /\ failures' = 0 /\ nap' = 0
    /\ ForgetPoll
    /\ UNCHANGED <<rows, mark, storageErrors>>
    /\ UNCHANGED <<env, history>>

Restart ==
    /\ pc = "down"
    /\ pc' = "poll"
    /\ UNCHANGED <<ci, since, newest, batch, cur, failures, nap>>
    /\ UNCHANGED <<env, database, faults, history>>

-----------------------------------------------------------------------------
Environment == Tick \/ \E c \in ChannelSet : EventLogged(c)

PollOnce ==
    \/ \E c \in ChannelSet : FetchNewEvents(c)
    \/ QueryFails
    \/ \E r \in batch : \/ NormalizeFails(r)
                        \/ InsertEvent(r)
                        \/ InsertDuplicate(r)
    \/ EvaluateEvent
    \/ AdvanceWatermark
    \/ StorageFails

RunForever == Maintain \/ MaintenanceFails \/ WakeUp

Next == Environment \/ PollOnce \/ RunForever \/ Crash \/ Restart

Spec == Init /\ [][Next]_vars

\* The collector takes its next step when it has one, and is started again
\* after a crash.  A channel queried again and again is in the end answered;
\* nothing is assumed of the log, the clock, or the maintenance tasks.
Fairness ==
    /\ WF_vars(PollOnce)
    /\ WF_vars(RunForever)
    /\ WF_vars(Restart)
    /\ \A c \in ChannelSet : SF_vars(FetchNewEvents(c))

FairSpec == Spec /\ Fairness

-----------------------------------------------------------------------------
(* Properties *)

\* Every variable stays in its type.
TypeOK ==
    /\ now \in 1..MaxTime \cup {1}
    /\ log \in [ChannelSet -> Seq([ts : Nat \ {0}, ok : BOOLEAN])]
    /\ \A c \in ChannelSet : Len(log[c]) <= MaxRecords
    /\ rows \subseteq Logged
    /\ mark \in [ChannelSet -> Nat]
    /\ pc \in {"poll", "insert", "evaluate", "maintain", "sleep", "down"}
    /\ ci \in 1..Len(Channels)
    /\ since \in Nat /\ newest \in Nat
    /\ batch \subseteq 1..Len(log[Chan])
    /\ cur \in Nat
    /\ failures \in Nat /\ nap \in Nat
    /\ crashes \in 0..MaxCrashes /\ storageErrors \in 0..MaxStorageErrors
    /\ evaluated \subseteq Logged
    /\ purged \subseteq Logged /\ behind \subseteq Logged
    /\ start \in [ChannelSet -> Nat \cup {NotPolled}]
    /\ origin \in [ChannelSet -> Nat \cup {NotPolled}]

\* The watermark never passes an event that was not stored: once a channel has
\* a watermark, every record newer than the since_ts that channel was first
\* collected from, and not newer than its watermark, was stored -- across
\* failed queries, aborted cycles and crashes, and whatever the order of the
\* timestamps (poll_once's newest_ts logic).  Only a record that became visible when
\* its timestamp had been passed already is out of the strict query's reach.
WatermarkCovers ==
    \A e \in Logged \ behind :
        /\ mark[e[1]] # 0
        /\ origin[e[1]] < TsOf(e)
        /\ TsOf(e) <= mark[e[1]]
        => e \in Collected

\* The engine is never given a record a second time, unless retention deleted
\* its row in between (insert_event's dedupe key, after an aborted cycle or a
\* crash made the collector fetch the record again).
NotEvaluatedTwice ==
    pc = "evaluate" /\ Current \in evaluated => Current \in purged

\* Only a crash comes between an event and the engine, and it costs one event:
\* queries, statements and maintenance that fail, records that cannot be parsed
\* and the rules' own exceptions lose none (poll_once's insert and evaluate).
OneGapPerCrash ==
    Cardinality(Collected \ (evaluated \cup IF pc = "evaluate" THEN {Current} ELSE {}))
        <= crashes

\* Every stored event the watermark has passed, and that will therefore not be
\* fetched again, was given to the engine (siem/engine.py: evaluate_event is
\* called "for every event it stores").
StoredIsEvaluated ==
    \A e \in rows : TsOf(e) <= mark[e[1]] => e \in evaluated

\* Record r of channel c was logged after the collector began to collect c.
Due(c, r) ==
    /\ r \in DOMAIN log[c] /\ log[c][r].ok
    /\ start[c] # NotPolled /\ start[c] < log[c][r].ts

\* Detection does not go dark: a record that can be parsed, in a channel the
\* collector already polls, is in the end stored -- whatever happens to
\* maintenance, to queries that fail for a while, and over crashes.
EventuallyCollected ==
    \A c \in ChannelSet, r \in 1..MaxRecords : Due(c, r) ~> <<c, r>> \in Collected

\* A record is passed over only when some record cannot be parsed, when its
\* channel, still without a watermark, was polled again at a time from which the
\* lookback no longer reaches it, or when it was logged behind the collector.
Excused(c, r) ==
    \/ \E e \in Logged : ~log[e[1]][e[2]].ok
    \/ r \in DOMAIN log[c] /\ origin[c] >= log[c][r].ts
    \/ <<c, r>> \in behind

\* The same with the three exceptions this code has.
CollectedOrExcused ==
    \A c \in ChannelSet, r \in 1..MaxRecords :
        Due(c, r) ~> <<c, r>> \in Collected \/ Excused(c, r)
=============================================================================
