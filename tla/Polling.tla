------------------------------- MODULE Polling -------------------------------
(***************************************************************************)
(* The web dashboard: a page of the browser that refreshes itself every    *)
(* five seconds, the Flask server that answers it, the collector and the   *)
(* desktop app that change the database in between: alerts are raised and, *)
(* when they are too old, deleted by the retention purge.                  *)
(*                                                                         *)
(* A task is one run of an async function of dashboard.js: a sequence of   *)
(* requests, each sent when the answer to the one before is delivered.  A  *)
(* request is answered from the database as it is then, and delivered      *)
(* later, so that the requests of different tasks overtake one another.    *)
(***************************************************************************)
EXTENDS Integers, Sequences, FiniteSets

CONSTANTS
    Arriving,    \* the alerts the collector may raise: severity and source IP
    NoSource,    \* the source of an alert whose event has none
    Filters,     \* what the severity filter may select, All among them
    All,
    Limit,       \* rows asked for: limit=15 on the overview, 200 on the alerts page
    NoReply, Failed, Drawn,
    MaxTasks, MaxAlerts, MaxActs, MaxTroubles     \* bounds

ASSUME PageAssumption ==
    /\ {MaxTasks, Limit, MaxAlerts} \subseteq Nat \ {0}
    /\ {MaxActs, MaxTroubles} \subseteq Nat
    /\ All \in Filters

VARIABLES
    alerts, purged, blocked,  \* the database: the alerts ever stored, by row id, how
                              \* many of them (the oldest) were deleted, blocked IPs
    up, token,                \* the server: whether it runs, and its access token
    cookie,                   \* the token the browser offers
    page, hidden, filter,     \* the open page, its tab, its severity filter
    running, tasks,           \* startPolling's flag, and the async calls under way
    rendered, seen,           \* dataset.rendered and seenRowIds of the alerts table
    shown, stats, listed,     \* the alerts table, the totals, the blocked IPs table
    pill,                     \* the Live pill
    acts, troubles,           \* counters for the bounds
    first, marked             \* history: the rows of the first render, and how often
                              \* each alert was announced as new (highlight or toast)

database == <<alerts, purged, blocked>>
server == <<up, token, cookie>>
window == <<page, hidden, filter>>
tables == <<rendered, seen, shown, stats, listed, first, marked>>
bounds == <<acts, troubles>>
pageVars == <<database, server, window, running, tasks, tables, pill, bounds>>

Ids == 1..MaxAlerts
Slots == 1..MaxTasks
Pages == {"overview", "alerts"}
Sources == {a.source : a \in Arriving} \ {NoSource}
Kinds == {"poll", "change", "list", "block", "unblock"}

Idle == [kind |-> "idle"]

(***************************************************************************)
(* The database and the server                                             *)
(***************************************************************************)
\* What the purge left, an id being never used again (AUTOINCREMENT).
Stored == purged + 1..Len(alerts)

\* History: how often alerts were added or deleted, by which an answer is dated.
Version == Len(alerts) + purged

Selected(f) == {i \in Stored : f \in {All, alerts[i].severity}}

\* get_recent_alerts: the newest Limit rows of the severity.
Newest(f) == {i \in Selected(f) : Cardinality({j \in Selected(f) : j > i}) < Limit}

Table(f) == [asked |-> f, rows |-> Newest(f), asof |-> Version]

High == {i \in Stored : alerts[i].severity = "high"}

Totals == [alerts |-> Cardinality(Stored), high |-> Cardinality(High), asof |-> Version]

\* _require_access: the token is drawn anew by each start of the server.
Reachable == up /\ cookie = token

(***************************************************************************)
(* The async functions of the page                                         *)
(***************************************************************************)
\* refreshDashboardPage and refreshAlertsPage, refreshBlockedIps,
\* blockAlertSourceIp and unblockIp.
Requests(kind) ==
    CASE kind \in {"poll", "change"} /\ page = "alerts" -> <<"alerts", "blocked-ips">>
      [] kind \in {"poll", "change"} /\ page = "overview" ->
            <<"stats", "events-over-time", "top-event-ids", "alerts", "events">>
      [] kind = "list" -> <<"blocked-ips">>
      [] OTHER -> <<kind>>

Request(t) == Requests(tasks[t].kind)[tasks[t].at]

Free == {t \in Slots : tasks[t] = Idle}
NextFree == CHOOSE t \in Free : TRUE      \* one is as good as another

Call(kind, asked) == [kind |-> kind, asked |-> asked, at |-> 1, reply |-> NoReply]

\* refreshAlertsPage reads the filter when it starts; the overview has none.
\* Mutant: it asks again for what the table shows.
AskedBefore == shown.asked
Asked == filter

\* tick.  Mutant: the flag is not looked at.
MayTickAnyway == ~hidden
MayTick == ~running /\ ~hidden

NoTable == [asked |-> All, rows |-> {}, asof |-> 0]
NothingDrawn == [alerts |-> 0, high |-> 0, asof |-> 0]
Unloaded == [t \in Slots |-> IF t = 1 THEN Call("poll", All) ELSE Idle]

PageInit ==
    /\ alerts \in {<<>>} \cup {<<a>> : a \in Arriving}
    /\ purged = 0 /\ blocked = {} /\ up = TRUE /\ token = 1 /\ cookie = 1
    /\ page \in Pages /\ hidden = FALSE /\ filter = All
    /\ running = TRUE /\ tasks = Unloaded
    /\ rendered = FALSE /\ seen = {} /\ shown = NoTable
    /\ stats = NothingDrawn /\ listed = {} /\ pill = TRUE
    /\ acts = 0 /\ troubles = 0
    /\ first = {} /\ marked = [i \in Ids |-> 0]

(***************************************************************************)
(* The server answers request t                                            *)
(***************************************************************************)
Reply(t, answer) == tasks' = [tasks EXCEPT ![t].reply = answer]

ApiAlerts(t) ==
    /\ Request(t) = "alerts"
    /\ Reply(t, Table(tasks[t].asked))
    /\ UNCHANGED blocked

ApiStats(t) == Request(t) = "stats" /\ Reply(t, Totals) /\ UNCHANGED blocked

ApiCharts(t) ==
    /\ Request(t) \in {"events-over-time", "top-event-ids", "events"}
    /\ Reply(t, Drawn) /\ UNCHANGED blocked

ApiBlockedIps(t) == Request(t) = "blocked-ips" /\ Reply(t, blocked) /\ UNCHANGED blocked

\* Response.tla has the steps of block_ip and unblock_ip; a refusal answers 400, and
\* so does an alert that was deleted meanwhile.
ApiBlock(t) ==
    /\ Request(t) = "block"
    /\ LET ip == alerts[tasks[t].asked].source IN
         \/ tasks[t].asked \in Stored /\ ip # NoSource
            /\ blocked' = blocked \cup {ip} /\ Reply(t, Drawn)
         \/ Reply(t, Failed) /\ UNCHANGED blocked

ApiUnblock(t) ==
    /\ Request(t) = "unblock"
    /\ \/ blocked' = blocked \ {tasks[t].asked} /\ Reply(t, Drawn)
       \/ Reply(t, Failed) /\ UNCHANGED blocked

Waiting(t) == tasks[t] # Idle /\ tasks[t].reply = NoReply
Frame == UNCHANGED <<alerts, purged, server, window, running, tables, pill, acts>>

Serve(t) ==
    /\ Waiting(t) /\ Reachable
    /\ \/ ApiAlerts(t) \/ ApiStats(t) \/ ApiCharts(t)
       \/ ApiBlockedIps(t) \/ ApiBlock(t) \/ ApiUnblock(t)
    /\ UNCHANGED troubles /\ Frame

\* Nobody listens, or the token is that of an earlier server (401).
Refuse(t) ==
    /\ Waiting(t) /\ ~Reachable
    /\ Reply(t, Failed)
    /\ UNCHANGED <<blocked, troubles>> /\ Frame

\* "database is locked" and the like (500).
ServerError(t) ==
    /\ Waiting(t) /\ Reachable /\ troubles < MaxTroubles
    /\ troubles' = troubles + 1
    /\ Reply(t, Failed)
    /\ UNCHANGED blocked /\ Frame

(***************************************************************************)
(* An answer is delivered to task t, which sends its next request or ends  *)
(***************************************************************************)
\* The rows renderAlertsTable announces.  Mutant: those that the table does not
\* show now.
UnseenNow(rows) == IF rendered THEN rows \ shown.rows ELSE {}
Unseen(rows) == IF rendered THEN rows \ seen ELSE {}

RenderAlerts(answer) ==
    /\ marked' = [i \in Ids |-> marked[i] + IF i \in Unseen(answer.rows) THEN 1 ELSE 0]
    /\ rendered' = TRUE /\ seen' = seen \cup answer.rows /\ shown' = answer
    /\ first' = IF rendered THEN first ELSE answer.rows
    /\ UNCHANGED <<stats, listed>>

Draw(t) ==
    LET answer == tasks[t].reply IN
    CASE Request(t) = "alerts" -> RenderAlerts(answer)
      [] Request(t) = "stats" ->
            stats' = answer /\ UNCHANGED <<rendered, seen, shown, listed, first, marked>>
      [] Request(t) = "blocked-ips" ->
            listed' = answer /\ UNCHANGED <<rendered, seen, shown, stats, first, marked>>
      [] OTHER -> UNCHANGED tables

\* Mutant: one request too many.
PastLast(t) == tasks[t].at > Len(Requests(tasks[t].kind))
IsLast(t) == tasks[t].at = Len(Requests(tasks[t].kind))

\* The pill and the flag when a task ends.
End(t, ok) ==
    /\ running' = IF tasks[t].kind = "poll" THEN FALSE ELSE running
    /\ pill' = CASE tasks[t].kind = "poll" -> ok
                 [] tasks[t].kind = "change" -> pill /\ ok
                 [] OTHER -> pill

Delivered(t) == tasks[t] # Idle /\ tasks[t].reply # NoReply

Continue(t) ==
    /\ Delivered(t) /\ tasks[t].reply # Failed /\ ~IsLast(t)
    /\ Draw(t)
    /\ tasks' = [tasks EXCEPT ![t].at = @ + 1, ![t].reply = NoReply]
    /\ UNCHANGED <<database, server, window, running, pill, bounds>>

\* A block or unblock that succeeded starts refreshBlockedIps and does not wait.
Finish(t) ==
    /\ Delivered(t) /\ tasks[t].reply # Failed /\ IsLast(t)
    /\ Draw(t) /\ End(t, TRUE)
    /\ tasks' = [tasks EXCEPT ![t] =
          IF tasks[t].kind \in {"block", "unblock"} THEN Call("list", All) ELSE Idle]
    /\ UNCHANGED <<database, server, window, bounds>>

\* fetchJSON throws; the rest of the task is skipped.
Throw(t) ==
    /\ Delivered(t) /\ tasks[t].reply = Failed
    /\ End(t, FALSE)
    /\ tasks' = [tasks EXCEPT ![t] = Idle]
    /\ UNCHANGED <<database, server, window, tables, bounds>>

(***************************************************************************)
(* The timer and the user                                                  *)
(***************************************************************************)
StartPoll == running' = TRUE /\ tasks' = [tasks EXCEPT ![NextFree] = Call("poll", Asked)]

Tick ==
    /\ MayTick /\ Free # {}
    /\ StartPoll
    /\ UNCHANGED <<database, server, window, tables, pill, bounds>>

Act == acts < MaxActs /\ acts' = acts + 1

Hide ==
    /\ Act /\ ~hidden
    /\ hidden' = TRUE
    /\ UNCHANGED <<database, server, page, filter, running, tasks, tables, pill, troubles>>

\* visibilitychange ticks at once.
Show ==
    /\ hidden /\ Free # {}
    /\ hidden' = FALSE
    /\ IF running THEN UNCHANGED <<running, tasks>> ELSE StartPoll
    /\ UNCHANGED <<database, server, page, filter, tables, pill, bounds>>

\* The change handler starts a refresh whether or not one is running.
ChangeFilter ==
    /\ Act /\ ~hidden /\ page = "alerts" /\ Free # {}
    /\ \E f \in Filters \ {filter} :
         /\ filter' = f
         /\ tasks' = [tasks EXCEPT ![NextFree] = Call("change", f)]
    /\ UNCHANGED <<database, server, page, hidden, running, tables, pill, troubles>>

Click ==
    /\ Act /\ ~hidden /\ page = "alerts" /\ Free # {}
    /\ \/ \E i \in shown.rows : tasks' = [tasks EXCEPT ![NextFree] = Call("block", i)]
       \/ \E ip \in listed : tasks' = [tasks EXCEPT ![NextFree] = Call("unblock", ip)]
    /\ UNCHANGED <<database, server, window, running, tables, pill, troubles>>

\* The link printed in the dashboard window: a new cookie, a page loaded afresh.
OpenLink ==
    /\ Act /\ up
    /\ cookie' = token
    /\ page' \in Pages /\ hidden' = FALSE /\ filter' = All
    /\ running' = TRUE /\ tasks' = Unloaded
    /\ rendered' = FALSE /\ seen' = {} /\ shown' = NoTable
    /\ stats' = NothingDrawn /\ listed' = {} /\ pill' = TRUE
    /\ first' = {} /\ marked' = [i \in Ids |-> 0]
    /\ UNCHANGED <<database, up, token, troubles>>

(***************************************************************************)
(* The server's process, the collector and the desktop app                 *)
(***************************************************************************)
Stop ==
    /\ up /\ troubles < MaxTroubles
    /\ troubles' = troubles + 1
    /\ up' = FALSE
    /\ UNCHANGED <<database, token, cookie, window, running, tasks, tables, pill, acts>>

Restart ==
    /\ ~up
    /\ up' = TRUE /\ token' = token + 1
    /\ UNCHANGED <<database, cookie, window, running, tasks, tables, pill, bounds>>

InsertAlert ==
    /\ Len(alerts) < MaxAlerts
    /\ \E a \in Arriving : alerts' = Append(alerts, a)
    /\ UNCHANGED <<purged, blocked, server, window, running, tasks, tables, pill, bounds>>

\* retention.purge: an alert is dated by when it was raised, so the oldest rows go.
PurgeAlerts ==
    /\ Act
    /\ \E n \in Stored : purged' = n
    /\ UNCHANGED <<alerts, blocked, server, window, running, tasks, tables, pill, troubles>>

BlockElsewhere ==
    /\ Act
    /\ \E ip \in Sources : blocked' = IF ip \in blocked THEN blocked \ {ip} ELSE blocked \cup {ip}
    /\ UNCHANGED <<alerts, purged, server, window, running, tasks, tables, pill, troubles>>

Answered(t) == Serve(t) \/ Refuse(t) \/ ServerError(t)
Resumed(t) == Continue(t) \/ Finish(t) \/ Throw(t)

PageNext ==
    \/ \E t \in Slots : Answered(t) \/ Resumed(t)
    \/ Tick \/ Hide \/ Show \/ ChangeFilter \/ Click \/ OpenLink
    \/ Stop \/ Restart \/ InsertAlert \/ PurgeAlerts \/ BlockElsewhere

\* The browser's timer and event loop run, and each request is answered or
\* fails.  Nothing makes the user, the server's process or the collector act.
Fairness ==
    /\ WF_pageVars(Tick)
    /\ \A t \in Slots : WF_pageVars(Answered(t)) /\ WF_pageVars(Resumed(t))

PageSpec == PageInit /\ [][PageNext]_pageVars /\ Fairness

(***************************************************************************)
(* Properties                                                              *)
(***************************************************************************)
\* Types; startPolling's flag is up exactly while a poll is under way.
TypeOK ==
    /\ alerts \in Seq(Arriving) /\ Len(alerts) <= MaxAlerts /\ purged \in 0..Len(alerts)
    /\ blocked \subseteq Sources /\ listed \subseteq Sources
    /\ {up, hidden, running, rendered, pill} \subseteq BOOLEAN
    /\ token \in 1..MaxTroubles + 1 /\ cookie \in 1..token
    /\ page \in Pages /\ filter \in Filters
    /\ \A t \in Slots \ Free : tasks[t].kind \in Kinds /\ tasks[t].at \in 1..Len(Requests(tasks[t].kind))
    /\ shown.asked \in Filters /\ marked \in [Ids -> Nat]
    /\ UNION {seen, shown.rows, first} \subseteq 1..Len(alerts)
    /\ Cardinality({t \in Slots \ Free : tasks[t].kind = "poll"}) = IF running THEN 1 ELSE 0

\* However refreshes overlap, the filter moves and the purge deletes, an alert is
\* announced at most once, and none of the first table the page drew; on the overview,
\* only one that is newer than all of those.  On the alerts page an older one, beyond
\* the limit of the first table, is announced when the filter reaches it, as
\* renderAlertsTable knows only the rows that it has drawn.
AnnouncedOnce ==
    \A i \in Ids :
        /\ marked[i] + (IF i \in first THEN 1 ELSE 0) <= 1
        /\ page = "overview" /\ marked[i] > 0 => \A j \in first : i > j

\* On the overview the tables never go back: no answer that is older than what is on
\* the screen is drawn over it ("one refresh at a time", startPolling).
NeverGoesBack ==
    [][page = "overview" /\ rendered' =>
          shown'.asof >= shown.asof /\ stats'.asof >= stats.asof]_pageVars

\* A page somebody looks at, of a server that answers.
Watching == ~hidden /\ Reachable

\* Left alone, a page that somebody looks at settles on the truth, in whatever order
\* the overlapping requests were answered and drawn: the alerts table on the newest
\* rows of the severity the filter shows, each of which was in the first table or has
\* been announced; the totals and the blocked IPs table on the database, whoever else
\* blocks, unblocks and deletes; and the pill on whether the server answers this browser.
PageSettles ==
    <>[](/\ Watching =>
               /\ shown = Table(filter)
               /\ \A i \in shown.rows : i \in first \/ marked[i] > 0
               /\ page = "alerts" => listed = blocked
               /\ page = "overview" => stats = Totals
         /\ ~hidden => pill = Reachable)
=============================================================================
