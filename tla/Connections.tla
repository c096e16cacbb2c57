------------------------------ MODULE Connections ------------------------------
(***************************************************************************)
(* The SQLite connections of the system on their shared database, in WAL   *)
(* mode (siem/storage.py: connect, and the statements of its functions).   *)
(* Each collector and each desktop window keeps one connection for its     *)
(* whole life; a request to the dashboard opens one of its own.            *)
(*                                                                         *)
(* Python's sqlite3 begins a transaction before a writing statement and    *)
(* only commit() ends it: storage.py never rolls back, so a statement that *)
(* raises leaves the transaction open.  A transaction sees the database    *)
(* as it was at its first read, and can write only while that is the       *)
(* latest state and no other connection holds the write lock.              *)
(***************************************************************************)
EXTENDS Naturals

CONSTANTS
    Collectors,   \* collectors on this database: threads or processes
    Windows,      \* the GUI threads of the desktop apps
    None,
    Unparsable,   \* the records normalize_event raises on
    SlowVacuum,   \* whether VACUUM may take longer than the 10 s timeout
    MaxRecords, MaxVersion, MaxRestarts   \* bounds

Conns == Collectors \cup Windows

ASSUME NoneAssumption == None \notin Conns
ASSUME DisjointAssumption == Collectors \cap Windows = {}
ASSUME RecordsAssumption == MaxRecords \in Nat /\ Unparsable \subseteq 1..MaxRecords
ASSUME BoundsAssumption == {MaxVersion, MaxRestarts} \subseteq Nat
ASSUME VacuumAssumption == SlowVacuum \in BOOLEAN

VARIABLES
    logged,     \* records in the channel's log, numbered from 1
    db,         \* what is committed: version counts commits, stored the
                \* events, mark is the watermark
    lock,       \* the connection that holds the write lock
    open,       \* open[x]: x is in a transaction (in_transaction)
    snap,       \* snap[x]: the state that transaction reads
    pc,         \* pc[c]: where collector c is in its cycle
    since, next, last,  \* the watermark read, and the batch still to store
    shown,      \* shown[w]: the version on display in window w
    restarts,   \* connections closed by the end of their process
    timedOut    \* history: the windows one of whose writes has failed

conns == <<lock, open, snap>>
batch == <<since, next, last>>
vars  == <<logged, db, conns, pc, batch, shown, restarts, timedOut>>

Database == [version : Nat, stored : 0..MaxRecords, mark : 0..MaxRecords]

Init ==
    /\ logged = 0
    /\ db = [version |-> 0, stored |-> 0, mark |-> 0]
    /\ lock = None
    /\ open = [x \in Conns |-> FALSE]
    /\ snap = [x \in Conns |-> None]
    /\ pc = [c \in Collectors |-> "poll"]
    /\ since = [c \in Collectors |-> 0]
    /\ next = [c \in Collectors |-> 1] /\ last = [c \in Collectors |-> 0]
    /\ shown = [w \in Windows |-> 0]
    /\ restarts = 0
    /\ timedOut = {}

EventLogged ==
    /\ logged < MaxRecords
    /\ logged' = logged + 1
    /\ UNCHANGED <<db, conns, pc, batch, shown, restarts, timedOut>>

-----------------------------------------------------------------------------
(* Statements *)

\* What a SELECT on connection x sees.
Seen(x) == IF open[x] /\ snap[x] # None THEN snap[x] ELSE db

\* Mutant: connect asks for autocommit=False, and a SELECT begins a transaction.
ReadBegins(x) ==
    /\ open' = [open EXCEPT ![x] = TRUE]
    /\ snap' = [snap EXCEPT ![x] = Seen(x)]
    /\ UNCHANGED lock

\* A SELECT on a connection as connect opens it: in an open transaction, the
\* first one pins what all of them see.
Read(x) ==
    /\ snap' = [snap EXCEPT ![x] = IF open[x] THEN Seen(x) ELSE None]
    /\ UNCHANGED <<lock, open>>

CanWrite(x) == lock \in {None, x} /\ snap[x] \in {None, db}

\* Mutant: commit() is forgotten.
NoCommit(x, d) ==
    /\ CanWrite(x)
    /\ lock' = x
    /\ open' = [open EXCEPT ![x] = TRUE]
    /\ snap' = [snap EXCEPT ![x] = db]
    /\ UNCHANGED db

\* Writing statements and the commit() that follows them.
Commit(x, d) ==
    /\ CanWrite(x)
    /\ db' = [d EXCEPT !.version = @ + 1]
    /\ lock' = None
    /\ open' = [open EXCEPT ![x] = FALSE]
    /\ snap' = [snap EXCEPT ![x] = None]

\* A writing statement that is not followed by commit().
WriteUncommitted(x) ==
    /\ CanWrite(x)
    /\ lock' = x
    /\ open' = [open EXCEPT ![x] = TRUE]
    /\ snap' = [snap EXCEPT ![x] = db]
    /\ UNCHANGED db

\* Connection y keeps the lock for longer than the timeout of the others: its
\* collector is asleep, or a VACUUM is running.
HeldLong(y) ==
    /\ y \in Collectors
    /\ \/ pc[y] = "sleep"
       \/ pc[y] = "vacuum" /\ SlowVacuum

\* A write on x must raise "database is locked": at once when others have
\* committed since x's transaction first read, or after the timeout.
Locked(x) ==
    \/ snap[x] \notin {None, db}
    \/ lock \notin {None, x} /\ HeldLong(lock)

\* The transaction Python began for that write stays open.
WriteFails(x) ==
    /\ Locked(x)
    /\ open' = [open EXCEPT ![x] = TRUE]
    /\ UNCHANGED <<db, lock, snap>>

-----------------------------------------------------------------------------
(* A collector's cycle: poll_once and run_periodic_tasks *)

\* The locals of poll_once end with it.
Forget(c) ==
    /\ since' = [since EXCEPT ![c] = 0]
    /\ next' = [next EXCEPT ![c] = 1] /\ last' = [last EXCEPT ![c] = 0]

Goto(c, place) == pc' = [pc EXCEPT ![c] = place]

\* Mutant: a channel without a watermark is read from the end of its log.
GetLastTsOrEnd(c) ==
    /\ pc[c] = "poll"
    /\ Read(c)
    /\ since' = [since EXCEPT ![c] = Seen(c).mark]
    /\ next'  = [next  EXCEPT ![c] = IF Seen(c).mark = 0 THEN logged + 1 ELSE Seen(c).mark + 1]
    /\ last'  = [last  EXCEPT ![c] = logged]
    /\ Goto(c, "batch")
    /\ UNCHANGED <<logged, db, shown, restarts, timedOut>>

\* get_last_ts, and the query for what is newer.
GetLastTs(c) ==
    /\ pc[c] = "poll"
    /\ Read(c)
    /\ since' = [since EXCEPT ![c] = Seen(c).mark]
    /\ next'  = [next  EXCEPT ![c] = Seen(c).mark + 1]
    /\ last'  = [last  EXCEPT ![c] = logged]
    /\ Goto(c, "batch")
    /\ UNCHANGED <<logged, db, shown, restarts, timedOut>>

\* insert_event commits a new event; for one already stored it returns None
\* with the transaction of its INSERT open.
InsertEvent(c) ==
    /\ pc[c] = "batch" /\ next[c] <= last[c] /\ next[c] \notin Unparsable
    /\ \/ next[c] > db.stored /\ Commit(c, [db EXCEPT !.stored = next[c]])
       \/ next[c] <= db.stored /\ WriteUncommitted(c)
    /\ next' = [next EXCEPT ![c] = @ + 1]
    /\ UNCHANGED <<logged, pc, since, last, shown, restarts, timedOut>>

\* normalize_event raises: the cycle ends.
NormalizeFails(c) ==
    /\ pc[c] = "batch" /\ next[c] <= last[c] /\ next[c] \in Unparsable
    /\ Goto(c, "sleep")
    /\ UNCHANGED <<logged, db, conns, batch, shown, restarts, timedOut>>

\* Mutant: the watermark is written only when the batch held a new event.
SetLastTsIfStored(c) ==
    /\ pc[c] = "batch" /\ next[c] > last[c]
    /\ \/ lock # c /\ last[c] > since[c] /\ Commit(c, [db EXCEPT !.mark = last[c]])
       \/ (lock = c \/ last[c] <= since[c]) /\ UNCHANGED <<db, conns>>
    /\ Goto(c, "maintain")
    /\ Forget(c)
    /\ UNCHANGED <<logged, shown, restarts, timedOut>>

\* Mutant: the watermark is set to the end of the log.
SetLastTsToNow(c) ==
    /\ pc[c] = "batch" /\ next[c] > last[c]
    /\ \/ last[c] > since[c] /\ Commit(c, [db EXCEPT !.mark = logged])
       \/ last[c] <= since[c] /\ UNCHANGED <<db, conns>>
    /\ Goto(c, "maintain")
    /\ Forget(c)
    /\ UNCHANGED <<logged, shown, restarts, timedOut>>

\* The end of the batch: the watermark, if it moved.
SetLastTs(c) ==
    /\ pc[c] = "batch" /\ next[c] > last[c]
    /\ \/ last[c] > since[c] /\ Commit(c, [db EXCEPT !.mark = last[c]])
       \/ last[c] <= since[c] /\ UNCHANGED <<db, conns>>
    /\ Goto(c, "maintain")
    /\ Forget(c)
    /\ UNCHANGED <<logged, shown, restarts, timedOut>>

\* run_periodic_tasks: nothing more is due, or a task commits what it changes
\* or _mark_done its time; a purge that deleted rows goes on to VACUUM.
Maintain(c) ==
    /\ pc[c] = "maintain"
    /\ \/ Goto(c, "sleep") /\ UNCHANGED <<db, conns>>
       \/ /\ db.version < MaxVersion
          /\ Commit(c, db)
          /\ \E place \in {"maintain", "purged"} : Goto(c, place)
    /\ UNCHANGED <<logged, batch, shown, restarts, timedOut>>

\* VACUUM is no transaction of Python's: it takes the lock when it runs.
StartVacuum(c) ==
    /\ pc[c] = "purged" /\ lock = None
    /\ lock' = c
    /\ Goto(c, "vacuum")
    /\ UNCHANGED <<logged, db, open, snap, batch, shown, restarts, timedOut>>

EndVacuum(c) ==
    /\ pc[c] = "vacuum"
    /\ lock' = None
    /\ Goto(c, "maintain")
    /\ UNCHANGED <<logged, db, open, snap, batch, shown, restarts, timedOut>>

VacuumFails(c) ==
    /\ pc[c] = "purged" /\ Locked(c)
    /\ Goto(c, "sleep")
    /\ UNCHANGED <<logged, db, conns, batch, shown, restarts, timedOut>>

\* A write of the cycle raises: run_forever catches it and sleeps.
CycleFails(c) ==
    /\ \/ pc[c] = "batch" /\ next[c] <= last[c] /\ next[c] \notin Unparsable
       \/ pc[c] = "batch" /\ next[c] > last[c] /\ last[c] > since[c]
       \/ pc[c] = "maintain" /\ db.version < MaxVersion
    /\ WriteFails(c)
    /\ Goto(c, "sleep")
    /\ Forget(c)
    /\ UNCHANGED <<logged, shown, restarts, timedOut>>

WakeUp(c) ==
    /\ pc[c] = "sleep"
    /\ Goto(c, "poll")
    /\ Forget(c)
    /\ UNCHANGED <<logged, db, conns, shown, restarts, timedOut>>

Cycle(c) ==
    \/ GetLastTs(c) \/ InsertEvent(c) \/ NormalizeFails(c) \/ SetLastTs(c)
    \/ Maintain(c) \/ StartVacuum(c) \/ EndVacuum(c) \/ VacuumFails(c)
    \/ CycleFails(c) \/ WakeUp(c)

-----------------------------------------------------------------------------
(* The user interfaces *)

\* _do_refresh, every five seconds.
Refresh(w) ==
    /\ Read(w)
    /\ shown' = [shown EXCEPT ![w] = Seen(w).version]
    /\ UNCHANGED <<logged, db, pc, batch, restarts, timedOut>>

\* Scan Now, and the last step of block_ip and unblock_ip: statements and a
\* commit, or the exception that Tk reports to no one.
WindowWrites(w) ==
    /\ db.version < MaxVersion
    /\ \/ Commit(w, db) /\ UNCHANGED timedOut
       \/ WriteFails(w) /\ timedOut' = timedOut \cup {w}
    /\ UNCHANGED <<logged, pc, batch, shown, restarts>>

\* A request to the dashboard: when its write fails its connection goes with it.
RequestWrites ==
    /\ db.version < MaxVersion /\ lock = None
    /\ db' = [db EXCEPT !.version = @ + 1]
    /\ UNCHANGED <<logged, conns, pc, batch, shown, restarts, timedOut>>

\* The process of a connection ends and is started again; SQLite rolls back.
Restart(x) ==
    /\ restarts < MaxRestarts
    /\ restarts' = restarts + 1
    /\ lock' = IF lock = x THEN None ELSE lock
    /\ open' = [open EXCEPT ![x] = FALSE]
    /\ snap' = [snap EXCEPT ![x] = None]
    /\ pc' = [c \in Collectors |-> IF c = x THEN "poll" ELSE pc[c]]
    /\ timedOut' = timedOut \ {x}
    /\ since' = [c \in Collectors |-> IF c = x THEN 0 ELSE since[c]]
    /\ next' = [c \in Collectors |-> IF c = x THEN 1 ELSE next[c]]
    /\ last' = [c \in Collectors |-> IF c = x THEN 0 ELSE last[c]]
    /\ UNCHANGED <<logged, db, shown>>

-----------------------------------------------------------------------------
Next ==
    \/ EventLogged
    \/ \E c \in Collectors : Cycle(c)
    \/ \E w \in Windows : Refresh(w) \/ WindowWrites(w)
    \/ RequestWrites
    \/ \E x \in Conns : Restart(x)

Spec == Init /\ [][Next]_vars

\* A collector takes its next step when it has one (a statement waits for the
\* lock no longer than the timeout), and every window keeps refreshing.
Fairness ==
    /\ \A c \in Collectors : WF_vars(Cycle(c))
    /\ \A w \in Windows : WF_vars(Refresh(w))

FairSpec == Spec /\ Fairness

-----------------------------------------------------------------------------
(* Properties *)

\* Every variable stays in its type, and only an open transaction or a VACUUM
\* holds the lock.
TypeOK ==
    /\ logged \in 0..MaxRecords
    /\ db \in Database
    /\ lock \in Collectors \cup {None}
    /\ open \in [Conns -> BOOLEAN]
    /\ \A x \in Conns : snap[x] \in Database \cup {None}
    /\ \A x \in Conns : ~open[x] => snap[x] = None
    /\ pc \in [Collectors -> {"poll", "batch", "maintain", "purged", "vacuum", "sleep"}]
    /\ since \in [Collectors -> 0..MaxRecords]
    /\ next \in [Collectors -> 1..MaxRecords + 1]
    /\ last \in [Collectors -> 0..MaxRecords]
    /\ shown \in [Windows -> 0..db.version]
    /\ restarts \in 0..MaxRestarts
    /\ timedOut \subseteq Windows
    /\ lock # None => open[lock] \/ pc[lock] = "vacuum"

\* Two collectors that overlap, repeat each other's inserts and overwrite each
\* other's watermark never move it past an event that is not stored.
MarkIsStored == db.mark <= db.stored

\* A collector that goes to sleep leaves the write lock, unless a record it
\* cannot parse came behind one it had stored before (insert_event's duplicate
\* path, closed by set_last_ts at the end of every batch).
SleepsWithoutLock ==
    \A c \in Collectors :
        lock = c /\ pc[c] = "sleep" => next[c] \in Unparsable

\* Every record is in the end stored, although collectors fail on each other's
\* VACUUM, and may never be able to write again: one of them still is.
EventuallyStored ==
    \A r \in 1..MaxRecords :
        (\A q \in 1..r : q \notin Unparsable) => (r <= logged ~> r <= db.stored)

\* Again and again a window shows all that is committed, as long as none of
\* its own writes has failed, whatever the collectors' connections hold.
DisplayCatchesUp ==
    \A w \in Windows : []<>(shown[w] = db.version \/ w \in timedOut)

\* The same whatever has failed ("a transient DB hiccup shouldn't kill the
\* whole app", _do_refresh).
DisplayAlwaysCatchesUp ==
    \A w \in Windows : []<>(shown[w] = db.version)
=============================================================================
