--------------------------- MODULE ConnectionsProofs ---------------------------
(***************************************************************************)
(* Proofs about Connections, for every set of collectors and windows and   *)
(* every log: the type invariant, that the watermark never passes what is  *)
(* stored, and that a collector asleep has left the write lock unless a    *)
(* record it cannot parse stopped it.                                      *)
(***************************************************************************)
EXTENDS Connections, TLAPS

-----------------------------------------------------------------------------
(* The type invariant *)

\* What an open transaction reads was committed before.
TypeInv ==
    /\ TypeOK
    /\ snap \in [Conns -> Database \cup {None}]
    /\ \A x \in Conns : snap[x] # None => snap[x].version <= db.version


\* Every step is one of these.
LEMMA Steps ==
  ASSUME [Next]_vars
  PROVE  \/ UNCHANGED vars \/ EventLogged \/ RequestWrites
         \/ \E c \in Collectors :
               \/ GetLastTs(c) \/ InsertEvent(c) \/ NormalizeFails(c) \/ SetLastTs(c)
               \/ Maintain(c) \/ StartVacuum(c) \/ EndVacuum(c) \/ VacuumFails(c)
               \/ CycleFails(c) \/ WakeUp(c)
         \/ \E w \in Windows : Refresh(w) \/ WindowWrites(w)
         \/ \E x \in Conns : Restart(x)
  BY DEF Next, Cycle

\* No connection is None.
LEMMA NoneIsNone ==
  /\ \A x \in Conns : x # None
  /\ \A c \in Collectors : c \in Conns
  /\ \A w \in Windows : w \in Conns /\ w \notin Collectors
  BY NoneAssumption, DisjointAssumption DEF Conns

\* What a SELECT sees is a state of the database, and no later than now.
LEMMA SeenType ==
  ASSUME TypeInv, NEW x \in Conns
  PROVE  Seen(x) \in Database /\ Seen(x).version <= db.version
  <1>1. db \in Database /\ db.version \in Nat
    BY DEF TypeInv, TypeOK, Database
  <1>2. snap[x] \in Database \cup {None} /\ (snap[x] # None => snap[x].version <= db.version)
    BY DEF TypeInv
  <1> QED BY <1>1, <1>2 DEF Seen

\* The part of the type that a statement changes.
ConnsType ==
    /\ lock \in Collectors \cup {None}
    /\ open \in [Conns -> BOOLEAN]
    /\ snap \in [Conns -> Database \cup {None}]
    /\ \A x \in Conns : ~open[x] => snap[x] = None

\* A SELECT keeps the connections well typed, and pins at most what is seen.
LEMMA ReadType ==
  ASSUME TypeInv, NEW x \in Conns, Read(x)
  PROVE  /\ ConnsType' /\ open' = open /\ lock' = lock
         /\ \A y \in Conns : snap'[y] \in {None, snap[y], db}
  <1>1. Seen(x) \in Database /\ Seen(x) \in {snap[x], db}
    BY SeenType DEF Seen
  <1> QED BY <1>1 DEF Read, ConnsType, TypeInv, TypeOK

\* So does a commit, which is one version more.
LEMMA CommitType ==
  ASSUME TypeInv, NEW x \in Conns, NEW d \in Database, d.version = db.version, Commit(x, d)
  PROVE  /\ ConnsType'
         /\ db' \in Database /\ db'.version = db.version + 1
         /\ db'.stored = d.stored /\ db'.mark = d.mark
         /\ lock' = None
         /\ \A y \in Conns : snap'[y] \in {None, snap[y], db}
  <1>1. db'.version = db.version + 1 /\ db'.stored = d.stored /\ db'.mark = d.mark
        /\ db' \in Database
    BY DEF Commit, Database
  <1>2. ConnsType' /\ lock' = None /\ \A y \in Conns : snap'[y] \in {None, snap[y], db}
    BY DEF Commit, ConnsType, TypeInv, TypeOK
  <1> QED BY <1>1, <1>2

\* And a write that is not committed.
LEMMA WriteType ==
  ASSUME TypeInv, NEW c \in Collectors, WriteUncommitted(c)
  PROVE  /\ ConnsType' /\ db' = db /\ lock' = c /\ open'[c]
         /\ snap'[c] = db
         /\ \A y \in Conns : snap'[y] \in {None, snap[y], db}
  BY NoneIsNone DEF WriteUncommitted, ConnsType, TypeInv, TypeOK

\* And one that raises.
LEMMA FailType ==
  ASSUME TypeInv, NEW x \in Conns, WriteFails(x)
  PROVE  /\ ConnsType' /\ db' = db /\ lock' = lock /\ snap' = snap
         /\ \A y \in Conns : open[y] => open'[y]
  BY DEF WriteFails, ConnsType, TypeInv, TypeOK
\* What a step of a collector does besides its statement.
LEMMA CollectorType ==
  ASSUME TypeInv, NEW c \in Collectors,
         NEW place \in {"poll", "batch", "maintain", "purged", "vacuum", "sleep"},
         Goto(c, place),
         \/ UNCHANGED batch
         \/ Forget(c)
         \/ /\ since' \in [Collectors -> 0..MaxRecords]
            /\ next' \in [Collectors -> 1..MaxRecords + 1]
            /\ last' \in [Collectors -> 0..MaxRecords]
  PROVE  /\ pc' \in [Collectors -> {"poll", "batch", "maintain", "purged", "vacuum", "sleep"}]
         /\ since' \in [Collectors -> 0..MaxRecords]
         /\ next' \in [Collectors -> 1..MaxRecords + 1]
         /\ last' \in [Collectors -> 0..MaxRecords]
         /\ pc'[c] = place /\ \A e \in Collectors \ {c} : pc'[e] = pc[e]
  BY RecordsAssumption DEF Goto, Forget, batch, TypeInv, TypeOK

\* The initial state is well typed.
LEMMA TypeInit == Init => TypeInv
  BY NoneIsNone, RecordsAssumption, BoundsAssumption DEF Init, TypeInv, TypeOK, Database

\* The statements of every step, and what they leave of the type to prove.
LEMMA TypeNext == TypeInv /\ [Next]_vars => TypeInv'
  <1> SUFFICES ASSUME TypeInv, [Next]_vars PROVE TypeInv'
    OBVIOUS
  <1> USE RecordsAssumption, BoundsAssumption, NoneIsNone
  <1>db. db \in Database /\ db.version \in Nat /\ db.stored \in 0..MaxRecords /\ db.mark \in 0..MaxRecords
    BY DEF TypeInv, TypeOK, Database
  <1>ty. /\ ConnsType
         /\ logged \in 0..MaxRecords
         /\ pc \in [Collectors -> {"poll", "batch", "maintain", "purged", "vacuum", "sleep"}]
         /\ since \in [Collectors -> 0..MaxRecords]
         /\ next \in [Collectors -> 1..MaxRecords + 1]
         /\ last \in [Collectors -> 0..MaxRecords]
         /\ shown \in [Windows -> 0..db.version]
         /\ restarts \in 0..MaxRestarts
         /\ timedOut \subseteq Windows
         /\ lock # None => open[lock] \/ pc[lock] = "vacuum"
    BY DEF TypeInv, TypeOK, ConnsType
  \* Enough to show for a step that makes at most one version.
  <1>0. ASSUME /\ ConnsType'
               /\ db' \in Database /\ db'.version \in {db.version, db.version + 1}
               /\ \A x \in Conns : snap'[x] \in {None, snap[x], db}
               /\ logged' \in 0..MaxRecords
               /\ pc' \in [Collectors -> {"poll", "batch", "maintain", "purged", "vacuum", "sleep"}]
               /\ since' \in [Collectors -> 0..MaxRecords]
               /\ next' \in [Collectors -> 1..MaxRecords + 1]
               /\ last' \in [Collectors -> 0..MaxRecords]
               /\ shown' = shown \/ (shown' \in [Windows -> 0..db.version] /\ db' = db)
               /\ restarts' \in 0..MaxRestarts
               /\ timedOut' \subseteq Windows
               /\ lock' # None => open'[lock'] \/ pc'[lock'] = "vacuum"
        PROVE  TypeInv'
    <2>1. shown' \in [Windows -> 0..db'.version]
      BY <1>0, <1>db, <1>ty
    <2>2. \A x \in Conns : snap'[x] # None => snap'[x].version <= db'.version
      <3> SUFFICES ASSUME NEW x \in Conns, snap'[x] # None PROVE snap'[x].version <= db'.version
        OBVIOUS
      <3>1. CASE snap'[x] = db
        BY <1>0, <1>db, <3>1
      <3>2. CASE snap'[x] = snap[x]
        <4>1. snap[x] \in Database /\ snap[x].version <= db.version
          BY <3>2, <1>ty DEF TypeInv, ConnsType
        <4> QED BY <1>0, <1>db, <3>2, <4>1 DEF Database
      <3> QED BY <1>0, <3>1, <3>2
    <2> QED BY <1>0, <2>1, <2>2 DEF TypeInv, TypeOK, ConnsType
  <1>1. CASE UNCHANGED vars
    BY <1>1, <1>db, <1>ty, <1>0 DEF vars, conns, batch, ConnsType
  <1>2. CASE EventLogged
    BY <1>2, <1>db, <1>ty, <1>0 DEF EventLogged, conns, batch, ConnsType
  <1>3. CASE RequestWrites
    <2>1. db' \in Database /\ db'.version = db.version + 1
      BY <1>3, <1>db DEF RequestWrites, Database
    <2> QED BY <1>3, <1>db, <1>ty, <1>0, <2>1 DEF RequestWrites, conns, batch, ConnsType
  <1>4. ASSUME NEW c \in Collectors,
               \/ GetLastTs(c) \/ InsertEvent(c) \/ NormalizeFails(c) \/ SetLastTs(c)
               \/ Maintain(c) \/ StartVacuum(c) \/ EndVacuum(c) \/ VacuumFails(c)
               \/ CycleFails(c) \/ WakeUp(c)
        PROVE  TypeInv'
    <2>1. CASE GetLastTs(c)
      <3>1. /\ ConnsType' /\ open' = open /\ lock' = lock /\ db' = db
            /\ \A y \in Conns : snap'[y] \in {None, snap[y], db}
        BY <2>1, ReadType DEF GetLastTs
      <3>2. Seen(c).mark \in 0..MaxRecords
        BY SeenType DEF Database
      <3>3. /\ since' \in [Collectors -> 0..MaxRecords]
            /\ next' \in [Collectors -> 1..MaxRecords + 1]
            /\ last' \in [Collectors -> 0..MaxRecords]
        <4>1. Seen(c).mark + 1 \in 1..MaxRecords + 1
          BY <3>2
        <4> QED BY <2>1, <3>2, <4>1, <1>ty DEF GetLastTs
      <3>4. Goto(c, "batch") /\ UNCHANGED <<logged, db, shown, restarts, timedOut>> /\ pc[c] = "poll"
        BY <2>1 DEF GetLastTs
      <3>5. /\ pc' \in [Collectors -> {"poll", "batch", "maintain", "purged", "vacuum", "sleep"}]
            /\ \A e \in Collectors \ {c} : pc'[e] = pc[e]
        BY <3>3, <3>4, CollectorType
      <3>6. lock' # None => open'[lock'] \/ pc'[lock'] = "vacuum"
        BY <3>1, <3>4, <3>5, <1>ty DEF ConnsType
      <3> QED BY <1>db, <1>ty, <1>0, <3>1, <3>3, <3>4, <3>5, <3>6
    <2>2. CASE InsertEvent(c)
      <3>1. /\ next[c] \in 1..MaxRecords + 1 /\ next[c] <= last[c] /\ last[c] \in 0..MaxRecords
            /\ next' = [next EXCEPT ![c] = @ + 1]
            /\ UNCHANGED <<logged, pc, since, last, shown, restarts, timedOut>>
        BY <2>2, <1>ty DEF InsertEvent
      <3>2. next' \in [Collectors -> 1..MaxRecords + 1]
        BY <3>1, <1>ty
      <3>3. CASE next[c] > db.stored /\ Commit(c, [db EXCEPT !.stored = next[c]])
        <4> DEFINE d == [db EXCEPT !.stored = next[c]]
        <4>1. d \in Database /\ d.version = db.version
          BY <3>1, <1>db DEF Database
        <4>2. /\ ConnsType' /\ db' \in Database /\ db'.version = db.version + 1 /\ lock' = None
              /\ \A y \in Conns : snap'[y] \in {None, snap[y], db}
          BY <3>3, <4>1, CommitType
        <4> QED BY <1>db, <1>ty, <1>0, <3>1, <3>2, <4>2
      <3>4. CASE WriteUncommitted(c)
        <4>2. /\ ConnsType' /\ db' = db /\ lock' = c /\ open'[c]
              /\ \A y \in Conns : snap'[y] \in {None, snap[y], db}
          BY <3>4, WriteType
        <4> QED BY <1>db, <1>ty, <1>0, <3>1, <3>2, <4>2
      <3> QED BY <2>2, <3>3, <3>4 DEF InsertEvent
    <2>3. CASE NormalizeFails(c)
      <3>1. /\ pc[c] = "batch" /\ Goto(c, "sleep") /\ UNCHANGED batch
            /\ UNCHANGED <<logged, db, conns, shown, restarts, timedOut>>
        BY <2>3 DEF NormalizeFails
      <3>2. ConnsType' /\ lock' = lock /\ open' = open /\ snap' = snap
        BY <3>1, <1>ty DEF conns, ConnsType
      <3> QED BY <1>db, <1>ty, <1>0, <3>1, <3>2, CollectorType DEF ConnsType
    <2>4. CASE SetLastTs(c)
      <3>1. /\ pc[c] = "batch" /\ Goto(c, "maintain") /\ Forget(c)
            /\ UNCHANGED <<logged, shown, restarts, timedOut>>
        BY <2>4 DEF SetLastTs
      <3>2. CASE Commit(c, [db EXCEPT !.mark = last[c]])
        <4> DEFINE d == [db EXCEPT !.mark = last[c]]
        <4>1. d \in Database /\ d.version = db.version
          BY <1>db, <1>ty DEF Database
        <4>2. /\ ConnsType' /\ db' \in Database /\ db'.version = db.version + 1 /\ lock' = None
              /\ \A y \in Conns : snap'[y] \in {None, snap[y], db}
          BY <3>2, <4>1, CommitType
        <4> QED BY <1>db, <1>ty, <1>0, <3>1, <4>2, CollectorType
      <3>3. CASE UNCHANGED <<db, conns>>
        <4>1. ConnsType' /\ lock' = lock /\ open' = open /\ snap' = snap /\ db' = db
          BY <3>3, <1>ty DEF conns, ConnsType
        <4> QED BY <1>db, <1>ty, <1>0, <3>1, <4>1, CollectorType DEF ConnsType
      <3> QED BY <2>4, <3>2, <3>3 DEF SetLastTs
    <2>5. CASE Maintain(c)
      <3>1. /\ pc[c] = "maintain" /\ UNCHANGED batch
            /\ UNCHANGED <<logged, shown, restarts, timedOut>>
        BY <2>5 DEF Maintain, batch
      <3>2. CASE Goto(c, "sleep") /\ UNCHANGED <<db, conns>>
        <4>1. ConnsType' /\ lock' = lock /\ open' = open /\ snap' = snap /\ db' = db
          BY <3>2, <1>ty DEF conns, ConnsType
        <4> QED BY <1>db, <1>ty, <1>0, <3>1, <3>2, <4>1, CollectorType DEF ConnsType
      <3>3. ASSUME NEW place \in {"maintain", "purged"}, Goto(c, place), Commit(c, db)
            PROVE  TypeInv'
        <4>1. /\ ConnsType' /\ db' \in Database /\ db'.version = db.version + 1 /\ lock' = None
              /\ \A y \in Conns : snap'[y] \in {None, snap[y], db}
          BY <3>3, <1>db, CommitType
        <4> QED BY <1>db, <1>ty, <1>0, <3>1, <3>3, <4>1, CollectorType
      <3> QED BY <2>5, <3>2, <3>3 DEF Maintain
    <2>6. CASE StartVacuum(c)
      <3>1. /\ lock' = c /\ Goto(c, "vacuum") /\ UNCHANGED batch
            /\ UNCHANGED <<logged, db, open, snap, shown, restarts, timedOut>>
        BY <2>6 DEF StartVacuum
      <3>2. ConnsType'
        BY <3>1, <1>ty DEF ConnsType
      <3> QED BY <1>db, <1>ty, <1>0, <3>1, <3>2, CollectorType DEF ConnsType
    <2>7. CASE EndVacuum(c)
      <3>1. /\ lock' = None /\ Goto(c, "maintain") /\ UNCHANGED batch
            /\ UNCHANGED <<logged, db, open, snap, shown, restarts, timedOut>>
        BY <2>7 DEF EndVacuum
      <3>2. ConnsType'
        BY <3>1, <1>ty DEF ConnsType
      <3> QED BY <1>db, <1>ty, <1>0, <3>1, <3>2, CollectorType DEF ConnsType
    <2>8. CASE VacuumFails(c)
      <3>1. /\ pc[c] = "purged" /\ Goto(c, "sleep") /\ UNCHANGED batch
            /\ UNCHANGED <<logged, db, conns, shown, restarts, timedOut>>
        BY <2>8 DEF VacuumFails
      <3>2. ConnsType' /\ lock' = lock /\ open' = open /\ snap' = snap
        BY <3>1, <1>ty DEF conns, ConnsType
      <3> QED BY <1>db, <1>ty, <1>0, <3>1, <3>2, CollectorType DEF ConnsType
    <2>9. CASE CycleFails(c)
      <3>1. /\ pc[c] \in {"batch", "maintain"} /\ Goto(c, "sleep") /\ Forget(c)
            /\ UNCHANGED <<logged, shown, restarts, timedOut>>
        BY <2>9 DEF CycleFails
      <3>2. /\ ConnsType' /\ db' = db /\ lock' = lock /\ snap' = snap
            /\ \A y \in Conns : open[y] => open'[y]
        BY <2>9, FailType DEF CycleFails
      <3> QED BY <1>db, <1>ty, <1>0, <3>1, <3>2, CollectorType DEF ConnsType
    <2>10. CASE WakeUp(c)
      <3>1. /\ pc[c] = "sleep" /\ Goto(c, "poll") /\ Forget(c)
            /\ UNCHANGED <<logged, db, conns, shown, restarts, timedOut>>
        BY <2>10 DEF WakeUp
      <3>2. ConnsType' /\ lock' = lock /\ open' = open /\ snap' = snap
        BY <3>1, <1>ty DEF conns, ConnsType
      <3> QED BY <1>db, <1>ty, <1>0, <3>1, <3>2, CollectorType DEF ConnsType
    <2> QED BY <1>4, <2>1, <2>2, <2>3, <2>4, <2>5, <2>6, <2>7, <2>8, <2>9, <2>10
  <1>5. ASSUME NEW w \in Windows, Refresh(w) \/ WindowWrites(w)
        PROVE  TypeInv'
    <2>1. CASE Refresh(w)
      <3>1. /\ ConnsType' /\ open' = open /\ lock' = lock
            /\ \A y \in Conns : snap'[y] \in {None, snap[y], db}
        BY <2>1, ReadType DEF Refresh
      <3>2. Seen(w).version \in 0..db.version
        BY SeenType, <1>db DEF Database
      <3>3. /\ UNCHANGED <<logged, db, pc, batch, restarts, timedOut>>
            /\ shown' \in [Windows -> 0..db.version]
        BY <2>1, <3>2, <1>ty DEF Refresh
      <3> QED BY <1>db, <1>ty, <1>0, <3>1, <3>3 DEF batch
    <2>2. CASE WindowWrites(w)
      <3>1. UNCHANGED <<logged, pc, since, next, last, shown, restarts>>
        BY <2>2 DEF WindowWrites, batch
      <3>2. CASE Commit(w, db) /\ UNCHANGED timedOut
        <4>1. /\ ConnsType' /\ db' \in Database /\ db'.version = db.version + 1 /\ lock' = None
              /\ \A y \in Conns : snap'[y] \in {None, snap[y], db}
          BY <3>2, <1>db, CommitType
        <4> QED BY <1>db, <1>ty, <1>0, <3>1, <3>2, <4>1
      <3>3. CASE WriteFails(w) /\ timedOut' = timedOut \cup {w}
        <4>1. /\ ConnsType' /\ db' = db /\ lock' = lock /\ snap' = snap
              /\ \A y \in Conns : open[y] => open'[y]
          BY <3>3, FailType
        <4> QED BY <1>db, <1>ty, <1>0, <3>1, <3>3, <4>1 DEF ConnsType
      <3> QED BY <2>2, <3>2, <3>3 DEF WindowWrites
    <2> QED BY <1>5, <2>1, <2>2
  <1>6. ASSUME NEW x \in Conns, Restart(x)
        PROVE  TypeInv'
    <2>1. ConnsType' /\ \A y \in Conns : snap'[y] \in {None, snap[y], db}
      BY <1>6, <1>ty DEF Restart, ConnsType
    <2>2. /\ pc' \in [Collectors -> {"poll", "batch", "maintain", "purged", "vacuum", "sleep"}]
          /\ since' \in [Collectors -> 0..MaxRecords]
          /\ next' \in [Collectors -> 1..MaxRecords + 1]
          /\ last' \in [Collectors -> 0..MaxRecords]
      BY <1>6, <1>ty DEF Restart
    <2>3. lock' # None => open'[lock'] \/ pc'[lock'] = "vacuum"
      BY <1>6, <1>ty DEF Restart, ConnsType
    <2>4. /\ restarts' \in 0..MaxRestarts /\ timedOut' \subseteq Windows
          /\ UNCHANGED <<logged, db, shown>>
      BY <1>6, <1>ty DEF Restart
    <2> QED BY <1>db, <1>ty, <1>0, <2>1, <2>2, <2>3, <2>4
  <1> QED BY <1>1, <1>2, <1>3, <1>4, <1>5, <1>6, Steps

\* Every variable stays in its type (TypeOK), whatever the connections do.
THEOREM TypeCorrect == Spec => []TypeOK
  <1>1. TypeInv => TypeOK
    BY DEF TypeInv
  <1> QED BY <1>1, TypeInit, TypeNext, PTL DEF Spec


-----------------------------------------------------------------------------
(* The watermark *)

\* A watermark that a transaction still sees is one of stored events, and a
\* collector has stored, or found stored, all of its batch up to the next record.
StoredInv ==
    /\ MarkIsStored
    /\ \A x \in Conns : snap[x] # None => snap[x].mark <= db.stored
    /\ \A c \in Collectors : pc[c] = "batch" =>
            since[c] < next[c] /\ next[c] - 1 <= db.stored /\ last[c] <= logged
\* Nothing but the statements of x touches what is committed and what others see.
LEMMA Statements ==
  ASSUME TypeInv, [Next]_vars
  PROVE  /\ \A x \in Conns : snap'[x] \in {None, snap[x], db}
         /\ logged' \in Nat /\ logged <= logged'
         /\ \/ db' = db
            \/ db'.stored = db.stored /\ db'.mark = db.mark /\ lock' = None
            \/ \E c \in Collectors :
                  /\ InsertEvent(c) /\ next[c] > db.stored
                  /\ db'.stored = next[c] /\ db'.mark = db.mark /\ lock' = None
            \/ \E c \in Collectors :
                  /\ SetLastTs(c) /\ last[c] > since[c]
                  /\ db'.stored = db.stored /\ db'.mark = last[c] /\ lock' = None
  <1> USE RecordsAssumption, NoneIsNone
  <1>db. /\ db \in Database /\ logged \in Nat
         /\ next \in [Collectors -> 1..MaxRecords + 1] /\ last \in [Collectors -> 0..MaxRecords]
         /\ snap \in [Conns -> Database \cup {None}]
    BY DEF TypeInv, TypeOK
  <1>a. \A x \in Conns : Read(x) => \A y \in Conns : snap'[y] \in {None, snap[y], db}
    BY ReadType
  <1>b. \A x \in Conns : Commit(x, db) =>
            /\ \A y \in Conns : snap'[y] \in {None, snap[y], db}
            /\ db'.stored = db.stored /\ db'.mark = db.mark /\ lock' = None
    BY CommitType, <1>db
  <1>1. CASE UNCHANGED vars
    BY <1>1, <1>db DEF vars, conns
  <1>2. CASE EventLogged
    BY <1>2, <1>db DEF EventLogged, conns
  <1>3. CASE RequestWrites
    <2>1. db'.stored = db.stored /\ db'.mark = db.mark
      BY <1>3, <1>db DEF RequestWrites, Database
    <2> QED BY <1>3, <1>db, <2>1 DEF RequestWrites, conns
  <1>4. ASSUME NEW c \in Collectors, InsertEvent(c), next[c] > db.stored, Commit(c, [db EXCEPT !.stored = next[c]])
        PROVE  /\ \A y \in Conns : snap'[y] \in {None, snap[y], db}
               /\ db'.stored = next[c] /\ db'.mark = db.mark /\ lock' = None
               /\ logged' = logged
    <2> DEFINE d == [db EXCEPT !.stored = next[c]]
    <2>1. next[c] \in 0..MaxRecords /\ logged' = logged
      <3>1. next[c] \in 1..MaxRecords + 1 /\ last[c] \in 0..MaxRecords /\ next[c] <= last[c]
        BY <1>4, <1>db DEF InsertEvent
      <3> QED BY <1>4, <3>1 DEF InsertEvent
    <2>2. d \in Database /\ d.version = db.version /\ d.stored = next[c] /\ d.mark = db.mark
      BY <2>1, <1>db DEF Database
    <2> QED BY <1>4, <2>1, <2>2, CommitType
  <1>5. ASSUME NEW c \in Collectors, SetLastTs(c), Commit(c, [db EXCEPT !.mark = last[c]])
        PROVE  /\ \A y \in Conns : snap'[y] \in {None, snap[y], db}
               /\ db'.stored = db.stored /\ db'.mark = last[c] /\ lock' = None
               /\ logged' = logged
    <2> DEFINE d == [db EXCEPT !.mark = last[c]]
    <2>2. d \in Database /\ d.version = db.version /\ d.stored = db.stored /\ d.mark = last[c]
      BY <1>db DEF Database
    <2>3. logged' = logged
      BY <1>5 DEF SetLastTs
    <2> QED BY <1>5, <2>2, <2>3, CommitType
  <1>6. ASSUME NEW c \in Collectors, InsertEvent(c), WriteUncommitted(c)
        PROVE  /\ \A y \in Conns : snap'[y] \in {None, snap[y], db}
               /\ db' = db /\ logged' = logged
    BY <1>6, WriteType DEF InsertEvent
  <1>7. ASSUME NEW c \in Collectors, GetLastTs(c) \/ NormalizeFails(c) \/ StartVacuum(c)
                                      \/ EndVacuum(c) \/ VacuumFails(c) \/ WakeUp(c)
        PROVE  /\ \A y \in Conns : snap'[y] \in {None, snap[y], db}
               /\ db' = db /\ logged' = logged
    BY <1>7, <1>a DEF GetLastTs, NormalizeFails, StartVacuum, EndVacuum, VacuumFails, WakeUp, conns
  <1>8. ASSUME NEW c \in Collectors, Maintain(c)
        PROVE  /\ \A y \in Conns : snap'[y] \in {None, snap[y], db}
               /\ logged' = logged
               /\ db' = db \/ (db'.stored = db.stored /\ db'.mark = db.mark /\ lock' = None)
    BY <1>8, <1>b DEF Maintain, conns
  <1>9. ASSUME NEW c \in Collectors, CycleFails(c)
        PROVE  /\ \A y \in Conns : snap'[y] \in {None, snap[y], db}
               /\ db' = db /\ logged' = logged
    BY <1>9 DEF CycleFails, WriteFails
  <1>10. ASSUME NEW w \in Windows, Refresh(w) \/ WindowWrites(w)
         PROVE  /\ \A y \in Conns : snap'[y] \in {None, snap[y], db}
                /\ logged' = logged
                /\ db' = db \/ (db'.stored = db.stored /\ db'.mark = db.mark /\ lock' = None)
    BY <1>10, <1>a, <1>b DEF Refresh, WindowWrites, WriteFails
  <1>11. ASSUME NEW x \in Conns, Restart(x)
         PROVE  /\ \A y \in Conns : snap'[y] \in {None, snap[y], db}
                /\ db' = db /\ logged' = logged
    BY <1>11, <1>db DEF Restart
  <1>12. ASSUME NEW c \in Collectors, InsertEvent(c)
         PROVE  \/ next[c] > db.stored /\ Commit(c, [db EXCEPT !.stored = next[c]])
                \/ WriteUncommitted(c)
    BY <1>12 DEF InsertEvent
  <1>13. ASSUME NEW c \in Collectors, SetLastTs(c)
         PROVE  \/ last[c] > since[c] /\ Commit(c, [db EXCEPT !.mark = last[c]])
                \/ /\ \A y \in Conns : snap'[y] \in {None, snap[y], db}
                   /\ db' = db /\ logged' = logged
    BY <1>13 DEF SetLastTs, conns
  <1>14. logged <= logged
    BY <1>db
  <1> QED BY <1>db, <1>1, <1>2, <1>3, <1>4, <1>5, <1>6, <1>7, <1>8, <1>9, <1>10, <1>11, <1>12,
             <1>13, <1>14, Steps

\* Where a collector is, its batch and its transaction change only in a step of
\* its own, and only that gives it the lock.
Stays(c) ==
    /\ pc'[c] = pc[c] /\ since'[c] = since[c] /\ next'[c] = next[c] /\ last'[c] = last[c]
    /\ open'[c] = open[c] /\ snap'[c] = snap[c]
    /\ lock' = c => lock = c

LEMMA OwnSteps ==
  ASSUME TypeInv, [Next]_vars, NEW c \in Collectors
  PROVE  \/ Stays(c)
         \/ GetLastTs(c) \/ InsertEvent(c) \/ NormalizeFails(c) \/ SetLastTs(c)
         \/ Maintain(c) \/ StartVacuum(c) \/ EndVacuum(c) \/ VacuumFails(c)
         \/ CycleFails(c) \/ WakeUp(c)
         \/ Restart(c)
  <1>ty. /\ pc \in [Collectors -> {"poll", "batch", "maintain", "purged", "vacuum", "sleep"}]
         /\ since \in [Collectors -> 0..MaxRecords]
         /\ next \in [Collectors -> 1..MaxRecords + 1]
         /\ last \in [Collectors -> 0..MaxRecords]
         /\ open \in [Conns -> BOOLEAN] /\ snap \in [Conns -> Database \cup {None}]
         /\ c \in Conns /\ c # None
    BY NoneIsNone DEF TypeInv, TypeOK
  \* The statements of another connection.
  <1>st. ASSUME NEW x \in Conns, x # c,
                \/ Read(x) \/ WriteUncommitted(x) \/ WriteFails(x)
                \/ UNCHANGED conns \/ \E d : Commit(x, d)
         PROVE  open'[c] = open[c] /\ snap'[c] = snap[c] /\ (lock' = c => lock = c)
    BY <1>st, <1>ty DEF Read, WriteUncommitted, WriteFails, conns, Commit
  <1>1. CASE UNCHANGED vars \/ EventLogged \/ RequestWrites
    BY <1>1 DEF vars, EventLogged, RequestWrites, conns, batch, Stays
  <1>2. ASSUME NEW w \in Windows, Refresh(w) \/ WindowWrites(w)
        PROVE  Stays(c)
    <2>1. w \in Conns /\ w # c
      BY NoneIsNone
    <2> QED BY <1>2, <2>1, <1>st DEF Refresh, WindowWrites, batch, Stays
  <1>3. ASSUME NEW x \in Conns, Restart(x), x # c
        PROVE  Stays(c)
    BY <1>3, <1>ty DEF Restart, Stays
  <1>4. ASSUME NEW e \in Collectors, e # c,
               \/ GetLastTs(e) \/ InsertEvent(e) \/ NormalizeFails(e) \/ SetLastTs(e)
               \/ Maintain(e) \/ StartVacuum(e) \/ EndVacuum(e) \/ VacuumFails(e)
               \/ CycleFails(e) \/ WakeUp(e)
        PROVE  Stays(c)
    <2>0. e \in Conns
      BY NoneIsNone
    <2>1. CASE GetLastTs(e) \/ InsertEvent(e)
      BY <1>4, <2>0, <2>1, <1>ty, <1>st DEF GetLastTs, InsertEvent, Goto, Stays
    <2>2. CASE NormalizeFails(e) \/ StartVacuum(e) \/ EndVacuum(e) \/ VacuumFails(e)
      BY <1>4, <2>2, <1>ty
      DEF NormalizeFails, StartVacuum, EndVacuum, VacuumFails, Goto, batch, conns, Stays
    <2>3. CASE Maintain(e)
      BY <1>4, <2>0, <2>3, <1>ty, <1>st DEF Maintain, Goto, batch, Stays
    <2>4. CASE SetLastTs(e)
      BY <1>4, <2>0, <2>4, <1>ty, <1>st DEF SetLastTs, Goto, Forget, Stays
    <2>5. CASE CycleFails(e)
      BY <1>4, <2>0, <2>5, <1>ty, <1>st DEF CycleFails, Goto, Forget, Stays
    <2>6. CASE WakeUp(e)
      BY <1>4, <2>6, <1>ty DEF WakeUp, Goto, Forget, conns, Stays
    <2> QED BY <1>4, <2>1, <2>2, <2>3, <2>4, <2>5, <2>6
  <1> QED BY <1>1, <1>2, <1>3, <1>4, Steps

\* What is stored, and the watermark with it, only grows.
LEMMA StoredGrows ==
  ASSUME TypeInv, StoredInv, [Next]_vars
  PROVE  /\ db.stored \in Nat /\ db.mark \in Nat /\ db'.stored \in Nat
         /\ db.stored <= db'.stored /\ db'.mark <= db'.stored
  <1>1. /\ db.stored \in Nat /\ db.mark \in Nat /\ db.mark <= db.stored
        /\ next \in [Collectors -> 1..MaxRecords + 1] /\ last \in [Collectors -> 0..MaxRecords]
    BY RecordsAssumption DEF TypeInv, TypeOK, Database, StoredInv, MarkIsStored
  <1>2. ASSUME NEW c \in Collectors, InsertEvent(c), next[c] > db.stored,
               db'.stored = next[c], db'.mark = db.mark
        PROVE  db'.stored \in Nat /\ db.stored <= db'.stored /\ db'.mark <= db'.stored
    BY <1>1, <1>2, RecordsAssumption
  <1>3. ASSUME NEW c \in Collectors, SetLastTs(c), last[c] > since[c],
               db'.stored = db.stored, db'.mark = last[c]
        PROVE  db'.stored \in Nat /\ db.stored <= db'.stored /\ db'.mark <= db'.stored
    <2>1. pc[c] = "batch" /\ next[c] > last[c]
      BY <1>3 DEF SetLastTs
    <2>2. next[c] - 1 <= db.stored /\ next[c] \in Nat /\ last[c] \in Nat
      BY <2>1, <1>1, RecordsAssumption DEF StoredInv
    <2> QED BY <1>1, <1>3, <2>1, <2>2
  <1>4. CASE db'.stored = db.stored /\ db'.mark = db.mark
    BY <1>1, <1>4
  <1> QED BY <1>1, <1>2, <1>3, <1>4, Statements

LEMMA StoredInit == Init => StoredInv
  <1> SUFFICES ASSUME Init PROVE StoredInv
    OBVIOUS
  <1>1. db.mark = 0 /\ db.stored = 0 /\ (\A x \in Conns : snap[x] = None)
    BY DEF Init
  <1>2. \A c \in Collectors : pc[c] = "poll"
    BY DEF Init
  <1> QED BY <1>1, <1>2 DEF StoredInv, MarkIsStored

\* A collector's batch starts behind a watermark that it sees, whose records are
\* stored, and goes past a record once that is stored too.
LEMMA StoredNext == TypeInv /\ StoredInv /\ [Next]_vars => StoredInv'
  <1> SUFFICES ASSUME TypeInv, StoredInv, [Next]_vars PROVE StoredInv'
    OBVIOUS
  <1>g. /\ db.stored \in Nat /\ db.mark \in Nat /\ db'.stored \in Nat
        /\ db.stored <= db'.stored /\ db'.mark <= db'.stored /\ db.mark <= db.stored
    BY StoredGrows DEF StoredInv, MarkIsStored
  <1>ty. /\ since \in [Collectors -> Nat] /\ next \in [Collectors -> Nat]
         /\ last \in [Collectors -> Nat] /\ logged \in Nat /\ logged' \in Nat /\ logged <= logged'
    <2>1. /\ since \in [Collectors -> 0..MaxRecords] /\ next \in [Collectors -> 1..MaxRecords + 1]
          /\ last \in [Collectors -> 0..MaxRecords] /\ logged \in 0..MaxRecords
      BY DEF TypeInv, TypeOK
    <2>2. logged' \in Nat /\ logged <= logged'
      BY Statements
    <2> QED BY <2>1, <2>2, RecordsAssumption
  <1>sn. \A x \in Conns : snap[x] # None => snap[x].mark \in Nat /\ snap[x].mark <= db.stored
    BY RecordsAssumption DEF TypeInv, StoredInv, Database
  <1>1. \A x \in Conns : snap'[x] # None => snap'[x].mark <= db'.stored
    <2> SUFFICES ASSUME NEW x \in Conns, snap'[x] # None PROVE snap'[x].mark <= db'.stored
      OBVIOUS
    <2>1. snap'[x] \in {snap[x], db}
      BY Statements
    <2>2. CASE snap'[x] = db
      BY <2>2, <1>g
    <2>3. CASE snap'[x] = snap[x]
      BY <2>3, <1>g, <1>sn
    <2> QED BY <2>1, <2>2, <2>3
  <1>2. ASSUME NEW c \in Collectors, pc'[c] = "batch"
        PROVE  since'[c] < next'[c] /\ next'[c] - 1 <= db'.stored /\ last'[c] <= logged'
    <2>pc. pc \in [Collectors -> {"poll", "batch", "maintain", "purged", "vacuum", "sleep"}]
      BY DEF TypeInv, TypeOK
    <2>1. CASE Stays(c)
      <3>1. pc[c] = "batch" /\ since'[c] = since[c] /\ next'[c] = next[c] /\ last'[c] = last[c]
        BY <1>2, <2>1 DEF Stays
      <3>2. since[c] < next[c] /\ next[c] - 1 <= db.stored /\ last[c] <= logged
        BY <3>1 DEF StoredInv
      <3> QED BY <1>g, <1>ty, <3>1, <3>2
    <2>2. CASE GetLastTs(c)
      <3>1. Seen(c).mark \in Nat /\ Seen(c).mark <= db.stored
        BY <1>g, <1>sn, NoneIsNone DEF Seen
      <3>2. since'[c] = Seen(c).mark /\ next'[c] = Seen(c).mark + 1 /\ last'[c] = logged
        BY <2>2, <1>ty DEF GetLastTs
      <3> QED BY <1>g, <1>ty, <3>1, <3>2
    <2>3. CASE InsertEvent(c)
      <3>1. since'[c] = since[c] /\ next'[c] = next[c] + 1 /\ last'[c] = last[c] /\ pc[c] = "batch"
        BY <2>3, <1>ty DEF InsertEvent
      <3>2. since[c] < next[c] /\ last[c] <= logged
        BY <3>1 DEF StoredInv
      <3>3. CASE next[c] > db.stored /\ Commit(c, [db EXCEPT !.stored = next[c]])
        <4>1. db'.stored = next[c]
          BY <3>3, <1>ty DEF Commit, TypeInv, TypeOK, Database
        <4> QED BY <1>g, <1>ty, <3>1, <3>2, <4>1
      <3>4. CASE next[c] <= db.stored
        BY <1>g, <1>ty, <3>1, <3>2, <3>4
      <3> QED BY <2>3, <3>3, <3>4 DEF InsertEvent
    <2>4. ~NormalizeFails(c) /\ ~SetLastTs(c) /\ ~StartVacuum(c) /\ ~EndVacuum(c) /\ ~VacuumFails(c)
      BY <1>2, <2>pc DEF NormalizeFails, SetLastTs, StartVacuum, EndVacuum, VacuumFails, Goto
    <2>5. ~Maintain(c) /\ ~CycleFails(c) /\ ~WakeUp(c) /\ ~Restart(c)
      BY <1>2, <2>pc DEF Maintain, CycleFails, WakeUp, Restart, Goto
    <2> QED BY <2>1, <2>2, <2>3, <2>4, <2>5, OwnSteps
  <1> QED BY <1>g, <1>1, <1>2 DEF StoredInv, MarkIsStored

\* Collectors that overlap, repeat each other's inserts and overwrite each other's
\* watermark never move it past an event that is not stored (MarkIsStored).
THEOREM MarkCovered == Spec => []MarkIsStored
  <1>1. StoredInv => MarkIsStored
    BY DEF StoredInv
  <1> QED BY <1>1, TypeInit, TypeNext, StoredInit, StoredNext, PTL DEF Spec


-----------------------------------------------------------------------------
(* The lock *)

\* What is stored ends before the first record that cannot be parsed.  A
\* collector that holds the lock in a transaction sees the latest state, and as
\* long as it does its batch has records beyond the watermark: the end of the
\* batch commits.
LockInv ==
    /\ \A r \in Unparsable : r > db.stored
    /\ \A c \in Collectors : lock = c =>
            /\ pc[c] \in {"poll", "batch", "sleep", "vacuum"}
            /\ pc[c] # "vacuum" => open[c] /\ snap[c] = db
            /\ pc[c] = "poll" => db.mark < logged
            /\ pc[c] = "batch" => since[c] < last[c]
            /\ pc[c] = "sleep" => next[c] \in Unparsable /\ next[c] <= logged

LEMMA LockInit == Init => LockInv
  <1> SUFFICES ASSUME Init PROVE LockInv
    OBVIOUS
  <1>1. \A r \in Unparsable : r > db.stored
    <2>1. db.stored = 0
      BY DEF Init
    <2> QED BY <2>1, RecordsAssumption
  <1>2. \A c \in Collectors : lock # c
    BY NoneIsNone DEF Init
  <1> QED BY <1>1, <1>2 DEF LockInv

\* What is stored grows by one record at a time, one that could be parsed.
LEMMA ParsedNext ==
  ASSUME TypeInv, StoredInv, \A r \in Unparsable : r > db.stored, [Next]_vars
  PROVE  \A r \in Unparsable : r > db'.stored
  <1>1. ASSUME NEW c \in Collectors, InsertEvent(c), db'.stored = next[c]
        PROVE  \A r \in Unparsable : r > db'.stored
    <2>1. next[c] \notin Unparsable /\ next[c] - 1 <= db.stored /\ next[c] \in Nat
      BY <1>1, RecordsAssumption DEF InsertEvent, StoredInv, TypeInv, TypeOK
    <2>2. db.stored \in Nat /\ Unparsable \subseteq Nat
      BY RecordsAssumption DEF TypeInv, TypeOK, Database
    <2> QED BY <1>1, <2>1, <2>2
  <1> QED BY <1>1, Statements

\* A collector that waits for the lock, or whose write fails, does not hold it; one
\* that holds it keeps everybody else from changing what it sees.
LEMMA LockNext == TypeInv /\ StoredInv /\ LockInv /\ [Next]_vars => LockInv'
  <1> SUFFICES ASSUME TypeInv, StoredInv, LockInv, [Next]_vars,
                      NEW c \in Collectors, lock' = c
               PROVE  /\ pc'[c] \in {"poll", "batch", "sleep", "vacuum"}
                      /\ pc'[c] # "vacuum" => open'[c] /\ snap'[c] = db'
                      /\ pc'[c] = "poll" => db'.mark < logged'
                      /\ pc'[c] = "batch" => since'[c] < last'[c]
                      /\ pc'[c] = "sleep" => next'[c] \in Unparsable /\ next'[c] <= logged'
    BY ParsedNext DEF LockInv
  <1>ty. /\ since \in [Collectors -> Nat] /\ next \in [Collectors -> Nat]
         /\ last \in [Collectors -> Nat] /\ logged \in Nat /\ logged' \in Nat /\ logged <= logged'
         /\ pc \in [Collectors -> {"poll", "batch", "maintain", "purged", "vacuum", "sleep"}]
         /\ open \in [Conns -> BOOLEAN] /\ snap \in [Conns -> Database \cup {None}]
         /\ db.mark \in Nat /\ db.stored \in Nat /\ db.mark <= db.stored
         /\ c # None /\ c \in Conns
    <2>1. /\ since \in [Collectors -> 0..MaxRecords] /\ next \in [Collectors -> 1..MaxRecords + 1]
          /\ last \in [Collectors -> 0..MaxRecords] /\ logged \in 0..MaxRecords
          /\ db.mark \in 0..MaxRecords /\ db.stored \in 0..MaxRecords
      BY DEF TypeInv, TypeOK, Database
    <2>2. logged' \in Nat /\ logged <= logged'
      BY Statements
    <2> QED BY <2>1, <2>2, RecordsAssumption, NoneIsNone DEF TypeInv, TypeOK, StoredInv, MarkIsStored
  <1>db. db' = db
    <2>1. lock' # None
      BY <1>ty
    <2> QED BY <2>1, Statements
  <1>1. CASE Stays(c)
    <2>1. lock = c
      BY <1>1 DEF Stays
    <2> QED BY <1>1, <1>ty, <1>db, <2>1 DEF LockInv, Stays
  <1>2. CASE GetLastTs(c)
    <2>1. /\ lock = c /\ pc[c] = "poll" /\ pc'[c] = "batch"
          /\ open' = open /\ since'[c] = Seen(c).mark /\ last'[c] = logged
          /\ snap' = [snap EXCEPT ![c] = IF open[c] THEN Seen(c) ELSE None]
      BY <1>2, <1>ty DEF GetLastTs, Read, Goto
    <2>2. open[c] /\ snap[c] = db /\ db.mark < logged
      BY <2>1 DEF LockInv
    <2>3. Seen(c) = db
      BY <2>2 DEF Seen
    <2>4. snap'[c] = db
      BY <2>1, <2>2, <2>3, <1>ty
    <2> QED BY <2>1, <2>2, <2>3, <2>4, <1>db
  <1>3. CASE InsertEvent(c)
    <2>1. /\ WriteUncommitted(c)
          /\ pc[c] = "batch" /\ pc' = pc /\ next[c] <= last[c] /\ since' = since /\ last' = last
      BY <1>3, <1>ty DEF InsertEvent, Commit
    <2>2. open'[c] /\ snap'[c] = db
      BY <2>1, <1>ty DEF WriteUncommitted
    <2>3. since[c] < next[c]
      BY <2>1 DEF StoredInv
    <2> QED BY <2>1, <2>2, <2>3, <1>ty, <1>db
  <1>4. CASE NormalizeFails(c)
    <2>1. /\ lock = c /\ pc[c] = "batch" /\ pc'[c] = "sleep" /\ open' = open /\ snap' = snap
          /\ next' = next /\ next[c] \in Unparsable /\ next[c] <= last[c] /\ logged' = logged
      BY <1>4, <1>ty DEF NormalizeFails, conns, batch, Goto
    <2>2. open[c] /\ snap[c] = db
      BY <2>1 DEF LockInv
    <2>3. last[c] <= logged
      BY <2>1 DEF StoredInv
    <2> QED BY <2>1, <2>2, <2>3, <1>ty, <1>db
  <1>5. ~SetLastTs(c)
    <2> SUFFICES ASSUME SetLastTs(c) PROVE FALSE
      OBVIOUS
    <2>1. pc[c] = "batch" /\ last[c] <= since[c] /\ lock = c
      BY <1>ty DEF SetLastTs, Commit, conns
    <2> QED BY <2>1, <1>ty DEF LockInv
  <1>6. ~Maintain(c)
    BY <1>ty DEF Maintain, Commit, conns, LockInv
  <1>7. CASE StartVacuum(c)
    BY <1>7, <1>ty DEF StartVacuum, Goto
  <1>8. ~EndVacuum(c)
    BY <1>ty DEF EndVacuum
  <1>9. ~VacuumFails(c)
    BY <1>ty DEF VacuumFails, conns, LockInv
  <1>10. ~CycleFails(c)
    <2> SUFFICES ASSUME CycleFails(c) PROVE FALSE
      OBVIOUS
    <2>1. pc[c] \in {"batch", "maintain"} /\ lock = c
          /\ (snap[c] \notin {None, db} \/ lock \notin {None, c})
      BY DEF CycleFails, WriteFails, Locked
    <2> QED BY <2>1 DEF LockInv
  <1>11. CASE WakeUp(c)
    <2>1. /\ lock = c /\ pc[c] = "sleep" /\ pc'[c] = "poll" /\ open' = open /\ snap' = snap
          /\ logged' = logged
      BY <1>11, <1>ty DEF WakeUp, conns, Goto
    <2>2. open[c] /\ snap[c] = db /\ next[c] \in Unparsable /\ next[c] <= logged
      BY <2>1 DEF LockInv
    <2>3. next[c] > db.stored
      BY <2>2 DEF LockInv
    <2> QED BY <2>1, <2>2, <2>3, <1>ty, <1>db
  <1>12. ~Restart(c)
    BY <1>ty DEF Restart
  <1> QED BY <1>1, <1>2, <1>3, <1>4, <1>5, <1>6, <1>7, <1>8, <1>9, <1>10, <1>11, <1>12, OwnSteps

\* A collector that goes to sleep leaves the write lock, unless a record it cannot
\* parse came behind one it had stored before (SleepsWithoutLock).
THEOREM LockReleased == Spec => []SleepsWithoutLock
  <1>1. LockInv => SleepsWithoutLock
    BY DEF LockInv, SleepsWithoutLock
  <1> QED BY <1>1, TypeInit, TypeNext, StoredInit, StoredNext, LockInit, LockNext, PTL DEF Spec
=============================================================================
