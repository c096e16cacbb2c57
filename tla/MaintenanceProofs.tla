--------------------------- MODULE MaintenanceProofs ---------------------------
(***************************************************************************)
(* Proofs about Maintenance, for all intervals and every lookback: the     *)
(* type invariant, that the posture findings keep up with the time their   *)
(* scan is marked with, and that the feed loses an indicator only after a  *)
(* lapse or too many failed refreshes.                                     *)
(***************************************************************************)
EXTENDS Maintenance, TLAPS

\* age as the function it is.
TypeInv == TypeOK /\ age \in [Tasks -> Nat]

\* The actions by name, for the proofs that go through all of them.
LEMMA Steps ==
  ASSUME [Next]_vars
  PROVE  \/ UNCHANGED vars
         \/ Tick \/ RowsExpire \/ IndicatorReported \/ \E t \in Tasks : Switch(t)
         \/ StartCycle
         \/ \E t \in Tasks : SkipTask(t) \/ MarkDone(t)
         \/ Purge \/ Vacuum \/ Refresh \/ RefreshFails \/ Scan \/ StoreScan
         \/ CycleFails \/ ScanNow \/ StoreScanNow
  BY SwitchedAssumption DEF Next, RunPeriodicTasks

\* The constants as the proofs use them.
LEMMA Constants ==
  /\ \A t \in Tasks : Interval[t] \in Nat /\ Interval[t] > 0
  /\ {"retention", "threat_intel", "posture"} = Tasks
  /\ Lookback \in Nat /\ MaxFailed \in Nat
  /\ None \notin Nat /\ None \notin Tasks /\ NoPorts \notin Nat /\ NoPorts # None
  BY IntervalAssumption, LookbackAssumption, NoneAssumption DEF Tasks, Lookback

\* The task after another is one of the three, or none.
LEMMA NextTask ==
  ASSUME NEW t \in Tasks, ToNextTask(t)
  PROVE  /\ step' = "check"
         /\ t = "retention" => task' = "threat_intel"
         /\ t = "threat_intel" => task' = "posture"
         /\ t = "posture" => task' = None
         /\ polled' = (polled \/ t = "posture")
  BY DEF ToNextTask, Tasks

\* An age that grows stays within its limit, and by one when it is below.
LEMMA OlderType ==
  ASSUME NEW limit \in Nat, NEW a \in 0..limit
  PROVE  /\ Older(a, limit) \in 0..limit
         /\ a < limit => Older(a, limit) = a + 1
         /\ a = limit => Older(a, limit) = limit
         /\ Older(a, limit) <= a + 1
  BY DEF Older

-----------------------------------------------------------------------------
(* The type invariant *)

LEMMA TypeInit == Init => TypeInv
  <1> SUFFICES ASSUME Init PROVE TypeInv
    OBVIOUS
  <1> USE Constants
  <1>1. age \in [Tasks -> Nat] /\ \A t \in Tasks : age[t] \in 0..Limit(t)
    BY DEF Init, Limit
  <1>2. enabled \subseteq Tasks
    BY DEF Init
  <1>3. 0 \in 0..MaxFailed
    OBVIOUS
  <1>4. TypeOK
    BY <1>1, <1>2, <1>3 DEF Init, TypeOK
  <1> QED BY <1>1, <1>4 DEF TypeInv

LEMMA TypeNext == TypeInv /\ [Next]_vars => TypeInv'
  <1> SUFFICES ASSUME TypeInv, [Next]_vars PROVE TypeInv'
    OBVIOUS
  <1> USE Constants
  <1>ty. /\ age \in [Tasks -> Nat] /\ \A t \in Tasks : age[t] \in 0..Limit(t)
         /\ enabled \subseteq Tasks
         /\ task \in Tasks \cup {None}
         /\ step \in {"check", "vacuum", "store", "mark"}
         /\ task = None => step = "check"
         /\ polled \in BOOLEAN /\ expired \in BOOLEAN /\ freed \in BOOLEAN
         /\ unknown \in 0..(Lookback + 1) \cup {None}
         /\ findings \in 0..OldestScan \cup {None, NoPorts}
         /\ scanned \in {0, NoPorts}
         /\ gui \in {0, 1, NoPorts, None}
         /\ failed \in 0..MaxFailed /\ lapsed \in BOOLEAN
    BY DEF TypeInv, TypeOK
  <1>ze. 0 \in 0..MaxFailed /\ 0 \in 0..(Lookback + 1)
    OBVIOUS
  <1>li. OldestScan \in Nat /\ 1 \in 0..OldestScan /\ 0 \in 0..OldestScan
         /\ \A t \in Tasks : Limit(t) \in Nat /\ 0 \in 0..Limit(t)
    BY DEF OldestScan, Limit
  <1>1. CASE UNCHANGED vars
    BY <1>1, <1>ty DEF vars, feed, scans, TypeInv, TypeOK
  <1>2. CASE Tick
    <2>1. age' \in [Tasks -> Nat] /\ \A t \in Tasks : age'[t] \in 0..Limit(t)
      <3>1. \A t \in Tasks : Older(age[t], Limit(t)) \in 0..Limit(t)
        BY <1>ty, <1>li, OlderType
      <3>2. age' = [t \in Tasks |-> Older(age[t], Limit(t))]
        BY <1>2 DEF Tick
      <3> QED BY <1>li, <3>1, <3>2
    <2>2. unknown' \in 0..(Lookback + 1) \cup {None}
      <3>1. unknown # None => Older(unknown, Lookback + 1) \in 0..(Lookback + 1)
        BY <1>ty DEF Older
      <3> QED BY <1>2, <3>1 DEF Tick
    <2>3. findings' \in 0..OldestScan \cup {None, NoPorts}
      <3>1. findings \notin {None, NoPorts} => Older(findings, OldestScan) \in 0..OldestScan
        BY <1>ty, <1>li, OlderType
      <3> QED BY <1>2, <1>ty, <3>1 DEF Tick
    <2>4. gui' \in {0, 1, NoPorts, None}
      <3>1. gui \in {0, 1, NoPorts, None} /\ gui # 1
            /\ gui' = IF gui \in {None, NoPorts} THEN gui ELSE Older(gui, 1)
        BY <1>2, <1>ty DEF Tick
      <3>2. Older(0, 1) = 1
        BY DEF Older
      <3> QED BY <3>1, <3>2
    <2> QED BY <1>2, <1>ty, <2>1, <2>2, <2>3, <2>4 DEF Tick, TypeInv, TypeOK
  <1>3. CASE RowsExpire \/ IndicatorReported
    <2>1. CASE RowsExpire
      BY <1>ty, <2>1 DEF RowsExpire, feed, scans, TypeInv, TypeOK
    <2>2. CASE IndicatorReported
      BY <1>ty, <1>ze, <2>2 DEF IndicatorReported, scans, TypeInv, TypeOK
    <2> QED BY <1>3, <2>1, <2>2
  <1>4. ASSUME NEW t \in Tasks, Switch(t) PROVE TypeInv'
    <2>1. enabled' \subseteq Tasks /\ lapsed' \in BOOLEAN
      BY <1>4, <1>ty DEF Switch
    <2> QED BY <1>4, <1>ty, <2>1 DEF Switch, scans, TypeInv, TypeOK
  <1>5. CASE StartCycle
    BY <1>5, <1>ty DEF StartCycle, feed, scans, TypeInv, TypeOK
  <1>6. ASSUME NEW t \in Tasks, SkipTask(t) PROVE TypeInv'
    <2>1. step' = "check" /\ task' \in Tasks \cup {None} /\ polled' \in BOOLEAN
      BY <1>6, <1>ty, NextTask DEF SkipTask
    <2> QED BY <1>6, <1>ty, <2>1 DEF SkipTask, feed, scans, TypeInv, TypeOK
  <1>7. ASSUME NEW t \in Tasks, MarkDone(t) PROVE TypeInv'
    <2>1. step' = "check" /\ task' \in Tasks \cup {None} /\ polled' \in BOOLEAN
      BY <1>7, <1>ty, NextTask DEF MarkDone
    <2>2. age' \in [Tasks -> Nat] /\ \A u \in Tasks : age'[u] \in 0..Limit(u)
      BY <1>7, <1>ty, <1>li DEF MarkDone
    <2> QED BY <1>7, <1>ty, <2>1, <2>2 DEF MarkDone, feed, scans, TypeInv, TypeOK
  <1>8. CASE Purge \/ Vacuum
    BY <1>8, <1>ty DEF Purge, Vacuum, At, feed, scans, TypeInv, TypeOK
  <1>9. CASE Refresh
    BY <1>9, <1>ty, <1>ze DEF Refresh, At, scans, TypeInv, TypeOK
  <1>10. CASE RefreshFails
    <2>1. failed' \in 0..MaxFailed
      BY <1>10, <1>ty, OlderType DEF RefreshFails
    <2> QED BY <1>10, <1>ty, <2>1 DEF RefreshFails, At, scans, TypeInv, TypeOK
  <1>11. CASE Scan
    BY <1>11, <1>ty DEF Scan, At, feed, TypeInv, TypeOK
  <1>12. CASE StoreScan
    BY <1>12, <1>ty, <1>li DEF StoreScan, At, feed, TypeInv, TypeOK
  <1>13. CASE CycleFails
    BY <1>13, <1>ty DEF CycleFails, scans, TypeInv, TypeOK
  <1>14. CASE ScanNow \/ StoreScanNow
    BY <1>14, <1>ty, <1>li DEF ScanNow, StoreScanNow, feed, TypeInv, TypeOK
  <1> QED BY <1>1, <1>2, <1>3, <1>4, <1>5, <1>6, <1>7, <1>8, <1>9, <1>10, <1>11, <1>12, <1>13,
             <1>14, Steps

\* Every variable stays in its type, and a new cycle starts at the first task (TypeOK).
THEOREM TypeCorrect == Spec => []TypeOK
  <1>1. TypeInv => TypeOK
    BY DEF TypeInv
  <1> QED BY <1>1, TypeInit, TypeNext, PTL DEF Spec

-----------------------------------------------------------------------------
(* The posture scan *)

\* A scan that is about to be marked as done has stored its findings, or a
\* Scan Now has stored those it had been reading up to a tick.
ScanInv ==
    /\ FindingsFollowScan
    /\ At("posture", "mark") => findings \in {0, 1, NoPorts}

LEMMA ScanInit == Init => ScanInv
  <1> SUFFICES ASSUME Init PROVE ScanInv
    OBVIOUS
  <1>1. age["posture"] = Interval["posture"] /\ task = None
    BY Constants DEF Init
  <1> QED BY <1>1, Constants DEF ScanInv, FindingsFollowScan, At

\* Findings grow no older than the mark, and what a scan stores, or a Scan Now, is
\* at most a tick old.
LEMMA ScanNext == TypeInv /\ ScanInv /\ [Next]_vars => ScanInv'
  <1> SUFFICES ASSUME TypeInv, ScanInv, [Next]_vars PROVE ScanInv'
    OBVIOUS
  <1> DEFINE a == age["posture"]
             I == Interval["posture"]
             Fresh(f, x) == f = NoPorts \/ (f # None /\ f <= x + 1)
  <1>ty. /\ age \in [Tasks -> Nat] /\ a \in 0..(I + 1) /\ I \in Nat /\ I > 0
         /\ findings \in 0..(I + 2) \cup {None, NoPorts}
         /\ scanned \in {0, NoPorts} /\ gui \in {0, 1, NoPorts, None}
         /\ "posture" \in Tasks /\ None \notin Nat /\ NoPorts \notin Nat /\ None \notin Tasks
    <2>1. "posture" \in Tasks /\ I \in Nat /\ I > 0 /\ Limit("posture") = I + 1
      BY Constants DEF Limit
    <2>2. OldestScan = I + 2
      BY <2>1 DEF OldestScan
    <2> QED BY <2>1, <2>2, Constants DEF TypeInv, TypeOK
  <1>in. /\ a < I => Fresh(findings, a)
         /\ At("posture", "mark") => findings \in {0, 1, NoPorts}
    BY DEF ScanInv, FindingsFollowScan
  \* Enough to show.
  <1>0. ASSUME age'["posture"] < I => Fresh(findings', age'["posture"]),
               At("posture", "mark")' => findings' \in {0, 1, NoPorts}
        PROVE  ScanInv'
    BY <1>0 DEF ScanInv, FindingsFollowScan
  <1>1. CASE UNCHANGED <<age, findings, task, step>>
    BY <1>0, <1>1, <1>in DEF At
  <1>2. CASE Tick
    <2>1. task' = None /\ age'["posture"] = Older(a, I + 1)
      BY <1>2, <1>ty DEF Tick, Limit
    <2>2. ASSUME age'["posture"] < I PROVE Fresh(findings', age'["posture"])
      <3>1. a < I /\ age'["posture"] = a + 1
        BY <1>ty, <2>1, <2>2 DEF Older
      <3>2. Fresh(findings, a)
        BY <1>in, <3>1
      <3>3. CASE findings = NoPorts
        BY <1>2, <3>3 DEF Tick
      <3>4. CASE findings \in 0..(I + 2) /\ findings <= a + 1
        <4>1. findings' = Older(findings, OldestScan) /\ OldestScan = I + 2
          BY <1>2, <1>ty, <3>4 DEF Tick, OldestScan, Limit
        <4>2. findings' = findings + 1
          BY <4>1, <3>1, <3>4, <1>ty DEF Older
        <4> QED BY <3>1, <3>4, <4>2, <1>ty
      <3> QED BY <3>2, <3>3, <3>4, <1>ty
    <2>3. ~At("posture", "mark")'
      BY <2>1, <1>ty DEF At
    <2> QED BY <1>0, <2>2, <2>3
  <1>3. CASE UNCHANGED <<age, findings>> /\ step' # "mark"
    BY <1>0, <1>3, <1>in DEF At
  <1>4. CASE UNCHANGED <<age, findings>> /\ task' # "posture"
    BY <1>0, <1>4, <1>in DEF At
  <1>5. ASSUME NEW t \in Tasks, MarkDone(t) PROVE ScanInv'
    <2>1. step' = "check" /\ findings' = findings /\ age' = [age EXCEPT ![t] = 0] /\ At(t, "mark")
      BY <1>5, NextTask DEF MarkDone, scans
    <2>2. CASE t = "posture"
      <3>1. age'["posture"] = 0 /\ findings \in {0, 1, NoPorts}
        BY <2>1, <2>2, <1>ty, <1>in
      <3> QED BY <1>0, <1>ty, <2>1, <3>1 DEF At
    <2>3. CASE t # "posture"
      <3>1. age'["posture"] = a
        BY <2>1, <2>3, <1>ty
      <3> QED BY <1>0, <1>in, <2>1, <3>1 DEF At
    <2> QED BY <2>2, <2>3
  <1>6. CASE age' = age /\ findings' \in {0, 1, NoPorts}
    BY <1>0, <1>6, <1>ty
  <1>7. CASE UNCHANGED vars \/ RowsExpire \/ IndicatorReported \/ \E t \in Tasks : Switch(t)
    BY <1>1, <1>7 DEF vars, RowsExpire, IndicatorReported, Switch, scans
  <1>8. ASSUME NEW t \in Tasks, SkipTask(t) PROVE ScanInv'
    BY <1>3, <1>8, NextTask DEF SkipTask, scans
  <1>9. CASE Purge \/ Vacuum \/ Refresh \/ RefreshFails
    BY <1>4, <1>9, <1>ty DEF Purge, Vacuum, Refresh, RefreshFails, At, scans
  <1>10. CASE StartCycle \/ CycleFails
    BY <1>4, <1>10, <1>ty DEF StartCycle, CycleFails, scans
  <1>11. CASE Scan
    BY <1>3, <1>11 DEF Scan
  <1>12. CASE StoreScan
    BY <1>6, <1>12, <1>ty DEF StoreScan
  <1>13. CASE ScanNow
    BY <1>1, <1>13 DEF ScanNow
  <1>14. CASE StoreScanNow
    BY <1>6, <1>14, <1>ty DEF StoreScanNow
  <1> QED BY <1>2, <1>5, <1>7, <1>8, <1>9, <1>10, <1>11, <1>12, <1>13, <1>14, Steps

\* When the posture scan is marked as less than an interval ago, the findings are of
\* that scan or a later one, or of a Scan Now that began up to a tick earlier
\* (FindingsFollowScan).
THEOREM FindingsFresh == Spec => []FindingsFollowScan
  <1>1. ScanInv => FindingsFollowScan
    BY DEF ScanInv
  <1> QED BY <1>1, TypeInit, TypeNext, ScanInit, ScanNext, PTL DEF Spec

-----------------------------------------------------------------------------
(* The feed *)

\* As long as the feed has not lapsed, a refresh that is due runs in the cycle
\* that finds it due, before the next tick.
FeedInv ==
    ~lapsed =>
        /\ "threat_intel" \in enabled
        /\ IF At("threat_intel", "mark")
           THEN age["threat_intel"] >= Interval["threat_intel"]
           ELSE /\ age["threat_intel"] <= Interval["threat_intel"]
                /\ polled \/ task = "posture" => age["threat_intel"] < Interval["threat_intel"]

\* And until too many refreshes have failed in a row, no indicator is unknown for
\* longer than those that failed and the time since the last of them.
UnknownInv ==
    ~lapsed /\ unknown # None =>
        \/ failed = MaxFailed
        \/ IF At("threat_intel", "mark")
           THEN unknown <= failed * Interval["threat_intel"]
           ELSE unknown <= failed * Interval["threat_intel"] + age["threat_intel"]

FeedTask == "threat_intel"

LEMMA FeedInit == Init => FeedInv /\ UnknownInv
  BY DEF Init, FeedInv, UnknownInv

\* What both invariants are about, named once.
LEMMA FeedTypes ==
  ASSUME TypeInv
  PROVE  /\ age \in [Tasks -> Nat] /\ FeedTask \in Tasks
         /\ age[FeedTask] \in 0..(Interval[FeedTask] + 1)
         /\ Interval[FeedTask] \in Nat /\ Interval[FeedTask] > 0
         /\ task \in Tasks \cup {None} /\ enabled \subseteq Tasks /\ polled \in BOOLEAN
         /\ unknown \in 0..(Lookback + 1) \cup {None} /\ None \notin Nat /\ None \notin Tasks
         /\ failed \in 0..MaxFailed /\ lapsed \in BOOLEAN
         /\ task = None => step = "check"
         /\ Tasks = {"retention", "threat_intel", "posture"}
         /\ Lookback \in Nat /\ MaxFailed \in Nat
  BY Constants DEF TypeInv, TypeOK, Limit, FeedTask

\* The clock waits for a cycle to end, and a cycle that passes the feed by, or fails
\* before it, finds it not due or is a lapse.
LEMMA FeedNext == TypeInv /\ FeedInv /\ [Next]_vars => FeedInv'
  <1> SUFFICES ASSUME TypeInv, FeedInv, [Next]_vars, ~lapsed'
               PROVE  /\ FeedTask \in enabled'
                      /\ At(FeedTask, "mark")' => age'[FeedTask] >= Interval[FeedTask]
                      /\ ~At(FeedTask, "mark")' =>
                            /\ age'[FeedTask] <= Interval[FeedTask]
                            /\ polled' \/ task' = "posture" => age'[FeedTask] < Interval[FeedTask]
    BY DEF FeedInv, FeedTask
  <1> DEFINE a == age[FeedTask]
             I == Interval[FeedTask]
             Marking == At(FeedTask, "mark")
  <1>ty. /\ age \in [Tasks -> Nat] /\ FeedTask \in Tasks
         /\ a \in Nat /\ a <= I + 1 /\ I \in Nat /\ I > 0
         /\ task \in Tasks \cup {None} /\ enabled \subseteq Tasks /\ polled \in BOOLEAN
         /\ None \notin Tasks /\ lapsed \in BOOLEAN
         /\ (task = None => step = "check")
         /\ Tasks = {"retention", "threat_intel", "posture"}
    BY FeedTypes
  <1>in. ~lapsed => /\ FeedTask \in enabled
                    /\ Marking => a >= I
                    /\ ~Marking => a <= I /\ (polled \/ task = "posture" => a < I)
    BY DEF FeedInv, FeedTask
  <1>str. /\ FeedTask # "retention" /\ FeedTask # "posture" /\ FeedTask = "threat_intel"
          /\ "check" # "mark" /\ "vacuum" # "mark" /\ "store" # "mark"
    BY DEF FeedTask
  <1>1. CASE UNCHANGED <<age, enabled, task, step, polled, lapsed>>
    BY <1>1, <1>in DEF At
  <1>2. CASE Tick
    <2>1. /\ task = None /\ task' = None /\ polled /\ polled' = FALSE /\ enabled' = enabled /\ ~lapsed
          /\ age'[FeedTask] = Older(a, I + 1)
      BY <1>2, <1>ty DEF Tick, Limit
    <2>2. ~Marking /\ ~At(FeedTask, "mark")'
      BY <2>1, <1>ty DEF At
    <2>3. a < I /\ age'[FeedTask] = a + 1
      BY <2>1, <2>2, <1>in, <1>ty DEF Older
    <2> QED BY <2>1, <2>2, <2>3, <1>in, <1>ty
  <1>3. ASSUME NEW t \in Tasks, Switch(t)
        PROVE  ~lapsed /\ UNCHANGED <<age, task, step, polled>> /\ FeedTask \in enabled'
    BY <1>3, <1>in, <1>str DEF Switch
  <1>4. CASE StartCycle
    <2>1. ~lapsed /\ task = None /\ task' = "retention" /\ UNCHANGED <<age, enabled, step, polled>>
      BY <1>4 DEF StartCycle, feed
    <2>2. ~Marking /\ ~At(FeedTask, "mark")'
      BY <2>1, <1>ty, <1>str DEF At
    <2> QED BY <2>1, <2>2, <1>in, <1>str
  <1>5. ASSUME NEW t \in Tasks, SkipTask(t)
        PROVE  /\ FeedTask \in enabled' /\ ~At(FeedTask, "mark")'
               /\ age'[FeedTask] <= I
               /\ polled' \/ task' = "posture" => age'[FeedTask] < I
    <2>1. /\ ~lapsed /\ UNCHANGED <<age, enabled>> /\ At(t, "check") /\ ~Due(t) /\ step' = "check"
          /\ polled' = (polled \/ t = "posture") /\ (task' = "posture" => t = FeedTask)
      BY <1>5, <1>ty, <1>str, NextTask DEF SkipTask, feed
    <2>2. ~Marking /\ ~At(FeedTask, "mark")' /\ task = t
      BY <2>1, <1>str DEF At
    <2>3. t = FeedTask => a < I
      BY <2>1, <1>in, <1>ty DEF Due
    <2> QED BY <2>1, <2>2, <2>3, <1>in, <1>ty
  <1>6. ASSUME NEW t \in Tasks, MarkDone(t)
        PROVE  /\ FeedTask \in enabled' /\ ~At(FeedTask, "mark")'
               /\ age'[FeedTask] <= I
               /\ polled' \/ task' = "posture" => age'[FeedTask] < I
    <2>1. /\ ~lapsed /\ enabled' = enabled /\ At(t, "mark") /\ step' = "check"
          /\ age' = [age EXCEPT ![t] = 0]
          /\ polled' = (polled \/ t = "posture") /\ (task' = "posture" => t = FeedTask)
      BY <1>6, <1>ty, <1>str, NextTask DEF MarkDone, feed
    <2>2. ~At(FeedTask, "mark")' /\ task = t
      BY <2>1, <1>str DEF At
    <2>3. CASE t = FeedTask
      <3>1. age'[FeedTask] = 0
        BY <2>1, <2>3, <1>ty
      <3> QED BY <2>1, <2>2, <3>1, <1>in, <1>ty
    <2>4. CASE t # FeedTask
      <3>1. age'[FeedTask] = a /\ ~Marking
        BY <2>1, <2>4, <1>ty DEF At
      <3> QED BY <2>1, <2>2, <2>4, <3>1, <1>in, <1>ty
    <2> QED BY <2>3, <2>4
  <1>7. CASE Purge \/ Vacuum \/ Scan \/ StoreScan
    <2>1. /\ UNCHANGED <<age, enabled, task, polled, lapsed>> /\ task # FeedTask
      BY <1>7, <1>str DEF Purge, Vacuum, Scan, StoreScan, At, feed
    <2>2. ~Marking /\ ~At(FeedTask, "mark")'
      BY <2>1 DEF At
    <2> QED BY <2>1, <2>2, <1>in
  <1>8. CASE Refresh \/ RefreshFails
    <2>1. /\ UNCHANGED <<age, enabled, task, polled>> /\ Due(FeedTask) /\ task = FeedTask /\ step' = "mark"
      BY <1>8 DEF Refresh, RefreshFails, At, FeedTask
    <2>2. At(FeedTask, "mark")' /\ FeedTask \in enabled /\ a >= I
      BY <2>1 DEF At, Due
    <2> QED BY <2>1, <2>2
  <1>9. CASE CycleFails
    <2>1. /\ UNCHANGED <<age, enabled>> /\ ~lapsed /\ ~Due(FeedTask) /\ step' = "check"
      BY <1>9, <1>str DEF CycleFails
    <2>2. FeedTask \in enabled /\ a < I
      BY <2>1, <1>in, <1>ty DEF Due
    <2>3. ~At(FeedTask, "mark")'
      BY <2>1, <1>str DEF At
    <2> QED BY <2>1, <2>2, <2>3, <1>ty
  <1>10. CASE UNCHANGED vars \/ RowsExpire \/ IndicatorReported \/ ScanNow \/ StoreScanNow
    BY <1>1, <1>10 DEF vars, RowsExpire, IndicatorReported, ScanNow, StoreScanNow, feed
  <1>11. ASSUME ~lapsed, UNCHANGED <<age, task, step, polled>>, FeedTask \in enabled'
         PROVE  /\ At(FeedTask, "mark")' => age'[FeedTask] >= I
                /\ ~At(FeedTask, "mark")' =>
                      age'[FeedTask] <= I /\ (polled' \/ task' = "posture" => age'[FeedTask] < I)
    BY <1>11, <1>in DEF At
  <1> QED BY <1>2, <1>3, <1>4, <1>5, <1>6, <1>7, <1>8, <1>9, <1>10, <1>11, Steps

\* Refreshes that fail add an interval each to what may be unknown.
LEMMA OneMore ==
  ASSUME NEW f \in Nat, NEW i \in Nat
  PROVE  (f + 1) * i = f * i + i /\ f * i \in Nat /\ 0 * i = 0
  OBVIOUS

\* The time since the last refresh that was marked, and an interval for each that
\* failed, bound the age of what is unknown.
LEMMA UnknownNext == TypeInv /\ FeedInv /\ UnknownInv /\ [Next]_vars => UnknownInv'
  <1> DEFINE a == age[FeedTask]
             I == Interval[FeedTask]
             Marking == At(FeedTask, "mark")
  <1> SUFFICES ASSUME TypeInv, FeedInv, UnknownInv, [Next]_vars,
                      ~lapsed', unknown' # None, failed' # MaxFailed
               PROVE  /\ Marking' => unknown' <= failed' * I
                      /\ ~Marking' => unknown' <= failed' * I + a'
    BY DEF UnknownInv, FeedTask
  <1>ty. /\ age \in [Tasks -> Nat] /\ FeedTask \in Tasks
         /\ a \in Nat /\ a <= I + 1 /\ I \in Nat /\ I > 0
         /\ task \in Tasks \cup {None} /\ enabled \subseteq Tasks /\ polled \in BOOLEAN
         /\ unknown \in Nat \cup {None} /\ None \notin Nat /\ None \notin Tasks
         /\ failed \in 0..MaxFailed /\ failed \in Nat /\ lapsed \in BOOLEAN /\ MaxFailed \in Nat
         /\ (task = None => step = "check")
         /\ failed * I \in Nat
    BY FeedTypes, OneMore
  <1>in. ~lapsed /\ unknown # None /\ failed # MaxFailed =>
              /\ Marking => unknown <= failed * I
              /\ ~Marking => unknown <= failed * I + a
    BY DEF UnknownInv, FeedTask
  <1>fe. ~lapsed /\ ~Marking => a <= I /\ (polled \/ task = "posture" => a < I)
    BY DEF FeedInv, FeedTask
  <1>str. /\ FeedTask # "retention" /\ FeedTask # "posture" /\ FeedTask = "threat_intel"
          /\ "check" # "mark" /\ "vacuum" # "mark" /\ "store" # "mark"
    BY DEF FeedTask
  <1>1. CASE UNCHANGED <<age, task, step, unknown, failed>> /\ ~lapsed
    BY <1>1, <1>in DEF At
  <1>2. CASE Tick
    <2>1. /\ task = None /\ task' = None /\ polled /\ ~lapsed /\ failed' = failed
          /\ a' = Older(a, I + 1) /\ unknown # None /\ unknown' = Older(unknown, Lookback + 1)
      BY <1>2, <1>ty DEF Tick, Limit
    <2>2. ~Marking /\ ~Marking'
      BY <2>1, <1>ty DEF At
    <2>3. a' = a + 1
      BY <2>1, <2>2, <1>fe, <1>ty DEF Older
    <2>4. unknown' <= unknown + 1 /\ unknown' \in Nat /\ unknown \in Nat
      BY <2>1, <1>ty DEF Older
    <2>5. unknown <= failed * I + a
      BY <2>1, <2>2, <1>in
    <2> QED BY <2>1, <2>2, <2>3, <2>4, <2>5, <1>ty
  <1>3. CASE IndicatorReported
    <2>1. unknown' = 0 /\ failed' = failed /\ a' = a
      BY <1>3 DEF IndicatorReported
    <2> QED BY <2>1, <1>ty
  <1>4. CASE StartCycle \/ CycleFails \/ \E t \in Tasks : SkipTask(t)
    <2>1. UNCHANGED <<age, unknown, failed>> /\ ~lapsed
      <3>1. CASE StartCycle
        BY <3>1 DEF StartCycle, feed
      <3>2. CASE CycleFails
        BY <3>2 DEF CycleFails
      <3>3. ASSUME NEW t \in Tasks, SkipTask(t) PROVE UNCHANGED <<age, unknown, failed>> /\ ~lapsed
        BY <3>3 DEF SkipTask, feed
      <3> QED BY <1>4, <3>1, <3>2, <3>3
    <2>2. ~Marking'
      <3>1. CASE StartCycle \/ CycleFails
        BY <3>1, <1>str DEF StartCycle, CycleFails, At
      <3>2. ASSUME NEW t \in Tasks, SkipTask(t) PROVE ~Marking'
        BY <3>2, <1>str, NextTask DEF SkipTask, At
      <3> QED BY <1>4, <3>1, <3>2
    <2> QED BY <2>1, <2>2, <1>in, <1>ty
  <1>5. ASSUME NEW t \in Tasks, MarkDone(t)
        PROVE  /\ Marking' => unknown' <= failed' * I
               /\ ~Marking' => unknown' <= failed' * I + a'
    <2>1. /\ UNCHANGED <<unknown, failed>> /\ ~lapsed /\ At(t, "mark") /\ age' = [age EXCEPT ![t] = 0]
          /\ step' = "check"
      BY <1>5, NextTask DEF MarkDone, feed
    <2>2. ~Marking'
      BY <2>1, <1>str DEF At
    <2>3. CASE t = FeedTask
      <3>1. Marking /\ a' = 0
        BY <2>1, <2>3, <1>ty
      <3> QED BY <2>1, <2>2, <3>1, <1>in, <1>ty
    <2>4. CASE t # FeedTask
      <3>1. ~Marking /\ a' = a
        BY <2>1, <2>4, <1>ty DEF At
      <3> QED BY <2>1, <2>2, <3>1, <1>in, <1>ty
    <2> QED BY <2>3, <2>4
  <1>6. CASE Purge \/ Vacuum \/ Scan \/ StoreScan
    <2>1. /\ UNCHANGED <<age, unknown, failed, task>> /\ ~lapsed /\ task # FeedTask
      BY <1>6, <1>str DEF Purge, Vacuum, Scan, StoreScan, At, feed
    <2>2. ~Marking /\ ~Marking'
      BY <2>1 DEF At
    <2> QED BY <2>1, <2>2, <1>in
  <1>7. ~Refresh
    BY DEF Refresh
  <1>8. CASE RefreshFails
    <2>1. /\ UNCHANGED <<age, unknown>> /\ ~lapsed /\ failed' = Older(failed, MaxFailed)
          /\ task = FeedTask /\ step = "check" /\ task' = FeedTask /\ step' = "mark"
      BY <1>8 DEF RefreshFails, At, FeedTask
    <2>2. ~Marking /\ Marking'
      BY <2>1, <1>str DEF At
    <2>3. failed # MaxFailed /\ failed' = failed + 1
      BY <2>1, <1>ty DEF Older
    <2>4. unknown <= failed * I + a /\ a <= I /\ unknown \in Nat
      BY <2>1, <2>2, <2>3, <1>in, <1>fe, <1>ty
    <2>5. failed' * I = failed * I + I
      BY <2>3, <1>ty, OneMore
    <2> QED BY <2>1, <2>2, <2>4, <2>5, <1>ty
  <1>9. CASE UNCHANGED vars \/ RowsExpire \/ ScanNow \/ StoreScanNow
    BY <1>1, <1>9 DEF vars, RowsExpire, ScanNow, StoreScanNow, feed
  <1>10. ASSUME NEW t \in Tasks, Switch(t)
         PROVE  UNCHANGED <<age, task, step, unknown, failed>> /\ ~lapsed
    BY <1>10 DEF Switch
  <1> QED BY <1>1, <1>2, <1>3, <1>4, <1>5, <1>6, <1>7, <1>8, <1>9, <1>10, Steps

\* The step by which an indicator becomes known is a refresh that is due.
LEMMA IndicatorStep ==
  TypeInv /\ FeedInv /\ UnknownInv /\ [Next]_vars =>
      (unknown # None /\ unknown' = None =>
            \/ unknown <= Lookback
            \/ lapsed
            \/ (failed + 1) * Interval["threat_intel"] > Lookback)
  <1> SUFFICES ASSUME TypeInv, FeedInv, UnknownInv, [Next]_vars,
                      unknown # None, unknown' = None, ~lapsed
               PROVE  \/ unknown <= Lookback
                      \/ (failed + 1) * Interval[FeedTask] > Lookback
    BY DEF FeedTask
  <1>ty. /\ age[FeedTask] \in Nat /\ Interval[FeedTask] \in Nat /\ unknown \in Nat
         /\ failed \in Nat /\ Lookback \in Nat /\ None \notin Nat
         /\ failed * Interval[FeedTask] \in Nat
         /\ (failed + 1) * Interval[FeedTask] = failed * Interval[FeedTask] + Interval[FeedTask]
    BY FeedTypes, OneMore
  <1>1. Refresh
    <2>1. ~Tick /\ ~IndicatorReported
      <3>1. unknown \in Nat => Older(unknown, Lookback + 1) \in Nat
        BY <1>ty DEF Older
      <3> QED BY <3>1, <1>ty DEF Tick, IndicatorReported
    <2>2. unknown' # unknown
      OBVIOUS
    <2>3. CASE UNCHANGED vars \/ RowsExpire \/ StartCycle \/ Purge \/ Vacuum \/ Scan \/ StoreScan
               \/ ScanNow \/ StoreScanNow
      BY <2>2, <2>3 DEF vars, RowsExpire, StartCycle, Purge, Vacuum, Scan, StoreScan, ScanNow,
                        StoreScanNow, feed
    <2>4. CASE RefreshFails \/ CycleFails
      BY <2>2, <2>4 DEF RefreshFails, CycleFails
    <2>5. ASSUME NEW t \in Tasks, Switch(t) \/ SkipTask(t) \/ MarkDone(t) PROVE FALSE
      BY <2>2, <2>5 DEF Switch, SkipTask, MarkDone, feed
    <2> QED BY <2>1, <2>3, <2>4, <2>5, Steps
  <1>2. ~At(FeedTask, "mark")
    <2>1. step = "check" /\ "check" # "mark"
      BY <1>1 DEF Refresh, At
    <2> QED BY <2>1 DEF At
  <1>3. CASE failed = MaxFailed
    BY <1>3, MaxFailedAssumption DEF FeedTask
  <1>4. CASE failed # MaxFailed
    <2>1. unknown <= failed * Interval[FeedTask] + age[FeedTask]
      BY <1>2, <1>4 DEF UnknownInv, FeedTask
    <2>2. age[FeedTask] <= Interval[FeedTask]
      BY <1>2 DEF FeedInv, FeedTask
    <2> QED BY <1>ty, <2>1, <2>2
  <1> QED BY <1>3, <1>4

\* A refresh that fails is tried again only an interval later, and the feed reports
\* no more than the lookback: an indicator is lost only if the feed lapsed, or so
\* many refreshes failed that the next came later than that (IndicatorsAreSeen).
THEOREM IndicatorsBridged == Spec => IndicatorsAreSeen
  BY TypeInit, TypeNext, FeedInit, FeedNext, UnknownNext, IndicatorStep, PTL
  DEF Spec, IndicatorsAreSeen
=============================================================================
