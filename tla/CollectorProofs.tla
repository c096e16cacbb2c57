--------------------------- MODULE CollectorProofs ---------------------------
(***************************************************************************)
(* Theorems about Collector, for any channels, log lengths, lookback and   *)
(* retention, and any number of crashes and failures.                      *)
(***************************************************************************)
EXTENDS Collector, FiniteSetTheorems, SequenceTheorems, TLAPS

\* The batch is empty between two polls, and the record handed to the engine is
\* one the collector has stored.
InPoll == pc \in {"insert", "evaluate"}
PollInv ==
    /\ ~InPoll => batch = {}
    /\ pc = "evaluate" => Current \in rows

TypeInv == TypeOK /\ PollInv

-----------------------------------------------------------------------------
(* Lemmas on the constants and the log *)

\* The constants are numbers, and there is a channel.
LEMMA Numbers ==
    /\ Len(Channels) \in Nat \ {0}
    /\ Lookback \in Nat /\ Retention \in Nat /\ PollInterval \in Nat
    /\ BackoffAfter \in Nat /\ BackoffCap \in Nat
    /\ MaxTime \in Nat /\ MaxRecords \in Nat
    /\ MaxCrashes \in Nat /\ MaxStorageErrors \in Nat /\ MaxFailures \in Nat
  BY ChannelsAssumption, NumbersAssumption

\* Every channel polled is a channel.
LEMMA ChanIsChannel == TypeOK => Chan \in ChannelSet
  BY DEF TypeOK, Chan, ChannelSet

\* A logged record has a timestamp.
LEMMA EntryType ==
  ASSUME TypeOK, NEW c \in ChannelSet, NEW i \in 1..Len(log[c])
  PROVE  log[c][i].ts \in Nat \ {0}
  <1>1. log[c] \in Seq([ts : Nat \ {0}, ok : BOOLEAN])
    BY DEF TypeOK
  <1>2. log[c][i] \in [ts : Nat \ {0}, ok : BOOLEAN]
    BY <1>1, ElementOfSeq
  <1> QED BY <1>2

\* A record appended to a log leaves the ones before it where they are.
LEMMA AppendedLog ==
  ASSUME TypeOK, NEW c \in ChannelSet, EventLogged(c)
  PROVE  \E ts \in Nat \ {0}, ok \in BOOLEAN :
            /\ ts \in 1..now /\ InOrder(c, ts)
            /\ log' = [log EXCEPT ![c] = Append(log[c], [ts |-> ts, ok |-> ok])]
            /\ log' \in [ChannelSet -> Seq([ts : Nat \ {0}, ok : BOOLEAN])]
            /\ Len(log'[c]) = Len(log[c]) + 1
            /\ \A i \in 1..Len(log[c]) : log'[c][i] = log[c][i]
            /\ log'[c][Len(log[c]) + 1] = [ts |-> ts, ok |-> ok]
            /\ behind' = IF Past(c, ts) THEN behind \cup {<<c, Len(log[c]) + 1>>} ELSE behind
  <1>1. PICK ts \in 1..now, ok \in Renderings :
            /\ InOrder(c, ts)
            /\ log' = [log EXCEPT ![c] = Append(log[c], [ts |-> ts, ok |-> ok])]
            /\ behind' = IF Past(c, ts) THEN behind \cup {<<c, Len(log[c]) + 1>>} ELSE behind
    BY DEF EventLogged
  <1>2. ts \in Nat \ {0} /\ ok \in BOOLEAN
    BY RenderingsAssumption DEF TypeOK
  <1>3. log[c] \in Seq([ts : Nat \ {0}, ok : BOOLEAN])
    BY DEF TypeOK
  <1>4. log'[c] = Append(log[c], [ts |-> ts, ok |-> ok])
    BY <1>1 DEF TypeOK
  <1> DEFINE e == [ts |-> ts, ok |-> ok]
  <1>5. e \in [ts : Nat \ {0}, ok : BOOLEAN]
    BY <1>2
  <1>6. Append(log[c], e) \in Seq([ts : Nat \ {0}, ok : BOOLEAN])
    BY <1>3, <1>5
  <1>7. log' \in [ChannelSet -> Seq([ts : Nat \ {0}, ok : BOOLEAN])]
    BY <1>1, <1>6 DEF TypeOK
  <1>8. /\ Len(log'[c]) = Len(log[c]) + 1
        /\ \A i \in 1..Len(log[c]) : log'[c][i] = log[c][i]
        /\ log'[c][Len(log[c]) + 1] = e
    BY <1>3, <1>4, <1>5
  <1>9. WITNESS ts \in Nat \ {0}, ok \in BOOLEAN
  <1> QED BY <1>1, <1>2, <1>7, <1>8

\* Records stay logged, whatever is appended.
LEMMA LoggedStays ==
  ASSUME TypeOK, NEW c \in ChannelSet, EventLogged(c)
  PROVE  /\ Logged \subseteq Logged'
         /\ \A d \in ChannelSet : Len(log'[d]) >= Len(log[d])
         /\ \A d \in ChannelSet : Len(log'[d]) <= MaxRecords
         /\ \A d \in ChannelSet : \A i \in 1..Len(log[d]) : log'[d][i] = log[d][i]
         /\ behind \subseteq Logged => behind' \subseteq Logged'
  <1>1. PICK ts \in Nat \ {0}, ok \in BOOLEAN :
            /\ ts \in 1..now /\ InOrder(c, ts)
            /\ log' = [log EXCEPT ![c] = Append(log[c], [ts |-> ts, ok |-> ok])]
            /\ log' \in [ChannelSet -> Seq([ts : Nat \ {0}, ok : BOOLEAN])]
            /\ Len(log'[c]) = Len(log[c]) + 1
            /\ \A i \in 1..Len(log[c]) : log'[c][i] = log[c][i]
            /\ log'[c][Len(log[c]) + 1] = [ts |-> ts, ok |-> ok]
            /\ behind' = IF Past(c, ts) THEN behind \cup {<<c, Len(log[c]) + 1>>} ELSE behind
    BY AppendedLog, Zenon
  <1>2. \A d \in ChannelSet : d # c => log'[d] = log[d]
    <2>1. log \in [ChannelSet -> Seq([ts : Nat \ {0}, ok : BOOLEAN])]
      BY DEF TypeOK
    <2> QED BY <1>1, <2>1, Zenon
  <1>3. /\ \A d \in ChannelSet : Len(log'[d]) >= Len(log[d])
        /\ \A d \in ChannelSet : Len(log[d]) \in Nat /\ Len(log'[d]) \in Nat
    BY <1>1, <1>2 DEF TypeOK
  <1>4. \A d \in ChannelSet : Len(log'[d]) <= MaxRecords
    BY <1>1, <1>2, <1>3, Numbers DEF TypeOK, EventLogged
  <1>5. \A d \in ChannelSet : \A i \in 1..Len(log[d]) : log'[d][i] = log[d][i]
    BY <1>1, <1>2
  <1>6. Logged \subseteq Logged'
    BY <1>3 DEF Logged, Record
  <1>7. <<c, Len(log[c]) + 1>> \in Logged'
    BY <1>1, <1>3, <1>4 DEF Logged, Record
  <1>8. behind' \subseteq behind \cup {<<c, Len(log[c]) + 1>>}
    BY <1>1
  <1> QED BY <1>3, <1>4, <1>5, <1>6, <1>7, <1>8

-----------------------------------------------------------------------------
(* Type correctness *)

\* The initial states are typed.
LEMMA TypeInit == Init => TypeInv
  <1> SUFFICES ASSUME Init PROVE TypeInv
    OBVIOUS
  <1>1. Len(Channels) \in Nat \ {0}
    BY Numbers
  <1>2. log \in [ChannelSet -> Seq([ts : Nat \ {0}, ok : BOOLEAN])]
    BY DEF Init
  <1>3. \A c \in ChannelSet : Len(log[c]) <= MaxRecords
    BY Numbers DEF Init
  <1>4. /\ ci \in 1..Len(Channels) /\ crashes \in 0..MaxCrashes
        /\ storageErrors \in 0..MaxStorageErrors
    BY <1>1, Numbers DEF Init
  <1>5. /\ start \in [ChannelSet -> Nat \cup {NotPolled}]
        /\ origin \in [ChannelSet -> Nat \cup {NotPolled}]
        /\ mark \in [ChannelSet -> Nat]
    BY DEF Init
  <1> QED BY <1>2, <1>3, <1>4, <1>5 DEF Init, TypeInv, TypeOK, PollInv, InPoll

\* Each step of the environment, the collector and its process preserves the
\* types.
LEMMA TypeNext == TypeInv /\ [Next]_vars => TypeInv'
  <1> SUFFICES ASSUME TypeInv, [Next]_vars PROVE TypeInv'
    OBVIOUS
  <1>t. TypeOK /\ PollInv
    BY DEF TypeInv
  <1>c. Chan \in ChannelSet
    BY <1>t, ChanIsChannel
  <1>l. Len(Channels) \in Nat /\ \A c \in ChannelSet : Len(log[c]) \in Nat
    BY <1>t, Numbers DEF TypeOK
  <1>d. \A f \in Nat : Delay(f) \in Nat
    BY Numbers DEF Delay
  <1>s. \A c \in ChannelSet : SinceTs(c) \in Nat
    BY <1>t, Numbers DEF TypeOK, SinceTs
  <1>f. ASSUME CycleFails PROVE /\ failures' \in Nat /\ nap' \in Nat
                                /\ pc' = "sleep" /\ ci' = 1 /\ batch' = {}
                                /\ ForgetPoll
    <2> DEFINE f == IF failures < MaxFailures THEN failures + 1 ELSE failures
    <2>1. f \in Nat
      BY <1>t DEF TypeOK
    <2>2. EndCycle(f)
      BY <1>f DEF CycleFails
    <2> QED BY <2>1, <2>2, <1>d DEF EndCycle
  <1>n. ASSUME ToNextChannel PROVE /\ ci' \in 1..Len(Channels)
                                   /\ pc' \in {"poll", "maintain"}
                                   /\ ForgetPoll
    BY <1>n, <1>t, <1>l, Numbers DEF ToNextChannel, TypeOK
  <1>1. CASE Tick
    BY <1>1, <1>t, Numbers DEF Tick, database, process, faults, history, TypeInv, TypeOK,
                     PollInv, InPoll, Current, Chan, Logged
  <1>2. ASSUME NEW c \in ChannelSet, EventLogged(c) PROVE TypeInv'
    <2>1. log' \in [ChannelSet -> Seq([ts : Nat \ {0}, ok : BOOLEAN])]
      BY <1>2, <1>t, AppendedLog
    <2>2. UNCHANGED <<now, database, process, faults, history>>
      BY <1>2 DEF EventLogged
    <2>3. /\ Logged \subseteq Logged'
          /\ \A d \in ChannelSet : Len(log'[d]) >= Len(log[d])
          /\ \A d \in ChannelSet : Len(log'[d]) <= MaxRecords
          /\ behind' \subseteq Logged'
      BY <1>2, <1>t, LoggedStays DEF TypeOK
    <2>4. \A d \in ChannelSet : Len(log'[d]) \in Nat
      BY <2>1
    <2>5. Chan' = Chan
      BY <2>2 DEF process, Chan
    <2>6. batch' \subseteq 1..Len(log'[Chan'])
      <3>1. batch \subseteq 1..Len(log[Chan])
        BY <1>t DEF TypeOK
      <3> QED BY <3>1, <2>2, <2>3, <2>4, <2>5, <1>l, <1>c DEF process
    <2> QED
      BY <2>1, <2>2, <2>3, <2>5, <2>6, <1>t DEF database, process, faults, history,
         TypeInv, TypeOK, PollInv, InPoll, Current, Chan
  <1>3. ASSUME NEW c \in ChannelSet, FetchNewEvents(c) PROVE TypeInv'
    <2>1. batch' \subseteq 1..Len(log'[Chan'])
      BY <1>3 DEF FetchNewEvents, env, Chan
    <2>2. /\ start' \in [ChannelSet -> Nat \cup {NotPolled}]
          /\ origin' \in [ChannelSet -> Nat \cup {NotPolled}]
      BY <1>3, <1>t, <1>s DEF FetchNewEvents, TypeOK
    <2> QED BY <2>1, <2>2, <1>3, <1>t, <1>s DEF FetchNewEvents, env, database, faults,
               TypeInv, TypeOK, PollInv, InPoll, Logged
  <1>4. CASE QueryFails
    <2>1. batch' = {}
      BY <1>4, <1>t DEF QueryFails, PollInv, InPoll
    <2> QED BY <2>1, <1>4, <1>n, <1>t DEF QueryFails, ForgetPoll, env, database, faults, history,
               TypeInv, TypeOK, PollInv, InPoll, Logged
  <1>5. ASSUME NEW r \in batch, NormalizeFails(r) PROVE TypeInv'
    BY SMTT(30), <1>5, <1>f, <1>t, Numbers DEF NormalizeFails, ForgetPoll, env, database, faults, history,
       TypeInv, TypeOK, PollInv, InPoll, Logged
  <1>6. ASSUME NEW r \in batch, InsertEvent(r) PROVE TypeInv'
    <2>1. r \in 1..Len(log[Chan])
      BY <1>t DEF TypeOK
    <2>2. <<Chan, r>> \in Logged
      BY <2>1, <1>c, <1>l, <1>t, Numbers DEF Logged, Record, TypeOK
    <2>3. Chan' = Chan
      BY <1>6 DEF InsertEvent, Chan
    <2>4. r \in Nat /\ batch' \subseteq 1..Len(log[Chan])
      BY <2>1, <1>6, <1>l, <1>c, <1>t DEF InsertEvent, TypeOK
    <2>5. rows' \subseteq Logged /\ Current' \in rows'
      BY <2>2, <2>3, <1>6, <1>t DEF InsertEvent, Current, TypeOK
    <2> QED BY <2>3, <2>4, <2>5, <1>6, <1>t DEF InsertEvent, env, faults, history,
               TypeInv, TypeOK, PollInv, InPoll, Logged
  <1>7. ASSUME NEW r \in batch, InsertDuplicate(r) PROVE TypeInv'
    <2>1. r \in 1..Len(log[Chan])
      BY <1>t DEF TypeOK
    <2>2. log[Chan][r].ts \in Nat
      BY <2>1, <1>c, <1>t, EntryType
    <2>3. newest' \in Nat
      BY <2>2, <1>7, <1>t DEF InsertDuplicate, Newer, TypeOK
    <2> QED BY <2>3, <1>7, <1>t DEF InsertDuplicate, env, faults, history,
               TypeInv, TypeOK, PollInv, InPoll, Logged, Chan
  <1>8. CASE EvaluateEvent
    <2>1. Current \in Logged
      BY <1>8, <1>t DEF EvaluateEvent, PollInv, TypeOK
    <2>2. log[Chan][cur].ts \in Nat
      <3>1. cur \in 1..Len(log[Chan])
        BY <2>1, <1>l, <1>c, Numbers DEF Logged, Record, Current
      <3> QED BY <3>1, <1>c, <1>t, EntryType
    <2>3. newest' \in Nat
      BY <2>2, <1>8, <1>t DEF EvaluateEvent, Newer, TypeOK
    <2> QED BY <2>1, <2>3, <1>8, <1>t DEF EvaluateEvent, env, database, faults,
               TypeInv, TypeOK, PollInv, InPoll, Logged, Chan
  <1>9. CASE AdvanceWatermark
    BY <1>9, <1>n, <1>c, <1>t DEF AdvanceWatermark, ForgetPoll, env, faults, history,
       TypeInv, TypeOK, PollInv, InPoll, Logged
  <1>10. CASE StorageFails
    BY <1>10, <1>f, <1>t, Numbers DEF StorageFails, ForgetPoll, env, database, history,
       TypeInv, TypeOK, PollInv, InPoll, Logged
  <1>p. ASSUME \/ rows' = rows \ Expired /\ purged' = purged \cup Expired
               \/ UNCHANGED <<rows, purged>>
        PROVE  rows' \subseteq Logged /\ purged' \subseteq Logged
    BY <1>p, <1>t DEF Expired, TypeOK
  <1>11. CASE Maintain
    <2>1. rows' \subseteq Logged /\ purged' \subseteq Logged
      BY <1>11, <1>p, <1>t DEF Maintain, TypeOK
    <2>2. /\ pc' = "sleep" /\ ci' = 1 /\ batch' = {} /\ failures' = 0 /\ nap' \in Nat
          /\ ForgetPoll
      BY <1>11, <1>d DEF Maintain, EndCycle
    <2> QED BY <2>1, <2>2, <1>11, <1>t, Numbers DEF Maintain, ForgetPoll, env, faults,
               TypeInv, TypeOK, PollInv, InPoll, Logged
  <1>12. CASE MaintenanceFails
    <2>1. rows' \subseteq Logged /\ purged' \subseteq Logged
      BY <1>12, <1>p, <1>t DEF MaintenanceFails, TypeOK
    <2> QED BY <2>1, <1>12, <1>f, <1>t, Numbers DEF MaintenanceFails, ForgetPoll, env, faults,
               TypeInv, TypeOK, PollInv, InPoll, Logged
  <1>13. CASE WakeUp
    BY <1>13, <1>t DEF WakeUp, env, database, faults, history,
       TypeInv, TypeOK, PollInv, InPoll, Logged, Chan
  <1>14. CASE Crash
    <2>1. crashes' \in 0..MaxCrashes /\ ci' \in 1..Len(Channels)
      BY <1>14, <1>t, Numbers DEF Crash, TypeOK
    <2> QED BY <2>1, <1>14, <1>t DEF Crash, ForgetPoll, env, history, TypeInv, TypeOK, PollInv,
               InPoll, Logged
  <1>15. CASE Restart
    BY <1>15, <1>t DEF Restart, env, database, faults, history,
       TypeInv, TypeOK, PollInv, InPoll, Logged, Chan
  <1>16. CASE UNCHANGED vars
    BY <1>16, <1>t DEF vars, env, database, process, faults, history,
       TypeInv, TypeOK, PollInv, InPoll, Logged, Chan, Current
  <1> QED
    BY <1>1, <1>2, <1>3, <1>4, <1>5, <1>6, <1>7, <1>8, <1>9, <1>10, <1>11, <1>12,
       <1>13, <1>14, <1>15, <1>16 DEF Next, Environment, PollOnce, RunForever

\* Every variable keeps its type.
THEOREM TypeCorrect == Spec => []TypeOK
  <1>1. TypeInv => TypeOK
    BY DEF TypeInv
  <1> QED BY <1>1, TypeInit, TypeNext, PTL DEF Spec

-----------------------------------------------------------------------------
(* Nothing collected is forgotten, and nothing is evaluated twice *)

\* What was collected stays collected: retention moves records, it loses none.
LEMMA CollectedStays == [Next]_vars => Collected \subseteq Collected'
  <1> SUFFICES ASSUME [Next]_vars PROVE Collected \subseteq Collected'
    OBVIOUS
  <1>1. CASE Maintain \/ MaintenanceFails
    BY <1>1 DEF Maintain, MaintenanceFails, Collected, Expired
  <1>2. ASSUME NEW r \in batch, InsertEvent(r) PROVE Collected \subseteq Collected'
    BY <1>2 DEF InsertEvent, history, Collected
  <1>3. CASE rows' = rows /\ purged' = purged
    BY <1>3 DEF Collected
  <1>4. \/ Maintain \/ MaintenanceFails \/ \E r \in batch : InsertEvent(r)
        \/ rows' = rows /\ purged' = purged
    BY DEF Next, Environment, PollOnce, RunForever, Tick, EventLogged, FetchNewEvents,
       QueryFails, NormalizeFails, InsertDuplicate, EvaluateEvent, AdvanceWatermark,
       StorageFails, WakeUp, Crash, Restart, vars, database, history
  <1> QED BY <1>1, <1>2, <1>3, <1>4

\* Only collected records have been evaluated, so one that is evaluated and has
\* no row was purged.
OnceInv == evaluated \subseteq Collected /\ NotEvaluatedTwice

\* No step of the collector puts a stored record before the engine again.
LEMMA OnceNext == TypeInv /\ OnceInv /\ [Next]_vars => OnceInv'
  <1> SUFFICES ASSUME TypeInv, OnceInv, [Next]_vars PROVE OnceInv'
    OBVIOUS
  <1>c. Collected \subseteq Collected'
    BY CollectedStays
  <1>1. ASSUME NEW r \in batch, InsertEvent(r) PROVE OnceInv'
    <2>1. /\ Current' = <<Chan, r>> /\ Current' \notin rows
          /\ evaluated' = evaluated /\ purged' = purged
      BY <1>1 DEF InsertEvent, history, Current, Chan
    <2> QED BY <2>1, <1>c DEF OnceInv, NotEvaluatedTwice, Collected
  <1>2. CASE EvaluateEvent
    <2>1. Current \in Collected /\ evaluated' = evaluated \cup {Current} /\ pc' = "insert"
      BY <1>2 DEF EvaluateEvent, TypeInv, PollInv, Collected
    <2> QED BY <2>1, <1>c DEF OnceInv, NotEvaluatedTwice
  <1>3. CASE evaluated' = evaluated /\ pc' # "evaluate"
    BY <1>3, <1>c DEF OnceInv, NotEvaluatedTwice
  <1>4. CASE UNCHANGED <<process, rows, evaluated, purged>>
    BY <1>4 DEF OnceInv, NotEvaluatedTwice, process, Current, Chan, Collected
  <1>5. ASSUME NEW r \in batch, InsertDuplicate(r) PROVE OnceInv'
    BY <1>5, <1>3 DEF InsertDuplicate, history
  <1> QED
    BY <1>1, <1>2, <1>3, <1>4, <1>5 DEF Next, Environment, PollOnce, RunForever, Tick,
       EventLogged, FetchNewEvents, QueryFails, ToNextChannel, NormalizeFails,
       CycleFails, EndCycle, AdvanceWatermark, StorageFails, Maintain,
       MaintenanceFails, WakeUp, Crash, Restart, vars, database, history

\* The engine is never given a record again unless retention deleted its row.
THEOREM EvaluatedOnce == Spec => []NotEvaluatedTwice
  <1>1. Init => OnceInv
    BY DEF Init, OnceInv, NotEvaluatedTwice, Collected
  <1>2. OnceInv => NotEvaluatedTwice
    BY DEF OnceInv
  <1> QED BY <1>1, <1>2, TypeInit, TypeNext, OnceNext, PTL DEF Spec

-----------------------------------------------------------------------------
(* The watermark passes nothing that was not collected *)

Ts(c, r) == log[c][r].ts

\* What the watermark has passed is collected, or was logged behind it.
Covers ==
    \A c \in ChannelSet : \A r \in 1..Len(log[c]) :
        <<c, r>> \notin behind /\ mark[c] # 0 /\ origin[c] < Ts(c, r) /\ Ts(c, r) <= mark[c]
        => <<c, r>> \in Collected

\* During the poll of a channel: the poll continues from where the watermark is, and
\* what it has passed is collected or still to be handled.
PollCovers ==
    InPoll =>
        /\ since = IF mark[Chan] # 0 THEN mark[Chan] ELSE origin[Chan]
        /\ \A r \in 1..Len(log[Chan]) :
              <<Chan, r>> \notin behind /\ since < Ts(Chan, r) /\ Past(Chan, Ts(Chan, r))
              => r \in batch \/ <<Chan, r>> \in Collected

CoverInv == Covers /\ PollCovers

\* The timestamps of logged records, as numbers.
LEMMA TsType ==
  ASSUME TypeInv, NEW c \in ChannelSet, NEW r \in 1..Len(log[c])
  PROVE  Ts(c, r) \in Nat \ {0} /\ r \in Nat
  <1>1. TypeOK
    BY DEF TypeInv
  <1>2. Len(log[c]) \in Nat
    BY <1>1 DEF TypeOK
  <1> QED BY <1>1, <1>2, EntryType DEF Ts

\* The channel polled, and the records in the collector's hands.
LEMMA InHands ==
  ASSUME TypeInv
  PROVE  /\ Chan \in ChannelSet /\ Len(log[Chan]) \in Nat
         /\ batch \subseteq 1..Len(log[Chan])
         /\ pc = "evaluate" => cur \in 1..Len(log[Chan]) /\ <<Chan, cur>> \in Collected
         /\ since \in Nat /\ newest \in Nat /\ mark \in [ChannelSet -> Nat]
  <1>t. TypeOK /\ PollInv /\ Chan \in ChannelSet
    BY ChanIsChannel DEF TypeInv
  <1>1. Len(log[Chan]) \in Nat
    BY <1>t DEF TypeOK
  <1>2. ASSUME pc = "evaluate" PROVE cur \in 1..Len(log[Chan]) /\ <<Chan, cur>> \in Collected
    <2>1. <<Chan, cur>> \in Logged /\ <<Chan, cur>> \in Collected
      BY <1>2, <1>t DEF PollInv, TypeOK, Current, Collected
    <2> QED BY <2>1, <1>1, Numbers DEF Logged, Record
  <1> QED BY <1>t, <1>1, <1>2 DEF TypeOK

\* The log of one channel grows by one record, which is behind if it is past.
LEMMA LogGrows ==
  ASSUME TypeInv, NEW c \in ChannelSet, EventLogged(c)
  PROVE  /\ \A d \in ChannelSet : \A r \in 1..Len(log'[d]) :
               \/ /\ r \in 1..Len(log[d]) /\ log'[d][r].ts = Ts(d, r)
                  /\ <<d, r>> \in behind => <<d, r>> \in behind'
               \/ /\ d = c /\ r = Len(log[c]) + 1 /\ r \notin 1..Len(log[c])
                  /\ InOrder(c, log'[c][r].ts) /\ log'[c][r].ts \in Nat \ {0}
                  /\ <<c, r>> \in behind' \/ ~Past(c, log'[c][r].ts)
         /\ \A e \in behind' :
               \/ e \in behind
               \/ /\ e = <<c, Len(log[c]) + 1>> /\ Len(log[c]) + 1 \in 1..Len(log'[c])
                  /\ Past(c, log'[c][Len(log[c]) + 1].ts)
         /\ \A d \in ChannelSet : \A r \in 1..Len(log[d]) :
               r \in 1..Len(log'[d]) /\ log'[d][r].ts = Ts(d, r)
  <1>t. TypeOK /\ \A d \in ChannelSet : Len(log[d]) \in Nat
    <2>1. TypeOK
      BY DEF TypeInv
    <2> QED BY <2>1 DEF TypeOK
  <1>1. PICK ts \in Nat \ {0}, ok \in BOOLEAN :
            /\ ts \in 1..now /\ InOrder(c, ts)
            /\ log' = [log EXCEPT ![c] = Append(log[c], [ts |-> ts, ok |-> ok])]
            /\ log' \in [ChannelSet -> Seq([ts : Nat \ {0}, ok : BOOLEAN])]
            /\ Len(log'[c]) = Len(log[c]) + 1
            /\ \A i \in 1..Len(log[c]) : log'[c][i] = log[c][i]
            /\ log'[c][Len(log[c]) + 1] = [ts |-> ts, ok |-> ok]
            /\ behind' = IF Past(c, ts) THEN behind \cup {<<c, Len(log[c]) + 1>>} ELSE behind
    BY <1>t, AppendedLog, Zenon
  <1>2. \A d \in ChannelSet \ {c} : log'[d] = log[d]
    BY <1>1, <1>t DEF TypeOK
  <1> DEFINE n == Len(log[c]) + 1
  <1>3. n \in 1..Len(log'[c]) /\ n \notin 1..Len(log[c]) /\ log'[c][n].ts = ts
    BY <1>1, <1>t
  <1>4. /\ behind \subseteq behind' /\ behind' \subseteq behind \cup {<<c, n>>}
        /\ <<c, n>> \in behind' \/ ~Past(c, ts)
    BY <1>1
  <1>5. \A e \in behind' : e \in behind \/ (e = <<c, n>> /\ Past(c, ts))
    BY <1>1
  <1>6. \A d \in ChannelSet : \A r \in 1..Len(log[d]) :
            r \in 1..Len(log'[d]) /\ log'[d][r] = log[d][r]
    BY <1>1, <1>2, <1>t
  <1>7. \A d \in ChannelSet : \A r \in 1..Len(log'[d]) :
            r \in 1..Len(log[d]) \/ (d = c /\ r = n)
    BY <1>1, <1>2, <1>t
  <1> HIDE DEF n
  <1>8. \A d \in ChannelSet : \A r \in 1..Len(log[d]) :
            r \in 1..Len(log'[d]) /\ log'[d][r].ts = Ts(d, r)
    BY <1>6 DEF Ts
  <1>9. ASSUME NEW d \in ChannelSet, NEW r \in 1..Len(log'[d])
        PROVE  \/ /\ r \in 1..Len(log[d]) /\ log'[d][r].ts = Ts(d, r)
                  /\ <<d, r>> \in behind => <<d, r>> \in behind'
               \/ /\ d = c /\ r = n /\ r \notin 1..Len(log[c])
                  /\ InOrder(c, log'[c][r].ts) /\ log'[c][r].ts \in Nat \ {0}
                  /\ <<c, r>> \in behind' \/ ~Past(c, log'[c][r].ts)
    BY <1>1, <1>3, <1>4, <1>7, <1>8
  <1>10. \A e \in behind' :
               \/ e \in behind
               \/ e = <<c, n>> /\ n \in 1..Len(log'[c]) /\ Past(c, log'[c][n].ts)
    BY <1>3, <1>5
  <1> QED BY <1>8, <1>9, <1>10 DEF n

\* What is logged changes nothing of what the collector has passed.
LEMMA PastStays ==
  ASSUME TypeInv, NEW c \in ChannelSet, EventLogged(c), NEW d \in ChannelSet, NEW t \in Nat
  PROVE  Past(d, t)' <=> Past(d, t)
  <1>1. UNCHANGED <<mark, pc, ci, since, newest, batch, cur>> /\ Chan' = Chan
    BY DEF EventLogged, database, process, Chan
  <1>2. \A r \in 1..Len(log[Chan]) : log'[Chan][r].ts = log[Chan][r].ts
    BY LogGrows, InHands DEF Ts
  <1>3. \A r \in batch : log'[Chan][r].ts = log[Chan][r].ts
    BY <1>2, InHands
  <1>4. pc = "evaluate" => log'[Chan][cur].ts = log[Chan][cur].ts
    BY <1>2, InHands
  <1> QED BY <1>1, <1>3, <1>4 DEF Past

\* A poll begins where the watermark is and passes what the query returns.
LEMMA PastFetched ==
  ASSUME TypeInv, NEW c \in ChannelSet, FetchNewEvents(c), NEW d \in ChannelSet, NEW t \in Nat,
         Past(d, t)'
  PROVE  \/ t <= mark[d]
         \/ d = c /\ \E r \in batch' : t <= Ts(c, r)
  BY DEF FetchNewEvents, Past, env, database, Chan, Ts

\* No other step takes the collector past anything it was not past, or about to be.
LEMMA PastShrinks ==
  ASSUME TypeInv, [Next]_vars, UNCHANGED <<log, behind>>,
         \A c \in ChannelSet : ~FetchNewEvents(c),
         NEW d \in ChannelSet, NEW t \in Nat, Past(d, t)'
  PROVE  Past(d, t)
  <1>h. /\ Chan \in ChannelSet /\ batch \subseteq 1..Len(log[Chan])
        /\ pc = "evaluate" => cur \in 1..Len(log[Chan])
        /\ since \in Nat /\ newest \in Nat /\ mark \in [ChannelSet -> Nat]
    BY InHands
  <1>1. ASSUME mark' = mark, ForgetPoll, batch' = {}, pc' # "evaluate" PROVE Past(d, t)
    BY <1>1 DEF Past, ForgetPoll
  <1>2. ASSUME UNCHANGED <<mark, pc, ci, since, newest, batch, cur>> PROVE Past(d, t)
    BY <1>2 DEF Past, Chan
  <1>3. ASSUME NEW r \in batch, InsertEvent(r) PROVE Past(d, t)
    BY <1>3 DEF InsertEvent, Past, Chan
  <1>4. ASSUME NEW r \in batch, InsertDuplicate(r) PROVE Past(d, t)
    BY <1>4 DEF InsertDuplicate, Past, Chan, Newer
  <1>5. CASE EvaluateEvent
    BY <1>5 DEF EvaluateEvent, Past, Chan, Newer, database
  <1>6. CASE AdvanceWatermark
    <2>1. /\ ForgetPoll /\ batch' = {} /\ pc' # "evaluate"
          /\ mark' = [mark EXCEPT ![Chan] = IF newest # since THEN newest ELSE @]
      BY <1>6 DEF AdvanceWatermark, ToNextChannel
    <2>2. ~(newest' # since')
      BY <2>1 DEF ForgetPoll
    <2>3. t <= mark'[d]
      BY <2>1, <2>2 DEF Past
    <2> QED BY <2>1, <2>3, <1>h DEF Past
  <1>7. CASE QueryFails
    <2>1. batch = {}
      BY <1>7 DEF QueryFails, TypeInv, PollInv, InPoll
    <2> QED BY <2>1, <1>1, <1>7 DEF QueryFails, ToNextChannel, database
  <1>8. CASE StorageFails \/ \E r \in batch : NormalizeFails(r)
    BY <1>1, <1>8 DEF StorageFails, NormalizeFails, CycleFails, EndCycle, database
  <1>9. CASE Maintain \/ MaintenanceFails \/ Crash
    BY <1>1, <1>9 DEF Maintain, MaintenanceFails, Crash, CycleFails, EndCycle
  <1>10. CASE WakeUp \/ Restart
    <2>1. /\ UNCHANGED <<mark, ci, since, newest, batch, cur>>
          /\ pc' # "evaluate"
      BY <1>10 DEF WakeUp, Restart, database
    <2> QED BY <2>1 DEF Past, Chan
  <1>11. CASE Tick \/ UNCHANGED vars
    BY <1>2, <1>11 DEF Tick, vars, database, process
  <1>12. ASSUME NEW c \in ChannelSet, EventLogged(c) PROVE Past(d, t)
    BY <1>12, PastStays
  <1> QED BY <1>3, <1>4, <1>5, <1>6, <1>7, <1>8, <1>9, <1>10, <1>11, <1>12
          DEF Next, Environment, PollOnce, RunForever

\* What is covered stays covered while the log and the watermarks stand.
LEMMA CoversKept ==
  ASSUME Covers, Collected \subseteq Collected', UNCHANGED <<log, behind, mark, origin>>
  PROVE  Covers'
  BY DEF Covers, Ts

\* A record appended to a log is behind, or newer than what the collector has passed.
LEMMA CoverLogged ==
  ASSUME TypeInv, CoverInv, NEW c \in ChannelSet, EventLogged(c)
  PROVE  CoverInv'
  <1>1. /\ Collected' = Collected /\ Chan' = Chan /\ InPoll' = InPoll
        /\ UNCHANGED <<mark, origin, since, batch>>
    BY DEF EventLogged, database, process, history, Collected, Chan, InPoll
  <1>h. Chan \in ChannelSet /\ mark \in [ChannelSet -> Nat]
    BY InHands
  <1>2. ASSUME NEW d \in ChannelSet, NEW r \in 1..Len(log'[d]),
               <<d, r>> \notin behind', Past(d, Ts(d, r)')
        PROVE  r \in 1..Len(log[d]) /\ Ts(d, r)' = Ts(d, r) /\ <<d, r>> \notin behind
    <2>1. CASE d = c /\ r = Len(log[c]) + 1
      <3>1. Past(c, log'[c][r].ts)
        BY <1>2, <2>1 DEF Ts
      <3>2. <<c, r>> \notin behind'
        BY <1>2, <2>1
      <3>3. r \in 1..Len(log'[c])
        BY <2>1
      <3>4. \/ r \in 1..Len(log[c])
            \/ r \notin 1..Len(log[c]) /\ (<<c, r>> \in behind' \/ ~Past(c, log'[c][r].ts))
        BY <3>3, LogGrows, Zenon
      <3>5. Len(log[c]) + 1 \notin 1..Len(log[c])
        BY DEF TypeInv, TypeOK
      <3> QED BY <2>1, <3>1, <3>2, <3>4, <3>5, Zenon
    <2>2. CASE ~(d = c /\ r = Len(log[c]) + 1)
      <3>1. /\ r \in 1..Len(log[d]) /\ log'[d][r].ts = Ts(d, r)
            /\ <<d, r>> \in behind => <<d, r>> \in behind'
        BY <2>2, LogGrows, Zenon
      <3> QED BY <3>1, <1>2 DEF Ts
    <2> QED BY <2>1, <2>2
  <1>3. Covers'
    <2> SUFFICES ASSUME NEW d \in ChannelSet, NEW r \in 1..Len(log'[d]),
                        <<d, r>> \notin behind', mark[d] # 0,
                        origin[d] < Ts(d, r)', Ts(d, r)' <= mark[d]
                 PROVE  <<d, r>> \in Collected
      BY <1>1 DEF Covers
    <2>1. r \in 1..Len(log[d]) /\ Ts(d, r)' = Ts(d, r) /\ <<d, r>> \notin behind
      BY <1>2 DEF Past
    <2> QED BY <2>1 DEF CoverInv, Covers
  <1>4. PollCovers'
    <2> SUFFICES ASSUME InPoll, NEW r \in 1..Len(log'[Chan]), <<Chan, r>> \notin behind',
                        since < log'[Chan][r].ts, Past(Chan, Ts(Chan, r))'
                 PROVE  r \in batch \/ <<Chan, r>> \in Collected
      BY <1>1 DEF CoverInv, PollCovers, Ts
    <2>1. PICK t \in Nat : t = log'[Chan][r].ts
      BY <1>h, LogGrows, TsType
    <2>2. Past(Chan, t)'
      BY <2>1, <1>1 DEF Past, Ts
    <2>3. Past(Chan, Ts(Chan, r)')
      <3>1. \A d \in ChannelSet : Past(d, t)' <=> Past(d, t)
        BY PastStays
      <3>2. Past(Chan, t)
        BY <3>1, <2>2, <1>1, <1>h DEF Past
      <3> QED BY <3>2, <2>1, <1>1 DEF Ts, Past
    <2>4. r \in 1..Len(log[Chan]) /\ Ts(Chan, r)' = Ts(Chan, r) /\ <<Chan, r>> \notin behind
      BY <2>3, <1>1, <1>2, <1>h
    <2>5. since < Ts(Chan, r) /\ Past(Chan, Ts(Chan, r))
      BY <2>3, <2>4, <1>1 DEF Ts
    <2> QED BY <2>4, <2>5 DEF CoverInv, PollCovers
  <1> QED BY <1>3, <1>4 DEF CoverInv

\* A poll starts from the watermark and passes nothing but its batch.
LEMMA CoverFetch ==
  ASSUME TypeInv, CoverInv, NEW c \in ChannelSet, FetchNewEvents(c)
  PROVE  CoverInv'
  <1>1. /\ c = Chan /\ Chan' = Chan /\ since' = SinceTs(c) /\ pc' = "insert"
        /\ batch' = {r \in 1..Len(log[c]) : log[c][r].ts > SinceTs(c)}
        /\ Collected' = Collected /\ UNCHANGED <<log, behind, mark>>
        /\ origin' = [origin EXCEPT ![c] = IF mark[c] = 0 THEN SinceTs(c) ELSE @]
    BY DEF FetchNewEvents, env, database, Chan, Collected
  <1>t. /\ origin \in [ChannelSet -> Nat \cup {NotPolled}]
        /\ mark \in [ChannelSet -> Nat] /\ Len(log[c]) \in Nat /\ SinceTs(c) \in Nat
    BY Numbers DEF TypeInv, TypeOK, SinceTs
  <1>2. Covers'
    <2>1. \A d \in ChannelSet : mark[d] # 0 => origin'[d] = origin[d]
      BY <1>1, <1>t
    <2> QED BY <2>1, <1>1 DEF CoverInv, Covers, Ts
  <1>3. since' = IF mark[c] # 0 THEN mark[c] ELSE origin'[c]
    BY <1>1, <1>t DEF SinceTs
  <1>4. ASSUME NEW r \in 1..Len(log[c]), since' < Ts(c, r) PROVE r \in batch'
    BY <1>1, <1>4, <1>t, TsType DEF Ts
  <1>5. PollCovers'
    BY <1>1, <1>3, <1>4 DEF PollCovers, Ts
  <1> QED BY <1>2, <1>5 DEF CoverInv

\* A step that handles record o of the batch has collected it.
LEMMA CoverHandled ==
  ASSUME TypeInv, CoverInv, [Next]_vars, InPoll, Chan' = Chan,
         UNCHANGED <<log, behind, mark, origin, since>>,
         \A c \in ChannelSet : ~FetchNewEvents(c),
         \A r \in batch : r \in batch' \/ <<Chan, r>> \in Collected'
  PROVE  CoverInv'
  <1>1. Collected \subseteq Collected'
    BY CollectedStays
  <1>h. Chan \in ChannelSet /\ \A r \in 1..Len(log[Chan]) : Ts(Chan, r) \in Nat
    BY InHands, TsType
  <1>2. ASSUME NEW r \in 1..Len(log[Chan]), <<Chan, r>> \notin behind, since < Ts(Chan, r),
               Past(Chan, Ts(Chan, r))'
        PROVE  r \in batch' \/ <<Chan, r>> \in Collected'
    <2>1. PICK t \in Nat : t = Ts(Chan, r)
      BY <1>h
    <2>2. Past(Chan, t)'
      BY <1>2, <2>1 DEF Past, Ts
    <2>3. Past(Chan, t)
      <3>1. \A d \in ChannelSet : Past(d, t)' => Past(d, t)
        BY PastShrinks
      <3> QED BY <3>1, <2>2, <1>h DEF Past
    <2>4. Past(Chan, Ts(Chan, r))
      BY <2>1, <2>3
    <2> QED BY <2>4, <1>1, <1>2 DEF CoverInv, PollCovers
  <1>3. PollCovers'
    BY <1>2 DEF CoverInv, PollCovers, InPoll, Ts
  <1> QED BY <1>1, <1>3, CoversKept DEF CoverInv

\* The watermark moves to the newest record of the poll, whose batch is collected.
LEMMA CoverAdvanceWatermark ==
  ASSUME TypeInv, CoverInv, AdvanceWatermark
  PROVE  CoverInv'
  <1>1. /\ InPoll /\ batch = {} /\ pc' \notin {"insert", "evaluate"} /\ Collected' = Collected
        /\ UNCHANGED <<log, behind, origin>>
        /\ mark' = [mark EXCEPT ![Chan] = IF newest # since THEN newest ELSE @]
    BY DEF AdvanceWatermark, ToNextChannel, InPoll, env, history, Collected
  <1>h. /\ Chan \in ChannelSet /\ since \in Nat /\ newest \in Nat
        /\ mark \in [ChannelSet -> Nat]
        /\ \A d \in ChannelSet : \A r \in 1..Len(log[d]) : Ts(d, r) \in Nat
    BY InHands, TsType
  <1>2. ASSUME NEW d \in ChannelSet, NEW r \in 1..Len(log[d]), <<d, r>> \notin behind,
               mark'[d] # 0, origin[d] < Ts(d, r), Ts(d, r) <= mark'[d]
        PROVE  <<d, r>> \in Collected
    <2>1. CASE mark'[d] = mark[d]
      BY <2>1, <1>2 DEF CoverInv, Covers
    <2>2. CASE d = Chan /\ newest # since
      <3>1. Ts(d, r) <= newest
        BY <2>2, <1>1, <1>2, <1>h
      <3>2. CASE since < Ts(d, r)
        <4>1. Past(Chan, Ts(Chan, r))
          BY <2>2, <3>1 DEF Past
        <4> QED BY <4>1, <3>2, <2>2, <1>1, <1>2 DEF CoverInv, PollCovers
      <3>3. CASE ~(since < Ts(d, r))
        <4>1. since = IF mark[Chan] # 0 THEN mark[Chan] ELSE origin[Chan]
          BY <1>1 DEF CoverInv, PollCovers
        <4>2. mark[d] # 0 /\ Ts(d, r) <= mark[d]
          BY <4>1, <3>3, <2>2, <1>2, <1>h
        <4> QED BY <4>2, <1>2 DEF CoverInv, Covers
      <3> QED BY <3>2, <3>3
    <2> QED BY <2>1, <2>2, <1>1, <1>h
  <1>3. Covers'
    BY <1>1, <1>2 DEF Covers, Ts
  <1>4. PollCovers'
    BY <1>1 DEF PollCovers, InPoll
  <1> QED BY <1>3, <1>4 DEF CoverInv

\* The coverage invariant is inductive, whatever the order of the timestamps.
LEMMA CoverNext == TypeInv /\ CoverInv /\ [Next]_vars => CoverInv'
  <1> SUFFICES ASSUME TypeInv, CoverInv, [Next]_vars PROVE CoverInv'
    OBVIOUS
  <1>1. ASSUME NEW c \in ChannelSet, EventLogged(c) PROVE CoverInv'
    BY <1>1, CoverLogged
  <1>2. ASSUME NEW c \in ChannelSet, FetchNewEvents(c) PROVE CoverInv'
    BY <1>2, CoverFetch
  <1>f. CASE \E c \in ChannelSet : FetchNewEvents(c)
    BY <1>2, <1>f
  <1> DEFINE NoFetch == \A c \in ChannelSet : ~FetchNewEvents(c)
  <1>3. ASSUME NoFetch, NEW r \in batch, InsertEvent(r) PROVE CoverInv'
    <2>1. /\ InPoll /\ Chan' = Chan /\ UNCHANGED <<log, behind, mark, origin, since>>
          /\ batch' = batch \ {r} /\ <<Chan, r>> \in Collected'
      BY <1>3 DEF InsertEvent, InPoll, Chan, env, history, Collected
    <2> QED BY <2>1, <1>3, CoverHandled
  <1>4. ASSUME NoFetch, NEW r \in batch, InsertDuplicate(r) PROVE CoverInv'
    <2>1. /\ InPoll /\ Chan' = Chan /\ UNCHANGED <<log, behind, mark, origin, since>>
          /\ batch' = batch \ {r} /\ <<Chan, r>> \in Collected'
      BY <1>4 DEF InsertDuplicate, InPoll, Chan, env, history, Collected
    <2> QED BY <2>1, <1>4, CoverHandled
  <1>5. ASSUME NoFetch, EvaluateEvent PROVE CoverInv'
    <2>1. /\ InPoll /\ Chan' = Chan /\ UNCHANGED <<log, behind, mark, origin, since, batch>>
      BY <1>5 DEF EvaluateEvent, InPoll, Chan, env, database
    <2> QED BY <2>1, <1>5, CoverHandled
  <1>6. CASE AdvanceWatermark
    BY <1>6, CoverAdvanceWatermark
  \* The steps after which no poll is in progress.
  <1>7. CASE pc' \notin {"insert", "evaluate"} /\ UNCHANGED <<log, behind, mark, origin>>
    <2>1. PollCovers'
      BY <1>7 DEF PollCovers, InPoll
    <2> QED BY <2>1, <1>7, CollectedStays, CoversKept DEF CoverInv
  <1>8. CASE Maintain \/ MaintenanceFails \/ WakeUp \/ Crash \/ Restart
    <2>1. pc' \notin {"insert", "evaluate"} /\ UNCHANGED <<log, behind, mark, origin>>
      BY <1>8 DEF Maintain, MaintenanceFails, WakeUp, Crash, Restart, CycleFails,
         EndCycle, env, database, history
    <2> QED BY <2>1, <1>7
  <1>9. CASE QueryFails \/ StorageFails \/ \E r \in batch : NormalizeFails(r)
    <2>1. pc' \notin {"insert", "evaluate"} /\ UNCHANGED <<log, behind, mark, origin>>
      BY <1>9 DEF QueryFails, StorageFails, NormalizeFails, ToNextChannel, CycleFails,
         EndCycle, env, database, history
    <2> QED BY <2>1, <1>7
  <1>10. CASE Tick \/ UNCHANGED vars
    BY <1>10 DEF Tick, vars, env, database, process, history, CoverInv, Covers, PollCovers,
       InPoll, Past, Ts, Chan, Collected
  <1> HIDE DEF NoFetch
  <1>11. CASE NoFetch
    BY <1>1, <1>3, <1>4, <1>5, <1>6, <1>8, <1>9, <1>10, <1>11
       DEF Next, Environment, PollOnce, RunForever, NoFetch
  <1> QED BY <1>f, <1>11 DEF NoFetch

\* The watermark of a channel passes only records that were stored, over failed polls,
\* crashes and purges and in whatever order timestamps come, except for those that were
\* logged when it was past their time already.
THEOREM WatermarkSound == Spec => []WatermarkCovers
  <1>1. Init => CoverInv
    BY DEF Init, CoverInv, Covers, PollCovers, InPoll
  <1>2. TypeInv /\ CoverInv => WatermarkCovers
    <2> SUFFICES ASSUME TypeInv, CoverInv, NEW e \in Logged \ behind, mark[e[1]] # 0,
                        origin[e[1]] < TsOf(e), TsOf(e) <= mark[e[1]]
                 PROVE  e \in Collected
      BY DEF WatermarkCovers
    <2>1. /\ e = <<e[1], e[2]>> /\ e[1] \in ChannelSet /\ e[2] \in 1..MaxRecords
          /\ e[2] <= Len(log[e[1]])
      BY DEF Logged, Record
    <2>2. e[2] \in 1..Len(log[e[1]])
      BY <2>1, Numbers DEF TypeInv, TypeOK
    <2>3. TsOf(e) = Ts(e[1], e[2])
      BY DEF TsOf, Ts
    <2> QED BY <2>1, <2>2, <2>3 DEF CoverInv, Covers
  <1> QED BY <1>1, <1>2, CoverNext, TypeInit, TypeNext, PTL DEF Spec

-----------------------------------------------------------------------------
(* What is logged behind the collector *)

\* The records of a channel follow one another in time.
Sorted ==
    \A c \in ChannelSet : \A j \in 1..Len(log[c]) : \A i \in 1..Len(log[c]) :
        i < j => Ts(c, i) <= Ts(c, j)

\* The collector is past no time that no record of the channel has reached.
TimesLogged ==
    \A c \in ChannelSet : \A t \in Nat \ {0} :
        Past(c, t) => \E i \in 1..Len(log[c]) : t <= Ts(c, i)

\* A record logged behind the collector has the timestamp of an earlier one.
Tied ==
    \A c \in ChannelSet : \A j \in 1..Len(log[c]) :
        <<c, j>> \in behind =>
            Order = "ties" /\ \E i \in 1..Len(log[c]) : i < j /\ Ts(c, i) = Ts(c, j)

TieInv == Order # "late" => Sorted /\ TimesLogged /\ Tied

\* A record is appended after the timestamps before it, and behind the collector only
\* when it has the last of them.
LEMMA AppendedInOrder ==
  ASSUME TypeInv, TieInv, Order # "late", NEW c \in ChannelSet, EventLogged(c),
         NEW n \in Nat, n = Len(log[c]) + 1, n \in 1..Len(log'[c])
  PROVE  /\ \A i \in 1..Len(log[c]) : Ts(c, i) <= log'[c][n].ts
         /\ <<c, n>> \in behind' =>
               /\ Order = "ties"
               /\ \E i \in 1..Len(log[c]) : i < n /\ Ts(c, i) = log'[c][n].ts
  <1>t. /\ behind \subseteq Logged /\ Len(log[c]) \in Nat
        /\ \A i \in 1..Len(log[c]) : Ts(c, i) \in Nat \ {0}
    <2>1. TypeOK
      BY DEF TypeInv
    <2> QED BY <2>1, TsType DEF TypeOK
  <1>i. Sorted /\ TimesLogged
    BY DEF TieInv
  <1>1. n \notin 1..Len(log[c]) /\ <<c, n>> \notin behind
    BY <1>t DEF Logged
  <1>2. InOrder(c, log'[c][n].ts) /\ log'[c][n].ts \in Nat \ {0}
    BY <1>1, LogGrows
  <1>3. PICK ts \in Nat \ {0} : ts = log'[c][n].ts
    BY <1>2
  <1>4. LastTs(c) \in Nat /\ (Len(log[c]) # 0 => LastTs(c) = Ts(c, Len(log[c])))
    BY <1>t DEF LastTs, Ts
  <1>5. ts >= LastTs(c) /\ (Order = "increasing" => ts > LastTs(c))
    <2>1. InOrder(c, ts)
      BY <1>2, <1>3
    <2>2. CASE Order = "increasing"
      BY <2>1, <2>2, <1>4 DEF InOrder
    <2>3. CASE Order = "ties"
      BY <2>1, <2>3, <1>4 DEF InOrder
    <2> QED BY <2>2, <2>3, OrderAssumption
  <1>6. \A i \in 1..Len(log[c]) : Ts(c, i) <= LastTs(c)
    BY <1>t, <1>4, <1>i DEF Sorted
  <1>7. \A i \in 1..Len(log[c]) : Ts(c, i) <= ts
    BY <1>t, <1>4, <1>5, <1>6
  <1>8. ASSUME <<c, n>> \in behind'
        PROVE  Order = "ties" /\ \E i \in 1..Len(log[c]) : i < n /\ Ts(c, i) = ts
    <2>1. Past(c, ts)
      <3>1. \A e \in behind' : e \in behind \/ Past(c, log'[c][Len(log[c]) + 1].ts)
        BY LogGrows
      <3> QED BY <3>1, <1>1, <1>3, <1>8
    <2>2. PICK i \in 1..Len(log[c]) : ts <= Ts(c, i)
      BY <2>1, <1>i DEF TimesLogged
    <2>3. ts = LastTs(c) /\ Ts(c, i) = ts /\ i < n
      BY <2>2, <1>t, <1>4, <1>5, <1>6
    <2>4. Order # "increasing"
      BY <2>3, <1>4, <1>5
    <2> QED BY <2>3, <2>4, OrderAssumption
  <1> QED BY <1>3, <1>7, <1>8

\* A record that is logged keeps the order, and what is behind tied.
LEMMA TieLogged ==
  ASSUME TypeInv, TieInv, Order # "late", NEW c \in ChannelSet, EventLogged(c)
  PROVE  Sorted' /\ TimesLogged' /\ Tied'
  <1>t. /\ \A d \in ChannelSet : Len(log[d]) \in Nat /\ Len(log'[d]) \in Nat
        /\ TypeOK /\ Sorted /\ TimesLogged /\ Tied
    <2>1. TypeOK /\ TypeOK'
      BY TypeNext DEF TypeInv, Next, Environment
    <2>2. \A d \in ChannelSet : Len(log[d]) \in Nat /\ Len(log'[d]) \in Nat
      <3>1. /\ log \in [ChannelSet -> Seq([ts : Nat \ {0}, ok : BOOLEAN])]
            /\ log' \in [ChannelSet -> Seq([ts : Nat \ {0}, ok : BOOLEAN])]
        BY <2>1 DEF TypeOK
      <3> QED BY <3>1
    <2> QED BY <2>1, <2>2 DEF TieInv
  <1>k. PICK n \in Nat : n = Len(log[c]) + 1
    BY <1>t
  <1>1. \A d \in ChannelSet : \A r \in 1..Len(log[d]) :
            r \in 1..Len(log'[d]) /\ Ts(d, r)' = Ts(d, r)
    BY LogGrows DEF Ts
  <1>2. \A d \in ChannelSet : \A r \in 1..Len(log'[d]) :
            r \in 1..Len(log[d]) \/ (d = c /\ r = n)
    BY <1>k, LogGrows
  <1>3. \A d \in ChannelSet : \A r \in 1..Len(log[d]) :
            <<d, r>> \in behind' => <<d, r>> \in behind
    BY <1>k, <1>t, LogGrows
  <1>4. n \in 1..Len(log'[c]) =>
            /\ \A i \in 1..Len(log[c]) : Ts(c, i) <= Ts(c, n)'
            /\ <<c, n>> \in behind' =>
                  Order = "ties" /\ \E i \in 1..Len(log[c]) : i < n /\ Ts(c, i) = Ts(c, n)'
    BY <1>k, AppendedInOrder DEF Ts
  <1>5. Sorted'
    <2> SUFFICES ASSUME NEW d \in ChannelSet, NEW j \in 1..Len(log'[d]),
                        NEW i \in 1..Len(log'[d]), i < j
                 PROVE  Ts(d, i)' <= Ts(d, j)'
      BY DEF Sorted
    <2>1. i \in 1..Len(log[d])
      BY <1>2, <1>k, <1>t
    <2>2. CASE j \in 1..Len(log[d])
      BY <2>1, <2>2, <1>1, <1>t DEF Sorted
    <2>3. CASE d = c /\ j = n
      BY <2>1, <2>3, <1>1, <1>4
    <2> QED BY <2>2, <2>3, <1>2
  <1>6. TimesLogged'
    <2> SUFFICES ASSUME NEW d \in ChannelSet, NEW t \in Nat \ {0}, Past(d, t)'
                 PROVE  \E i \in 1..Len(log'[d]) : t <= Ts(d, i)'
      BY DEF TimesLogged
    <2>1. Past(d, t)
      BY PastStays
    <2> QED BY <2>1, <1>1, <1>t DEF TimesLogged
  <1>7. Tied'
    <2> SUFFICES ASSUME NEW d \in ChannelSet, NEW j \in 1..Len(log'[d]), <<d, j>> \in behind'
                 PROVE  /\ Order = "ties"
                        /\ \E i \in 1..Len(log'[d]) : i < j /\ Ts(d, i)' = Ts(d, j)'
      BY DEF Tied
    <2>1. CASE j \in 1..Len(log[d])
      BY <2>1, <1>1, <1>3, <1>t DEF Tied
    <2>2. CASE d = c /\ j = n
      BY <2>2, <1>1, <1>4
    <2> QED BY <2>1, <2>2, <1>2
  <1> QED BY <1>5, <1>6, <1>7

\* What is behind stays tied.
LEMMA TieNext == TypeInv /\ TieInv /\ [Next]_vars => TieInv'
  <1> SUFFICES ASSUME TypeInv, TieInv, [Next]_vars, Order # "late"
               PROVE  Sorted' /\ TimesLogged' /\ Tied'
    BY DEF TieInv
  <1>i. Sorted /\ TimesLogged /\ Tied
    BY DEF TieInv
  <1>1. ASSUME NEW c \in ChannelSet, EventLogged(c) PROVE Sorted' /\ TimesLogged' /\ Tied'
    BY <1>1, TieLogged
  <1>2. CASE \A c \in ChannelSet : ~EventLogged(c)
    <2>1. UNCHANGED <<log, behind>>
      BY <1>2 DEF Next, Environment, PollOnce, RunForever, Tick, FetchNewEvents, QueryFails,
         NormalizeFails, InsertEvent, InsertDuplicate, EvaluateEvent, AdvanceWatermark,
         StorageFails, Maintain, MaintenanceFails, WakeUp, Crash, Restart, vars, env
    <2>2. Sorted' /\ Tied'
      BY <2>1, <1>i DEF Sorted, Tied, Ts
    <2>3. ASSUME NEW d \in ChannelSet, NEW t \in Nat \ {0}, Past(d, t)'
          PROVE  \E i \in 1..Len(log[d]) : t <= Ts(d, i)
      <3>1. CASE Past(d, t)
        BY <3>1, <1>i DEF TimesLogged
      <3>2. ASSUME NEW c \in ChannelSet, FetchNewEvents(c)
            PROVE  \E i \in 1..Len(log[d]) : t <= Ts(d, i)
        <4>1. t <= mark[d] \/ (d = c /\ \E r \in batch' : t <= Ts(c, r))
          BY <2>3, <3>2, PastFetched
        <4>2. batch' \subseteq 1..Len(log[c])
          BY <3>2 DEF FetchNewEvents
        <4> QED BY <4>1, <4>2, <3>1 DEF Past
      <3>3. CASE \A c \in ChannelSet : ~FetchNewEvents(c)
        BY <2>1, <2>3, <3>1, <3>3, PastShrinks
      <3> QED BY <3>2, <3>3
    <2>4. TimesLogged'
      BY <2>1, <2>3 DEF TimesLogged, Ts
    <2> QED BY <2>2, <2>4
  <1> QED BY <1>1, <1>2

\* The three hold of every reachable state.
LEMMA TieCorrect == Spec => [](TypeInv /\ TieInv)
  <1>1. Init => TieInv
    BY DEF Init, TieInv, Sorted, TimesLogged, Tied, Past
  <1> QED BY <1>1, TypeInit, TypeNext, TieNext, PTL DEF Spec

\* Every record logged behind the collector has the timestamp of one before it.
BehindIsTied ==
    \A e \in behind :
        Order = "ties" /\ \E i \in 1..(e[2] - 1) : log[e[1]][i].ts = TsOf(e)

\* When the records of a channel become visible in the order of their timestamps, the
\* exception of WatermarkCovers is for one case alone: a record that carries the very
\* timestamp of a record before it (fetch_new_events asks for what is strictly newer).
THEOREM OnlyTiesBehind ==
  ASSUME Order # "late"
  PROVE  Spec => []BehindIsTied
  <1>1. TypeInv /\ TieInv => BehindIsTied
    <2> SUFFICES ASSUME TypeOK, Tied, NEW e \in behind
                 PROVE  /\ Order = "ties"
                        /\ \E i \in 1..(e[2] - 1) : log[e[1]][i].ts = TsOf(e)
      BY DEF TypeInv, TieInv, BehindIsTied
    <2>1. /\ e = <<e[1], e[2]>> /\ e[1] \in ChannelSet /\ e[2] \in 1..MaxRecords
          /\ e[2] <= Len(log[e[1]])
      BY DEF TypeOK, Logged, Record
    <2>2. Len(log[e[1]]) \in Nat /\ e[2] \in 1..Len(log[e[1]])
      BY <2>1, Numbers DEF TypeOK
    <2>3. /\ Order = "ties"
          /\ \E i \in 1..Len(log[e[1]]) : i < e[2] /\ Ts(e[1], i) = Ts(e[1], e[2])
      BY <2>1, <2>2 DEF Tied
    <2> QED BY <2>2, <2>3 DEF Ts, TsOf
  <1> QED BY <1>1, TieCorrect, PTL

\* When every timestamp of a channel is later than the ones before it, no record is
\* logged behind the collector: the watermark then passes only what was stored, with no
\* exception.
THEOREM NoneBehind ==
  ASSUME Order = "increasing"
  PROVE  Spec => [](behind = {})
  <1>1. Spec => []BehindIsTied
    BY OnlyTiesBehind
  <1>2. BehindIsTied => behind = {}
    BY DEF BehindIsTied
  <1> QED BY <1>1, <1>2, PTL

-----------------------------------------------------------------------------
(* Only a crash costs an event *)

InHand == IF pc = "evaluate" THEN {Current} ELSE {}
Missed == Collected \ (evaluated \cup InHand)

\* The records stored and never evaluated are no more than the crashes.
GapInv == IsFiniteSet(Missed) /\ Cardinality(Missed) <= crashes

\* A step that misses nothing new keeps the bound.
LEMMA NothingNewMissed ==
  ASSUME TypeOK, GapInv, Missed' \subseteq Missed, crashes' = crashes
  PROVE  GapInv'
  <1>1. IsFiniteSet(Missed') /\ Cardinality(Missed') <= Cardinality(Missed)
    BY FS_Subset DEF GapInv
  <1>2. Cardinality(Missed') \in Nat /\ Cardinality(Missed) \in Nat /\ crashes \in Nat
    BY <1>1, FS_CardinalityType, Numbers DEF GapInv, TypeOK
  <1> QED BY <1>1, <1>2 DEF GapInv

\* A crash misses at most the record in hand.
LEMMA CrashMissesOne ==
  ASSUME TypeOK, GapInv, Crash
  PROVE  GapInv'
  <1>1. Missed' \subseteq Missed \cup {Current} /\ crashes' = crashes + 1
    BY DEF Crash, Missed, InHand, Collected, history
  <1>2. /\ IsFiniteSet(Missed \cup {Current})
        /\ Cardinality(Missed \cup {Current}) <= Cardinality(Missed) + 1
    <2>1. Cardinality(Missed) \in Nat
      BY FS_CardinalityType DEF GapInv
    <2>2. /\ IsFiniteSet(Missed \cup {Current})
          /\ Cardinality(Missed \cup {Current}) =
                IF Current \in Missed THEN Cardinality(Missed) ELSE Cardinality(Missed) + 1
      BY FS_AddElement DEF GapInv
    <2> QED BY <2>1, <2>2
  <1>3. /\ IsFiniteSet(Missed')
        /\ Cardinality(Missed') <= Cardinality(Missed \cup {Current})
    BY <1>1, <1>2, FS_Subset
  <1>4. /\ Cardinality(Missed') \in Nat /\ Cardinality(Missed \cup {Current}) \in Nat
        /\ Cardinality(Missed) \in Nat /\ crashes \in Nat
    BY <1>2, <1>3, FS_CardinalityType, Numbers DEF GapInv, TypeOK
  <1> QED BY <1>1, <1>2, <1>3, <1>4 DEF GapInv

\* Every step keeps the bound: the exceptions of the rules stay in the engine, and
\* those of the statements come when no record is in hand.
LEMMA GapNext == TypeInv /\ GapInv /\ [Next]_vars => GapInv'
  <1> SUFFICES ASSUME TypeOK, PollInv, GapInv, [Next]_vars PROVE GapInv'
    BY DEF TypeInv
  <1>1. CASE Crash
    BY <1>1, CrashMissesOne
  <1>2. ASSUME NEW r \in batch, InsertEvent(r) PROVE GapInv'
    <2>1. Missed' \subseteq Missed /\ crashes' = crashes
      BY <1>2 DEF InsertEvent, history, faults, Missed, InHand, Collected, Current, Chan
    <2> QED BY <2>1, NothingNewMissed
  <1>3. CASE EvaluateEvent
    <2>1. Missed' \subseteq Missed /\ crashes' = crashes
      BY <1>3 DEF EvaluateEvent, database, faults, Missed, InHand, Collected
    <2> QED BY <2>1, NothingNewMissed
  <1>4. CASE pc # "evaluate" /\ crashes' = crashes /\ Collected' = Collected
             /\ evaluated' = evaluated
    BY <1>4, NothingNewMissed DEF Missed, InHand
  <1>5. CASE UNCHANGED <<process, database, faults, history>>
    BY <1>5, NothingNewMissed DEF process, database, faults, history, Missed, InHand,
       Collected, Current, Chan
  <1>6. CASE Maintain \/ MaintenanceFails
    <2>1. Collected' = Collected
      BY <1>6 DEF Maintain, MaintenanceFails, Collected, Expired
    <2> QED BY <1>4, <1>6, <2>1 DEF Maintain, MaintenanceFails, faults
  <1>7. CASE QueryFails \/ StorageFails \/ AdvanceWatermark \/ WakeUp \/ Restart
    BY <1>4, <1>7 DEF QueryFails, StorageFails, AtStatement, AdvanceWatermark, WakeUp, Restart,
       database, faults, history, Collected
  <1>8. ASSUME NEW r \in batch, NormalizeFails(r) \/ InsertDuplicate(r) PROVE GapInv'
    BY <1>4, <1>8 DEF NormalizeFails, InsertDuplicate, database, faults, history, Collected
  <1>9. ASSUME NEW c \in ChannelSet, FetchNewEvents(c) PROVE GapInv'
    BY <1>4, <1>9 DEF FetchNewEvents, database, faults, Collected
  <1>10. ASSUME NEW c \in ChannelSet, EventLogged(c) PROVE GapInv'
    BY <1>5, <1>10 DEF EventLogged
  <1>11. CASE Tick \/ UNCHANGED vars
    BY <1>5, <1>11 DEF Tick, vars
  <1> QED
    BY <1>1, <1>2, <1>3, <1>6, <1>7, <1>8, <1>9, <1>10, <1>11
       DEF Next, Environment, PollOnce, RunForever

\* Only a crash comes between an event and the engine, and it costs one event: failing
\* queries, statements, maintenance, rules and records that do not parse lose none.
THEOREM OneLostPerCrash == Spec => []OneGapPerCrash
  <1>1. Init => GapInv
    <2> SUFFICES ASSUME Init PROVE GapInv
      OBVIOUS
    <2>1. Missed = {} /\ crashes = 0
      BY DEF Init, Missed, InHand, Collected
    <2> QED BY <2>1, FS_EmptySet DEF GapInv
  <1>2. GapInv => OneGapPerCrash
    BY DEF GapInv, OneGapPerCrash, Missed, InHand
  <1> QED BY <1>1, <1>2, GapNext, TypeInit, TypeNext, PTL DEF Spec
=============================================================================
