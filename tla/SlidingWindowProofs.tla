------------------------- MODULE SlidingWindowProofs -------------------------
(***************************************************************************)
(* Theorems about SlidingWindow, for any sources and ports, any threshold, *)
(* window and sweep period, any bounds, and events in any order of time:   *)
(* the two counting rules implement BurstDetector.                         *)
(***************************************************************************)
EXTENDS SlidingWindow, FiniteSetTheorems, SequenceTheorems, WellFoundedInduction, TLAPS

-----------------------------------------------------------------------------
(* The deque of a source, and what trimming does to it *)

Event == [key : Keys, ts : 1..MaxTime, item : Items]
Raising == [key : Keys, ts : 1..MaxTime, stored : BOOLEAN]
Mark == [ts : 1..MaxTime, item : Items]

\* The constants are numbers.
LEMMA Numbers ==
    /\ Threshold \in Nat /\ Window \in Nat /\ MaxTime \in Nat /\ MaxEvents \in Nat
    /\ MaxResets \in Nat /\ MaxLost \in Nat
    /\ PruneEvery \in Nat /\ PruneEvery > 0
  BY WindowAssumption

\* What has left the window of an event has left that of a later one.
LEMMA OutOfWindow ==
  ASSUME NEW x \in Nat, NEW sooner \in Nat, NEW later \in Nat, sooner <= later,
         x < sooner - Window
  PROVE  x < later - Window
  BY Numbers

\* The positions of a sequence that are not older than a cutoff.
Since(s, cutoff) == {i \in 1..Len(s) : s[i].ts >= cutoff}

\* The deque of a source; and, before an event of it is appended, what the sweep left.
Deque(key) == IF key \in DOMAIN attempts THEN attempts[key] ELSE <<>>
Before(e) == IF e.key \in DOMAIN KeptAttempts(e.ts) THEN KeptAttempts(e.ts)[e.key] ELSE <<>>

\* The entries of a deque have times.
LEMMA EntryTimes ==
  ASSUME NEW s \in Seq(Mark)
  PROVE  Len(s) \in Nat /\ \A i \in 1..Len(s) : s[i] \in Mark /\ s[i].ts \in Nat
  <1>1. Len(s) \in Nat /\ \A i \in 1..Len(s) : s[i] \in Mark
    OBVIOUS
  <1>2. \A m \in Mark : m.ts \in Nat
    BY Numbers DEF Mark
  <1> QED BY <1>1, <1>2

\* In a sequence that ends in the window there is a first position in it.
LEMMA FirstInWindow ==
  ASSUME NEW s, Len(s) \in Nat, NEW cutoff, Since(s, cutoff) # {}
  PROVE  \E first \in 1..Len(s) :
            s[first].ts >= cutoff /\ \A j \in 1..(first - 1) : ~(s[j].ts >= cutoff)
  <1>1. Since(s, cutoff) \subseteq Nat
    BY DEF Since
  <1>2. PICK first \in Since(s, cutoff) :
            \A j \in Since(s, cutoff) : <<j, first>> \notin OpToRel(<, Nat)
    BY <1>1, WFMin, NatLessThanWellFounded, Zenon
  <1>3. \A j \in Since(s, cutoff) : ~(j < first)
    BY <1>1, <1>2, Zenon DEF OpToRel
  <1> QED BY <1>3 DEF Since

\* What the sweep keeps of a source is its deque.
LEMMA KeptIsDeque ==
  ASSUME NEW now
  PROVE  /\ DOMAIN KeptAttempts(now) \subseteq DOMAIN attempts
         /\ \A key \in DOMAIN KeptAttempts(now) : KeptAttempts(now)[key] = attempts[key]
  BY DEF KeptAttempts, Restrict, Fresh

\* What the sweep leaves of a deque is all of it or nothing.
LEMMA BeforeTyped ==
  ASSUME TypeOK, NEW e \in Event
  PROVE  /\ Before(e) \in Seq(Mark) /\ Len(Before(e)) \in Nat
         /\ \A i \in 1..Len(Before(e)) : Before(e)[i] \in Mark /\ Before(e)[i].ts \in Nat
         /\ \/ Before(e) = Deque(e.key)
            \/ Before(e) = <<>> /\ e.key \in DOMAIN attempts /\ Due /\ e.key \notin Fresh(e.ts)
  <1>1. \/ Before(e) = Deque(e.key)
        \/ Before(e) = <<>> /\ e.key \in DOMAIN attempts /\ Due /\ e.key \notin Fresh(e.ts)
    BY KeptIsDeque DEF Before, Deque, KeptAttempts, Restrict
  <1>2. Deque(e.key) \in Seq(Mark) /\ <<>> \in Seq(Mark)
    <2>1. \A key \in DOMAIN attempts : attempts[key] \in Seq(Mark)
      BY DEF TypeOK, Mark
    <2>2. <<>> \in Seq(Mark)
      OBVIOUS
    <2> QED BY <2>1, <2>2 DEF Deque
  <1>3. Before(e) \in Seq(Mark)
    BY <1>1, <1>2, Zenon
  <1> QED BY <1>1, <1>3, EntryTimes

\* Trimming drops the entries up to the first that is not older than the window; the
\* event is appended to the rest.
LEMMA TrimmedIs ==
  ASSUME TypeOK, NEW e \in Event
  PROVE  \E first \in 1..(Len(Before(e)) + 1) :
            /\ \A j \in 1..(first - 1) : Before(e)[j].ts < e.ts - Window
            /\ first <= Len(Before(e)) => Before(e)[first].ts >= e.ts - Window
            /\ Trimmed(e) \in Seq(Mark)
            /\ Len(Trimmed(e)) = Len(Before(e)) + 2 - first
            /\ \A i \in 1..(Len(Trimmed(e)) - 1) : Trimmed(e)[i] = Before(e)[i + first - 1]
            /\ Trimmed(e)[Len(Trimmed(e))] = Entry(e)
  <1> DEFINE b == Before(e)
             s == Append(b, Entry(e))
             P(i) == /\ s[i].ts >= e.ts - Window
                     /\ \A j \in 1..(i - 1) : s[j].ts < e.ts - Window
             first == CHOOSE k \in 1..Len(s) : P(k)
  <1>1. /\ e.ts \in Nat /\ Entry(e).ts = e.ts /\ Entry(e) \in Mark
        /\ e.ts - Window \in Int /\ e.ts - Window <= e.ts
    BY Numbers DEF Entry, Event, Mark
  <1>2. b \in Seq(Mark) /\ Len(b) \in Nat
    BY BeforeTyped
  <1>3. Trimmed(e) = SubSeq(s, first, Len(s))
    BY DEF Trimmed, Before
  <1> HIDE DEF b
  <1>4. /\ s \in Seq(Mark) /\ Len(s) = Len(b) + 1 /\ s[Len(b) + 1] = Entry(e)
        /\ \A i \in 1..Len(b) : s[i] = b[i]
    BY <1>1, <1>2
  <1> HIDE DEF s
  <1>5. \A i \in 1..Len(s) : s[i].ts \in Int
    BY <1>4, EntryTimes
  <1>6. Len(s) \in Since(s, e.ts - Window)
    BY <1>1, <1>2, <1>4 DEF Since
  <1>7. PICK i \in 1..Len(s) :
            s[i].ts >= e.ts - Window /\ \A j \in 1..(i - 1) : ~(s[j].ts >= e.ts - Window)
    BY <1>2, <1>4, <1>6, FirstInWindow
  <1>8. P(i)
    BY <1>1, <1>2, <1>4, <1>5, <1>7
  <1>9. first \in 1..Len(s) /\ P(first)
    <2> HIDE DEF P
    <2> QED BY <1>8
  <1>10. first \in 1..(Len(b) + 1)
    BY <1>4, <1>9
  <1> HIDE DEF first
  <1>11. /\ Trimmed(e) \in Seq(Mark) /\ Len(Trimmed(e)) = Len(b) + 2 - first
         /\ \A k \in 1..Len(Trimmed(e)) : Trimmed(e)[k] = s[k + first - 1]
    BY <1>2, <1>3, <1>4, <1>10
  <1>12. \A k \in 1..(Len(Trimmed(e)) - 1) : Trimmed(e)[k] = b[k + first - 1]
    <2> TAKE k \in 1..(Len(Trimmed(e)) - 1)
    <2>1. k \in 1..Len(Trimmed(e)) /\ k + first - 1 \in 1..Len(b)
      BY <1>2, <1>10, <1>11
    <2> QED BY <1>4, <1>11, <2>1
  <1>13. Trimmed(e)[Len(Trimmed(e))] = Entry(e)
    BY <1>2, <1>4, <1>10, <1>11
  <1>14. \A j \in 1..(first - 1) : b[j].ts < e.ts - Window
    BY <1>2, <1>4, <1>9, <1>10
  <1>15. first <= Len(b) => b[first].ts >= e.ts - Window
    BY <1>2, <1>4, <1>9, <1>10
  <1> QED BY <1>10, <1>11, <1>12, <1>13, <1>14, <1>15 DEF b

-----------------------------------------------------------------------------
(* Where the entries of a deque stand in the history *)

\* f gives each entry of a deque its event in a history, in the order they came.
Traces(f, s, h, key) ==
    /\ f \in [1..Len(s) -> 1..Len(h)]
    /\ \A i, j \in 1..Len(s) : i < j => f[i] < f[j]
    /\ \A i \in 1..Len(s) : h[f[i]].key = key /\ s[i] = Entry(h[f[i]])

\* An event need not be remembered: it has left the window, or one of its source that
\* came later has.
Gone(h, key, j, now) ==
    \E m \in j..Len(h) : h[m].key = key /\ h[m].ts < now - Window

\* Every event of the source is in the deque, or need not be.
Covers(f, s, h, key, now) ==
    \A j \in 1..Len(h) :
        h[j].key = key => Gone(h, key, j, now) \/ \E i \in 1..Len(s) : f[i] = j

PlacesInv ==
    \A key \in Keys : \E f :
        Traces(f, Deque(key), history, key) /\ Covers(f, Deque(key), history, key, newest)

\* The history holds events, at times.
LEMMA HistoryTimes ==
  ASSUME TypeOK
  PROVE  /\ history \in Seq(Event) /\ Len(history) \in Nat
         /\ \A i \in 1..Len(history) :
               /\ history[i] \in Event /\ history[i].key \in Keys /\ history[i].ts \in Nat
               /\ Entry(history[i]).ts = history[i].ts
               /\ Entry(history[i]).item = history[i].item
         /\ newest \in Nat
  <1>1. history \in Seq(Event)
    BY DEF TypeOK, Event
  <1>2. Len(history) \in Nat /\ \A i \in 1..Len(history) : history[i] \in Event
    BY <1>1
  <1>3. \A e \in Event : e.key \in Keys /\ e.ts \in Nat
    BY Numbers DEF Event
  <1>4. newest \in Nat
    BY Numbers DEF TypeOK
  <1> QED BY <1>1, <1>2, <1>3, <1>4 DEF Entry

\* The newest time once e has come.
LEMMA LatestIs ==
  ASSUME TypeOK, NEW e \in Event
  PROVE  /\ e.key \in Keys /\ e.ts \in Nat /\ newest \in Nat /\ Detector!Latest(e) \in Nat
         /\ Detector!Latest(e) >= e.ts /\ Detector!Latest(e) >= newest
         /\ Detector!Latest(e) = e.ts \/ Detector!Latest(e) = newest
  <1>1. e.key \in Keys /\ e.ts \in Nat /\ newest \in Nat
    BY Numbers DEF Event, TypeOK
  <1> QED BY <1>1 DEF Detector!Latest

\* What need not be remembered at a time need not be later.
LEMMA GoneStays ==
  ASSUME TypeOK, NEW key, NEW j \in 1..Len(history), NEW now \in Nat, NEW later \in Nat,
         now <= later, Gone(history, key, j, now)
  PROVE  Gone(history, key, j, later)
  <1>1. PICK m \in j..Len(history) : history[m].key = key /\ history[m].ts < now - Window
    BY DEF Gone
  <1>2. m \in 1..Len(history) /\ history[m].ts \in Nat
    BY HistoryTimes
  <1>3. history[m].ts < later - Window
    BY <1>1, <1>2, Numbers
  <1> QED BY <1>1, <1>3 DEF Gone

\* A sweep forgets a source only when its last entry has left the window: every event
\* of it that came before need not be remembered.
LEMMA SweptIsGone ==
  ASSUME TypeOK, NEW now \in Nat, NEW key \in DOMAIN attempts, key \notin Fresh(now),
         NEW f, Traces(f, attempts[key], history, key), NEW j \in 1..Len(history),
         \E i \in 1..Len(attempts[key]) : f[i] = j
  PROVE  Gone(history, key, j, now)
  <1> DEFINE s == attempts[key]
  <1>1. s \in Seq(Mark) /\ s # <<>>
    BY DEF TypeOK, Mark
  <1>2. Len(s) \in Nat \ {0} /\ \A i \in 1..Len(s) : s[i].ts \in Nat
    BY <1>1, EntryTimes
  <1>3. ~(s[Len(s)].ts >= now - Window)
    BY <1>1 DEF Fresh
  <1>4. PICK i \in 1..Len(s) : f[i] = j
    OBVIOUS
  <1> HIDE DEF s
  <1>5. /\ f \in [1..Len(s) -> 1..Len(history)]
        /\ \A k, m \in 1..Len(s) : k < m => f[k] < f[m]
        /\ \A k \in 1..Len(s) : history[f[k]].key = key /\ s[k] = Entry(history[f[k]])
    BY DEF Traces, s
  <1>6. Len(s) \in 1..Len(s) /\ (i = Len(s) \/ i < Len(s))
    BY <1>2
  <1>7. f[Len(s)] \in 1..Len(history) /\ f[i] \in 1..Len(history)
    BY <1>5, <1>6
  <1>8. f[Len(s)] \in j..Len(history)
    BY <1>4, <1>5, <1>6, <1>7, HistoryTimes
  <1>9. history[f[Len(s)]].key = key /\ s[Len(s)].ts = history[f[Len(s)]].ts
    BY <1>5, <1>6, <1>7, HistoryTimes
  <1>10. history[f[Len(s)]].ts < now - Window
    BY <1>2, <1>3, <1>9, Numbers
  <1> QED BY <1>8, <1>9, <1>10 DEF Gone

\* What the sweep leaves before e still holds every event that must be remembered.
LEMMA BeforeTraced ==
  ASSUME TypeOK, PlacesInv, NEW e \in Event
  PROVE  \E f : /\ Traces(f, Before(e), history, e.key)
                /\ Covers(f, Before(e), history, e.key, Detector!Latest(e))
  <1>1. PICK f : Traces(f, Deque(e.key), history, e.key) /\ Covers(f, Deque(e.key), history, e.key, newest)
    BY LatestIs DEF PlacesInv
  <1>2. CASE Before(e) = Deque(e.key)
    <2>1. Covers(f, Deque(e.key), history, e.key, Detector!Latest(e))
      BY <1>1, GoneStays, LatestIs DEF Covers
    <2> QED BY <1>1, <1>2, <2>1
  <1>3. CASE Before(e) = <<>> /\ e.key \in DOMAIN attempts /\ e.key \notin Fresh(e.ts)
    <2>1. Deque(e.key) = attempts[e.key]
      BY <1>3 DEF Deque
    <2>2. \A j \in 1..Len(history) :
              history[j].key = e.key => Gone(history, e.key, j, Detector!Latest(e))
      <3> TAKE j \in 1..Len(history)
      <3> HAVE history[j].key = e.key
      <3>1. CASE Gone(history, e.key, j, newest)
        BY <3>1, GoneStays, LatestIs
      <3>2. CASE \E i \in 1..Len(attempts[e.key]) : f[i] = j
        <4>1. Gone(history, e.key, j, e.ts)
          BY <1>1, <1>3, <2>1, <3>2, SweptIsGone, LatestIs
        <4> QED BY <4>1, GoneStays, LatestIs
      <3> QED BY <1>1, <2>1, <3>1, <3>2 DEF Covers
    <2>3. 1..Len(<<>>) = {}
      OBVIOUS
    <2>4. Traces([i \in {} |-> 0], <<>>, history, e.key)
      BY <2>3 DEF Traces
    <2>5. Covers([i \in {} |-> 0], <<>>, history, e.key, Detector!Latest(e))
      BY <2>2 DEF Covers
    <2> QED BY <1>3, <2>4, <2>5
  <1> QED BY <1>2, <1>3, BeforeTyped

-----------------------------------------------------------------------------
(* Counting *)

\* The positions of a sequence are finitely many.
LEMMA PositionsFinite ==
  ASSUME NEW n \in Nat, NEW S \in SUBSET (1..n)
  PROVE  IsFiniteSet(S) /\ Cardinality(S) \in Nat
  <1>1. 1 \in Int /\ n \in Int
    OBVIOUS
  <1>2. IsFiniteSet(1..n)
    BY <1>1, FS_Interval
  <1>3. IsFiniteSet(S)
    BY <1>2, FS_Subset
  <1> QED BY <1>3, FS_CardinalityType

\* Cardinality is the same in BurstDetector.
LEMMA SameCardinality == \A S : Detector!Cardinality(S) = Cardinality(S)
  BY DEF Cardinality, Detector!Cardinality

\* Counting more events gives no less.
LEMMA CountGrows ==
  ASSUME TypeOK, NEW e \in Event, NEW J \in SUBSET (1..Len(history)), NEW I \in SUBSET J
  PROVE  Detector!Count(e, I) \in Nat /\ Detector!Count(e, J) \in Nat
         /\ Detector!Count(e, I) <= Detector!Count(e, J)
  <1> DEFINE ItemsOf(S) == {history[i].item : i \in S} \cup {e.item}
  <1>1. Len(history) \in Nat /\ I \in SUBSET (1..Len(history))
    BY HistoryTimes
  <1>2. /\ IsFiniteSet(I) /\ Cardinality(I) \in Nat
        /\ IsFiniteSet(J) /\ Cardinality(J) \in Nat
    BY <1>1, PositionsFinite
  <1>3. Cardinality(I) <= Cardinality(J)
    BY <1>2, FS_Subset
  <1>4. IsFiniteSet(ItemsOf(I)) /\ IsFiniteSet(ItemsOf(J))
    <2>1. \A S : IsFiniteSet(S) => IsFiniteSet({history[i].item : i \in S})
      <3> SUFFICES ASSUME NEW S, IsFiniteSet(S) PROVE IsFiniteSet({history[i].item : i \in S})
        OBVIOUS
      <3> DEFINE T == {history[i].item : i \in S}
                 h == [i \in S |-> history[i].item]
      <3>1. h \in [S -> T] /\ \A x \in T : \E i \in S : h[i] = x
        OBVIOUS
      <3> HIDE DEF h, T
      <3>2. h \in Surjection(S, T)
        BY <3>1 DEF Surjection
      <3>3. IsFiniteSet(T)
        BY <3>2, FS_Surjection
      <3> QED BY <3>3 DEF T
    <2>2. IsFiniteSet({e.item})
      BY FS_Singleton
    <2> QED BY <1>2, <2>1, <2>2, FS_Union
  <1>5. ItemsOf(I) \subseteq ItemsOf(J)
    OBVIOUS
  <1>6. /\ Cardinality(ItemsOf(I)) \in Nat /\ Cardinality(ItemsOf(J)) \in Nat
        /\ Cardinality(ItemsOf(I)) <= Cardinality(ItemsOf(J))
    <2> HIDE DEF ItemsOf
    <2> QED BY <1>4, <1>5, FS_Subset, FS_CardinalityType
  <1>7. \A S : Detector!Count(e, S) = IF which = "brute_force" THEN Cardinality(S) + 1
                                     ELSE Cardinality(ItemsOf(S))
    BY SameCardinality DEF Detector!Count
  <1> HIDE DEF ItemsOf
  <1> QED BY <1>2, <1>3, <1>6, <1>7

\* What the rule measures is the count of a set of events of the source: all that must
\* be remembered are among them, and none that may not count.
LEMMA SizeIsCount ==
  ASSUME TypeOK, PlacesInv, NEW e \in Event
  PROVE  \E I \in SUBSET Detector!Admitted(e) :
            Detector!Remembered(e) \subseteq I /\ Size(Trimmed(e)) = Detector!Count(e, I)
  <1> DEFINE b == Before(e)
             t == Trimmed(e)
  <1>1. /\ b \in Seq(Mark) /\ Len(b) \in Nat
        /\ \A i \in 1..Len(b) : b[i] \in Mark /\ b[i].ts \in Nat
    BY BeforeTyped
  <1>2. PICK f : Traces(f, b, history, e.key) /\ Covers(f, b, history, e.key, Detector!Latest(e))
    BY BeforeTraced
  <1>3. PICK first \in 1..(Len(b) + 1) :
            /\ \A j \in 1..(first - 1) : b[j].ts < e.ts - Window
            /\ first <= Len(b) => b[first].ts >= e.ts - Window
            /\ t \in Seq(Mark)
            /\ Len(t) = Len(b) + 2 - first
            /\ \A i \in 1..(Len(t) - 1) : t[i] = b[i + first - 1]
            /\ t[Len(t)] = Entry(e)
    BY TrimmedIs
  <1> HIDE DEF b, t
  <1> DEFINE K == 1..(Len(t) - 1)
             g == [k \in K |-> f[k + first - 1]]
             I == {g[k] : k \in K}
  <1>4. Len(t) \in Nat \ {0}
    BY <1>1, <1>3
  <1>5. /\ f \in [1..Len(b) -> 1..Len(history)]
        /\ \A i, j \in 1..Len(b) : i < j => f[i] < f[j]
        /\ \A i \in 1..Len(b) : history[f[i]].key = e.key /\ b[i] = Entry(history[f[i]])
    BY <1>2 DEF Traces
  <1>6. \A k \in K : /\ k + first - 1 \in 1..Len(b) /\ g[k] = f[k + first - 1]
                     /\ first <= k + first - 1
                     /\ t[k] = b[k + first - 1]
    <2> TAKE k \in K
    <2>1. k \in Nat /\ k >= 1 /\ k <= Len(b) + 1 - first
      BY <1>1, <1>3
    <2>2. k + first - 1 \in 1..Len(b) /\ first <= k + first - 1
      BY <1>1, <1>3, <2>1
    <2>3. t[k] = b[k + first - 1]
      BY <1>3
    <2> QED BY <2>2, <2>3
  <1>7. \A k \in K : /\ g[k] \in 1..Len(history) /\ history[g[k]].key = e.key
                     /\ t[k].item = history[g[k]].item
    <2> TAKE k \in K
    <2>1. k + first - 1 \in 1..Len(b) /\ g[k] = f[k + first - 1] /\ t[k] = b[k + first - 1]
      BY <1>6
    <2>2. g[k] \in 1..Len(history) /\ history[g[k]].key = e.key
          /\ b[k + first - 1] = Entry(history[g[k]])
      BY <1>5, <2>1
    <2> QED BY <2>1, <2>2, HistoryTimes
  <1>8. I \subseteq Detector!Admitted(e)
    <2> SUFFICES ASSUME NEW k \in K PROVE g[k] \in Detector!Admitted(e)
      OBVIOUS
    <2>1. first \in 1..Len(b) /\ k + first - 1 \in 1..Len(b) /\ first <= k + first - 1
      BY <1>1, <1>3, <1>6
    <2>2. f[first] \in 1..Len(history) /\ f[first] <= f[k + first - 1]
      <3>1. first = k + first - 1 \/ first < k + first - 1
        BY <2>1
      <3>2. f[first] \in 1..Len(history) /\ f[k + first - 1] \in 1..Len(history)
        BY <1>5, <2>1
      <3>3. first < k + first - 1 => f[first] < f[k + first - 1]
        BY <1>5, <2>1
      <3>4. f[first] \in Nat /\ f[k + first - 1] \in Nat
        BY <3>2, HistoryTimes
      <3>5. f[first] <= f[k + first - 1]
        <4>1. CASE first = k + first - 1
          <5>1. f[first] = f[k + first - 1]
            BY <4>1, Zenon
          <5> QED BY <3>4, <5>1
        <4>2. CASE first < k + first - 1
          BY <3>3, <3>4, <4>2
        <4> QED BY <3>1, <4>1, <4>2
      <3> QED BY <3>2, <3>5
    <2>3. history[f[first]].key = e.key /\ history[f[first]].ts >= e.ts - Window
      <3>1. b[first].ts >= e.ts - Window /\ b[first] = Entry(history[f[first]])
            /\ history[f[first]].key = e.key
        BY <1>3, <1>5, <2>1
      <3>2. Entry(history[f[first]]).ts = history[f[first]].ts
        BY <2>2, HistoryTimes
      <3> QED BY <3>1, <3>2
    <2>4. g[k] \in Detector!Own(e) /\ f[first] \in Detector!Own(e) /\ f[first] <= g[k]
      BY <1>6, <1>7, <2>2, <2>3 DEF Detector!Own
    <2> HIDE DEF g
    <2> QED BY <2>3, <2>4 DEF Detector!Admitted
  <1>9. Detector!Remembered(e) \subseteq I
    <2> SUFFICES ASSUME NEW j \in Detector!Remembered(e) PROVE j \in I
      OBVIOUS
    <2>1. /\ j \in 1..Len(history) /\ history[j].key = e.key
          /\ \A m \in Detector!Own(e) : j <= m => history[m].ts >= Detector!Latest(e) - Window
      BY DEF Detector!Remembered, Detector!Own
    <2>2. ~Gone(history, e.key, j, Detector!Latest(e))
      <3> SUFFICES ASSUME NEW m \in j..Len(history), history[m].key = e.key
                   PROVE  ~(history[m].ts < Detector!Latest(e) - Window)
        BY DEF Gone
      <3>1. m \in Detector!Own(e) /\ j <= m /\ m \in 1..Len(history)
        BY <2>1, HistoryTimes DEF Detector!Own
      <3>2. history[m].ts >= Detector!Latest(e) - Window
        BY <2>1, <3>1
      <3> QED BY <3>1, <3>2, HistoryTimes, LatestIs, Numbers
    <2>3. PICK i \in 1..Len(b) : f[i] = j
      BY <1>2, <2>1, <2>2 DEF Covers
    <2>4. b[i].ts = history[j].ts
      BY <1>5, <2>1, <2>3, HistoryTimes
    <2>5. history[j].ts >= Detector!Latest(e) - Window
      BY <2>1, HistoryTimes DEF Detector!Own
    <2>6. ~(b[i].ts < e.ts - Window)
      <3>1. /\ e.ts \in Nat /\ Detector!Latest(e) \in Nat /\ e.ts <= Detector!Latest(e)
            /\ history[j].ts \in Nat
        BY <2>1, LatestIs, HistoryTimes
      <3>2. ~(history[j].ts < Detector!Latest(e) - Window)
        BY <2>5, <3>1, Numbers
      <3>3. ~(history[j].ts < e.ts - Window)
        BY <3>1, <3>2, OutOfWindow, Zenon
      <3> QED BY <2>4, <3>3
    <2>7. i - first + 1 \in K /\ (i - first + 1) + first - 1 = i
      BY <1>1, <1>3, <2>6
    <2>8. g[i - first + 1] = j
      BY <1>6, <2>3, <2>7
    <2> HIDE DEF g
    <2> QED BY <2>7, <2>8
  <1>10. Cardinality(I) = Len(t) - 1
    <2>1. g \in Bijection(K, I)
      <3>1. g \in [K -> I]
        OBVIOUS
      <3>2. \A k, m \in K : k < m => g[k] # g[m]
        <4> TAKE k, m \in K
        <4> HAVE k < m
        <4>1. k + first - 1 < m + first - 1
          BY <1>3
        <4>2. f[k + first - 1] < f[m + first - 1]
          BY <1>5, <1>6, <4>1
        <4>3. f[k + first - 1] \in 1..Len(history) /\ f[m + first - 1] \in 1..Len(history)
          BY <1>5, <1>6
        <4> QED BY <1>6, <4>2, <4>3, HistoryTimes
      <3>3. \A k, m \in K : g[k] = g[m] => k = m
        <4>1. \A k, m \in K : k < m \/ m < k \/ k = m
          BY <1>4
        <4> HIDE DEF g, K
        <4> QED BY <3>2, <4>1
      <3>4. \A x \in I : \E k \in K : g[k] = x
        OBVIOUS
      <3> HIDE DEF g, I, K
      <3> QED BY <3>1, <3>3, <3>4 DEF Bijection, Injection, IsInjective, Surjection
    <2>2. IsFiniteSet(K) /\ Cardinality(K) = Len(t) - 1
      <3>1. Len(t) - 1 \in Int /\ 1 \in Int
        BY <1>4
      <3>2. IsFiniteSet(K) /\ Cardinality(K) = IF 1 > Len(t) - 1 THEN 0 ELSE (Len(t) - 1) - 1 + 1
        BY <3>1, FS_Interval
      <3> QED BY <1>4, <3>2
    <2> HIDE DEF g, I, K
    <2> QED BY <2>1, <2>2, FS_Bijection DEF ExistsBijection
  <1>11. {t[i].item : i \in 1..Len(t)} = {history[i].item : i \in I} \cup {e.item}
    <2>1. 1..Len(t) = K \cup {Len(t)}
      BY <1>4
    <2>2. {t[i].item : i \in 1..Len(t)} = {t[i].item : i \in K} \cup {t[Len(t)].item}
      BY <2>1
    <2>3. t[Len(t)].item = e.item
      BY <1>3 DEF Entry
    <2>4. {t[i].item : i \in K} = {history[i].item : i \in I}
      <3>1. \A i \in K : t[i].item = history[g[i]].item /\ g[i] \in I
        BY <1>7
      <3>2. \A x \in I : \E i \in K : x = g[i]
        OBVIOUS
      <3> HIDE DEF g, I, K
      <3> QED BY <3>1, <3>2
    <2> HIDE DEF g, I, K
    <2> QED BY <2>2, <2>3, <2>4
  <1>12. Size(t) = Detector!Count(e, I)
    <2> DEFINE TheItems == {history[i].item : i \in I} \cup {e.item}
    <2>1. Size(t) = IF which = "brute_force" THEN Len(t) ELSE Cardinality(TheItems)
      BY <1>11, Zenon DEF Size
    <2>2. Detector!Count(e, I) = IF which = "brute_force" THEN Cardinality(I) + 1
                                 ELSE Cardinality(TheItems)
      BY SameCardinality, Zenon DEF Detector!Count
    <2> HIDE DEF g, I, K, TheItems
    <2>3. Len(t) = Cardinality(I) + 1
      BY <1>4, <1>10
    <2> QED BY <2>1, <2>2, <2>3
  <1> HIDE DEF g, I, K
  <1> QED BY <1>8, <1>9, <1>12 DEF t

\* The measure lies between what must count and what may.
LEMMA SizeBetween ==
  ASSUME TypeOK, PlacesInv, NEW e \in Event
  PROVE  /\ Detector!Count(e, Detector!Remembered(e)) >= Threshold
               => Size(Trimmed(e)) >= Threshold
         /\ Size(Trimmed(e)) >= Threshold
               => Detector!Count(e, Detector!Admitted(e)) >= Threshold
  <1> DEFINE R == Detector!Remembered(e)
             A == Detector!Admitted(e)
  <1>1. PICK I \in SUBSET A : R \subseteq I /\ Size(Trimmed(e)) = Detector!Count(e, I)
    BY SizeIsCount
  <1>2. A \in SUBSET (1..Len(history))
    BY DEF Detector!Admitted, Detector!Own
  <1> HIDE DEF R, A
  <1>3. I \in SUBSET (1..Len(history)) /\ R \in SUBSET I
    BY <1>1, <1>2
  <1>4. /\ Detector!Count(e, R) \in Nat /\ Detector!Count(e, I) \in Nat
        /\ Detector!Count(e, R) <= Detector!Count(e, I)
    BY <1>3, CountGrows
  <1>5. Detector!Count(e, A) \in Nat /\ Detector!Count(e, I) <= Detector!Count(e, A)
    BY <1>1, <1>2, CountGrows
  <1> QED BY <1>1, <1>4, <1>5, Numbers DEF R, A

-----------------------------------------------------------------------------
(* Type correctness *)

\* An evaluated event leaves each deque as it was, trimmed or forgotten.
LEMMA DequesAfter ==
  ASSUME TypeOK, NEW e \in Event, Evaluate(e)
  PROVE  /\ e.key \in DOMAIN attempts' /\ attempts'[e.key] = Trimmed(e)
         /\ DOMAIN attempts' \subseteq DOMAIN attempts \cup {e.key}
         /\ \A key \in DOMAIN attempts' \ {e.key} :
               /\ key \in DOMAIN KeptAttempts(e.ts) /\ key \in DOMAIN attempts
               /\ attempts'[key] = attempts[key]
         /\ \A key \in DOMAIN KeptAttempts(e.ts) : key \in DOMAIN attempts'
  BY KeptIsDeque DEF Evaluate, With

\* What the sweep keeps of the times of alerts, and what an event changes of them.
LEMMA AlertsAfter ==
  ASSUME NEW e, Evaluate(e)
  PROVE  /\ DOMAIN KeptAlerts(e.ts) \subseteq DOMAIN lastAlert
         /\ \A key \in DOMAIN KeptAlerts(e.ts) : KeptAlerts(e.ts)[key] = lastAlert[key]
         /\ \A key \in DOMAIN lastAlert :
               key \notin DOMAIN KeptAlerts(e.ts) => ~(lastAlert[key] >= e.ts - Window)
         /\ ~Fires(e) => lastAlert' = KeptAlerts(e.ts)
         /\ Fires(e) => /\ e.key \in DOMAIN lastAlert' /\ lastAlert'[e.key] = e.ts
                        /\ \A key : key # e.key =>
                              /\ key \in DOMAIN lastAlert' <=> key \in DOMAIN KeptAlerts(e.ts)
                              /\ key \in DOMAIN lastAlert' =>
                                    lastAlert'[key] = KeptAlerts(e.ts)[key]
  <1>1. /\ DOMAIN KeptAlerts(e.ts) \subseteq DOMAIN lastAlert
        /\ \A key \in DOMAIN KeptAlerts(e.ts) : KeptAlerts(e.ts)[key] = lastAlert[key]
        /\ \A key \in DOMAIN lastAlert :
               key \notin DOMAIN KeptAlerts(e.ts) => ~(lastAlert[key] >= e.ts - Window)
    BY DEF KeptAlerts, FreshAlerts, Restrict
  <1>2. lastAlert' = IF Fires(e) THEN With(KeptAlerts(e.ts), e.key, e.ts) ELSE KeptAlerts(e.ts)
    BY DEF Evaluate, Noted
  <1> QED BY <1>1, <1>2 DEF With

\* The initial states are typed.
LEMMA TypeInit == WInit => TypeOK
  <1>1. Len(<<>>) = 0 /\ 1..0 = {} /\ \A S : <<>> \in Seq(S)
    OBVIOUS
  <1> QED BY <1>1, Numbers DEF WInit, TypeOK

\* The alerts raised have sources and times.
LEMMA RaisingTimes ==
  ASSUME NEW r \in Seq(Raising)
  PROVE  /\ Len(r) \in Nat
         /\ \A i \in 1..Len(r) : r[i].key \in Keys /\ r[i].ts \in 1..MaxTime
  <1>1. Len(r) \in Nat /\ \A i \in 1..Len(r) : r[i] \in Raising
    OBVIOUS
  <1>2. \A a \in Raising : a.key \in Keys /\ a.ts \in 1..MaxTime
    BY DEF Raising
  <1> QED BY <1>1, <1>2

LEMMA RaisedTimes ==
  ASSUME TypeOK
  PROVE  /\ raised \in Seq(Raising) /\ Len(raised) \in Nat
         /\ \A i \in 1..Len(raised) : raised[i].key \in Keys /\ raised[i].ts \in 1..MaxTime
  BY RaisingTimes DEF TypeOK, Raising

\* What Raise does to the alerts.
LEMMA RaisedAfter ==
  ASSUME TypeOK, NEW e \in Event, Evaluate(e)
  PROVE  /\ raised' \in Seq(Raising)
         /\ ~Fires(e) => raised' = raised
         /\ Fires(e) => /\ Len(raised) \in Nat /\ Len(raised') = Len(raised) + 1
                        /\ \A i \in 1..Len(raised) : raised'[i] = raised[i]
                        /\ raised'[Len(raised) + 1].key = e.key
                        /\ raised'[Len(raised) + 1].ts = e.ts
         /\ lost' \in 0..MaxLost
  <1>1. CASE ~Fires(e)
    BY <1>1, RaisedTimes DEF Evaluate, TypeOK
  <1>2. CASE Fires(e)
    <2>1. PICK stored \in BOOLEAN :
              /\ ~stored => lost < MaxLost
              /\ lost' = IF stored THEN lost ELSE lost + 1
              /\ raised' = Append(raised, [key |-> e.key, ts |-> e.ts, stored |-> stored])
      BY <1>2 DEF Evaluate, Raise
    <2> DEFINE a == [key |-> e.key, ts |-> e.ts, stored |-> stored]
    <2>2. a \in Raising /\ a.key = e.key /\ a.ts = e.ts
      BY DEF Event, Raising
    <2>3. raised' = Append(raised, a)
      BY <2>1
    <2>4. lost' \in 0..MaxLost
      <3>1. lost' = lost \/ (lost < MaxLost /\ lost' = lost + 1)
        BY <2>1, Zenon
      <3>2. lost \in 0..MaxLost /\ MaxLost \in Nat
        BY Numbers DEF TypeOK
      <3> QED BY <3>1, <3>2
    <2> HIDE DEF a
    <2> QED BY <1>2, <2>2, <2>3, <2>4, RaisedTimes
  <1> QED BY <1>1, <1>2

\* Every step preserves the types.
LEMMA TypeNext == TypeOK /\ [WNext]_vars => TypeOK'
  <1> SUFFICES ASSUME TypeOK, [WNext]_vars PROVE TypeOK'
    OBVIOUS
  <1> USE Numbers
  <1>1. ASSUME NEW e \in Event, Evaluate(e) PROVE TypeOK'
    <2>1. /\ e.key \in Keys /\ e.ts \in 1..MaxTime /\ newest \in 0..MaxTime
          /\ history' = Append(history, e)
          /\ newest' = IF e.ts > newest THEN e.ts ELSE newest
          /\ sweptAt' = IF Due THEN Len(history) + 1 ELSE sweptAt
      BY SMTT(30), <1>1 DEF Event, Evaluate, TypeOK
    <2>2. history' \in Seq(Event) /\ Len(history') = Len(history) + 1 /\ Len(history) \in Nat
      BY <2>1, HistoryTimes
    <2>3. raised' \in Seq(Raising)
      BY <1>1, RaisedAfter
    <2>4. \A key \in DOMAIN attempts' :
              key \in Keys /\ attempts'[key] \in Seq(Mark) \ {<<>>}
      <3> TAKE key \in DOMAIN attempts'
      <3>1. CASE key = e.key
        <4>1. attempts'[key] = Trimmed(e)
          BY <1>1, <3>1, DequesAfter, Zenon
        <4>2. Trimmed(e) \in Seq(Mark) /\ Trimmed(e) # <<>>
          <5>1. PICK first \in 1..(Len(Before(e)) + 1) :
                    Trimmed(e) \in Seq(Mark) /\ Len(Trimmed(e)) = Len(Before(e)) + 2 - first
            BY TrimmedIs
          <5>2. Len(Trimmed(e)) # 0
            BY <5>1, BeforeTyped
          <5>3. Len(<<>>) = 0
            OBVIOUS
          <5> QED BY <5>1, <5>2, <5>3, Zenon
        <4> QED BY <2>1, <3>1, <4>1, <4>2
      <3>2. CASE key # e.key
        <4>1. key \in DOMAIN attempts /\ attempts'[key] = attempts[key]
          BY <1>1, <3>2, DequesAfter, Zenon
        <4>2. key \in Keys /\ attempts[key] \in Seq(Mark) \ {<<>>}
          BY <4>1 DEF TypeOK, Mark
        <4> QED BY <4>1, <4>2
      <3> QED BY <3>1, <3>2
    <2>5. /\ DOMAIN lastAlert' \subseteq Keys
          /\ \A key \in DOMAIN lastAlert' : lastAlert'[key] \in 1..MaxTime
      <3>1. \A key \in DOMAIN lastAlert : key \in Keys /\ lastAlert[key] \in 1..MaxTime
        BY DEF TypeOK
      <3>2. \A key \in DOMAIN KeptAlerts(e.ts) :
                key \in Keys /\ KeptAlerts(e.ts)[key] \in 1..MaxTime
        BY <1>1, <3>1, AlertsAfter, Zenon
      <3>3. \A key \in DOMAIN lastAlert' : key \in Keys /\ lastAlert'[key] \in 1..MaxTime
        <4>1. CASE ~Fires(e)
          BY <1>1, <3>2, <4>1, AlertsAfter, Zenon
        <4>2. CASE Fires(e)
          <5> TAKE key \in DOMAIN lastAlert'
          <5>1. CASE key = e.key
            BY <1>1, <2>1, <4>2, <5>1, AlertsAfter, Zenon
          <5>2. CASE key # e.key
            <6>1. key \in DOMAIN KeptAlerts(e.ts) /\ lastAlert'[key] = KeptAlerts(e.ts)[key]
              BY <1>1, <4>2, <5>2, AlertsAfter, Zenon
            <6> QED BY <3>2, <6>1
          <5> QED BY <5>1, <5>2
        <4> QED BY <4>1, <4>2
      <3> QED BY <3>3
    <2>6. lost' \in 0..MaxLost
      BY <1>1, RaisedAfter
    <2>7. seen' \in 0..(PruneEvery - 1) /\ resets' \in 0..MaxResets
      <3>1. /\ resets' = resets
            /\ Due => seen' = 0
            /\ ~Due => seen' = seen + 1
        BY <1>1 DEF Evaluate
      <3>2. seen \in 0..(PruneEvery - 1) /\ resets \in 0..MaxResets
        BY DEF TypeOK
      <3>3. CASE Due
        BY <3>1, <3>2, <3>3
      <3>4. CASE ~Due
        BY <3>1, <3>2, <3>4 DEF Due
      <3> QED BY <3>3, <3>4
    <2>8. newest' \in 0..MaxTime
      BY <2>1
    <2>9. sweptAt' \in 0..Len(history')
      <3>1. sweptAt \in 0..Len(history) /\ (sweptAt' = Len(history) + 1 \/ sweptAt' = sweptAt)
        BY <2>1 DEF TypeOK
      <3> QED BY <2>2, <3>1
    <2> QED BY <2>2, <2>3, <2>4, <2>5, <2>6, <2>7, <2>8, <2>9
           DEF TypeOK, Mark, Raising, Event
  <1>2. CASE Configure
    <2>1. Len(<<>>) = 0 /\ 1..0 = {} /\ \A S : <<>> \in Seq(S)
      OBVIOUS
    <2> QED BY <1>2, <2>1 DEF Configure, TypeOK
  <1>3. CASE UNCHANGED vars
    BY <1>3 DEF vars, rule, TypeOK
  <1> QED BY <1>1, <1>2, <1>3 DEF WNext, Event

\* The rules keep well-formed deques, none of them empty: the sweep, which decides by
\* a deque's last entry, and the trimming, which keeps the event at hand, find one.
THEOREM TypeCorrect == WSpec => []TypeOK
  BY TypeInit, TypeNext, PTL DEF WSpec

-----------------------------------------------------------------------------
(* Forgetting loses nothing that must be remembered *)

\* What an evaluated event does to the history.
LEMMA HistoryAfter ==
  ASSUME TypeOK, NEW e \in Event, Evaluate(e)
  PROVE  /\ Len(history) \in Nat /\ Len(history') = Len(history) + 1
         /\ \A i \in 1..Len(history) : i \in 1..Len(history') /\ history'[i] = history[i]
         /\ Len(history) + 1 \in 1..Len(history') /\ history'[Len(history) + 1] = e
         /\ newest' = Detector!Latest(e)
  <1>1. history' = Append(history, e) /\ newest' = IF e.ts > newest THEN e.ts ELSE newest
    BY DEF Evaluate
  <1>2. history \in Seq(Event) /\ Len(history) \in Nat
    BY HistoryTimes
  <1>3. newest' = Detector!Latest(e)
    BY <1>1 DEF Detector!Latest
  <1> QED BY <1>1, <1>2, <1>3

\* What need not be remembered need not be once another event has come.
LEMMA GoneAfter ==
  ASSUME TypeOK, NEW e \in Event, Evaluate(e), NEW key, NEW j \in 1..Len(history),
         Gone(history, key, j, Detector!Latest(e))
  PROVE  Gone(history', key, j, newest')
  <1>1. PICK m \in j..Len(history) :
            history[m].key = key /\ history[m].ts < Detector!Latest(e) - Window
    BY DEF Gone
  <1>2. m \in 1..Len(history) /\ m \in j..Len(history') /\ history'[m] = history[m]
    BY HistoryAfter
  <1>3. newest' = Detector!Latest(e)
    BY HistoryAfter
  <1>4. history'[m].key = key /\ history'[m].ts < newest' - Window
    BY <1>1, <1>2, <1>3
  <1> QED BY <1>2, <1>4 DEF Gone

\* A deque that is left alone keeps its places.
LEMMA PlacesKept ==
  ASSUME TypeOK, NEW e \in Event, Evaluate(e), NEW key, key # e.key, NEW f, NEW s,
         Traces(f, s, history, key), Covers(f, s, history, key, Detector!Latest(e))
  PROVE  Traces(f, s, history', key) /\ Covers(f, s, history', key, newest')
  <1>1. /\ f \in [1..Len(s) -> 1..Len(history)]
        /\ \A i, j \in 1..Len(s) : i < j => f[i] < f[j]
        /\ \A i \in 1..Len(s) : history[f[i]].key = key /\ s[i] = Entry(history[f[i]])
    BY DEF Traces
  <1>2. /\ Len(history) \in Nat /\ Len(history') = Len(history) + 1
        /\ \A i \in 1..Len(history) : i \in 1..Len(history') /\ history'[i] = history[i]
        /\ history'[Len(history) + 1] = e
    BY HistoryAfter
  <1>3. f \in [1..Len(s) -> 1..Len(history')]
    BY <1>1, <1>2
  <1>4. \A i \in 1..Len(s) : history'[f[i]].key = key /\ s[i] = Entry(history'[f[i]])
    <2> TAKE i \in 1..Len(s)
    <2>1. f[i] \in 1..Len(history)
      BY <1>1
    <2>2. history'[f[i]] = history[f[i]]
      BY <1>2, <2>1
    <2> QED BY <1>1, <2>2
  <1>5. Traces(f, s, history', key)
    BY <1>1, <1>3, <1>4 DEF Traces
  <1>6. ASSUME NEW j \in 1..Len(history'), history'[j].key = key
        PROVE  Gone(history', key, j, newest') \/ \E i \in 1..Len(s) : f[i] = j
    <2>1. j \in 1..Len(history) /\ history[j].key = key
      BY <1>2, <1>6
    <2> QED BY <2>1, GoneAfter DEF Covers
  <1> QED BY <1>5, <1>6 DEF Covers

\* The deque of the event's own source, trimmed, has its places.
LEMMA PlacesTrimmed ==
  ASSUME TypeOK, PlacesInv, NEW e \in Event, Evaluate(e)
  PROVE  \E g : /\ Traces(g, Trimmed(e), history', e.key)
                /\ Covers(g, Trimmed(e), history', e.key, newest')
  <1> DEFINE b == Before(e)
             t == Trimmed(e)
             n == Len(history)
  <1>1. /\ b \in Seq(Mark) /\ Len(b) \in Nat
        /\ \A i \in 1..Len(b) : b[i] \in Mark /\ b[i].ts \in Nat
    BY BeforeTyped
  <1>2. PICK f : /\ Traces(f, b, history, e.key)
                 /\ Covers(f, b, history, e.key, Detector!Latest(e))
    BY BeforeTraced
  <1>3. PICK first \in 1..(Len(b) + 1) :
            /\ \A j \in 1..(first - 1) : b[j].ts < e.ts - Window
            /\ first <= Len(b) => b[first].ts >= e.ts - Window
            /\ t \in Seq(Mark)
            /\ Len(t) = Len(b) + 2 - first
            /\ \A i \in 1..(Len(t) - 1) : t[i] = b[i + first - 1]
            /\ t[Len(t)] = Entry(e)
    BY TrimmedIs
  <1>4. /\ n \in Nat /\ Len(history') = n + 1
        /\ \A i \in 1..n : i \in 1..Len(history') /\ history'[i] = history[i]
        /\ n + 1 \in 1..Len(history') /\ history'[n + 1] = e
        /\ newest' = Detector!Latest(e)
    BY HistoryAfter
  <1>5. /\ f \in [1..Len(b) -> 1..n]
        /\ \A i, j \in 1..Len(b) : i < j => f[i] < f[j]
        /\ \A i \in 1..Len(b) : history[f[i]].key = e.key /\ b[i] = Entry(history[f[i]])
    BY <1>2 DEF Traces
  <1> HIDE DEF b, t, n
  <1> DEFINE g == [k \in 1..Len(t) |-> IF k = Len(t) THEN n + 1 ELSE f[k + first - 1]]
  <1>6. Len(t) \in Nat \ {0}
    BY <1>1, <1>3
  <1>7. ASSUME NEW k \in 1..Len(t), k # Len(t)
        PROVE  /\ k + first - 1 \in 1..Len(b) /\ g[k] = f[k + first - 1] /\ g[k] \in 1..n
               /\ t[k] = b[k + first - 1]
    <2>1. k \in 1..(Len(t) - 1) /\ k + first - 1 \in 1..Len(b)
      <3>1. Len(t) = Len(b) + 2 - first /\ first \in 1..(Len(b) + 1)
        BY <1>3
      <3> HIDE DEF g
      <3>2. k \in Nat /\ k >= 1 /\ k <= Len(t) - 1
        BY <1>6, <1>7
      <3> QED BY <1>1, <1>6, <3>1, <3>2
    <2>2. g[k] = f[k + first - 1]
      BY <1>7
    <2>3. f[k + first - 1] \in 1..n
      BY <1>5, <2>1
    <2> HIDE DEF g
    <2> QED BY <1>3, <2>1, <2>2, <2>3
  <1>8. Len(t) \in 1..Len(t) /\ g[Len(t)] = n + 1
    BY <1>6
  <1>9. Traces(g, t, history', e.key)
    <2>1. \A k \in 1..Len(t) : g[k] \in 1..Len(history')
      <3> HIDE DEF g
      <3> QED BY <1>4, <1>7, <1>8
    <2>2. g \in [1..Len(t) -> 1..Len(history')]
      BY <2>1
    <2> HIDE DEF g
    <2>3. \A k, m \in 1..Len(t) : k < m => g[k] < g[m]
      <3> TAKE k, m \in 1..Len(t)
      <3> HAVE k < m
      <3>1. k # Len(t)
        BY <1>6
      <3>2. /\ k + first - 1 \in 1..Len(b) /\ g[k] = f[k + first - 1] /\ g[k] \in 1..n
        BY <1>7, <3>1
      <3>3. CASE m = Len(t)
        BY <1>4, <1>8, <3>2, <3>3
      <3>4. CASE m # Len(t)
        <4>1. m + first - 1 \in 1..Len(b) /\ g[m] = f[m + first - 1]
          BY <1>7, <3>4
        <4>2. k + first - 1 < m + first - 1
          BY <1>3
        <4> QED BY <1>5, <3>2, <4>1, <4>2
      <3> QED BY <3>3, <3>4
    <2>4. \A k \in 1..Len(t) : history'[g[k]].key = e.key /\ t[k] = Entry(history'[g[k]])
      <3> TAKE k \in 1..Len(t)
      <3>1. CASE k = Len(t)
        BY <1>3, <1>4, <1>8, <3>1
      <3>2. CASE k # Len(t)
        <4>1. /\ k + first - 1 \in 1..Len(b) /\ g[k] = f[k + first - 1] /\ g[k] \in 1..n
              /\ t[k] = b[k + first - 1]
          BY <1>7, <3>2
        <4>2. history'[g[k]] = history[g[k]]
          BY <1>4, <4>1
        <4> QED BY <1>5, <4>1, <4>2
      <3> QED BY <3>1, <3>2
    <2> QED BY <2>2, <2>3, <2>4 DEF Traces
  <1> HIDE DEF g
  <1>10. Covers(g, t, history', e.key, newest')
    <2> SUFFICES ASSUME NEW j \in 1..Len(history'), history'[j].key = e.key
                 PROVE  Gone(history', e.key, j, newest') \/ \E k \in 1..Len(t) : g[k] = j
      BY DEF Covers
    <2>1. CASE j = n + 1
      BY <1>8, <2>1
    <2>2. CASE j # n + 1
      <3>1. j \in 1..n /\ history'[j] = history[j] /\ history[j].key = e.key
        BY <1>4, <2>2
      <3>2. Gone(history, e.key, j, Detector!Latest(e)) \/ \E i \in 1..Len(b) : f[i] = j
        BY <1>2, <3>1 DEF Covers, n
      <3>3. CASE Gone(history, e.key, j, Detector!Latest(e))
        BY <3>1, <3>3, GoneAfter DEF n
      <3>4. CASE \E i \in 1..Len(b) : f[i] = j
        <4>1. PICK i \in 1..Len(b) : f[i] = j
          BY <3>4
        <4>2. CASE i < first
          <5>1. b[i].ts < e.ts - Window /\ b[i].ts = history[j].ts
            <6>1. i \in 1..(first - 1)
              BY <1>1, <4>1, <4>2
            <6>2. b[i].ts < e.ts - Window
              BY <1>3, <6>1
            <6>3. b[i] = Entry(history[j])
              BY <1>5, <4>1
            <6>4. Entry(history[j]).ts = history[j].ts
              BY <3>1, HistoryTimes DEF n
            <6> QED BY <6>2, <6>3, <6>4
          <5>2. history'[j].ts < newest' - Window
            <6>1. history'[j].ts = history[j].ts /\ history[j].ts \in Nat
              BY <3>1, HistoryTimes DEF n
            <6>2. newest' \in Nat /\ newest' >= e.ts /\ e.ts \in Nat
              BY <1>4, LatestIs
            <6>3. history[j].ts < e.ts - Window
              BY <5>1
            <6>4. history[j].ts < newest' - Window
              BY <6>1, <6>2, <6>3, OutOfWindow
            <6> QED BY <6>1, <6>4
          <5>3. j \in j..Len(history')
            BY <1>4, <3>1
          <5> QED BY <5>2, <5>3 DEF Gone
        <4>3. CASE ~(i < first)
          <5>1. i - first + 1 \in 1..Len(t) /\ i - first + 1 # Len(t)
                /\ (i - first + 1) + first - 1 = i
            <6>1. Len(t) = Len(b) + 2 - first /\ first \in 1..(Len(b) + 1)
              BY <1>3
            <6> QED BY <1>1, <4>3, <6>1
          <5>2. g[i - first + 1] = f[(i - first + 1) + first - 1]
            BY <1>7, <5>1
          <5> QED BY <4>1, <5>1, <5>2
        <4> QED BY <4>2, <4>3
      <3> QED BY <3>2, <3>3, <3>4
    <2> QED BY <2>1, <2>2
  <1> QED BY <1>9, <1>10 DEF t

\* Every step keeps in the deques what must be remembered.
LEMMA PlacesNext == TypeOK /\ PlacesInv /\ [WNext]_vars => PlacesInv'
  <1> SUFFICES ASSUME TypeOK, PlacesInv, [WNext]_vars PROVE PlacesInv'
    OBVIOUS
  <1>1. ASSUME NEW e \in Event, Evaluate(e) PROVE PlacesInv'
    <2> SUFFICES ASSUME NEW key \in Keys
                 PROVE  \E f : /\ Traces(f, Deque(key)', history', key)
                               /\ Covers(f, Deque(key)', history', key, newest')
      BY DEF PlacesInv
    <2>1. CASE key = e.key
      <3>1. Deque(key)' = Trimmed(e)
        BY <1>1, <2>1, DequesAfter DEF Deque
      <3> QED BY <1>1, <2>1, <3>1, PlacesTrimmed
    <2>2. CASE key # e.key
      <3>1. PICK f : /\ Traces(f, Deque(key), history, key)
                     /\ Covers(f, Deque(key), history, key, newest)
        BY DEF PlacesInv
      <3>2. Covers(f, Deque(key), history, key, Detector!Latest(e))
        BY <3>1, GoneStays, LatestIs DEF Covers
      <3>3. CASE Deque(key)' = Deque(key)
        BY <1>1, <2>2, <3>1, <3>2, <3>3, PlacesKept
      <3>4. CASE key \in DOMAIN attempts /\ key \notin DOMAIN attempts'
        <4>1. key \notin Fresh(e.ts)
          BY <1>1, <3>4, DequesAfter DEF KeptAttempts, Restrict
        <4>2. Deque(key) = attempts[key] /\ Deque(key)' = <<>>
          BY <3>4 DEF Deque
        <4>3. \A j \in 1..Len(history) :
                  history[j].key = key => Gone(history, key, j, Detector!Latest(e))
          <5> TAKE j \in 1..Len(history)
          <5> HAVE history[j].key = key
          <5>1. CASE Gone(history, key, j, newest)
            BY <5>1, GoneStays, LatestIs
          <5>2. CASE \E i \in 1..Len(attempts[key]) : f[i] = j
            <6>1. Gone(history, key, j, e.ts)
              BY <3>1, <3>4, <4>1, <4>2, <5>2, SweptIsGone, LatestIs
            <6> QED BY <6>1, GoneStays, LatestIs
          <5> QED BY <3>1, <4>2, <5>1, <5>2 DEF Covers
        <4>4. 1..Len(<<>>) = {}
          OBVIOUS
        <4> DEFINE none == [i \in {} |-> 0]
        <4>5. Traces(none, <<>>, history, key)
          BY <4>4 DEF Traces
        <4>6. Covers(none, <<>>, history, key, Detector!Latest(e))
          BY <4>3 DEF Covers
        <4> HIDE DEF none
        <4> QED BY <1>1, <2>2, <4>2, <4>5, <4>6, PlacesKept
      <3>5. \/ Deque(key)' = Deque(key)
            \/ key \in DOMAIN attempts /\ key \notin DOMAIN attempts'
        BY <1>1, <2>2, DequesAfter DEF Deque
      <3> QED BY <3>3, <3>4, <3>5
    <2> QED BY <2>1, <2>2
  <1>2. CASE Configure
    <2> SUFFICES ASSUME NEW key \in Keys
                 PROVE  \E f : /\ Traces(f, Deque(key)', history', key)
                               /\ Covers(f, Deque(key)', history', key, newest')
      BY DEF PlacesInv
    <2>1. Deque(key)' = <<>> /\ history' = <<>> /\ 1..Len(<<>>) = {}
      BY <1>2 DEF Configure, Deque
    <2>2. /\ Traces([i \in {} |-> 0], <<>>, <<>>, key)
          /\ Covers([i \in {} |-> 0], <<>>, <<>>, key, newest')
      BY <2>1 DEF Traces, Covers
    <2> QED BY <2>1, <2>2
  <1>3. CASE UNCHANGED vars
    BY <1>3 DEF vars, rule, PlacesInv, Deque
  <1> QED BY <1>1, <1>2, <1>3 DEF WNext, Event

-----------------------------------------------------------------------------
(* The times of the last alerts *)

\* Each time kept is that of an alert raised for the source, and of an event of it; and
\* an alert inside the window of the newest event is the last of its source.
AlertInv ==
    /\ \A key \in DOMAIN lastAlert :
          /\ \E i \in 1..Len(raised) : raised[i].key = key /\ raised[i].ts = lastAlert[key]
          /\ \E i \in 1..Len(history) : history[i].key = key /\ history[i].ts = lastAlert[key]
    /\ \A i \in 1..Len(raised) :
          raised[i].ts > newest - Window
              => raised[i].key \in DOMAIN lastAlert /\ lastAlert[raised[i].key] = raised[i].ts

\* A rule keeps silent only for a source it alerted on less than a window before the
\* event, and always for one it alerted on less than a window before the newest.
LEMMA SuppressedIsAlerted ==
  ASSUME TypeOK, AlertInv, NEW e \in Event
  PROVE  /\ Suppressed(e) => Detector!AlertedWithin(e, e.ts)
         /\ Detector!AlertedWithin(e, Detector!Latest(e)) => Suppressed(e)
  <1>1. /\ Len(Alerted) = Len(raised)
        /\ \A i \in 1..Len(raised) : /\ Alerted[i].key = raised[i].key
                                     /\ Alerted[i].ts = raised[i].ts /\ raised[i].ts \in Nat
    <2>1. DOMAIN raised = 1..Len(raised) /\ Len(raised) \in Nat
      BY RaisedTimes
    <2>2. Len(Alerted) = Len(raised)
      BY <2>1 DEF Alerted
    <2> QED BY <2>1, <2>2, RaisedTimes, Numbers DEF Alerted
  <1>2. /\ DOMAIN KeptAlerts(e.ts) \subseteq DOMAIN lastAlert
        /\ \A key \in DOMAIN KeptAlerts(e.ts) : KeptAlerts(e.ts)[key] = lastAlert[key]
        /\ \A key \in DOMAIN lastAlert :
               key \notin DOMAIN KeptAlerts(e.ts) => ~(lastAlert[key] >= e.ts - Window)
    BY DEF KeptAlerts, FreshAlerts, Restrict
  <1>3. Suppressed(e) => Detector!AlertedWithin(e, e.ts)
    <2> SUFFICES ASSUME Suppressed(e) PROVE Detector!AlertedWithin(e, e.ts)
      OBVIOUS
    <2>1. e.key \in DOMAIN lastAlert /\ e.ts - lastAlert[e.key] < Window
      BY <1>2 DEF Suppressed
    <2>2. PICK i \in 1..Len(raised) : raised[i].key = e.key /\ raised[i].ts = lastAlert[e.key]
      BY <2>1 DEF AlertInv
    <2> QED BY <1>1, <2>1, <2>2 DEF Detector!AlertedWithin
  <1>4. Detector!AlertedWithin(e, Detector!Latest(e)) => Suppressed(e)
    <2> SUFFICES ASSUME Detector!AlertedWithin(e, Detector!Latest(e)) PROVE Suppressed(e)
      OBVIOUS
    <2>1. PICK i \in 1..Len(raised) :
              raised[i].key = e.key /\ Detector!Latest(e) - raised[i].ts < Window
      BY <1>1 DEF Detector!AlertedWithin
    <2>2. raised[i].ts > newest - Window /\ raised[i].ts >= e.ts - Window
          /\ e.ts - raised[i].ts < Window
      BY <1>1, <2>1, LatestIs, Numbers
    <2>3. e.key \in DOMAIN lastAlert /\ lastAlert[e.key] = raised[i].ts
      BY <2>1, <2>2 DEF AlertInv
    <2>4. e.key \in DOMAIN KeptAlerts(e.ts)
      BY <1>2, <2>2, <2>3
    <2> QED BY <1>2, <2>2, <2>3, <2>4 DEF Suppressed
  <1> QED BY <1>3, <1>4

\* Every step keeps the times of the last alerts in agreement with the alerts.
LEMMA AlertNext == TypeOK /\ AlertInv /\ [WNext]_vars => AlertInv'
  <1> SUFFICES ASSUME TypeOK, AlertInv, [WNext]_vars PROVE AlertInv'
    OBVIOUS
  <1>1. ASSUME NEW e \in Event, Evaluate(e) PROVE AlertInv'
    <2>1. /\ Len(history) \in Nat /\ Len(history') = Len(history) + 1
          /\ \A i \in 1..Len(history) : i \in 1..Len(history') /\ history'[i] = history[i]
          /\ Len(history) + 1 \in 1..Len(history') /\ history'[Len(history) + 1] = e
      BY <1>1, HistoryAfter
    <2>2. newest' \in Nat /\ newest' >= newest /\ newest' >= e.ts
          /\ newest \in Nat /\ e.ts \in Nat
      BY <1>1, HistoryAfter, LatestIs
    <2>3. /\ Len(raised) \in Nat
          /\ \A i \in 1..Len(raised) : i \in 1..Len(raised') /\ raised'[i] = raised[i]
      BY <1>1, RaisedAfter, RaisedTimes
    <2>4. \A key \in DOMAIN KeptAlerts(e.ts) :
              key \in DOMAIN lastAlert /\ KeptAlerts(e.ts)[key] = lastAlert[key]
      BY <1>1, AlertsAfter
    <2>5. \A key \in DOMAIN KeptAlerts(e.ts) :
              /\ \E i \in 1..Len(raised') :
                    raised'[i].key = key /\ raised'[i].ts = KeptAlerts(e.ts)[key]
              /\ \E i \in 1..Len(history') :
                    history'[i].key = key /\ history'[i].ts = KeptAlerts(e.ts)[key]
      <3> TAKE key \in DOMAIN KeptAlerts(e.ts)
      <3>1. key \in DOMAIN lastAlert /\ KeptAlerts(e.ts)[key] = lastAlert[key]
        BY <2>4
      <3>2. PICK i \in 1..Len(raised) : raised[i].key = key /\ raised[i].ts = lastAlert[key]
        BY <3>1 DEF AlertInv
      <3>3. PICK j \in 1..Len(history) : history[j].key = key /\ history[j].ts = lastAlert[key]
        BY <3>1 DEF AlertInv
      <3>4. i \in 1..Len(raised') /\ raised'[i].key = key /\ raised'[i].ts = lastAlert[key]
        BY <2>3, <3>2
      <3>5. j \in 1..Len(history') /\ history'[j].key = key /\ history'[j].ts = lastAlert[key]
        BY <2>1, <3>3
      <3> QED BY <3>1, <3>4, <3>5
    <2>6. \A key \in DOMAIN lastAlert' :
              /\ \E i \in 1..Len(raised') :
                    raised'[i].key = key /\ raised'[i].ts = lastAlert'[key]
              /\ \E i \in 1..Len(history') :
                    history'[i].key = key /\ history'[i].ts = lastAlert'[key]
      <3>1. CASE ~Fires(e)
        BY <1>1, <2>5, <3>1, AlertsAfter
      <3>2. CASE Fires(e)
        <4> TAKE key \in DOMAIN lastAlert'
        <4>1. CASE key = e.key
          <5>1. lastAlert'[key] = e.ts
            BY <1>1, <3>2, <4>1, AlertsAfter
          <5>2. /\ Len(raised) + 1 \in 1..Len(raised')
                /\ raised'[Len(raised) + 1].key = e.key /\ raised'[Len(raised) + 1].ts = e.ts
            BY <1>1, <3>2, RaisedAfter
          <5> QED BY <2>1, <4>1, <5>1, <5>2
        <4>2. CASE key # e.key
          <5>1. key \in DOMAIN KeptAlerts(e.ts) /\ lastAlert'[key] = KeptAlerts(e.ts)[key]
            BY <1>1, <3>2, <4>2, AlertsAfter, Zenon
          <5> QED BY <2>5, <5>1
        <4> QED BY <4>1, <4>2
      <3> QED BY <3>1, <3>2
    <2>7. ASSUME NEW i \in 1..Len(raised), raised[i].ts > newest' - Window
          PROVE  raised[i].key \in DOMAIN lastAlert' /\ lastAlert'[raised[i].key] = raised[i].ts
      <3> DEFINE key == raised[i].key
      <3>1. raised[i].ts \in Nat
        BY RaisedTimes, Numbers
      <3>2. raised[i].ts > newest - Window /\ raised[i].ts > e.ts - Window
        BY <2>2, <2>7, <3>1, Numbers
      <3>3. key \in DOMAIN lastAlert /\ lastAlert[key] = raised[i].ts
        BY <3>2 DEF AlertInv
      <3>4. key \in DOMAIN KeptAlerts(e.ts) /\ KeptAlerts(e.ts)[key] = raised[i].ts
        <4>1. lastAlert[key] >= e.ts - Window
          BY <2>2, <3>1, <3>2, <3>3, Numbers
        <4> HIDE DEF key
        <4> QED BY <1>1, <3>3, <4>1, AlertsAfter
      <3>5. Fires(e) => key # e.key
        <4>1. e.ts - raised[i].ts < Window
          BY <2>2, <3>1, <3>2, Numbers
        <4> HIDE DEF key
        <4> QED BY <3>4, <4>1 DEF Fires, Suppressed
      <3> HIDE DEF key
      <3>6. key \in DOMAIN lastAlert' /\ lastAlert'[key] = KeptAlerts(e.ts)[key]
        <4>1. CASE ~Fires(e)
          BY <1>1, <3>4, <4>1, AlertsAfter, Zenon
        <4>2. CASE Fires(e)
          BY <1>1, <3>4, <3>5, <4>2, AlertsAfter, Zenon
        <4> QED BY <4>1, <4>2
      <3> QED BY <3>4, <3>6 DEF key
    <2>8. ASSUME NEW i \in 1..Len(raised'), raised'[i].ts > newest' - Window
          PROVE  raised'[i].key \in DOMAIN lastAlert' /\ lastAlert'[raised'[i].key] = raised'[i].ts
      <3>1. CASE i \in 1..Len(raised)
        BY <2>3, <2>7, <2>8, <3>1
      <3>2. CASE i \notin 1..Len(raised)
        <4>1. CASE Fires(e)
          <5>1. i = Len(raised) + 1
            BY <1>1, <3>2, <4>1, RaisedAfter
          <5>2. raised'[i].key = e.key /\ raised'[i].ts = e.ts
            BY <1>1, <4>1, <5>1, RaisedAfter
          <5> QED BY <1>1, <4>1, <5>2, AlertsAfter
        <4>2. CASE ~Fires(e)
          BY <1>1, <3>2, <4>2, RaisedAfter
        <4> QED BY <4>1, <4>2
      <3> QED BY <3>1, <3>2
    <2> QED BY <2>6, <2>8 DEF AlertInv
  <1>2. CASE Configure
    <2>1. 1..Len(<<>>) = {} /\ DOMAIN lastAlert' = {} /\ raised' = <<>>
      BY <1>2 DEF Configure
    <2> QED BY <2>1 DEF AlertInv
  <1>3. CASE UNCHANGED vars
    BY <1>3 DEF vars, rule, AlertInv
  <1> QED BY <1>1, <1>2, <1>3 DEF WNext, Event

-----------------------------------------------------------------------------
(* The rules implement BurstDetector *)

\* The types, the places of the entries and the times of the last alerts.
IInv == TypeOK /\ PlacesInv /\ AlertInv

\* The inductive invariant holds at the start and in every step.
LEMMA IInvInit == WInit => IInv
  <1> SUFFICES ASSUME WInit PROVE IInv
    OBVIOUS
  <1>1. /\ history = <<>> /\ raised = <<>> /\ DOMAIN attempts = {} /\ DOMAIN lastAlert = {}
        /\ 1..Len(<<>>) = {}
    BY DEF WInit
  <1>2. PlacesInv
    <2> SUFFICES ASSUME NEW key \in Keys
                 PROVE  \E f : /\ Traces(f, Deque(key), history, key)
                               /\ Covers(f, Deque(key), history, key, newest)
      BY DEF PlacesInv
    <2>1. /\ Traces([i \in {} |-> 0], <<>>, <<>>, key)
          /\ Covers([i \in {} |-> 0], <<>>, <<>>, key, newest)
      BY <1>1 DEF Traces, Covers
    <2>2. Deque(key) = <<>>
      BY <1>1 DEF Deque
    <2> QED BY <1>1, <2>1, <2>2
  <1>3. AlertInv
    BY <1>1 DEF AlertInv
  <1> QED BY <1>2, <1>3, TypeInit DEF IInv

LEMMA IInvNext == IInv /\ [WNext]_vars => IInv'
  BY TypeNext, PlacesNext, AlertNext DEF IInv

Spoken(r) == [i \in DOMAIN r |-> [key |-> r[i].key, ts |-> r[i].ts]]
Promised == [key : Keys, ts : 1..MaxTime]

\* The alerts as the promise speaks of them are a sequence as long as those raised.
LEMMA SpokenIs ==
  ASSUME NEW r \in Seq(Raising)
  PROVE  /\ Spoken(r) \in Seq(Promised) /\ Len(Spoken(r)) = Len(r)
         /\ \A i \in 1..Len(r) : Spoken(r)[i] = [key |-> r[i].key, ts |-> r[i].ts]
  <1>1. /\ Len(r) \in Nat /\ DOMAIN r = 1..Len(r)
        /\ \A i \in 1..Len(r) : r[i] \in Raising
    OBVIOUS
  <1>2. \A i \in 1..Len(r) : [key |-> r[i].key, ts |-> r[i].ts] \in Promised
    BY <1>1 DEF Raising, Promised
  <1> QED BY <1>1, <1>2 DEF Spoken

\* An evaluated event is observed: the alerts are those the promise asks for.
LEMMA EvaluateObserves ==
  ASSUME IInv, NEW e \in Event, Evaluate(e)
  PROVE  Detector!Observe(e)
  <1>1. TypeOK /\ PlacesInv /\ AlertInv
    BY DEF IInv
  <1>2. history' = Append(history, e) /\ which' = which /\ newest' = Detector!Latest(e)
    BY <1>1, HistoryAfter DEF Evaluate
  <1>3. Detector!MustRaise(e) => Fires(e)
    BY <1>1, SizeBetween, SuppressedIsAlerted DEF Detector!MustRaise, Fires
  <1>4. Fires(e) => Detector!MayRaise(e)
    BY <1>1, SizeBetween, SuppressedIsAlerted DEF Detector!MayRaise, Fires
  <1>6. CASE ~Fires(e)
    <2>1. raised' = raised
      BY <1>1, <1>6, RaisedAfter
    <2>2. Alerted' = Alerted
      BY <2>1 DEF Alerted
    <2> QED BY <1>2, <1>3, <1>6, <2>2 DEF Detector!Observe
  <1>5. CASE Fires(e)
    <2> DEFINE a == [key |-> e.key, ts |-> e.ts]
    <2>1. /\ Len(raised) \in Nat /\ Len(raised') = Len(raised) + 1
          /\ \A i \in 1..Len(raised) : raised'[i] = raised[i]
          /\ raised'[Len(raised) + 1].key = e.key
          /\ raised'[Len(raised) + 1].ts = e.ts
      BY <1>1, <1>5, RaisedAfter
    <2>2. /\ Alerted \in Seq(Promised) /\ Len(Alerted) = Len(raised)
          /\ \A i \in 1..Len(raised) : Alerted[i] = [key |-> raised[i].key, ts |-> raised[i].ts]
      <3>1. raised \in Seq(Raising) /\ Alerted = Spoken(raised)
        BY <1>1, RaisedTimes DEF Alerted, Spoken
      <3> QED BY <3>1, SpokenIs
    <2>3. /\ Alerted' \in Seq(Promised) /\ Len(Alerted') = Len(raised')
          /\ \A i \in 1..Len(raised') : Alerted'[i] = [key |-> raised'[i].key, ts |-> raised'[i].ts]
      <3>1. raised' \in Seq(Raising) /\ Alerted' = Spoken(raised')
        BY <1>1, RaisedAfter DEF Alerted, Spoken
      <3> QED BY <3>1, SpokenIs
    <2>4. a \in Promised
      BY DEF Event, Promised
    <2> HIDE DEF a
    <2>5. /\ Append(Alerted, a) \in Seq(Promised) /\ Len(Append(Alerted, a)) = Len(Alerted')
          /\ Append(Alerted, a)[Len(raised) + 1] = a
          /\ \A i \in 1..Len(raised) : Append(Alerted, a)[i] = Alerted[i]
      BY <2>1, <2>2, <2>3, <2>4
    <2>6. \A i \in 1..Len(Alerted') : Alerted'[i] = Append(Alerted, a)[i]
      <3> TAKE i \in 1..Len(Alerted')
      <3>1. CASE i = Len(raised) + 1
        BY <2>1, <2>3, <2>5, <3>1 DEF a
      <3>2. CASE i # Len(raised) + 1
        <4>1. i \in 1..Len(raised) /\ i \in 1..Len(raised')
          BY <2>1, <2>3, <3>2
        <4> QED BY <2>1, <2>2, <2>3, <2>5, <4>1
      <3> QED BY <3>1, <3>2
    <2>7. Alerted' = Append(Alerted, a)
      BY <2>3, <2>5, <2>6, SeqEqual
    <2> QED BY <1>2, <1>4, <1>5, <2>7 DEF Detector!Observe, a
  <1> QED BY <1>5, <1>6

\* Between two saves of the settings, and in whatever order of time events come, the
\* two counting rules raise the alerts that the whole history asks for: neither trimming
\* the deques nor forgetting the sources that have gone quiet loses an event of the
\* newest event's window that came after everything older, counts one without an event
\* of the window at hand before it, or forgets an alert of that window.
THEOREM Implements == WSpec => DetectsBursts
  <1>1. WInit => Detector!Init
    BY DEF WInit, Detector!Init, Alerted
  <1>2. IInv /\ [WNext]_vars => [Detector!Next]_<<which, history, newest, Alerted>>
    <2> SUFFICES ASSUME IInv, [WNext]_vars
                 PROVE  [Detector!Next]_<<which, history, newest, Alerted>>
      OBVIOUS
    <2>1. ASSUME NEW key \in Keys, NEW ts \in 1..MaxTime, NEW item \in Items,
                 Evaluate([key |-> key, ts |-> ts, item |-> item])
          PROVE  Detector!Next
      <3>1. [key |-> key, ts |-> ts, item |-> item] \in Event
        BY DEF Event
      <3> QED BY <2>1, <3>1, EvaluateObserves DEF Detector!Next
    <2>2. CASE Configure
      <3>1. DOMAIN <<>> = {} /\ raised' = <<>>
        BY <2>2 DEF Configure
      <3>2. Alerted' = <<>>
        BY <3>1 DEF Alerted
      <3> QED BY <2>2, <3>2 DEF Configure, Detector!Next, Detector!Rebuild
    <2>3. CASE UNCHANGED vars
      BY <2>3 DEF vars, rule, Alerted
    <2> QED BY <2>1, <2>2, <2>3 DEF WNext
  <1> QED BY <1>1, <1>2, IInvInit, IInvNext, PTL DEF WSpec, DetectsBursts, Detector!Spec

\* When the events of the source came in order of time, and none of another source is
\* newer than the one at hand, the promise leaves the rule no choice: it counts the
\* events of the window, and alerts if and only if they reach the threshold and no
\* alert was raised in the window.
THEOREM InOrderIsExact ==
  ASSUME TypeOK, NEW e \in Event, e.ts >= newest,
         \A i, j \in Detector!Own(e) : i <= j => history[i].ts <= history[j].ts
  PROVE  LET recent == {i \in Detector!Own(e) : history[i].ts >= e.ts - Window} IN
         /\ Detector!Remembered(e) = recent /\ Detector!Admitted(e) = recent
         /\ Detector!MustRaise(e) <=> Detector!MayRaise(e)
  <1> DEFINE recent == {i \in Detector!Own(e) : history[i].ts >= e.ts - Window}
  <1>1. Detector!Latest(e) = e.ts
    BY LatestIs DEF Detector!Latest
  <1>2. \A i \in Detector!Own(e) : i \in Nat /\ history[i].ts \in Nat
    BY HistoryTimes DEF Detector!Own
  <1>3. e.ts - Window \in Int
    BY LatestIs, Numbers
  <1>4. Detector!Remembered(e) = recent
    <2>1. ASSUME NEW i \in recent PROVE i \in Detector!Remembered(e)
      <3>1. i \in Detector!Own(e) /\ history[i].ts >= e.ts - Window
        OBVIOUS
      <3>2. \A j \in Detector!Own(e) : i <= j => history[j].ts >= e.ts - Window
        BY <1>2, <1>3, <3>1
      <3> QED BY <1>1, <3>1, <3>2 DEF Detector!Remembered
    <2>2. ASSUME NEW i \in Detector!Remembered(e) PROVE i \in recent
      <3>1. i \in Detector!Own(e) /\ i <= i
        BY <1>2 DEF Detector!Remembered
      <3> QED BY <1>1, <3>1 DEF Detector!Remembered
    <2> QED BY <2>1, <2>2
  <1>5. Detector!Admitted(e) = recent
    <2>1. ASSUME NEW i \in recent PROVE i \in Detector!Admitted(e)
      BY <1>2 DEF Detector!Admitted
    <2>2. ASSUME NEW i \in Detector!Admitted(e) PROVE i \in recent
      <3>1. PICK j \in Detector!Own(e) : j <= i /\ history[j].ts >= e.ts - Window
        BY DEF Detector!Admitted
      <3>2. i \in Detector!Own(e)
        BY DEF Detector!Admitted
      <3> QED BY <1>2, <1>3, <3>1, <3>2
    <2> QED BY <2>1, <2>2
  <1> HIDE DEF recent
  <1>6. Detector!MustRaise(e) <=> Detector!MayRaise(e)
    BY <1>1, <1>4, <1>5, Zenon DEF Detector!MustRaise, Detector!MayRaise
  <1> QED BY <1>4, <1>5, <1>6 DEF recent

-----------------------------------------------------------------------------
(* What the sweep leaves *)

\* Memory is not filled by sources that were seen once: each source for which there is
\* a deque or the time of an alert has an event that came with the last sweep or after
\* it, or that lies in the window that ended there.
THEOREM Tracked == WSpec => []TrackedRecently
  <1>1. WInit => TrackedRecently
    BY DEF WInit, TrackedRecently
  <1>2. IInv /\ TrackedRecently /\ [WNext]_vars => TrackedRecently'
    <2> SUFFICES ASSUME IInv, TrackedRecently, [WNext]_vars PROVE TrackedRecently'
      OBVIOUS
    <2>1. ASSUME NEW e \in Event, Evaluate(e) PROVE TrackedRecently'
      <3> SUFFICES ASSUME NEW key \in DOMAIN attempts' \cup DOMAIN lastAlert'
                   PROVE  \E i \in 1..Len(history') :
                             /\ history'[i].key = key
                             /\ \/ i >= sweptAt'
                                \/ history'[i].ts >= history'[sweptAt'].ts - Window
        BY DEF TrackedRecently
      <3>1. TypeOK /\ PlacesInv /\ AlertInv
        BY DEF IInv
      <3>2. /\ Len(history) \in Nat /\ Len(history') = Len(history) + 1
            /\ \A i \in 1..Len(history) : i \in 1..Len(history') /\ history'[i] = history[i]
            /\ Len(history) + 1 \in 1..Len(history') /\ history'[Len(history) + 1] = e
        BY <2>1, <3>1, HistoryAfter
      <3>3. /\ sweptAt \in 0..Len(history)
            /\ sweptAt' = IF Due THEN Len(history) + 1 ELSE sweptAt
        BY <2>1, <3>1 DEF TypeOK, Evaluate
      <3>4. CASE key = e.key
        <4>1. Len(history) + 1 >= sweptAt'
          BY <3>2, <3>3
        <4> QED BY <3>2, <3>4, <4>1
      <3>5. CASE key # e.key
        <4>1. key \in DOMAIN KeptAttempts(e.ts) \/ key \in DOMAIN KeptAlerts(e.ts)
          BY <2>1, <3>1, <3>5, DequesAfter, AlertsAfter, Zenon
        <4>2. CASE ~Due
          <5>1. key \in DOMAIN attempts \cup DOMAIN lastAlert
            BY <4>1, <4>2 DEF KeptAttempts, KeptAlerts
          <5>2. PICK i \in 1..Len(history) :
                    /\ history[i].key = key
                    /\ i >= sweptAt \/ history[i].ts >= history[sweptAt].ts - Window
            BY <5>1 DEF TrackedRecently
          <5>3. sweptAt = 0 \/ sweptAt \in 1..Len(history)
            BY <3>2, <3>3
          <5>4. CASE sweptAt = 0
            BY <3>2, <3>3, <4>2, <5>2, <5>4
          <5>5. CASE sweptAt \in 1..Len(history)
            <6>1. history'[sweptAt] = history[sweptAt] /\ history'[i] = history[i]
              BY <3>2, <5>5
            <6> QED BY <3>2, <3>3, <4>2, <5>2, <6>1
          <5> QED BY <5>3, <5>4, <5>5
        <4>3. CASE Due
          <5>1. sweptAt' = Len(history) + 1 /\ history'[sweptAt'] = e
            BY <3>2, <3>3, <4>3
          <5>2. \E i \in 1..Len(history) : history[i].key = key /\ history[i].ts >= e.ts - Window
            <6>1. CASE key \in DOMAIN KeptAttempts(e.ts)
              <7>1. key \in DOMAIN attempts /\ key \in Fresh(e.ts)
                BY <4>3, <6>1 DEF KeptAttempts, Restrict, Fresh
              <7>2. key \in Keys /\ Deque(key) = attempts[key]
                    /\ attempts[key] \in Seq(Mark) /\ attempts[key] # <<>>
                BY <3>1, <7>1 DEF TypeOK, Deque, Mark
              <7>3. PICK f : Traces(f, attempts[key], history, key)
                BY <3>1, <7>2 DEF PlacesInv
              <7>4. Len(attempts[key]) \in 1..Len(attempts[key])
                BY <7>2
              <7>5. /\ f[Len(attempts[key])] \in 1..Len(history)
                    /\ history[f[Len(attempts[key])]].key = key
                    /\ attempts[key][Len(attempts[key])] = Entry(history[f[Len(attempts[key])]])
                BY <7>3, <7>4 DEF Traces
              <7>6. attempts[key][Len(attempts[key])].ts >= e.ts - Window
                BY <7>1 DEF Fresh
              <7> QED BY <7>5, <7>6 DEF Entry
            <6>2. CASE key \in DOMAIN KeptAlerts(e.ts)
              <7>1. key \in DOMAIN lastAlert /\ lastAlert[key] >= e.ts - Window
                BY <4>3, <6>2 DEF KeptAlerts, FreshAlerts, Restrict
              <7> QED BY <3>1, <7>1 DEF AlertInv
            <6> QED BY <4>1, <6>1, <6>2
          <5> QED BY <3>2, <5>1, <5>2
        <4> QED BY <4>2, <4>3
      <3> QED BY <3>4, <3>5
    <2>2. CASE Configure
      BY <2>2 DEF Configure, TrackedRecently
    <2>3. CASE UNCHANGED vars
      BY <2>3 DEF vars, rule, TrackedRecently
    <2> QED BY <2>1, <2>2, <2>3 DEF WNext, Event
  <1> QED BY <1>1, <1>2, IInvInit, IInvNext, PTL DEF WSpec
=============================================================================
