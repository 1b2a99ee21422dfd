--------------------------- MODULE DecisionProofs ---------------------------
(***************************************************************************)
(* Theorems about what the decisions rest on, for all settings, calendars  *)
(* and inputs that the modules allow.  FeatureEngine: a replay to an       *)
(* instant gives the snapshot of that instant, a baseline has no holes and *)
(* nothing clears an invalid context.  RelativeValue: a basket that is     *)
(* found is coherent, and rests on bars that came in the instant they      *)
(* closed.  Momentum: the cap never splits a tie, a gap stays a gap and    *)
(* the sides are mirror images.  Decisions: the types and the histories of *)
(* all of them together.                                                   *)
(***************************************************************************)
EXTENDS Decisions, AlphaProofs, DeskProofs, SequenceTheorems

-----------------------------------------------------------------------------
(* Sorted sets. *)

\* R orders S without ties: which of two comes first.
OrdersAll(R, S) ==
  /\ \A x \in S : <<x, x>> \notin R
  /\ \A x, y \in S : x # y => <<x, y>> \in R \/ <<y, x>> \in R
  /\ \A x, y, z \in S : <<x, y>> \in R /\ <<y, z>> \in R => <<x, z>> \in R

Ahead(R, S, x) == {y \in S : <<y, x>> \in R}

\* The list that Sorted makes of S.
ListBy(R, S) == [i \in 1 .. Cardinality(S) |-> CHOOSE x \in S : Cardinality(Ahead(R, S, x)) = i - 1]

\* Every element is listed, once.
ListsAll(list, S) ==
  /\ list \in Seq(S) /\ Len(list) = Cardinality(S) /\ Len(list) \in Nat
  /\ \A x \in S : \E i \in 1 .. Len(list) : list[i] = x
  /\ Range(list) = S

\* The elements of a strict order have different numbers of others ahead of them, so every place
\* is taken.
LEMMA OrderLists ==
  ASSUME NEW S, IsFiniteSet(S), NEW R, OrdersAll(R, S)
  PROVE  /\ ListsAll(ListBy(R, S), S)
         /\ \A i, j \in 1 .. Cardinality(S) : i < j => <<ListBy(R, S)[i], ListBy(R, S)[j]>> \in R
  <1> DEFINE n == Cardinality(S)
             rank == [x \in S |-> Cardinality(Ahead(R, S, x))]
             list == ListBy(R, S)
  <1>1. n \in Nat
    BY FS_CardinalityType
  <1>2. \A x \in S : IsFiniteSet(Ahead(R, S, x)) /\ rank[x] \in 0 .. n - 1
    <2> TAKE x \in S
    <2>1. IsFiniteSet(S \ {x}) /\ Cardinality(S \ {x}) = n - 1
      BY FS_RemoveElement
    <2>2. Ahead(R, S, x) \in SUBSET (S \ {x})
      BY DEF Ahead, OrdersAll
    <2>3. IsFiniteSet(Ahead(R, S, x)) /\ Cardinality(Ahead(R, S, x)) <= n - 1
      BY <2>1, <2>2, FS_Subset
    <2>4. Cardinality(Ahead(R, S, x)) \in Nat
      BY <2>3, FS_CardinalityType
    <2> QED
      BY <1>1, <2>3, <2>4
  <1>3. \A x, y \in S : <<x, y>> \in R => rank[x] < rank[y]
    <2> SUFFICES ASSUME NEW x \in S, NEW y \in S, <<x, y>> \in R
                 PROVE  rank[x] < rank[y]
      OBVIOUS
    <2>1. Ahead(R, S, x) \in SUBSET Ahead(R, S, y) /\ x \in Ahead(R, S, y) /\ x \notin Ahead(R, S, x)
      BY DEF Ahead, OrdersAll
    <2>2. /\ Cardinality(Ahead(R, S, x)) <= Cardinality(Ahead(R, S, y))
          /\ Cardinality(Ahead(R, S, x)) # Cardinality(Ahead(R, S, y))
      BY <1>2, <2>1, FS_Subset
    <2> QED
      BY <1>1, <1>2, <2>2
  <1>4. rank \in [S -> 0 .. n - 1]
    BY <1>2
  <1> HIDE DEF rank
  <1>5. \A x, y \in S : rank[x] < rank[y] => <<x, y>> \in R
    <2> SUFFICES ASSUME NEW x \in S, NEW y \in S, rank[x] < rank[y]
                 PROVE  <<x, y>> \in R
      OBVIOUS
    <2>1. rank[x] \in Int /\ rank[y] \in Int
      BY <1>1, <1>4
    <2>2. x # y /\ ~(rank[y] < rank[x])
      BY <2>1
    <2>3. <<y, x>> \notin R
      BY <1>3, <2>2
    <2> QED
      BY <2>2, <2>3 DEF OrdersAll
  <1>6. \A x, y \in S : rank[x] = rank[y] => x = y
    <2> SUFFICES ASSUME NEW x \in S, NEW y \in S, rank[x] = rank[y]
                 PROVE  x = y
      OBVIOUS
    <2>1. rank[x] \in Int
      BY <1>1, <1>4
    <2>2. ~(rank[x] < rank[y]) /\ ~(rank[y] < rank[x])
      BY <2>1
    <2>3. <<x, y>> \notin R /\ <<y, x>> \notin R
      BY <1>3, <2>2
    <2> QED
      BY <2>3 DEF OrdersAll
  <1>7. rank \in Injection(S, 0 .. n - 1)
    BY <1>4, <1>6 DEF Injection, IsInjective
  <1>8. rank \in Surjection(S, 0 .. n - 1)
    <2>1. IsFiniteSet(0 .. n - 1) /\ Cardinality(0 .. n - 1) = n
      BY <1>1, FS_Interval
    <2> HIDE DEF n
    <2> QED
      BY <1>7, <2>1, FS_Injection DEF n
  <1>9. \A x \in S : rank[x] = Cardinality(Ahead(R, S, x))
    BY DEF rank
  <1>10. list = [i \in 1 .. n |-> CHOOSE x \in S : Cardinality(Ahead(R, S, x)) = i - 1]
    BY DEF ListBy
  <1> HIDE DEF list, n
  <1>11. \A i \in 1 .. n : list[i] \in S /\ rank[list[i]] = i - 1
    <2> TAKE i \in 1 .. n
    <2>1. i - 1 \in 0 .. n - 1
      BY <1>1
    <2>2. PICK x \in S : rank[x] = i - 1
      BY <1>8, <2>1 DEF Surjection
    <2>3. \E y \in S : Cardinality(Ahead(R, S, y)) = i - 1
      BY <1>9, <2>2
    <2>4. list[i] \in S /\ Cardinality(Ahead(R, S, list[i])) = i - 1
      BY <1>10, <2>3
    <2> QED
      BY <1>9, <2>4
  <1>12. list \in [1 .. n -> S]
    BY <1>10, <1>11
  <1>13. list \in Seq(S) /\ Len(list) = n
    BY <1>1, <1>12
  <1>14. \A x \in S : \E i \in 1 .. n : list[i] = x
    <2> TAKE x \in S
    <2> DEFINE i == rank[x] + 1
    <2>1. i \in 1 .. n /\ i - 1 = rank[x]
      BY <1>1, <1>4
    <2>2. list[i] \in S /\ rank[list[i]] = rank[x]
      BY <1>11, <2>1
    <2> QED
      BY <1>6, <2>1, <2>2
  <1>15. Range(list) = S
    <2>1. Range(list) = {list[i] : i \in 1 .. n}
      BY <1>12 DEF Range
    <2> QED
      BY <1>11, <1>14, <2>1
  <1>16. \A i, j \in 1 .. n : i < j => <<list[i], list[j]>> \in R
    <2> SUFFICES ASSUME NEW i \in 1 .. n, NEW j \in 1 .. n, i < j
                 PROVE  <<list[i], list[j]>> \in R
      OBVIOUS
    <2>1. rank[list[i]] = i - 1 /\ rank[list[j]] = j - 1 /\ list[i] \in S /\ list[j] \in S
      BY <1>11
    <2>2. rank[list[i]] < rank[list[j]]
      BY <1>1, <2>1
    <2> QED
      BY <1>5, <2>1, <2>2
  <1>17. ListsAll(list, S)
    BY <1>1, <1>13, <1>14, <1>15 DEF ListsAll, n
  <1> QED
    BY <1>16, <1>17 DEF list, n

-----------------------------------------------------------------------------
(* The log of the feature engine. *)

\* Every event is one that there may be, and no id comes twice.
LogSound(log) ==
  /\ log \in Seq(KnownEvents)
  /\ \A i, j \in DOMAIN log : log[i].id = log[j].id => i = j

FeatureInv == LogSound(featureLog) /\ featureTime \in Int /\ featureTime >= FeatureStart

\* on_event keeps an id that is known as it is, so ids stay unique.
LEMMA LogsStaySound == FeatureSpec => []FeatureInv
  <1>1. FeatureInit => FeatureInv
    BY EventsAreStamped, FeatureDaysAreCovered DEF FeatureInit, FeatureInv, LogSound
  <1>2. FeatureInv /\ [FeatureNext]_featureVars => FeatureInv'
    <2> SUFFICES ASSUME FeatureInv, [FeatureNext]_featureVars PROVE FeatureInv'
      OBVIOUS
    <2>1. CASE FeatureTick
      BY <2>1, FeatureDaysAreCovered DEF FeatureTick, FeatureInv
    <2>2. ASSUME NEW event \in FeatureEvents, OnFeatureEvent(event)
          PROVE  FeatureInv'
      <3>1. event \in KnownEvents /\ UNCHANGED featureTime
        BY <2>2 DEF KnownEvents, OnFeatureEvent
      <3>2. CASE UNCHANGED featureLog
        BY <3>1, <3>2 DEF FeatureInv
      <3>3. CASE /\ featureLog' = Append(featureLog, event)
                 /\ \A e \in Range(featureLog) : e.id # event.id
        <4> DEFINE n == Len(featureLog)
                   longer == Append(featureLog, event)
        <4>1. n \in Nat /\ DOMAIN featureLog = 1 .. n /\ featureLog \in Seq(KnownEvents)
          BY DEF FeatureInv, LogSound
        <4>2. longer \in Seq(KnownEvents) /\ DOMAIN longer = 1 .. n + 1
          BY <3>1, <4>1
        <4>3. (\A i \in 1 .. n : longer[i] = featureLog[i]) /\ longer[n + 1] = event
          BY <3>1, <4>1
        <4>4. \A i \in 1 .. n : featureLog[i].id # event.id
          BY <3>3, <4>1 DEF Range
        <4>5. \A i, j \in 1 .. n : featureLog[i].id = featureLog[j].id => i = j
          BY <4>1 DEF FeatureInv, LogSound
        <4> HIDE DEF longer
        <4>6. ASSUME NEW i \in 1 .. n + 1, NEW j \in 1 .. n + 1, longer[i].id = longer[j].id
              PROVE  i = j
          <5>1. CASE i \in 1 .. n /\ j \in 1 .. n
            BY <4>3, <4>5, <4>6, <5>1
          <5>2. CASE i = n + 1 /\ j \in 1 .. n
            BY <4>3, <4>4, <4>6, <5>2
          <5>3. CASE i \in 1 .. n /\ j = n + 1
            BY <4>3, <4>4, <4>6, <5>3
          <5>4. i \in 1 .. n \/ i = n + 1
            BY <4>1
          <5>5. j \in 1 .. n \/ j = n + 1
            BY <4>1
          <5> QED
            BY <5>1, <5>2, <5>3, <5>4, <5>5
        <4>7. LogSound(longer)
          BY <4>2, <4>6 DEF LogSound
        <4>8. featureLog' = longer
          BY <3>3 DEF longer
        <4> HIDE DEF n
        <4> QED
          BY <3>1, <4>7, <4>8 DEF FeatureInv
      <3> QED
        BY <2>2, <3>2, <3>3 DEF OnFeatureEvent
    <2>3. CASE UNCHANGED featureVars
      BY <2>3 DEF featureVars, FeatureInv
    <2> QED
      BY <2>1, <2>2, <2>3 DEF FeatureNext
  <1> QED
    BY <1>1, <1>2, PTL DEF FeatureSpec

\* What a snapshot reads of a log.
SelectableOf(log, context, at) == {e \in Range(log) : Selectable(e, context, at)}

\* A snapshot depends on the set of the events that it selects.
LEMMA SnapshotReadsSelected ==
  ASSUME NEW log, NEW other, NEW context, NEW at,
         SelectableOf(log, context, at) = SelectableOf(other, context, at)
  PROVE  SnapshotOf(log, context, at) = SnapshotOf(other, context, at)
  <1>1. SelectedEvents(log, context, at) = SelectedEvents(other, context, at)
    BY DEF SelectedEvents, SelectableOf
  <1> QED
    BY <1>1 DEF SnapshotOf, FeatureSnapshot

\* The selected events are listed, each of them once.
LEMMA SelectedAreListed ==
  ASSUME NEW log, LogSound(log), NEW context, NEW at
  PROVE  /\ Range(SelectedEvents(log, context, at)) = SelectableOf(log, context, at)
         /\ IsFiniteSet(SelectableOf(log, context, at))
  <1> DEFINE S == SelectableOf(log, context, at)
             before(e, f) == e.received < f.received \/ (e.received = f.received /\ e.id < f.id)
             R == {pair \in S \X S : before(pair[1], pair[2])}
             n == Cardinality(S)
  <1>1. Range(log) = {log[i] : i \in DOMAIN log} /\ DOMAIN log = 1 .. Len(log) /\ Len(log) \in Nat
    BY DEF LogSound, Range
  <1>2. \A e \in S : e.id \in Int /\ e.received \in Int
    BY <1>1, EventsAreStamped DEF LogSound, SelectableOf
  <1>3. \A e, f \in S : e.id = f.id => e = f
    BY <1>1 DEF LogSound, SelectableOf
  <1>4. IsFiniteSet(S)
    <2> DEFINE T == Range(log)
               f == [i \in 1 .. Len(log) |-> log[i]]
    <2>1. IsFiniteSet(1 .. Len(log))
      BY <1>1, FS_Interval
    <2>2. f \in [1 .. Len(log) -> T] /\ T = {f[i] : i \in 1 .. Len(log)}
      BY <1>1
    <2>3. S \in SUBSET T
      BY DEF SelectableOf
    <2> HIDE DEF S, T, f
    <2>4. IsFiniteSet(T)
      BY <2>1, <2>2, FiniteImage
    <2> QED
      BY <2>3, <2>4, FS_Subset
  <1>5. SelectedEvents(log, context, at) =
          [i \in 1 .. n |-> CHOOSE e \in S : Cardinality({f \in S : before(f, e)}) = i - 1]
    BY DEF SelectedEvents, Sorted, SelectableOf
  <1> HIDE DEF S
  <1>6. OrdersAll(R, S)
    <2>1. \A e, f \in S : <<e, f>> \in R <=> before(e, f)
      OBVIOUS
    <2> HIDE DEF R
    <2>2. \A e \in S : <<e, e>> \notin R
      BY <1>2, <2>1
    <2>3. \A e, f \in S : e # f => <<e, f>> \in R \/ <<f, e>> \in R
      BY <1>2, <1>3, <2>1
    <2>4. \A e, f, g \in S : <<e, f>> \in R /\ <<f, g>> \in R => <<e, g>> \in R
      BY <1>2, <2>1
    <2> QED
      BY <2>2, <2>3, <2>4 DEF OrdersAll
  <1>7. \A e \in S : {f \in S : before(f, e)} = Ahead(R, S, e)
    BY DEF Ahead
  <1>8. SelectedEvents(log, context, at) = ListBy(R, S)
    <2> HIDE DEF R, before
    <2> QED
      BY <1>5, <1>7 DEF ListBy
  <1> HIDE DEF R
  <1>9. ListsAll(ListBy(R, S), S)
    BY <1>4, <1>6, OrderLists
  <1> QED
    BY <1>4, <1>8, <1>9 DEF ListsAll, S

\* SnapshotsReplay: whatever is received and however the calls of on_event are ordered, a
\* replay gives the snapshot that CausalFeatureEngine.snapshot gave live.
THEOREM ReplaysGiveTheSnapshot == FeatureSpec => []SnapshotsReplay
  <1>1. FeatureInv => SnapshotsReplay
    <2> SUFFICES ASSUME FeatureInv, NEW context \in FeatureContexts, NEW at, NEW n \in 0 .. Len(featureLog),
                        \A i \in n + 1 .. Len(featureLog) : featureLog[i].received > at,
                        at \in {featureTime - SlotTicks, featureTime}
                 PROVE  SnapshotOf(SubSeq(featureLog, 1, n), context, at)
                          = SnapshotOf(Reverse(featureLog), context, at)
      BY DEF SnapshotsReplay
    <2> DEFINE log == featureLog
               m == Len(featureLog)
               live == SubSeq(featureLog, 1, n)
               replayed == Reverse(featureLog)
    <2>1. m \in Nat /\ log \in Seq(KnownEvents) /\ DOMAIN log = 1 .. m /\ n \in Nat /\ n <= m
      BY DEF FeatureInv, LogSound
    <2>2. \A e \in KnownEvents : e.received \in Int
      BY EventsAreStamped
    <2>3. at \in Int
      BY VersionIsPositive DEF FeatureInv
    <2>4. Range(live) = {log[i] : i \in 1 .. n}
      <3>1. live \in Seq(KnownEvents) /\ Len(live) = n /\ \A i \in 1 .. n : live[i] = log[i]
        <4>1. \A i \in 1 .. n : log[i] \in KnownEvents
          BY <2>1
        <4>2. Len(live) = (IF 1 <= n THEN n - 1 + 1 ELSE 0) /\ live \in Seq(KnownEvents)
              /\ \A i \in 1 .. n - 1 + 1 : live[i] = log[1 + i - 1]
          BY <2>1, <4>1, SubSeqProperties
        <4> QED
          BY <2>1, <4>2
      <3> HIDE DEF live
      <3> QED
        BY <2>1, <3>1 DEF Range
    <2>5. Range(replayed) = {log[i] : i \in 1 .. m}
      <3>1. replayed = [i \in 1 .. m |-> log[m - i + 1]]
        BY DEF Reverse
      <3>2. \A i \in 1 .. m : m - i + 1 \in 1 .. m /\ m - (m - i + 1) + 1 = i
        BY <2>1
      <3> HIDE DEF replayed, log, m
      <3>3. Range(replayed) = {log[m - i + 1] : i \in 1 .. m}
        BY <3>1 DEF Range
      <3>4. \A i \in 1 .. m : \E j \in 1 .. m : log[i] = log[m - j + 1]
        BY <3>2
      <3> QED
        BY <3>2, <3>3, <3>4
    <2>6. \A i \in 1 .. m : ~Selectable(log[i], context, at) \/ i \in 1 .. n
      <3> TAKE i \in 1 .. m
      <3>1. CASE i \in n + 1 .. m
        <4>1. log[i].received > at /\ log[i].received \in Int
          BY <2>1, <2>2, <3>1
        <4>2. ~(log[i].received <= at)
          BY <2>3, <4>1
        <4> QED
          BY <4>2 DEF Selectable
      <3>2. i \in 1 .. n \/ i \in n + 1 .. m
        BY <2>1
      <3> QED
        BY <3>1, <3>2
    <2>7. \A i \in 1 .. n : i \in 1 .. m
      BY <2>1
    <2> HIDE DEF live, replayed, log, m
    <2>8. SelectableOf(live, context, at) = SelectableOf(replayed, context, at)
      BY <2>4, <2>5, <2>6, <2>7 DEF SelectableOf
    <2>9. SnapshotOf(live, context, at) = SnapshotOf(replayed, context, at)
      BY <2>8, SnapshotReadsSelected
    <2> QED
      BY <2>9 DEF live, replayed
  <1> QED
    BY <1>1, LogsStaySound, PTL

-----------------------------------------------------------------------------
(* Series of bars, and the sessions before. *)

\* Bars that start at different instants are listed by time.
LEMMA InOrderLists ==
  ASSUME NEW S, IsFiniteSet(S), \A b \in S : b.start \in Int, \A b, c \in S : b.start = c.start => b = c
  PROVE  ListsAll(InTimeOrder(S), S)
  <1> DEFINE R == {pair \in S \X S : pair[1].start < pair[2].start}
             n == Cardinality(S)
  <1>1. InTimeOrder(S) = [i \in 1 .. n |-> CHOOSE b \in S : Cardinality({c \in S : c.start < b.start}) = i - 1]
    BY DEF InTimeOrder, Sorted
  <1>2. \A b, c \in S : <<b, c>> \in R <=> b.start < c.start
    OBVIOUS
  <1>3. \A b \in S : {c \in S : c.start < b.start} = Ahead(R, S, b)
    BY DEF Ahead
  <1> HIDE DEF R
  <1>4. OrdersAll(R, S)
    <2>1. \A b \in S : <<b, b>> \notin R
      BY <1>2
    <2>2. \A b, c \in S : b # c => <<b, c>> \in R \/ <<c, b>> \in R
      BY <1>2
    <2>3. \A b, c, d \in S : <<b, c>> \in R /\ <<c, d>> \in R => <<b, d>> \in R
      BY <1>2
    <2> QED
      BY <2>1, <2>2, <2>3 DEF OrdersAll
  <1>5. InTimeOrder(S) = ListBy(R, S)
    BY <1>1, <1>3, ZenonT(60) DEF ListBy
  <1> QED
    BY <1>4, <1>5, OrderLists

\* As many starts as bars: they start at different instants.
LEMMA StartsDiffer ==
  ASSUME NEW S, IsFiniteSet(S), Cardinality(Starts(S)) = Cardinality(S)
  PROVE  \A b, c \in S : b.start = c.start => b = c
  <1> DEFINE f == [b \in S |-> b.start]
             T == Starts(S)
  <1>1. f \in Surjection(S, T)
    BY DEF Surjection, Starts
  <1>2. Cardinality(T) = Cardinality(S)
    OBVIOUS
  <1> HIDE DEF f, T
  <1>3. f \in Injection(S, T)
    BY <1>1, <1>2, FS_Surjection
  <1>4. \A b, c \in S : f[b] = f[c] => b = c
    BY <1>3 DEF Injection, IsInjective
  <1> QED
    BY <1>4 DEF f

\* A series that there is lists the bars of its window, and their starts fill its slots.
LEMMA SeriesIsItsWindow ==
  ASSUME NEW bars, IsFiniteSet(bars), \A b \in bars : b.start \in Int,
         NEW ref, NEW opening, NEW endpoint, NEW at,
         SeriesOf(bars, ref, opening, endpoint, at).bars # <<>>
  PROVE  ListsAll(SeriesOf(bars, ref, opening, endpoint, at).bars, SlotBars(bars, ref, opening, endpoint))
  <1> DEFINE window == SlotBars(bars, ref, opening, endpoint)
             slots == {opening + SlotTicks * i : i \in 0 .. (endpoint - opening) \div SlotTicks - 1}
             unsound == Cardinality(Starts(window)) # Cardinality(window) \/ \E b \in window : ~BarUsable(b, at)
             missing(reason) == [bars |-> <<>>, reason |-> reason]
  <1>1. SeriesOf(bars, ref, opening, endpoint, at) =
          IF window = {} THEN missing("MISSING_INPUT")
          ELSE IF unsound THEN missing("INVALID_INPUT")
          ELSE IF Starts(window) # slots THEN missing("MISSING_INPUT")
          ELSE [bars |-> InTimeOrder(window), reason |-> "WARMUP"]
    BY DEF SeriesOf
  <1>2. window \in SUBSET bars
    BY DEF SlotBars
  <1>3. unsound \/ Cardinality(Starts(window)) = Cardinality(window)
    OBVIOUS
  <1> HIDE DEF window, slots, unsound
  <1>4. ~unsound /\ SeriesOf(bars, ref, opening, endpoint, at).bars = InTimeOrder(window)
    BY <1>1
  <1>5. IsFiniteSet(window) /\ \A b \in window : b.start \in Int
    BY <1>2, FS_Subset
  <1>6. \A b, c \in window : b.start = c.start => b = c
    BY <1>3, <1>4, <1>5, StartsDiffer
  <1>7. ListsAll(InTimeOrder(window), window)
    BY <1>5, <1>6, InOrderLists
  <1> QED
    BY <1>4, <1>7 DEF window

\* Bars as the engine has them.
BarsSound(bars) ==
  /\ IsFiniteSet(bars)
  /\ \A b \in bars : /\ b \in KnownEvents /\ b.start \in Int /\ b.end \in Int /\ b.start < b.end
                     /\ b.volume \in Int /\ b.received \in Int

\* An instant between the midnights of a day is of that day.
LEMMA DayOfInstant ==
  ASSUME NEW x \in Int, NEW d \in Int, NEW k \in 0 .. DayTicks - 1, d * DayTicks <= x, x <= d * DayTicks + k
  PROVE  Day(x) = d
  <1>1. DayTicks \in Nat \ {0}
    BY DaysHaveTicks
  <1> DEFINE m == d * DayTicks
  <1>2. m \in Int /\ (d + 1) * DayTicks = m + DayTicks
    BY <1>1
  <1>3. m <= x /\ x < m + DayTicks
    BY <1>1, <1>2
  <1>4. d * DayTicks <= x /\ x < (d + 1) * DayTicks
    BY <1>2, <1>3
  <1>5. x \div DayTicks = d
    BY <1>1, <1>4
  <1> QED
    BY <1>5 DEF Day

\* Where the session of a day opens and closes.
LEMMA SessionOfDay ==
  ASSUME NEW calendar, SessionsOrdered(calendar), NEW day \in Int, Covered(calendar, day),
         SessionOn(calendar, day) # Absent, NEW x \in Int, Day(x) = day
  PROVE  /\ Moment(calendar, x, "open") \in Int /\ Moment(calendar, x, "close") \in Int
         /\ day * DayTicks <= Moment(calendar, x, "open")
         /\ Moment(calendar, x, "open") < Moment(calendar, x, "close")
         /\ \E k \in 0 .. DayTicks - 1 : Moment(calendar, x, "close") = day * DayTicks + k
  <1> DEFINE times == SessionOn(calendar, day)
  <1>1. DayTicks \in Nat \ {0}
    BY DaysHaveTicks
  <1>2. day \in calendar.from .. calendar.to
    BY DEF Covered, SessionsOrdered
  <1>3. TimesOrdered(times) /\ \A phase \in {"preopen", "open", "finalEntry", "flatten", "deadline", "close"} :
                                 times[phase] \in 0 .. DayTicks - 1
    BY <1>2 DEF SessionsOrdered
  <1>4. /\ times["preopen"] \in 0 .. DayTicks - 1 /\ times["open"] \in 0 .. DayTicks - 1
        /\ times["finalEntry"] \in 0 .. DayTicks - 1 /\ times["flatten"] \in 0 .. DayTicks - 1
        /\ times["deadline"] \in 0 .. DayTicks - 1 /\ times["close"] \in 0 .. DayTicks - 1
    BY <1>3
  <1>5. times["open"] < times["close"]
    <2>1. /\ times["open"] < times["finalEntry"] /\ times["finalEntry"] < times["flatten"]
          /\ times["flatten"] < times["deadline"] /\ times["deadline"] < times["close"]
      BY <1>3 DEF TimesOrdered
    <2> HIDE DEF times
    <2> QED
      BY <1>1, <1>4, <2>1
  <1>6. Moment(calendar, x, "open") = day * DayTicks + times["open"]
        /\ Moment(calendar, x, "close") = day * DayTicks + times["close"]
    BY DEF Moment
  <1> HIDE DEF times
  <1>7. day * DayTicks \in Int
    BY <1>1
  <1> DEFINE m == day * DayTicks
  <1>8. m \in Int
    BY <1>7
  <1> HIDE DEF m
  <1>9. m + times["open"] \in Int /\ m + times["close"] \in Int /\ m <= m + times["open"]
        /\ m + times["open"] < m + times["close"]
    BY <1>1, <1>4, <1>5, <1>8
  <1> QED
    BY <1>4, <1>6, <1>9 DEF m

\* The bars that close a day's session.
ClosingBars(bars, ref, calendar, day) ==
  {e \in bars : e.ref = ref /\ Day(e.start) = day /\ e.end = Moment(calendar, e.start, "close")}

\* A whole session ends with the bar that closes its day.
LEMMA WholeSessionCloses ==
  ASSUME NEW bars, BarsSound(bars), NEW calendar, SessionsOrdered(calendar), NEW day \in Int,
         Covered(calendar, day), SessionOn(calendar, day) # Absent, NEW ref, NEW at,
         WholeSession(bars, ref, calendar, day, at) # <<>>
  PROVE  /\ WholeSession(bars, ref, calendar, day, at) \in Seq(bars)
         /\ Last(WholeSession(bars, ref, calendar, day, at)) \in ClosingBars(bars, ref, calendar, day)
  <1> DEFINE midnight == day * DayTicks
             opening == Moment(calendar, midnight, "open")
             closing == Moment(calendar, midnight, "close")
             series == SeriesOf(bars, ref, opening, closing, at).bars
             window == SlotBars(bars, ref, opening, closing)
  <1>1. DayTicks \in Nat \ {0}
    BY DaysHaveTicks
  <1>2. midnight \in Int
    BY <1>1
  <1>3. Day(midnight) = day
    <2>1. 0 \in 0 .. DayTicks - 1 /\ day * DayTicks <= midnight /\ midnight <= day * DayTicks + 0
      BY <1>1, <1>2
    <2> HIDE DEF midnight
    <2> QED
      BY <1>2, <2>1, DayOfInstant
  <1>4. WholeSession(bars, ref, calendar, day, at) =
          IF series # <<>> /\ Last(series).end = closing THEN series ELSE <<>>
    BY DEF WholeSession
  <1> HIDE DEF midnight
  <1>5. /\ opening \in Int /\ closing \in Int /\ day * DayTicks <= opening
        /\ \E k \in 0 .. DayTicks - 1 : closing = day * DayTicks + k
    BY <1>2, <1>3, SessionOfDay
  <1>6. closing = day * DayTicks + SessionOn(calendar, day)["close"]
    BY <1>3 DEF Moment
  <1>7. window = {b \in bars : b.ref = ref /\ opening <= b.start /\ b.end <= closing}
    BY DEF SlotBars
  <1> HIDE DEF opening, closing
  <1>8. series # <<>> => ListsAll(series, window)
    <2>1. IsFiniteSet(bars) /\ \A b \in bars : b.start \in Int
      BY DEF BarsSound
    <2> QED
      BY <2>1, SeriesIsItsWindow
  <1> HIDE DEF series, window
  <1>9. series # <<>> /\ Last(series).end = closing /\ WholeSession(bars, ref, calendar, day, at) = series
    BY <1>4
  <1>10. series \in Seq(window) /\ Last(series) \in window
    <2>1. series \in Seq(window) /\ Len(series) \in Nat
      BY <1>8, <1>9 DEF ListsAll
    <2>2. Len(series) \in 1 .. Len(series)
      BY <1>9, <2>1
    <2> QED
      BY <2>1, <2>2 DEF Last
  <1>11. PICK e \in window : e = Last(series)
    BY <1>10
  <1>12. /\ e \in bars /\ e.ref = ref /\ opening <= e.start /\ e.end = closing
         /\ e.start \in Int /\ e.end \in Int /\ e.start < e.end
    BY <1>7, <1>9, <1>11 DEF BarsSound
  <1>13. Day(e.start) = day
    <2>1. PICK k \in 0 .. DayTicks - 1 : closing = day * DayTicks + k
      BY <1>5
    <2> DEFINE m == day * DayTicks
    <2>2. m \in Int /\ k \in Int
      BY <1>1
    <2>3. m <= e.start /\ e.start <= m + k
      <3>1. m <= opening /\ closing = m + k
        BY <1>5, <2>1
      <3> HIDE DEF m
      <3> QED
        BY <1>5, <1>12, <2>2, <3>1
    <2> QED
      BY <1>12, <2>3, DayOfInstant
  <1>14. e.end = Moment(calendar, e.start, "close")
    BY <1>6, <1>12, <1>13 DEF Moment
  <1>15. series \in Seq(bars)
    BY <1>7, <1>10
  <1> QED
    BY <1>9, <1>11, <1>12, <1>13, <1>14, <1>15 DEF ClosingBars

\* The days before that have a session.
DaysBefore(calendar, day) ==
  {d \in day - Lookback .. day - 1 :
     (\A k \in d .. day - 1 : Covered(calendar, k)) /\ SessionOn(calendar, d) # Absent}

\* They are listed.
LEMMA DaysListed ==
  ASSUME NEW calendar, NEW day \in Int
  PROVE  ListsAll(SessionDays(calendar, day), DaysBefore(calendar, day))
  <1> DEFINE S == DaysBefore(calendar, day)
             R == {pair \in S \X S : pair[1] < pair[2]}
             n == Cardinality(S)
  <1>1. SessionDays(calendar, day) =
          [i \in 1 .. n |-> CHOOSE d \in S : Cardinality({c \in S : c < d}) = i - 1]
    BY DEF SessionDays, Sorted, DaysBefore
  <1>2. S \in SUBSET (day - Lookback .. day - 1) /\ Lookback \in Nat
    BY VersionIsPositive DEF DaysBefore
  <1>3. IsFiniteSet(day - Lookback .. day - 1)
    <2>1. day - Lookback \in Int /\ day - 1 \in Int
      BY <1>2
    <2> QED
      BY <2>1, FS_Interval
  <1>4. S \subseteq Int
    BY <1>2
  <1> HIDE DEF S
  <1>5. IsFiniteSet(S)
    BY <1>2, <1>3, FS_Subset
  <1>6. \A c, d \in S : <<c, d>> \in R <=> c < d
    OBVIOUS
  <1>7. \A d \in S : {c \in S : c < d} = Ahead(R, S, d)
    BY DEF Ahead
  <1> HIDE DEF R
  <1>8. OrdersAll(R, S)
    BY <1>4, <1>6 DEF OrdersAll
  <1>9. SessionDays(calendar, day) = ListBy(R, S)
    BY <1>1, <1>7 DEF ListBy
  <1>10. ListsAll(ListBy(R, S), S)
    BY <1>5, <1>8, OrderLists
  <1> QED
    BY <1>9, <1>10 DEF S

\* The newest of a list end where it ends.
LEMMA NewestOfList ==
  ASSUME NEW S, NEW list \in Seq(S)
  PROVE  /\ Newest(list) \in Seq(S) /\ Len(Newest(list)) \in Nat
         /\ Newest(list) # <<>> =>
              list # <<>> /\ Len(Newest(list)) > 0 /\ Newest(list)[Len(Newest(list))] = Last(list)
  <1> DEFINE n == Len(list)
             k == n - BaselineSessions + 1
             first == Max({1, k})
             newest == SubSeq(list, first, n)
  <1>1. n \in Nat /\ BaselineSessions \in Nat \ {0}
    BY VersionIsPositive
  <1>2. k \in Int /\ k <= n
    BY <1>1
  <1> HIDE DEF k
  <1>3. first \in {1, k} /\ 1 <= first
    <2>1. 1 \in Int /\ k \in Int
      BY <1>2
    <2>2. Max({1, k}) \in {1, k} /\ 1 <= Max({1, k})
      BY ONLY <2>1, MaxOfTwo
    <2> QED
      BY <2>2
  <1>4. first \in Int /\ 1 <= first /\ (n > 0 => first <= n)
    BY <1>1, <1>2, <1>3
  <1> HIDE DEF first
  <1>5. Newest(list) = newest
    BY DEF Newest, first, k
  <1>6. \A i \in first .. n : list[i] \in S
    BY <1>4
  <1>7. /\ newest \in Seq(S) /\ Len(newest) = (IF first <= n THEN n - first + 1 ELSE 0)
        /\ \A i \in 1 .. n - first + 1 : newest[i] = list[first + i - 1]
    BY <1>1, <1>4, <1>6, SubSeqProperties
  <1> HIDE DEF newest
  <1>8. ASSUME newest # <<>>
        PROVE  list # <<>> /\ Len(newest) > 0 /\ newest[Len(newest)] = Last(list)
    <2>1. Len(newest) \in Nat /\ Len(newest) # 0
      BY <1>7, <1>8
    <2>2. first <= n /\ Len(newest) = n - first + 1
      BY <1>7, <2>1
    <2>3. n - first + 1 \in 1 .. n - first + 1 /\ first + (n - first + 1) - 1 = n /\ n > 0
      BY <1>1, <1>4, <2>2
    <2>4. newest[n - first + 1] = list[n]
      BY <1>7, <2>3
    <2> QED
      BY <1>1, <2>1, <2>2, <2>3, <2>4 DEF Last
  <1> QED
    BY <1>5, <1>7, <1>8

\* Each earlier session is whole, up to the bar that closes its day, or missing; the last of them is that of
\* the last day with a session.
LEMMA PriorSessionsClose ==
  ASSUME NEW bars, BarsSound(bars), NEW calendar, SessionsOrdered(calendar), NEW ref, NEW at \in Int,
         NEW prior, prior = PriorSessions(bars, ref, calendar, at),
         NEW days, days = SessionDays(calendar, Day(at))
  PROVE  /\ Len(prior) \in Nat /\ DOMAIN prior = 1 .. Len(prior)
         /\ DOMAIN Newest(days) = DOMAIN prior
         /\ \A i \in DOMAIN prior : prior[i] # <<>> =>
              /\ prior[i] \in Seq(bars)
              /\ Last(prior[i]) \in ClosingBars(bars, ref, calendar, Newest(days)[i])
         /\ prior # <<>> /\ Last(prior) # <<>> => Last(Last(prior)) \in ClosingBars(bars, ref, calendar, Last(days))
  <1> DEFINE S == DaysBefore(calendar, Day(at))
             newest == Newest(days)
  <1>1. Day(at) \in Int
    BY DaysHaveTicks DEF Day
  <1>2. days \in Seq(S)
    <2> DEFINE d == Day(at)
    <2> HIDE DEF d
    <2>1. d \in Int => ListsAll(SessionDays(calendar, d), DaysBefore(calendar, d))
      BY DaysListed
    <2> QED
      BY <1>1, <2>1 DEF ListsAll, d
  <1>3. \A d \in S : d \in Int /\ Covered(calendar, d) /\ SessionOn(calendar, d) # Absent
    <2> TAKE d \in S
    <2>1. d \in Day(at) - Lookback .. Day(at) - 1 /\ SessionOn(calendar, d) # Absent
          /\ \A k \in d .. Day(at) - 1 : Covered(calendar, k)
      BY DEF DaysBefore
    <2>2. Lookback \in Nat
      BY VersionIsPositive
    <2>3. d \in Int /\ d \in d .. Day(at) - 1
      BY <1>1, <2>1, <2>2
    <2> QED
      BY <2>1, <2>3
  <1>4. prior = [i \in DOMAIN newest |-> WholeSession(bars, ref, calendar, newest[i], at)]
    BY DEF PriorSessions
  <1> HIDE DEF S
  <1>5. /\ newest \in Seq(S) /\ Len(newest) \in Nat
        /\ newest # <<>> => days # <<>> /\ Len(newest) > 0 /\ newest[Len(newest)] = Last(days)
    BY <1>2, NewestOfList
  <1> HIDE DEF newest
  <1>6. DOMAIN newest = 1 .. Len(newest) /\ \A i \in DOMAIN newest : newest[i] \in S
    BY <1>5
  <1>7. DOMAIN prior = DOMAIN newest /\ Len(prior) = Len(newest)
    BY <1>4, <1>5, <1>6
  <1>8. \A i \in DOMAIN prior : prior[i] # <<>> =>
          prior[i] \in Seq(bars) /\ Last(prior[i]) \in ClosingBars(bars, ref, calendar, newest[i])
    <2> SUFFICES ASSUME NEW i \in DOMAIN prior, prior[i] # <<>>
                 PROVE  prior[i] \in Seq(bars) /\ Last(prior[i]) \in ClosingBars(bars, ref, calendar, newest[i])
      OBVIOUS
    <2> DEFINE d == newest[i]
    <2>1. d \in S /\ prior[i] = WholeSession(bars, ref, calendar, d, at)
      BY <1>4, <1>6, <1>7
    <2> HIDE DEF d
    <2>2. d \in Int /\ Covered(calendar, d) /\ SessionOn(calendar, d) # Absent
      BY <1>3, <2>1
    <2>3. WholeSession(bars, ref, calendar, d, at) # <<>>
      BY <2>1
    <2>4. /\ WholeSession(bars, ref, calendar, d, at) \in Seq(bars)
          /\ Last(WholeSession(bars, ref, calendar, d, at)) \in ClosingBars(bars, ref, calendar, d)
      BY <2>2, <2>3, WholeSessionCloses
    <2> QED
      BY <2>1, <2>4 DEF d
  <1>9. ASSUME prior # <<>>, Last(prior) # <<>>
        PROVE  Last(Last(prior)) \in ClosingBars(bars, ref, calendar, Last(days))
    <2>1. newest # <<>>
      <3>1. CASE newest = <<>>
        <4>1. DOMAIN newest = {}
          BY <3>1
        <4>2. prior = <<>>
          BY <1>4, <3>1
        <4> QED
          BY <1>9, <4>2
      <3> QED
        BY <3>1
    <2>2. Len(newest) \in DOMAIN prior /\ newest[Len(newest)] = Last(days)
      BY <1>5, <1>6, <1>7, <2>1
    <2>3. Last(prior) = prior[Len(newest)]
      BY <1>7 DEF Last
    <2> QED
      BY <1>8, <1>9, <2>2, <2>3
  <1> QED
    BY <1>5, <1>6, <1>7, <1>8, <1>9 DEF newest

\* A gap is measured from the last close of the last session.
LEMMA GapNeedsTheClose ==
  ASSUME NEW series, NEW prior, Present(OpeningGap(series, prior))
  PROVE  prior # <<>> /\ Last(prior) # <<>> /\ OpeningGap(series, prior).value.by = Last(Last(prior)).close
  <1> DEFINE close == Last(Last(prior)).close
             of == series[1].open - close
             known == series # <<>> /\ prior # <<>> /\ (prior # <<>> => Last(prior) # <<>>)
             value == IF known THEN Quotient(TRUE, of, close) ELSE Absent
  <1>1. OpeningGap(series, prior) = Put(value, "MISSING_INPUT")
    BY DEF OpeningGap
  <1> HIDE DEF value
  <1>2. OpeningGap(series, prior).value = value /\ value # Absent
    BY <1>1 DEF Put, Present
  <1>3. known
    BY <1>2 DEF value
  <1> HIDE DEF of, close, known
  <1>4. value = [of |-> of, by |-> close]
    BY <1>2, <1>3 DEF value, Quotient
  <1>5. value.by = close
    BY <1>4
  <1> QED
    BY <1>2, <1>3, <1>5 DEF close, known

\* The volume of a series.
LEMMA VolumeIsInteger ==
  ASSUME NEW bars, BarsSound(bars), NEW series \in Seq(bars)
  PROVE  VolumeOf(series) \in Int
  <1> DEFINE n == Len(series)
             f == [i \in 1 .. n |-> series[i].volume]
  <1>1. n \in Nat /\ DOMAIN series = 1 .. n
    OBVIOUS
  <1>2. \A i \in 1 .. n : f[i] \in Int
    BY <1>1 DEF BarsSound
  <1>3. VolumeOf(series) = SumFunctionOnSet(f, 1 .. n)
    BY <1>1 DEF VolumeOf, SumFunction
  <1> HIDE DEF f, n
  <1>4. IsFiniteSet(1 .. n)
    BY <1>1, FS_Interval
  <1> QED
    BY <1>2, <1>3, <1>4, SumIsInteger

\* Figures by volume need the whole baseline; and when one of them is there, the average is.
LEMMA FiguresNeedBaselines ==
  ASSUME NEW quotes, NEW series, NEW sessions, NEW quantity, NEW at, NEW l,
         l = LiquidityOf(quotes, series, sessions, quantity, at),
         NEW bars, BarsSound(bars), Len(sessions) \in Nat, DOMAIN sessions = 1 .. Len(sessions),
         \A i \in DOMAIN sessions : sessions[i] # <<>> => sessions[i] \in Seq(bars)
  PROVE  /\ Present(l.adv) => Len(sessions) = BaselineSessions /\ \A i \in DOMAIN sessions : sessions[i] # <<>>
         /\ Present(l.relativeVolume) => Present(l.adv)
  <1> DEFINE ready == Len(sessions) = BaselineSessions /\ \A i \in DOMAIN sessions : sessions[i] # <<>>
             volumes == [i \in DOMAIN sessions |-> VolumeOf(sessions[i])]
             volume == SumFunction(volumes)
             adv == Quotient(ready, volume, BaselineSessions)
             placeOf == Len(series)
             enough == ready /\ placeOf > 0 /\ \A i \in DOMAIN sessions : placeOf <= Len(sessions[i])
             relative == Quotient(TRUE, series[placeOf].volume * BaselineSessions,
                                  SumFunction([i \in DOMAIN sessions |-> sessions[i][placeOf].volume]))
  <1>1. /\ l.adv = Put(adv, "WARMUP")
        /\ l.relativeVolume = Put(IF enough THEN relative ELSE Absent, "WARMUP")
    BY DEF LiquidityOf
  <1>2. BaselineSessions \in Nat \ {0}
    BY VersionIsPositive
  <1>3. ready => volume \in Int
    <2> SUFFICES ASSUME ready PROVE volume \in Int
      OBVIOUS
    <2> DEFINE D == 1 .. Len(sessions)
    <2>1. \A i \in D : volumes[i] \in Int
      <3> TAKE i \in D
      <3>1. sessions[i] \in Seq(bars)
        OBVIOUS
      <3>2. VolumeOf(sessions[i]) \in Int
        BY <3>1, VolumeIsInteger
      <3> QED
        BY <3>2
    <2>2. volume = SumFunctionOnSet(volumes, D)
      BY DEF SumFunction
    <2>3. IsFiniteSet(D)
      BY FS_Interval
    <2> HIDE DEF D, volumes, volume
    <2> QED
      BY <2>1, <2>2, <2>3, SumIsInteger
  <1> HIDE DEF volumes, volume, relative, placeOf
  <1>4. enough => ready
    OBVIOUS
  <1> HIDE DEF ready, enough
  <1>5. ready => adv # Absent
    <2> SUFFICES ASSUME ready PROVE adv # Absent
      OBVIOUS
    <2>1. adv = [of |-> volume, by |-> BaselineSessions]
      BY <1>2 DEF Quotient
    <2>2. volume \in Int /\ BaselineSessions \in Int
      BY <1>2, <1>3
    <2> HIDE DEF adv
    <2>3. adv \in [of : Int, by : Int]
      BY ONLY <2>1, <2>2
    <2> QED
      BY <2>3, AbsentIsNoValue
  <1>6. adv # Absent => ready
    BY DEF Quotient
  <1> HIDE DEF adv
  <1>7. Present(l.adv) <=> ready
    <2>1. Put(adv, "WARMUP").value = adv
      BY DEF Put
    <2> QED
      BY <1>1, <1>5, <1>6, <2>1 DEF Present
  <1>8. Present(l.relativeVolume) => enough
    <2>1. l.relativeVolume.value = IF enough THEN relative ELSE Absent
      BY <1>1 DEF Put
    <2> QED
      BY <2>1 DEF Present
  <1> QED
    BY <1>4, <1>7, <1>8 DEF ready

\* The bars that are selected.
BarsOf(log, context, at) == {e \in SelectableOf(log, context, at) : e.kind = "BAR"}

\* They are bars of the log.
LEMMA SelectedBarsAreSound ==
  ASSUME NEW log, LogSound(log), NEW context, NEW at
  PROVE  /\ BarsSound(BarsOf(log, context, at))
         /\ {e \in Range(SelectedEvents(log, context, at)) : e.kind = "BAR"} = BarsOf(log, context, at)
         /\ \A e \in BarsOf(log, context, at) : e \in Range(log) /\ e.kind = "BAR"
  <1>1. /\ Range(SelectedEvents(log, context, at)) = SelectableOf(log, context, at)
        /\ IsFiniteSet(SelectableOf(log, context, at))
    BY SelectedAreListed
  <1>2. BarsOf(log, context, at) \in SUBSET SelectableOf(log, context, at)
    BY DEF BarsOf
  <1>3. IsFiniteSet(BarsOf(log, context, at))
    BY <1>1, <1>2, FS_Subset
  <1>4. \A e \in BarsOf(log, context, at) : e \in Range(log) /\ e.kind = "BAR"
    BY DEF BarsOf, SelectableOf
  <1>5. \A e \in Range(log) : e \in KnownEvents
    BY DEF LogSound, Range
  <1>6. \A e \in BarsOf(log, context, at) :
          /\ e \in KnownEvents /\ e.start \in Int /\ e.end \in Int /\ e.start < e.end
          /\ e.volume \in Int /\ e.received \in Int
    BY <1>4, <1>5, EventsAreStamped
  <1> QED
    BY <1>1, <1>3, <1>4, <1>6 DEF BarsSound, BarsOf

\* BaselinesHaveNoHoles: the opening gap that CausalFeatureEngine.snapshot gives is measured from the
\* close of the preceding session of the exchange, and a baseline counts every session it spans.
THEOREM BaselinesAreWhole == FeatureSpec => []BaselinesHaveNoHoles
  <1>1. FeatureInv => BaselinesHaveNoHoles
    <2> SUFFICES ASSUME FeatureInv, NEW context \in FeatureContexts,
                        SnapshotOf(featureLog, context, featureTime) # Absent
                 PROVE  LET s == SnapshotOf(featureLog, context, featureTime)
                            days == SessionDays(FeatureCalendar, Day(featureTime))
                            bars(day) == {e \in Range(featureLog) : /\ e.kind = "BAR" /\ e.ref = context.entity
                                                                    /\ Day(e.start) = day}
                            closing(day) == {e \in bars(day) : e.end = Moment(FeatureCalendar, e.start, "close")}
                        IN /\ Present(s.stockGap) => \E e \in closing(Last(days)) : s.stockGap.value.by = e.close
                           /\ Present(s.liquidity.adv) => \A d \in Range(Newest(days)) : closing(d) # {}
                           /\ Present(s.liquidity.relativeVolume) => Present(s.liquidity.adv)
      BY DEF BaselinesHaveNoHoles
    <2> DEFINE at == featureTime
               s == SnapshotOf(featureLog, context, at)
               inputs == SelectedEvents(featureLog, context, at)
               bars == BarsOf(featureLog, context, at)
               ref == context.entity
               prior == PriorSessions(bars, ref, FeatureCalendar, at)
               series == SeriesOf(bars, ref, Moment(FeatureCalendar, at, "open"),
                                  Endpoint(FeatureCalendar, at), at).bars
               quotes == {e \in Range(inputs) : e.kind = "QUOTE" /\ e.ref = context.entity}
               days == SessionDays(FeatureCalendar, Day(at))
               closing(day) == {e \in {e \in Range(featureLog) : /\ e.kind = "BAR" /\ e.ref = context.entity
                                                                 /\ Day(e.start) = day} :
                                  e.end = Moment(FeatureCalendar, e.start, "close")}
    <2>1. /\ BarsSound(bars) /\ {e \in Range(inputs) : e.kind = "BAR"} = bars
          /\ \A e \in bars : e \in Range(featureLog) /\ e.kind = "BAR"
      BY SelectedBarsAreSound DEF FeatureInv
    <2>2. s = SnapshotFrom(inputs, context, FeatureCalendar, at)
      BY DEF SnapshotOf, FeatureSnapshot
    <2>3. /\ s.stockGap = OpeningGap(series, prior)
          /\ s.liquidity = LiquidityOf(quotes, series, prior, context.quantity, at)
      <3> HIDE DEF s, inputs, bars
      <3> QED
        BY <2>1, <2>2 DEF SnapshotFrom
    <2>4. \A day : ClosingBars(bars, ref, FeatureCalendar, day) \in SUBSET closing(day)
      <3> HIDE DEF bars
      <3> QED
        BY <2>1 DEF ClosingBars
    <2>5. at \in Int /\ SessionsOrdered(FeatureCalendar)
      BY FeatureDaysAreCovered DEF FeatureInv
    <2> HIDE DEF at, s, inputs, bars, ref, series, quotes, closing, days, prior
    <2>6. /\ Len(prior) \in Nat /\ DOMAIN prior = 1 .. Len(prior)
          /\ DOMAIN Newest(days) = DOMAIN prior
          /\ \A i \in DOMAIN prior : prior[i] # <<>> =>
               /\ prior[i] \in Seq(bars)
               /\ Last(prior[i]) \in ClosingBars(bars, ref, FeatureCalendar, Newest(days)[i])
          /\ prior # <<>> /\ Last(prior) # <<>> =>
               Last(Last(prior)) \in ClosingBars(bars, ref, FeatureCalendar, Last(days))
      <3>1. prior = PriorSessions(bars, ref, FeatureCalendar, at) /\ days = SessionDays(FeatureCalendar, Day(at))
        BY DEF prior, days
      <3> QED
        BY <2>1, <2>5, <3>1, PriorSessionsClose
    <2>7. Present(s.stockGap) => \E e \in closing(Last(days)) : s.stockGap.value.by = e.close
      <3> SUFFICES ASSUME Present(s.stockGap)
                   PROVE  \E e \in closing(Last(days)) : s.stockGap.value.by = e.close
        OBVIOUS
      <3>1. prior # <<>> /\ Last(prior) # <<>> /\ s.stockGap.value.by = Last(Last(prior)).close
        BY <2>3, GapNeedsTheClose
      <3>2. Last(Last(prior)) \in closing(Last(days))
        BY <2>4, <2>6, <3>1
      <3> QED
        BY <3>1, <3>2
    <2>8. /\ Present(s.liquidity.adv) => Len(prior) = BaselineSessions /\ \A i \in DOMAIN prior : prior[i] # <<>>
          /\ Present(s.liquidity.relativeVolume) => Present(s.liquidity.adv)
      <3> DEFINE l == s.liquidity
      <3>1. l = LiquidityOf(quotes, series, prior, context.quantity, at)
        BY <2>3
      <3>2. \A i \in DOMAIN prior : prior[i] # <<>> => prior[i] \in Seq(bars)
        BY <2>6
      <3> HIDE DEF l
      <3>3. /\ Present(l.adv) => Len(prior) = BaselineSessions /\ \A i \in DOMAIN prior : prior[i] # <<>>
            /\ Present(l.relativeVolume) => Present(l.adv)
        BY <2>1, <2>6, <3>1, <3>2, FiguresNeedBaselines
      <3> QED
        BY <3>3 DEF l
    <2>9. ASSUME Present(s.liquidity.adv), NEW d \in Range(Newest(days))
          PROVE  closing(d) # {}
      <3>1. PICK i \in DOMAIN prior : d = Newest(days)[i]
        BY <2>6 DEF Range
      <3>2. Last(prior[i]) \in ClosingBars(bars, ref, FeatureCalendar, d)
        BY <2>6, <2>8, <2>9, <3>1
      <3> QED
        BY <2>4, <3>2
    <2> QED
      BY <2>7, <2>8, <2>9 DEF s, days, closing, at
  <1> QED
    BY <1>1, LogsStaySound, PTL

-----------------------------------------------------------------------------
(* What is invalid. *)

\* The ticks of the slots that are over grow with the time since the opening, and do not exceed it.
LEMMA SlotsElapse ==
  ASSUME NEW x \in Int, NEW y \in Int, x <= y,
         NEW a, a = SlotTicks * Max({0, x \div SlotTicks}),
         NEW b, b = SlotTicks * Max({0, y \div SlotTicks})
  PROVE  a \in Int /\ b \in Int /\ a <= b /\ (a > 0 => a <= x)
  <1> DEFINE w == SlotTicks
             p == x \div w
             q == y \div w
             m == Max({0, p})
             n == Max({0, q})
  <1>1. w \in Nat \ {0}
    BY VersionIsPositive
  <1>2. p \in Int /\ p * w <= x /\ q \in Int /\ y < (q + 1) * w
    BY <1>1
  <1>3. p <= q
    <2> HIDE DEF p, q, w
    <2> SUFFICES ASSUME ~(p <= q) PROVE FALSE
      OBVIOUS
    <2>1. p - (q + 1) \in Nat
      BY <1>2
    <2>2. (p - (q + 1)) * w >= 0 /\ (p - (q + 1)) * w = p * w - (q + 1) * w
      BY <1>1, <1>2, <2>1
    <2>3. p * w \in Int /\ (q + 1) * w \in Int
      BY <1>1, <1>2
    <2> QED
      BY <1>2, <2>2, <2>3
  <1> HIDE DEF p, q
  <1>4. m \in {0, p} /\ 0 <= m
    <2>1. 0 \in Int /\ p \in Int
      BY <1>2
    <2>2. Max({0, p}) \in {0, p} /\ 0 <= Max({0, p})
      BY ONLY <2>1, MaxOfTwo
    <2> QED
      BY <2>2
  <1>5. n \in {0, q} /\ 0 <= n /\ q <= n
    <2>1. 0 \in Int /\ q \in Int
      BY <1>2
    <2>2. Max({0, q}) \in {0, q} /\ 0 <= Max({0, q}) /\ q <= Max({0, q})
      BY ONLY <2>1, MaxOfTwo
    <2> QED
      BY <2>2
  <1>6. a = w * m /\ b = w * n
    BY DEF p, q
  <1> HIDE DEF m, n, w
  <1>7. n - m \in Nat /\ m \in Int /\ n \in Int
    BY <1>2, <1>3, <1>4, <1>5
  <1>8. w * (n - m) >= 0 /\ w * (n - m) = w * n - w * m /\ w * n \in Int /\ w * m \in Int
    BY <1>1, <1>7
  <1>9. a \in Int /\ b \in Int /\ a <= b
    BY <1>6, <1>8
  <1>10. CASE m = 0
    BY <1>1, <1>6, <1>9, <1>10
  <1>11. CASE m = p
    <2>1. w * m = p * w
      BY <1>1, <1>2, <1>11
    <2> QED
      BY <1>2, <1>6, <1>9, <2>1
  <1> QED
    BY <1>4, <1>9, <1>10, <1>11

\* In a session the endpoint moves on with the time, and after the opening it is not in the future.
LEMMA EndpointsMoveOn ==
  ASSUME NEW calendar, SessionsOrdered(calendar), NEW x \in Int, NEW y \in Int, x <= y,
         SessionKnown(calendar, x), Day(x) = Day(y),
         NEW opening, opening = Moment(calendar, x, "open")
  PROVE  /\ opening \in Int /\ Moment(calendar, y, "open") = opening
         /\ Endpoint(calendar, x) \in Int /\ Endpoint(calendar, y) \in Int
         /\ Endpoint(calendar, x) <= Endpoint(calendar, y)
         /\ Endpoint(calendar, x) > opening => Endpoint(calendar, x) <= x
  <1> DEFINE closing == Moment(calendar, x, "close")
             a == SlotTicks * Max({0, (x - opening) \div SlotTicks})
             b == SlotTicks * Max({0, (y - opening) \div SlotTicks})
  <1>1. /\ Moment(calendar, y, "open") = opening
        /\ Moment(calendar, y, "close") = closing
    BY DEF Moment
  <1>2. Endpoint(calendar, x) = Min({closing, opening + a}) /\ Endpoint(calendar, y) = Min({closing, opening + b})
    BY <1>1 DEF Endpoint
  <1>3. opening \in Int /\ closing \in Int
    <2> DEFINE day == Day(x)
    <2>1. day \in Int
      BY DaysHaveTicks DEF Day
    <2>2. Covered(calendar, day) /\ SessionOn(calendar, day) # Absent /\ Day(x) = day
      BY DEF SessionKnown
    <2> HIDE DEF day
    <2> QED
      BY <2>1, <2>2, SessionOfDay
  <1>4. a \in Int /\ b \in Int /\ a <= b /\ (a > 0 => a <= x - opening)
    <2> DEFINE u == x - opening
               v == y - opening
    <2>1. u \in Int /\ v \in Int /\ u <= v
      BY <1>3
    <2>2. a = SlotTicks * Max({0, u \div SlotTicks}) /\ b = SlotTicks * Max({0, v \div SlotTicks})
      OBVIOUS
    <2> HIDE DEF a, b, u, v
    <2>3. a \in Int /\ b \in Int /\ a <= b /\ (a > 0 => a <= u)
      BY <2>1, <2>2, SlotsElapse
    <2> QED
      BY <2>3 DEF u
  <1> HIDE DEF a, b, closing
  <1> DEFINE e == Endpoint(calendar, x)
             f == Endpoint(calendar, y)
             c == opening + a
             d == opening + b
  <1>5. c \in Int /\ d \in Int /\ c <= d /\ (c > opening => c <= x)
    BY <1>3, <1>4
  <1>6. e = Min({closing, c}) /\ f = Min({closing, d})
    BY <1>2
  <1> HIDE DEF c, d, e, f
  <1>7. e \in {closing, c} /\ e <= closing /\ e <= c
    BY <1>3, <1>5, <1>6, MinOfTwo
  <1>8. f \in {closing, d} /\ f <= closing /\ f <= d
    BY <1>3, <1>5, <1>6, MinOfTwo
  <1>9. e \in Int /\ f \in Int /\ e <= f /\ (e > opening => e <= x)
    BY <1>3, <1>5, <1>7, <1>8
  <1> QED
    BY <1>1, <1>3, <1>9 DEF e, f

\* Bars that start at different instants are as many as their starts.
LEMMA AsManyStarts ==
  ASSUME NEW S, IsFiniteSet(S), \A b, c \in S : b.start = c.start => b = c
  PROVE  Cardinality(Starts(S)) = Cardinality(S)
  <1> DEFINE f == [b \in S |-> b.start]
             T == Starts(S)
  <1>1. f \in Surjection(S, T)
    BY DEF Surjection, Starts
  <1>2. \A b, c \in S : f[b] = f[c] => b = c
    OBVIOUS
  <1> HIDE DEF f, T
  <1>3. f \in Injection(S, T)
    BY <1>1, <1>2 DEF Injection, IsInjective, Surjection
  <1>4. Cardinality(T) = Cardinality(S)
    BY <1>1, <1>3, FS_Surjection
  <1> QED
    BY <1>4 DEF T

\* Why a series is invalid.
LEMMA InvalidSeries ==
  ASSUME NEW bars, NEW ref, NEW opening, NEW endpoint, NEW at,
         NEW window, window = SlotBars(bars, ref, opening, endpoint)
  PROVE  SeriesOf(bars, ref, opening, endpoint, at).reason = "INVALID_INPUT" <=>
           /\ window # {}
           /\ Cardinality(Starts(window)) # Cardinality(window) \/ \E b \in window : ~BarUsable(b, at)
  <1> DEFINE slots == {opening + SlotTicks * i : i \in 0 .. (endpoint - opening) \div SlotTicks - 1}
             unsound == Cardinality(Starts(window)) # Cardinality(window) \/ \E b \in window : ~BarUsable(b, at)
             missing(reason) == [bars |-> <<>>, reason |-> reason]
  <1>1. SeriesOf(bars, ref, opening, endpoint, at) =
          IF window = {} THEN missing("MISSING_INPUT")
          ELSE IF unsound THEN missing("INVALID_INPUT")
          ELSE IF Starts(window) # slots THEN missing("MISSING_INPUT")
          ELSE [bars |-> InTimeOrder(window), reason |-> "WARMUP"]
    BY DEF SeriesOf
  <1> HIDE DEF slots, unsound
  <1>2. SeriesOf(bars, ref, opening, endpoint, at).reason = "INVALID_INPUT" <=> window # {} /\ unsound
    BY <1>1
  <1> QED
    BY <1>2 DEF unsound

\* A series that is invalid is so with more bars, up to a later endpoint of the session.
LEMMA MoreBarsStayInvalid ==
  ASSUME NEW bars, BarsSound(bars), NEW more, BarsSound(more), bars \in SUBSET more,
         NEW ref, NEW opening \in Int, NEW e \in Int, NEW f \in Int, e <= f,
         NEW x \in Int, NEW y \in Int, x <= y, e > opening => e <= x,
         \A b \in bars : b.received <= x,
         SeriesOf(bars, ref, opening, e, x).reason = "INVALID_INPUT"
  PROVE  SeriesOf(more, ref, opening, f, y).reason = "INVALID_INPUT"
  <1> DEFINE V == SlotBars(bars, ref, opening, e)
             W == SlotBars(more, ref, opening, f)
             bad(S) == Cardinality(Starts(S)) # Cardinality(S)
  <1>1. V \in SUBSET W /\ V \in SUBSET bars /\ W \in SUBSET more
    <2> SUFFICES ASSUME NEW b \in V PROVE b \in W
      BY DEF SlotBars
    <2>1. b \in bars /\ b \in more /\ b.ref = ref /\ opening <= b.start /\ b.end <= e
      BY DEF SlotBars
    <2>2. b.end \in Int
      BY <2>1 DEF BarsSound
    <2>3. b.end <= f
      BY <2>1, <2>2
    <2> QED
      BY <2>1, <2>3 DEF SlotBars
  <1>2. \A b \in V : opening <= b.start /\ b.end <= e
    BY DEF SlotBars
  <1>3. V # {} /\ (bad(V) \/ \E b \in V : ~BarUsable(b, x))
    BY InvalidSeries
  <1>4. W # {} /\ (bad(W) \/ \E b \in W : ~BarUsable(b, y)) =>
          SeriesOf(more, ref, opening, f, y).reason = "INVALID_INPUT"
    BY InvalidSeries
  <1> HIDE DEF V, W
  <1>5. IsFiniteSet(V) /\ IsFiniteSet(W)
    BY <1>1, FS_Subset DEF BarsSound
  <1>6. ASSUME bad(V) PROVE bad(W)
    <2> SUFFICES ASSUME ~bad(W) PROVE FALSE
      OBVIOUS
    <2>1. \A b, c \in W : b.start = c.start => b = c
      BY <1>5, StartsDiffer
    <2>2. \A b, c \in V : b.start = c.start => b = c
      BY <1>1, <2>1
    <2> QED
      BY <1>5, <1>6, <2>2, AsManyStarts
  <1>7. ASSUME NEW b \in V, ~BarUsable(b, x)
        PROVE  b \in W /\ ~BarUsable(b, y)
    <2>1. /\ b \in bars /\ opening <= b.start /\ b.end <= e
          /\ b.start \in Int /\ b.end \in Int /\ b.start < b.end /\ b.received \in Int /\ b.received <= x
      BY <1>1, <1>2 DEF BarsSound
    <2>2. b.end <= x
      BY <2>1
    <2>3. ~(b.flags \subseteq (IF b.feed = "EQUITY" THEN {} ELSE {"ZERO_VOLUME"}))
      BY <1>7, <2>1, <2>2 DEF BarUsable
    <2> QED
      BY <1>1, <1>7, <2>3 DEF BarUsable
  <1> QED
    BY <1>1, <1>3, <1>4, <1>6, <1>7

\* InvalidStaysInvalid: no later event clears a series of CausalFeatureEngine._session that has an unsound bar
\* or one that came twice.
THEOREM NothingClearsInvalid == FeatureSpec => []InvalidStaysInvalid
  <1>1. FeatureInv => InvalidStaysInvalid
    <2> SUFFICES ASSUME FeatureInv, NEW context \in FeatureContexts, NEW at \in FeatureStart .. featureTime,
                        Day(at) = Day(featureTime), SessionKnown(FeatureCalendar, at),
                        SeriesOf({e \in Range(SelectedEvents(featureLog, context, at)) : e.kind = "BAR"},
                                 context.entity, Moment(FeatureCalendar, at, "open"),
                                 Endpoint(FeatureCalendar, at), at).reason = "INVALID_INPUT"
                 PROVE  SeriesOf({e \in Range(SelectedEvents(featureLog, context, featureTime)) : e.kind = "BAR"},
                                 context.entity, Moment(FeatureCalendar, featureTime, "open"),
                                 Endpoint(FeatureCalendar, featureTime), featureTime).reason = "INVALID_INPUT"
      BY DEF InvalidStaysInvalid
    <2> DEFINE now == featureTime
               bars(t) == BarsOf(featureLog, context, t)
               opening == Moment(FeatureCalendar, at, "open")
               e == Endpoint(FeatureCalendar, at)
               f == Endpoint(FeatureCalendar, now)
    <2>1. at \in Int /\ now \in Int /\ at <= now /\ SessionsOrdered(FeatureCalendar)
      BY FeatureDaysAreCovered DEF FeatureInv
    <2>2. \A t : /\ BarsSound(bars(t))
                 /\ {b \in Range(SelectedEvents(featureLog, context, t)) : b.kind = "BAR"} = bars(t)
      BY SelectedBarsAreSound DEF FeatureInv
    <2>3. bars(at) \in SUBSET bars(now) /\ \A b \in bars(at) : b.received <= at
      <3> SUFFICES ASSUME NEW b \in bars(at) PROVE b \in bars(now) /\ b.received <= at
        OBVIOUS
      <3>1. b \in Range(featureLog) /\ Selectable(b, context, at) /\ b.kind = "BAR"
        BY DEF BarsOf, SelectableOf
      <3>2. b.received \in Int
        BY <2>2 DEF BarsSound
      <3>3. b.received <= at /\ b.received <= now
        BY <2>1, <3>1, <3>2 DEF Selectable
      <3>4. Selectable(b, context, now)
        BY <3>1, <3>3 DEF Selectable
      <3> QED
        BY <3>1, <3>3, <3>4 DEF BarsOf, SelectableOf
    <2>4. SeriesOf(bars(at), context.entity, opening, e, at).reason = "INVALID_INPUT"
      BY <2>2
    <2> HIDE DEF bars, opening, e, f, now
    <2>5. /\ opening \in Int /\ Moment(FeatureCalendar, now, "open") = opening
          /\ e \in Int /\ f \in Int /\ e <= f /\ (e > opening => e <= at)
      <3>1. opening = Moment(FeatureCalendar, at, "open") /\ e = Endpoint(FeatureCalendar, at)
            /\ f = Endpoint(FeatureCalendar, now) /\ Day(at) = Day(now)
        BY DEF opening, e, f, now
      <3> QED
        BY <2>1, <3>1, EndpointsMoveOn
    <2>6. SeriesOf(bars(now), context.entity, opening, f, now).reason = "INVALID_INPUT"
      BY <2>1, <2>2, <2>3, <2>4, <2>5, MoreBarsStayInvalid
    <2> QED
      BY <2>2, <2>5, <2>6 DEF now, f
  <1> QED
    BY <1>1, LogsStaySound, PTL

-----------------------------------------------------------------------------
(* Ranks. *)

\* A rank is at most twice the population.
LEMMA RanksAreBounded ==
  ASSUME NEW S, IsFiniteSet(S), NEW value, NEW x \in S, \A y \in S : value[y] \in Int
  PROVE  Rank(value, x, S) \in 0 .. 2 * Cardinality(S) /\ Cardinality(S) \in Nat
  <1> DEFINE less == {y \in S : value[y] < value[x]}
             equal == {y \in S : value[y] = value[x]}
  <1>1. less \in SUBSET S /\ equal \in SUBSET S /\ less \cap equal = {} /\ less \cup equal \in SUBSET S
    OBVIOUS
  <1>2. Rank(value, x, S) = 2 * Cardinality(less) + Cardinality(equal)
    BY DEF Rank
  <1> HIDE DEF less, equal
  <1>3. IsFiniteSet(less) /\ IsFiniteSet(equal) /\ IsFiniteSet(less \cup equal)
    BY <1>1, FS_Subset
  <1>4. Cardinality(less \cup equal) = Cardinality(less) + Cardinality(equal) - Cardinality(less \cap equal)
    BY <1>3, FS_Union
  <1>5. Cardinality({}) = 0
    BY FS_EmptySet
  <1>6. /\ Cardinality(less) \in Nat /\ Cardinality(equal) \in Nat /\ Cardinality(S) \in Nat
        /\ Cardinality(less \cup equal) <= Cardinality(S)
    BY <1>1, <1>3, FS_CardinalityType, FS_Subset
  <1>7. Cardinality(less) + Cardinality(equal) <= Cardinality(S)
    BY <1>1, <1>4, <1>5, <1>6
  <1> QED
    BY <1>2, <1>6, <1>7

-----------------------------------------------------------------------------
(* Sums over one side of a basket. *)

\* Numbers between two bounds add up to something between as many times the bounds.
LEMMA SumsInBounds ==
  ASSUME NEW S, IsFiniteSet(S), NEW f, NEW low \in Int, NEW high \in Int,
         \A x \in S : f[x] \in Int /\ low <= f[x] /\ f[x] <= high
  PROVE  /\ SumFunctionOnSet(f, S) \in Int
         /\ low * Cardinality(S) <= SumFunctionOnSet(f, S)
         /\ SumFunctionOnSet(f, S) <= high * Cardinality(S)
  <1> DEFINE bad == {T \in SUBSET S : ~(/\ low * Cardinality(T) <= SumFunctionOnSet(f, T)
                                        /\ SumFunctionOnSet(f, T) <= high * Cardinality(T))}
  <1>0. SumFunctionOnSet(f, S) \in Int
    BY SumIsInteger
  <1> SUFFICES ASSUME bad # {} PROVE FALSE
    BY <1>0
  <1>1. PICK T \in bad : \A U \in bad : U \subseteq T => U = T
    <2>1. bad \in SUBSET SUBSET S
      OBVIOUS
    <2> HIDE DEF bad
    <2> QED
      BY <2>1, SmallestSubset
  <1>2. T \in SUBSET S /\ IsFiniteSet(T) /\ Cardinality(T) \in Nat
    BY <1>1, FS_Subset, FS_CardinalityType
  <1>3. CASE T = {}
    <2>1. Cardinality(T) = 0 /\ SumFunctionOnSet(f, T) = 0
      BY <1>3, FS_EmptySet, SumOfNothing
    <2>2. low * Cardinality(T) = 0 /\ high * Cardinality(T) = 0
      BY <2>1
    <2> QED
      BY <1>1, <2>1, <2>2
  <1>4. CASE T # {}
    <2>1. PICK x \in T : TRUE
      BY <1>4
    <2> DEFINE U == T \ {x}
               sum == SumFunctionOnSet(f, U)
               n == Cardinality(U)
    <2>2. U \in SUBSET S /\ U \subseteq T /\ U # T /\ IsFiniteSet(U) /\ Cardinality(U) = Cardinality(T) - 1
      BY <1>2, FS_RemoveElement
    <2>3. U \notin bad
      BY <1>1, <2>2
    <2>4. sum \in Int /\ n \in Nat /\ SumFunctionOnSet(f, T) = f[x] + sum
      <3>1. \A y \in T : f[y] \in Int
        BY <1>2
      <3>2. SumFunctionOnSet(f, T) = f[x] + SumFunctionOnSet(f, U)
        BY <1>2, <3>1, SumWithout
      <3>3. SumFunctionOnSet(f, U) \in Int
        BY <2>2, <3>1, SumIsInteger
      <3>4. Cardinality(U) \in Nat
        BY <2>2, FS_CardinalityType
      <3> QED
        BY <3>2, <3>3, <3>4
    <2>5. low * n <= sum /\ sum <= high * n
      BY <2>2, <2>3
    <2>6. Cardinality(T) = n + 1
      BY <1>2, <2>2
    <2> HIDE DEF sum, n, bad
    <2>7. low * (n + 1) = low * n + low /\ high * (n + 1) = high * n + high /\ low * n \in Int /\ high * n \in Int
      BY <2>4
    <2>8. f[x] \in Int /\ low <= f[x] /\ f[x] <= high
      BY <1>2
    <2>9. low * (n + 1) <= f[x] + sum /\ f[x] + sum <= high * (n + 1)
      BY <2>4, <2>5, <2>7, <2>8
    <2>10. T \notin bad
      BY <2>4, <2>6, <2>9 DEF bad
    <2> QED
      BY <1>1, <2>10
  <1> QED
    BY <1>3, <1>4

\* What Coherent adds up of one side.
ExposureOf(L) == SumFunctionOnSet([l \in L |-> l.part * l.beta], L)
PartsOf(L) == SumFunctionOnSet([l \in L |-> l.part], L)
RanksOf(L) == SumFunctionOnSet([l \in L |-> l.rank], L)

\* L are the legs of the members S, which have one part and ranks between two bounds.
LegsOfSide(S, L, leg, part, low, high) ==
  /\ IsFiniteSet(S) /\ {part, low, high} \subseteq Int /\ L = {leg[c] : c \in S}
  /\ \A c \in S : c.beta \in Int
  /\ \A c, d \in S : c.entity = d.entity => c = d
  /\ \A c \in S : /\ leg[c].entity = c.entity /\ leg[c].beta = c.beta /\ leg[c].part = part
                   /\ leg[c].rank \in Int /\ low <= leg[c].rank /\ leg[c].rank <= high

\* One side of a basket: as many legs as members, whose parts, exposures and ranks add up.
LEMMA OneSideAddsUp ==
  ASSUME NEW S, NEW L, NEW leg, NEW part, NEW low, NEW high, LegsOfSide(S, L, leg, part, low, high)
  PROVE  /\ IsFiniteSet(L) /\ Cardinality(L) = Cardinality(S) /\ SumOf(S) \in Int
         /\ ExposureOf(L) = part * SumOf(S)
         /\ PartsOf(L) = part * Cardinality(S)
         /\ RanksOf(L) \in Int
         /\ low * Cardinality(S) <= RanksOf(L)
         /\ RanksOf(L) <= high * Cardinality(S)
  <1> DEFINE betas == [c \in S |-> c.beta]
             exposed == [c \in S |-> part * c.beta]
             exposures == [l \in L |-> l.part * l.beta]
             parts == [l \in L |-> l.part]
             ranks == [l \in L |-> l.rank]
             h == [c \in S |-> leg[c]]
  <1> USE DEF LegsOfSide
  <1>1. \A c \in S : leg[c] \in L
    OBVIOUS
  <1>2. \A c, d \in S : leg[c] = leg[d] => c = d
    <2> SUFFICES ASSUME NEW c \in S, NEW d \in S, leg[c] = leg[d] PROVE c = d
      OBVIOUS
    <2>1. c.entity = d.entity
      OBVIOUS
    <2> QED
      BY <2>1
  <1>3. h \in [S -> L] /\ L = {h[c] : c \in S} /\ \A c \in S : h[c] = leg[c]
    BY <1>1
  <1> HIDE DEF h
  <1>4. IsFiniteSet(L)
    BY <1>3, FiniteImage
  <1>5. Cardinality(L) = Cardinality(S)
    <2>1. h \in Injection(S, L) /\ h \in Surjection(S, L)
      BY <1>2, <1>3 DEF Injection, IsInjective, Surjection
    <2> QED
      BY <2>1, FS_Surjection
  <1>6. SumOf(S) = SumFunctionOnSet(betas, S)
    BY DEF SumOf
  <1>7. \A c \in S : betas[c] \in Int /\ exposed[c] = part * betas[c] /\ exposed[c] \in Int
    OBVIOUS
  <1>8. \A c \in S : exposures[leg[c]] = exposed[c]
    BY <1>1
  <1>9. \A l \in L : /\ parts[l] \in Int /\ part <= parts[l] /\ parts[l] <= part
                     /\ ranks[l] \in Int /\ low <= ranks[l] /\ ranks[l] <= high
    OBVIOUS
  <1> HIDE DEF betas, exposed, exposures, parts, ranks
  <1>10. SumFunctionOnSet(betas, S) \in Int /\ SumFunctionOnSet(exposed, S) = part * SumFunctionOnSet(betas, S)
    BY <1>7, SumIsInteger, SumOfMultiples
  <1>11. SumFunctionOnSet(exposures, L) = SumFunctionOnSet(exposed, S)
    BY <1>2, <1>7, <1>8, SumsCorrespond
  <1>12. /\ part * Cardinality(L) <= SumFunctionOnSet(parts, L) /\ SumFunctionOnSet(parts, L) <= part * Cardinality(L)
         /\ SumFunctionOnSet(parts, L) \in Int
    BY <1>4, <1>9, SumsInBounds
  <1>13. /\ low * Cardinality(L) <= SumFunctionOnSet(ranks, L) /\ SumFunctionOnSet(ranks, L) <= high * Cardinality(L)
         /\ SumFunctionOnSet(ranks, L) \in Int
    BY <1>4, <1>9, SumsInBounds
  <1>14. part * Cardinality(L) \in Int
    BY <1>4, FS_CardinalityType
  <1>15. SumFunctionOnSet(parts, L) = part * Cardinality(L)
    BY <1>12, <1>14
  <1> QED
    BY <1>4, <1>5, <1>6, <1>10, <1>11, <1>13, <1>15 DEF exposures, parts, ranks, ExposureOf, PartsOf, RanksOf

\* The tails do not meet: one is in the upper half of the ranks, the other in the lower.
LEMMA TailsAreApartOf ==
  ASSUME NEW group, IsFiniteSet(group), group # {}, \A c \in group : c.strength \in Int
  PROVE  /\ Cardinality(group) \in Nat
         /\ \A c \in group : Percentile(c, group) \in 0 .. 2 * Cardinality(group)
         /\ TailOf(group, "LONG") \in SUBSET group /\ TailOf(group, "SHORT") \in SUBSET group
         /\ \A c \in TailOf(group, "LONG") : Cardinality(group) < Percentile(c, group)
         /\ \A c \in TailOf(group, "SHORT") : Percentile(c, group) < Cardinality(group)
  <1> DEFINE n == Cardinality(group)
             u == RvTailUnit
             t == RvRules.tail
             strength == [d \in group |-> d.strength]
  <1>1. \A c \in group : Rank(strength, c, group) \in 0 .. 2 * Cardinality(group)
    <2> TAKE c \in group
    <2>1. \A d \in group : strength[d] \in Int
      OBVIOUS
    <2> HIDE DEF strength
    <2> QED
      BY <2>1, RanksAreBounded
  <1>2. \A c \in group : Percentile(c, group) \in 0 .. 2 * n
    BY <1>1 DEF Percentile
  <1>3. n \in Nat \ {0}
    <2>1. n \in Nat /\ (n = 0 => group = {})
      BY FS_CardinalityType, FS_EmptySet
    <2> QED
      BY <2>1
  <1>4. u \in Nat /\ t \in Nat \ {0} /\ 2 * t < u
    BY RvRulesOrdered
  <1>5. /\ \A c \in TailOf(group, "LONG") : c \in group /\ Percentile(c, group) * u >= 2 * n * (u - t)
        /\ \A c \in TailOf(group, "SHORT") : c \in group /\ Percentile(c, group) * u <= 2 * n * t
    BY DEF TailOf
  <1> HIDE DEF n, u, t
  <1>6. /\ n * (u - 2 * t) > 0 /\ n * (u - 2 * t) = n * u - 2 * (n * t)
        /\ 2 * n * t = 2 * (n * t) /\ 2 * n * (u - t) = 2 * (n * u) - 2 * (n * t)
        /\ n * u \in Int /\ n * t \in Int
    <2>1. u - 2 * t \in Nat \ {0}
      BY <1>4
    <2> QED
      BY <1>3, <1>4, <2>1
  <1>7. \A p \in Int : p * u > n * u => n < p
    <2> SUFFICES ASSUME NEW p \in Int, ~(n < p) PROVE ~(p * u > n * u)
      OBVIOUS
    <2>1. n - p \in Nat /\ (n - p) * u >= 0 /\ (n - p) * u = n * u - p * u
      BY <1>3, <1>4
    <2>2. p * u \in Int
      BY <1>4
    <2> QED
      BY <1>6, <2>1, <2>2
  <1>8. \A p \in Int : p * u < n * u => p < n
    <2> SUFFICES ASSUME NEW p \in Int, ~(p < n) PROVE ~(p * u < n * u)
      OBVIOUS
    <2>1. p - n \in Nat /\ (p - n) * u >= 0 /\ (p - n) * u = p * u - n * u
      BY <1>3, <1>4
    <2>2. p * u \in Int
      BY <1>4
    <2> QED
      BY <1>6, <2>1, <2>2
  <1>9. ASSUME NEW c \in TailOf(group, "LONG") PROVE n < Percentile(c, group)
    <2> DEFINE p == Percentile(c, group)
    <2>1. p \in Int /\ p * u >= 2 * n * (u - t)
      BY <1>2, <1>5
    <2> HIDE DEF p
    <2>2. p * u > n * u
      <3>1. p * u \in Int
        BY <1>4, <2>1
      <3> QED
        BY <1>6, <2>1, <3>1
    <2> QED
      BY <1>7, <2>1, <2>2 DEF p
  <1>10. ASSUME NEW c \in TailOf(group, "SHORT") PROVE Percentile(c, group) < n
    <2> DEFINE p == Percentile(c, group)
    <2>1. p \in Int /\ p * u <= 2 * n * t
      BY <1>2, <1>5
    <2> HIDE DEF p
    <2>2. p * u < n * u
      <3>1. p * u \in Int
        BY <1>4, <2>1
      <3> QED
        BY <1>6, <2>1, <3>1
    <2> QED
      BY <1>8, <2>1, <2>2 DEF p
  <1>11. TailOf(group, "LONG") \in SUBSET group /\ TailOf(group, "SHORT") \in SUBSET group
    BY DEF TailOf
  <1> QED
    BY <1>2, <1>3, <1>9, <1>10, <1>11 DEF n

\* The basket of a sector can be built.
LEMMA BasketIsCoherent ==
  ASSUME NEW group, IsFiniteSet(group), NEW s,
         \A c \in group : c.beta \in Int /\ c.strength \in Int /\ c.sector = s,
         \A c, d \in group : c.entity = d.entity => c = d,
         NEW master, NEW universe, NEW at, NEW b, b = BasketOf(group, master, universe, at), b # Absent
  PROVE  Coherent(b)
  <1> DEFINE short == {c \in TailOf(group, "SHORT") : ShortPermitted(c.token, master, universe)}
             leaders == FirstOf(TailOf(group, "LONG"), "LONG")
             laggards == FirstOf(short, "SHORT")
             w == WeightsOf(leaders, laggards)
             leg(c, side) == [token |-> c.token, entity |-> c.entity, side |-> side, beta |-> c.beta,
                              rank |-> Percentile(c, group), sector |-> c.sector,
                              part |-> w[side], of |-> RvRules.members * w.of]
             long == {leg(c, "LONG") : c \in leaders}
             lower == {leg(c, "SHORT") : c \in laggards}
             m == RvRules.members
             n == Cardinality(group)
             id == <<{c.entity : c \in leaders \cup laggards}, at>>
  <1>1. /\ Cardinality(leaders) = m /\ Cardinality(laggards) = m /\ NetFeasible(w)
        /\ b = [id |-> id, at |-> at, sector |-> (CHOOSE c \in leaders : TRUE).sector, size |-> n,
                legs |-> long \cup lower]
    BY DEF BasketOf
  <1>2. leaders \in SUBSET TailOf(group, "LONG") /\ laggards \in SUBSET TailOf(group, "SHORT")
    BY DEF FirstOf
  <1>3. w = [LONG |-> SumOf(laggards), SHORT |-> SumOf(leaders), of |-> SumOf(leaders) + SumOf(laggards)]
    BY DEF WeightsOf
  <1>4. m \in Nat \ {0} /\ BetaOne \in Nat /\ RvRules.maxNet \in Nat
    <2>1. m \in 1 .. 5
      BY RvRulesOrdered
    <2> HIDE DEF m
    <2> QED
      BY <2>1, RvRulesOrdered
  <1> HIDE DEF leaders, laggards, w, id, m, n
  <1>5. leaders # {}
    BY <1>1, <1>4, FS_EmptySet
  <1>6. /\ n \in Nat /\ TailOf(group, "LONG") \in SUBSET group /\ TailOf(group, "SHORT") \in SUBSET group
        /\ \A c \in group : Percentile(c, group) \in 0 .. 2 * n
        /\ \A c \in TailOf(group, "LONG") : n < Percentile(c, group)
        /\ \A c \in TailOf(group, "SHORT") : Percentile(c, group) < n
    <2>1. group # {}
      BY <1>2, <1>5 DEF TailOf
    <2> QED
      BY <2>1, TailsAreApartOf DEF n
  <1>7. leaders \in SUBSET group /\ laggards \in SUBSET group
    BY <1>2, <1>6
  <1>8. /\ \A c \in leaders : Percentile(c, group) \in Int /\ n <= Percentile(c, group) /\ Percentile(c, group) <= 2 * n
        /\ \A c \in laggards : Percentile(c, group) \in Int /\ 0 <= Percentile(c, group) /\ Percentile(c, group) <= n
    BY <1>2, <1>6, <1>7
  <1>9. \A c \in leaders, d \in laggards : c.entity # d.entity
    <2> SUFFICES ASSUME NEW c \in leaders, NEW d \in laggards, c.entity = d.entity PROVE FALSE
      OBVIOUS
    <2>1. c = d
      BY <1>7
    <2>2. n < Percentile(c, group) /\ Percentile(c, group) < n /\ Percentile(c, group) \in Int
      BY <1>2, <1>6, <1>7, <2>1
    <2> QED
      BY <1>6, <2>2
  <1>10. IsFiniteSet(leaders) /\ IsFiniteSet(laggards)
    BY <1>7, FS_Subset
  <1>11. SumOf(leaders) \in Int /\ SumOf(laggards) \in Int
    <2>1. \A S \in SUBSET group : IsFiniteSet(S) => SumOf(S) \in Int
      <3> SUFFICES ASSUME NEW S \in SUBSET group, IsFiniteSet(S) PROVE SumOf(S) \in Int
        OBVIOUS
      <3> DEFINE f == [c \in S |-> c.beta]
      <3>1. \A c \in S : f[c] \in Int
        OBVIOUS
      <3> HIDE DEF f
      <3>2. SumFunctionOnSet(f, S) \in Int
        BY <3>1, SumIsInteger
      <3> QED
        BY <3>2 DEF SumOf, f
    <2> QED
      BY <1>7, <1>10, <2>1
  <1> DEFINE x == SumOf(leaders)
             y == SumOf(laggards)
  <1>12. w.LONG = y /\ w.SHORT = x /\ w.of = x + y /\ x \in Int /\ y \in Int
    BY <1>3, <1>11
  <1>13. b.legs = long \cup lower /\ b.size = n /\ b.sector = s
    <2>1. (CHOOSE c \in leaders : TRUE) \in leaders
      BY <1>5
    <2> QED
      BY <1>1, <1>7, <2>1
  <1> HIDE DEF x, y
  <1>14. /\ IsFiniteSet(long) /\ Cardinality(long) = m
         /\ ExposureOf(long) = y * x
         /\ PartsOf(long) = y * m
         /\ RanksOf(long) \in Int
         /\ n * m <= RanksOf(long)
         /\ RanksOf(long) <= (2 * n) * m
    <2> DEFINE h == [c \in leaders |-> leg(c, "LONG")]
    <2>1. \A c \in leaders : /\ h[c].entity = c.entity /\ h[c].beta = c.beta /\ h[c].part = y
                             /\ h[c].rank \in Int /\ n <= h[c].rank /\ h[c].rank <= 2 * n
      BY <1>8, <1>12
    <2>2. long = {h[c] : c \in leaders} /\ 2 * n \in Int
      BY <1>6
    <2>3. \A c \in leaders : c.beta \in Int
      BY <1>7
    <2>4. \A c, d \in leaders : c.entity = d.entity => c = d
      BY <1>7
    <2> HIDE DEF h, long
    <2>5. IsFiniteSet(leaders) /\ y \in Int /\ n \in Int /\ 2 * n \in Int
      BY <1>6, <1>10, <1>12
    <2>6. LegsOfSide(leaders, long, h, y, n, 2 * n)
      BY ONLY <2>1, <2>2, <2>3, <2>4, <2>5 DEF LegsOfSide
    <2>7. /\ IsFiniteSet(long) /\ Cardinality(long) = Cardinality(leaders)
          /\ ExposureOf(long) = y * SumOf(leaders)
          /\ PartsOf(long) = y * Cardinality(leaders)
          /\ RanksOf(long) \in Int
          /\ n * Cardinality(leaders) <= RanksOf(long)
          /\ RanksOf(long) <= (2 * n) * Cardinality(leaders)
      BY ONLY <2>6, OneSideAddsUp
    <2> QED
      BY <1>1, <2>7 DEF x
  <1>15. /\ IsFiniteSet(lower) /\ Cardinality(lower) = m
         /\ ExposureOf(lower) = x * y
         /\ PartsOf(lower) = x * m
         /\ RanksOf(lower) \in Int
         /\ 0 * m <= RanksOf(lower)
         /\ RanksOf(lower) <= n * m
    <2> DEFINE h == [c \in laggards |-> leg(c, "SHORT")]
    <2>1. \A c \in laggards : /\ h[c].entity = c.entity /\ h[c].beta = c.beta /\ h[c].part = x
                              /\ h[c].rank \in Int /\ 0 <= h[c].rank /\ h[c].rank <= n
      BY <1>8, <1>12
    <2>2. lower = {h[c] : c \in laggards} /\ 0 \in Int
      OBVIOUS
    <2>3. \A c \in laggards : c.beta \in Int
      BY <1>7
    <2>4. \A c, d \in laggards : c.entity = d.entity => c = d
      BY <1>7
    <2> HIDE DEF h, lower
    <2>5. IsFiniteSet(laggards) /\ x \in Int /\ 0 \in Int /\ n \in Int
      BY <1>6, <1>10, <1>12
    <2>6. LegsOfSide(laggards, lower, h, x, 0, n)
      BY ONLY <2>1, <2>2, <2>3, <2>4, <2>5 DEF LegsOfSide
    <2>7. /\ IsFiniteSet(lower) /\ Cardinality(lower) = Cardinality(laggards)
          /\ ExposureOf(lower) = x * SumOf(laggards)
          /\ PartsOf(lower) = x * Cardinality(laggards)
          /\ RanksOf(lower) \in Int
          /\ 0 * Cardinality(laggards) <= RanksOf(lower)
          /\ RanksOf(lower) <= n * Cardinality(laggards)
      BY ONLY <2>6, OneSideAddsUp
    <2> QED
      BY <1>1, <2>7 DEF y
  <1>16. /\ \A l \in long : l.side = "LONG" /\ l.sector = s /\ l.of = m * (x + y)
         /\ \A l \in lower : l.side = "SHORT" /\ l.sector = s /\ l.of = m * (x + y)
    BY <1>7, <1>12 DEF m
  <1>17. \A l, o \in long \cup lower : l # o => l.entity # o.entity
    <2>1. \A l \in long : \E c \in leaders : l = leg(c, "LONG") /\ l.entity = c.entity
      OBVIOUS
    <2>2. \A l \in lower : \E c \in laggards : l = leg(c, "SHORT") /\ l.entity = c.entity
      OBVIOUS
    <2>3. \A c, d \in group : c.entity = d.entity => c = d
      OBVIOUS
    <2> HIDE DEF long, lower
    <2>4. \A l, o \in long : l.entity = o.entity => l = o
      BY <1>7, <2>1, <2>3
    <2>5. \A l, o \in lower : l.entity = o.entity => l = o
      BY <1>7, <2>2, <2>3
    <2>6. \A l \in long, o \in lower : l.entity # o.entity
      BY <1>9, <2>1, <2>2
    <2> QED
      BY <2>4, <2>5, <2>6
  <1>18. Away(m * y - m * x) * BetaOne <= RvRules.maxNet * (m * (x + y))
    <2> DEFINE d == Away(y - x)
    <2>1. d \in Int /\ d * BetaOne <= RvRules.maxNet * (x + y)
      BY <1>1, <1>12 DEF NetFeasible, Away
    <2>2. Away(m * y - m * x) = m * d
      <3>1. m * y - m * x = m * (y - x) /\ m * y - m * x \in Int /\ m * x - m * y = m * (x - y)
        BY <1>4, <1>12
      <3>2. y - x >= 0 => m * (y - x) >= 0
        BY <1>4, <1>12
      <3>3. y - x < 0 => m * (y - x) < 0
        <4> SUFFICES ASSUME y - x < 0 PROVE m * (y - x) < 0
          OBVIOUS
        <4>1. x - y \in Nat \ {0} /\ m * (x - y) > 0 /\ m * (y - x) = -(m * (x - y))
          BY <1>4, <1>12
        <4> QED
          BY <1>4, <1>12, <4>1
      <3>4. CASE y - x < 0
        <4>1. d = x - y
          BY <1>12, <3>4 DEF Away
        <4>2. Away(m * y - m * x) = m * x - m * y
          BY <1>4, <1>12, <3>1, <3>3, <3>4 DEF Away
        <4> QED
          BY <3>1, <4>1, <4>2
      <3>5. CASE ~(y - x < 0)
        <4>1. d = y - x /\ y - x >= 0
          BY <1>12, <3>5 DEF Away
        <4>2. Away(m * y - m * x) = m * y - m * x
          BY <3>1, <3>2, <4>1 DEF Away
        <4> QED
          BY <3>1, <4>1, <4>2
      <3> QED
        BY <3>4, <3>5
    <2> HIDE DEF d
    <2> DEFINE left == d * BetaOne
               right == RvRules.maxNet * (x + y)
    <2>3. left \in Int /\ right \in Int /\ left <= right
      BY <1>4, <1>12, <2>1
    <2>4. (m * d) * BetaOne = m * left /\ RvRules.maxNet * (m * (x + y)) = m * right
      BY <1>4, <1>12, <2>1
    <2> HIDE DEF left, right
    <2>5. m * (right - left) >= 0 /\ m * (right - left) = m * right - m * left /\ m * right \in Int /\ m * left \in Int
      BY <1>4, <2>3, SMTT(30)
    <2> QED
      BY <2>2, <2>4, <2>5
  <1>19. \A leg1 \in long \cup lower : leg1.of = (CHOOSE l \in b.legs : TRUE).of
    <2>1. long # {}
      BY <1>5
    <2>2. (CHOOSE l \in b.legs : TRUE) \in b.legs
      BY <1>13, <2>1
    <2> QED
      BY <1>13, <1>16, <2>2
  <1> HIDE DEF long, lower
  <1> DEFINE side(z) == {l \in b.legs : l.side = z}
             of == (CHOOSE l \in b.legs : TRUE).of
             ranks(z) == RanksOf(side(z))
             gross(z) == PartsOf(side(z))
             exposure(z) == ExposureOf(side(z))
  <1>20. side("LONG") = long /\ side("SHORT") = lower
    BY <1>13, <1>16
  <1>21. of = m * (x + y)
    <2>1. long # {}
      BY <1>4, <1>14, FS_EmptySet
    <2> QED
      BY <1>13, <1>16, <1>19, <2>1
  <1> HIDE DEF of
  <1>22. \A z \in {"LONG", "SHORT"} : Cardinality(side(z)) = RvRules.members
    BY <1>14, <1>15, <1>20 DEF m
  <1>23. ranks("LONG") - ranks("SHORT") \in 0 .. 2 * b.size * RvRules.members
    <2> DEFINE p == ranks("LONG")
               q == ranks("SHORT")
    <2>1. p \in Int /\ q \in Int /\ n * m <= p /\ p <= (2 * n) * m /\ 0 * m <= q /\ q <= n * m
      BY <1>14, <1>15, <1>20
    <2> HIDE DEF p, q
    <2>2. n * m \in Int /\ (2 * n) * m \in Int /\ 0 * m = 0
      BY <1>4, <1>6
    <2>3. p - q \in 0 .. (2 * n) * m
      BY <2>1, <2>2
    <2> QED
      BY <1>13, <2>3 DEF p, q, m
  <1>24. /\ gross("LONG") = m * y /\ gross("SHORT") = m * x
         /\ exposure("LONG") = x * y /\ exposure("SHORT") = x * y
    <2>1. y * m = m * y /\ x * m = m * x /\ y * x = x * y
      BY <1>4, <1>12
    <2> QED
      BY <1>14, <1>15, <1>20, <2>1
  <1>25. m * y + m * x = m * (x + y)
    BY <1>4, <1>12
  <1>26. \A l, o \in b.legs : l # o => l.entity # o.entity
    BY <1>13, <1>17
  <1>27. \A l \in b.legs : l.sector = b.sector /\ l.of = of
    BY <1>13, <1>16, <1>21
  <1>28. gross("LONG") + gross("SHORT") = of
    BY <1>21, <1>24, <1>25
  <1>29. Away(gross("LONG") - gross("SHORT")) * BetaOne <= RvRules.maxNet * of
    BY <1>18, <1>21, <1>24
  <1>30. exposure("LONG") = exposure("SHORT")
    BY <1>24
  <1> HIDE DEF side
  <1> QED
    BY <1>22, <1>23, <1>26, <1>27, <1>28, <1>29, <1>30 DEF Coherent, of, side, ExposureOf, PartsOf, RanksOf

-----------------------------------------------------------------------------
(* What evaluate finds. *)

\* The observations of the instant, those that are used and the candidates they make.
NowOf(offered, at) == {o \in offered : o.at = at}
UsedOf(offered, universe, master, decision, taken, calendar, at) ==
  {o \in NowOf(offered, at) :
     LET i == InstrumentOf(master, o.token)
     IN ~Reserved(i, taken) /\ Admitted(o, i, universe, decision, at, Moment(calendar, at, "open"))}
CandidatesOf(offered, universe, master, decision, taken, calendar, at) ==
  {RankedOf(o, InstrumentOf(master, o.token), at, Moment(calendar, at, "open"))
     : o \in UsedOf(offered, universe, master, decision, taken, calendar, at)}

\* A basket is that of a sector, in a cross-section that is complete and unambiguous.
LEMMA BasketsAreOfSectors ==
  ASSUME NEW offered, NEW universe, NEW master, NEW decision, NEW taken, NEW calendar, NEW at, NEW mode,
         NEW b \in FindBaskets(offered, universe, master, decision, taken, calendar, at, mode).baskets,
         NEW candidates, candidates = CandidatesOf(offered, universe, master, decision, taken, calendar, at)
  PROVE  /\ CrossSectionComplete(NowOf(offered, at), master, universe)
         /\ \A i, j \in master.instruments : i # j => i.entity # j.entity
         /\ b # Absent
         /\ \E s : b = BasketOf({c \in candidates : c.sector = s}, master, universe, at)
  BY DEF FindBaskets, CandidatesOf, UsedOf, NowOf

\* The entities of a complete cross-section differ.
LEMMA EntitiesDiffer ==
  ASSUME NEW observations, NEW master, NEW universe, CrossSectionComplete(observations, master, universe),
         \A i, j \in master.instruments : i # j => i.entity # j.entity
  PROVE  \A o, p \in observations :
           InstrumentOf(master, o.token).entity = InstrumentOf(master, p.token).entity => o = p
  <1>1. \A o \in observations : o.token \in {i.token : i \in {i \in master.instruments : i.token \in universe.long}}
    BY DEF CrossSectionComplete
  <1>2. \A o \in observations : \E i \in master.instruments : i.token = o.token
    BY <1>1
  <1>3. \A o \in observations : /\ InstrumentOf(master, o.token) \in master.instruments
                                /\ InstrumentOf(master, o.token).token = o.token
    BY <1>2 DEF InstrumentOf
  <1>4. \A o, p \in observations : o # p => o.token # p.token
    BY DEF CrossSectionComplete
  <1> QED
    BY <1>3, <1>4

\* What evaluate finds can be built.
LEMMA FoundIsCoherent ==
  ASSUME NEW offered, IsFiniteSet(offered),
         \A o \in offered : {o.beta, o.residual.sector, o.residual.market} \subseteq Int,
         NEW universe, NEW master, NEW decision, NEW taken, NEW calendar, NEW at, NEW mode,
         NEW b \in FindBaskets(offered, universe, master, decision, taken, calendar, at, mode).baskets
  PROVE  Coherent(b)
  <1> DEFINE used == UsedOf(offered, universe, master, decision, taken, calendar, at)
             candidates == CandidatesOf(offered, universe, master, decision, taken, calendar, at)
             opening == Moment(calendar, at, "open")
             ranked == [o \in used |-> RankedOf(o, InstrumentOf(master, o.token), at, opening)]
  <1>1. /\ CrossSectionComplete(NowOf(offered, at), master, universe)
        /\ \A i, j \in master.instruments : i # j => i.entity # j.entity
        /\ b # Absent
        /\ \E s : b = BasketOf({c \in candidates : c.sector = s}, master, universe, at)
    BY BasketsAreOfSectors
  <1>2. used \in SUBSET NowOf(offered, at) /\ used \in SUBSET offered
    BY DEF UsedOf, NowOf
  <1>3. candidates = {ranked[o] : o \in used}
    BY DEF CandidatesOf
  <1>4. \A o \in used : /\ ranked[o].entity = InstrumentOf(master, o.token).entity /\ ranked[o].beta = o.beta
                        /\ ranked[o].strength = RvRules.sectorWeight * o.residual.sector
                                                + (10 - RvRules.sectorWeight) * o.residual.market
    BY DEF RankedOf
  <1>5. ranked \in [used -> candidates]
    BY <1>3
  <1> HIDE DEF used, candidates, ranked
  <1>6. IsFiniteSet(candidates)
    <2>1. IsFiniteSet(used)
      BY <1>2, FS_Subset
    <2> QED
      BY <1>3, <1>5, <2>1, FiniteImage
  <1>7. \A o, p \in used : ranked[o].entity = ranked[p].entity => o = p
    <2>1. \A o, p \in NowOf(offered, at) :
            InstrumentOf(master, o.token).entity = InstrumentOf(master, p.token).entity => o = p
      BY <1>1, EntitiesDiffer
    <2> QED
      BY <1>2, <1>4, <2>1
  <1>8. \A c, d \in candidates : c.entity = d.entity => c = d
    BY <1>3, <1>7
  <1>9. \A c \in candidates : c.beta \in Int /\ c.strength \in Int
    <2> SUFFICES ASSUME NEW o \in used PROVE ranked[o].beta \in Int /\ ranked[o].strength \in Int
      BY <1>3
    <2>1. o.beta \in Int /\ o.residual.sector \in Int /\ o.residual.market \in Int
      BY <1>2
    <2>2. RvRules.sectorWeight \in Int
      BY RvRulesOrdered
    <2> QED
      BY <1>4, <2>1, <2>2
  <1>10. PICK s : b = BasketOf({c \in candidates : c.sector = s}, master, universe, at)
    BY <1>1
  <1> DEFINE group == {c \in candidates : c.sector = s}
  <1>11. IsFiniteSet(group)
    <2>1. group \in SUBSET candidates
      OBVIOUS
    <2> HIDE DEF group
    <2> QED
      BY <1>6, <2>1, FS_Subset
  <1>12. \A c \in group : c.beta \in Int /\ c.strength \in Int /\ c.sector = s
    BY <1>9
  <1>13. \A c, d \in group : c.entity = d.entity => c = d
    BY <1>8
  <1>14. b = BasketOf(group, master, universe, at) /\ b # Absent
    BY <1>1, <1>10
  <1> HIDE DEF group
  <1> QED
    BY <1>11, <1>12, <1>13, <1>14, BasketIsCoherent

-----------------------------------------------------------------------------
(* What a training ends with. *)

\* A history has a row for a bar, and its times are instants.
HistoryRecorded(history) ==
  /\ IsFiniteSet(history)
  /\ \A row \in history : {row.stock.end, row.market.end, row.stock.received, row.market.received} \subseteq Int
  /\ \A row, other \in history : row.stock.end = other.stock.end => row = other

\* The rows of a training are of the history, and known a bar before.
LEMMA RowsAreKnown ==
  ASSUME NEW history, HistoryRecorded(history), NEW at, NEW opening,
         NEW recorded, recorded = BetaRows(history, at, opening)
  PROVE  /\ recorded \in Seq(history)
         /\ \A i \in DOMAIN recorded : /\ recorded[i] \in history
                                      /\ recorded[i].stock.received <= at - RvBarTicks
                                      /\ recorded[i].market.received <= at - RvBarTicks
  <1> DEFINE cutoff == at - RvBarTicks
             known(row) == \A bar \in {row.stock, row.market} : bar.end <= cutoff /\ bar.received <= cutoff
             S == {row \in history : row.stock.start >= opening /\ known(row)}
             before(r, q) == r.stock.end < q.stock.end
             R == {pair \in S \X S : before(pair[1], pair[2])}
             list == [i \in 1 .. Cardinality(S) |->
                        CHOOSE row \in S : Cardinality({r \in S : before(r, row)}) = i - 1]
             n == Len(list)
             first == Max({1, n - RvRules.trainingReturns})
  <1>1. recorded = SubSeq(list, first, n)
    BY DEF BetaRows, Sorted
  <1>2. \A row \in S : row \in history /\ row.stock.received <= cutoff /\ row.market.received <= cutoff
    OBVIOUS
  <1>3. IsFiniteSet(S)
    <2>1. S \in SUBSET history
      OBVIOUS
    <2> HIDE DEF S
    <2> QED
      BY <2>1, FS_Subset DEF HistoryRecorded
  <1> HIDE DEF S
  <1>4. OrdersAll(R, S)
    <2>1. \A r, q \in S : r.stock.end \in Int /\ (r.stock.end = q.stock.end => r = q)
      BY <1>2 DEF HistoryRecorded
    <2>2. \A r, q \in S : <<r, q>> \in R <=> r.stock.end < q.stock.end
      OBVIOUS
    <2> HIDE DEF R
    <2>3. \A r \in S : <<r, r>> \notin R
      BY <2>1, <2>2
    <2>4. \A r, q \in S : r # q => <<r, q>> \in R \/ <<q, r>> \in R
      BY <2>1, <2>2
    <2>5. \A p, q, r \in S : <<p, q>> \in R /\ <<q, r>> \in R => <<p, r>> \in R
      BY <2>1, <2>2
    <2> QED
      BY <2>3, <2>4, <2>5 DEF OrdersAll
  <1>5. list = ListBy(R, S)
    <2> DEFINE places == 1 .. Cardinality(S)
    <2>1. \A row \in S : {r \in S : before(r, row)} = Ahead(R, S, row)
      BY DEF Ahead
    <2> HIDE DEF R, before
    <2>2. \A i \in places : (CHOOSE row \in S : Cardinality({r \in S : before(r, row)}) = i - 1)
                             = (CHOOSE row \in S : Cardinality(Ahead(R, S, row)) = i - 1)
      BY <2>1
    <2>3. ListBy(R, S) = [i \in places |-> CHOOSE row \in S : Cardinality(Ahead(R, S, row)) = i - 1]
      BY DEF ListBy
    <2>4. list = [i \in places |-> CHOOSE row \in S : Cardinality({r \in S : before(r, row)}) = i - 1]
      OBVIOUS
    <2> QED
      BY <2>2, <2>3, <2>4
  <1> HIDE DEF R, list
  <1>6. list \in Seq(S) /\ n \in Nat
    BY <1>3, <1>4, <1>5, OrderLists DEF ListsAll
  <1> HIDE DEF n
  <1>7. first \in Int /\ 1 <= first
    <2> DEFINE k == n - RvRules.trainingReturns
    <2>1. 1 \in Int /\ k \in Int
      BY <1>6, RvRulesOrdered
    <2> HIDE DEF k
    <2>2. Max({1, k}) \in {1, k} /\ 1 <= Max({1, k})
      BY ONLY <2>1, MaxOfTwo
    <2> QED
      BY <2>1, <2>2 DEF k
  <1> HIDE DEF first
  <1>8. \A j \in first .. n : list[j] \in S
    BY <1>6, <1>7 DEF n
  <1>9. SubSeq(list, first, n) \in Seq(S)
    BY <1>6, <1>7, <1>8, SubSeqProperties
  <1>10. recorded \in Seq(S)
    BY <1>1, <1>9
  <1>11. \A i \in DOMAIN recorded : recorded[i] \in S
    BY <1>10
  <1>12. recorded \in Seq(history)
    BY <1>2, <1>10
  <1> QED
    BY <1>2, <1>11, <1>12, SMTT(30)

\* The training of what is admitted ends a bar before, with bars that had arrived when they closed.
LEMMA TrainingEndsPromptly ==
  ASSUME NEW o, HistoryRecorded(o.history), NEW at, NEW opening,
         TrainingSound(BetaRows(o.history, at, opening), o, at, opening)
  PROVE  \E row \in o.history : /\ row.stock.end = at - RvBarTicks
                                /\ row.stock.received <= row.stock.end /\ row.market.received <= row.market.end
  <1> DEFINE recorded == BetaRows(o.history, at, opening)
             n == Len(recorded)
             row == recorded[n]
  <1>1. /\ n = RvRules.trainingReturns + 1 /\ row.stock.end = at - RvBarTicks
        /\ \A i \in DOMAIN recorded : recorded[i].stock.end = recorded[i].market.end
    BY DEF TrainingSound
  <1>2. RvRules.trainingReturns \in Nat
    BY RvRulesOrdered
  <1>3. /\ recorded \in Seq(o.history)
        /\ \A i \in DOMAIN recorded : /\ recorded[i] \in o.history
                                     /\ recorded[i].stock.received <= at - RvBarTicks
                                     /\ recorded[i].market.received <= at - RvBarTicks
    BY RowsAreKnown
  <1> HIDE DEF recorded
  <1>4. n \in DOMAIN recorded
    BY <1>1, <1>2, <1>3
  <1>5. row.market.end = at - RvBarTicks
    BY <1>1, <1>4
  <1> QED
    BY <1>1, <1>3, <1>4, <1>5

\* What the legs of a basket are made of.
LEMMA LegsAreAdmitted ==
  ASSUME NEW offered, NEW universe, NEW master, NEW decision, NEW taken, NEW calendar, NEW at, NEW mode,
         NEW b \in FindBaskets(offered, universe, master, decision, taken, calendar, at, mode).baskets,
         NEW opening, opening = Moment(calendar, at, "open")
  PROVE  /\ b.at = at
         /\ \A leg \in b.legs : \E o \in offered :
              leg.token = o.token /\ TrainingSound(BetaRows(o.history, at, opening), o, at, opening)
  <1> DEFINE candidates == CandidatesOf(offered, universe, master, decision, taken, calendar, at)
  <1>1. b # Absent /\ \E s : b = BasketOf({c \in candidates : c.sector = s}, master, universe, at)
    BY BasketsAreOfSectors
  <1>2. \A c \in candidates : \E o \in offered :
          c.token = o.token /\ TrainingSound(BetaRows(o.history, at, opening), o, at, opening)
    BY DEF CandidatesOf, UsedOf, NowOf, RankedOf, Admitted
  <1> HIDE DEF candidates
  <1>3. PICK s : b = BasketOf({c \in candidates : c.sector = s}, master, universe, at)
    BY <1>1
  <1> DEFINE group == {c \in candidates : c.sector = s}
             leaders == FirstOf(TailOf(group, "LONG"), "LONG")
             laggards == FirstOf({c \in TailOf(group, "SHORT") : ShortPermitted(c.token, master, universe)},
                                 "SHORT")
             w == WeightsOf(leaders, laggards)
             leg(c, side) == [token |-> c.token, entity |-> c.entity, side |-> side, beta |-> c.beta,
                              rank |-> Percentile(c, group), sector |-> c.sector,
                              part |-> w[side], of |-> RvRules.members * w.of]
             legs == {leg(c, "LONG") : c \in leaders} \cup {leg(c, "SHORT") : c \in laggards}
  <1>4. leaders \subseteq candidates /\ laggards \subseteq candidates
    BY DEF FirstOf, TailOf
  <1>5. b.at = at /\ b.legs = legs
    <2>1. b # Absent /\ b = BasketOf(group, master, universe, at)
      BY <1>1, <1>3
    <2> HIDE DEF group
    <2> QED
      BY <2>1 DEF BasketOf
  <1> HIDE DEF w, leaders, laggards, group
  <1>6. \A x \in legs : \E c \in candidates : x.token = c.token
    BY <1>4
  <1> QED
    BY <1>2, <1>5, <1>6

\* A scene that is stamped.
SceneAt(scene, at, id) == {[o EXCEPT !.at = at, !.universe = id] : o \in scene}

\* The stamps leave the data alone.
LEMMA StampsKeepData ==
  ASSUME NEW scene \in RvScene, NEW at, NEW id
  PROVE  /\ IsFiniteSet(SceneAt(scene, at, id))
         /\ \A x \in SceneAt(scene, at, id) :
              /\ {x.beta, x.residual.sector, x.residual.market} \subseteq Int
              /\ HistoryRecorded(x.history)
              /\ \E o \in scene : x.token = o.token /\ x.history = o.history
  <1> DEFINE T == SceneAt(scene, at, id)
             stamp == [o \in scene |-> [o EXCEPT !.at = at, !.universe = id]]
  <1>1. /\ IsFiniteSet(scene)
        /\ \A o \in scene :
             /\ {"token", "at", "universe", "residual", "beta", "history"} \subseteq DOMAIN o
             /\ {o.beta, o.residual.sector, o.residual.market} \subseteq Int
             /\ HistoryRecorded(o.history)
    BY RvScenesAreRecorded DEF HistoryRecorded
  <1>2. \A o \in scene : /\ stamp[o].beta = o.beta /\ stamp[o].residual = o.residual
                         /\ stamp[o].history = o.history /\ stamp[o].token = o.token
    BY <1>1
  <1>3. T = {stamp[o] : o \in scene}
    BY DEF SceneAt
  <1>4. stamp \in [scene -> T]
    BY <1>3
  <1> HIDE DEF T, stamp
  <1>5. IsFiniteSet(T)
    BY <1>1, <1>3, <1>4, FiniteImage
  <1>6. \A x \in T : \E o \in scene : /\ x.beta = o.beta /\ x.residual = o.residual
                                      /\ x.history = o.history /\ x.token = o.token
    BY <1>2, <1>3
  <1>7. \A x \in T : /\ {x.beta, x.residual.sector, x.residual.market} \subseteq Int
                     /\ HistoryRecorded(x.history)
                     /\ \E o \in scene : x.token = o.token /\ x.history = o.history
    BY <1>1, <1>6
  <1> QED
    BY <1>5, <1>7 DEF T

\* BasketsAreCoherent and TradesNeedPromptBars: what SectorRelativeValue.evaluate chooses has, in
\* exact proportions, what RelativeValueIntent.coherent_exposure asks of it up to its tolerances,
\* and rests on bars that came in the instant they closed.
THEOREM BasketsCohere == RvSpec => [](BasketsAreCoherent /\ TradesNeedPromptBars)
  <1> DEFINE Right == BasketsAreCoherent /\ TradesNeedPromptBars
  <1>1. RvInit => Right
    BY DEF RvInit, BasketsAreCoherent, TradesNeedPromptBars, Found
  <1>2. Right /\ [RvNext]_rvVars => Right'
    <2> SUFFICES ASSUME Right, [RvNext]_rvVars PROVE Right'
      OBVIOUS
    <2>1. ASSUME baskets' = Absent PROVE Right'
      BY <2>1 DEF BasketsAreCoherent, TradesNeedPromptBars, Found
    <2>2. ASSUME NEW scene \in RvScene, NEW d \in RvRouting, EvaluateBaskets(scene, d)
          PROVE  Right'
      <3> DEFINE at == rvTime
                 now == [d EXCEPT !.at = rvTime, !.health.at = rvTime]
                 offered == SceneAt(scene, at, RvUniverse.id)
                 result == FindBaskets(offered, RvUniverse, RvMaster, now, inventory, RvCalendar, at, "PAPER")
                 opening == Moment(RvCalendar, at, "open")
      <3>1. baskets' = [result |-> result, scene |-> scene]
        BY <2>2 DEF EvaluateBaskets, SceneAt
      <3>2. /\ IsFiniteSet(offered)
            /\ \A x \in offered :
                 /\ {x.beta, x.residual.sector, x.residual.market} \subseteq Int
                 /\ HistoryRecorded(x.history)
                 /\ \E o \in scene : x.token = o.token /\ x.history = o.history
        BY StampsKeepData
      <3> HIDE DEF offered, now
      <3>3. \A b \in result.baskets : Coherent(b)
        BY <3>2, FoundIsCoherent
      <3>4. ASSUME NEW b \in result.baskets, NEW leg \in b.legs
            PROVE  \E o \in scene : \E row \in o.history :
                     /\ o.token = leg.token
                     /\ row.stock.end = b.at - RvBarTicks
                     /\ row.stock.received <= row.stock.end /\ row.market.received <= row.market.end
        <4>1. /\ b.at = at
              /\ \A l \in b.legs : \E x \in offered :
                   l.token = x.token /\ TrainingSound(BetaRows(x.history, at, opening), x, at, opening)
          BY LegsAreAdmitted
        <4>2. PICK x \in offered :
                leg.token = x.token /\ TrainingSound(BetaRows(x.history, at, opening), x, at, opening)
          BY <4>1
        <4>3. HistoryRecorded(x.history) /\ \E o \in scene : x.token = o.token /\ x.history = o.history
          BY <3>2
        <4>4. \E row \in x.history : /\ row.stock.end = at - RvBarTicks
                                     /\ row.stock.received <= row.stock.end /\ row.market.received <= row.market.end
          <5> HIDE DEF opening
          <5> QED
            BY <4>2, <4>3, TrainingEndsPromptly
        <4> QED
          BY <4>1, <4>2, <4>3, <4>4
      <3> HIDE DEF result
      <3>5. Found' \subseteq result.baskets /\ baskets'.scene = scene
        BY <3>1 DEF Found
      <3>6. BasketsAreCoherent'
        BY <3>3, <3>5 DEF BasketsAreCoherent
      <3>7. TradesNeedPromptBars'
        BY <3>4, <3>5 DEF TradesNeedPromptBars
      <3> QED
        BY <3>6, <3>7
    <2>3. CASE UNCHANGED rvVars
      BY <2>3 DEF rvVars, BasketsAreCoherent, TradesNeedPromptBars, Found
    <2>4. CASE RvAdvance
      BY <2>1, <2>4 DEF RvAdvance
    <2>5. ASSUME NEW tokens \in PairTokens, OpenPair(tokens) PROVE Right'
      BY <2>1, <2>5 DEF OpenPair
    <2>6. ASSUME NEW pair \in held, ReleasePair(pair) PROVE Right'
      BY <2>1, <2>6 DEF ReleasePair
    <2>7. ASSUME NEW active \in SUBSET held, NEW day \in DOMAIN RvListing, TakeInventory(active, RvListing[day])
          PROVE  Right'
      BY <2>1, <2>7 DEF TakeInventory
    <2> HIDE DEF Right
    <2> QED
      BY <2>2, <2>3, <2>4, <2>5, <2>6, <2>7 DEF RvNext
  <1> QED
    BY <1>1, <1>2, PTL DEF RvSpec

-----------------------------------------------------------------------------
(* Ranks from either end. *)

\* What is no less ranks no lower.
LEMMA RanksAreMonotone ==
  ASSUME NEW S, IsFiniteSet(S), NEW value, \A z \in S : value[z] \in Int,
         NEW x \in S, NEW y \in S, value[x] <= value[y]
  PROVE  Rank(value, x, S) <= Rank(value, y, S)
  <1> DEFINE less(u) == {z \in S : value[z] < value[u]}
             equal(u) == {z \in S : value[z] = value[u]}
  <1>1. \A u : less(u) \in SUBSET S /\ equal(u) \in SUBSET S
    OBVIOUS
  <1>2. \A u : Rank(value, u, S) = 2 * Cardinality(less(u)) + Cardinality(equal(u))
    BY DEF Rank
  <1>3. value[x] = value[y] => less(x) = less(y) /\ equal(x) = equal(y)
    OBVIOUS
  <1>4. value[x] # value[y] => less(x) \cup equal(x) \subseteq less(y)
    OBVIOUS
  <1>5. less(x) \cap equal(x) = {}
    OBVIOUS
  <1> HIDE DEF less, equal
  <1>6. \A u : IsFiniteSet(less(u)) /\ IsFiniteSet(equal(u))
    BY <1>1, FS_Subset
  <1>7. \A u : Cardinality(less(u)) \in Nat /\ Cardinality(equal(u)) \in Nat
    BY <1>6, FS_CardinalityType
  <1>8. CASE value[x] = value[y]
    BY <1>2, <1>3, <1>7, <1>8
  <1>9. CASE value[x] # value[y]
    <2>1. Cardinality(less(x) \cup equal(x)) <= Cardinality(less(y))
      BY <1>4, <1>6, <1>9, FS_Subset
    <2>2. Cardinality(less(x) \cup equal(x)) = Cardinality(less(x)) + Cardinality(equal(x)) - Cardinality({})
      BY <1>5, <1>6, FS_Union
    <2>3. Cardinality({}) = 0
      BY FS_EmptySet
    <2> QED
      BY <1>2, <1>7, <2>1, <2>2, <2>3
  <1> QED
    BY <1>8, <1>9

\* A set has as many elements as its image under a mapping that keeps them apart.
LEMMA ImageIsAsLarge ==
  ASSUME NEW S, IsFiniteSet(S), NEW h, \A x, y \in S : h[x] = h[y] => x = y
  PROVE  IsFiniteSet({h[x] : x \in S}) /\ Cardinality({h[x] : x \in S}) = Cardinality(S)
  <1> DEFINE T == {h[x] : x \in S}
             f == [x \in S |-> h[x]]
  <1>1. f \in Bijection(S, T)
    BY DEF Bijection, Injection, Surjection, IsInjective
  <1>2. ExistsBijection(S, T)
    BY <1>1 DEF ExistsBijection
  <1> HIDE DEF T
  <1>3. IsFiniteSet(T) /\ Cardinality(T) = Cardinality(S)
    BY <1>2, FS_Bijection
  <1> QED
    BY <1>3 DEF T

\* h takes S to T one to one, and what g makes of an image is k less what f makes of the element.
Reverses(h, S, T, f, g, k) ==
  /\ k \in Int /\ T = {h[y] : y \in S}
  /\ \A y, z \in S : h[y] = h[z] => y = z
  /\ \A y \in S : f[y] \in Int /\ g[h[y]] = k - f[y]

\* In the mirror the ranks run from the other end.
LEMMA RanksAreMirrored ==
  ASSUME NEW S, IsFiniteSet(S), NEW T, NEW h, NEW f, NEW g, NEW k, Reverses(h, S, T, f, g, k), NEW x \in S
  PROVE  Rank(g, h[x], T) = 2 * Cardinality(S) - Rank(f, x, S)
  <1> DEFINE less == {y \in S : f[y] < f[x]}
             equal == {y \in S : f[y] = f[x]}
             more == {y \in S : f[x] < f[y]}
  <1>1. less \in SUBSET S /\ equal \in SUBSET S /\ more \in SUBSET S
    OBVIOUS
  <1>0. /\ k \in Int /\ T = {h[y] : y \in S} /\ \A y, z \in S : h[y] = h[z] => y = z
        /\ \A y \in S : f[y] \in Int /\ g[h[y]] = k - f[y]
    BY DEF Reverses
  <1>2. \A y \in S : /\ (g[h[y]] < g[h[x]]) <=> (f[x] < f[y])
                     /\ (g[h[y]] = g[h[x]]) <=> (f[y] = f[x])
    BY <1>0
  <1>3. {q \in T : g[q] < g[h[x]]} = {h[y] : y \in more} /\ {q \in T : g[q] = g[h[x]]} = {h[y] : y \in equal}
    BY <1>0, <1>2
  <1>4. S = (less \cup equal) \cup more /\ (less \cup equal) \cap more = {} /\ less \cap equal = {}
    BY <1>0
  <1>5. Rank(g, h[x], T) = 2 * Cardinality({h[y] : y \in more}) + Cardinality({h[y] : y \in equal})
    BY <1>3 DEF Rank
  <1>6. Rank(f, x, S) = 2 * Cardinality(less) + Cardinality(equal)
    BY DEF Rank
  <1> HIDE DEF less, equal, more
  <1>7. IsFiniteSet(less) /\ IsFiniteSet(equal) /\ IsFiniteSet(more) /\ IsFiniteSet(less \cup equal)
    BY <1>1, FS_Subset, FS_Union
  <1>8. \A U \in SUBSET S : IsFiniteSet(U) => Cardinality({h[y] : y \in U}) = Cardinality(U)
    BY <1>0, ImageIsAsLarge
  <1>9. Cardinality({h[y] : y \in more}) = Cardinality(more) /\ Cardinality({h[y] : y \in equal}) = Cardinality(equal)
    BY <1>1, <1>7, <1>8
  <1>10. Cardinality({}) = 0
    BY FS_EmptySet
  <1>11. Cardinality(less \cup equal) = Cardinality(less) + Cardinality(equal) - Cardinality({})
    BY <1>4, <1>7, FS_Union
  <1>12. Cardinality(S) = Cardinality(less \cup equal) + Cardinality(more) - Cardinality({})
    BY <1>4, <1>7, FS_Union
  <1>13. Cardinality(less) \in Nat /\ Cardinality(equal) \in Nat /\ Cardinality(more) \in Nat
    BY <1>7, FS_CardinalityType
  <1>14. Rank(g, h[x], T) = 2 * Cardinality(S) - Rank(f, x, S)
    BY <1>5, <1>6, <1>9, <1>10, <1>11, <1>12, <1>13
  <1> QED
    BY <1>14

\* Addends that complement each other do so in the sum.
LEMMA SumsComplement ==
  ASSUME NEW S, IsFiniteSet(S), NEW f, NEW g, NEW e,
         \A x \in S : f[x] \in Int /\ g[x] \in Int /\ e[x] = f[x] + g[x]
  PROVE  SumFunctionOnSet(e, S) = SumFunctionOnSet(f, S) + SumFunctionOnSet(g, S)
  <1> DEFINE bad == {T \in SUBSET S : SumFunctionOnSet(e, T) # SumFunctionOnSet(f, T) + SumFunctionOnSet(g, T)}
  <1> SUFFICES ASSUME bad # {} PROVE FALSE
    OBVIOUS
  <1>1. PICK T \in bad : \A U \in bad : U \subseteq T => U = T
    <2>1. bad \in SUBSET SUBSET S
      OBVIOUS
    <2> HIDE DEF bad
    <2> QED
      BY <2>1, SmallestSubset
  <1>2. T \subseteq S /\ IsFiniteSet(T)
    BY FS_Subset
  <1>3. T # {}
    <2>1. SumFunctionOnSet(e, {}) = 0 /\ SumFunctionOnSet(f, {}) = 0 /\ SumFunctionOnSet(g, {}) = 0
      BY SumOfNothing
    <2>2. SumFunctionOnSet(e, T) # SumFunctionOnSet(f, T) + SumFunctionOnSet(g, T)
      BY <1>1
    <2> HIDE DEF bad
    <2>3. ASSUME T = {} PROVE FALSE
      BY <2>1, <2>2, <2>3
    <2> QED
      BY <2>3
  <1>4. PICK x \in T : TRUE
    BY <1>3
  <1> DEFINE R == T \ {x}
  <1>5. R \in SUBSET S /\ R # T /\ R \subseteq T /\ IsFiniteSet(R)
    BY <1>2, <1>4, FS_Subset
  <1>6. SumFunctionOnSet(e, R) = SumFunctionOnSet(f, R) + SumFunctionOnSet(g, R)
    BY <1>1, <1>5
  <1>7. \A y \in T : f[y] \in Int /\ g[y] \in Int /\ e[y] \in Int
    BY <1>2
  <1>8. /\ SumFunctionOnSet(e, T) = e[x] + SumFunctionOnSet(e, R)
        /\ SumFunctionOnSet(f, T) = f[x] + SumFunctionOnSet(f, R)
        /\ SumFunctionOnSet(g, T) = g[x] + SumFunctionOnSet(g, R)
    BY <1>2, <1>4, <1>7, SumWithout
  <1>9. SumFunctionOnSet(f, R) \in Int /\ SumFunctionOnSet(g, R) \in Int
    BY <1>5, <1>7, SumIsInteger
  <1>10. e[x] = f[x] + g[x] /\ f[x] \in Int /\ g[x] \in Int
    BY <1>2, <1>4
  <1>11. SumFunctionOnSet(e, T) = SumFunctionOnSet(f, T) + SumFunctionOnSet(g, T)
    BY <1>6, <1>8, <1>9, <1>10
  <1> QED
    BY <1>1, <1>11

-----------------------------------------------------------------------------
(* The cards of a cross-section. *)

\* Observations of different tokens, with the data that the models of the features let in.
CrossSection(T) ==
  /\ IsFiniteSet(T)
  /\ \A o, p \in T : o # p => o.token # p.token
  /\ \A o \in T :
       /\ {"token", "at", "universe", "stock", "sector", "market", "trend", "quality"} \subseteq DOMAIN o
       /\ o.stock \in [1 .. 3 -> Int] /\ {o.sector, o.market} \subseteq Int
       /\ o.trend \in [1 .. 3 -> {-1, 0, 1}]
       /\ o.quality # Absent => o.quality \in Int

CardsOf(T) == {CardOf(o, T) : o \in T}

\* Cards of different tokens, whose strengths compare.
CardsCompare(K) ==
  /\ IsFiniteSet(K)
  /\ \A c, d \in K : c # d => c.token # d.token
  /\ \A c \in K : c.strength \in Int

\* The rank of an observation by one of the returns.
RankOf(o, T, i) == Rank([p \in T |-> ReturnsOf(p)[i]], o, T)
RanksOfCard(o, T) == SumFunctionOnSet([i \in 1 .. 5 |-> MomentumRules.weights[i] * RankOf(o, T, i)], 1 .. 5)
TrendOf(o) == SumFunctionOnSet([i \in 1 .. 3 |-> o.trend[i] + 1], 1 .. 3)
SumOfWeights == SumFunctionOnSet(MomentumRules.weights, 1 .. 5)
QualityOf(o, n) == IF o.quality = Absent THEN 0 ELSE MomentumRules.qualityWeight * o.quality * n

\* A card by its sums.
LEMMA CardInSums ==
  ASSUME NEW T, NEW o, DOMAIN o.trend = 1 .. 3
  PROVE  LET n == Cardinality(T)
             directional == 6 * RanksOfCard(o, T) + 2 * n * MomentumRules.trendWeight * TrendOf(o)
             weights == SumOfWeights + MomentumRules.trendWeight
         IN CardOf(o, T) =
              [token |-> o.token, strength |-> directional,
               score |-> [LONG |-> directional + QualityOf(o, n),
                          SHORT |-> 12 * n * weights - directional + QualityOf(o, n)],
               confirmed |-> {side \in {"LONG", "SHORT"} :
                                \A i \in 1 .. 3 : o.trend[i] = (IF side = "LONG" THEN 1 ELSE -1)},
               liquid |-> o.quality # Absent]
  <1>1. DOMAIN MomentumRules.weights = 1 .. 5
    BY TailsAreApart
  <1>2. SumFunction([i \in DOMAIN o.trend |-> o.trend[i] + 1]) = TrendOf(o)
    BY DEF SumFunction, TrendOf
  <1>3. SumFunction([i \in 1 .. 5 |-> MomentumRules.weights[i] * Rank([p \in T |-> ReturnsOf(p)[i]], o, T)])
          = RanksOfCard(o, T)
    BY DEF SumFunction, RanksOfCard, RankOf
  <1>4. SumFunction(MomentumRules.weights) = SumOfWeights
    BY <1>1 DEF SumFunction, SumOfWeights
  <1> QED
    BY <1>2, <1>3, <1>4 DEF CardOf, QualityOf

\* The sums of a card are numbers.
LEMMA SumsOfCards ==
  ASSUME NEW T, CrossSection(T), NEW o \in T
  PROVE  /\ Cardinality(T) \in Nat /\ RanksOfCard(o, T) \in Int /\ TrendOf(o) \in Int /\ SumOfWeights \in Int
         /\ QualityOf(o, Cardinality(T)) \in Int
         /\ \A i \in 1 .. 5 : RankOf(o, T, i) \in Int
  <1>1. IsFiniteSet(T) /\ o.trend \in [1 .. 3 -> {-1, 0, 1}] /\ (o.quality # Absent => o.quality \in Int)
    BY DEF CrossSection
  <1>2. Cardinality(T) \in Nat
    BY <1>1, FS_CardinalityType
  <1>3. \A i \in 1 .. 5 : RankOf(o, T, i) \in Int
    <2> TAKE i \in 1 .. 5
    <2> DEFINE value == [p \in T |-> ReturnsOf(p)[i]]
               less == {k \in T : value[k] < value[o]}
               equal == {k \in T : value[k] = value[o]}
    <2>1. RankOf(o, T, i) = 2 * Cardinality(less) + Cardinality(equal)
      BY DEF RankOf, Rank
    <2>2. less \in SUBSET T /\ equal \in SUBSET T
      OBVIOUS
    <2> HIDE DEF less, equal
    <2>3. Cardinality(less) \in Nat /\ Cardinality(equal) \in Nat
      BY <1>1, <2>2, FS_Subset, FS_CardinalityType
    <2> QED
      BY <2>1, <2>3
  <1>4. IsFiniteSet(1 .. 5) /\ IsFiniteSet(1 .. 3)
    <2>1. \A n \in Int : IsFiniteSet(1 .. n)
      BY FS_Interval
    <2>2. 5 \in Int /\ 3 \in Int
      OBVIOUS
    <2> QED
      BY ONLY <2>1, <2>2, Zenon
  <1>5. MomentumRules.weights \in [1 .. 5 -> Nat] /\ MomentumRules.qualityWeight \in Nat
    BY TailsAreApart
  <1>6. RanksOfCard(o, T) \in Int
    <2> DEFINE f == [i \in 1 .. 5 |-> MomentumRules.weights[i] * RankOf(o, T, i)]
    <2>1. \A i \in 1 .. 5 : f[i] \in Int
      BY <1>3, <1>5
    <2>2. RanksOfCard(o, T) = SumFunctionOnSet(f, 1 .. 5)
      BY DEF RanksOfCard
    <2> HIDE DEF f
    <2> QED
      BY <1>4, <2>1, <2>2, SumIsInteger
  <1>7. TrendOf(o) \in Int
    <2> DEFINE f == [i \in 1 .. 3 |-> o.trend[i] + 1]
    <2>1. \A i \in 1 .. 3 : f[i] \in Int
      BY <1>1
    <2>2. TrendOf(o) = SumFunctionOnSet(f, 1 .. 3)
      BY DEF TrendOf
    <2> HIDE DEF f
    <2> QED
      BY <1>4, <2>1, <2>2, SumIsInteger
  <1>8. SumOfWeights \in Int
    <2>1. \A i \in 1 .. 5 : MomentumRules.weights[i] \in Int
      BY <1>5
    <2> QED
      BY <1>4, <2>1, SumIsInteger DEF SumOfWeights
  <1>9. QualityOf(o, Cardinality(T)) \in Int
    BY <1>1, <1>2, <1>5 DEF QualityOf
  <1> QED
    BY <1>2, <1>3, <1>6, <1>7, <1>8, <1>9

\* Every token has one card, with a number for its strength.
LEMMA CardsAreCompared ==
  ASSUME NEW T, CrossSection(T)
  PROVE  CardsCompare(CardsOf(T)) /\ \A o \in T : CardOf(o, T).token = o.token
  <1>1. \A o \in T : DOMAIN o.trend = 1 .. 3
    BY DEF CrossSection
  <1>2. MomentumRules.trendWeight \in Nat
    BY TailsAreApart
  <1>3. \A o \in T : CardOf(o, T).token = o.token /\ CardOf(o, T).strength \in Int
    <2> TAKE o \in T
    <2>1. /\ CardOf(o, T).token = o.token
          /\ CardOf(o, T).strength = 6 * RanksOfCard(o, T) + 2 * Cardinality(T) * MomentumRules.trendWeight * TrendOf(o)
      BY <1>1, CardInSums
    <2>2. RanksOfCard(o, T) \in Int /\ TrendOf(o) \in Int /\ Cardinality(T) \in Nat
      BY SumsOfCards
    <2> QED
      BY <1>2, <2>1, <2>2
  <1> DEFINE f == [o \in T |-> CardOf(o, T)]
  <1>4. CardsOf(T) = {f[o] : o \in T} /\ f \in [T -> CardsOf(T)] /\ IsFiniteSet(T)
    BY DEF CardsOf, CrossSection
  <1>5. IsFiniteSet(CardsOf(T))
    <2> HIDE DEF f
    <2> QED
      BY <1>4, FiniteImage
  <1>6. \A c, d \in CardsOf(T) : c # d => c.token # d.token
    BY <1>3 DEF CardsOf, CrossSection
  <1> QED
    BY <1>3, <1>5, <1>6 DEF CardsCompare, CardsOf

-----------------------------------------------------------------------------
(* The tail. *)

AsExtreme(side, d, c) == IF side = "LONG" THEN d.strength >= c.strength ELSE d.strength <= c.strength
TailCards(K, side) == {d \in K : InTail(d, K, side)}
FractionOf(side) == IF side = "LONG" THEN MomentumRules.longTail ELSE MomentumRules.shortTail
Beyond(K, side, c) == {e \in K : AsExtreme(side, e, c)}
CapOf(K, side) == Min({MomentumRules.maxPerSide, (Cardinality(K) * FractionOf(side)) \div TailUnit})
Tradable(c, side, master, universe) ==
  /\ c.liquid /\ side \in c.confirmed
  /\ side = "SHORT" => ShortPermitted(c.token, master, universe)

\* What is picked, in these words.
LEMMA PickedInWords ==
  ASSUME NEW K, NEW side, NEW master, NEW universe
  PROVE  Picked(K, side, master, universe) =
           {c \in TailCards(K, side) :
              /\ Cardinality({d \in TailCards(K, side) : AsExtreme(side, d, c)}) <= CapOf(K, side)
              /\ Tradable(c, side, master, universe)}
  BY DEF Picked, WithinCap, TailCards, AsExtreme, CapOf, FractionOf, Tradable

\* The rank of a card in the tail's terms.
LEMMA TailByRank ==
  ASSUME NEW K, CardsCompare(K), NEW c \in K
  PROVE  LET rank == Rank([e \in K |-> e.strength], c, K)
         IN /\ rank \in Int /\ Cardinality(K) \in Nat
            /\ InTail(c, K, "LONG") <=> rank * TailUnit >= 2 * Cardinality(K) * (TailUnit - MomentumRules.longTail)
            /\ InTail(c, K, "SHORT") <=> rank * TailUnit <= 2 * Cardinality(K) * MomentumRules.shortTail
            /\ \A d \in K :
                 d.strength >= c.strength => Rank([e \in K |-> e.strength], d, K) >= rank
  <1> DEFINE value == [e \in K |-> e.strength]
             rank(d) == Rank(value, d, K)
  <1>1. IsFiniteSet(K) /\ \A e \in K : value[e] = e.strength /\ value[e] \in Int
    BY DEF CardsCompare
  <1>2. /\ InTail(c, K, "LONG") <=> rank(c) * TailUnit >= 2 * Cardinality(K) * (TailUnit - MomentumRules.longTail)
        /\ InTail(c, K, "SHORT") <=> rank(c) * TailUnit <= 2 * Cardinality(K) * MomentumRules.shortTail
    BY DEF InTail
  <1> HIDE DEF value
  <1>3. \A d \in K : rank(d) \in 0 .. 2 * Cardinality(K) /\ Cardinality(K) \in Nat
    BY <1>1, RanksAreBounded
  <1>4. \A d \in K : d.strength >= c.strength => rank(c) <= rank(d)
    <2> SUFFICES ASSUME NEW d \in K, d.strength >= c.strength PROVE rank(c) <= rank(d)
      OBVIOUS
    <2>1. value[c] <= value[d]
      BY <1>1
    <2> QED
      BY <1>1, <2>1, RanksAreMonotone
  <1>5. \A d \in K : rank(d) \in Int
    BY <1>3
  <1>6. \A d \in K : d.strength >= c.strength => rank(d) >= rank(c)
    BY <1>4, <1>5
  <1> QED
    BY <1>2, <1>3, <1>5, <1>6 DEF value

\* A larger factor makes a larger product.
LEMMA ProductsGrow ==
  ASSUME NEW x \in Int, NEW y \in Int, x <= y, NEW u \in Nat
  PROVE  x * u <= y * u
  <1>1. y - x \in Nat /\ (y - x) * u \in Nat
    OBVIOUS
  <1>2. (y - x) * u = y * u - x * u /\ x * u \in Int /\ y * u \in Int
    OBVIOUS
  <1> QED
    BY <1>1, <1>2

\* Who is at least as extreme as one of the tail is in the tail.
LEMMA TailsReachOut ==
  ASSUME NEW K, CardsCompare(K), NEW side \in {"LONG", "SHORT"}, NEW c \in TailCards(K, side)
  PROVE  \A d \in K : AsExtreme(side, d, c) => d \in TailCards(K, side)
  <1> SUFFICES ASSUME NEW d \in K, AsExtreme(side, d, c) PROVE InTail(d, K, side)
    BY DEF TailCards
  <1>1. c \in K /\ InTail(c, K, side)
    BY DEF TailCards
  <1> DEFINE rank(e) == Rank([z \in K |-> z.strength], e, K)
             top == 2 * Cardinality(K) * (TailUnit - MomentumRules.longTail)
             bottom == 2 * Cardinality(K) * MomentumRules.shortTail
  <1>2. \A e \in K : /\ rank(e) \in Int /\ Cardinality(K) \in Nat
                     /\ InTail(e, K, "LONG") <=> rank(e) * TailUnit >= top
                     /\ InTail(e, K, "SHORT") <=> rank(e) * TailUnit <= bottom
                     /\ \A z \in K : z.strength >= e.strength => rank(z) >= rank(e)
    BY TailByRank
  <1>3. TailUnit \in Nat /\ MomentumRules.longTail \in Nat /\ MomentumRules.shortTail \in Nat
    BY TailsAreApart
  <1>4. top \in Int /\ bottom \in Int
    <2>1. Cardinality(K) \in Nat /\ TailUnit - MomentumRules.longTail \in Int
      BY <1>3, FS_CardinalityType DEF CardsCompare
    <2> DEFINE n == Cardinality(K)
               a == TailUnit - MomentumRules.longTail
               b == MomentumRules.shortTail
    <2>2. n \in Int /\ a \in Int /\ b \in Int
      BY <1>3, <2>1
    <2> HIDE DEF n, a, b
    <2>3. 2 * n * a \in Int /\ 2 * n * b \in Int
      BY <2>2
    <2> QED
      BY <2>3 DEF n, a, b
  <1>5. c.strength \in Int /\ d.strength \in Int
    BY <1>1 DEF CardsCompare
  <1> HIDE DEF rank, top, bottom
  <1>6. \A x, y \in Int : x <= y => x * TailUnit <= y * TailUnit
    BY <1>3, ProductsGrow
  <1>7. CASE side = "LONG"
    <2>1. rank(c) <= rank(d) /\ rank(c) \in Int /\ rank(d) \in Int
      BY <1>1, <1>2, <1>5, <1>7 DEF AsExtreme
    <2>2. rank(c) * TailUnit <= rank(d) * TailUnit
      BY <1>6, <2>1
    <2>3. rank(c) * TailUnit \in Int /\ rank(d) * TailUnit \in Int
      BY <1>3, <2>1
    <2>4. rank(c) * TailUnit >= top
      BY <1>1, <1>2, <1>7
    <2>5. rank(d) * TailUnit >= top
      BY <1>4, <2>2, <2>3, <2>4
    <2> QED
      BY <1>2, <1>7, <2>5
  <1>8. CASE side = "SHORT"
    <2>1. rank(d) <= rank(c) /\ rank(c) \in Int /\ rank(d) \in Int
      BY <1>1, <1>2, <1>5, <1>8 DEF AsExtreme
    <2>2. rank(d) * TailUnit <= rank(c) * TailUnit
      BY <1>6, <2>1
    <2>3. rank(c) * TailUnit \in Int /\ rank(d) * TailUnit \in Int
      BY <1>3, <2>1
    <2>4. rank(c) * TailUnit <= bottom
      BY <1>1, <1>2, <1>8
    <2>5. rank(d) * TailUnit <= bottom
      BY <1>4, <2>2, <2>3, <2>4
    <2> QED
      BY <1>2, <1>8, <2>5
  <1> QED
    BY <1>7, <1>8

\* Those at least as extreme as one that is picked are few, and of them the tradable ones are
\* picked too.
LEMMA PickedFairly ==
  ASSUME NEW K, CardsCompare(K), NEW side \in {"LONG", "SHORT"}, NEW master, NEW universe,
         NEW c \in Picked(K, side, master, universe)
  PROVE  /\ c \in K
         /\ Cardinality(Beyond(K, side, c)) <= MomentumRules.maxPerSide
         /\ \A d \in K : Tradable(d, side, master, universe) /\ AsExtreme(side, d, c)
                           => d \in Picked(K, side, master, universe)
  <1> DEFINE T == TailCards(K, side)
             beyond(x) == {e \in T : AsExtreme(side, e, x)}
             cap == CapOf(K, side)
  <1>1. Picked(K, side, master, universe) =
          {x \in T : Cardinality(beyond(x)) <= cap /\ Tradable(x, side, master, universe)}
    BY PickedInWords
  <1>2. c \in T /\ c \in K /\ Cardinality(beyond(c)) <= cap
    BY <1>1 DEF TailCards
  <1>3. \A d \in K : AsExtreme(side, d, c) => d \in T
    BY <1>2, TailsReachOut
  <1>4. {e \in K : AsExtreme(side, e, c)} = beyond(c)
    BY <1>3 DEF TailCards
  <1>5. IsFiniteSet(K) /\ \A e \in K : e.strength \in Int
    BY DEF CardsCompare
  <1>6. T \subseteq K
    BY DEF TailCards
  <1>7. \A d \in T : AsExtreme(side, d, c) => beyond(d) \subseteq beyond(c)
    <2> SUFFICES ASSUME NEW d \in T, AsExtreme(side, d, c), NEW e \in T, AsExtreme(side, e, d)
                 PROVE  AsExtreme(side, e, c)
      OBVIOUS
    <2>1. c.strength \in Int /\ d.strength \in Int /\ e.strength \in Int
      BY <1>2, <1>5, <1>6
    <2> QED
      BY <2>1 DEF AsExtreme
  <1>8. cap \in Int /\ cap <= MomentumRules.maxPerSide
    <2>1. Cardinality(K) \in Nat
      BY <1>5, FS_CardinalityType
    <2>2. MomentumRules.maxPerSide \in Nat /\ FractionOf(side) \in Nat /\ TailUnit \in Nat \ {0}
      BY TailsAreApart DEF FractionOf
    <2>3. Cardinality(K) * FractionOf(side) \in Int
      BY <2>1, <2>2
    <2> DEFINE n == Cardinality(K) * FractionOf(side)
    <2>4. n \div TailUnit \in Int
      <3> HIDE DEF n
      <3>1. \A k \in Int, d \in Nat \ {0} : k \div d \in Int
        OBVIOUS
      <3>2. n \in Int
        BY <2>3 DEF n
      <3> QED
        BY <2>2, <3>1, <3>2
    <2>5. MomentumRules.maxPerSide \in Int
      BY <2>2
    <2> QED
      BY <2>4, <2>5, MinOfTwo DEF CapOf
  <1>9. \A x : IsFiniteSet(beyond(x)) /\ Cardinality(beyond(x)) \in Nat
    <2> SUFFICES ASSUME NEW x PROVE IsFiniteSet(beyond(x)) /\ Cardinality(beyond(x)) \in Nat
      OBVIOUS
    <2>1. beyond(x) \in SUBSET K
      BY <1>6
    <2> HIDE DEF beyond
    <2> QED
      BY <1>5, <2>1, FS_Subset, FS_CardinalityType
  <1>10. MomentumRules.maxPerSide \in Nat
    BY TailsAreApart
  <1>11. Cardinality(beyond(c)) <= MomentumRules.maxPerSide
    <2> HIDE DEF beyond, cap
    <2> QED
      BY <1>2, <1>8, <1>9, <1>10
  <1>12. \A d \in T : AsExtreme(side, d, c) => Cardinality(beyond(d)) <= cap
    <2> SUFFICES ASSUME NEW d \in T, AsExtreme(side, d, c) PROVE Cardinality(beyond(d)) <= cap
      OBVIOUS
    <2>1. beyond(d) \subseteq beyond(c)
      BY <1>7
    <2> HIDE DEF beyond, cap
    <2>2. Cardinality(beyond(d)) <= Cardinality(beyond(c))
      BY <1>9, <2>1, FS_Subset
    <2> QED
      BY <1>2, <1>8, <1>9, <2>2
  <1>13. \A d \in K : Tradable(d, side, master, universe) /\ AsExtreme(side, d, c)
                        => d \in Picked(K, side, master, universe)
    <2> HIDE DEF T, beyond, cap
    <2> QED
      BY <1>1, <1>3, <1>12
  <1>14. Cardinality(Beyond(K, side, c)) <= MomentumRules.maxPerSide
    BY <1>4, <1>11 DEF Beyond
  <1> QED
    BY <1>2, <1>13, <1>14

-----------------------------------------------------------------------------
(* The mirror. *)

MirrorSection(T) == {MirrorOf(o) : o \in T}
WholeOf(n) == 12 * n * (SumOfWeights + MomentumRules.trendWeight)
OtherSide(side) == IF side = "LONG" THEN "SHORT" ELSE "LONG"
MirrorCard(c, n) ==
  [token |-> c.token, strength |-> WholeOf(n) - c.strength,
   score |-> [LONG |-> c.score["SHORT"], SHORT |-> c.score["LONG"]],
   confirmed |-> {side \in {"LONG", "SHORT"} : OtherSide(side) \in c.confirmed},
   liquid |-> c.liquid]

\* The whole of a score is a number.
LEMMA WholeIsNumber ==
  ASSUME NEW n \in Nat
  PROVE  WholeOf(n) \in Int /\ SumOfWeights \in Int /\ MomentumRules.trendWeight \in Nat
  <1>1. \A i \in 1 .. 5 : MomentumRules.weights[i] \in Int
    BY TailsAreApart
  <1>2. IsFiniteSet(1 .. 5)
    <2>1. \A k \in Int : IsFiniteSet(1 .. k)
      BY FS_Interval
    <2>2. 5 \in Int
      OBVIOUS
    <2> QED
      BY ONLY <2>1, <2>2, Zenon
  <1>3. SumOfWeights \in Int
    BY <1>1, <1>2, SumIsInteger DEF SumOfWeights
  <1>4. MomentumRules.trendWeight \in Nat
    BY TailsAreApart
  <1>5. SumOfWeights + MomentumRules.trendWeight \in Int
    BY <1>3, <1>4
  <1> QED
    BY <1>3, <1>4, <1>5 DEF WholeOf

\* Without the recent return taken out, the returns are the five as they come.
LEMMA ReturnsAsTheyCome ==
  ASSUME ~MomentumRules.excludeRecent, NEW o, o.stock \in [1 .. 3 -> Int], o.sector \in Int, o.market \in Int
  PROVE  \A i \in 1 .. 5 :
           ReturnsOf(o)[i] = IF i <= 3 THEN o.stock[i]
                             ELSE IF i = 4 THEN o.stock[1] - o.sector ELSE o.stock[1] - o.market
  <1> DEFINE stock == [j \in 1 .. 3 |-> o.stock[j]]
             rest == <<stock[1] - o.sector, stock[1] - o.market>>
  <1>1. ReturnsOf(o) = stock \o rest
    BY DEF ReturnsOf
  <1>2. stock \in Seq(Int) /\ Len(stock) = 3 /\ \A j \in 1 .. 3 : stock[j] = o.stock[j]
    OBVIOUS
  <1>3. rest \in Seq(Int) /\ Len(rest) = 2 /\ rest[1] = o.stock[1] - o.sector /\ rest[2] = o.stock[1] - o.market
    BY <1>2
  <1> HIDE DEF stock, rest
  <1>4. \A i \in 1 .. Len(stock) + Len(rest) :
          (stock \o rest)[i] = IF i <= Len(stock) THEN stock[i] ELSE rest[i - Len(stock)]
    BY <1>2, <1>3, ConcatProperties
  <1>5. \A i \in 1 .. 5 : (stock \o rest)[i] = IF i <= 3 THEN stock[i] ELSE rest[i - 3]
    <2>1. Len(stock) + Len(rest) = 5 /\ Len(stock) = 3
      BY <1>2, <1>3
    <2> QED
      BY ONLY <1>4, <2>1
  <1>6. \A i \in 1 .. 5 : i <= 3 \/ i = 4 \/ i = 5
    OBVIOUS
  <1> SUFFICES ASSUME NEW i \in 1 .. 5
               PROVE  ReturnsOf(o)[i] = IF i <= 3 THEN o.stock[i]
                                        ELSE IF i = 4 THEN o.stock[1] - o.sector ELSE o.stock[1] - o.market
    OBVIOUS
  <1>8. ReturnsOf(o)[i] = IF i <= 3 THEN stock[i] ELSE rest[i - 3]
    <2>1. (stock \o rest)[i] = IF i <= 3 THEN stock[i] ELSE rest[i - 3]
      BY ONLY <1>5, i \in 1 .. 5
    <2> QED
      BY ONLY <1>1, <2>1, Zenon
  <1>9. i <= 3 => i \in 1 .. 3
    OBVIOUS
  <1>10. i <= 3 => stock[i] = o.stock[i]
    BY <1>2, <1>9
  <1>11. CASE i <= 3
    BY <1>8, <1>10, <1>11
  <1>12. CASE i = 4
    <2>1. i - 3 = 1 /\ ~(i <= 3)
      BY <1>12
    <2> QED
      BY <1>3, <1>8, <1>12, <2>1
  <1>13. CASE i = 5
    <2>1. i - 3 = 2 /\ ~(i <= 3) /\ i # 4
      BY <1>13
    <2> QED
      BY <1>3, <1>8, <2>1
  <1> QED
    BY <1>6, <1>11, <1>12, <1>13

\* The mirrored cross-section is one too, with every return and sign reversed.
LEMMA SectionsMirror ==
  ASSUME NEW T, CrossSection(T), ~MomentumRules.excludeRecent
  PROVE  /\ \A o \in T : /\ MirrorOf(o).token = o.token /\ MirrorOf(o).quality = o.quality
                         /\ MirrorOf(o).trend = [i \in 1 .. 3 |-> -o.trend[i]]
                         /\ \A i \in 1 .. 5 : /\ ReturnsOf(o)[i] \in Int
                                              /\ ReturnsOf(MirrorOf(o))[i] = 0 - ReturnsOf(o)[i]
         /\ \A o, p \in T : MirrorOf(o) = MirrorOf(p) => o = p
         /\ CrossSection(MirrorSection(T))
  <1>1. IsFiniteSet(T) /\ \A o, p \in T : o # p => o.token # p.token
    BY DEF CrossSection
  <1>2. \A o \in T : /\ {"token", "at", "universe", "stock", "sector", "market", "trend", "quality"} \subseteq DOMAIN o
                     /\ o.stock \in [1 .. 3 -> Int] /\ o.sector \in Int /\ o.market \in Int
                     /\ o.trend \in [1 .. 3 -> {-1, 0, 1}]
                     /\ (o.quality # Absent => o.quality \in Int)
    BY DEF CrossSection
  <1>3. \A o \in T : /\ DOMAIN MirrorOf(o) = DOMAIN o
                     /\ MirrorOf(o).token = o.token /\ MirrorOf(o).quality = o.quality
                     /\ MirrorOf(o).stock = [j \in 1 .. 3 |-> -o.stock[j]]
                     /\ MirrorOf(o).sector = -o.sector /\ MirrorOf(o).market = -o.market
                     /\ MirrorOf(o).trend = [i \in 1 .. 3 |-> -o.trend[i]]
    BY <1>2 DEF MirrorOf
  <1>4. \A o \in T : /\ MirrorOf(o).stock \in [1 .. 3 -> Int]
                     /\ MirrorOf(o).sector \in Int /\ MirrorOf(o).market \in Int
                     /\ \A j \in 1 .. 3 : MirrorOf(o).stock[j] = -o.stock[j]
    <2> TAKE o \in T
    <2> DEFINE m == MirrorOf(o)
    <2>1. m.stock = [j \in 1 .. 3 |-> -o.stock[j]] /\ m.sector = -o.sector /\ m.market = -o.market
      BY <1>3
    <2>2. o.stock \in [1 .. 3 -> Int] /\ o.sector \in Int /\ o.market \in Int
      BY <1>2
    <2> HIDE DEF m
    <2>3. m.stock \in [1 .. 3 -> Int] /\ m.sector \in Int /\ m.market \in Int
      BY <2>1, <2>2
    <2>4. \A j \in 1 .. 3 : m.stock[j] = -o.stock[j]
      BY <2>1
    <2> QED
      BY <2>3, <2>4 DEF m
  <1>5. \A o \in T : MirrorOf(o).trend \in [1 .. 3 -> {-1, 0, 1}]
    <2> SUFFICES ASSUME NEW o \in T PROVE [i \in 1 .. 3 |-> -o.trend[i]] \in [1 .. 3 -> {-1, 0, 1}]
      BY <1>3
    <2>1. \A i \in 1 .. 3 : -o.trend[i] \in {-1, 0, 1}
      BY <1>2
    <2> QED
      BY <2>1
  <1>6. \A o \in T : \A i \in 1 .. 5 : /\ ReturnsOf(o)[i] \in Int
                                       /\ ReturnsOf(MirrorOf(o))[i] = 0 - ReturnsOf(o)[i]
    <2> SUFFICES ASSUME NEW o \in T, NEW i \in 1 .. 5
                 PROVE  ReturnsOf(o)[i] \in Int /\ ReturnsOf(MirrorOf(o))[i] = 0 - ReturnsOf(o)[i]
      OBVIOUS
    <2> DEFINE m == MirrorOf(o)
    <2>1. ReturnsOf(o)[i] = IF i <= 3 THEN o.stock[i]
                            ELSE IF i = 4 THEN o.stock[1] - o.sector ELSE o.stock[1] - o.market
      BY <1>2, ReturnsAsTheyCome
    <2>2. m.stock \in [1 .. 3 -> Int] /\ m.sector \in Int /\ m.market \in Int
      BY <1>4
    <2>3. m.sector = -o.sector /\ m.market = -o.market /\ \A j \in 1 .. 3 : m.stock[j] = -o.stock[j]
      BY <1>3, <1>4
    <2> HIDE DEF m
    <2>4. ReturnsOf(m)[i] = IF i <= 3 THEN m.stock[i]
                            ELSE IF i = 4 THEN m.stock[1] - m.sector ELSE m.stock[1] - m.market
      BY <2>2, ReturnsAsTheyCome
    <2>5. /\ o.sector \in Int /\ o.market \in Int /\ o.stock[1] \in Int
          /\ m.stock[1] = -o.stock[1] /\ (i <= 3 => o.stock[i] \in Int /\ m.stock[i] = -o.stock[i])
      BY <1>2, <2>3
    <2>6. ReturnsOf(o)[i] \in Int /\ ReturnsOf(m)[i] = 0 - ReturnsOf(o)[i]
      BY <2>1, <2>3, <2>4, <2>5
    <2> QED
      BY <2>6 DEF m
  <1>7. \A o, p \in T : MirrorOf(o) = MirrorOf(p) => o = p
    <2> SUFFICES ASSUME NEW o \in T, NEW p \in T, MirrorOf(o) = MirrorOf(p) PROVE o = p
      OBVIOUS
    <2>1. MirrorOf(o).token = o.token /\ MirrorOf(p).token = p.token
      BY <1>3
    <2>2. o.token = p.token
      BY <2>1
    <2> QED
      BY <1>1, <2>2
  <1> DEFINE h == [o \in T |-> MirrorOf(o)]
  <1>8. IsFiniteSet(MirrorSection(T))
    <2>1. h \in [T -> MirrorSection(T)] /\ MirrorSection(T) = {h[o] : o \in T}
      BY DEF MirrorSection
    <2> HIDE DEF h
    <2> QED
      BY <1>1, <2>1, FiniteImage
  <1>9. \A m \in MirrorSection(T) :
          /\ {"token", "at", "universe", "stock", "sector", "market", "trend", "quality"} \subseteq DOMAIN m
          /\ m.stock \in [1 .. 3 -> Int] /\ {m.sector, m.market} \subseteq Int
          /\ m.trend \in [1 .. 3 -> {-1, 0, 1}]
          /\ (m.quality # Absent => m.quality \in Int)
    <2> SUFFICES ASSUME NEW o \in T
                 PROVE  LET m == MirrorOf(o)
                        IN /\ {"token", "at", "universe", "stock", "sector", "market", "trend", "quality"}
                                \subseteq DOMAIN m
                           /\ m.stock \in [1 .. 3 -> Int] /\ {m.sector, m.market} \subseteq Int
                           /\ m.trend \in [1 .. 3 -> {-1, 0, 1}]
                           /\ (m.quality # Absent => m.quality \in Int)
      BY DEF MirrorSection
    <2>1. DOMAIN MirrorOf(o) = DOMAIN o /\ MirrorOf(o).quality = o.quality
      BY <1>3
    <2>2. /\ {"token", "at", "universe", "stock", "sector", "market", "trend", "quality"} \subseteq DOMAIN o
          /\ (o.quality # Absent => o.quality \in Int)
      BY <1>2
    <2>3. MirrorOf(o).stock \in [1 .. 3 -> Int] /\ MirrorOf(o).sector \in Int /\ MirrorOf(o).market \in Int
      BY <1>4
    <2>4. MirrorOf(o).trend \in [1 .. 3 -> {-1, 0, 1}]
      BY <1>5
    <2> QED
      BY <2>1, <2>2, <2>3, <2>4
  <1>10. \A m, q \in MirrorSection(T) : m # q => m.token # q.token
    <2> SUFFICES ASSUME NEW o \in T, NEW p \in T, MirrorOf(o) # MirrorOf(p)
                 PROVE  MirrorOf(o).token # MirrorOf(p).token
      BY DEF MirrorSection
    <2>1. MirrorOf(o).token = o.token /\ MirrorOf(p).token = p.token /\ o # p
      BY <1>3
    <2> QED
      BY <1>1, <2>1
  <1>11. CrossSection(MirrorSection(T))
    BY <1>8, <1>9, <1>10 DEF CrossSection
  <1>12. \A o \in T : /\ MirrorOf(o).token = o.token /\ MirrorOf(o).quality = o.quality
                      /\ MirrorOf(o).trend = [i \in 1 .. 3 |-> -o.trend[i]]
    BY <1>3
  <1> QED
    BY <1>6, <1>7, <1>11, <1>12

\* The products of the weights with the ranks and with what these lack of twice the population.
LEMMA RanksOfMirror ==
  ASSUME NEW T, CrossSection(T), ~MomentumRules.excludeRecent, NEW o \in T
  PROVE  /\ RanksOfCard(MirrorOf(o), MirrorSection(T)) = 2 * Cardinality(T) * SumOfWeights - RanksOfCard(o, T)
         /\ Cardinality(MirrorSection(T)) = Cardinality(T)
  <1> DEFINE M == MirrorSection(T)
             n == Cardinality(T)
             w == MomentumRules.weights
             h == [p \in T |-> MirrorOf(p)]
  <1>1. IsFiniteSet(T) /\ n \in Nat
    BY FS_CardinalityType DEF CrossSection
  <1>2. \A p, q \in T : MirrorOf(p) = MirrorOf(q) => p = q
    BY SectionsMirror
  <1>3. \A p, q \in T : h[p] = h[q] => p = q
    BY <1>2
  <1>4. M = {h[p] : p \in T} /\ h[o] = MirrorOf(o)
    BY DEF MirrorSection
  <1>5. Cardinality(M) = n
    <2> HIDE DEF h
    <2> QED
      BY <1>1, <1>3, <1>4, ImageIsAsLarge
  <1>6. \A i \in 1 .. 5 : RankOf(MirrorOf(o), M, i) = 2 * n - RankOf(o, T, i)
    <2> SUFFICES ASSUME NEW i \in 1 .. 5 PROVE RankOf(MirrorOf(o), M, i) = 2 * n - RankOf(o, T, i)
      OBVIOUS
    <2> DEFINE f == [p \in T |-> ReturnsOf(p)[i]]
               g == [p \in M |-> ReturnsOf(p)[i]]
    <2>1. \A p \in T : f[p] \in Int /\ g[h[p]] = 0 - f[p]
      <3> SUFFICES ASSUME NEW p \in T PROVE f[p] \in Int /\ g[h[p]] = 0 - f[p]
        OBVIOUS
      <3>1. ReturnsOf(p)[i] \in Int /\ ReturnsOf(MirrorOf(p))[i] = 0 - ReturnsOf(p)[i]
        BY SectionsMirror
      <3>2. MirrorOf(p) \in M /\ h[p] = MirrorOf(p)
        BY DEF MirrorSection
      <3>3. f[p] = ReturnsOf(p)[i] /\ g[h[p]] = ReturnsOf(MirrorOf(p))[i]
        BY <3>2
      <3> QED
        BY <3>1, <3>3
    <2>2. RankOf(MirrorOf(o), M, i) = Rank(g, h[o], M) /\ RankOf(o, T, i) = Rank(f, o, T)
      BY <1>4 DEF RankOf
    <2> HIDE DEF f, g, h, M
    <2>3. 0 \in Int
      OBVIOUS
    <2>5. Reverses(h, T, M, f, g, 0)
      BY <1>3, <1>4, <2>1, <2>3 DEF Reverses
    <2>4. Rank(g, h[o], M) = 2 * Cardinality(T) - Rank(f, o, T)
      BY ONLY <1>1, <2>5, o \in T, RanksAreMirrored
    <2> QED
      BY <2>2, <2>4
  <1> DEFINE own == [i \in 1 .. 5 |-> w[i] * RankOf(o, T, i)]
             other == [i \in 1 .. 5 |-> w[i] * RankOf(MirrorOf(o), M, i)]
             all == [i \in 1 .. 5 |-> 2 * n * w[i]]
  <1>7. \A i \in 1 .. 5 : w[i] \in Int
    BY TailsAreApart
  <1>8. \A i \in 1 .. 5 : RankOf(o, T, i) \in Int
    BY SumsOfCards
  <1>9. \A i \in 1 .. 5 : own[i] \in Int /\ other[i] \in Int /\ all[i] = own[i] + other[i] /\ all[i] = (2 * n) * w[i]
    <2> SUFFICES ASSUME NEW i \in 1 .. 5
                 PROVE  /\ own[i] \in Int /\ other[i] \in Int
                        /\ all[i] = own[i] + other[i] /\ all[i] = (2 * n) * w[i]
      OBVIOUS
    <2> DEFINE a == w[i]
               r == RankOf(o, T, i)
               s == RankOf(MirrorOf(o), M, i)
    <2>1. a \in Int /\ r \in Int /\ s = 2 * n - r
      BY <1>6, <1>7, <1>8
    <2>2. own[i] = a * r /\ other[i] = a * s /\ all[i] = 2 * n * a
      OBVIOUS
    <2> HIDE DEF a, r, s, own, other, all, n
    <2>3. a * s = 2 * n * a - a * r /\ a * r \in Int /\ a * s \in Int /\ 2 * n * a \in Int
      BY <1>1, <2>1
    <2>4. 2 * n * a = (2 * n) * a
      BY <1>1, <2>1
    <2> QED
      BY <2>2, <2>3, <2>4 DEF a
  <1>10. IsFiniteSet(1 .. 5)
    <2>1. \A k \in Int : IsFiniteSet(1 .. k)
      BY FS_Interval
    <2>2. 5 \in Int
      OBVIOUS
    <2> QED
      BY ONLY <2>1, <2>2, Zenon
  <1>11. /\ RanksOfCard(MirrorOf(o), M) = SumFunctionOnSet(other, 1 .. 5)
         /\ RanksOfCard(o, T) = SumFunctionOnSet(own, 1 .. 5)
         /\ SumOfWeights = SumFunctionOnSet(w, 1 .. 5)
    BY DEF RanksOfCard, SumOfWeights
  <1> HIDE DEF own, other, all, w, n, M
  <1>12. SumFunctionOnSet(all, 1 .. 5) = SumFunctionOnSet(own, 1 .. 5) + SumFunctionOnSet(other, 1 .. 5)
    BY <1>9, <1>10, SumsComplement
  <1>13. SumFunctionOnSet(all, 1 .. 5) = (2 * n) * SumFunctionOnSet(w, 1 .. 5)
    <2>1. 2 * n \in Int
      BY <1>1
    <2> QED
      BY <1>7, <1>9, <1>10, <2>1, SumOfMultiples
  <1>14. /\ SumFunctionOnSet(w, 1 .. 5) \in Int
         /\ SumFunctionOnSet(own, 1 .. 5) \in Int /\ SumFunctionOnSet(other, 1 .. 5) \in Int
    BY <1>7, <1>9, <1>10, SumIsInteger
  <1>15. RanksOfCard(MirrorOf(o), M) = 2 * n * SumOfWeights - RanksOfCard(o, T)
    <2>1. 2 * n * SumOfWeights = (2 * n) * SumFunctionOnSet(w, 1 .. 5)
      BY <1>1, <1>11
    <2>2. (2 * n) * SumFunctionOnSet(w, 1 .. 5) \in Int
      BY <1>1, <1>14
    <2> QED
      BY <1>11, <1>12, <1>13, <1>14, <2>1, <2>2
  <1> QED
    BY <1>5, <1>15 DEF M, n

\* Every confirmation of the one side contradicts the other.
LEMMA TrendOfMirror ==
  ASSUME NEW T, CrossSection(T), ~MomentumRules.excludeRecent, NEW o \in T
  PROVE  TrendOf(MirrorOf(o)) = 6 - TrendOf(o)
  <1> DEFINE f == [i \in 1 .. 3 |-> o.trend[i] + 1]
             g == [i \in 1 .. 3 |-> MirrorOf(o).trend[i] + 1]
             one == [i \in 1 .. 3 |-> 1]
             e == [i \in 1 .. 3 |-> 2]
  <1>1. MirrorOf(o).trend = [i \in 1 .. 3 |-> -o.trend[i]]
    BY SectionsMirror
  <1>2. o.trend \in [1 .. 3 -> {-1, 0, 1}]
    BY DEF CrossSection
  <1>3. \A i \in 1 .. 3 : f[i] \in Int /\ g[i] \in Int /\ e[i] = f[i] + g[i]
    <2> SUFFICES ASSUME NEW i \in 1 .. 3 PROVE f[i] \in Int /\ g[i] \in Int /\ e[i] = f[i] + g[i]
      OBVIOUS
    <2>1. MirrorOf(o).trend[i] = -o.trend[i] /\ o.trend[i] \in Int
      BY <1>1, <1>2
    <2> QED
      BY <2>1
  <1>4. \A k \in Int : IsFiniteSet(1 .. k) /\ (1 <= k => Cardinality(1 .. k) = k)
    BY FS_Interval
  <1>5. IsFiniteSet(1 .. 3) /\ Cardinality(1 .. 3) = 3
    <2>1. 3 \in Int /\ 1 <= 3
      OBVIOUS
    <2> QED
      BY ONLY <1>4, <2>1, Zenon
  <1>6. TrendOf(o) = SumFunctionOnSet(f, 1 .. 3) /\ TrendOf(MirrorOf(o)) = SumFunctionOnSet(g, 1 .. 3)
    BY DEF TrendOf
  <1>7. \A i \in 1 .. 3 : e[i] \in Int /\ 2 <= e[i] /\ e[i] <= 2
    OBVIOUS
  <1> HIDE DEF f, g, e
  <1>8. SumFunctionOnSet(e, 1 .. 3) = SumFunctionOnSet(f, 1 .. 3) + SumFunctionOnSet(g, 1 .. 3)
    BY <1>3, <1>5, SumsComplement
  <1>9. /\ SumFunctionOnSet(e, 1 .. 3) \in Int
        /\ 2 * Cardinality(1 .. 3) <= SumFunctionOnSet(e, 1 .. 3)
        /\ SumFunctionOnSet(e, 1 .. 3) <= 2 * Cardinality(1 .. 3)
    <2>1. 2 \in Int
      OBVIOUS
    <2> QED
      BY ONLY <1>5, <1>7, <2>1, SumsInBounds
  <1>10. SumFunctionOnSet(e, 1 .. 3) = 6
    BY <1>5, <1>9
  <1>11. SumFunctionOnSet(f, 1 .. 3) \in Int /\ SumFunctionOnSet(g, 1 .. 3) \in Int
    BY <1>3, <1>5, SumIsInteger
  <1> QED
    BY <1>6, <1>8, <1>10, <1>11

\* The card in the mirror is the mirrored card.
LEMMA CardsMirror ==
  ASSUME NEW T, CrossSection(T), ~MomentumRules.excludeRecent, NEW o \in T
  PROVE  CardOf(MirrorOf(o), MirrorSection(T)) = MirrorCard(CardOf(o, T), Cardinality(T))
  <1> DEFINE m == MirrorOf(o)
             n == Cardinality(T)
             u == MomentumRules.trendWeight
             q == QualityOf(o, n)
             own == 6 * RanksOfCard(o, T) + 2 * n * u * TrendOf(o)
             other == 6 * RanksOfCard(m, MirrorSection(T)) + 2 * n * u * TrendOf(m)
             whole == 12 * n * (SumOfWeights + u)
  <1>1. /\ m.token = o.token /\ m.quality = o.quality /\ m.trend = [i \in 1 .. 3 |-> -o.trend[i]]
        /\ DOMAIN o.trend = 1 .. 3 /\ \A i \in 1 .. 3 : o.trend[i] \in Int
    BY SectionsMirror DEF CrossSection
  <1>2. DOMAIN m.trend = 1 .. 3 /\ \A i \in 1 .. 3 : m.trend[i] = -o.trend[i]
    BY <1>1
  <1>3. /\ RanksOfCard(m, MirrorSection(T)) = 2 * n * SumOfWeights - RanksOfCard(o, T)
        /\ Cardinality(MirrorSection(T)) = n /\ TrendOf(m) = 6 - TrendOf(o)
    BY RanksOfMirror, TrendOfMirror
  <1>4. n \in Nat /\ RanksOfCard(o, T) \in Int /\ TrendOf(o) \in Int /\ SumOfWeights \in Int /\ q \in Int
    BY SumsOfCards
  <1>5. u \in Nat
    BY TailsAreApart
  <1>6. QualityOf(m, n) = q
    BY <1>1 DEF QualityOf
  <1>7. other = whole - own /\ own \in Int /\ whole \in Int
    <2> DEFINE r == RanksOfCard(o, T)
               v == TrendOf(o)
               w == SumOfWeights
               x == n * w
               y == n * u
    <2>1. r \in Int /\ v \in Int /\ w \in Int /\ x \in Int /\ y \in Int
      BY <1>4, <1>5
    <2>2. own = 6 * r + 2 * (y * v) /\ whole = 12 * x + 12 * y
      <3>1. own = 6 * r + 2 * n * u * v /\ whole = 12 * n * (w + u)
        OBVIOUS
      <3> HIDE DEF n, u, v, w, r, own, whole
      <3>2. n \in Int /\ u \in Int /\ r \in Int /\ v \in Int /\ w \in Int
        BY <1>4, <1>5, <2>1
      <3>3. 2 * n * u * v = 2 * ((n * u) * v) /\ 12 * n * (w + u) = 12 * (n * w) + 12 * (n * u)
        BY <3>2
      <3> QED
        BY <3>1, <3>3
    <2>3. other = 6 * (2 * x - r) + 2 * (y * (6 - v))
      <3>1. other = 6 * (2 * n * w - r) + 2 * n * u * (6 - v)
        BY <1>3
      <3> HIDE DEF n, u, v, w, r, other
      <3> QED
        BY <1>4, <1>5, <2>1, <3>1
    <2> HIDE DEF r, v, w, x, y, own, other, whole
    <2>4. y * (6 - v) = 6 * y - y * v /\ y * v \in Int
      BY <2>1
    <2> QED
      BY <2>1, <2>2, <2>3, <2>4
  <1>8. CardOf(o, T) =
          [token |-> o.token, strength |-> own,
           score |-> [LONG |-> own + q, SHORT |-> whole - own + q],
           confirmed |-> {side \in {"LONG", "SHORT"} :
                            \A i \in 1 .. 3 : o.trend[i] = (IF side = "LONG" THEN 1 ELSE -1)},
           liquid |-> o.quality # Absent]
    BY <1>1, CardInSums
  <1>9. CardOf(m, MirrorSection(T)) =
          [token |-> m.token, strength |-> other,
           score |-> [LONG |-> other + q, SHORT |-> whole - other + q],
           confirmed |-> {side \in {"LONG", "SHORT"} :
                            \A i \in 1 .. 3 : m.trend[i] = (IF side = "LONG" THEN 1 ELSE -1)},
           liquid |-> m.quality # Absent]
    <2> HIDE DEF m
    <2>1. LET k == Cardinality(MirrorSection(T))
              directional == 6 * RanksOfCard(m, MirrorSection(T)) + 2 * k * u * TrendOf(m)
          IN CardOf(m, MirrorSection(T)) =
              [token |-> m.token, strength |-> directional,
               score |-> [LONG |-> directional + QualityOf(m, k),
                          SHORT |-> 12 * k * (SumOfWeights + u) - directional + QualityOf(m, k)],
               confirmed |-> {side \in {"LONG", "SHORT"} :
                                \A i \in 1 .. 3 : m.trend[i] = (IF side = "LONG" THEN 1 ELSE -1)},
               liquid |-> m.quality # Absent]
      BY <1>2, CardInSums
    <2> QED
      BY <1>3, <1>6, <2>1
  <1>10. {side \in {"LONG", "SHORT"} : \A i \in 1 .. 3 : m.trend[i] = (IF side = "LONG" THEN 1 ELSE -1)} =
         {side \in {"LONG", "SHORT"} :
            OtherSide(side) \in {s \in {"LONG", "SHORT"} :
                                   \A i \in 1 .. 3 : o.trend[i] = (IF s = "LONG" THEN 1 ELSE -1)}}
    BY <1>1, <1>2 DEF OtherSide
  <1>11. other + q = whole - own + q /\ whole - other + q = own + q
    <2> HIDE DEF own, other, whole, q
    <2> QED
      BY <1>4, <1>7
  <1>12. WholeOf(n) = whole
    BY DEF WholeOf
  <1> HIDE DEF own, other, whole, q, m
  <1>13. MirrorCard(CardOf(o, T), n) =
           [token |-> o.token, strength |-> whole - own,
            score |-> [LONG |-> whole - own + q, SHORT |-> own + q],
            confirmed |-> {side \in {"LONG", "SHORT"} :
                             OtherSide(side) \in {s \in {"LONG", "SHORT"} :
                               \A i \in 1 .. 3 : o.trend[i] = (IF s = "LONG" THEN 1 ELSE -1)}},
            liquid |-> o.quality # Absent]
    BY <1>8, <1>12 DEF MirrorCard
  <1>14. CardOf(m, MirrorSection(T)) = MirrorCard(CardOf(o, T), n)
    BY <1>1, <1>7, <1>9, <1>10, <1>11, <1>13
  <1> QED
    BY <1>14 DEF m

\* In the mirror the same are picked for the other side, as far as they may be sold short.
LEMMA PicksMirror ==
  ASSUME NEW K, CardsCompare(K), NEW n \in Nat, MomentumRules.longTail = MomentumRules.shortTail,
         NEW master, NEW universe, NEW J, J = {MirrorCard(c, n) : c \in K}
  PROVE  Picked(J, "SHORT", master, universe) =
           {MirrorCard(c, n) : c \in {d \in Picked(K, "LONG", master, universe) :
                                        ShortPermitted(d.token, master, universe)}}
  <1> DEFINE h == [c \in K |-> MirrorCard(c, n)]
             f == [c \in K |-> c.strength]
             g == [d \in J |-> d.strength]
             k == WholeOf(n)
             N == Cardinality(K)
             tail == TailCards(K, "LONG")
             beyond(c) == {e \in tail : AsExtreme("LONG", e, c)}
  <1>1. /\ IsFiniteSet(K) /\ \A c, d \in K : c # d => c.token # d.token
        /\ \A c \in K : c.strength \in Int
    BY DEF CardsCompare
  <1>2. k \in Int
    BY WholeIsNumber
  <1>3. \A c \in K : h[c].token = c.token /\ h[c].strength = k - c.strength /\ h[c] \in J
    BY DEF MirrorCard
  <1>4. \A c, d \in K : h[c] = h[d] => c = d
    <2> SUFFICES ASSUME NEW c \in K, NEW d \in K, h[c] = h[d] PROVE c = d
      OBVIOUS
    <2>1. c.token = d.token
      BY <1>3
    <2> QED
      BY <1>1, <2>1
  <1>5. J = {h[c] : c \in K}
    OBVIOUS
  <1>6. \A c \in K : f[c] \in Int /\ g[h[c]] = k - f[c]
    <2> SUFFICES ASSUME NEW c \in K PROVE f[c] \in Int /\ g[h[c]] = k - f[c]
      OBVIOUS
    <2>1. h[c].strength = k - c.strength /\ h[c] \in J /\ c.strength \in Int
      BY <1>1, <1>3
    <2> HIDE DEF h, k
    <2> QED
      BY <2>1
  <1>7. Reverses(h, K, J, f, g, k)
    BY <1>2, <1>4, <1>5, <1>6 DEF Reverses
  <1>8. IsFiniteSet(J) /\ Cardinality(J) = N
    <2> HIDE DEF h
    <2>1. IsFiniteSet({h[c] : c \in K}) /\ Cardinality({h[c] : c \in K}) = Cardinality(K)
      BY ONLY <1>1, <1>4, ImageIsAsLarge
    <2> QED
      BY <1>5, <2>1 DEF N
  <1>9. CardsCompare(J)
    <2>1. \A c \in K : h[c].strength \in Int
      <3> TAKE c \in K
      <3>1. h[c].strength = k - c.strength /\ c.strength \in Int
        BY <1>1, <1>3
      <3> HIDE DEF h, k
      <3> QED
        BY <1>2, <3>1
    <2>2. \A c, d \in K : h[c] # h[d] => h[c].token # h[d].token
      <3> SUFFICES ASSUME NEW c \in K, NEW d \in K, h[c] # h[d] PROVE h[c].token # h[d].token
        OBVIOUS
      <3>1. h[c].token = c.token /\ h[d].token = d.token
        BY <1>3
      <3>2. c # d
        OBVIOUS
      <3> QED
        BY <1>1, <3>1, <3>2
    <2> HIDE DEF h
    <2> QED
      BY <1>5, <1>8, <2>1, <2>2 DEF CardsCompare
  <1>10. \A c \in K : Rank(g, h[c], J) = 2 * N - Rank(f, c, K)
    <2> TAKE c \in K
    <2> HIDE DEF h, f, g, k, N
    <2>1. Rank(g, h[c], J) = 2 * Cardinality(K) - Rank(f, c, K)
      BY ONLY <1>1, <1>7, c \in K, RanksAreMirrored
    <2> QED
      BY <2>1 DEF N
  <1>11. \A c \in K : InTail(h[c], J, "SHORT") <=> InTail(c, K, "LONG")
    <2> TAKE c \in K
    <2> DEFINE r == Rank(f, c, K)
               s == Rank(g, h[c], J)
               a == MomentumRules.longTail
    <2>1. r \in Int /\ N \in Nat /\ (InTail(c, K, "LONG") <=> r * TailUnit >= 2 * N * (TailUnit - a))
      BY TailByRank
    <2>2. InTail(h[c], J, "SHORT") <=> s * TailUnit <= 2 * Cardinality(J) * MomentumRules.shortTail
      <3>1. h[c] \in J
        BY <1>3
      <3> HIDE DEF h
      <3> QED
        BY <1>9, <3>1, TailByRank
    <2>3. s = 2 * N - r
      BY <1>10
    <2>4. TailUnit \in Int /\ a \in Int
      BY TailsAreApart
    <2> HIDE DEF r, s, a, N, h
    <2>5. /\ (2 * N - r) * TailUnit = 2 * (N * TailUnit) - r * TailUnit
          /\ 2 * N * (TailUnit - a) = 2 * (N * TailUnit) - 2 * (N * a)
          /\ 2 * N * a = 2 * (N * a)
          /\ N * TailUnit \in Int /\ r * TailUnit \in Int /\ N * a \in Int
      BY <2>1, <2>4
    <2>6. InTail(h[c], J, "SHORT") <=> s * TailUnit <= 2 * N * a
      BY <1>8, <2>2 DEF a
    <2>7. (s * TailUnit <= 2 * N * a) <=> (r * TailUnit >= 2 * N * (TailUnit - a))
      BY <2>3, <2>5
    <2> QED
      BY <2>1, <2>6, <2>7
  <1>12. TailCards(J, "SHORT") = {h[c] : c \in tail} /\ tail \subseteq K
    <2> HIDE DEF h
    <2> QED
      BY <1>5, <1>11 DEF TailCards
  <1>13. \A c, d \in K : AsExtreme("SHORT", h[d], h[c]) <=> AsExtreme("LONG", d, c)
    <2> SUFFICES ASSUME NEW c \in K, NEW d \in K
                 PROVE  (h[d].strength <= h[c].strength) <=> (d.strength >= c.strength)
      BY DEF AsExtreme
    <2>1. /\ h[c].strength = k - c.strength /\ h[d].strength = k - d.strength
          /\ c.strength \in Int /\ d.strength \in Int
      BY <1>1, <1>3
    <2> HIDE DEF h, k
    <2> QED
      BY <1>2, <2>1
  <1>14. \A c \in K : {e \in TailCards(J, "SHORT") : AsExtreme("SHORT", e, h[c])} = {h[d] : d \in beyond(c)}
    <2> HIDE DEF h
    <2> QED
      BY <1>12, <1>13
  <1>15. \A c \in K : Cardinality({h[d] : d \in beyond(c)}) = Cardinality(beyond(c))
    <2> TAKE c \in K
    <2> DEFINE B == beyond(c)
    <2>1. B \in SUBSET K
      BY <1>12
    <2> HIDE DEF B
    <2>2. IsFiniteSet(B) /\ \A d, e \in B : h[d] = h[e] => d = e
      BY <1>1, <1>4, <2>1, FS_Subset
    <2> HIDE DEF h
    <2>3. Cardinality({h[d] : d \in B}) = Cardinality(B)
      BY <2>2, ImageIsAsLarge
    <2> QED
      BY <2>3 DEF B
  <1>16. CapOf(J, "SHORT") = CapOf(K, "LONG")
    BY <1>8 DEF CapOf, FractionOf
  <1>17. \A c \in K : Tradable(h[c], "SHORT", master, universe) <=>
                        Tradable(c, "LONG", master, universe) /\ ShortPermitted(c.token, master, universe)
    <2> TAKE c \in K
    <2>1. h[c].token = c.token /\ h[c].liquid = c.liquid /\ ("SHORT" \in h[c].confirmed <=> "LONG" \in c.confirmed)
      BY DEF MirrorCard, OtherSide
    <2> HIDE DEF h
    <2> QED
      BY <2>1 DEF Tradable
  <1>18. Picked(J, "SHORT", master, universe) =
           {j \in TailCards(J, "SHORT") :
              /\ Cardinality({d \in TailCards(J, "SHORT") : AsExtreme("SHORT", d, j)}) <= CapOf(J, "SHORT")
              /\ Tradable(j, "SHORT", master, universe)}
    BY PickedInWords
  <1>19. Picked(K, "LONG", master, universe) =
           {c \in tail : Cardinality(beyond(c)) <= CapOf(K, "LONG") /\ Tradable(c, "LONG", master, universe)}
    BY PickedInWords
  <1>20. \A c \in tail :
           h[c] \in Picked(J, "SHORT", master, universe) <=>
             c \in Picked(K, "LONG", master, universe) /\ ShortPermitted(c.token, master, universe)
    <2> TAKE c \in tail
    <2>1. c \in K /\ h[c] \in TailCards(J, "SHORT")
      BY <1>12
    <2>2. Cardinality({d \in TailCards(J, "SHORT") : AsExtreme("SHORT", d, h[c])}) = Cardinality(beyond(c))
      BY <1>14, <1>15, <2>1
    <2> HIDE DEF h, beyond, tail
    <2> QED
      BY <1>16, <1>17, <1>18, <1>19, <2>1, <2>2
  <1>21. /\ Picked(J, "SHORT", master, universe) \subseteq TailCards(J, "SHORT")
         /\ Picked(K, "LONG", master, universe) \subseteq tail
    BY <1>18, <1>19
  <1>22. \A c \in K : h[c] = MirrorCard(c, n)
    OBVIOUS
  <1> DEFINE P == {d \in Picked(K, "LONG", master, universe) : ShortPermitted(d.token, master, universe)}
  <1>23. Picked(J, "SHORT", master, universe) = {h[c] : c \in P}
    <2> HIDE DEF h, tail
    <2> QED
      BY <1>12, <1>20, <1>21
  <1>24. P \subseteq K
    BY <1>12, <1>21
  <1>25. {h[c] : c \in P} = {MirrorCard(c, n) : c \in P}
    <2> HIDE DEF h, P
    <2> QED
      BY <1>22, <1>24
  <1> QED
    BY <1>23, <1>25

-----------------------------------------------------------------------------
(* CrossSectionalMomentum.evaluate. *)

\* What was ranked: a cross-section of this listing and this universe, if it was ranked at all, and
\* the picks of the side that the decision names.
RankedFrom(result, master, universe) ==
  /\ result.side \in {"LONG", "SHORT", Absent}
  /\ result.reason = "RANKING_COMPLETE" =>
       /\ result.side # Absent
       /\ result.intents = {[token |-> c.token, side |-> result.side, score |-> c.score[result.side]]
                              : c \in Picked(result.cards, result.side, master, universe)}
  /\ result.reason # "RANKING_COMPLETE" => result.intents = {}
  /\ result.cards # {} \/ result.reason = "RANKING_COMPLETE" =>
       CrossSection(result.observations) /\ result.cards = CardsOf(result.observations)

RankedLast == ranking # Absent => RankedFrom(ranking, listing, members)

\* A scene that is stamped keeps what the ranks depend on, and so does every part of it.
LEMMA StampedSection ==
  ASSUME NEW scene \in Scene, NEW at
  PROVE  LET T == {x \in {Stamp(o, at) : o \in scene} : x.at = at}
         IN (\A x, y \in T : x # y => x.token # y.token) => CrossSection(T)
  <1> DEFINE all == {Stamp(o, at) : o \in scene}
             T == {x \in all : x.at = at}
             stamp == [o \in scene |-> Stamp(o, at)]
  <1>1. /\ IsFiniteSet(scene)
        /\ \A o \in scene :
             /\ {"token", "at", "universe", "stock", "sector", "market", "trend", "quality"} \subseteq DOMAIN o
             /\ o.stock \in [1 .. 3 -> Int] /\ {o.sector, o.market} \subseteq Int
             /\ o.trend \in [1 .. 3 -> {-1, 0, 1}]
             /\ (o.quality # Absent => o.quality \in Int)
    BY MomentumScenesAreTyped
  <1>2. \A o \in scene : /\ DOMAIN Stamp(o, at) = DOMAIN o /\ Stamp(o, at).stock = o.stock
                         /\ Stamp(o, at).sector = o.sector /\ Stamp(o, at).market = o.market
                         /\ Stamp(o, at).trend = o.trend /\ Stamp(o, at).quality = o.quality
    BY <1>1 DEF Stamp
  <1>3. IsFiniteSet(T)
    <2>1. all = {stamp[o] : o \in scene} /\ stamp \in [scene -> all]
      OBVIOUS
    <2>2. T \in SUBSET all
      OBVIOUS
    <2> HIDE DEF stamp, all, T
    <2>3. IsFiniteSet(all)
      BY <1>1, <2>1, FiniteImage
    <2> QED
      BY <2>2, <2>3, FS_Subset
  <1>4. \A x \in all : \E o \in scene : x = Stamp(o, at)
    OBVIOUS
  <1>5. \A x \in all :
          /\ {"token", "at", "universe", "stock", "sector", "market", "trend", "quality"} \subseteq DOMAIN x
          /\ x.stock \in [1 .. 3 -> Int] /\ {x.sector, x.market} \subseteq Int
          /\ x.trend \in [1 .. 3 -> {-1, 0, 1}]
          /\ (x.quality # Absent => x.quality \in Int)
    <2> TAKE x \in all
    <2>1. PICK o \in scene : x = Stamp(o, at)
      BY <1>4
    <2>2. /\ DOMAIN x = DOMAIN o /\ x.stock = o.stock /\ x.sector = o.sector /\ x.market = o.market
          /\ x.trend = o.trend /\ x.quality = o.quality
      BY <1>2, <2>1
    <2> QED
      BY <1>1, <2>2
  <1>6. T \subseteq all
    OBVIOUS
  <1> HIDE DEF T, all
  <1>7. (\A x, y \in T : x # y => x.token # y.token) => CrossSection(T)
    BY <1>3, <1>5, <1>6 DEF CrossSection
  <1> QED
    BY <1>7 DEF T, all

\* evaluate ranks a complete cross-section or returns no intents.
LEMMA EvaluationRanks ==
  ASSUME NEW scene \in Scene, NEW decision, NEW at
  PROVE  RankedFrom(RankMomentum({Stamp(o, at) : o \in scene}, members, listing, decision, at), listing, members)
  <1> DEFINE offered == {Stamp(o, at) : o \in scene}
             T == {o \in offered : o.at = at}
             result == RankMomentum(offered, members, listing, decision, at)
             side == DirectionalSide(decision)
  <1>1. side \in {"LONG", "SHORT", Absent}
    BY DEF DirectionalSide
  <1>2. /\ result.observations = T /\ result.side = side
        /\ result.cards \in {{}, CardsOf(T)}
        /\ result.cards # {} \/ result.reason = "RANKING_COMPLETE" => CrossSectionComplete(T, listing, members)
    BY DEF RankMomentum, CardsOf
  <1>3. result.reason = "RANKING_COMPLETE" =>
          /\ side # Absent /\ result.cards = CardsOf(T)
          /\ result.intents = {[token |-> c.token, side |-> side, score |-> c.score[side]]
                                 : c \in Picked(CardsOf(T), side, listing, members)}
    BY DEF RankMomentum, CardsOf
  <1>4. result.reason # "RANKING_COMPLETE" => result.intents = {}
    BY DEF RankMomentum
  <1>5. CrossSectionComplete(T, listing, members) => CrossSection(T)
    BY StampedSection DEF CrossSectionComplete
  <1> HIDE DEF T, result, side, offered
  <1>7. RankedFrom(result, listing, members)
    BY <1>1, <1>2, <1>3, <1>4, <1>5 DEF RankedFrom
  <1> QED
    BY <1>7 DEF result, offered

\* Of what was ranked, the emitted tokens are those of the picks.
LEMMA EmittedArePicked ==
  ASSUME RankedLast, ranking # Absent, NEW t \in Emitted
  PROVE  /\ ranking.side \in {"LONG", "SHORT"} /\ CardsCompare(ranking.cards)
         /\ Emitted = {c.token : c \in Picked(ranking.cards, ranking.side, listing, members)}
         /\ \E c \in Picked(ranking.cards, ranking.side, listing, members) : c.token = t
  <1>1. RankedFrom(ranking, listing, members)
    BY DEF RankedLast
  <1>2. ranking.reason = "RANKING_COMPLETE"
    BY <1>1 DEF RankedFrom, Emitted
  <1>3. /\ ranking.side \in {"LONG", "SHORT"}
        /\ ranking.intents = {[token |-> c.token, side |-> ranking.side, score |-> c.score[ranking.side]]
                                : c \in Picked(ranking.cards, ranking.side, listing, members)}
        /\ CrossSection(ranking.observations) /\ ranking.cards = CardsOf(ranking.observations)
    BY <1>1, <1>2 DEF RankedFrom
  <1>4. CardsCompare(ranking.cards)
    BY <1>3, CardsAreCompared
  <1>5. Emitted = {c.token : c \in Picked(ranking.cards, ranking.side, listing, members)}
    <2> DEFINE picked == Picked(ranking.cards, ranking.side, listing, members)
               side == ranking.side
               I == ranking.intents
    <2>1. I = {[token |-> c.token, side |-> side, score |-> c.score[side]] : c \in picked}
      BY <1>3
    <2> HIDE DEF picked, side, I
    <2>3. \A i \in I : \E c \in picked : i.token = c.token
      BY <2>1
    <2>4. \A c \in picked : \E i \in I : i.token = c.token
      <3> TAKE c \in picked
      <3>1. [token |-> c.token, side |-> side, score |-> c.score[side]] \in I
        BY <2>1
      <3> QED
        BY <3>1
    <2>2. {i.token : i \in I} = {c.token : c \in picked}
      BY <2>3, <2>4
    <2> QED
      BY <2>2 DEF Emitted, picked, I
  <1> QED
    BY <1>3, <1>4, <1>5

\* Of two that could be traded the more extreme one is there whenever the other is.
LEMMA TiesHold ==
  ASSUME RankedLast
  PROVE  TiesStandTogether
  <1> SUFFICES ASSUME ranking # Absent, NEW c \in ranking.cards, NEW d \in ranking.cards,
                      c.token \in Emitted, Eligible(d), AsExtreme(ranking.side, d, c)
               PROVE  d.token \in Emitted
    BY DEF TiesStandTogether, AsExtreme
  <1> DEFINE picked == Picked(ranking.cards, ranking.side, listing, members)
  <1>1. /\ ranking.side \in {"LONG", "SHORT"} /\ CardsCompare(ranking.cards)
        /\ Emitted = {p.token : p \in picked}
        /\ \E p \in picked : p.token = c.token
    BY EmittedArePicked
  <1>2. PICK p \in picked : p.token = c.token
    BY <1>1
  <1>3. /\ p \in ranking.cards
        /\ \A e \in ranking.cards :
             Tradable(e, ranking.side, listing, members) /\ AsExtreme(ranking.side, e, p) => e \in picked
    BY <1>1, PickedFairly
  <1>4. p = c
    BY <1>1, <1>2, <1>3 DEF CardsCompare
  <1>5. Tradable(d, ranking.side, listing, members)
    BY DEF Eligible, Tradable
  <1> HIDE DEF picked
  <1>6. d \in picked
    BY <1>3, <1>4, <1>5
  <1> QED
    BY <1>1, <1>6

\* Whoever is there would be if all the others were eligible as well.
LEMMA GapsHold ==
  ASSUME RankedLast
  PROVE  RejectionsLeaveGaps
  <1> SUFFICES ASSUME ranking # Absent, NEW t \in Emitted
               PROVE  Cardinality(Beyond(ranking.cards, ranking.side, CardFor(t))) <= MomentumRules.maxPerSide
    BY DEF RejectionsLeaveGaps, AsExtreme, Beyond
  <1> DEFINE picked == Picked(ranking.cards, ranking.side, listing, members)
  <1>1. /\ ranking.side \in {"LONG", "SHORT"} /\ CardsCompare(ranking.cards)
        /\ \E p \in picked : p.token = t
    BY EmittedArePicked
  <1>2. PICK p \in picked : p.token = t
    BY <1>1
  <1>3. /\ p \in ranking.cards
        /\ Cardinality(Beyond(ranking.cards, ranking.side, p)) <= MomentumRules.maxPerSide
    BY <1>1, PickedFairly
  <1>4. CardFor(t) \in ranking.cards /\ CardFor(t).token = t
    BY <1>2, <1>3 DEF CardFor
  <1>5. CardFor(t) = p
    BY <1>1, <1>2, <1>3, <1>4 DEF CardsCompare
  <1> QED
    BY <1>3, <1>5

\* What the mirrored cross-section would sell short is what this one asks to buy.
LEMMA SidesMirror ==
  ASSUME RankedLast
  PROVE  SidesMirrorEachOther
  <1> SUFFICES ASSUME ranking # Absent, ranking.reason = "RANKING_COMPLETE", ranking.side = "LONG",
                      ~MomentumRules.excludeRecent, MomentumRules.longTail = MomentumRules.shortTail
               PROVE  LET mirror == MirrorSection(ranking.observations)
                          cards == CardsOf(mirror)
                      IN {[token |-> c.token, score |-> c.score["SHORT"]]
                            : c \in Picked(cards, "SHORT", listing, members)} =
                         {[token |-> i.token, score |-> i.score]
                            : i \in {j \in ranking.intents : ShortPermitted(j.token, listing, members)}}
    BY DEF SidesMirrorEachOther, MirrorSection, CardsOf
  <1> DEFINE T == ranking.observations
             K == CardsOf(T)
             J == CardsOf(MirrorSection(T))
             n == Cardinality(T)
             long == Picked(K, "LONG", listing, members)
             short == Picked(J, "SHORT", listing, members)
             allowed == {c \in long : ShortPermitted(c.token, listing, members)}
  <1>1. /\ CrossSection(T)
        /\ ranking.intents = {[token |-> c.token, side |-> "LONG", score |-> c.score["LONG"]] : c \in long}
    BY DEF RankedLast, RankedFrom
  <1>2. CardsCompare(K) /\ n \in Nat
    BY <1>1, CardsAreCompared, FS_CardinalityType DEF CrossSection
  <1>3. \A o \in T : CardOf(MirrorOf(o), MirrorSection(T)) = MirrorCard(CardOf(o, T), n)
    BY <1>1, CardsMirror
  <1>4. J = {MirrorCard(c, n) : c \in K}
    BY <1>3 DEF CardsOf, MirrorSection
  <1>5. short = {MirrorCard(c, n) : c \in allowed}
    <2> HIDE DEF J, K, n
    <2> QED
      BY <1>2, <1>4, PicksMirror
  <1>6. \A c : MirrorCard(c, n).token = c.token /\ MirrorCard(c, n).score["SHORT"] = c.score["LONG"]
    BY DEF MirrorCard
  <1>7. {[token |-> i.token, score |-> i.score]
            : i \in {j \in ranking.intents : ShortPermitted(j.token, listing, members)}}
          = {[token |-> c.token, score |-> c.score["LONG"]] : c \in allowed}
    <2> DEFINE I == ranking.intents
               may(token) == ShortPermitted(token, listing, members)
    <2>1. I = {[token |-> c.token, side |-> "LONG", score |-> c.score["LONG"]] : c \in long}
      BY <1>1
    <2> HIDE DEF long, I, may
    <2>2. \A c \in long : LET i == [token |-> c.token, side |-> "LONG", score |-> c.score["LONG"]]
                         IN i \in I /\ i.token = c.token /\ i.score = c.score["LONG"]
      BY <2>1
    <2>3. \A i \in I : \E c \in long : i.token = c.token /\ i.score = c.score["LONG"]
      BY <2>1
    <2>4. {[token |-> i.token, score |-> i.score] : i \in {j \in I : may(j.token)}}
            = {[token |-> c.token, score |-> c.score["LONG"]] : c \in {d \in long : may(d.token)}}
      <3> DEFINE asked(i) == [token |-> i.token, score |-> i.score]
                 bought(c) == [token |-> c.token, score |-> c.score["LONG"]]
                 A == {j \in I : may(j.token)}
                 B == {d \in long : may(d.token)}
      <3>1. \A i \in A : \E c \in B : asked(i) = bought(c)
        BY <2>3
      <3>2. \A c \in B : \E i \in A : asked(i) = bought(c)
        BY <2>2
      <3> HIDE DEF asked, bought, A, B
      <3>3. {asked(i) : i \in A} = {bought(c) : c \in B}
        BY <3>1, <3>2
      <3> QED
        BY <3>3 DEF asked, bought, A, B
    <2> QED
      BY <2>4 DEF I, may
  <1>8. {[token |-> c.token, score |-> c.score["SHORT"]] : c \in short}
          = {[token |-> c.token, score |-> c.score["LONG"]] : c \in allowed}
    <2> HIDE DEF short, allowed, n
    <2> QED
      BY <1>5, <1>6
  <1> QED
    BY <1>7, <1>8

\* RankingIsFair: of CrossSectionalMomentum.evaluate, for every universe and cross-section: the cap
\* never splits a tie, a rejected candidate is not replaced from below, and the sides are mirror images.
THEOREM RanksAreFair == MomentumSpec => []RankingIsFair
  <1>1. MomentumInit => RankedLast
    BY DEF MomentumInit, RankedLast
  <1>2. RankedLast /\ [MomentumNext]_momentumVars => RankedLast'
    <2> SUFFICES ASSUME RankedLast, [MomentumNext]_momentumVars PROVE RankedLast'
      OBVIOUS
    <2>1. ASSUME ranking' = Absent PROVE RankedLast'
      BY <2>1 DEF RankedLast
    <2>2. ASSUME NEW m \in Listed, NewListing(m) PROVE RankedLast'
      BY <2>1, <2>2 DEF NewListing
    <2>3. ASSUME NEW r \in Rules, Rebuild(r) PROVE RankedLast'
      BY <2>1, <2>3 DEF Rebuild
    <2>4. ASSUME NEW scene \in Scene, NEW d \in Routing, NEW at \in MomentumAt, RunMomentum(scene, d, at)
          PROVE  RankedLast'
      <3>1. /\ ranking' = RankMomentum({Stamp(o, at) : o \in scene}, members, listing, d, at)
            /\ listing' = listing /\ members' = members
        BY <2>4 DEF RunMomentum
      <3>2. RankedFrom(RankMomentum({Stamp(o, at) : o \in scene}, members, listing, d, at), listing, members)
        BY EvaluationRanks
      <3>3. RankedFrom(ranking', listing', members')
        BY <3>1, <3>2
      <3> QED
        BY <3>3 DEF RankedLast
    <2>5. CASE UNCHANGED momentumVars
      BY <2>5 DEF momentumVars, RankedLast
    <2> QED
      BY <2>2, <2>3, <2>4, <2>5 DEF MomentumNext
  <1>3. RankedLast => RankingIsFair
    BY TiesHold, GapsHold, SidesMirror DEF RankingIsFair
  <1> QED
    BY <1>1, <1>2, <1>3, PTL DEF MomentumSpec

-----------------------------------------------------------------------------
(* All decisions together. *)

\* DecisionTypeOK: the types of the health tracker, the breakout engine and the desk, whatever the
\* other engines do.
THEOREM DecisionTypes == DecisionsSpec => []DecisionTypeOK
  BY HealthTypes, SignalsAreTimely, DeskTypes, PTL DEF DecisionsSpec, DecisionTypeOK

\* HistoriesAreSound: what a feature, a pair's training or a basket's training rests on has no holes
\* and is not older or younger than it says.
THEOREM HistoriesStaySound == DecisionsSpec => []HistoriesAreSound
  BY BaselinesAreWhole, NothingClearsInvalid, TrainingsAreWhole, BasketsCohere, PTL
     DEF DecisionsSpec, HistoriesAreSound
=============================================================================
