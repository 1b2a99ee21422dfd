-------------------------- MODULE MarketDataProofs --------------------------
(***************************************************************************)
(* What bars may do that come late, twice, corrected or out of order: an   *)
(* issued bar is never issued with other contents, the future changes no   *)
(* past, and ingestion, aggregation and window_health agree.  And what the *)
(* stream may do, for every set of instruments and every limit: the retry  *)
(* budget, and what a validated recovery rests on.                         *)
(***************************************************************************)
EXTENDS MarketData, SequenceTheorems, TLAPS

-----------------------------------------------------------------------------
(* Logs that agree. *)

\* The same raw bars at the positions up to i.
SameRaw(log, other, i) == \A j \in 1 .. i : log[j].raw = other[j].raw

\* One log continues the other.
Continues(longer, log) ==
  /\ DOMAIN log \subseteq DOMAIN longer
  /\ \A i \in DOMAIN log : longer[i] = log[i]

\* One of the positions, if there is any.
LEMMA OneOfPositions ==
  ASSUME NEW log, NEW positions
  PROVE  /\ positions = {} => OneOf(log, positions) = None
         /\ positions # {} => \E i \in positions : OneOf(log, positions) = log[i].raw
  BY DEF OneOf

\* What is chosen depends on the raw bars at the positions alone.
LEMMA OneOfAgrees ==
  ASSUME NEW log, NEW other, NEW positions, \A i \in positions : log[i].raw = other[i].raw
  PROVE  OneOf(log, positions) = OneOf(other, positions)
  BY DEF OneOf

\* So does which bars precede another.
LEMMA PrecedingAgrees ==
  ASSUME NEW log, NEW other, NEW o, NEW positions, \A i \in positions : log[i].raw = other[i].raw
  PROVE  Preceding(log, positions, o) = Preceding(other, positions, o)
  <1> DEFINE earlier(l) == {i \in positions : SameFeed(l[i].raw, o) /\ End(l[i].raw) <= o.start}
  <1>1. earlier(log) = earlier(other)
    OBVIOUS
  <1>2. {i \in earlier(log) : \A j \in earlier(log) : End(log[j].raw) <= End(log[i].raw)}
        = {i \in earlier(other) : \A j \in earlier(other) : End(other[j].raw) <= End(other[i].raw)}
    BY <1>1
  <1> QED
    BY <1>2 DEF Preceding

\* The flags of an arrival depend on the raw bars up to it.
LEMMA ArrivalAgrees ==
  ASSUME NEW log, NEW other, NEW i \in Nat \ {0}, SameRaw(log, other, i)
  PROVE  ArrivalFlags(log, i) = ArrivalFlags(other, i)
  <1>1. log[i].raw = other[i].raw /\ \A j \in 1 .. i - 1 : log[j].raw = other[j].raw
    BY DEF SameRaw
  <1> DEFINE o == log[i].raw
             preceding == Preceding(log, 1 .. i - 1, o)
  <1>2. preceding = Preceding(other, 1 .. i - 1, o)
    BY <1>1, PrecedingAgrees
  <1>3. \A j \in FirstStored(preceding) : log[j].raw = other[j].raw
    BY <1>1 DEF FirstStored, Preceding
  <1>4. OneOf(log, FirstStored(preceding)) = OneOf(other, FirstStored(preceding))
    BY <1>3, OneOfAgrees
  <1>5. Seen(log, i) <=> Seen(other, i)
    BY <1>1 DEF Seen
  <1> QED
    BY <1>1, <1>2, <1>4, <1>5 DEF ArrivalFlags

\* The flags that the proofs name.
LEMMA FlagNames ==
  {"OUT_OF_SESSION", "MISALIGNED", "DUPLICATE", "INCOMPLETE"} \subseteq Flag
  <1>1. /\ Alphabet[3] = "DUPLICATE" /\ Alphabet[6] = "INCOMPLETE"
        /\ Alphabet[9] = "MISALIGNED" /\ Alphabet[11] = "OUT_OF_SESSION"
    BY DEF Alphabet
  <1> QED
    BY <1>1 DEF Flag

\* Flags are flags.
LEMMA FlagsOfArrival ==
  ASSUME NEW log, NEW i
  PROVE  ArrivalFlags(log, i) \subseteq Flag
  BY FlagNames DEF ArrivalFlags, Check

\* Ingestion only appends, and flags each bar on its arrival.
LEMMA IngestionAppends ==
  ASSUME NEW log \in Seq(Bar), NEW n \in Nat, NEW batch \in [1 .. n -> Observation]
  PROVE  LET longer == Ingested(log, batch)
         IN /\ longer \in Seq(Bar)
            /\ Len(longer) = Len(log) + n
            /\ Continues(longer, log)
            /\ \A i \in DOMAIN longer \ DOMAIN log :
                 /\ longer[i].raw = batch[i - Len(log)]
                 /\ longer[i].flags = ArrivalFlags(longer, i)
  <1> DEFINE unflagged == [k \in 1 .. n |-> [raw |-> batch[k], flags |-> {}]]
             raw == log \o unflagged
             longer == Ingested(log, batch)
  <1>1. unflagged \in Seq(Bar) /\ Len(unflagged) = n
    <2>1. unflagged \in [1 .. n -> Bar]
      BY DEF Bar
    <2> QED
      BY <2>1
  <1>2. /\ raw \in Seq(Bar) /\ Len(raw) = Len(log) + n
        /\ \A i \in 1 .. Len(log) : raw[i] = log[i]
        /\ \A i \in 1 .. Len(raw) : i > Len(log) => raw[i] = unflagged[i - Len(log)]
    BY <1>1, ConcatProperties
  <1> HIDE DEF raw, unflagged
  <1>3. /\ DOMAIN log = 1 .. Len(log) /\ DOMAIN raw = 1 .. Len(log) + n
        /\ DOMAIN batch = 1 .. n /\ Len(log) \in Nat
    BY <1>2, LenProperties
  <1>4. longer = [i \in 1 .. Len(log) + n |->
                    IF i \in 1 .. Len(log) THEN log[i]
                    ELSE [raw[i] EXCEPT !.flags = ArrivalFlags(raw, i)]]
    BY <1>3 DEF Ingested, raw, unflagged
  <1>5. \A i \in 1 .. Len(log) + n : raw[i] \in Bar
    BY <1>2, <1>3
  <1>6. \A i \in 1 .. Len(log) + n :
          /\ longer[i] \in Bar
          /\ longer[i].raw = raw[i].raw
          /\ i > Len(log) => longer[i].flags = ArrivalFlags(raw, i)
    BY <1>2, <1>3, <1>4, <1>5, FlagsOfArrival DEF Bar
  <1>7. longer \in Seq(Bar) /\ Len(longer) = Len(log) + n
    <2>1. longer \in [1 .. Len(log) + n -> Bar]
      BY <1>4, <1>6
    <2> QED
      BY <1>3, <2>1
  <1>8. Continues(longer, log)
    BY <1>3, <1>4 DEF Continues
  <1>9. ASSUME NEW i \in DOMAIN longer \ DOMAIN log
        PROVE  /\ longer[i].raw = batch[i - Len(log)]
               /\ longer[i].flags = ArrivalFlags(longer, i)
    <2>1. i \in 1 .. Len(log) + n /\ i > Len(log) /\ i - Len(log) \in 1 .. n
      BY <1>3, <1>7, LenProperties
    <2>2. longer[i].raw = batch[i - Len(log)]
      <3>1. unflagged[i - Len(log)].raw = batch[i - Len(log)]
        BY <2>1 DEF unflagged
      <3> QED
        BY <1>2, <1>6, <2>1, <3>1
    <2>3. SameRaw(raw, longer, i)
      BY <1>6, <2>1 DEF SameRaw
    <2> QED
      BY <1>6, <2>1, <2>2, <2>3, ArrivalAgrees
  <1> QED
    BY <1>7, <1>8, <1>9

-----------------------------------------------------------------------------
(* Steps of the service. *)

\* Every bar has the flags of its arrival.
FlagsOnArrival == \A i \in DOMAIN bars : bars[i].flags = ArrivalFlags(bars, i)

\* What the service does to its bars and its clock.
Advances ==
  /\ Continues(bars', bars)
  /\ now <= now'
  /\ issued' = issued \/ issued' = issued \cup ReadyBars(bars', now')

\* The times of a bar.
LEMMA ObservationTimes ==
  ASSUME NEW o \in Observation
  PROVE  /\ o.start \in Nat /\ o.received \in Nat /\ o.level \in Nat /\ o.id \in Nat
         /\ o.complete \in BOOLEAN /\ o.marks \subseteq Flag
         /\ End(o) \in Nat /\ o.start < End(o)
  BY ObservationsAreTimed, MarksAreNoPlaces, LengthsArePositive DEF End

\* The bars of a log.
LEMMA BarsOfLog ==
  ASSUME NEW log \in Seq(Bar), NEW i \in DOMAIN log
  PROVE  /\ i \in Nat \ {0} /\ log[i] \in Bar
         /\ log[i].raw \in Observation /\ log[i].flags \subseteq Flag
  <1>1. log[i] \in Bar /\ i \in Nat \ {0}
    BY ElementOfSeq, LenProperties
  <1> QED
    BY <1>1 DEF Bar

\* What is known stays known.
LEMMA KnownStays ==
  ASSUME NEW o \in Observation, NEW t \in Nat, NEW u \in Nat, t <= u, Known(o, t)
  PROVE  Known(o, u)
  BY ObservationTimes DEF Known

\* A batch of bars that are known, and for which there is room.
LEMMA IngestionStep ==
  ASSUME TypeOK, FlagsOnArrival,
         NEW n \in Nat, Len(bars) + n <= MaxBars,
         NEW batch \in [1 .. n -> Observation], \A k \in 1 .. n : Known(batch[k], now),
         bars' = Ingested(bars, batch), now' = now, Remember
  PROVE  TypeOK' /\ FlagsOnArrival' /\ Advances
  <1>1. bars \in Seq(Bar) /\ now \in Time /\ \A i \in DOMAIN bars : Known(bars[i].raw, now)
    BY DEF TypeOK
  <1>2. /\ bars' \in Seq(Bar)
        /\ Len(bars') = Len(bars) + n
        /\ Continues(bars', bars)
        /\ \A i \in DOMAIN bars' \ DOMAIN bars :
             bars'[i].raw = batch[i - Len(bars)] /\ bars'[i].flags = ArrivalFlags(bars', i)
    BY <1>1, IngestionAppends, ZenonT(60)
  <1>3. DOMAIN bars = 1 .. Len(bars) /\ DOMAIN bars' = 1 .. Len(bars) + n /\ Len(bars) \in Nat
    BY <1>1, <1>2, LenProperties
  <1>4. ASSUME NEW i \in DOMAIN bars'
        PROVE  Known(bars'[i].raw, now') /\ bars'[i].flags = ArrivalFlags(bars', i)
    <2>1. CASE i \in DOMAIN bars
      <3>1. SameRaw(bars, bars', i)
        BY <1>2, <1>3, <2>1 DEF SameRaw, Continues
      <3>2. ArrivalFlags(bars, i) = ArrivalFlags(bars', i)
        BY <1>3, <2>1, <3>1, ArrivalAgrees
      <3>3. bars'[i] = bars[i]
        BY <1>2, <2>1 DEF Continues
      <3> QED
        BY <1>1, <2>1, <3>2, <3>3 DEF FlagsOnArrival
    <2>2. CASE i \notin DOMAIN bars
      <3>1. i - Len(bars) \in 1 .. n
        BY <1>3, <2>2
      <3> QED
        BY <1>2, <2>2, <3>1
    <2> QED
      BY <2>1, <2>2
  <1>5. TypeOK'
    BY <1>1, <1>2, <1>4 DEF TypeOK
  <1>6. FlagsOnArrival'
    BY <1>4 DEF FlagsOnArrival
  <1>7. Advances
    BY <1>1, <1>2, BoundsAreNatural DEF Advances, Remember, Time
  <1> QED
    BY <1>5, <1>6, <1>7

\* Every step keeps the types and the flags, and only adds.
LEMMA StepAdvances ==
  ASSUME TypeOK, FlagsOnArrival, [Next]_vars
  PROVE  TypeOK' /\ FlagsOnArrival' /\ Advances
  <1>1. now \in Time /\ now \in Nat /\ bars \in Seq(Bar) /\ Len(bars) \in Nat /\ MaxBars \in Nat
    BY BoundsAreNatural, LenProperties DEF TypeOK, Time
  <1>2. ASSUME NEW o \in Observation, IngestBar(o)
        PROVE  TypeOK' /\ FlagsOnArrival' /\ Advances
    <2> DEFINE batch == <<o>>
    <2>1. batch \in [1 .. 1 -> Observation] /\ batch[1] = o
      OBVIOUS
    <2>2. /\ Known(o, now) /\ Len(bars) + 1 <= MaxBars
          /\ bars' = Ingested(bars, batch) /\ now' = now /\ Remember
      BY <1>1, <1>2 DEF IngestBar
    <2>3. \A k \in 1 .. 1 : Known(batch[k], now)
      BY <2>1, <2>2
    <2> HIDE DEF batch
    <2> QED
      BY <2>1, <2>2, <2>3, IngestionStep
  <1>3. ASSUME NEW batch \in SUBSET Observation, NEW window \in Window, NEW instrument,
               LoadHistory(batch, instrument, window)
        PROVE  TypeOK' /\ FlagsOnArrival' /\ Advances
    <2>1. PICK sorted \in SetToSeqs(batch), n \in 1 .. MaxBars - Len(bars) :
            /\ \A i \in 1 .. n : sorted[i] \in InScope(instrument, window)
            /\ bars' = Ingested(bars, [i \in 1 .. n |-> sorted[i]])
            /\ now' = now /\ Remember
      BY <1>3 DEF LoadHistory
    <2> DEFINE loaded == [i \in 1 .. n |-> sorted[i]]
    <2>3. n \in Nat /\ Len(bars) + n <= MaxBars
      BY <1>1
    <2>4. loaded \in [1 .. n -> Observation] /\ \A i \in 1 .. n : Known(loaded[i], now)
      BY <2>1 DEF InScope
    <2>5. bars' = Ingested(bars, loaded) /\ now' = now /\ Remember
      BY <2>1
    <2> HIDE DEF loaded
    <2> QED
      BY <2>3, <2>4, <2>5, IngestionStep
  <1>4. CASE Tick
    <2>1. bars' = bars /\ now' = now + 1 /\ now' \in Time
          /\ issued' = issued \cup ReadyBars(bars', now')
      BY <1>1, <1>4, BoundsAreNatural DEF Tick, Time, Remember
    <2>2. \A i \in DOMAIN bars : Known(bars[i].raw, now')
      <3> TAKE i \in DOMAIN bars
      <3>1. bars[i].raw \in Observation /\ Known(bars[i].raw, now)
        BY <1>1, BarsOfLog DEF TypeOK
      <3> QED
        BY <1>1, <2>1, <3>1, KnownStays DEF Time
    <2> QED
      BY <1>1, <2>1, <2>2 DEF TypeOK, FlagsOnArrival, Advances, Continues
  <1>5. CASE UNCHANGED vars
    BY <1>1, <1>5 DEF vars, TypeOK, FlagsOnArrival, Advances, Continues
  <1>6. ASSUME NEW o \in Observation, IngestRaises(o)
        PROVE  UNCHANGED vars
    BY <1>6 DEF IngestRaises
  <1> QED
    BY <1>2, <1>3, <1>4, <1>5, <1>6 DEF Next

-----------------------------------------------------------------------------
(* Groups and canonical bars. *)

\* A bar that counts for its bucket, whatever preceded it.
Placed(bar) ==
  /\ (bar.flags \cup bar.raw.marks) \cap {"OUT_OF_SESSION", "MISALIGNED"} = {}
  /\ InSession(bar.raw) /\ (bar.raw.start - Session.open) % Minute = 0

\* Checking again finds a bar out of place by its own start alone.
LEMMA Placement ==
  ASSUME NEW log, NEW cutoff, NEW i
  PROVE  CheckedAt(log, cutoff, i) \cap {"OUT_OF_SESSION", "MISALIGNED"} = {} <=> Placed(log[i])
  <1> DEFINE previous ==
        OneOf(log, FirstReceived(log, Preceding(log, Older(log, cutoff, i), log[i].raw)))
  <1>1. /\ "OUT_OF_SESSION" \in Check(log[i].raw, previous) <=>
             "OUT_OF_SESSION" \in log[i].raw.marks \/ ~InSession(log[i].raw)
        /\ "MISALIGNED" \in Check(log[i].raw, previous) <=>
             \/ "MISALIGNED" \in log[i].raw.marks
             \/ InSession(log[i].raw) /\ (log[i].raw.start - Session.open) % Minute # 0
    BY FlagNames DEF Check
  <1>2. CheckedAt(log, cutoff, i) = log[i].flags \cup Check(log[i].raw, previous)
    BY DEF CheckedAt
  <1> HIDE DEF previous
  <1> QED
    BY <1>1, <1>2 DEF Placed

\* Who is in a group.
LEMMA GroupMembers ==
  ASSUME NEW log, NEW cutoff, NEW o, NEW i
  PROVE  i \in Group(log, cutoff, o) <=>
           /\ i \in DOMAIN log /\ Known(log[i].raw, cutoff)
           /\ SameFeed(log[i].raw, o) /\ BucketOf(log[i].raw) = BucketOf(o)
           /\ Placed(log[i])
  BY Placement DEF Group, Available

\* Each of its members stands for a group.
LEMMA GroupOfMember ==
  ASSUME NEW log, NEW cutoff, NEW o, NEW i \in Group(log, cutoff, o)
  PROVE  Group(log, cutoff, log[i].raw) = Group(log, cutoff, o)
  <1>1. SameFeed(log[i].raw, o) /\ BucketOf(log[i].raw) = BucketOf(o)
    BY DEF Group
  <1>2. \A j : SameFeed(log[j].raw, log[i].raw) <=> SameFeed(log[j].raw, o)
    BY <1>1 DEF SameFeed
  <1> QED
    BY <1>1, <1>2 DEF Group

\* The bar at i is not behind the one at j, of the same minute.
FirstOfTwo(log, cutoff, i, j) ==
  \/ log[i].raw = log[j].raw
  \/ log[i].raw.received < log[j].raw.received
  \/ /\ log[i].raw.received = log[j].raw.received
     /\ \/ WrittenBefore(CheckedAt(log, cutoff, i), CheckedAt(log, cutoff, j))
        \/ /\ CheckedAt(log, cutoff, i) = CheckedAt(log, cutoff, j)
           /\ log[i].raw.id < log[j].raw.id

\* Without repetition the first of a minute is the only one.
LEMMA OnlyOfItsMinute ==
  ASSUME NEW log, NEW cutoff, NEW group, ~Repeated(log, group), NEW i \in group
  PROVE  FirstOf(log, cutoff, group, log[i].raw.start) = log[i].raw
  <1> DEFINE same == {j \in group : log[j].raw.start = log[i].raw.start}
             first == {j \in same : \A k \in same : FirstOfTwo(log, cutoff, j, k)}
  <1>1. same = {i}
    BY DEF Repeated
  <1>2. FirstOfTwo(log, cutoff, i, i)
    BY DEF FirstOfTwo
  <1>3. first = {i}
    BY <1>1, <1>2
  <1>4. FirstOf(log, cutoff, group, log[i].raw.start) = OneOf(log, first)
    BY DEF FirstOf, FirstOfTwo
  <1> HIDE DEF first
  <1> QED
    BY <1>3, <1>4, OneOfPositions

\* A bucket has minutes.
LEMMA BucketHasMinutes ==
  ASSUME NEW bucket
  PROVE  Expected(bucket) # {}
  <1>1. 0 \in 0 .. BucketMinutes - 1
    BY LengthsArePositive
  <1> QED
    BY <1>1 DEF Expected

\* A canonical bar is made of the group of one of its bars.
LEMMA CanonicalOfGroup ==
  ASSUME NEW log, NEW cutoff, NEW c \in Aggregate(log, cutoff)
  PROVE  \E i \in DOMAIN log :
           /\ i \in Group(log, cutoff, log[i].raw)
           /\ c = Canonical(log, Group(log, cutoff, log[i].raw), BucketOf(log[i].raw), cutoff)
  <1>1. PICK k \in DOMAIN log :
          LET group == Group(log, cutoff, log[k].raw)
          IN /\ group # {}
             /\ c = Canonical(log, group, BucketOf(log[CHOOSE i \in group : TRUE].raw), cutoff)
    BY DEF Aggregate
  <1> DEFINE group == Group(log, cutoff, log[k].raw)
             i == CHOOSE i \in group : TRUE
  <1>2. i \in group /\ c = Canonical(log, group, BucketOf(log[i].raw), cutoff)
    BY <1>1
  <1>3. i \in DOMAIN log
    BY <1>2, GroupMembers
  <1>4. Group(log, cutoff, log[i].raw) = group
    BY <1>2, GroupOfMember
  <1> HIDE DEF group, i
  <1> QED
    BY <1>2, <1>3, <1>4

\* A group that is not empty has its canonical bar.
LEMMA GroupHasCanonical ==
  ASSUME NEW log, NEW cutoff, NEW i \in DOMAIN log, i \in Group(log, cutoff, log[i].raw)
  PROVE  Canonical(log, Group(log, cutoff, log[i].raw), BucketOf(log[i].raw), cutoff)
           \in Aggregate(log, cutoff)
  <1> DEFINE group == Group(log, cutoff, log[i].raw)
             j == CHOOSE j \in group : TRUE
  <1>1. j \in group
    OBVIOUS
  <1>2. BucketOf(log[j].raw) = BucketOf(log[i].raw)
    BY <1>1, GroupMembers
  <1>3. group \in {Group(log, cutoff, log[k].raw) : k \in DOMAIN log} \ {{}}
    OBVIOUS
  <1>4. Canonical(log, group, BucketOf(log[j].raw), cutoff) \in Aggregate(log, cutoff)
    BY <1>3 DEF Aggregate
  <1> HIDE DEF group, j
  <1>5. Canonical(log, group, BucketOf(log[i].raw), cutoff) \in Aggregate(log, cutoff)
    BY <1>2, <1>4
  <1> QED
    BY <1>5 DEF group

-----------------------------------------------------------------------------
(* What was ready once. *)

\* Each minute of the bucket has one bar in the group, whose values are issued.
MadeOf(log, cutoff, group, c) ==
  /\ c.values = [s \in Expected(c.start) |-> FirstOf(log, cutoff, group, s)]
  /\ \A s \in Expected(c.start) :
       \E i \in group : log[i].raw.start = s /\ c.values[s] = log[i].raw
  /\ ~Repeated(log, group)

\* The bars that a canonical bar was made of are still there and still count.
Lasting(log, cutoff, c) ==
  /\ c.values = [s \in Expected(c.start) |-> c.values[s]]
  /\ \A s \in Expected(c.start) : \E i \in DOMAIN log :
       /\ log[i].raw = c.values[s] /\ log[i].raw.start = s
       /\ BucketOf(log[i].raw) = c.start
       /\ Known(log[i].raw, cutoff) /\ Placed(log[i])
  /\ \A s, t \in Expected(c.start) : SameFeed(c.values[s], c.values[t])

\* A ready bar has each minute of its bucket once.
LEMMA ReadyIsMade ==
  ASSUME NEW log \in Seq(Bar), NEW cutoff, NEW c \in ReadyBars(log, cutoff)
  PROVE  \E k \in DOMAIN log :
           /\ c.start = BucketOf(log[k].raw)
           /\ k \in Group(log, cutoff, log[k].raw)
           /\ MadeOf(log, cutoff, Group(log, cutoff, log[k].raw), c)
  <1>1. c \in Aggregate(log, cutoff) /\ c.complete /\ c.flags = {}
    BY DEF ReadyBars, StrategyReady
  <1>2. PICK k \in DOMAIN log :
          /\ k \in Group(log, cutoff, log[k].raw)
          /\ c = Canonical(log, Group(log, cutoff, log[k].raw), BucketOf(log[k].raw), cutoff)
    BY <1>1, CanonicalOfGroup
  <1> DEFINE group == Group(log, cutoff, log[k].raw)
             bucket == BucketOf(log[k].raw)
             starts == {log[i].raw.start : i \in group}
  <1> HIDE DEF group, bucket
  <1>3. /\ c.start = bucket
        /\ c.values = [s \in starts |-> FirstOf(log, cutoff, group, s)]
        /\ c.complete = Complete(log, group, bucket, cutoff)
        /\ (IF Repeated(log, group) THEN {"DUPLICATE"} ELSE {}) \subseteq c.flags
    BY <1>2 DEF Canonical, group, bucket
  <1>4. ~Repeated(log, group)
    BY <1>1, <1>3
  <1>5. starts = Expected(bucket)
    BY <1>1, <1>3 DEF Complete
  <1>6. ASSUME NEW s \in Expected(bucket)
        PROVE  \E i \in group : log[i].raw.start = s /\ c.values[s] = log[i].raw
    <2>1. PICK i \in group : log[i].raw.start = s
      BY <1>5, <1>6
    <2>2. FirstOf(log, cutoff, group, s) = log[i].raw
      BY <1>4, <2>1, OnlyOfItsMinute
    <2> QED
      BY <1>3, <1>5, <2>1, <2>2
  <1>7. MadeOf(log, cutoff, group, c)
    BY <1>3, <1>4, <1>5, <1>6 DEF MadeOf
  <1> QED
    BY <1>2, <1>3, <1>7 DEF group, bucket

\* The feed of a canonical bar is the feed of all its values.
LEMMA FeedOfValues ==
  ASSUME NEW c, DOMAIN c.values = Expected(c.start),
         \A s, t \in Expected(c.start) : SameFeed(c.values[s], c.values[t])
  PROVE  \A s \in Expected(c.start) : SameFeed(c.values[s], Feed(c))
  <1>1. \E s \in Expected(c.start) : Feed(c) = c.values[s]
    BY BucketHasMinutes DEF Feed
  <1> QED
    BY <1>1

\* What is ready lasts.
LEMMA ReadyLasts ==
  ASSUME NEW log \in Seq(Bar), NEW cutoff, NEW c \in ReadyBars(log, cutoff)
  PROVE  Lasting(log, cutoff, c)
  <1>1. PICK k \in DOMAIN log :
          /\ c.start = BucketOf(log[k].raw)
          /\ MadeOf(log, cutoff, Group(log, cutoff, log[k].raw), c)
    BY ReadyIsMade
  <1> DEFINE group == Group(log, cutoff, log[k].raw)
  <1>2. c.values = [s \in Expected(c.start) |-> c.values[s]]
    BY <1>1 DEF MadeOf
  <1>3. \A s \in Expected(c.start) :
          \E i \in group : log[i].raw.start = s /\ c.values[s] = log[i].raw
    BY <1>1 DEF MadeOf
  <1>4. \A i \in group :
          /\ i \in DOMAIN log /\ Known(log[i].raw, cutoff) /\ Placed(log[i])
          /\ BucketOf(log[i].raw) = c.start /\ SameFeed(log[i].raw, log[k].raw)
    BY <1>1, GroupMembers
  <1> HIDE DEF group
  <1>5. \A s, t \in Expected(c.start) : SameFeed(c.values[s], c.values[t])
    BY <1>3, <1>4 DEF SameFeed
  <1>6. \A s \in Expected(c.start) : \E i \in DOMAIN log :
          /\ log[i].raw = c.values[s] /\ log[i].raw.start = s
          /\ BucketOf(log[i].raw) = c.start
          /\ Known(log[i].raw, cutoff) /\ Placed(log[i])
    BY <1>3, <1>4
  <1> QED
    BY <1>2, <1>5, <1>6 DEF Lasting

\* As bars and time are added.
LEMMA LastingStays ==
  ASSUME NEW log \in Seq(Bar), NEW longer, Continues(longer, log),
         NEW t \in Nat, NEW u \in Nat, t <= u, NEW c, Lasting(log, t, c)
  PROVE  Lasting(longer, u, c)
  <1>1. ASSUME NEW s \in Expected(c.start)
        PROVE  \E i \in DOMAIN longer :
                 /\ longer[i].raw = c.values[s] /\ longer[i].raw.start = s
                 /\ BucketOf(longer[i].raw) = c.start
                 /\ Known(longer[i].raw, u) /\ Placed(longer[i])
    <2>1. PICK i \in DOMAIN log :
            /\ log[i].raw = c.values[s] /\ log[i].raw.start = s
            /\ BucketOf(log[i].raw) = c.start
            /\ Known(log[i].raw, t) /\ Placed(log[i])
      BY <1>1 DEF Lasting
    <2>2. longer[i] = log[i] /\ i \in DOMAIN longer /\ log[i].raw \in Observation
      BY <2>1, BarsOfLog DEF Continues
    <2>3. Known(log[i].raw, u)
      BY <2>1, <2>2, KnownStays
    <2> QED
      BY <2>1, <2>2, <2>3
  <1> QED
    BY <1>1 DEF Lasting

\* Two ready bars of one bucket and feed, the second of a later log: the group
\* still has the bars of the first, and no minute has more than one.
LEMMA ReadyAgain ==
  ASSUME NEW log \in Seq(Bar), NEW cutoff, NEW c, Lasting(log, cutoff, c),
         NEW d \in ReadyBars(log, cutoff),
         c.start = d.start, SameFeed(Feed(c), Feed(d))
  PROVE  c.values = d.values
  <1>1. PICK k \in DOMAIN log :
          /\ d.start = BucketOf(log[k].raw)
          /\ MadeOf(log, cutoff, Group(log, cutoff, log[k].raw), d)
    BY ReadyIsMade
  <1> DEFINE group == Group(log, cutoff, log[k].raw)
  <1>2. \A i \in group : SameFeed(log[i].raw, log[k].raw)
    BY GroupMembers
  <1>3. /\ d.values = [s \in Expected(d.start) |-> FirstOf(log, cutoff, group, s)]
        /\ \A s \in Expected(d.start) : \E i \in group : d.values[s] = log[i].raw
        /\ ~Repeated(log, group)
    BY <1>1 DEF MadeOf
  <1>4. SameFeed(Feed(d), log[k].raw)
    <2>1. DOMAIN d.values = Expected(d.start)
      BY <1>3
    <2>2. \E s \in Expected(d.start) : Feed(d) = d.values[s]
      BY <2>1, BucketHasMinutes DEF Feed
    <2> QED
      BY <1>2, <1>3, <2>2
  <1>5. ASSUME NEW s \in Expected(c.start)
        PROVE  c.values[s] = d.values[s]
    <2>1. PICK i \in DOMAIN log :
            /\ log[i].raw = c.values[s] /\ log[i].raw.start = s
            /\ BucketOf(log[i].raw) = c.start
            /\ Known(log[i].raw, cutoff) /\ Placed(log[i])
      BY <1>5 DEF Lasting
    <2>2. DOMAIN c.values = Expected(c.start)
      BY DEF Lasting
    <2>3. SameFeed(c.values[s], Feed(c))
      BY <1>5, <2>2, FeedOfValues DEF Lasting
    <2>4. SameFeed(log[i].raw, log[k].raw)
      BY <1>4, <2>1, <2>3 DEF SameFeed
    <2>5. i \in group
      BY <1>1, <2>1, <2>4, GroupMembers
    <2> HIDE DEF group
    <2>6. FirstOf(log, cutoff, group, s) = log[i].raw
      <3>1. ~Repeated(log, group)
        BY <1>3
      <3>2. FirstOf(log, cutoff, group, log[i].raw.start) = log[i].raw
        BY <2>5, <3>1, OnlyOfItsMinute
      <3> QED
        BY <2>1, <3>2
    <2> QED
      BY <1>3, <2>1, <2>6
  <1>6. c.values = [s \in Expected(c.start) |-> c.values[s]]
    BY DEF Lasting
  <1>7. d.values = [s \in Expected(c.start) |-> d.values[s]]
    BY <1>3
  <1> QED
    BY <1>5, <1>6, <1>7

-----------------------------------------------------------------------------
(* The inductive invariant, and what follows from it. *)

BarInv ==
  /\ TypeOK
  /\ FlagsOnArrival
  /\ \A c \in issued : Lasting(bars, now, c)
  /\ ReadyIsFinal

\* The invariant holds in every reachable state.
THEOREM BarInvHolds == Spec => []BarInv
  <1>1. Init => BarInv
    BY BoundsAreNatural
       DEF Init, BarInv, TypeOK, Time, FlagsOnArrival, ReadyIsFinal
  <1>2. BarInv /\ [Next]_vars => BarInv'
    <2> SUFFICES ASSUME BarInv, [Next]_vars PROVE BarInv'
      OBVIOUS
    <2>1. TypeOK /\ FlagsOnArrival /\ TypeOK' /\ FlagsOnArrival' /\ Advances
      BY StepAdvances DEF BarInv
    <2>2. /\ bars \in Seq(Bar) /\ bars' \in Seq(Bar) /\ now \in Nat /\ now' \in Nat
          /\ Continues(bars', bars) /\ now <= now'
      BY <2>1, BoundsAreNatural DEF TypeOK, Time, Advances
    <2>3. \A c \in issued' : c \in issued \/ c \in ReadyBars(bars', now')
      BY <2>1 DEF Advances
    <2>4. \A c \in issued : Lasting(bars', now', c)
      BY <2>2, LastingStays DEF BarInv
    <2>5. \A c \in ReadyBars(bars', now') : Lasting(bars', now', c)
      BY <2>2, ReadyLasts
    <2>6. \A c \in issued' : Lasting(bars', now', c)
      BY <2>3, <2>4, <2>5
    <2>7. ASSUME NEW c \in issued', NEW d \in issued',
                 c.start = d.start, SameFeed(Feed(c), Feed(d))
          PROVE  c.values = d.values
      <3>1. CASE c \in issued /\ d \in issued
        BY <2>7, <3>1 DEF BarInv, ReadyIsFinal
      <3>2. CASE d \in ReadyBars(bars', now')
        BY <2>2, <2>6, <2>7, <3>2, ReadyAgain
      <3>3. CASE c \in ReadyBars(bars', now')
        <4>1. SameFeed(Feed(d), Feed(c))
          BY <2>7 DEF SameFeed
        <4> QED
          BY <2>2, <2>6, <2>7, <3>3, <4>1, ReadyAgain
      <3> QED
        BY <2>3, <3>1, <3>2, <3>3
    <2>8. ReadyIsFinal'
      BY <2>7 DEF ReadyIsFinal
    <2> QED
      BY <2>1, <2>6, <2>8 DEF BarInv
  <1> QED
    BY <1>1, <1>2, PTL DEF Spec

\* Types; every bar that is kept was over and received by the clock.
THEOREM BarTypes == Spec => []TypeOK
  <1>1. BarInv => TypeOK
    BY DEF BarInv
  <1> QED
    BY <1>1, BarInvHolds, PTL

\* A canonical bar that was strategy ready is never strategy ready with other
\* contents, whatever FiveMinuteAggregator is given later.
THEOREM ReadyStaysFinal == Spec => []ReadyIsFinal
  <1>1. BarInv => ReadyIsFinal
    BY DEF BarInv
  <1> QED
    BY <1>1, BarInvHolds, PTL

-----------------------------------------------------------------------------
(* The future changes no past. *)

\* What is added becomes known after the cutoff.
AddsOnlyLater(longer, log, cutoff) ==
  /\ Continues(longer, log)
  /\ \A i \in DOMAIN longer \ DOMAIN log : ~Known(longer[i].raw, cutoff)

\* Then the same bars are available.
LEMMA AvailableStays ==
  ASSUME NEW log, NEW longer, NEW cutoff, AddsOnlyLater(longer, log, cutoff)
  PROVE  /\ Available(longer, cutoff) = Available(log, cutoff)
         /\ Available(log, cutoff) \subseteq DOMAIN log
         /\ \A i \in DOMAIN log : longer[i] = log[i]
  BY DEF AddsOnlyLater, Continues, Available

\* They are checked as before.
LEMMA CheckStays ==
  ASSUME NEW log, NEW longer, NEW cutoff, AddsOnlyLater(longer, log, cutoff),
         NEW i \in DOMAIN log
  PROVE  CheckedAt(longer, cutoff, i) = CheckedAt(log, cutoff, i)
  <1>1. /\ Available(longer, cutoff) = Available(log, cutoff)
        /\ Available(log, cutoff) \subseteq DOMAIN log
        /\ \A j \in DOMAIN log : longer[j] = log[j]
    BY AvailableStays
  <1>2. Older(longer, cutoff, i) = Older(log, cutoff, i)
    BY <1>1 DEF Older, ByReceipt
  <1>3. Older(log, cutoff, i) \subseteq DOMAIN log
    BY <1>1 DEF Older
  <1> DEFINE preceding == Preceding(log, Older(log, cutoff, i), log[i].raw)
  <1>4. Preceding(longer, Older(longer, cutoff, i), longer[i].raw) = preceding
    <2>1. \A j \in Older(log, cutoff, i) : log[j].raw = longer[j].raw
      BY <1>1, <1>3
    <2>2. Preceding(log, Older(log, cutoff, i), log[i].raw)
            = Preceding(longer, Older(log, cutoff, i), log[i].raw)
      BY <2>1, PrecedingAgrees
    <2> QED
      BY <1>1, <1>2, <2>2
  <1>5. preceding \subseteq DOMAIN log
    BY <1>3 DEF Preceding
  <1> HIDE DEF preceding
  <1>6. FirstReceived(longer, preceding) = FirstReceived(log, preceding)
    BY <1>1, <1>5 DEF FirstReceived, ByReceipt
  <1>7. \A j \in FirstReceived(log, preceding) : log[j].raw = longer[j].raw
    BY <1>1, <1>5 DEF FirstReceived
  <1>8. OneOf(longer, FirstReceived(longer, preceding)) = OneOf(log, FirstReceived(log, preceding))
    BY <1>6, <1>7, OneOfAgrees
  <1> QED
    BY <1>1, <1>4, <1>8 DEF CheckedAt, preceding

\* So are the groups, and what they are made into.
LEMMA GroupStays ==
  ASSUME NEW log, NEW longer, NEW cutoff, AddsOnlyLater(longer, log, cutoff), NEW o
  PROVE  /\ Group(longer, cutoff, o) = Group(log, cutoff, o)
         /\ Group(log, cutoff, o) \subseteq DOMAIN log
  <1>1. /\ Available(longer, cutoff) = Available(log, cutoff)
        /\ Available(log, cutoff) \subseteq DOMAIN log
        /\ \A j \in DOMAIN log : longer[j] = log[j]
    BY AvailableStays
  <1>2. \A j \in DOMAIN log : CheckedAt(longer, cutoff, j) = CheckedAt(log, cutoff, j)
    BY CheckStays
  <1> QED
    BY <1>1, <1>2 DEF Group

\* The first bar of a minute depends on which bars of the group come before which.
LEMMA FirstOfAgrees ==
  ASSUME NEW log, NEW other, NEW cutoff, NEW group,
         \A i \in group : log[i].raw = other[i].raw,
         NEW s,
         \A i, j \in group : log[i].raw.start = s /\ log[j].raw.start = s =>
           (FirstOfTwo(log, cutoff, i, j) <=> FirstOfTwo(other, cutoff, i, j))
  PROVE  FirstOf(log, cutoff, group, s) = FirstOf(other, cutoff, group, s)
  <1> DEFINE same(l) == {i \in group : l[i].raw.start = s}
             first(l) == {i \in same(l) : \A j \in same(l) : FirstOfTwo(l, cutoff, i, j)}
  <1>1. same(log) = same(other)
    OBVIOUS
  <1>2. first(log) = first(other)
    BY <1>1
  <1>3. \A i \in first(log) : log[i].raw = other[i].raw
    OBVIOUS
  <1>4. FirstOf(log, cutoff, group, s) = OneOf(log, first(log))
        /\ FirstOf(other, cutoff, group, s) = OneOf(other, first(other))
    BY DEF FirstOf, FirstOfTwo
  <1> HIDE DEF first
  <1> QED
    BY <1>2, <1>3, <1>4, OneOfAgrees

\* A canonical bar depends on the raw bars of the group, on the first of each minute
\* and on their flags.
LEMMA CanonicalAgrees ==
  ASSUME NEW log, NEW other, NEW group, NEW bucket, NEW cutoff,
         \A i \in group : log[i].raw = other[i].raw,
         \A i \in group : FirstOf(log, cutoff, group, log[i].raw.start)
                             = FirstOf(other, cutoff, group, log[i].raw.start),
         (UNION {CheckedAt(log, cutoff, i) : i \in group})
             \cup (IF Repeated(log, group) THEN {"DUPLICATE"} ELSE {})
           = (UNION {CheckedAt(other, cutoff, i) : i \in group})
               \cup (IF Repeated(log, group) THEN {"DUPLICATE"} ELSE {})
  PROVE  Canonical(log, group, bucket, cutoff) = Canonical(other, group, bucket, cutoff)
  <1> DEFINE starts(l) == {l[i].raw.start : i \in group}
             flags(l) == (UNION {CheckedAt(l, cutoff, i) : i \in group})
                            \cup (IF Repeated(l, group) THEN {"DUPLICATE"} ELSE {})
             rest(l) == IF Complete(l, group, bucket, cutoff) THEN {}
                        ELSE {"INCOMPLETE", "MISSING_INTERVAL"}
  <1>1. starts(log) = starts(other)
    OBVIOUS
  <1>2. \A s \in starts(log) : FirstOf(log, cutoff, group, s) = FirstOf(other, cutoff, group, s)
    OBVIOUS
  <1>3. Repeated(log, group) <=> Repeated(other, group)
    BY DEF Repeated
  <1>4. Complete(log, group, bucket, cutoff) = Complete(other, group, bucket, cutoff)
    BY <1>1, <1>2 DEF Complete
  <1>5. flags(log) = flags(other) /\ rest(log) = rest(other)
    BY <1>3, <1>4
  <1>6. [s \in starts(log) |-> FirstOf(log, cutoff, group, s)]
        = [s \in starts(other) |-> FirstOf(other, cutoff, group, s)]
    BY <1>1, <1>2
  <1>7. /\ Canonical(log, group, bucket, cutoff) =
             [start |-> bucket, values |-> [s \in starts(log) |-> FirstOf(log, cutoff, group, s)],
              complete |-> Complete(log, group, bucket, cutoff),
              flags |-> flags(log) \cup rest(log)]
        /\ Canonical(other, group, bucket, cutoff) =
             [start |-> bucket,
              values |-> [s \in starts(other) |-> FirstOf(other, cutoff, group, s)],
              complete |-> Complete(other, group, bucket, cutoff),
              flags |-> flags(other) \cup rest(other)]
    BY DEF Canonical
  <1> HIDE DEF starts, flags, rest
  <1> QED
    BY <1>4, <1>5, <1>6, <1>7

\* Bars that were not known at a cutoff do not change what is computed for it.
LEMMA AggregateStays ==
  ASSUME NEW log, NEW longer, NEW cutoff, AddsOnlyLater(longer, log, cutoff)
  PROVE  Aggregate(longer, cutoff) = Aggregate(log, cutoff)
  <1>1. DOMAIN log \subseteq DOMAIN longer /\ \A j \in DOMAIN log : longer[j] = log[j]
    BY DEF AddsOnlyLater, Continues
  <1>2. \A j \in DOMAIN log : CheckedAt(longer, cutoff, j) = CheckedAt(log, cutoff, j)
    BY CheckStays
  <1>3. \A o : /\ Group(longer, cutoff, o) = Group(log, cutoff, o)
               /\ Group(log, cutoff, o) \subseteq DOMAIN log
    BY GroupStays
  <1>4. ASSUME NEW i \in DOMAIN log, i \in Group(log, cutoff, log[i].raw)
        PROVE  Canonical(longer, Group(log, cutoff, log[i].raw), BucketOf(log[i].raw), cutoff)
               = Canonical(log, Group(log, cutoff, log[i].raw), BucketOf(log[i].raw), cutoff)
    <2> DEFINE group == Group(log, cutoff, log[i].raw)
    <2>1. group \subseteq DOMAIN log
      BY <1>3
    <2> HIDE DEF group
    <2>2. \A j \in group : longer[j].raw = log[j].raw
      BY <1>1, <2>1
    <2>3. {CheckedAt(longer, cutoff, j) : j \in group} = {CheckedAt(log, cutoff, j) : j \in group}
      BY <1>2, <2>1
    <2> DEFINE repeated == IF Repeated(longer, group) THEN {"DUPLICATE"} ELSE {}
               here == UNION {CheckedAt(longer, cutoff, j) : j \in group}
               before == UNION {CheckedAt(log, cutoff, j) : j \in group}
    <2>4. here = before
      BY <2>3
    <2>5. here \cup repeated = before \cup repeated
      <3> HIDE DEF here, before, repeated
      <3> QED
        BY <2>4
    <2> HIDE DEF here, before, repeated
    <2>6. \A j, k \in group : FirstOfTwo(longer, cutoff, j, k) <=> FirstOfTwo(log, cutoff, j, k)
      BY <1>1, <1>2, <2>1 DEF FirstOfTwo
    <2>7. \A s : FirstOf(longer, cutoff, group, s) = FirstOf(log, cutoff, group, s)
      BY <2>2, <2>6, FirstOfAgrees
    <2>8. \A bucket : Canonical(longer, group, bucket, cutoff)
                      = Canonical(log, group, bucket, cutoff)
      BY <2>2, <2>5, <2>7, CanonicalAgrees DEF here, before, repeated
    <2> QED
      BY <2>8 DEF group
  <1>5. ASSUME NEW c \in Aggregate(log, cutoff) PROVE c \in Aggregate(longer, cutoff)
    <2>1. PICK i \in DOMAIN log :
            /\ i \in Group(log, cutoff, log[i].raw)
            /\ c = Canonical(log, Group(log, cutoff, log[i].raw), BucketOf(log[i].raw), cutoff)
      BY CanonicalOfGroup
    <2>2. i \in DOMAIN longer /\ longer[i] = log[i]
          /\ Group(longer, cutoff, longer[i].raw) = Group(log, cutoff, log[i].raw)
      BY <1>1, <1>3
    <2>3. Canonical(longer, Group(longer, cutoff, longer[i].raw), BucketOf(longer[i].raw), cutoff)
            \in Aggregate(longer, cutoff)
      BY <2>1, <2>2, GroupHasCanonical
    <2> QED
      BY <1>4, <2>1, <2>2, <2>3
  <1>6. ASSUME NEW c \in Aggregate(longer, cutoff) PROVE c \in Aggregate(log, cutoff)
    <2>1. PICK i \in DOMAIN longer :
            /\ i \in Group(longer, cutoff, longer[i].raw)
            /\ c = Canonical(longer, Group(longer, cutoff, longer[i].raw),
                             BucketOf(longer[i].raw), cutoff)
      BY CanonicalOfGroup
    <2>2. i \in DOMAIN log
      BY <1>3, <2>1
    <2>3. longer[i] = log[i] /\ Group(longer, cutoff, longer[i].raw) = Group(log, cutoff, log[i].raw)
      BY <1>1, <1>3, <2>2
    <2>4. Canonical(log, Group(log, cutoff, log[i].raw), BucketOf(log[i].raw), cutoff)
            \in Aggregate(log, cutoff)
      BY <2>1, <2>2, <2>3, GroupHasCanonical
    <2> QED
      BY <1>4, <2>1, <2>2, <2>3, <2>4
  <1> QED
    BY <1>5, <1>6

\* No ingestion changes what was computed, or would have been, for a cutoff at
\* which its bars were not yet over or not yet received.
THEOREM PastStays == Spec => FutureChangesNothing
  <1> DEFINE Quiet ==
        bars' # bars => \A cutoff \in Time :
          (\A i \in DOMAIN bars' \ DOMAIN bars : ~Known(bars'[i].raw, cutoff)) =>
            Aggregate(bars', cutoff) = Aggregate(bars, cutoff)
  <1>1. BarInv /\ [Next]_vars => [Quiet]_vars
    <2> SUFFICES ASSUME BarInv, [Next]_vars PROVE Quiet
      OBVIOUS
    <2>1. Continues(bars', bars)
      BY StepAdvances DEF BarInv, Advances
    <2> QED
      BY <2>1, AggregateStays DEF AddsOnlyLater
  <1>2. Spec => [][Quiet]_vars
    BY <1>1, BarInvHolds, PTL DEF Spec
  <1> QED
    BY <1>2 DEF FutureChangesNothing

-----------------------------------------------------------------------------
(* Ingestion and aggregation agree on bars in the order of their receipt.  *)

\* The bars as they came, without the flags of ingestion.
Bare(log) == [i \in DOMAIN log |-> [log[i] EXCEPT !.flags = {}]]

\* A log in order of receipt, with the flags of arrival, all of it known.
Orderly(log, cutoff) ==
  /\ log \in Seq(Bar)
  /\ \A i \in DOMAIN log : Known(log[i].raw, cutoff)
  /\ \A i \in DOMAIN log : log[i].flags = ArrivalFlags(log, i)
  /\ \A i, j \in DOMAIN log :
       i < j => \/ log[i].raw.received < log[j].raw.received
                \/ /\ log[i].raw.received = log[j].raw.received
                   /\ log[i].raw.start <= log[j].raw.start

\* The invariant and InReceiptOrder say that bars are such a log.
LEMMA OrderlyBars ==
  ASSUME BarInv, InReceiptOrder
  PROVE  Orderly(bars, now)
  BY DEF BarInv, TypeOK, FlagsOnArrival, InReceiptOrder, Orderly

\* The bare log has the same raw bars.
LEMMA BareBars ==
  ASSUME NEW log \in Seq(Bar)
  PROVE  /\ DOMAIN Bare(log) = DOMAIN log
         /\ \A i \in DOMAIN log : Bare(log)[i].raw = log[i].raw /\ Bare(log)[i].flags = {}
  <1>1. \A i \in DOMAIN log : log[i] \in Bar
    BY BarsOfLog
  <1> QED
    BY <1>1 DEF Bare, Bar

\* The sort of aggregate keeps the order of the log.
LEMMA SortedAlready ==
  ASSUME NEW log, NEW cutoff, Orderly(log, cutoff), NEW i \in DOMAIN log, NEW j \in DOMAIN log
  PROVE  ByReceipt(log, i, j) <=> i < j
  <1>1. /\ log[i].raw \in Observation /\ log[j].raw \in Observation /\ i \in Nat /\ j \in Nat
    BY BarsOfLog DEF Orderly
  <1>2. /\ log[i].raw.received \in Nat /\ log[j].raw.received \in Nat
        /\ log[i].raw.start \in Nat /\ log[j].raw.start \in Nat
    BY <1>1, ObservationTimes
  <1>3. i < j => \/ log[i].raw.received < log[j].raw.received
                 \/ /\ log[i].raw.received = log[j].raw.received
                    /\ log[i].raw.start <= log[j].raw.start
    BY DEF Orderly
  <1>4. j < i => \/ log[j].raw.received < log[i].raw.received
                 \/ /\ log[j].raw.received = log[i].raw.received
                    /\ log[j].raw.start <= log[i].raw.start
    BY DEF Orderly
  <1> QED
    BY <1>1, <1>2, <1>3, <1>4 DEF ByReceipt

\* So aggregate checks a bar after the one that ingestion checked it after.
LEMMA SamePredecessor ==
  ASSUME NEW log, NEW cutoff, Orderly(log, cutoff), NEW other,
         DOMAIN other = DOMAIN log, \A j \in DOMAIN log : other[j].raw = log[j].raw,
         NEW i \in DOMAIN log
  PROVE  OneOf(other, FirstReceived(other, Preceding(other, Older(other, cutoff, i), other[i].raw)))
         = OneOf(log, FirstStored(Preceding(log, 1 .. i - 1, log[i].raw)))
  <1>1. DOMAIN log = 1 .. Len(log) /\ Len(log) \in Nat
    BY LenProperties DEF Orderly
  <1>2. Available(other, cutoff) = DOMAIN log
    BY DEF Available, Orderly
  <1>3. \A j, k \in DOMAIN log : ByReceipt(other, j, k) <=> j < k
    <2>1. \A j, k \in DOMAIN log : ByReceipt(other, j, k) <=> ByReceipt(log, j, k)
      BY DEF ByReceipt
    <2> QED
      BY <2>1, SortedAlready
  <1>4. Older(other, cutoff, i) = 1 .. i - 1
    BY <1>1, <1>2, <1>3 DEF Older
  <1>5. 1 .. i - 1 \subseteq DOMAIN log
    BY <1>1
  <1> DEFINE preceding == Preceding(log, 1 .. i - 1, log[i].raw)
  <1>6. Preceding(other, Older(other, cutoff, i), other[i].raw) = preceding
    <2>1. \A j \in 1 .. i - 1 : log[j].raw = other[j].raw
      BY <1>5
    <2>2. Preceding(log, 1 .. i - 1, log[i].raw) = Preceding(other, 1 .. i - 1, log[i].raw)
      <3> DEFINE positions == 1 .. i - 1
      <3>1. \A j \in positions : log[j].raw = other[j].raw
        BY <2>1
      <3> HIDE DEF positions
      <3>2. Preceding(log, positions, log[i].raw) = Preceding(other, positions, log[i].raw)
        BY <3>1, PrecedingAgrees
      <3> QED
        BY <3>2 DEF positions
    <2> QED
      BY <1>4, <2>2
  <1>7. preceding \subseteq DOMAIN log
    BY <1>5 DEF Preceding
  <1> HIDE DEF preceding
  <1>8. FirstReceived(other, preceding) = FirstStored(preceding)
    <2>1. \A j, k \in preceding : j \in Nat /\ k \in Nat /\ (ByReceipt(other, j, k) <=> j < k)
      BY <1>1, <1>3, <1>7
    <2> QED
      BY <2>1 DEF FirstReceived, FirstStored
  <1>9. \A j \in FirstStored(preceding) : other[j].raw = log[j].raw
    BY <1>7 DEF FirstStored
  <1>10. OneOf(other, FirstStored(preceding)) = OneOf(log, FirstStored(preceding))
    BY <1>9, OneOfAgrees
  <1> QED
    BY <1>6, <1>8, <1>10 DEF preceding

\* Checking again adds nothing; checking the bare log finds all but a repetition.
LEMMA CheckedTheSame ==
  ASSUME NEW log, NEW cutoff, Orderly(log, cutoff), NEW i \in DOMAIN log
  PROVE  /\ CheckedAt(log, cutoff, i) = log[i].flags
         /\ log[i].flags = CheckedAt(Bare(log), cutoff, i)
                             \cup (IF Seen(log, i) THEN {"DUPLICATE"} ELSE {})
  <1>1. log \in Seq(Bar) /\ log[i].flags = ArrivalFlags(log, i)
    BY DEF Orderly
  <1>2. /\ DOMAIN Bare(log) = DOMAIN log
        /\ \A j \in DOMAIN log : Bare(log)[j].raw = log[j].raw /\ Bare(log)[j].flags = {}
    BY <1>1, BareBars
  <1> DEFINE previous == OneOf(log, FirstStored(Preceding(log, 1 .. i - 1, log[i].raw)))
  <1>3. CheckedAt(log, cutoff, i) = log[i].flags \cup Check(log[i].raw, previous)
    BY SamePredecessor DEF CheckedAt
  <1>4. CheckedAt(Bare(log), cutoff, i) = Check(log[i].raw, previous)
    BY <1>2, SamePredecessor DEF CheckedAt
  <1>5. ArrivalFlags(log, i) =
          Check(log[i].raw, previous) \cup (IF Seen(log, i) THEN {"DUPLICATE"} ELSE {})
    BY DEF ArrivalFlags
  <1> HIDE DEF previous
  <1> QED
    BY <1>1, <1>3, <1>4, <1>5

\* A bar whose key was seen before shares its group with the one before it.
LEMMA SeenIsRepeated ==
  ASSUME NEW log, NEW cutoff, Orderly(log, cutoff), NEW o,
         NEW i \in Group(log, cutoff, o), Seen(log, i)
  PROVE  Repeated(log, Group(log, cutoff, o))
  <1>1. /\ i \in DOMAIN log /\ SameFeed(log[i].raw, o) /\ BucketOf(log[i].raw) = BucketOf(o)
        /\ Placed(log[i])
    BY GroupMembers
  <1>2. DOMAIN log = 1 .. Len(log) /\ Len(log) \in Nat
    BY LenProperties DEF Orderly
  <1>3. PICK j \in 1 .. i - 1 :
          SameFeed(log[j].raw, log[i].raw) /\ log[j].raw.start = log[i].raw.start
    BY DEF Seen
  <1>4. j \in DOMAIN log /\ j # i
    BY <1>1, <1>2, <1>3
  <1>5. Known(log[j].raw, cutoff) /\ log[j].flags = ArrivalFlags(log, j)
    BY <1>4 DEF Orderly
  <1>6. Placed(log[j])
    <2>1. InSession(log[j].raw) /\ (log[j].raw.start - Session.open) % Minute = 0
      BY <1>1, <1>3 DEF Placed, InSession, End
    <2>2. log[j].raw.marks \cap {"OUT_OF_SESSION", "MISALIGNED"} = {}
      BY <1>4, BarsOfLog, MarksAreNoPlaces DEF Orderly
    <2>3. "OUT_OF_SESSION" \notin log[j].flags /\ "MISALIGNED" \notin log[j].flags
      BY <1>5, <2>1, <2>2 DEF ArrivalFlags, Check
    <2> QED
      BY <2>1, <2>2, <2>3 DEF Placed
  <1>7. SameFeed(log[j].raw, o) /\ BucketOf(log[j].raw) = BucketOf(o)
    BY <1>1, <1>3 DEF SameFeed, BucketOf
  <1>8. j \in Group(log, cutoff, o)
    BY <1>4, <1>5, <1>6, <1>7, GroupMembers
  <1> QED
    BY <1>3, <1>4, <1>8 DEF Repeated

\* The groups of the bare log are those of the log.
LEMMA BareGroups ==
  ASSUME NEW log, NEW cutoff, Orderly(log, cutoff), NEW o
  PROVE  Group(Bare(log), cutoff, o) = Group(log, cutoff, o)
  <1>1. log \in Seq(Bar)
    BY DEF Orderly
  <1>2. /\ DOMAIN Bare(log) = DOMAIN log
        /\ \A j \in DOMAIN log : Bare(log)[j].raw = log[j].raw /\ Bare(log)[j].flags = {}
    BY <1>1, BareBars
  <1>3. Available(Bare(log), cutoff) = Available(log, cutoff)
        /\ Available(log, cutoff) \subseteq DOMAIN log
    BY <1>2 DEF Available
  <1>4. \A i \in DOMAIN log :
          CheckedAt(Bare(log), cutoff, i) \cap {"OUT_OF_SESSION", "MISALIGNED"}
          = CheckedAt(log, cutoff, i) \cap {"OUT_OF_SESSION", "MISALIGNED"}
    <2> TAKE i \in DOMAIN log
    <2>1. CheckedAt(log, cutoff, i) = CheckedAt(Bare(log), cutoff, i)
                                        \cup (IF Seen(log, i) THEN {"DUPLICATE"} ELSE {})
      BY CheckedTheSame
    <2> QED
      BY <2>1
  <1> QED
    BY <1>2, <1>3, <1>4 DEF Group

\* No two different bars of one feed and minute were received at one instant.
Untied(log) ==
  \A i, j \in DOMAIN log :
    LET o == log[i].raw
        p == log[j].raw
    IN SameFeed(o, p) /\ o.start = p.start /\ o.received = p.received => o = p

\* Then the flags do not tell which bar of a minute is the first, nor do they where
\* the minute has one bar only.
LEMMA BareFirsts ==
  ASSUME NEW log, NEW cutoff, Orderly(log, cutoff), NEW o,
         ~Repeated(log, Group(log, cutoff, o)) \/ Untied(log),
         NEW i \in Group(log, cutoff, o)
  PROVE  FirstOf(log, cutoff, Group(log, cutoff, o), log[i].raw.start)
         = FirstOf(Bare(log), cutoff, Group(log, cutoff, o), log[i].raw.start)
  <1> DEFINE group == Group(log, cutoff, o)
  <1>1. group \subseteq DOMAIN log /\ i \in group
        /\ \A j, k \in group : SameFeed(log[j].raw, log[k].raw)
    BY GroupMembers DEF SameFeed
  <1>2. \A j \in group : log[j].raw = Bare(log)[j].raw /\ log[j].raw \in Observation
    BY <1>1, BareBars, BarsOfLog DEF Orderly
  <1>3. CASE ~Repeated(log, group)
    <2> HIDE DEF group
    <2>1. ~Repeated(Bare(log), group)
      BY <1>2, <1>3 DEF Repeated
    <2>2. /\ FirstOf(log, cutoff, group, log[i].raw.start) = log[i].raw
          /\ FirstOf(Bare(log), cutoff, group, Bare(log)[i].raw.start) = Bare(log)[i].raw
      BY <1>1, <1>3, <2>1, OnlyOfItsMinute
    <2> QED
      BY <1>1, <1>2, <2>2 DEF group
  <1>4. CASE Untied(log)
    <2> HIDE DEF group
    <2>1. ASSUME NEW j \in group, NEW k \in group, log[j].raw.start = log[k].raw.start
          PROVE  FirstOfTwo(log, cutoff, j, k) <=> FirstOfTwo(Bare(log), cutoff, j, k)
      <3>1. log[j].raw.received = log[k].raw.received => log[j].raw = log[k].raw
        BY <1>1, <1>4, <2>1 DEF Untied
      <3> QED
        BY <1>2, <3>1 DEF FirstOfTwo
    <2>2. FirstOf(log, cutoff, group, log[i].raw.start)
          = FirstOf(Bare(log), cutoff, group, log[i].raw.start)
      BY <1>2, <2>1, FirstOfAgrees
    <2> QED
      BY <2>2 DEF group
  <1> QED
    BY <1>3, <1>4

\* And neither do the canonical bars differ.
LEMMA BareCanonicals ==
  ASSUME NEW log, NEW cutoff, Orderly(log, cutoff), NEW o, NEW bucket,
         ~Repeated(log, Group(log, cutoff, o)) \/ Untied(log)
  PROVE  LET group == Group(log, cutoff, o)
         IN Canonical(log, group, bucket, cutoff) = Canonical(Bare(log), group, bucket, cutoff)
  <1> DEFINE group == Group(log, cutoff, o)
             repeated == IF Repeated(log, group) THEN {"DUPLICATE"} ELSE {}
  <1>1. group \subseteq DOMAIN log
    BY GroupMembers
  <1>2. \A i \in group : log[i].raw = Bare(log)[i].raw
    BY <1>1, BareBars DEF Orderly
  <1>3. \A i \in group : Seen(log, i) => Repeated(log, group)
    BY SeenIsRepeated
  <1>4. \A i \in group : FirstOf(log, cutoff, group, log[i].raw.start)
                          = FirstOf(Bare(log), cutoff, group, log[i].raw.start)
    BY BareFirsts
  <1> HIDE DEF group
  <1>5. \A i \in group :
          /\ CheckedAt(Bare(log), cutoff, i) \subseteq CheckedAt(log, cutoff, i)
          /\ CheckedAt(log, cutoff, i) \subseteq CheckedAt(Bare(log), cutoff, i) \cup repeated
    <2> TAKE i \in group
    <2>1. CheckedAt(log, cutoff, i) = CheckedAt(Bare(log), cutoff, i)
                                        \cup (IF Seen(log, i) THEN {"DUPLICATE"} ELSE {})
      BY <1>1, CheckedTheSame
    <2> QED
      BY <1>3, <2>1
  <1> HIDE DEF repeated
  <1>6. (UNION {CheckedAt(log, cutoff, i) : i \in group}) \cup repeated
        = (UNION {CheckedAt(Bare(log), cutoff, i) : i \in group}) \cup repeated
    BY <1>5
  <1>7. Canonical(log, group, bucket, cutoff) = Canonical(Bare(log), group, bucket, cutoff)
    BY <1>2, <1>4, <1>6, CanonicalAgrees DEF repeated
  <1> QED
    BY <1>7 DEF group

\* What one group is made into, both aggregations have.
LEMMA BothAggregate ==
  ASSUME NEW log, NEW cutoff, Orderly(log, cutoff), NEW i \in DOMAIN log,
         i \in Group(log, cutoff, log[i].raw),
         ~Repeated(log, Group(log, cutoff, log[i].raw)) \/ Untied(log)
  PROVE  LET group == Group(log, cutoff, log[i].raw)
             bucket == BucketOf(log[i].raw)
         IN /\ Canonical(log, group, bucket, cutoff) \in Aggregate(Bare(log), cutoff)
            /\ Canonical(Bare(log), group, bucket, cutoff) \in Aggregate(log, cutoff)
  <1> DEFINE group == Group(log, cutoff, log[i].raw)
             bucket == BucketOf(log[i].raw)
  <1>1. i \in DOMAIN Bare(log) /\ Bare(log)[i].raw = log[i].raw
    BY BareBars DEF Orderly
  <1>2. Group(Bare(log), cutoff, Bare(log)[i].raw) = group
    BY <1>1, BareGroups
  <1>3. Canonical(log, group, bucket, cutoff) \in Aggregate(log, cutoff)
    BY GroupHasCanonical
  <1>4. Canonical(Bare(log), group, bucket, cutoff) \in Aggregate(Bare(log), cutoff)
    BY <1>1, <1>2, GroupHasCanonical
  <1>5. Canonical(log, group, bucket, cutoff) = Canonical(Bare(log), group, bucket, cutoff)
    BY BareCanonicals
  <1> QED
    BY <1>3, <1>4, <1>5

\* Where a canonical bar of the bare log comes from.
LEMMA BareOfGroup ==
  ASSUME NEW log, NEW cutoff, Orderly(log, cutoff), NEW c \in Aggregate(Bare(log), cutoff)
  PROVE  \E i \in DOMAIN log :
           /\ i \in Group(log, cutoff, log[i].raw)
           /\ c = Canonical(Bare(log), Group(log, cutoff, log[i].raw), BucketOf(log[i].raw), cutoff)
  <1>1. PICK i \in DOMAIN Bare(log) :
          /\ i \in Group(Bare(log), cutoff, Bare(log)[i].raw)
          /\ c = Canonical(Bare(log), Group(Bare(log), cutoff, Bare(log)[i].raw),
                           BucketOf(Bare(log)[i].raw), cutoff)
    BY CanonicalOfGroup
  <1>2. i \in DOMAIN log /\ Bare(log)[i].raw = log[i].raw
    BY <1>1, BareBars DEF Orderly
  <1>3. Group(Bare(log), cutoff, Bare(log)[i].raw) = Group(log, cutoff, log[i].raw)
    BY <1>2, BareGroups
  <1> QED
    BY <1>1, <1>2, <1>3

\* Without ties the flags of ingestion add nothing to what the raw bars give.
LEMMA BareAggregate ==
  ASSUME NEW log, NEW cutoff, Orderly(log, cutoff), Untied(log)
  PROVE  Aggregate(log, cutoff) = Aggregate(Bare(log), cutoff)
  <1>1. ASSUME NEW c \in Aggregate(log, cutoff) PROVE c \in Aggregate(Bare(log), cutoff)
    BY CanonicalOfGroup, BothAggregate
  <1>2. ASSUME NEW c \in Aggregate(Bare(log), cutoff) PROVE c \in Aggregate(log, cutoff)
    BY BareOfGroup, BothAggregate
  <1> QED
    BY <1>1, <1>2

\* A ready bar has no repeated minute.
LEMMA ReadyIsSingle ==
  ASSUME NEW log, NEW group, NEW bucket, NEW cutoff,
         StrategyReady(Canonical(log, group, bucket, cutoff))
  PROVE  ~Repeated(log, group)
  BY DEF StrategyReady, Canonical

\* With ties or without, the ready bars are those of the raw bars.
LEMMA BareReady ==
  ASSUME NEW log, NEW cutoff, Orderly(log, cutoff)
  PROVE  ReadyBars(log, cutoff) = ReadyBars(Bare(log), cutoff)
  <1>1. ASSUME NEW c \in ReadyBars(log, cutoff) PROVE c \in ReadyBars(Bare(log), cutoff)
    <2>1. c \in Aggregate(log, cutoff) /\ StrategyReady(c)
      BY DEF ReadyBars
    <2>2. PICK i \in DOMAIN log :
            /\ i \in Group(log, cutoff, log[i].raw)
            /\ c = Canonical(log, Group(log, cutoff, log[i].raw), BucketOf(log[i].raw), cutoff)
      BY <2>1, CanonicalOfGroup
    <2>3. ~Repeated(log, Group(log, cutoff, log[i].raw))
      BY <2>1, <2>2, ReadyIsSingle
    <2>4. c \in Aggregate(Bare(log), cutoff)
      BY <2>2, <2>3, BothAggregate
    <2> QED
      BY <2>1, <2>4 DEF ReadyBars
  <1>2. ASSUME NEW c \in ReadyBars(Bare(log), cutoff) PROVE c \in ReadyBars(log, cutoff)
    <2>1. c \in Aggregate(Bare(log), cutoff) /\ StrategyReady(c)
      BY DEF ReadyBars
    <2>2. PICK i \in DOMAIN log :
            /\ i \in Group(log, cutoff, log[i].raw)
            /\ c = Canonical(Bare(log), Group(log, cutoff, log[i].raw), BucketOf(log[i].raw), cutoff)
      BY <2>1, BareOfGroup
    <2> DEFINE group == Group(log, cutoff, log[i].raw)
    <2>3. ~Repeated(Bare(log), group)
      BY <2>1, <2>2, ReadyIsSingle
    <2>4. \A j \in group : Bare(log)[j].raw = log[j].raw
      BY GroupMembers, BareBars DEF Orderly
    <2>5. ~Repeated(log, group)
      <3> HIDE DEF group
      <3> QED
        BY <2>3, <2>4 DEF Repeated
    <2>6. c \in Aggregate(log, cutoff)
      BY <2>2, <2>5, BothAggregate
    <2> QED
      BY <2>1, <2>6 DEF ReadyBars
  <1> QED
    BY <1>1, <1>2

\* As long as bars came in the order of their receipt, a replay of the raw bars finds
\* the ready bars of the live service, and without ties all its canonical bars.
THEOREM FlagsReproduce == Spec => []FlagsAreReproducible
  <1>1. BarInv => FlagsAreReproducible
    <2> SUFFICES ASSUME BarInv, InReceiptOrder
                 PROVE  /\ ReadyBars(bars, now) = ReadyBars(Bare(bars), now)
                        /\ NoTies => Aggregate(bars, now) = Aggregate(Bare(bars), now)
      BY DEF FlagsAreReproducible, Bare
    <2>1. Orderly(bars, now)
      BY OrderlyBars
    <2>2. NoTies <=> Untied(bars)
      BY DEF NoTies, Untied
    <2> QED
      BY <2>1, <2>2, BareReady, BareAggregate
  <1> QED
    BY <1>1, BarInvHolds, PTL

-----------------------------------------------------------------------------
(* Minutes and buckets. *)

\* Division with remainder.
LEMMA Division ==
  ASSUME NEW x \in Int, NEW w \in Nat \ {0}
  PROVE  /\ x \div w \in Int /\ x % w \in Int
         /\ x = w * (x \div w) + (x % w)
         /\ 0 <= x % w /\ x % w < w
  OBVIOUS

\* Without remainder.
LEMMA ExactDivision ==
  ASSUME NEW x \in Int, NEW w \in Nat \ {0}, x % w = 0
  PROVE  \E q \in Int : x = w * q
  <1>1. x \div w \in Int /\ x = w * (x \div w) + (x % w) /\ w * (x \div w) \in Int
    BY Division
  <1>2. x = w * (x \div w)
    BY <1>1
  <1> QED
    BY <1>1, <1>2

\* The quotient is the one that leaves a small remainder.
LEMMA QuotientIsUnique ==
  ASSUME NEW w \in Nat \ {0}, NEW p \in Int, NEW q \in Int, NEW x \in Int,
         w * p <= x, x < w * p + w, w * q <= x, x < w * q + w
  PROVE  p = q
  <1>1. w * p < w * (q + 1) /\ w * q < w * (p + 1)
    OBVIOUS
  <1>2. \A m, n \in Int : w * m < w * n => m < n
    OBVIOUS
  <1>3. p < q + 1 /\ q < p + 1
    BY <1>1, <1>2
  <1> QED
    BY <1>3

\* A multiple of minutes inside a bucket is one of the bucket's minutes.
LEMMA MinuteOfBucket ==
  ASSUME NEW m \in Nat \ {0}, NEW b \in Nat \ {0}, NEW p \in Int, NEW q \in Int,
         NEW l, l = m * b, l * p <= m * q, m * q < l * p + l
  PROVE  q - b * p \in 0 .. b - 1
  <1>1. l * p = m * (b * p) /\ b * p \in Int
    OBVIOUS
  <1>2. l * p + l = m * (b * p + b)
    OBVIOUS
  <1>3. \A i, j \in Int : /\ m * i <= m * j => i <= j
                          /\ m * i < m * j => i < j
    OBVIOUS
  <1>4. b * p <= q /\ q < b * p + b
    BY <1>1, <1>2, <1>3
  <1> QED
    BY <1>1, <1>4

\* Whole numbers of minutes divide by the minute.
LEMMA WholeMinutes ==
  ASSUME NEW m \in Nat \ {0}, NEW k \in Int
  PROVE  (m * k) % m = 0
  <1>1. m * k \in Int
    OBVIOUS
  <1> DEFINE q == (m * k) \div m
             r == (m * k) % m
  <1>2. q \in Int /\ m * k = m * q + r /\ 0 <= r /\ r < m /\ r \in Int
    BY <1>1, Division
  <1> HIDE DEF q, r
  <1>3. m * k < m * k + m /\ m * q <= m * k /\ m * k < m * q + m
    BY <1>1, <1>2
  <1>4. k = q
    BY <1>1, <1>2, <1>3, QuotientIsUnique
  <1>5. r = 0
    BY <1>2, <1>4
  <1> QED
    BY <1>5 DEF r

Length == Minute * BucketMinutes

\* A session of a whole number of buckets.
WholeBuckets == (Session.close - Session.open) % Length = 0

\* The lengths are positive.
LEMMA Lengths ==
  /\ Minute \in Nat \ {0} /\ BucketMinutes \in Nat \ {0} /\ Length \in Nat \ {0}
  /\ Session.open \in Nat /\ Session.close \in Nat
  BY LengthsArePositive, SessionIsOrdered DEF Length

\* A bar lies in its bucket, and in no other.
LEMMA BucketBounds ==
  ASSUME NEW o, o.start \in Nat
  PROVE  \E p \in Int :
           /\ BucketOf(o) = Session.open + Length * p
           /\ BucketOf(o) <= o.start /\ o.start < BucketOf(o) + Length
           /\ o.start >= Session.open => p >= 0
           /\ BucketOf(o) \in Int
  <1> DEFINE p == (o.start - Session.open) \div Length
             r == (o.start - Session.open) % Length
  <1>1. o.start - Session.open \in Int /\ Length \in Nat \ {0} /\ Session.open \in Nat
    BY Lengths
  <1>2. /\ p \in Int /\ o.start - Session.open = Length * p + r
        /\ r \in Int /\ 0 <= r /\ r < Length
    BY <1>1, Division
  <1>3. BucketOf(o) = Session.open + Length * p
    BY DEF BucketOf, Length
  <1> HIDE DEF p, r
  <1>4. Length * p \in Int
    BY <1>1, <1>2
  <1>5. BucketOf(o) \in Int /\ BucketOf(o) <= o.start /\ o.start < BucketOf(o) + Length
    BY <1>1, <1>2, <1>3, <1>4
  <1>6. o.start >= Session.open => p >= 0
    <2> SUFFICES ASSUME o.start >= Session.open, p < 0 PROVE FALSE
      BY <1>2
    <2>1. Length * p + Length <= 0
      <3>1. p + 1 <= 0 /\ Length * (p + 1) = Length * p + Length
        BY <1>1, <1>2
      <3>2. \A x \in Int : x <= 0 => Length * x <= 0
        BY <1>1
      <3> QED
        BY <1>2, <3>1, <3>2
    <2> QED
      BY <1>1, <1>2, <1>4, <2>1
  <1> QED
    BY <1>2, <1>3, <1>5, <1>6

\* The bars between the bounds of a bucket are those of the bucket.
LEMMA SameBucket ==
  ASSUME NEW o, o.start \in Nat, NEW x, x.start \in Nat,
         BucketOf(o) <= x.start, x.start < BucketOf(o) + Length
  PROVE  BucketOf(x) = BucketOf(o)
  <1>1. PICK p \in Int : BucketOf(o) = Session.open + Length * p
    BY BucketBounds
  <1>2. PICK q \in Int : /\ BucketOf(x) = Session.open + Length * q
                         /\ BucketOf(x) <= x.start /\ x.start < BucketOf(x) + Length
    BY BucketBounds
  <1>3. /\ Length \in Nat \ {0} /\ Session.open \in Nat
        /\ Length * p \in Int /\ Length * q \in Int /\ x.start - Session.open \in Int
    BY Lengths
  <1>4. /\ Length * p <= x.start - Session.open /\ x.start - Session.open < Length * p + Length
        /\ Length * q <= x.start - Session.open /\ x.start - Session.open < Length * q + Length
    BY <1>1, <1>2, <1>3
  <1>5. p = q
    BY <1>3, <1>4, QuotientIsUnique
  <1> QED
    BY <1>1, <1>2, <1>5

\* An aligned start in a bucket is one of the minutes that are expected there.
LEMMA AlignedIsExpected ==
  ASSUME NEW o, o.start \in Nat, NEW x \in Nat,
         BucketOf(o) <= x, x < BucketOf(o) + Length,
         (x - Session.open) % Minute = 0
  PROVE  x \in Expected(BucketOf(o))
  <1>1. PICK p \in Int : BucketOf(o) = Session.open + Length * p
    BY BucketBounds
  <1>2. /\ Minute \in Nat \ {0} /\ BucketMinutes \in Nat \ {0}
        /\ Session.open \in Nat /\ x - Session.open \in Int
    BY Lengths
  <1>3. PICK q \in Int : x - Session.open = Minute * q
    BY <1>2, ExactDivision
  <1>4. Length * p \in Int /\ Minute * q \in Int /\ Length \in Int
    BY <1>2, <1>3, Lengths
  <1>5. Length * p <= Minute * q /\ Minute * q < Length * p + Length
    BY <1>1, <1>2, <1>3, <1>4
  <1>6. q - BucketMinutes * p \in 0 .. BucketMinutes - 1
    BY <1>2, <1>3, <1>5, MinuteOfBucket DEF Length
  <1>7. x = BucketOf(o) + Minute * (q - BucketMinutes * p)
    <2>1. Minute * (q - BucketMinutes * p) = Minute * q - Length * p
      BY <1>2, <1>3 DEF Length
    <2> QED
      BY <1>1, <1>2, <1>3, <1>4, <2>1
  <1> QED
    BY <1>6, <1>7 DEF Expected

\* In whole sessions the minutes of a bucket are minutes of the session.
LEMMA ExpectedIsAligned ==
  ASSUME WholeBuckets, NEW o, o.start \in Nat, InSession(o),
         NEW m \in Expected(BucketOf(o))
  PROVE  LET bucket == BucketOf(o)
         IN /\ m \in bucket .. (bucket + Length) - Minute
            /\ (m - bucket) % Minute = 0 /\ (m - Session.open) % Minute = 0
            /\ Session.open <= m /\ m + Minute <= Session.close
            /\ m + Minute <= bucket + Length
  <1>1. PICK p \in Int :
          /\ BucketOf(o) = Session.open + Length * p
          /\ BucketOf(o) <= o.start /\ o.start < BucketOf(o) + Length
          /\ o.start >= Session.open => p >= 0
    BY BucketBounds
  <1>2. PICK k \in 0 .. BucketMinutes - 1 : m = BucketOf(o) + Minute * k
    BY DEF Expected
  <1>3. /\ Minute \in Nat \ {0} /\ BucketMinutes \in Nat \ {0} /\ Length \in Nat \ {0}
        /\ Session.open \in Nat /\ Session.close \in Nat /\ k \in Int
        /\ Length * p \in Int /\ Minute * k \in Int
        /\ Session.open <= o.start /\ o.start < Session.close
    BY <1>2, Lengths DEF InSession, End
  <1>4. 0 <= Minute * k /\ Minute * k + Minute <= Length
    <2>1. \A i, j \in Int : i <= j => Minute * i <= Minute * j
      BY <1>3
    <2>2. 0 <= k /\ k + 1 <= BucketMinutes
      BY <1>2, <1>3
    <2>3. Minute * 0 <= Minute * k /\ Minute * (k + 1) <= Minute * BucketMinutes
      BY <1>3, <2>1, <2>2
    <2>4. Minute * 0 = 0 /\ Minute * (k + 1) = Minute * k + Minute
      BY <1>3
    <2> QED
      BY <2>3, <2>4 DEF Length
  <1>5. 0 <= Length * p
    <2>1. p >= 0
      BY <1>1, <1>3
    <2> QED
      BY <1>3, <2>1
  <1>6. BucketOf(o) + Length <= Session.close
    <2>1. PICK n \in Int : Session.close - Session.open = Length * n
      <3>1. Session.close - Session.open \in Int /\ Length \in Nat \ {0}
        BY Lengths
      <3>2. (Session.close - Session.open) % Length = 0
        BY DEF WholeBuckets
      <3> QED
        BY <3>1, <3>2, ExactDivision
    <2>2. Length * p < Length * n
      BY <1>1, <1>3, <2>1
    <2>3. \A i, j \in Int : Length * i < Length * j => i < j
      BY <1>3
    <2>4. p + 1 <= n
      BY <2>1, <2>2, <2>3
    <2>5. \A i, j \in Int : i <= j => Length * i <= Length * j
      BY <1>3
    <2>6. Length * (p + 1) <= Length * n /\ Length * (p + 1) = Length * p + Length
      BY <1>3, <2>1, <2>4, <2>5
    <2> DEFINE lower == Length * p
               upper == Length * n
    <2>7. /\ lower \in Int /\ upper \in Int /\ Length \in Int /\ lower + Length <= upper
          /\ BucketOf(o) = Session.open + lower /\ Session.close - Session.open = upper
      BY <1>1, <1>3, <2>1, <2>6
    <2> HIDE DEF lower, upper
    <2> QED
      BY <1>3, <2>7
  <1>7. (m - BucketOf(o)) % Minute = 0
    <2>1. m - BucketOf(o) = Minute * k
      BY <1>1, <1>2, <1>3
    <2> QED
      BY <1>3, <2>1, WholeMinutes
  <1>8. (m - Session.open) % Minute = 0
    <2>1. Length * p = Minute * (BucketMinutes * p) /\ BucketMinutes * p \in Int
      BY <1>3 DEF Length
    <2>2. Minute * (BucketMinutes * p + k) = Minute * (BucketMinutes * p) + Minute * k
      BY <1>3, <2>1
    <2> DEFINE first == Length * p
               rest == Minute * k
    <2>3. /\ first \in Int /\ rest \in Int
          /\ BucketOf(o) = Session.open + first /\ m = BucketOf(o) + rest
          /\ Minute * (BucketMinutes * p + k) = first + rest
      BY <1>1, <1>2, <1>3, <2>1, <2>2
    <2> HIDE DEF first, rest
    <2>4. m - Session.open = Minute * (BucketMinutes * p + k)
      BY <1>3, <2>3
    <2> QED
      BY <1>3, <2>1, <2>4, WholeMinutes
  <1> QED
    BY <1>1, <1>2, <1>3, <1>4, <1>5, <1>6, <1>7, <1>8

-----------------------------------------------------------------------------
(* A healthy window is a ready bar. *)

\* The bars that window_health looks at.
InWindow(log, o, start, end) ==
  {i \in DOMAIN log : /\ SameFeed(log[i].raw, o)
                      /\ start <= log[i].raw.start /\ log[i].raw.start < end}

\* A bar without flags is whole, in its place, and the first with its key.
LEMMA CleanBars ==
  ASSUME NEW log, NEW cutoff, Orderly(log, cutoff), NEW i \in DOMAIN log, log[i].flags = {}
  PROVE  Placed(log[i]) /\ log[i].raw.complete /\ ~Seen(log, i)
  <1>1. ArrivalFlags(log, i) = {}
    BY DEF Orderly
  <1>2. /\ ~Seen(log, i)
        /\ \A f \in Flag : f \notin ArrivalFlags(log, i)
    BY <1>1 DEF ArrivalFlags
  <1>3. /\ InSession(log[i].raw) /\ log[i].raw.complete
        /\ (log[i].raw.start - Session.open) % Minute = 0
        /\ log[i].raw.marks \cap {"OUT_OF_SESSION", "MISALIGNED"} = {}
        /\ log[i].flags = {}
    BY <1>1, FlagNames DEF ArrivalFlags, Check
  <1> QED
    BY <1>2, <1>3 DEF Placed

\* In a healthy window the group of the bucket is the window.
LEMMA WindowIsGroup ==
  ASSUME NEW log, NEW cutoff, Orderly(log, cutoff), NEW k \in DOMAIN log,
         \A i \in InWindow(log, log[k].raw, BucketOf(log[k].raw), BucketOf(log[k].raw) + Length) :
           log[i].flags = {}
  PROVE  Group(log, cutoff, log[k].raw)
         = InWindow(log, log[k].raw, BucketOf(log[k].raw), BucketOf(log[k].raw) + Length)
  <1> DEFINE o == log[k].raw
             window == InWindow(log, o, BucketOf(o), BucketOf(o) + Length)
  <1>1. \A i \in DOMAIN log : log[i].raw.start \in Nat
    BY BarsOfLog, ObservationTimes DEF Orderly
  <1>2. ASSUME NEW i \in Group(log, cutoff, o) PROVE i \in window
    <2>1. i \in DOMAIN log /\ SameFeed(log[i].raw, o) /\ BucketOf(log[i].raw) = BucketOf(o)
      BY <1>2, GroupMembers
    <2>2. BucketOf(log[i].raw) <= log[i].raw.start
          /\ log[i].raw.start < BucketOf(log[i].raw) + Length
      BY <1>1, <2>1, BucketBounds
    <2> QED
      BY <2>1, <2>2 DEF InWindow
  <1>3. ASSUME NEW i \in window PROVE i \in Group(log, cutoff, o)
    <2>1. /\ i \in DOMAIN log /\ SameFeed(log[i].raw, o)
          /\ BucketOf(o) <= log[i].raw.start /\ log[i].raw.start < BucketOf(o) + Length
      BY <1>3 DEF InWindow
    <2>2. o.start \in Nat /\ log[i].raw.start \in Nat
      BY <1>1, <2>1
    <2>3. BucketOf(log[i].raw) = BucketOf(o)
      BY <2>1, <2>2, SameBucket
    <2>4. Placed(log[i])
      BY <1>3, <2>1, CleanBars
    <2>5. Known(log[i].raw, cutoff)
      BY <2>1 DEF Orderly
    <2> QED
      BY <2>1, <2>3, <2>4, <2>5, GroupMembers
  <1> QED
    BY <1>2, <1>3

\* Where nothing is missing, every minute that is due has its bar.
LEMMA NothingMissing ==
  ASSUME NEW observations, NEW start, NEW end, NEW cutoff,
         Missing(observations, start, end, cutoff) = {},
         NEW m \in start .. end - Minute,
         (m - start) % Minute = 0, m + Minute <= cutoff,
         Session.open <= m, m + Minute <= Session.close, (m - Session.open) % Minute = 0
  PROVE  \E p \in observations : p.start = m
  BY DEF Missing

\* A window that window_health calls validated is a strategy-ready canonical bar.
LEMMA HealthyIsReady ==
  ASSUME WholeBuckets, NEW log, NEW cutoff \in Nat, Orderly(log, cutoff), NEW k \in DOMAIN log,
         InSession(log[k].raw),
         WindowHealthy(log, log[k].raw, BucketOf(log[k].raw),
                       BucketOf(log[k].raw) + Minute * BucketMinutes, cutoff)
  PROVE  \E c \in ReadyBars(log, cutoff) :
           c.start = BucketOf(log[k].raw) /\ SameFeed(Feed(c), log[k].raw)
  <1> DEFINE o == log[k].raw
             bucket == BucketOf(o)
             window == InWindow(log, o, bucket, bucket + Length)
             group == Group(log, cutoff, o)
             c == Canonical(log, group, bucket, cutoff)
             starts == {log[i].raw.start : i \in group}
  <1>1. /\ bucket + Length <= cutoff
        /\ Missing({log[i].raw : i \in window}, bucket, bucket + Length, cutoff) = {}
        /\ \A i \in window : log[i].flags = {}
    BY DEF WindowHealthy, InWindow, Length
  <1>2. group = window
    BY <1>1, WindowIsGroup
  <1>3. \A i \in DOMAIN log : log[i].raw \in Observation /\ log[i].raw.start \in Nat
    BY BarsOfLog, ObservationTimes DEF Orderly
  <1>4. DOMAIN log = 1 .. Len(log) /\ Len(log) \in Nat /\ window \subseteq DOMAIN log
    BY LenProperties DEF Orderly, InWindow
  <1>5. \A i \in window : Placed(log[i]) /\ log[i].raw.complete /\ ~Seen(log, i)
                          /\ SameFeed(log[i].raw, o)
    BY <1>1, <1>4, CleanBars DEF InWindow
  <1>6. ~Repeated(log, group)
    <2>1. ASSUME NEW i \in window, NEW j \in window, j < i, log[j].raw.start = log[i].raw.start
          PROVE  FALSE
      <3>1. j \in 1 .. i - 1
        BY <1>4, <2>1
      <3>2. SameFeed(log[j].raw, log[i].raw)
        BY <1>5 DEF SameFeed
      <3> QED
        BY <1>5, <2>1, <3>1, <3>2 DEF Seen
    <2>2. \A i, j \in window : i # j => i < j \/ j < i
      BY <1>4
    <2> QED
      BY <1>2, <2>1, <2>2 DEF Repeated
  <1>7. starts = Expected(bucket)
    <2>1. ASSUME NEW i \in window PROVE log[i].raw.start \in Expected(bucket)
      <3>1. /\ bucket <= log[i].raw.start /\ log[i].raw.start < bucket + Length
            /\ (log[i].raw.start - Session.open) % Minute = 0
            /\ log[i].raw.start \in Nat /\ o.start \in Nat
        BY <1>3, <1>4, <1>5 DEF InWindow, Placed
      <3> QED
        BY <3>1, AlignedIsExpected
    <2>2. ASSUME NEW m \in Expected(bucket) PROVE \E i \in window : log[i].raw.start = m
      <3>1. /\ m \in bucket .. (bucket + Length) - Minute
            /\ (m - bucket) % Minute = 0 /\ (m - Session.open) % Minute = 0
            /\ Session.open <= m /\ m + Minute <= Session.close
            /\ m + Minute <= bucket + Length
        BY <1>3, <2>2, ExpectedIsAligned
      <3>2. m + Minute <= cutoff
        <4>1. bucket \in Int /\ Length \in Nat /\ Minute \in Nat
          BY <1>3, BucketBounds, Lengths
        <4> QED
          BY <1>1, <3>1, <4>1
      <3> DEFINE raws == {log[i].raw : i \in window}
                 end == bucket + Length
      <3>3. Missing(raws, bucket, end, cutoff) = {}
        BY <1>1
      <3>4. m \in bucket .. end - Minute
        BY <3>1
      <3> HIDE DEF raws, end, bucket, window
      <3>5. \E p \in raws : p.start = m
        BY <3>1, <3>2, <3>3, <3>4, NothingMissing
      <3> QED
        BY <3>5 DEF raws
    <2> QED
      BY <1>2, <2>1, <2>2
  <1>8. ASSUME NEW i \in group
        PROVE  FirstOf(log, cutoff, group, log[i].raw.start) = log[i].raw
    BY <1>2, <1>3, <1>4, <1>6, <1>8, OnlyOfItsMinute
  <1>9. Complete(log, group, bucket, cutoff)
    <2>1. \A s \in starts : FirstOf(log, cutoff, group, s).complete
      BY <1>2, <1>5, <1>8
    <2> QED
      BY <1>1, <1>7, <2>1 DEF Complete, Length
  <1>10. \A i \in group : CheckedAt(log, cutoff, i) = {}
    BY <1>1, <1>2, <1>4, CheckedTheSame
  <1>11. c.start = bucket /\ c.complete /\ c.flags = {}
         /\ c.values = [s \in starts |-> FirstOf(log, cutoff, group, s)]
    BY <1>6, <1>9, <1>10 DEF Canonical
  <1>12. k \in group
    <2>1. o.start \in Nat
      BY <1>3
    <2>2. bucket <= o.start /\ o.start < bucket + Length
      BY <2>1, BucketBounds
    <2> QED
      BY <1>2, <2>2 DEF InWindow, SameFeed
  <1>13. c \in Aggregate(log, cutoff)
    BY <1>12, GroupHasCanonical
  <1>14. SameFeed(Feed(c), o)
    <2>1. \E s \in starts : Feed(c) = FirstOf(log, cutoff, group, s)
      <3>1. DOMAIN c.values = starts /\ starts # {}
        BY <1>11, <1>12
      <3>2. Feed(c) = c.values[CHOOSE s \in starts : TRUE]
        BY <3>1 DEF Feed
      <3> QED
        BY <1>11, <3>1, <3>2
    <2>2. \E i \in group : Feed(c) = log[i].raw
      BY <1>8, <2>1
    <2> QED
      BY <1>2, <1>5, <2>2
  <1>15. c \in ReadyBars(log, cutoff)
    BY <1>11, <1>13 DEF ReadyBars, StrategyReady
  <1> QED
    BY <1>11, <1>14, <1>15

\* In sessions of a whole number of buckets, ingestion, aggregation and
\* window_health do not contradict each other.
THEOREM VerdictsDoAgree ==
  ASSUME WholeBuckets
  PROVE  Spec => []VerdictsAgree
  <1>1. BarInv => HealthyWindowIsReady
    <2> SUFFICES ASSUME BarInv, InReceiptOrder, NEW i \in DOMAIN bars,
                        InSession(bars[i].raw),
                        WindowHealthy(bars, bars[i].raw, BucketOf(bars[i].raw),
                                      BucketOf(bars[i].raw) + Minute * BucketMinutes, now)
                 PROVE  \E c \in ReadyBars(bars, now) :
                          c.start = BucketOf(bars[i].raw) /\ SameFeed(Feed(c), bars[i].raw)
      BY DEF HealthyWindowIsReady
    <2>1. Orderly(bars, now) /\ now \in Nat
      BY OrderlyBars, BoundsAreNatural DEF BarInv, TypeOK, Time
    <2> QED
      BY <2>1, HealthyIsReady
  <1>2. HealthyWindowIsReady /\ FlagsAreReproducible => VerdictsAgree
    BY DEF VerdictsAgree
  <1> QED
    BY <1>1, <1>2, BarInvHolds, FlagsReproduce, PTL

-----------------------------------------------------------------------------
(* The stream: types, retries and recovery. *)

\* Every operation of the tracker and of the controller keeps the types.
LEMMA TypeNext == StreamTypeOK /\ [StreamNext]_streamVars => StreamTypeOK'
<1> SUFFICES ASSUME StreamTypeOK, [StreamNext]_streamVars
             PROVE  StreamTypeOK'
  OBVIOUS
<1> USE LimitsArePositive, ClockIsBounded, NoneIsNoTime
<1>1. ASSUME NEW i \in Instrument, NEW quote \in Quote, Update(i, quote)
      PROVE  StreamTypeOK'
  <2>1. CASE Acceptable(i, quote)
    <3>1. /\ quotes' = [quotes EXCEPT ![i] = quote]
          /\ invalid' = invalid \ {i} /\ renewed' = renewed \cup {i}
          /\ UNCHANGED <<wall, streamState, attempts, connectedAt, granted, steady>>
      BY <1>1, <2>1 DEF Update, controllerVars
    <3>2. quote.sound /\ quote.timestamp <= quote.received
      BY <2>1 DEF Acceptable
    <3> QED BY <3>1, <3>2 DEF StreamTypeOK
  <2>2. CASE ~Acceptable(i, quote)
    <3>1. /\ invalid' = invalid \cup {i}
          /\ UNCHANGED <<quotes, renewed, wall, streamState, attempts, connectedAt, granted, steady>>
      BY <1>1, <2>2 DEF Update, controllerVars
    <3> QED BY <3>1 DEF StreamTypeOK
  <2> QED BY <2>1, <2>2
<1>2. CASE Disconnected \/ WallTicks \/ ClockStepsBack
  <2>1. wall' \in WallTime
    BY <1>2 DEF StreamTypeOK, Disconnected, WallTicks, ClockStepsBack, WallTime
  <2>2. /\ UNCHANGED <<quotes, invalid, attempts, granted>>
        /\ streamState' \in {streamState, "DISCONNECTED"} /\ connectedAt' \in {connectedAt, Unset}
        /\ renewed' \in {renewed, {}} /\ steady' \in {steady, FALSE}
    BY <1>2 DEF Disconnected, WallTicks, ClockStepsBack, trackerVars, controllerVars, historyVars
  <2> QED BY <2>1, <2>2 DEF StreamTypeOK
<1>3. CASE Connected \/ NextRetryAt \/ RetriesExhausted
  BY <1>3 DEF StreamTypeOK, Connected, NextRetryAt, RetriesExhausted, trackerVars, historyVars, CanRetry
<1>4. ASSUME NEW instruments \in SUBSET Instrument, ValidateRecovery(instruments)
      PROVE  StreamTypeOK'
  BY <1>4 DEF StreamTypeOK, ValidateRecovery, trackerVars
<1>5. CASE UNCHANGED streamVars
  BY <1>5 DEF StreamTypeOK, streamVars, trackerVars, controllerVars, historyVars
<1> QED BY <1>1, <1>2, <1>3, <1>4, <1>5 DEF StreamNext

\* Every operation of the tracker and of the controller keeps the types, and a
\* stored quote is sound and was not from the future (StreamTypeOK).
THEOREM StreamTypes == StreamSpec => []StreamTypeOK
<1>1. StreamInit => StreamTypeOK
  BY ClockIsBounded DEF StreamInit, StreamTypeOK, WallTime
<1> QED BY <1>1, TypeNext, PTL DEF StreamSpec

\* Only a validated recovery gives attempts back, so they count at least the
\* retry times handed out.
BudgetInv ==
  /\ granted <= attempts
  /\ granted <= MaxAttempts

\* No sequence of connects, disconnects and exhausted calls gets more retry
\* times than the limit before data recovery is validated (RetriesAreBounded).
THEOREM RetryBudgetHolds == StreamSpec => []RetriesAreBounded
<1>1. StreamInit => BudgetInv
  BY LimitsArePositive DEF StreamInit, BudgetInv
<1>2. StreamTypeOK /\ BudgetInv /\ [StreamNext]_streamVars => BudgetInv'
  <2> SUFFICES ASSUME StreamTypeOK, BudgetInv, [StreamNext]_streamVars
               PROVE  BudgetInv'
    OBVIOUS
  <2>a. attempts \in Nat /\ granted \in Nat /\ MaxAttempts \in Nat
    BY LimitsArePositive DEF StreamTypeOK
  <2>1. CASE NextRetryAt \/ RetriesExhausted
    BY <2>a, <2>1 DEF NextRetryAt, RetriesExhausted, BudgetInv, historyVars
  <2>2. ASSUME NEW instruments, ValidateRecovery(instruments)
        PROVE  BudgetInv'
    BY <2>a, <2>2 DEF ValidateRecovery, BudgetInv
  <2>3. CASE UNCHANGED <<attempts, granted>>
    BY <2>3 DEF BudgetInv
  <2>4. ASSUME NEW i \in Instrument, NEW quote \in Quote, Update(i, quote)
        PROVE  UNCHANGED <<attempts, granted>>
    BY <2>4 DEF Update, controllerVars
  <2>5. ASSUME Disconnected \/ Connected \/ WallTicks \/ ClockStepsBack \/ UNCHANGED streamVars
        PROVE  UNCHANGED <<attempts, granted>>
    BY <2>5 DEF Disconnected, Connected, WallTicks, ClockStepsBack, streamVars, controllerVars, historyVars
  <2> QED BY <2>1, <2>2, <2>3, <2>4, <2>5 DEF StreamNext
<1>3. BudgetInv => RetriesAreBounded
  BY DEF BudgetInv, RetriesAreBounded
<1> QED BY <1>1, <1>2, <1>3, StreamTypes, PTL DEF StreamSpec

\* While the clock was never set back: a stored quote is from the past, one that
\* is not renewed is from before the last disconnect, hence from before now and
\* from before any connection made since.
StampsInv ==
  steady =>
    /\ connectedAt # Unset => connectedAt <= wall
    /\ \A i \in Instrument :
         quotes[i] # Unset =>
           /\ quotes[i].received <= wall
           /\ i \notin renewed =>
                /\ quotes[i].received < wall
                /\ connectedAt # Unset => quotes[i].received < connectedAt

\* Every step keeps the stamps: a quote is renewed only by one that was received after the disconnect.
LEMMA StampsNext == StreamTypeOK /\ StampsInv /\ [StreamNext]_streamVars => StampsInv'
<1> SUFFICES ASSUME StreamTypeOK, StampsInv, [StreamNext]_streamVars, steady'
             PROVE  StampsInv'
  BY DEF StampsInv
<1>a. /\ wall \in Nat /\ connectedAt \in Nat \cup {Unset} /\ Unset \notin Nat
      /\ \A i \in Instrument : quotes[i] # Unset => quotes[i].received \in Nat
      /\ quotes \in [Instrument -> Quote \cup {Unset}]
  BY ClockIsBounded, NoneIsNoTime DEF StreamTypeOK, WallTime, Quote
<1>1. ASSUME NEW i \in Instrument, NEW quote \in Quote, Update(i, quote), Acceptable(i, quote)
      PROVE  StampsInv'
  <2>1. /\ quotes' = [quotes EXCEPT ![i] = quote] /\ renewed' = renewed \cup {i}
        /\ UNCHANGED <<wall, connectedAt, steady>>
    BY <1>1 DEF Update, controllerVars
  <2>2. quote.received <= wall
    BY <1>1 DEF Acceptable
  <2>3. ASSUME NEW j \in Instrument, quotes'[j] # Unset
        PROVE  /\ quotes'[j].received <= wall'
               /\ j \notin renewed' => /\ quotes'[j].received < wall'
                                       /\ connectedAt' # Unset => quotes'[j].received < connectedAt'
    <3>1. CASE j = i
      BY <1>a, <2>1, <2>2, <3>1
    <3>2. CASE j # i
      <4>1. quotes'[j] = quotes[j] /\ (j \notin renewed' => j \notin renewed)
        BY <1>a, <2>1, <3>2
      <4> QED BY <2>1, <2>3, <4>1 DEF StampsInv
    <3> QED BY <3>1, <3>2
  <2> QED BY <2>1, <2>3 DEF StampsInv
<1>2. ASSUME NEW i \in Instrument, NEW quote \in Quote, Update(i, quote), ~Acceptable(i, quote)
      PROVE  UNCHANGED <<wall, quotes, connectedAt, renewed, steady>>
  BY <1>2 DEF Update, controllerVars
<1>3. CASE Disconnected
  <2>1. /\ wall' = wall + 1 /\ connectedAt' = Unset /\ quotes' = quotes /\ steady
    BY <1>3 DEF Disconnected, trackerVars
  <2> QED BY <1>a, <2>1 DEF StampsInv
<1>4. CASE Connected
  BY <1>a, <1>4 DEF Connected, StampsInv, trackerVars, historyVars
<1>5. CASE WallTicks
  BY <1>a, <1>5 DEF WallTicks, StampsInv, trackerVars, controllerVars, historyVars
<1>6. CASE ClockStepsBack
  BY <1>6 DEF ClockStepsBack
<1>7. CASE UNCHANGED <<wall, quotes, connectedAt, renewed, steady>>
  BY <1>7 DEF StampsInv
<1>8. ASSUME \/ NextRetryAt \/ RetriesExhausted \/ UNCHANGED streamVars
             \/ \E instruments \in SUBSET Instrument : ValidateRecovery(instruments)
      PROVE  UNCHANGED <<wall, quotes, connectedAt, renewed, steady>>
  BY <1>8 DEF NextRetryAt, RetriesExhausted, ValidateRecovery, streamVars, trackerVars, controllerVars,
              historyVars
<1> QED BY <1>1, <1>2, <1>3, <1>4, <1>5, <1>6, <1>7, <1>8 DEF StreamNext

\* ReconnectController.validate_recovery accepts fresh quotes only and, as long
\* as the clock is not set back, only quotes of the time since the last
\* disconnect (RecoveryHasNewSnapshots).
THEOREM RecoveryIsNew == StreamSpec => RecoveryHasNewSnapshots
<1>1. StreamInit => StampsInv
  BY DEF StreamInit, StampsInv
<1>2. ASSUME StreamTypeOK, StampsInv,
             NEW instruments \in SUBSET Instrument, RecoversWith(instruments)
      PROVE  /\ steady => instruments \subseteq renewed
             /\ \A i \in instruments : wall - quotes[i].timestamp <= StaleAfter
  <2>1. \A i \in instruments : Healthy(i) /\ PostConnect(i) /\ i \in Instrument
    BY <1>2 DEF RecoversWith, ValidateRecovery
  <2>2. \A i \in instruments : wall - quotes[i].timestamp <= StaleAfter
    BY <2>1, LimitsArePositive DEF Healthy
  <2>3. ASSUME steady, NEW i \in instruments, i \notin renewed
        PROVE  FALSE
    <3>1. /\ quotes[i] # Unset /\ connectedAt # Unset /\ quotes[i].received >= connectedAt
          /\ i \in Instrument
      BY <2>1 DEF Healthy, PostConnect
    <3>2. quotes[i].received < connectedAt
      BY <1>2, <2>3, <3>1 DEF StampsInv
    <3>3. quotes[i].received \in Int /\ connectedAt \in Int
      BY <1>2, <3>1, ClockIsBounded DEF StreamTypeOK, Quote, WallTime
    <3> QED BY <3>1, <3>2, <3>3
  <2> QED BY <2>2, <2>3
<1>3. StreamTypeOK /\ StampsInv /\ [StreamNext]_streamVars =>
        [\A instruments \in SUBSET Instrument :
           RecoversWith(instruments) =>
             /\ steady => instruments \subseteq renewed
             /\ \A i \in instruments : wall - quotes[i].timestamp <= StaleAfter]_streamVars
  BY <1>2
<1> QED BY <1>1, <1>3, StampsNext, StreamTypes, PTL DEF StreamSpec, RecoveryHasNewSnapshots

-----------------------------------------------------------------------------
(* Both together. *)

\* The service runs the bars as if there were no stream, and the stream as if there
\* were no bars.
LEMMA FeedsAreApart == FeedSpec => Spec /\ StreamSpec
  <1>1. FeedInit => Init /\ StreamInit
    BY DEF FeedInit
  <1>2. [FeedNext]_feedVars => [Next]_vars
    BY DEF FeedNext, feedVars
  <1>3. [FeedNext]_feedVars => [StreamNext]_streamVars
    BY DEF FeedNext, feedVars
  <1> QED
    BY <1>1, <1>2, <1>3, PTL DEF FeedSpec, Spec, StreamSpec

\* In every interleaving of bars and quotes what the service keeps is of its type:
\* every bar was over and received by the clock, every quote is sound (FeedTypeOK).
THEOREM FeedTypes == FeedSpec => []FeedTypeOK
  <1>1. TypeOK /\ StreamTypeOK => FeedTypeOK
    BY DEF FeedTypeOK
  <1> QED
    BY <1>1, FeedsAreApart, BarTypes, StreamTypes, PTL
=============================================================================
