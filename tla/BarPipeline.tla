----------------------------- MODULE BarPipeline -----------------------------
(***************************************************************************)
(* One-minute bars on their way to canonical bars: MarketDataService keeps *)
(* what it was given, flags it on arrival against what had arrived before, *)
(* and FiveMinuteAggregator computes the canonical bars anew for a cutoff  *)
(* whenever it is asked.  Bars come late, twice, corrected, out of order,  *)
(* from a stream and from history loads that may stop half way.            *)
(*                                                                         *)
(* One level stands for the four prices of a bar.  marks are the flags a   *)
(* bar brings along, and those price_flags has for prices out of order and *)
(* negative volumes; id orders bars by what their JSON has after the flags.*)
(***************************************************************************)
EXTENDS Integers, FiniteSets, SequencesExt

CONSTANTS
  Observation,    \* raw bars: [id, instrument, source, start, received, complete, marks, level, volume]
  Minute,         \* length of a raw bar
  BucketMinutes,  \* raw bars in a canonical bar
  Session,        \* [open, close] of the trading day
  GapPercent,     \* abnormal_gap_fraction, in percent
  BurstLimit,     \* abnormal_volume_multiple
  Window,         \* [start, end]: the requests of load_history
  None,
  MaxTime,        \* bound on the clock
  MaxBars         \* bound on the bars of the service

\* QualityFlag, but for the one of quotes, in the order of the names.
Alphabet ==
  <<"ABNORMAL_GAP", "ABNORMAL_VOLUME", "DUPLICATE", "FUTURE_TIMESTAMP", "IMPOSSIBLE_OHLC",
    "INCOMPLETE", "INVALID_PRICE", "INVALID_VOLUME", "MISALIGNED", "MISSING_INTERVAL",
    "OUT_OF_SESSION", "STALE", "ZERO_VOLUME">>
Flag == {Alphabet[k] : k \in 1 .. 13}

ASSUME ObservationsAreTimed ==
  \A o \in Observation :
    {o.id, o.start, o.received, o.level, o.volume} \subseteq Nat /\ o.complete \in BOOLEAN
\* Providers leave it to the checker to say where in the session a bar lies.
ASSUME MarksAreNoPlaces ==
  \A o \in Observation : o.marks \subseteq Flag \ {"OUT_OF_SESSION", "MISALIGNED"}
ASSUME IdsAreContents == \A o, p \in Observation : o.id = p.id => o = p
ASSUME LengthsArePositive == {Minute, BucketMinutes} \subseteq Nat \ {0}
ASSUME LimitsAreNatural == {GapPercent, BurstLimit} \subseteq Nat
ASSUME SessionIsOrdered ==
  Session.open \in Nat /\ Session.close \in Nat /\ Session.open < Session.close
ASSUME BoundsAreNatural == MaxTime \in Nat /\ MaxBars \in Nat
ASSUME NoneIsNoPosition == None \notin Nat

Bar == [raw : Observation, flags : SUBSET Flag]
Time == 0 .. MaxTime

VARIABLES
  bars,    \* MarketDataService._bars, in the order of ingestion
  now,     \* the clock
  issued   \* history: every strategy-ready canonical bar there has been

vars == <<bars, now, issued>>

End(o) == o.start + Minute
Known(o, cutoff) == End(o) <= cutoff /\ o.received <= cutoff
SameFeed(o, p) == o.instrument = p.instrument /\ o.source = p.source

-----------------------------------------------------------------------------
(* BarQualityChecker. *)

InSession(o) == Session.open <= o.start /\ End(o) <= Session.close

Distance(x, y) == IF x < y THEN y - x ELSE x - y

\* The preceding bar is one to compare with.
Follows(o, previous) ==
  previous # None /\ End(previous) <= o.start /\ previous.received <= o.received

Jumps(o, previous) ==
  previous.level > 0 /\ 100 * Distance(o.level, previous.level) > GapPercent * previous.level

Bursts(o, previous) == previous.volume > 0 /\ o.volume > BurstLimit * previous.volume

Check(o, previous) ==
  {f \in Flag :
    \/ f \in o.marks
    \/ f = "INVALID_PRICE" /\ o.level = 0
    \/ f = "ZERO_VOLUME" /\ o.volume = 0
    \/ f = "OUT_OF_SESSION" /\ ~InSession(o)
    \/ f = "MISALIGNED" /\ InSession(o) /\ (o.start - Session.open) % Minute # 0
    \/ f = "INCOMPLETE" /\ ~o.complete
    \/ f = "FUTURE_TIMESTAMP" /\ o.received < End(o)
    \/ f = "ABNORMAL_GAP" /\ Follows(o, previous) /\ Jumps(o, previous)
    \/ f = "ABNORMAL_VOLUME" /\ Follows(o, previous) /\ Bursts(o, previous)}

\* Of the positions of a log, those of the bars that end latest before o.
Preceding(log, positions, o) ==
  LET earlier == {i \in positions : SameFeed(log[i].raw, o) /\ End(log[i].raw) <= o.start}
  IN {i \in earlier : \A j \in earlier : End(log[j].raw) <= End(log[i].raw)}

OneOf(log, positions) == IF positions = {} THEN None ELSE log[CHOOSE i \in positions : TRUE].raw

-----------------------------------------------------------------------------
(* FiveMinuteAggregator.aggregate. *)

\* mutant: a bar counts from its close on, received or not
Available_Closed(log, cutoff) == {i \in DOMAIN log : End(log[i].raw) <= cutoff}

Available(log, cutoff) == {i \in DOMAIN log : Known(log[i].raw, cutoff)}

\* The stable sort by receipt and start.
ByReceipt(log, i, j) ==
  LET o == log[i].raw
      p == log[j].raw
  IN \/ o.received < p.received
     \/ o.received = p.received /\ o.start < p.start
     \/ o.received = p.received /\ o.start = p.start /\ i < j

Older(log, cutoff, i) == {j \in Available(log, cutoff) : ByReceipt(log, j, i)}

FirstReceived(log, positions) ==
  {j \in positions : \A k \in positions \ {j} : ByReceipt(log, j, k)}

\* Checked again, after the first received of the preceding bars.
CheckedAt(log, cutoff, i) ==
  LET preceding == Preceding(log, Older(log, cutoff, i), log[i].raw)
  IN log[i].flags \cup Check(log[i].raw, OneOf(log, FirstReceived(log, preceding)))

BucketOf(o) ==
  Session.open + Minute * BucketMinutes * ((o.start - Session.open) \div (Minute * BucketMinutes))

Group(log, cutoff, o) ==
  {i \in Available(log, cutoff) :
     /\ SameFeed(log[i].raw, o) /\ BucketOf(log[i].raw) = BucketOf(o)
     /\ CheckedAt(log, cutoff, i) \cap {"OUT_OF_SESSION", "MISALIGNED"} = {}}

\* In JSON the sorted flags f come before g: where the two lists part, f has the lesser
\* name, or g has ended.
WrittenBefore(f, g) ==
  \E k \in DOMAIN Alphabet :
    /\ Alphabet[k] \in f \ g
    /\ \A l \in 1 .. k - 1 : Alphabet[l] \in f <=> Alphabet[l] \in g

\* Of the bars of one minute, the first received; of several received at once, the one
\* whose JSON comes first, in which the flags precede the prices.
FirstOf(log, cutoff, group, start) ==
  LET same == {i \in group : log[i].raw.start = start}
      flags(i) == CheckedAt(log, cutoff, i)
      json(i, j) == \/ WrittenBefore(flags(i), flags(j))
                    \/ flags(i) = flags(j) /\ log[i].raw.id < log[j].raw.id
      before(i, j) == \/ log[i].raw = log[j].raw
                      \/ log[i].raw.received < log[j].raw.received
                      \/ log[i].raw.received = log[j].raw.received /\ json(i, j)
  IN OneOf(log, {i \in same : \A j \in same : before(i, j)})

Expected(bucket) == {bucket + Minute * m : m \in 0 .. BucketMinutes - 1}

\* mutant: the minutes that are missing do not count
Complete_AnyMinutes(log, group, bucket, cutoff) ==
  /\ bucket + Minute * BucketMinutes <= cutoff
  /\ \A s \in {log[i].raw.start : i \in group} : FirstOf(log, cutoff, group, s).complete

Complete(log, group, bucket, cutoff) ==
  LET starts == {log[i].raw.start : i \in group}
  IN /\ starts = Expected(bucket)
     /\ bucket + Minute * BucketMinutes <= cutoff
     /\ \A s \in starts : FirstOf(log, cutoff, group, s).complete

Repeated(log, group) == \E i, j \in group : i # j /\ log[i].raw.start = log[j].raw.start

\* values: the bar each minute contributes, which open, high, low, close, volume
\* and received_at are made of.
Canonical(log, group, bucket, cutoff) ==
  LET starts == {log[i].raw.start : i \in group}
      complete == Complete(log, group, bucket, cutoff)
      own == UNION {CheckedAt(log, cutoff, i) : i \in group}
  IN [start    |-> bucket,
      values   |-> [s \in starts |-> FirstOf(log, cutoff, group, s)],
      complete |-> complete,
      flags    |-> own \cup (IF Repeated(log, group) THEN {"DUPLICATE"} ELSE {})
                       \cup (IF complete THEN {} ELSE {"INCOMPLETE", "MISSING_INTERVAL"})]

Aggregate(log, cutoff) ==
  {Canonical(log, group, BucketOf(log[CHOOSE i \in group : TRUE].raw), cutoff) :
     group \in {Group(log, cutoff, log[i].raw) : i \in DOMAIN log} \ {{}}}

\* Bar.require_strategy_ready does not raise.
StrategyReady(canonical) == canonical.complete /\ canonical.flags = {}
ReadyBars(log, cutoff) == {c \in Aggregate(log, cutoff) : StrategyReady(c)}

-----------------------------------------------------------------------------
(* MarketDataService. *)

FirstStored(positions) == {j \in positions : \A k \in positions : j <= k}

\* mutant: the seen keys leave out the start
Seen_AnyStart(log, i) == \E j \in 1 .. i - 1 : SameFeed(log[j].raw, log[i].raw)

\* _seen holds the keys of the bars before the one at i.
Seen(log, i) ==
  \E j \in 1 .. i - 1 : SameFeed(log[j].raw, log[i].raw) /\ log[j].raw.start = log[i].raw.start

\* The flags ingest_bar gives to the bar that is stored at i: those of the check after
\* the first stored of the preceding bars, and one for a key it has seen.
ArrivalFlags(log, i) ==
  LET o == log[i].raw
      previous == OneOf(log, FirstStored(Preceding(log, 1 .. i - 1, o)))
  IN Check(o, previous) \cup (IF Seen(log, i) THEN {"DUPLICATE"} ELSE {})

\* ingest_bar for one bar after the other.
Ingested(log, batch) ==
  LET raw == log \o [k \in DOMAIN batch |-> [raw |-> batch[k], flags |-> {}]]
  IN [i \in DOMAIN raw |-> IF i \in DOMAIN log THEN log[i]
                           ELSE [raw[i] EXCEPT !.flags = ArrivalFlags(raw, i)]]

\* missing_intervals, for the bars of one feed.
Missing(observations, start, end, cutoff) ==
  {m \in start .. end - Minute :
     /\ (m - start) % Minute = 0 /\ m + Minute <= cutoff
     /\ Session.open <= m /\ m + Minute <= Session.close
     /\ (m - Session.open) % Minute = 0
     /\ \A o \in observations : ~(o.start = m /\ o.complete /\ Known(o, cutoff))}

\* window_health answers HEALTHY.
WindowHealthy(log, o, start, end, at) ==
  LET inWindow == {i \in DOMAIN log : /\ SameFeed(log[i].raw, o)
                                      /\ start <= log[i].raw.start /\ log[i].raw.start < end}
  IN /\ end <= at
     /\ inWindow # {}
     /\ Missing({log[i].raw : i \in inWindow}, start, end, at) = {}
     /\ \A i \in inWindow : log[i].flags = {}

-----------------------------------------------------------------------------

Init == bars = <<>> /\ now = 0 /\ issued = {}

Remember == issued' = issued \cup ReadyBars(bars', now')

\* The stream, or an adapter, delivers a bar.
IngestBar(o) ==
  /\ Known(o, now)
  /\ Len(bars) < MaxBars
  /\ bars' = Ingested(bars, <<o>>)
  /\ UNCHANGED now
  /\ Remember

\* The bar is from the future, or the storage raises: then nothing is kept.
IngestRaises(o) ==
  /\ ~Known(o, now) \/ Len(bars) < MaxBars
  /\ UNCHANGED vars

InScope(instrument, window) ==
  {o \in Observation :
     o.instrument = instrument /\ window.start <= o.start /\ End(o) <= window.end /\ Known(o, now)}

\* The provider answers with a batch, which is ingested by receipt and start, bars of
\* one instant and start as they came, up to the first bar out of scope, or to one that
\* the storage refuses: what came before stays.
LoadHistory(batch, instrument, window) ==
  LET before(o, p) == o.received < p.received \/ (o.received = p.received /\ o.start < p.start)
  IN \E sorted \in SetToSeqs(batch), n \in 1 .. MaxBars - Len(bars) :
       /\ \A i, j \in DOMAIN sorted : i < j => ~before(sorted[j], sorted[i])
       /\ n <= Len(sorted)
       /\ \A i \in 1 .. n : sorted[i] \in InScope(instrument, window)
       /\ bars' = Ingested(bars, [i \in 1 .. n |-> sorted[i]])
       /\ UNCHANGED now
       /\ Remember

Tick ==
  /\ now < MaxTime
  /\ now' = now + 1
  /\ UNCHANGED bars
  /\ Remember

Next ==
  \/ \E o \in Observation : IngestBar(o) \/ IngestRaises(o)
  \/ \E batch \in SUBSET Observation, window \in Window :
       \E instrument \in {o.instrument : o \in batch} : LoadHistory(batch, instrument, window)
  \/ Tick

Spec == Init /\ [][Next]_vars

-----------------------------------------------------------------------------
(* Properties. *)

\* Types; nothing is kept that was not over and received by the clock.
TypeOK ==
  /\ now \in Time
  /\ bars \in Seq(Bar) /\ Len(bars) <= MaxBars
  /\ \A i \in DOMAIN bars : Known(bars[i].raw, now)

Feed(canonical) == canonical.values[CHOOSE s \in DOMAIN canonical.values : TRUE]

\* ADR-0003: conflicting corrections are quarantined, never silently substituted.
\* Whatever arrives late, twice or corrected, a canonical bar that was strategy
\* ready is never strategy ready with other contents, only ever withdrawn.
ReadyIsFinal ==
  \A c, d \in issued :
    c.start = d.start /\ SameFeed(Feed(c), Feed(d)) => c.values = d.values

\* test_future_data_cannot_change_past_output, over ingestion and aggregation: bars
\* that were not known at a cutoff do not change what is computed for it.
FutureChangesNothing ==
  [][ bars' # bars => \A cutoff \in Time :
        (\A i \in DOMAIN bars' \ DOMAIN bars : ~Known(bars'[i].raw, cutoff)) =>
          Aggregate(bars', cutoff) = Aggregate(bars, cutoff) ]_vars

InReceiptOrder ==
  \A i, j \in DOMAIN bars :
    i < j => \/ bars[i].raw.received < bars[j].raw.received
             \/ /\ bars[i].raw.received = bars[j].raw.received
                /\ bars[i].raw.start <= bars[j].raw.start

\* No two different bars of one feed and minute were received at one instant.
NoTies ==
  \A i, j \in DOMAIN bars :
    LET o == bars[i].raw
        p == bars[j].raw
    IN SameFeed(o, p) /\ o.start = p.start /\ o.received = p.received => o = p

\* As long as bars came in the order of their receipt, a history, a recording and the
\* feature engine, which start from raw bars, find the ready bars of the live service,
\* and without ties all its canonical bars.  (Of two bars received at one instant the
\* service may take the one it flagged DUPLICATE, and a replay the other.)
FlagsAreReproducible ==
  LET bare == [i \in DOMAIN bars |-> [bars[i] EXCEPT !.flags = {}]]
  IN InReceiptOrder =>
       /\ ReadyBars(bars, now) = ReadyBars(bare, now)
       /\ NoTies => Aggregate(bars, now) = Aggregate(bare, now)

\* Then also the two verdicts on a window agree: what window_health calls a
\* validated window is a strategy-ready canonical bar.
HealthyWindowIsReady ==
  InReceiptOrder =>
    \A i \in DOMAIN bars :
      LET o == bars[i].raw
          bucket == BucketOf(o)
      IN InSession(o) /\ WindowHealthy(bars, o, bucket, bucket + Minute * BucketMinutes, now) =>
           \E c \in ReadyBars(bars, now) : c.start = bucket /\ SameFeed(Feed(c), o)

\* Ingestion, aggregation and window_health do not contradict each other.
VerdictsAgree == FlagsAreReproducible /\ HealthyWindowIsReady
=============================================================================
