---------------------------- MODULE FeatureEngine ----------------------------
(***************************************************************************)
(* CausalFeatureEngine: events are kept as they come and a snapshot is     *)
(* computed from those received by its instant, live or in a replay.       *)
(*                                                                         *)
(* An event is [id, kind, ref, received, ...], where ref stands for the    *)
(* instrument and its source and the receipt is that of the envelope and   *)
(* of its payload: a bar has minutes, start, end, feed, flags, open, high, *)
(* low, close and volume, a quote has quoted, flags, bid and ask.  A       *)
(* feature is [value, reason]; quotients are kept as [of, by], and a       *)
(* statistic that only reads a window is named by that window.             *)
(***************************************************************************)
EXTENDS UniverseBuilder

CONSTANTS
  SlotTicks,         \* ticks of a five-minute bar
  BaselineSessions, RangeBars, SwingBars, StatisticsBars,  \* FeatureSetVersion
  QuoteStale, SpreadWindow,
  Lookback           \* days searched for earlier sessions: 366

ASSUME VersionIsPositive ==
  /\ {SlotTicks, BaselineSessions, RangeBars, SwingBars, StatisticsBars} \subseteq Nat \ {0}
  /\ {QuoteStale, SpreadWindow, Lookback} \subseteq Nat

\* Values.put: without a value there is a reason.
Put(value, reason) == [value |-> value, reason |-> IF value = Absent THEN reason ELSE Absent]
Present(feature) == feature.value # Absent
Quotient(known, of, by) == IF known /\ by # 0 THEN [of |-> of, by |-> by] ELSE Absent

\* A context: [entity, nifty, sector, vix, pair, breadth, members, known, from, to, quantity].
References(context) ==
  ({context.entity, context.nifty, context.sector, context.vix, context.pair} \ {Absent})
  \cup context.breadth \cup context.members

Selectable(event, context, at) ==
  /\ event.received <= at /\ event.ref \in References(context)
  /\ event.kind = "BAR" => event.minutes = 5

\* mutant: in the order of the calls
SelectedEvents_CallOrder(log, context, at) ==
  SelectSeq(log, LAMBDA e : Selectable(e, context, at))

\* The input of a snapshot, whatever the order of the calls of on_event was.
SelectedEvents(log, context, at) ==
  Sorted({e \in Range(log) : Selectable(e, context, at)},
         LAMBDA e, f : \/ e.received < f.received
                       \/ e.received = f.received /\ e.id < f.id)

-----------------------------------------------------------------------------
(* Series of bars. *)

\* Where the last bar that has closed ends.
Endpoint(calendar, at) ==
  LET opening == Moment(calendar, at, "open")
  IN Min({Moment(calendar, at, "close"), opening + SlotTicks * Max({0, (at - opening) \div SlotTicks})})

\* An index or the vix may have no volume.
BarUsable(bar, at) ==
  /\ bar.flags \subseteq (IF bar.feed = "EQUITY" THEN {} ELSE {"ZERO_VOLUME"})
  /\ bar.end <= at /\ bar.received <= at

SlotBars(bars, ref, opening, endpoint) ==
  {b \in bars : b.ref = ref /\ opening <= b.start /\ b.end <= endpoint}

Starts(bars) == {b.start : b \in bars}
InTimeOrder(bars) == Sorted(bars, LAMBDA b, c : b.start < c.start)

\* _session: the bars of a session up to an endpoint, or why there are none.
SeriesOf(bars, ref, opening, endpoint, at) ==
  LET window == SlotBars(bars, ref, opening, endpoint)
      missing(reason) == [bars |-> <<>>, reason |-> reason]
      slots == {opening + SlotTicks * i : i \in 0 .. (endpoint - opening) \div SlotTicks - 1}
  IN IF window = {} THEN missing("MISSING_INPUT")
     ELSE IF \/ Cardinality(Starts(window)) # Cardinality(window)
             \/ \E b \in window : ~BarUsable(b, at)
          THEN missing("INVALID_INPUT")
     ELSE IF Starts(window) # slots THEN missing("MISSING_INPUT")
     ELSE [bars |-> InTimeOrder(window), reason |-> "WARMUP"]

\* The days before that have a session, as far back as the calendar reaches.
SessionDays(calendar, day) ==
  Sorted({d \in day - Lookback .. day - 1 :
            /\ \A k \in d .. day - 1 : Covered(calendar, k)
            /\ SessionOn(calendar, d) # Absent}, <)

WholeSession(bars, ref, calendar, day, at) ==
  LET closing == Moment(calendar, day * DayTicks, "close")
      series == SeriesOf(bars, ref, Moment(calendar, day * DayTicks, "open"), closing, at).bars
  IN IF series # <<>> /\ Last(series).end = closing THEN series ELSE <<>>

Newest(seq) == SubSeq(seq, Max({1, Len(seq) - BaselineSessions + 1}), Len(seq))

\* mutant: a day without a whole session is passed over
PriorSessions_Passing(bars, ref, calendar, at) ==
  LET sessions == [i \in DOMAIN SessionDays(calendar, Day(at)) |->
                     WholeSession(bars, ref, calendar, SessionDays(calendar, Day(at))[i], at)]
  IN Newest(SelectSeq(sessions, LAMBDA s : s # <<>>))

\* _prior_sessions: the last ones, each <<>> unless all of it is there.
PriorSessions(bars, ref, calendar, at) ==
  LET days == Newest(SessionDays(calendar, Day(at)))
  IN [i \in DOMAIN days |-> WholeSession(bars, ref, calendar, days[i], at)]

-----------------------------------------------------------------------------
(* Features of a series. *)

VolumeOf(series) == SumFunction([i \in DOMAIN series |-> series[i].volume])
\* Three times the turnover at typical prices.
TurnoverOf(series) ==
  SumFunction([i \in DOMAIN series |->
                 (series[i].high + series[i].low + series[i].close) * series[i].volume])

ChangeOf(series) ==
  LET n == Len(series)
  IN Quotient(n >= 2, IF n >= 2 THEN series[n].close - series[n - 1].close ELSE 0,
              IF n >= 2 THEN series[n - 1].close ELSE 0)

\* A high above its neighbours counts once those after it have closed.
SwingsOf(series) ==
  {i \in SwingBars + 1 .. Len(series) - SwingBars :
     \A j \in (i - SwingBars .. i + SwingBars) \ {i} : series[j].high < series[i].high}

\* series_features: the one-bar return stands for the horizons and for what else needs
\* only enough bars.
SeriesFeatures(series, reason) ==
  LET opening == SubSeq(series, 1, RangeBars)
  IN [change |-> Put(ChangeOf(series), reason),
      vwap |-> Put(Quotient(series # <<>>, TurnoverOf(series), 3 * VolumeOf(series)),
                   IF series # <<>> THEN "ZERO_DENOMINATOR" ELSE reason),
      openingHigh |-> Put(IF Len(series) < RangeBars THEN Absent
                          ELSE Max({b.high : b \in Range(opening)}), reason),
      swingHigh |-> Put(IF SwingsOf(series) = {} THEN Absent
                        ELSE series[Max(SwingsOf(series))].high, reason)]

OpeningGap(series, prior) ==
  LET known == series # <<>> /\ prior # <<>> /\ (prior # <<>> => Last(prior) # <<>>)
  IN Put(IF known THEN Quotient(TRUE, series[1].open - Last(Last(prior)).close, Last(Last(prior)).close)
         ELSE Absent, "MISSING_INPUT")

\* _relative.
RelativeTo(left, right) ==
  Put(IF Present(left) /\ Present(right)
      THEN [of |-> left.value.of * right.value.by - right.value.of * left.value.by,
            by |-> left.value.by * right.value.by]
      ELSE Absent, "MISSING_INPUT")

\* _breadth: the fractions only when every member has a return.
BreadthOf(changes) ==
  LET members == DOMAIN changes
      known == {ref \in members : changes[ref] # Absent}
      share(refs) == Put(IF members # {} /\ known = members
                         THEN [of |-> Cardinality(refs), by |-> Cardinality(known)] ELSE Absent,
                         "MISSING_INPUT")
  IN [coverage |-> Put(IF members # {} THEN [of |-> Cardinality(known), by |-> Cardinality(members)]
                       ELSE Absent, "MISSING_INPUT"),
      advancing |-> share({ref \in known : changes[ref].of > 0}),
      declining |-> share({ref \in known : changes[ref].of < 0})]

QuoteSound(quote) ==
  quote.flags = {} /\ 0 < quote.bid /\ quote.bid <= quote.ask /\ quote.quoted <= quote.received

\* The quote received last, and of several the one of the latest exchange time.
LatestQuote(quotes) ==
  CHOOSE q \in quotes : \A r \in quotes \ {q} :
    \/ r.received < q.received
    \/ r.received = q.received /\ r.quoted < q.quoted
    \/ r.received = q.received /\ r.quoted = q.quoted /\ r.id < q.id

Aged(quote, at, limit) == 0 <= at - quote.quoted /\ at - quote.quoted <= limit

\* _liquidity, of the quotes of the entity, its series and its earlier sessions; the
\* figures by turnover are missing with those by volume.
LiquidityOf(quotes, series, sessions, quantity, at) ==
  LET quote == LatestQuote(quotes)
      valid == quotes # {} /\ QuoteSound(quote)
      fresh == valid /\ Aged(quote, at, QuoteStale)
      spreads == {q \in quotes : QuoteSound(q) /\ Aged(q, at, SpreadWindow)}
      ready == Len(sessions) = BaselineSessions /\ \A i \in DOMAIN sessions : sessions[i] # <<>>
      volume == SumFunction([i \in DOMAIN sessions |-> VolumeOf(sessions[i])])
      turnover == SumFunction([i \in DOMAIN sessions |-> TurnoverOf(sessions[i])])
      adv == Quotient(ready, volume, BaselineSessions)
      slot == Len(series)
      enough == ready /\ slot > 0 /\ \A i \in DOMAIN sessions : slot <= Len(sessions[i])
  IN [age |-> Put(IF quotes # {} THEN at - quote.quoted ELSE Absent, "MISSING_INPUT"),
      spread |-> Put(IF fresh THEN [of |-> 2 * (quote.ask - quote.bid), by |-> quote.ask + quote.bid]
                     ELSE Absent, IF valid THEN "STALE" ELSE "INVALID_INPUT"),
      medianOf |-> Put(IF fresh /\ spreads # {} THEN spreads ELSE Absent, "STALE"),
      adv |-> Put(adv, "WARMUP"),
      turnover |-> Put(Quotient(ready, turnover, 3 * BaselineSessions), "WARMUP"),
      participation |-> Put(IF quantity # Absent /\ adv # Absent
                            THEN Quotient(TRUE, quantity * adv.by, adv.of) ELSE Absent,
                            "MISSING_INPUT"),
      relativeVolume |-> Put(IF enough
                             THEN Quotient(TRUE, series[slot].volume * BaselineSessions,
                                           SumFunction([i \in DOMAIN sessions |->
                                                          sessions[i][slot].volume]))
                             ELSE Absent, "WARMUP")]

\* _pairs: the fit leaves the current bars out and needs a right leg that moves.
PairFeatures(left, right) ==
  LET n == StatisticsBars
      ready == Len(left) > n /\ Len(right) > n
      past(series) == [i \in 1 .. n |-> series[Len(series) - n - 1 + i].close]
  IN Put(IF ready /\ (ready => Cardinality(Range(past(right))) > 1)
         THEN <<past(left), past(right)>> ELSE Absent,
         IF ready THEN "ZERO_DENOMINATOR" ELSE "WARMUP")

-----------------------------------------------------------------------------
\* What is computed of the selected events.
SnapshotFrom(inputs, context, calendar, at) ==
  LET bars == {e \in Range(inputs) : e.kind = "BAR"}
      opening == Moment(calendar, at, "open")
      session(ref) == SeriesOf(bars, ref, opening, Endpoint(calendar, at), at)
      series(ref) == session(ref).bars
      features(ref) == SeriesFeatures(series(ref), session(ref).reason)
      relative(left, right) == RelativeTo(features(left).change, features(right).change)
      changes(refs) == [ref \in refs |-> ChangeOf(series(ref))]
      gap(ref) == OpeningGap(series(ref), PriorSessions(bars, ref, calendar, at))
  IN [at |-> at, inputs |-> inputs,
      stock |-> features(context.entity), market |-> features(context.nifty),
      sector |-> features(context.sector), stockGap |-> gap(context.entity),
      marketGap |-> gap(context.nifty), sectorGap |-> gap(context.sector),
      stockToMarket |-> relative(context.entity, context.nifty),
      stockToSector |-> relative(context.entity, context.sector),
      sectorToMarket |-> relative(context.sector, context.nifty),
      breadth |-> BreadthOf(changes(context.breadth)),
      sectorBreadth |-> BreadthOf(changes(context.members)),
      vix |-> Put(IF series(context.vix) # <<>> THEN Last(series(context.vix)).close ELSE Absent,
                  session(context.vix).reason),
      vixChange |-> Put(ChangeOf(series(context.vix)), session(context.vix).reason),
      liquidity |-> LiquidityOf({e \in Range(inputs) : e.kind = "QUOTE" /\ e.ref = context.entity},
                                series(context.entity),
                                PriorSessions(bars, context.entity, calendar, at),
                                context.quantity, at),
      pair |-> PairFeatures(series(context.entity), series(context.pair))]

\* snapshot; Absent where the code raises.
FeatureSnapshot(log, context, calendar, at) ==
  IF \/ context.known > at \/ at < context.from \/ context.to <= at
     \/ ~SessionKnown(calendar, at)
  THEN Absent
  ELSE SnapshotFrom(SelectedEvents(log, context, at), context, calendar, at)

-----------------------------------------------------------------------------
CONSTANTS
  FeatureEvents,    \* events there may be
  FeaturePast,      \* logs the session starts with
  FeatureContexts, FeatureCalendar,
  FeatureStart, FeatureEnd

KnownEvents == FeatureEvents \cup UNION {Range(log) : log \in FeaturePast}

\* What the envelopes and the models of bars demand: stamps are instants, a bar takes
\* time and has a volume, and an id is registered once.
ASSUME EventsAreStamped ==
  /\ \A e \in KnownEvents :
       /\ {e.id, e.received} \subseteq Int
       /\ e.kind = "BAR" => {e.start, e.end, e.volume} \subseteq Int /\ e.start < e.end
  /\ \A log \in FeaturePast :
       log \in Seq(KnownEvents) /\ \A i, j \in DOMAIN log : log[i].id = log[j].id => i = j
ASSUME FeatureDaysAreCovered ==
  SessionsOrdered(FeatureCalendar) /\ {FeatureStart, FeatureEnd} \subseteq Int /\ FeatureStart <= FeatureEnd
ASSUME AbsentIsNoValue == Absent \notin [of : Int, by : Int]

VARIABLES
  featureLog,  \* CausalFeatureEngine._events, in the order of the calls
  featureTime

featureVars == <<featureLog, featureTime>>

FeatureInit == featureLog \in FeaturePast /\ featureTime = FeatureStart

\* on_event: an id that is known is kept as it is, or raises when its content differs.
OnFeatureEvent(event) ==
  /\ event.received = featureTime
  /\ featureLog' = IF \E e \in Range(featureLog) : e.id = event.id THEN featureLog
                   ELSE Append(featureLog, event)
  /\ UNCHANGED featureTime

FeatureTick ==
  /\ featureTime < FeatureEnd
  /\ featureTime' = featureTime + 1
  /\ UNCHANGED featureLog

FeatureNext == FeatureTick \/ \E e \in FeatureEvents : OnFeatureEvent(e)
FeatureSpec == FeatureInit /\ [][FeatureNext]_featureVars

-----------------------------------------------------------------------------
SnapshotOf(log, context, at) == FeatureSnapshot(log, context, FeatureCalendar, at)

\* phase-5: snapshots include only receipts at or before their instant, and a later
\* receipt cannot repair an earlier snapshot.  A replay gives the snapshot that was taken
\* live, of the first n calls, once the events of its instant were in, although it is fed
\* in another order and with what was received later.
SnapshotsReplay ==
  \A context \in FeatureContexts, at \in {featureTime - SlotTicks, featureTime},
     n \in 0 .. Len(featureLog) :
    (\A i \in n + 1 .. Len(featureLog) : featureLog[i].received > at) =>
      SnapshotOf(SubSeq(featureLog, 1, n), context, at) = SnapshotOf(Reverse(featureLog), context, at)

\* "That preceding session must be complete; older sessions cannot substitute": the
\* opening gap is measured from the close of the last session of the exchange, and the
\* baselines have no hole.
BaselinesHaveNoHoles ==
  \A context \in FeatureContexts :
    LET s == SnapshotOf(featureLog, context, featureTime)
        days == SessionDays(FeatureCalendar, Day(featureTime))
        bars(day) == {e \in Range(featureLog) : /\ e.kind = "BAR" /\ e.ref = context.entity
                                                /\ Day(e.start) = day}
        closing(day) == {e \in bars(day) : e.end = Moment(FeatureCalendar, e.start, "close")}
    IN s # Absent =>
         /\ Present(s.stockGap) => \E e \in closing(Last(days)) : s.stockGap.value.by = e.close
         /\ Present(s.liquidity.adv) => \A d \in Range(Newest(days)) : closing(d) # {}
         /\ Present(s.liquidity.relativeVolume) => Present(s.liquidity.adv)

\* A series with a bar that is unsound or comes a second time stays invalid until the
\* day of the session is over: no later event clears it.
InvalidStaysInvalid ==
  \A context \in FeatureContexts, at \in FeatureStart .. featureTime :
    LET reasonAt(t) ==
          SeriesOf({e \in Range(SelectedEvents(featureLog, context, t)) : e.kind = "BAR"},
                   context.entity, Moment(FeatureCalendar, t, "open"), Endpoint(FeatureCalendar, t), t).reason
    IN Day(at) = Day(featureTime) /\ SessionKnown(FeatureCalendar, at) =>
         (reasonAt(at) = "INVALID_INPUT" => reasonAt(featureTime) = "INVALID_INPUT")
=============================================================================
