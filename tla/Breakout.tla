------------------------------ MODULE Breakout ------------------------------
(***************************************************************************)
(* Alpha B, MomentumBreakout.evaluate: closed bars that cross a level the  *)
(* security has known since before the bar, and observe_failed_breakout,   *)
(* which looks at later bars for the close back through the level.         *)
(*                                                                         *)
(* Prices are integers; an extension, a buffer and the like are given in   *)
(* units of 1/AtrUnit of the average true range.  An observation holds the *)
(* current features, the reference with the levels known then, the trigger *)
(* bar and the one before it.                                              *)
(*                                                                         *)
(* The machine: the bars of one session for a watched security, evaluated  *)
(* on time, late or repeatedly, and published.                             *)
(***************************************************************************)
EXTENDS UniverseBuilder

CONSTANTS
  BreakoutRules,  \* BreakoutSettings
  BarTicks,       \* ticks of a five-minute bar
  AtrUnit         \* one average true range

\* BreakoutSettings.ordered, the fields, and evidence that is never out of date when
\* it is made: the bar lag is below the observation window.
ASSUME BreakoutRulesOrdered ==
  /\ {BarTicks, AtrUnit, BreakoutRules.observationBars, BreakoutRules.minExtension,
      BreakoutRules.buffer, BreakoutRules.openingBars} \subseteq Nat \ {0}
  /\ BreakoutRules.sources \subseteq {"opening_range", "swing"}
  /\ BreakoutRules.minExtension <= BreakoutRules.maxExtension
  /\ BreakoutRules.lag \in Nat /\ BreakoutRules.lag < BarTicks * BreakoutRules.observationBars

Sign(side) == IF side = "LONG" THEN 1 ELSE -1

\* The feature of a kind is meaningful once so many bars of the session have closed.
BarsNeeded(kind) == IF kind = "swing" THEN BreakoutRules.swingBars ELSE BreakoutRules.openingBars

\* The levels that the trigger bar is the first to close beyond.
Crossed(o, side, opening) ==
  {kind \in BreakoutRules.sources :
     /\ o.reference.at >= opening + BarTicks * BarsNeeded(kind)
     /\ o.reference.levels[side][kind] # Absent /\ o.reference.levels[side][kind] > 0
     /\ Sign(side) * (o.previous.close - o.reference.levels[side][kind]) <= 0
     /\ Sign(side) * (o.bar.close - o.reference.levels[side][kind]) > 0}

\* The hardest of them; the opening range wins a tie.
HardestOf(o, side, opening) ==
  LET level(kind) == Sign(side) * o.reference.levels[side][kind]
      crossed == Crossed(o, side, opening)
  IN CHOOSE kind \in crossed :
       /\ \A other \in crossed : level(other) <= level(kind)
       /\ kind = "swing" => \A other \in crossed \ {kind} : level(other) < level(kind)

\* Below a broken high, above a broken low.
InvalidationAt(o, side, level) == level - (Sign(side) * BreakoutRules.buffer * o.atr) \div AtrUnit

\* The checks on a break; strength is the mean percentile of the two residuals in
\* favour of the side, of 4 times the population.  direction is the common sign of
\* the distance to the session's and the sector's vwap and the slope, 0 without one.
Confirmed(o, side, level, strength, population) ==
  LET extension == Sign(side) * (o.bar.close - level) * AtrUnit
      range == o.bar.high - o.bar.low
      inside == IF side = "LONG" THEN o.bar.close - o.bar.low ELSE o.bar.high - o.bar.close
  IN /\ o.direction = Sign(side)
     /\ strength * AtrUnit >= BreakoutRules.minStrength * 4 * population
     /\ Sign(side) * o.sector >= BreakoutRules.minResidual
     /\ Sign(side) * o.market >= BreakoutRules.minResidual
     /\ BreakoutRules.minExtension * o.atr <= extension
     /\ extension <= BreakoutRules.maxExtension * o.atr
     /\ inside * AtrUnit >= BreakoutRules.minLocation * range
     /\ Sign(side) * (o.bar.close - o.bar.open) * AtrUnit >= BreakoutRules.minBody * range
     /\ BreakoutRules.reward * AtrUnit * o.atr >=
          BreakoutRules.minProxy * (extension + BreakoutRules.buffer * o.atr)
     /\ o.participates
     /\ InvalidationAt(o, side, level) > 0
     /\ o.merit + BreakoutRules.strengthWeight * strength >= BreakoutRules.minScore * 4 * population

\* The contexts, the provenance and the causality of the two bars.
BreakoutSound(o, master, universe, decision, at, opening) ==
  /\ Unencumbered(InstrumentOf(master, o.token), Day(at))
  /\ o.linked /\ o.universe = universe.id /\ o.release = decision.release
  /\ opening <= o.reference.at /\ o.reference.at <= o.bar.start
  /\ o.previous.end = o.bar.start /\ o.previous.start >= opening
  /\ (o.bar.start - opening) % BarTicks = 0
  /\ o.bar.end <= at /\ at - o.bar.end <= BreakoutRules.lag
  /\ Ready(o.bar, at) /\ Ready(o.previous, at)
  /\ o.bar.token = o.token /\ o.previous.token = o.token

\* mutant: the identity has the time of the evaluation in it
SignalId_Evaluated(o, at) == <<at, o.token>>

\* The identity of a signal: its trigger bar, whatever the time or the side.
SignalId(o, at) == <<o.bar.end, o.token>>

ExpiryOf(o, closing) == Min({closing, o.bar.end + BarTicks * BreakoutRules.observationBars})

\* measure_breakout and the evidence: the metadata of a confirmed break.
SignalOf(o, side, at, opening, closing) ==
  LET kind == HardestOf(o, side, opening)
      level == o.reference.levels[side][kind]
  IN [id |-> SignalId(o, at), token |-> o.token, side |-> side, at |-> at,
      kind |-> kind, level |-> level, known |-> o.reference.at, price |-> o.bar.close,
      out |-> InvalidationAt(o, side, level), trigger |-> o.bar.end,
      expires |-> ExpiryOf(o, closing)]

\* evaluate, for a day that the calendar covers or not.
FindBreakouts(offered, universe, master, decision, calendar, at) ==
  LET observations == {o \in offered : o.at = at}
      side == DirectionalSide(decision)
      opening == Moment(calendar, at, "open")
      closing == Moment(calendar, at, "close")
      n == Cardinality(observations)
      rank(field, o) == Rank([p \in observations |-> p[field]], o, observations)
      up(o) == rank("sector", o) + rank("market", o)
      strength(o) == IF side = "LONG" THEN up(o) ELSE 4 * n - up(o)
      confirmed(o) ==
        /\ side = "SHORT" => ShortPermitted(o.token, master, universe)
        /\ o.atr > 0 /\ o.bar.high # o.bar.low
        /\ Crossed(o, side, opening) # {}
        /\ Confirmed(o, side, o.reference.levels[side][HardestOf(o, side, opening)], strength(o), n)
      result(reason, intents) == [at |-> at, reason |-> reason, intents |-> intents]
  IN IF ~BreakoutRules.enabled THEN result("ALPHA_DISABLED", {})
     ELSE IF side = Absent \/ ~Permitted(decision, "breakout", at)
          THEN result("STATE_PERMISSION_DENIED", {})
     ELSE IF ~SessionKnown(calendar, at) THEN result("SESSION_UNAVAILABLE", {})
     ELSE IF at < opening \/ closing <= at THEN result("SESSION_UNAVAILABLE", {})
     ELSE IF \/ ~UniverseOfDay(master, universe, at)
             \/ Cardinality(universe.long) < BreakoutRules.minimum
             \/ ~CrossSectionComplete(observations, master, universe)
          THEN result("UNIVERSE_UNAVAILABLE_OR_AMBIGUOUS", {})
     ELSE IF \E o \in observations :
               ~BreakoutSound(o, master, universe, decision, at, opening)
          THEN result("INPUT_BLOCKED", {})
     ELSE result("EVALUATION_COMPLETE",
                 {SignalOf(o, side, at, opening, closing) : o \in {p \in observations : confirmed(p)}})

\* mutant: a close back through the level counts whenever it happens
FailureStatus_Always(signal, bar, at) ==
  IF ~Ready(bar, at) THEN "BAR_NOT_READY"
  ELSE IF bar.end <= signal.trigger THEN "NOT_SUBSEQUENT_BAR"
  ELSE IF Sign(signal.side) * (bar.close - signal.out) <= 0 THEN "FAILED"
  ELSE IF bar.end > signal.expires THEN "EXPIRED"
  ELSE "ACTIVE"

\* observe_failed_breakout, for a bar of the same security and source.
FailureStatus(signal, bar, at) ==
  IF ~Ready(bar, at) THEN "BAR_NOT_READY"
  ELSE IF bar.end <= signal.trigger THEN "NOT_SUBSEQUENT_BAR"
  ELSE IF bar.end > signal.expires THEN "EXPIRED"
  ELSE IF Sign(signal.side) * (bar.close - signal.out) <= 0 THEN "FAILED"
  ELSE "ACTIVE"

-----------------------------------------------------------------------------
CONSTANTS
  BreakoutMaster, BreakoutUniverse, BreakoutCalendar,
  Watched,      \* the security whose bars are modelled
  Others,       \* the observations of the rest of the universe, before they are stamped
  Price,        \* closes
  FirstClose,   \* the close of the first bar
  Features,     \* [direction, participates, sector, market]
  Swings,       \* levels of a confirmed swing, or Absent
  Outcomes,     \* decisions of the router
  SessionBars   \* bound on the bars of the session

VARIABLES
  tape,      \* the bars of the watched security since the opening
  late,      \* ticks since the last of them closed
  accepted,  \* signals in the journal
  stopped    \* the journal has met a conflict

breakoutVars == <<tape, late, accepted, stopped>>

DayStart == BreakoutMaster.asOf * DayTicks
OpeningBell == Moment(BreakoutCalendar, DayStart, "open")
BreakoutTime == OpeningBell + BarTicks * Len(tape) + late

\* Prices are positive, and the day is one with a session.
ASSUME BreakoutInputsTyped ==
  /\ {FirstClose} \cup Price \subseteq Nat \ {0} /\ Swings \subseteq Nat \cup {Absent}
  /\ SessionBars \in Nat \ {0} /\ BreakoutMaster.asOf \in Int
  /\ SessionsOrdered(BreakoutCalendar) /\ SessionKnown(BreakoutCalendar, DayStart)

BarAt(n, open, close) ==
  [token |-> Watched, start |-> OpeningBell + BarTicks * (n - 1), end |-> OpeningBell + BarTicks * n,
   received |-> OpeningBell + BarTicks * n, open |-> open, close |-> close,
   high |-> Max({open, close}) + 1, low |-> Min({open, close}) - 1, clean |-> TRUE]

BreakoutInit ==
  /\ tape = <<BarAt(1, FirstClose, FirstClose)>>
  /\ late = 0
  /\ accepted = {}
  /\ stopped = FALSE

CloseBar(close) ==
  /\ Len(tape) < SessionBars
  /\ tape' = Append(tape, BarAt(Len(tape) + 1, tape[Len(tape)].close, close))
  /\ late' = 0
  /\ UNCHANGED <<accepted, stopped>>

\* Time passes until the next bar.
Linger ==
  /\ late < BarTicks - 1
  /\ late' = late + 1
  /\ UNCHANGED <<tape, accepted, stopped>>

\* The levels after the first n bars: the opening range of the bars that there are,
\* and a swing.
LevelsAfter(n, swing) ==
  LET first == {tape[i] : i \in 1 .. Min({n, BreakoutRules.openingBars})}
      known == n >= BreakoutRules.openingBars
  IN [LONG |-> [opening_range |-> IF known THEN Max({b.high : b \in first}) ELSE Absent, swing |-> swing],
      SHORT |-> [opening_range |-> IF known THEN Min({b.low : b \in first}) ELSE Absent, swing |-> swing]]

\* The watched security as it is now, with the levels as of n bars.
Watching(features, n, swing) ==
  [token |-> Watched, at |-> BreakoutTime, linked |-> TRUE, universe |-> BreakoutUniverse.id,
   release |-> "r", atr |-> 10, merit |-> 0,
   direction |-> features.direction, participates |-> features.participates,
   sector |-> features.sector, market |-> features.market,
   reference |-> [at |-> OpeningBell + BarTicks * n, levels |-> LevelsAfter(n, swing)],
   bar |-> tape[Len(tape)], previous |-> tape[Len(tape) - 1]]

\* The others are quiet: their bars cross no level.
QuietAt(o) ==
  LET quiet == [tape[1] EXCEPT !.token = o.token]
  IN [Watching(o, 0, Absent) EXCEPT !.token = o.token,
        !.bar = [quiet EXCEPT !.start = BreakoutTime - late - BarTicks, !.end = BreakoutTime - late],
        !.previous = [quiet EXCEPT !.start = BreakoutTime - late - 2 * BarTicks,
                                   !.end = BreakoutTime - late - BarTicks]]

\* evaluate, and publish_intent for each signal: one that is in the journal with
\* other contents stops it.
Evaluate(features, n, swing, outcome) ==
  /\ ~stopped /\ Len(tape) > 1
  /\ n < Len(tape)
  /\ LET decision == [outcome EXCEPT !.at = BreakoutTime]
         found == FindBreakouts({Watching(features, n, swing)} \cup {QuietAt(o) : o \in Others},
                                BreakoutUniverse, BreakoutMaster, decision, BreakoutCalendar,
                                BreakoutTime)
         clash == \E s \in found.intents, a \in accepted : a.id = s.id /\ a # s
     IN /\ stopped' = clash
        /\ accepted' = IF clash THEN accepted ELSE accepted \cup found.intents
  /\ UNCHANGED <<tape, late>>

BreakoutNext ==
  \/ \E close \in Price : CloseBar(close)
  \/ Linger
  \/ \E f \in Features, n \in 0 .. SessionBars, swing \in Swings, d \in Outcomes : Evaluate(f, n, swing, d)

BreakoutSpec == BreakoutInit /\ [][BreakoutNext]_breakoutVars

-----------------------------------------------------------------------------
\* Types: a signal is in time when it is made.
BreakoutTypeOK ==
  /\ late \in 0 .. BarTicks - 1 /\ Len(tape) \in 1 .. SessionBars
  /\ \A s \in accepted :
       s.known < s.trigger /\ s.trigger <= s.at /\ s.at < s.expires /\ s.out > 0

\* phase-8-breakout.md: re-evaluating the same trigger cannot create another
\* accepted identity, whatever has changed in between.
OneSignalPerTrigger ==
  \A s, t \in accepted : s.trigger = t.trigger /\ s.token = t.token => s = t

\* Already-beyond levels do not generate repeated continuation signals: between two
\* signals on one level the price has closed back on its side of it; and the level
\* of a signal is older than its trigger bar.
BreaksAreNew ==
  \A s, t \in accepted :
    /\ (s.side = t.side /\ s.level = t.level /\ s.trigger < t.trigger) =>
         \E i \in DOMAIN tape :
           /\ s.trigger <= tape[i].end /\ tape[i].end < t.trigger
           /\ Sign(s.side) * (tape[i].close - s.level) <= 0
    /\ s.known <= s.trigger - BarTicks

\* A break is a signal once.
SignalsAreNew == OneSignalPerTrigger /\ BreaksAreNew

\* Observations of one signal, made of any bars in any order, agree with the order of
\* the bars: nothing before the trigger, active or failed in the window, expired for
\* ever after, with no more than observation_bars in the window.
StatusesFollowTheBars ==
  \A s \in accepted :
    LET status == [i \in DOMAIN tape |-> FailureStatus(s, tape[i], BreakoutTime)]
        open == {i \in DOMAIN tape : status[i] \in {"ACTIVE", "FAILED"}}
    IN /\ Cardinality(open) <= BreakoutRules.observationBars
       /\ \A i, k \in DOMAIN tape :
            /\ (i < k /\ status[i] = "EXPIRED") => status[k] = "EXPIRED"
            /\ (i < k /\ i \in open) => status[k] # "NOT_SUBSEQUENT_BAR"
            /\ (i < k /\ k \in open /\ tape[i].end > s.trigger) => i \in open
=============================================================================
