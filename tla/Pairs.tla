-------------------------------- MODULE Pairs --------------------------------
(***************************************************************************)
(* Alpha C, PairsEngine.evaluate: whether to enter or to leave a pair of   *)
(* securities whose spread has moved away from its training mean.          *)
(*                                                                         *)
(* The regression and its tests are numbers from outside, a fit: [beta,    *)
(* mean, std, failed, from, to], or Absent where fitting raises; closes    *)
(* are log prices and integers, beta is in units of 1/BetaUnit, z in units *)
(* of 1/ZUnit.  A row has a bar of either leg.                             *)
(*                                                                         *)
(* The machine: a pair through sessions and nights, with rows that are     *)
(* missing or late, a fit that rolls with every bar, and the position that *)
(* the research desk keeps from an entry to an exit.                       *)
(***************************************************************************)
EXTENDS UniverseBuilder

CONSTANTS
  PairRules,     \* PairsSettings
  PairBarTicks,  \* ticks of a five-minute bar
  BetaUnit, ZUnit

\* PairsSettings.ordered and the bounds of the fields.
ASSUME PairRulesOrdered ==
  /\ {PairRules.exitZ, PairRules.stopZ, PairRules.maxBeta, PairRules.maxDrift} \subseteq Nat
  /\ {PairRules.entryZ, PairRules.minBeta, PairRules.trainingBars, PairRules.holdTicks,
      PairBarTicks, BetaUnit, ZUnit} \subseteq Nat \ {0}
  /\ PairRules.exitZ < PairRules.entryZ /\ PairRules.entryZ < PairRules.stopZ
  /\ PairRules.minBeta < PairRules.maxBeta

Span(x) == IF x < 0 THEN -x ELSE x
Opposite(side) == IF side = "LONG" THEN "SHORT" ELSE "LONG"

-----------------------------------------------------------------------------
(* The data: select_window and liquid. *)

RowKnown(row, at) == \A bar \in {row.left, row.right} : bar.end <= at /\ bar.received <= at

\* The last training_bars + 1 of the rows that have closed and arrived.
PairWindow(rows, at) ==
  LET available == Sorted({r \in rows : RowKnown(r, at)}, LAMBDA r, q : r.left.end < q.left.end)
      n == Len(available)
  IN SubSeq(available, Max({1, n - PairRules.trainingBars}), n)

\* The starts of the bars that the sessions of those days have.
ExpectedSlots(calendar, first, last) ==
  {t \in first .. last - PairBarTicks :
     /\ SessionOn(calendar, Day(t)) # Absent
     /\ (t - Moment(calendar, t, "open")) % PairBarTicks = 0
     /\ Moment(calendar, t, "open") <= t
     /\ t + PairBarTicks <= Moment(calendar, t, "close")}

\* Enough rows, the last one fresh, adjusted as far back as they go, the legs in step,
\* not spread over more than a year, and no slot missing or twice.
WindowSound(window, candidate, calendar, at) ==
  LET last == window[Len(window)].left.end
      slots == ExpectedSlots(calendar, window[1].left.start, last)
  IN /\ Len(window) = PairRules.trainingBars + 1
     /\ at - last <= PairRules.lag
     /\ candidate.from <= window[1].left.start
     /\ \A i \in DOMAIN window :
          LET left == window[i].left
              right == window[i].right
          IN /\ left.start = right.start /\ left.end = right.end
             /\ Ready(left, at) /\ left.token = candidate.left
             /\ Ready(right, at) /\ right.token = candidate.right
     /\ Day(last) - Day(window[1].left.start) <= 366
     /\ \A day \in Day(window[1].left.start) .. Day(last) : Covered(calendar, day)
     /\ {w.left.start : w \in Range(window)} = slots
     /\ Cardinality(slots) = Len(window)

\* Both legs have a clean and narrow quote and known turnover, none too old.
BothLiquid(liquidity, candidate, at) ==
  \A leg \in {"left", "right"} :
    LET item == liquidity[leg]
    IN /\ item.quote.token = candidate[leg]
       /\ item.quote.clean /\ item.quote.narrow
       /\ item.quote.at <= item.quote.received /\ item.quote.received <= at
       /\ at - item.quote.at <= PairRules.quoteAge
       /\ item.known <= at /\ at - item.known <= PairRules.liquidityAge
       /\ item.ample

-----------------------------------------------------------------------------
(* The fit and the score. *)

\* relationship_rejections: the tests that failed, and the two limits on beta.
Rejections(fit) ==
  fit.failed
  \cup (IF PairRules.minBeta <= fit.beta /\ fit.beta <= PairRules.maxBeta THEN {} ELSE {"BETA_OUT_OF_RANGE"})
  \cup (IF Span(BetaUnit - fit.beta) * BetaUnit <= PairRules.maxNet * (BetaUnit + fit.beta)
        THEN {} ELSE {"NEUTRALITY_LIMIT"})

\* spread_z, times the standard deviation.
SpreadOf(row, fit) == BetaUnit * row.left.close - fit.beta * row.right.close
Deviation(row, fit) == SpreadOf(row, fit) - fit.mean
Reaches(deviation, z, fit) == deviation * ZUnit >= z * fit.std

DriftedFrom(fit, active) == Span(fit.beta - active.beta) * BetaUnit > PairRules.maxDrift * active.beta

-----------------------------------------------------------------------------
(* evaluate. *)

\* What has to hold of the pair, its instruments and the position before the data.
PairKnown(candidate, universe, master, calendar, at) ==
  /\ SessionKnown(calendar, at)
  /\ Moment(calendar, at, "open") <= at /\ at <= Moment(calendar, at, "close")
  /\ candidate.known <= Moment(calendar, at, "open")
  /\ candidate.from <= at /\ at < candidate.to /\ candidate.clear
  /\ UniverseOfDay(master, universe, at)
  /\ \A i, j \in master.instruments : i # j => i.token # j.token
  /\ \A leg \in {"left", "right"} :
       /\ candidate[leg] \in universe.long
       /\ \E i \in master.instruments :
            i.token = candidate[leg] /\ Unencumbered(i, Day(at)) /\ i.sector = candidate.sector[leg]

PositionValid(position, candidate, calendar, at) ==
  position # Absent =>
    /\ position.pair = candidate.id
    /\ Moment(calendar, at, "open") <= position.opened /\ position.opened <= at
    /\ position.fit.to < position.opened /\ position.fit.beta > 0

\* mutant: only a spread that has come near its mean has reverted
Reverted_Near(position, deviation) == Span(deviation) * ZUnit <= PairRules.exitZ * position.fit.std

\* Near the mean, or past it on the other side.
Reverted(position, deviation) ==
  \/ Span(deviation) * ZUnit <= PairRules.exitZ * position.fit.std
  \/ deviation * position.deviation <= 0

\* Why a position is left, in the order of the code; {} to hold.
ExitFor(position, fit, deviation, liquidity, permitted, flatten, at) ==
  LET short == position.direction = "SHORT_SPREAD"
      active == position.fit
      adverse == Reaches(IF short THEN deviation ELSE -deviation, PairRules.stopZ, active)
  IN IF at >= flatten THEN {"SESSION_FLATTEN"}
     ELSE IF at >= position.opened + PairRules.holdTicks THEN {"MAX_HOLD"}
     ELSE IF Rejections(fit) # {} \/ DriftedFrom(fit, active) THEN {"STRUCTURAL_BREAK"}
     ELSE IF ~liquidity THEN {"LIQUIDITY_DETERIORATION"}
     ELSE IF ~permitted THEN {"STATE_PERMISSION_WITHDRAWN"}
     ELSE IF adverse THEN {"SPREAD_ADVERSE_BOUNDARY"}
     ELSE IF Reverted(position, deviation) THEN {"SPREAD_REVERSION"}
     ELSE {}

\* Why no position is entered whatever the spread.
EntryBlocks(fit, deviation, liquidity, permitted, final, at) ==
  Rejections(fit)
  \cup (IF liquidity THEN {} ELSE {"POOR_LIQUIDITY"})
  \cup (IF permitted /\ at < final THEN {} ELSE {"STATE_OR_ENTRY_WINDOW_BLOCKED"})
  \cup (IF Reaches(Span(deviation), PairRules.stopZ, fit) THEN {"EXTREME_SPREAD"} ELSE {})

\* mutant: an exit is hedged with the fit of the day
ActiveFit_Rolling(position, fit) == fit

ActiveFit(position, fit) == IF position = Absent THEN fit ELSE position.fit

LeftSide(action, direction) ==
  IF (action = "ENTER") = (direction = "LONG_SPREAD") THEN "LONG" ELSE "SHORT"

\* The two legs, as parts of beta + BetaUnit of the gross.
LegsOf(candidate, action, direction, fit) ==
  LET side == LeftSide(action, direction)
  IN {[token |-> candidate.left, side |-> side, part |-> BetaUnit, of |-> BetaUnit + fit.beta],
      [token |-> candidate.right, side |-> Opposite(side), part |-> fit.beta, of |-> BetaUnit + fit.beta]}

\* The outcome of an evaluation: reasons, the intent if there is one, and whether an
\* open position needs attention.
FindPair(candidate, rows, liquidity, universe, master, decision, calendar, at, mode, position, fit) ==
  LET window == PairWindow(rows, at)
      active == ActiveFit(position, fit)
      deviation == Deviation(window[Len(window)], active)
      permitted == Permitted(decision, "pairs", at)
      quoted == BothLiquid(liquidity, candidate, at)
      flatten == Moment(calendar, at, "flatten")
      exit == ExitFor(position, fit, deviation, quoted, permitted, flatten, at)
      blocks == EntryBlocks(fit, deviation, quoted, permitted, Moment(calendar, at, "finalEntry"), at)
      direction == IF position # Absent THEN position.direction
                   ELSE IF deviation > 0 THEN "SHORT_SPREAD" ELSE "LONG_SPREAD"
      result(reasons, intent) ==
        [reasons |-> reasons, intent |-> intent, attention |-> position # Absent /\ reasons # {"HOLD"}]
      intent(action, reasons) ==
        [id |-> <<candidate.id, at>>, at |-> at, action |-> action, direction |-> direction,
         legs |-> LegsOf(candidate, action, direction, active), fit |-> active, reasons |-> reasons,
         deviation |-> deviation,
         until |-> Min({flatten, (IF position = Absent THEN at ELSE position.opened) + PairRules.holdTicks})]
      shortLeg == IF direction = "LONG_SPREAD" THEN candidate.right ELSE candidate.left
  IN IF mode = "LIVE" THEN result({"PAIR_LIVE_DISABLED"}, Absent)
     ELSE IF ~PairRules.enabled THEN result({"ALPHA_DISABLED"}, Absent)
     ELSE IF \/ ~PairKnown(candidate, universe, master, calendar, at)
             \/ window = <<>> \/ ~WindowSound(window, candidate, calendar, at)
             \/ ~PositionValid(position, candidate, calendar, at)
          THEN result({"INPUT_UNAVAILABLE_OR_AMBIGUOUS"}, Absent)
     ELSE IF fit = Absent THEN result({"STATISTICAL_DIAGNOSTICS_UNAVAILABLE"}, Absent)
     ELSE IF position # Absent /\ exit = {} THEN result({"HOLD"}, Absent)
     ELSE IF position # Absent /\ exit # {} THEN result(exit, intent("EXIT", exit))
     ELSE IF position = Absent /\ blocks # {} THEN result(blocks, Absent)
     ELSE IF position = Absent /\ blocks = {} /\ ~Reaches(Span(deviation), PairRules.entryZ, fit)
          THEN result({"NO_ENTRY_THRESHOLD"}, Absent)
     ELSE IF ~ShortPermitted(shortLeg, master, universe)
          THEN result({"SHORT_ROUTE_INELIGIBLE"}, Absent)
     ELSE LET side == IF deviation > 0 THEN {"POSITIVE_SPREAD_SHORT"} ELSE {"NEGATIVE_SPREAD_LONG"}
          IN result(side, intent("ENTER", side))

-----------------------------------------------------------------------------
CONSTANTS
  PairListing,    \* the master of a day
  Pair,           \* the candidate
  PairCalendar,
  PairClose,      \* closes of the left leg; the right one does not move
  Fits,           \* rolling fits, before they are stamped
  PairRouting,    \* decisions of the router
  Narrow,         \* whether the quotes are narrow
  FirstSlot, LastSlot, PairReceipts

\* What the settings and the models of the inputs let in: a fit has a spread.
PairFit == [beta : Int, mean : Int, std : Nat \ {0}, failed : SUBSET STRING, to : Int]
ASSUME PairInputsTyped ==
  /\ PairClose \subseteq Int /\ Fits \subseteq PairFit \cup {Absent}
  /\ SessionsOrdered(PairCalendar)
  /\ FirstSlot \in Nat /\ LastSlot \in ExpectedSlots(PairCalendar, FirstSlot, LastSlot + PairBarTicks)

\* A position, which is not None.
PairPosition ==
  [pair : {Pair.id}, direction : {"LONG_SPREAD", "SHORT_SPREAD"}, opened : Int, fit : PairFit,
   deviation : Int,
   legs : SUBSET [token : {Pair.left, Pair.right}, side : {"LONG", "SHORT"}, part : Int, of : Int]]
ASSUME PositionsAreNotAbsent == Absent \notin PairPosition

VARIABLES
  rows,      \* what the provider has of the last slots
  slot,      \* start of the last bar
  waited,    \* ticks since it closed
  rolling,   \* the fit of the rows before the last, Absent if it cannot be made
  position,  \* the PairPosition of the desk, with its entry intent
  verdict    \* the last evaluation, with the inputs that were chosen

pairVars == <<rows, slot, waited, rolling, position, verdict>>

PairTime == slot + PairBarTicks + waited
PairMaster == PairListing[Day(PairTime)]
PairRulesOfDay ==
  [excludeSurveillance |-> TRUE, excludeAmbiguous |-> TRUE, symbols |-> {}, sectors |-> {},
   shortsAllowed |-> TRUE, shortsNeedFo |-> TRUE]
PairUniverse == BuildUniverse(PairMaster, PairRulesOfDay, PairMaster.generated)

RowAt(start, close, delay) ==
  LET bar(token, price) == [token |-> token, start |-> start, end |-> start + PairBarTicks,
                            received |-> start + PairBarTicks + delay, close |-> price, clean |-> TRUE]
  IN [left |-> bar(Pair.left, close), right |-> bar(Pair.right, 10)]

\* The fit of the rows before the last bar; what it was fitted to is seen in it alone.
FitAt(fit, start) == IF fit = Absent THEN Absent ELSE [fit EXCEPT !.to = start]

PairInit ==
  /\ slot = FirstSlot /\ waited = 0
  /\ rows = {RowAt(t, 10, 0) : t \in ExpectedSlots(PairCalendar, FirstSlot - 4 * PairBarTicks, FirstSlot + PairBarTicks)}
  /\ \E fit \in Fits : rolling = FitAt(fit, FirstSlot)
  /\ position = Absent /\ verdict = Absent

\* The next bar of the calendar, with its row or without; only the closes of the last
\* row matter and only the last rows.
NextPairBar(close, fit, delay) ==
  LET next == Min(ExpectedSlots(PairCalendar, slot + 1, LastSlot + PairBarTicks))
      kept == {RowAt(r.left.start, 10, r.left.received - r.left.end)
                 : r \in {q \in rows : slot - q.left.start < DayTicks}}
  IN /\ slot < LastSlot
     /\ slot' = next /\ waited' = 0
     /\ rows' = kept \cup (IF delay = Absent THEN {} ELSE {RowAt(next, close, delay)})
     /\ rolling' = FitAt(fit, next)
     /\ verdict' = Absent
     /\ UNCHANGED position

PairWait ==
  /\ waited < PairBarTicks - 1
  /\ waited' = waited + 1 /\ verdict' = Absent
  /\ UNCHANGED <<rows, slot, rolling, position>>

QuoteOf(token, narrow) ==
  [quote |-> [token |-> token, clean |-> TRUE, narrow |-> narrow, at |-> PairTime, received |-> PairTime],
   known |-> PairTime, ample |-> TRUE]

Outcome(decision, narrow, held) ==
  FindPair(Pair, rows,
           [left |-> QuoteOf(Pair.left, TRUE), right |-> QuoteOf(Pair.right, narrow)],
           PairUniverse, PairMaster, [decision EXCEPT !.at = PairTime], PairCalendar, PairTime, "PAPER",
           held, rolling)

\* evaluate with the position of the desk, and publish_pair_intent.
EvaluatePair(decision, narrow) ==
  /\ verdict = Absent
  /\ verdict' = [outcome |-> Outcome(decision, narrow, position), decision |-> decision, narrow |-> narrow]
  /\ UNCHANGED <<rows, slot, waited, rolling, position>>

\* PairPosition: the context that the caller supplies from now on.
PositionOf(intent, opened) ==
  [pair |-> Pair.id, direction |-> intent.direction, opened |-> opened, fit |-> intent.fit,
   deviation |-> intent.deviation, legs |-> intent.legs]

EnterPair ==
  /\ verdict # Absent /\ verdict.outcome.intent # Absent /\ verdict.outcome.intent.action = "ENTER"
  /\ position = Absent
  /\ position' = PositionOf(verdict.outcome.intent, PairTime)
  /\ verdict' = Absent
  /\ UNCHANGED <<rows, slot, waited, rolling>>

LeavePair ==
  /\ verdict # Absent /\ verdict.outcome.intent # Absent /\ verdict.outcome.intent.action = "EXIT"
  /\ position' = Absent /\ verdict' = Absent
  /\ UNCHANGED <<rows, slot, waited, rolling>>

PairNext ==
  \/ \E close \in PairClose, fit \in Fits, delay \in PairReceipts : NextPairBar(close, fit, delay)
  \/ PairWait
  \/ \E d \in PairRouting, narrow \in Narrow : EvaluatePair(d, narrow)
  \/ EnterPair
  \/ LeavePair

PairSpec == PairInit /\ [][PairNext]_pairVars

-----------------------------------------------------------------------------
\* phase-9-pairs.md: exit references retain the entry fit.  An exit undoes the entry:
\* the same two securities in the same proportions, the other way round, however the
\* rolling fit has moved.
ExitUndoesEntry ==
  (verdict # Absent /\ position # Absent /\ verdict.outcome.intent # Absent) =>
    /\ verdict.outcome.intent.action = "EXIT"
    /\ verdict.outcome.intent.legs = {[leg EXCEPT !.side = Opposite(leg.side)] : leg \in position.legs}

\* An open position is never lost sight of: whatever is wrong with the inputs, the
\* fit, the pair or the day, an evaluation leaves it, calls for attention, or holds it
\* in its session, before its end and inside the bounds of its entry.
OpenPairsAreWatched ==
  (verdict # Absent /\ position # Absent /\ ~verdict.outcome.attention) =>
    /\ verdict.outcome.reasons = {"HOLD"}
    /\ Day(PairTime) = Day(position.opened)
    /\ PairTime < Moment(PairCalendar, PairTime, "flatten")
    /\ PairTime < position.opened + PairRules.holdTicks
    /\ rolling # Absent
    /\ \E r \in rows :
         /\ RowKnown(r, PairTime) /\ PairTime - r.left.end <= PairRules.lag
         /\ LET z == Deviation(r, position.fit) IN
              /\ ~Reaches(IF position.direction = "SHORT_SPREAD" THEN z ELSE -z, PairRules.stopZ, position.fit)
              /\ z * position.deviation > 0

\* No churn: with the very inputs of its entry a position is held.
EntriesAreHeld ==
  (verdict # Absent /\ verdict.outcome.intent # Absent /\ verdict.outcome.intent.action = "ENTER") =>
    Outcome(verdict.decision, verdict.narrow, PositionOf(verdict.outcome.intent, PairTime)).reasons = {"HOLD"}

\* Nothing is asked of a history with a hole, over night or in the session: behind every
\* entry are as many bars in the calendar as there are in the training.
TrainingHasNoHoles ==
  (verdict # Absent /\ verdict.outcome.intent # Absent) =>
    LET window == PairWindow(rows, PairTime)
    IN ExpectedSlots(PairCalendar, window[1].left.start, window[Len(window)].left.end) =
         {w.left.start : w \in Range(window)}

\* What is entered can be held and can be undone.
RoundTripsClose == ExitUndoesEntry /\ EntriesAreHeld
=============================================================================
