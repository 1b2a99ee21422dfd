---------------------------- MODULE VwapReversion ----------------------------
(***************************************************************************)
(* Alpha D, VwapMeanReversion.evaluate: a bar that turns back after a      *)
(* stretch away from the session's vwap, and observe_vwap_exit.            *)
(*                                                                         *)
(* Prices are integers and quotients are kept as [of, by]; the thresholds  *)
(* of the settings are in units of 1/StretchUnit of the volatility scale.  *)
(* A bar has its receipt time: what is not there yet is not evaluated.     *)
(*                                                                         *)
(* The machine: the bars of one session, each received on time, late or    *)
(* after the next one; evaluations with what has been received, published. *)
(***************************************************************************)
EXTENDS UniverseBuilder

CONSTANTS
  VwapRules,    \* VwapSettings
  VwapBarTicks, \* ticks of a five-minute bar
  StretchUnit   \* one volatility scale

\* VwapSettings.ordered and the bounds of the fields.
ASSUME VwapRulesOrdered ==
  /\ VwapRules.minStretch < VwapRules.maxStretch /\ VwapRules.startTicks < VwapRules.endTicks
  /\ VwapRules.scaleBars \in Nat /\ VwapRules.scaleBars >= 3 /\ VwapRules.holdTicks > 0
  /\ {VwapRules.minStretch, VwapRules.maxStretch, VwapRules.minImpulse, VwapRules.adverse, StretchUnit} \subseteq Nat \ {0}
  /\ VwapRules.convergence \in 1 .. StretchUnit

SideSign(side) == IF side = "LONG" THEN 1 ELSE -1
Magnitude(x) == IF x < 0 THEN -x ELSE x

\* mutant: bars that arrive after the instant are seen
KnownBars_Hindsight(bars, at, opening) ==
  Sorted({b \in bars : opening <= b.start /\ b.end <= at}, LAMBDA b, c : b.start < c.start)

\* The bars of the session that have closed and arrived, in their order.
KnownBars(bars, at, opening) ==
  Sorted({b \in bars : opening <= b.start /\ b.end <= at /\ b.received <= at},
         LAMBDA b, c : b.start < c.start)

\* Every bar since the opening, once, of one security.
HistorySound(known, at, opening) ==
  \A i \in DOMAIN known :
    /\ Ready(known[i], at)
    /\ known[i].start = opening + VwapBarTicks * (i - 1)
    /\ known[i].token = known[1].token

\* The sum of the true ranges of the bars before the last, scaleBars times the
\* volatility scale.
ScaleOf(known) ==
  LET n == Len(known)
      range(i) == Max({known[i].high - known[i].low, Magnitude(known[i].high - known[i - 1].close),
                       Magnitude(known[i].low - known[i - 1].close)})
  IN SumFunction([i \in n - VwapRules.scaleBars .. n - 1 |-> range(i)])

\* reversion_features, for at least scaleBars + 2 bars: vwap is turnover / volume,
\* and the stretch, the impulses, the reversal and the body are in volatility scales
\* once they are divided by range.
ReversionFeatures(known) ==
  LET n == Len(known)
      move(i) == VwapRules.scaleBars * (known[i].close - known[i - 1].close)
  IN [end |-> known[n].end, token |-> known[n].token, price |-> known[n].close,
      range |-> ScaleOf(known),
      turnover |-> SumFunction([i \in 1 .. n |-> (known[i].high + known[i].low + known[i].close) * known[i].volume]),
      volume |-> 3 * SumFunction([i \in 1 .. n |-> known[i].volume]),
      impulse |-> move(n - 2), slower |-> move(n - 1), reversal |-> move(n),
      body |-> VwapRules.scaleBars * (known[n].close - known[n].open),
      inside |-> known[n].close - known[n].low, height |-> known[n].high - known[n].low]

\* volume times the distance of the price from the vwap.
Stretched(f) == f.price * f.volume - f.turnover

\* The limits on the stretch, before the side is known.
StretchInLimits(f) ==
  LET stretch == VwapRules.scaleBars * Magnitude(Stretched(f)) * StretchUnit
  IN VwapRules.minStretch * f.volume * f.range <= stretch /\ stretch < VwapRules.maxStretch * f.volume * f.range

\* The impulse went away from the vwap and slows down without turning.
Decelerating(f, side) ==
  LET impulse == -SideSign(side) * f.impulse
      slower == -SideSign(side) * f.slower
  IN /\ impulse * StretchUnit >= VwapRules.minImpulse * f.range
     /\ 0 <= slower /\ slower * StretchUnit <= VwapRules.maxDeceleration * impulse

Reversed(f, side) ==
  LET inside == IF side = "LONG" THEN f.inside ELSE f.height - f.inside
  IN /\ SideSign(side) * f.reversal * StretchUnit >= VwapRules.minReversal * f.range
     /\ SideSign(side) * f.body * StretchUnit >= VwapRules.minBody * f.range
     /\ inside * StretchUnit >= VwapRules.minLocation * f.height

\* A clean quote and known figures, none too old.
Liquid(liquidity, token, at) ==
  LET quote == liquidity.quote
  IN /\ quote.token = token /\ quote.clean /\ quote.narrow
     /\ quote.at <= quote.received /\ quote.received <= at
     /\ at - quote.at <= VwapRules.quoteAge
     /\ liquidity.known <= at /\ at - liquidity.known <= VwapRules.liquidityAge
     /\ liquidity.ample

AdverseOf(f, side) ==
  [of |-> f.price * VwapRules.scaleBars * StretchUnit - SideSign(side) * VwapRules.adverse * f.range,
   by |-> VwapRules.scaleBars * StretchUnit]

\* A part of the way back to the vwap.
ConvergenceOf(f) ==
  [of |-> f.price * f.volume * StretchUnit - VwapRules.convergence * Stretched(f),
   by |-> f.volume * StretchUnit]

TimeStop(at, flatten) == Min({at + VwapRules.holdTicks, flatten})

\* The intent, with its identity and the exits of the evidence.
ReversionIntent(f, side, decision, at, flatten) ==
  [id |-> <<f.token, f.end>>, token |-> f.token, side |-> side, at |-> at, bar |-> f.end,
   price |-> f.price, convergence |-> ConvergenceOf(f), adverse |-> AdverseOf(f, side),
   stop |-> TimeStop(at, flatten), state |-> decision.state]

\* evaluate: the reason, and the intent when there is one.
FindReversion(bars, liquidity, universe, master, decision, calendar, at, mode) ==
  LET moment(phase) == Moment(calendar, at, phase)
      override == VwapRules.override /\ mode \in {"RESEARCH", "BACKTEST"}
      known == KnownBars(bars, at, moment("open"))
      f == ReversionFeatures(known)
      side == IF Stretched(f) < 0 THEN "LONG" ELSE "SHORT"
      reject(reason) == [reason |-> reason, intent |-> Absent]
  IN IF mode = "LIVE" THEN reject("LIVE_PROMOTION_REQUIRED")
     ELSE IF ~VwapRules.enabled THEN reject("ALPHA_DISABLED")
     ELSE IF Vetoed(decision, at) THEN reject("HEALTH_OR_RISK_VETO")
     ELSE IF ~override /\ (decision.state # "CHOP" \/ "vwap" \notin decision.allowed)
          THEN reject("REGIME_PERMISSION_DENIED")
     ELSE IF ~SessionKnown(calendar, at) THEN reject("SESSION_UNAVAILABLE")
     ELSE IF \/ at < moment("open") + VwapRules.startTicks
             \/ at >= Min({moment("close"), moment("finalEntry"), moment("flatten"),
                           moment("open") + VwapRules.endTicks})
          THEN reject("ENTRY_WINDOW_BLOCKED")
     ELSE IF Len(known) < VwapRules.scaleBars + 2 THEN reject("FEATURE_WARMUP")
     ELSE IF ~HistorySound(known, at, moment("open")) THEN reject("SESSION_HISTORY_AMBIGUOUS")
     ELSE IF f.range <= 0 THEN reject("DEGENERATE_VOLATILITY")
     ELSE IF f.height <= 0 THEN reject("NO_REVERSAL_RANGE")
     ELSE IF at - f.end > VwapRules.lag THEN reject("STALE_BAR")
     ELSE IF \/ ~UniverseOfDay(master, universe, at)
             \/ \E i, j \in master.instruments : i # j /\ i.token = j.token
             \/ ~universe.short \subseteq universe.long
             \/ f.token \notin universe.long
             \/ ~\E i \in master.instruments : i.token = f.token /\ Unencumbered(i, Day(at))
          THEN reject("UNIVERSE_OR_INSTRUMENT_INELIGIBLE")
     ELSE IF ~Liquid(liquidity, f.token, at) THEN reject("LIQUIDITY_REJECTED")
     ELSE IF ~StretchInLimits(f) THEN reject("STRETCH_OUTSIDE_LIMITS")
     ELSE IF side = "SHORT" /\ ~ShortPermitted(f.token, master, universe)
          THEN reject("SHORT_INELIGIBLE")
     ELSE IF ~Decelerating(f, side) THEN reject("IMPULSE_NOT_DECELERATING")
     ELSE IF ~Reversed(f, side) THEN reject("REVERSAL_NOT_CONFIRMED")
     ELSE IF AdverseOf(f, side).of <= 0 THEN reject("INVALID_ADVERSE_REFERENCE")
     ELSE [reason |-> "INTENT",
           intent |-> ReversionIntent(f, side, decision, at, moment("flatten"))]

\* mutant: an observed bar may be as old as it likes
Observable_Stale(signal, bar, decision, at) ==
  /\ decision.at = at /\ bar.end > signal.bar /\ bar.token = signal.token
  /\ Ready(bar, at)

Observable(signal, bar, decision, at) ==
  /\ decision.at = at /\ bar.end > signal.bar /\ bar.token = signal.token
  /\ Ready(bar, at) /\ at - bar.end <= VwapRules.lag

\* observe_vwap_exit: every exit that is reached, {} to hold.
ExitReasons(signal, bar, decision, at) ==
  LET beyond(line) == SideSign(signal.side) * (bar.close * line.by - line.of)
  IN IF ~Observable(signal, bar, decision, at) THEN {"EXIT_INPUT_UNAVAILABLE"}
     ELSE (IF beyond(signal.convergence) >= 0 THEN {"VWAP_CONVERGENCE"} ELSE {})
          \cup (IF beyond(signal.adverse) <= 0 THEN {"ADVERSE_CONTINUATION"} ELSE {})
          \cup (IF at >= signal.stop THEN {"TIME_STOP"} ELSE {})
          \cup (IF decision.state # signal.state \/ decision.health.blocks THEN {"STATE_CHANGE"} ELSE {})

-----------------------------------------------------------------------------
CONSTANTS
  VwapMaster, VwapUniverse, VwapCalendar,
  VwapPrefix,   \* closes of the first bars of the session
  VwapClose,    \* closes of the others
  Delay,        \* ticks between the end of a bar and its receipt
  VwapRouting,  \* decisions of the router
  Liquidity,    \* VwapLiquidity, before it is stamped
  Modes, VwapBars

\* The session has an opening and a bar, bars have prices, and a decision its time.
ASSUME VwapInputsTyped ==
  /\ VwapBarTicks \in Nat \ {0} /\ VwapMaster.asOf \in Int
  /\ SessionsOrdered(VwapCalendar) /\ SessionKnown(VwapCalendar, VwapMaster.asOf * DayTicks)
  /\ VwapPrefix \in Seq(Nat \ {0}) /\ VwapPrefix # <<>>
  /\ VwapClose \subseteq Nat \ {0} /\ Delay \subseteq Nat
  /\ \A d \in VwapRouting : "at" \in DOMAIN d

VARIABLES
  session,   \* the bars so far, received or not
  elapsed,   \* ticks since the last of them closed
  reversals, \* signals in the journal
  clashed    \* the journal has met a conflict

vwapVars == <<session, elapsed, reversals, clashed>>

VwapOpening == Moment(VwapCalendar, VwapMaster.asOf * DayTicks, "open")
VwapTime == VwapOpening + VwapBarTicks * Len(session) + elapsed

VwapBar(n, open, close, delay) ==
  LET end == VwapOpening + VwapBarTicks * n
  IN [token |-> 1, start |-> end - VwapBarTicks, end |-> end, received |-> end + delay,
      open |-> open, close |-> close, high |-> Max({open, close}) + 1, low |-> Min({open, close}) - 1,
      volume |-> 1, clean |-> TRUE]

VwapInit ==
  /\ session = [n \in DOMAIN VwapPrefix |-> VwapBar(n, VwapPrefix[Max({1, n - 1})], VwapPrefix[n], 0)]
  /\ elapsed = 0 /\ reversals = {} /\ clashed = FALSE

NextVwapBar(close, delay) ==
  /\ Len(session) < VwapBars
  /\ session' = Append(session, VwapBar(Len(session) + 1, session[Len(session)].close, close, delay))
  /\ elapsed' = 0
  /\ UNCHANGED <<reversals, clashed>>

Elapse ==
  /\ elapsed < VwapBarTicks - 1
  /\ elapsed' = elapsed + 1
  /\ UNCHANGED <<session, reversals, clashed>>

DecisionAt(d, at) == [d EXCEPT !.at = at, !.health.at = at - d.health.at]
LiquidityAt(l, at) == [l EXCEPT !.quote.at = at - l.quote.at, !.quote.received = at]
ReversionOf(bars, d, l, mode, at) ==
  FindReversion(bars, LiquidityAt(l, at), VwapUniverse, VwapMaster, DecisionAt(d, at), VwapCalendar,
                at, mode)
ReceivedBy(at) == {b \in Range(session) : b.received <= at}

\* evaluate with the bars that have been received, and publish_intent.
EvaluateReversion(d, l, mode) ==
  LET result == ReversionOf(ReceivedBy(VwapTime), d, l, mode, VwapTime)
      made == {result.intent} \ {Absent}
      clash == \E s \in made, r \in reversals : r.id = s.id /\ r # s
  IN /\ ~clashed
     /\ clashed' = clash
     /\ reversals' = IF clash THEN reversals ELSE reversals \cup made
     /\ UNCHANGED <<session, elapsed>>

VwapNext ==
  \/ \E close \in VwapClose, delay \in Delay : NextVwapBar(close, delay)
  \/ Elapse
  \/ \E d \in VwapRouting, l \in Liquidity, mode \in Modes : EvaluateReversion(d, l, mode)

VwapSpec == VwapInit /\ [][VwapNext]_vwapVars

-----------------------------------------------------------------------------
\* phase-10: features are causal.  What was decided at an instant with the bars there
\* were is decided again by a replay of the whole session, in which every bar that came
\* late is there from the start.
ReplayDecidesTheSame ==
  \A at \in {VwapTime, VwapTime - VwapBarTicks} : Range(session) # ReceivedBy(at) =>
    \A d \in VwapRouting, l \in Liquidity, mode \in Modes :
      ReversionOf(Range(session), d, l, mode, at) = ReversionOf(ReceivedBy(at), d, l, mode, at)

\* Every later bar that arrives within the lag can be observed when it arrives, with
\* at most one of the two price exits, and never an old bar when its successor is due:
\* after the stop time it is an exit.
ExitsFollowTheTape ==
  \A s \in reversals, d \in VwapRouting, b \in Range(session) :
    LET exits == ExitReasons(s, b, DecisionAt(d, VwapTime), VwapTime)
        observed == "EXIT_INPUT_UNAVAILABLE" \notin exits
    IN /\ observed => /\ VwapTime - b.end < VwapBarTicks
                      /\ ~{"VWAP_CONVERGENCE", "ADVERSE_CONTINUATION"} \subseteq exits
                      /\ VwapTime >= s.stop => exits # {}
       /\ (b.end > s.bar /\ b.received <= VwapTime /\ VwapTime - b.end <= VwapRules.lag) => observed
=============================================================================
