-------------------------- MODULE MarketStateRouter --------------------------
(***************************************************************************)
(* MarketStateRouter.route: which alpha families may trade, and how large, *)
(* from one feature snapshot and one health report at a time.  A decision  *)
(* rests on the decisions before it (pending confirmation, dwell, session, *)
(* gaps), so what has to be right is right only over sequences of calls.   *)
(*                                                                         *)
(* Thresholds on features are abstracted to their outcomes: a reading says *)
(* which of classify's groups of checks pass.  Time, ages and durations    *)
(* are in one unit, multipliers in another.                                *)
(***************************************************************************)
EXTENDS Integers, FiniteSets

CONSTANTS
  \* RouterSettings
  Confirmations, MinDuration, MaxGap, FeatureMaxAge, HealthMaxAge,
  Stabilization, ShockWindow, TrendMultiplier, ChopMultiplier, HighVolMultiplier,
  DayLength,        \* length of a calendar day
  Session,          \* [day -> [open, close]] for the days the market trades
  None,             \* Python's None
  MaxTime           \* bound on the clock

ASSUME SettingsAreValid ==
  /\ Confirmations \in Nat \ {0}
  /\ {MinDuration, FeatureMaxAge, HealthMaxAge, Stabilization} \subseteq Nat
  /\ {MaxGap, ShockWindow} \subseteq Nat \ {0}
  /\ Stabilization <= ShockWindow
  /\ {HighVolMultiplier, ChopMultiplier, TrendMultiplier} \subseteq Nat
  /\ HighVolMultiplier <= ChopMultiplier /\ ChopMultiplier <= TrendMultiplier
ASSUME CalendarIsValid ==
  /\ DayLength \in Nat \ {0}
  /\ \A day \in DOMAIN Session : Session[day].open \in Nat /\ Session[day].close \in Nat
ASSUME MaxTimeIsNatural == MaxTime \in Nat
ASSUME NoneIsNoTime == None \notin Nat

Time == 0 .. MaxTime

MarketState == {"TREND_UP", "TREND_DOWN", "CHOP", "HIGH_VOL", "OPEN_SHOCK", "RISK_OFF"}
AlphaFamily ==
  {"cross_sectional_momentum", "momentum_breakout", "pairs_stat_arb",
   "vwap_mean_reversion", "sector_relative_value"}
Directional == {"cross_sectional_momentum", "momentum_breakout"}
Side == {"LONG", "SHORT"}

\* complete: full breadth coverage and every required value; volatile: any
\* volatility check fires; gap: the opening gap; trend: which of up, down and
\* balanced (flat) pass in full, or none does.
Reading == [complete : BOOLEAN, volatile : BOOLEAN,
            gap : {"small", "large", "missing"},
            trend : {"up", "down", "flat", "mixed"}]
Snapshot == [timestamp : Time, reading : Reading]
\* healthy: system and risk are HEALTHY and nothing blocks new entries
RoutingHealth == [observed : Time, healthy : BOOLEAN]

Decision ==
  [timestamp : Time, state : MarketState, candidate : MarketState, since : Time,
   families : SUBSET AlphaFamily, sides : SUBSET Side, multiplier : Nat,
   open : Nat \cup {None}]

VARIABLES
  last,         \* _last, the previous decision
  pending,      \* _pending
  count,        \* _count
  featureTime,  \* _feature_time
  support,      \* history: feature timestamps behind the current candidate
  firstInSession \* history: when this session's first decision was taken

vars == <<last, pending, count, featureTime, support, firstInSession>>

-----------------------------------------------------------------------------
(* classify and permissions. *)

Classify(reading, elapsed) ==
  IF \/ elapsed <= Stabilization
     \/ elapsed <= ShockWindow /\ (reading.gap = "large" \/ reading.volatile)
  THEN "OPEN_SHOCK"
  ELSE IF ~reading.complete \/ (elapsed <= ShockWindow /\ reading.gap = "missing")
  THEN "RISK_OFF"
  ELSE IF reading.volatile THEN "HIGH_VOL"
  ELSE CASE reading.trend = "up"    -> "TREND_UP"
         [] reading.trend = "down"  -> "TREND_DOWN"
         [] reading.trend = "flat"  -> "CHOP"
         [] reading.trend = "mixed" -> "RISK_OFF"

Families(state) ==
  CASE state \in {"RISK_OFF", "OPEN_SHOCK"}   -> {}
    [] state = "CHOP"                         -> {"pairs_stat_arb", "vwap_mean_reversion",
                                                  "sector_relative_value"}
    [] state = "HIGH_VOL"                     -> {"sector_relative_value"}
    [] state \in {"TREND_UP", "TREND_DOWN"}   -> Directional \cup {"sector_relative_value"}

Sides(state) ==
  {side \in Side : \/ state = "TREND_UP" /\ side = "LONG"
                   \/ state = "TREND_DOWN" /\ side = "SHORT"}

Multiplier(state) ==
  CASE state \in {"RISK_OFF", "OPEN_SHOCK"} -> 0
    [] state = "CHOP"                       -> ChopMultiplier
    [] state = "HIGH_VOL"                   -> HighVolMultiplier
    [] state \in {"TREND_UP", "TREND_DOWN"} -> TrendMultiplier

-----------------------------------------------------------------------------
(* The parts of route, for one call with a snapshot, a health report and a   *)
(* time that is later than the last decision's.                              *)

Day(at) == at \div DayLength
Opening(at) == IF Day(at) \in DOMAIN Session THEN Session[Day(at)].open ELSE None

InSession(snapshot, at) ==
  /\ Day(at) \in DOMAIN Session
  /\ Session[Day(at)].open <= snapshot.timestamp
  /\ snapshot.timestamp <= at
  /\ at < Session[Day(at)].close

Safe(snapshot, health, at) ==
  /\ health.healthy
  /\ at - health.observed \in 0 .. HealthMaxAge
  /\ at - snapshot.timestamp \in 0 .. FeatureMaxAge

Candidate(snapshot, health, at) ==
  IF Safe(snapshot, health, at) /\ InSession(snapshot, at)
  THEN Classify(snapshot.reading, at - Opening(at))
  ELSE "RISK_OFF"

\* mutant: only the very first call starts a session
NewSession_Once(at) == last = None

NewSession(at) == last = None \/ Opening(at) # last.open

\* mutant: a gap between decisions does not reset the confirmation
Gap_Ignored(at) == last # None /\ at < last.timestamp

Gap(at) == last # None /\ at - last.timestamp > MaxGap

\* Where this call starts from: the state, and the time it was entered.
StartState(at) == IF NewSession(at) THEN "RISK_OFF" ELSE last.state

\* mutant: the dwell is measured from the opening of the session
StartSince_Opening(at) == IF NewSession(at) THEN Opening(at) ELSE last.since

StartSince(at) == IF NewSession(at) THEN at ELSE last.since

FreshObservation(snapshot) == featureTime = None \/ snapshot.timestamp > featureTime

\* The confirmation goes on only for the candidate that is already pending.
Kept(candidate, at) == ~NewSession(at) /\ ~Gap(at) /\ candidate = pending
Count(snapshot, candidate, at) ==
  (IF Kept(candidate, at) THEN count ELSE 0) + (IF FreshObservation(snapshot) THEN 1 ELSE 0)

\* mutant: an opening shock waits for confirmation
Immediate_NoShock == {"RISK_OFF", "HIGH_VOL"}

Immediate == {"RISK_OFF", "OPEN_SHOCK", "HIGH_VOL"}

Confirmed(confirmations, at) ==
  confirmations >= Confirmations /\ at - StartSince(at) >= MinDuration

Moves(candidate, confirmations, at) ==
  /\ candidate # StartState(at)
  /\ candidate \in Immediate \/ Confirmed(confirmations, at)

\* mutant: a pending transition keeps the families of the old state
GrantedFamilies_Old(state, candidate) == Families(state)

\* Current evidence takes away what it would not grant, and without a side
\* both agree on, the directional families.
GrantedFamilies(state, candidate) ==
  (Families(state) \cap Families(candidate))
    \ (IF Sides(state) \cap Sides(candidate) = {} THEN Directional ELSE {})

GrantedMultiplier(state, candidate) ==
  LET wanted == Multiplier(candidate)
      held == Multiplier(state)
  IN IF GrantedFamilies(state, candidate) = {} THEN 0
     ELSE IF wanted < held THEN wanted ELSE held

Decide(at, state, since, candidate) ==
  [timestamp  |-> at,
   state      |-> state,
   candidate  |-> candidate,
   since      |-> since,
   families   |-> GrantedFamilies(state, candidate),
   sides      |-> Sides(state) \cap Sides(candidate),
   multiplier |-> GrantedMultiplier(state, candidate),
   open       |-> Opening(at)]

-----------------------------------------------------------------------------

Init ==
  /\ last = None
  /\ pending = None
  /\ count = 0
  /\ featureTime = None
  /\ support = {}
  /\ firstInSession = None

\* History, in terms of the inputs and not of the router's bookkeeping: is this
\* the first decision of a session; does it continue a run of one candidate.
OpensSession(at) == IF last = None THEN TRUE ELSE Opening(at) # last.open
ContinuesRun(candidate, at) ==
  /\ ~OpensSession(at)
  /\ at - last.timestamp <= MaxGap
  /\ candidate = last.candidate

Later(at) == last # None => at > last.timestamp

Route(snapshot, health, at) ==
  LET candidate == Candidate(snapshot, health, at)
      moves == Moves(candidate, Count(snapshot, candidate, at), at)
  IN /\ Later(at)
     /\ pending' = candidate
     /\ count' = Count(snapshot, candidate, at)
     /\ last' = Decide(at,
                       IF moves THEN candidate ELSE StartState(at),
                       IF moves THEN at ELSE StartSince(at),
                       candidate)
     /\ featureTime' = IF FreshObservation(snapshot) THEN snapshot.timestamp ELSE featureTime
     /\ support' = (IF ContinuesRun(candidate, at) THEN support ELSE {}) \cup {snapshot.timestamp}
     /\ firstInSession' = IF OpensSession(at) THEN at ELSE firstInSession

\* A repeated input returns the last decision, any other at its time or before
\* raises; neither changes anything.
RouteNothing(at) ==
  /\ ~Later(at)
  /\ UNCHANGED vars

Next ==
  \E at \in Time :
    \/ \E snapshot \in Snapshot, health \in RoutingHealth : Route(snapshot, health, at)
    \/ RouteNothing(at)

Spec == Init /\ [][Next]_vars

-----------------------------------------------------------------------------
(* Properties. *)

\* Types.  In particular a decision never has a state start after its own time
\* and a blocked state grants nothing, or StateDecision refuses to be built.
TypeOK ==
  /\ last \in Decision \cup {None}
  /\ last # None => last.since <= last.timestamp
  /\ pending \in MarketState \cup {None}
  /\ count \in Nat
  /\ featureTime \in Time \cup {None}
  /\ support \subseteq Time
  /\ firstInSession \in Time \cup {None}

\* phase-6-market-state.md: ordinary transitions and recovery require distinct
\* feature timestamps and time in the current state; new sessions and gaps reset
\* the confirmation, and reusing a feature timestamp cannot advance it.  Counted
\* here on the timestamps themselves, not on the router's counter.
OrdinaryMovesAreConfirmed ==
  [][ last' # last /\ last'.state \notin Immediate /\ last'.since = last'.timestamp =>
        /\ Cardinality(support') >= Confirmations
        /\ last'.timestamp - firstInSession' >= MinDuration
        /\ last # None /\ last'.open = last.open =>
             last'.timestamp - last.since >= MinDuration ]_vars

\* No session inherits a tradable state: a state other than the immediate ones
\* was entered in the session it is used in, MinDuration or more into it.
SessionsStartClosed ==
  last # None /\ last.state \notin Immediate =>
    last.since - firstInSession >= MinDuration

\* A veto or an opening shock takes the state label and every permission with
\* it in the same call, whatever was confirmed before.
BlockingEvidenceBlocks ==
  last # None /\ last.candidate \in {"RISK_OFF", "OPEN_SHOCK"} =>
    last.state = last.candidate /\ last.families = {} /\ last.multiplier = 0

\* While a transition is pending nothing is granted that either state alone
\* would deny, and no directional family without a side.
PendingGrantsLess ==
  last # None =>
    /\ \A f \in last.families : f \in Families(last.state) /\ f \in Families(last.candidate)
    /\ last.families \cap Directional # {} => last.sides # {}
    /\ last.families = {} => last.multiplier = 0
    /\ last.multiplier <= Multiplier(last.candidate)

=============================================================================
