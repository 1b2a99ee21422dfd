------------------------------ MODULE MCBreakout ------------------------------
(***************************************************************************)
(* An instance of Breakout for TLC: a session of four bars of two ticks,   *)
(* whose closes after the first move between three prices around the       *)
(* opening range.                                                          *)
(***************************************************************************)
EXTENDS Breakout

MCBreakoutRules ==
  [enabled |-> TRUE, minimum |-> 3, sources |-> {"opening_range", "swing"}, openingBars |-> 1,
   swingBars |-> 2, minStrength |-> 7, minResidual |-> 1, minExtension |-> 1, maxExtension |-> 12,
   buffer |-> 2, minLocation |-> 5, minBody |-> 1, reward |-> 20, minProxy |-> 1, strengthWeight |-> 1,
   minScore |-> 0, observationBars |-> 1, lag |-> 1]

Stock(token, fo) ==
  [token |-> token, entity |-> token, sector |-> "A", from |-> 0, to |-> 9, flags |-> {}, fo |-> fo]
MCBreakoutMaster ==
  [id |-> "m", asOf |-> 1, generated |-> 20, instruments |-> {Stock(1, TRUE), Stock(2, TRUE), Stock(3, TRUE)}]
BreakoutMorning ==
  BuildUniverse(MCBreakoutMaster,
                [excludeSurveillance |-> TRUE, excludeAmbiguous |-> TRUE, symbols |-> {}, sectors |-> {},
                 shortsAllowed |-> TRUE, shortsNeedFo |-> TRUE], 20)
MCBreakoutUniverse == BreakoutMorning  \* evaluated once
MCBreakoutCalendar ==
  [from |-> 0, to |-> 2, weekdays |-> {1}, holidays |-> {}, specials |-> {},
   regular |-> [preopen |-> 1, open |-> 2, finalEntry |-> 10, flatten |-> 11, deadline |-> 12, close |-> 13]]

Quiet(token) == [token |-> token, direction |-> 0, participates |-> TRUE, sector |-> 0, market |-> 0]
MCOthers == {Quiet(2), Quiet(3)}
Moving(sign) == [direction |-> sign, participates |-> TRUE, sector |-> 2 * sign, market |-> sign]
MCFeatures == {Moving(1), Moving(-1)}

BreakoutOutcome(state, sides) ==
  [at |-> 0, state |-> state, sides |-> sides, multiplier |-> 1, allowed |-> {"breakout"}, release |-> "r"]
MCOutcomes == {BreakoutOutcome("TREND_UP", {"LONG"}), BreakoutOutcome("TREND_DOWN", {"SHORT"})}
=============================================================================
