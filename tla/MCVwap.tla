-------------------------------- MODULE MCVwap --------------------------------
(***************************************************************************)
(* An instance of VwapReversion for TLC: two bars, then up to five whose   *)
(* closes fall, slow down and turn, received on time, within the lag or    *)
(* too late; at most one of them is not on time.                           *)
(***************************************************************************)
EXTENDS VwapReversion

MCVwapRules ==
  [enabled |-> TRUE, override |-> FALSE, scaleBars |-> 3, minStretch |-> 3, maxStretch |-> 60,
   minImpulse |-> 5, maxDeceleration |-> 7, minReversal |-> 1, minBody |-> 1, minLocation |-> 6,
   startTicks |-> 4, endTicks |-> 30, holdTicks |-> 3, convergence |-> 8, adverse |-> 3,
   quoteAge |-> 1, lag |-> 1, liquidityAge |-> 20]

VwapStock(token, fo) ==
  [token |-> token, entity |-> token, sector |-> "A", from |-> 0, to |-> 9, flags |-> {}, fo |-> fo]
MCVwapMaster ==
  [id |-> "m", asOf |-> 1, generated |-> 20, instruments |-> {VwapStock(1, TRUE), VwapStock(2, FALSE)}]
VwapMorning ==
  BuildUniverse(MCVwapMaster,
                [excludeSurveillance |-> TRUE, excludeAmbiguous |-> TRUE, symbols |-> {}, sectors |-> {},
                 shortsAllowed |-> TRUE, shortsNeedFo |-> TRUE], 20)
MCVwapUniverse == VwapMorning  \* evaluated once
MCVwapCalendar ==
  [from |-> 0, to |-> 2, weekdays |-> {1}, holidays |-> {}, specials |-> {},
   regular |-> [preopen |-> 1, open |-> 2, finalEntry |-> 16, flatten |-> 17, deadline |-> 18, close |-> 19]]

MCVwapPrefix == <<100, 100>>

Sane == [at |-> 0, system |-> "HEALTHY", risk |-> "HEALTHY", blocks |-> FALSE]
Choppy == [at |-> 0, state |-> "CHOP", multiplier |-> 1, allowed |-> {"vwap"}, health |-> Sane,
           healthMaxAge |-> 1]
MCVwapRouting == {Choppy, [Choppy EXCEPT !.state = "TREND_UP"]}
MCLiquidity ==
  {[quote |-> [token |-> 1, clean |-> TRUE, narrow |-> TRUE, at |-> 0, received |-> 0],
    known |-> 20, ample |-> TRUE]}

\* At most one bar of the session is not on time, and the last is there to be observed
\* by a signal.
MCVwapNext ==
  \/ \E close \in VwapClose, delay \in Delay :
       /\ delay > 0 => \A b \in Range(session) : b.received = b.end
       /\ Len(session) = VwapBars - 1 => reversals # {}
       /\ NextVwapBar(close, delay)
  \/ Elapse
  \/ \E d \in VwapRouting, l \in Liquidity, mode \in Modes : EvaluateReversion(d, l, mode)

MCVwapSpec == VwapInit /\ [][MCVwapNext]_vwapVars
=============================================================================
