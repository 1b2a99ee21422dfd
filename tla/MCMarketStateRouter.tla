------------------------- MODULE MCMarketStateRouter -------------------------
(***************************************************************************)
(* An instance of MarketStateRouter for TLC: two trading days with a night *)
(* between them.  The clock's unit is 300 seconds, so that dwell, gap and  *)
(* feature age have the default configuration's proportions; the opening   *)
(* windows are shortened to leave room for ordinary states.                *)
(***************************************************************************)
EXTENDS MarketStateRouter

MCSession == [day \in {0, 1} |-> [open |-> 8 * day + 1, close |-> 8 * day + 7]]

\* One reading for each way classify goes on: steady trends and balance, a gap
\* that shocks the opening, a missing gap that blocks it, volatility.
MCReading ==
  {[complete |-> TRUE, volatile |-> FALSE, gap |-> "small", trend |-> "up"],
   [complete |-> TRUE, volatile |-> FALSE, gap |-> "large", trend |-> "flat"],
   [complete |-> TRUE, volatile |-> FALSE, gap |-> "missing", trend |-> "down"],
   [complete |-> TRUE, volatile |-> TRUE, gap |-> "missing", trend |-> "mixed"]}

\* Snapshots and reports that route can tell apart: a too old one stands for
\* every older one, one from the future for every later one.
MCSnapshot(at) ==
  {s \in [timestamp : Time, reading : MCReading] :
     s.timestamp \in at - FeatureMaxAge - 1 .. at + 1}
MCHealth(at) ==
  {[observed |-> at, healthy |-> TRUE], [observed |-> at, healthy |-> FALSE],
   [observed |-> at - 1, healthy |-> TRUE]}

\* Within a day a longer pause than MaxGap + 1 does what MaxGap + 1 does.
MCTime ==
  {at \in Time \ {0} :
     last # None => \/ at <= last.timestamp + MaxGap + 1
                    \/ Day(at) # Day(last.timestamp)}

MCNext ==
  \E at \in MCTime :
    \/ \E snapshot \in MCSnapshot(at), health \in MCHealth(at) : Route(snapshot, health, at)
    \/ RouteNothing(at)

MCSpec == Init /\ [][MCNext]_vars
=============================================================================
