------------------------------- MODULE MCPairs -------------------------------
(***************************************************************************)
(* An instance of Pairs for TLC: two short sessions with a night between   *)
(* them, a training of two bars, one row that may be missing or late, and  *)
(* fits that are unchanged, drifted, rejected or impossible.               *)
(***************************************************************************)
EXTENDS Pairs

MCPairRules ==
  [enabled |-> TRUE, trainingBars |-> 2, minBeta |-> 5, maxBeta |-> 20, maxDrift |-> 2, maxNet |-> 2,
   entryZ |-> 20, exitZ |-> 5, stopZ |-> 25, holdTicks |-> 3, lag |-> 1, quoteAge |-> 1, liquidityAge |-> 20]

PairStock(token, fo) ==
  [token |-> token, entity |-> token, sector |-> "A", from |-> 0, to |-> 9, flags |-> {}, fo |-> fo]
MCPairListing ==
  [day \in 0 .. 3 |->
     [id |-> <<"m", day>>, asOf |-> day, generated |-> day * DayTicks,
      instruments |-> {PairStock(1, TRUE), PairStock(2, TRUE)}]]
MCPair == [id |-> "p", left |-> 1, right |-> 2, known |-> 0, from |-> 0, to |-> 70, clear |-> TRUE,
   sector |-> [left |-> "A", right |-> "A"]]
MCPairCalendar ==
  [from |-> 0, to |-> 5, weekdays |-> {1, 2, 3}, holidays |-> {}, specials |-> {},
   regular |-> [preopen |-> 1, open |-> 2, finalEntry |-> 7, flatten |-> 8, deadline |-> 9, close |-> 10]]

FitOf(beta, mean, failed) ==
  [beta |-> beta, mean |-> mean, std |-> 10, failed |-> failed, to |-> 0]
MCFits == {FitOf(10, 0, {}), FitOf(11, -10, {}), FitOf(13, -30, {}), Absent}

PairOutcome(allowed) ==
  [at |-> 0, state |-> "CHOP", sides |-> {}, multiplier |-> 1, allowed |-> allowed, release |-> "r"]
MCPairRouting == {PairOutcome({"pairs"}), PairOutcome({})}

\* At most one of the rows in sight is missing or late, and one thing is wrong at a time;
\* from an evaluation without an intent nothing follows that does not without it.
MCPairNext ==
  \/ \E close \in PairClose, fit \in Fits, delay \in PairReceipts :
       /\ verdict = Absent
       /\ delay # 0 => /\ close = 10 /\ fit # Absent
                       /\ \A r \in rows : r.left.received = r.left.end
                       /\ ExpectedSlots(PairCalendar, slot - DayTicks + 1, slot + PairBarTicks)
                            \subseteq {r.left.start : r \in rows}
       /\ NextPairBar(close, fit, delay)
  \/ verdict = Absent /\ PairWait
  \/ \E d \in PairRouting, narrow \in Narrow : (narrow \/ d.allowed # {}) /\ EvaluatePair(d, narrow)
  \/ EnterPair
  \/ LeavePair

MCPairSpec == PairInit /\ [][MCPairNext]_pairVars
=============================================================================
