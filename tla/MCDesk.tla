-------------------------------- MODULE MCDesk --------------------------------
(***************************************************************************)
(* Instances of Desk for TLC: three listings in two sectors, one of them   *)
(* not to be sold short; requests that overlap, oppose, repeat an id, come *)
(* from another release, an exit, a short leg that is not permitted; data  *)
(* that deviate from the regular supply one at a time.                     *)
(***************************************************************************)
EXTENDS Desk

MCRegistry ==
  [a \in {"momentum", "breakout", "pairs", "vwap"} |->
     [enabled |-> a # "breakout", budget |-> IF a = "pairs" THEN 40 ELSE 70,
      floor |-> 0, ceiling |-> IF a = "vwap" THEN 6 ELSE 4]]

MCCaps ==
  [alpha |-> 40, gross |-> 60, net |-> 50, symbol |-> 40, sector |-> 50, risk |-> 25,
   candidateRisk |-> 20, groups |-> 2, sectorGroups |-> 2, threshold |-> 50,
   sectorPenalty |-> 50, correlationPenalty |-> 100, maxInputAge |-> 1]

Hours(open, final) ==
  [preopen |-> open - 1, open |-> open, finalEntry |-> final, flatten |-> final + 1,
   deadline |-> final + 2, close |-> final + 3]
MCCalendar ==
  [from |-> 0, to |-> 3, weekdays |-> {0, 1, 3}, regular |-> Hours(2, 7), holidays |-> {1},
   specials |-> {[date |-> 1, confirmed |-> TRUE, times |-> Hours(2, 5)]}]

\* The listings of one day.
Listing(token, entity, sector, fo) ==
  [token |-> token, entity |-> entity, sector |-> sector, from |-> 0, to |-> 3,
   flags |-> {}, fo |-> fo]
MCMaster ==
  [id |-> "m", asOf |-> 1, generated |-> 20,
   instruments |-> {Listing("t1", "e1", "A", TRUE), Listing("t2", "e2", "A", TRUE),
                    Listing("t3", "e3", "B", FALSE)}]
MCUniverse ==
  [id |-> "u", asOf |-> 1, generated |-> 21, master |-> "m",
   long |-> {"t1", "t2", "t3"}, short |-> {"t1", "t2"}]

Ask(id, kind, alpha, score, legs) ==
  [id |-> id, kind |-> kind, alpha |-> alpha, score |-> score, legs |-> legs,
   action |-> "ENTER", evidence |-> TRUE, release |-> "r", master |-> "m", age |-> 0]

Only(token, weight) == [t \in {token} |-> weight]
Two(long, w, short, x) == [t \in {long, short} |-> IF t = long THEN w ELSE -x]

\* Its legs round to 17, 17 and 67 parts, and 40 of them to 7, 7 and 27.
Uneven == [t \in {"t1", "t2", "t3"} |-> CASE t = "t1" -> 1 [] t = "t2" -> -1 [] t = "t3" -> 4]

Asked ==
  { Ask(1, "SIGNAL", "momentum", 4, Only("t1", 1)),
    Ask(2, "SIGNAL", "vwap", 3, Only("t1", -1)),
    Ask(3, "PAIR", "pairs", 6, Two("t1", 3, "t2", 1)),
    Ask(4, "BASKET", "pairs", 2, Two("t3", 1, "t2", 1)),
    Ask(5, "SIGNAL", "vwap", 4, Only("t3", 1)),
    Ask(5, "SIGNAL", "vwap", 2, Only("t2", -1)),
    Ask(6, "SIGNAL", "momentum", 3, Only("t2", -1)) }

Deviating ==
  { [Ask(7, "SIGNAL", "momentum", 4, Only("t2", 1)) EXCEPT !.age = 1],
    Ask(8, "SIGNAL", "vwap", 4, Only("t3", -1)),
    [Ask(9, "PAIR", "pairs", 2, Two("t2", 1, "t1", 1)) EXCEPT !.action = "EXIT"],
    Ask(10, "BASKET", "pairs", 4, Uneven) }

MCRequest == Asked \cup Deviating

Permit(state, multiplier, allowed) ==
  [state |-> state, release |-> "r", multiplier |-> multiplier, allowed |-> allowed,
   age |-> 0, blocks |-> FALSE, system |-> "HEALTHY", risk |-> "HEALTHY"]
MCOutlook ==
  { Permit("TREND_UP", 100, {"momentum", "pairs", "vwap"}),
    Permit("CHOP", 50, {"pairs", "vwap"}),
    Permit("RISK_OFF", 0, {}),
    [Permit("CHOP", 100, {"pairs", "vwap"}) EXCEPT !.blocks = TRUE] }

AllPairs == {{"e1", "e2"}, {"e1", "e3"}, {"e2", "e3"}}
Regular ==
  [mode |-> "PAPER", alphas |-> {"momentum", "pairs", "vwap"}, health |-> 100, healthAge |-> 0,
   release |-> "r", age |-> 0, eligible |-> TRUE, capacity |-> 60, loss |-> 50, volatility |-> 100,
   trainedAge |-> 1, correlations |-> {[pair |-> q, value |-> 50] : q \in AllPairs}]
MCSupply ==
  { Regular,
    [Regular EXCEPT !.health = 50, !.loss = 100],
    [Regular EXCEPT !.capacity = 10],
    [Regular EXCEPT !.healthAge = 2],
    [Regular EXCEPT !.correlations = {[pair |-> {"e1", "e2"}, value |-> 100]}],
    [Regular EXCEPT !.trainedAge = 0],
    [Regular EXCEPT !.eligible = FALSE] }

\* What is combined with what: in the first cycle every batch with every supply; in
\* the second, on top of every book, small batches with the regular one; in the
\* last, after the final entry, single intents.  Publishing, keeping decisions and
\* snapshots that block, with the batches of one intent at most and no book.
Small ==
  /\ book = {} /\ portfolio.complete /\ ~portfolio.blocks
  /\ ensemble # Absent /\ IdsOf(Intents) \subseteq {1}
  /\ plan # Absent => \A e \in plan.identity.correlations.estimates : e.value = 50

AllBatches == {batch \in SUBSET Request : Cardinality(batch) <= MaxBatch}
Batches ==
  CASE clock = 23 /\ published = {} -> AllBatches
    [] clock = 24 /\ published = {} ->
         {{i, j} : i, j \in Asked}
    [] OTHER -> {{}, {Ask(1, "SIGNAL", "momentum", 4, Only("t1", 1))}}

MCNext ==
  \/ published = {} /\ Advance(FALSE)
  \/ Small /\ Advance(TRUE)
  \/ /\ ensemble = Absent
     /\ \/ \E o \in Outlook : (clock = 23 \/ o.state = "TREND_UP") /\ Route(o)
        \/ \E complete, blocks \in BOOLEAN :
             ((complete /\ ~blocks) \/ clock = 23) /\ TakeSnapshot(complete, blocks)
        \/ \E batch \in Batches : Normalize(batch)
  \/ /\ ensemble # Absent /\ clock > ensemble.at
     /\ \E batch \in {{}} \cup {{i} : i \in Request} : Normalize(batch)
  \/ /\ plan = Absent
     /\ \E s \in Supply :
          ((clock = 23 /\ portfolio.complete /\ routed.multiplier > 0) \/ s = Regular) /\ Propose(s)
  \/ Small /\ Cardinality(published) < 2 /\ (Publish(ensemble) \/ Publish(plan))
  \/ /\ published = {} /\ plan # Absent /\ routed.state = "TREND_UP"
     /\ \A e \in plan.identity.estimates : e.loss = 50
     /\ \E n \in 1 .. MaxBatch : Approve(n)
  \/ clock = 24 /\ plan # Absent /\ \E group \in GroupsOf(book) : Close(group)

MCDeskSpec == DeskInit /\ [][MCNext]_deskVars
=============================================================================
