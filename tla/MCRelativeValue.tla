--------------------------- MODULE MCRelativeValue ---------------------------
(***************************************************************************)
(* An instance of RelativeValue for TLC: two days, between which two       *)
(* securities exchange their tokens; a sector of six and one of one.      *)
(***************************************************************************)
EXTENDS RelativeValue

MCRvRules ==
  [enabled |-> TRUE, members |-> 2, minimumSector |-> 4, tail |-> 4, sectorWeight |-> 5, minGap |-> 5,
   trainingReturns |-> 2, minBeta |-> 2, maxBeta |-> 30, maxNet |-> 2, inventoryAge |-> 2]

Share(token, entity) ==
  [token |-> token, entity |-> entity, sector |-> IF entity = 7 THEN "B" ELSE "A",
   from |-> 0, to |-> 9, flags |-> {}, fo |-> TRUE]
\* The tokens of the securities 1 and 5 are exchanged on the second day.
MCRvListing ==
  [day \in {1, 2} |->
     [id |-> <<"m", day>>, asOf |-> day, generated |-> day * DayTicks,
      instruments |-> {Share(t, IF day = 2 /\ t \in {1, 5} THEN 6 - t ELSE t) : t \in 1 .. 7}]]
MCRvCalendar ==
  [from |-> 0, to |-> 5, weekdays |-> {1, 2}, holidays |-> {}, specials |-> {},
   regular |-> [preopen |-> 1, open |-> 2, finalEntry |-> 12, flatten |-> 13, deadline |-> 14, close |-> 15]]

BarOf(token, start, delay) ==
  [token |-> token, start |-> start, end |-> start + 2, received |-> start + 2 + delay, clean |-> TRUE]
HistoryOf(token, delay) ==
  {[stock |-> BarOf(token, s, delay), market |-> BarOf(Nifty, s, 0)] : s \in {42, 44, 46, 48, 50}}
Member(token, residual, beta, delay) ==
  [token |-> token, at |-> 0, universe |-> Absent, release |-> "r", linked |-> TRUE, missing |-> FALSE,
   liquid |-> TRUE, sector |-> IF token = 7 THEN "B" ELSE "A", residual |-> [sector |-> residual, market |-> residual],
   beta |-> beta, stable |-> TRUE, history |-> HistoryOf(token, delay)]

Line(strengths, betas, delays) == {Member(t, strengths[t], betas[t], delays[t]) : t \in 1 .. 7}
Even == <<0, 0, 0, 0, 0, 0, 0>>
Ones == <<10, 10, 10, 10, 10, 10, 10>>
RegularScene == Line(<<6, 5, 4, 3, 2, 1, 0>>, Ones, Even)
MCRvScene ==
  {Line(<<6, 5, 4, 3, 2, 1, 0>>, betas, Even) : betas \in {Ones, <<10, 12, 10, 10, 14, 11, 10>>, <<20, 20, 10, 10, 10, 10, 10>>}}
  \cup {Line(strengths, Ones, Even) : strengths \in {<<5, 4, 4, 4, 4, 1, 0>>, <<1, 1, 1, 1, 1, 1, 0>>, <<5, 5, 5, 1, 1, 1, 0>>}}
  \cup {Line(<<6, 5, 4, 3, 2, 1, 0>>, Ones, delays) : delays \in {<<0, 1, 0, 0, 0, 0, 0>>, <<1, 1, 1, 1, 1, 1, 1>>}}

Calm == [at |-> 0, state |-> "CHOP", multiplier |-> 1, allowed |-> {"relative_value"}, release |-> "r",
         healthMaxAge |-> 1,
         health |-> [at |-> 0, system |-> "HEALTHY", risk |-> "HEALTHY", blocks |-> FALSE]]
MCRvRouting == {Calm, [Calm EXCEPT !.health.blocks = TRUE]}

\* From an evaluation nothing follows that does not without it; the scenes that differ
\* in betas, strengths and receipts are for a desk without pairs.
MCRvNext ==
  /\ baskets = Absent
  /\ \/ RvAdvance
     \/ \E tokens \in PairTokens : OpenPair(tokens)
     \/ \E pair \in held : ReleasePair(pair)
     \/ \E active \in SUBSET held, day \in DOMAIN RvListing : TakeInventory(active, RvListing[day])
     \/ \E scene \in RvScene, d \in RvRouting :
          (held # {} => d = Calm /\ scene = RegularScene) /\ EvaluateBaskets(scene, d)
MCRvSpec == RvInit /\ [][MCRvNext]_rvVars
=============================================================================
