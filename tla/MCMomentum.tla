------------------------------ MODULE MCMomentum ------------------------------
(***************************************************************************)
(* An instance of Momentum for TLC: five securities, the last not to be    *)
(* sold short, one of two sectors; every cross-section of five profiles,   *)
(* and some that are incomplete, late, repeated or of another release.     *)
(***************************************************************************)
EXTENDS Momentum

MCMomentumRules ==
  [enabled |-> TRUE, excludeRecent |-> FALSE, minimum |-> 4, weights |-> <<2, 2, 2, 1, 1>>,
   trendWeight |-> 1, qualityWeight |-> 1, longTail |-> 4, shortTail |-> 4, maxPerSide |-> 2]

Security(token, flags, to) ==
  [token |-> token, entity |-> token, sector |-> IF token > 3 THEN "B" ELSE "A",
   from |-> 0, to |-> to, flags |-> flags, fo |-> token # 5]
MasterOf(day, id, odd) ==
  [id |-> id, asOf |-> day, generated |-> DayTicks * day + 1,
   instruments |-> {Security(t, {}, 9) : t \in 1 .. 5} \cup odd]
MCListed ==
  {MasterOf(1, "m1", {}), MasterOf(2, "m2", {Security(6, {"SURVEILLANCE"}, 9)}),
   MasterOf(2, "m3", {Security(6, {}, 1), Security(7, {"SUSPENDED"}, 9)})}

RegularRules ==
  [excludeSurveillance |-> TRUE, excludeAmbiguous |-> TRUE, symbols |-> {}, sectors |-> {},
   shortsAllowed |-> TRUE, shortsNeedFo |-> TRUE]
MCRules ==
  {RegularRules, [RegularRules EXCEPT !.excludeSurveillance = FALSE],
   [RegularRules EXCEPT !.shortsAllowed = FALSE], [RegularRules EXCEPT !.symbols = {2}]}

Profile(r, trend, quality) ==
  [stock |-> <<r, r, r>>, sector |-> 0, market |-> 0, trend |-> trend, quality |-> quality]
Profiles ==
  <<Profile(2, <<1, 1, 1>>, 6), Profile(2, <<1, 0, 1>>, 6), Profile(1, <<1, 1, 1>>, Absent),
    Profile(0, <<0, 1, -1>>, 6), Profile(-1, <<-1, -1, -1>>, 6), Profile(-1, <<-1, -1, -1>>, 12)>>
Observe(token, p) ==
  [token |-> token, at |-> 0, universe |-> Absent, release |-> "r", linked |-> TRUE,
   known |-> 0, from |-> 0, to |-> 99, missing |-> FALSE,
   recent |-> [stock |-> 0, sector |-> 0, market |-> 0],
   stock |-> p.stock, sector |-> p.sector, market |-> p.market, trend |-> p.trend,
   quality |-> p.quality]
\* Every multiset for the four alike, with every profile for the fifth.
MCScene ==
  {{Observe(t, Profiles[f[t]]) : t \in 1 .. 5}
     : f \in {g \in [1 .. 5 -> DOMAIN Profiles] : \A t \in 1 .. 3 : g[t] <= g[t + 1]}}

Plain == {Observe(t, Profile(2, <<1, 1, 1>>, 6)) : t \in 1 .. 4}
Fifth == Observe(5, Profile(0, <<0, 1, -1>>, 6))
Odd ==
  {Plain, Plain \cup {[Fifth EXCEPT !.at = 1]}, Plain \cup {[Fifth EXCEPT !.missing = TRUE]},
   Plain \cup {[Fifth EXCEPT !.release = "q"]}, Plain \cup {[Fifth EXCEPT !.from = 50]},
   Plain \cup {Fifth, [Fifth EXCEPT !.quality = 3]}, Plain \cup {Fifth}}

Decided(state, sides, multiplier) ==
  [at |-> 25, state |-> state, sides |-> sides, multiplier |-> multiplier,
   allowed |-> {"momentum"}, release |-> "r"]
MCRouting == {Decided("TREND_UP", {"LONG"}, 1), Decided("TREND_DOWN", {"SHORT"}, 1),
              Decided("TREND_UP", {"LONG"}, 0), Decided("CHOP", {}, 1)}

MCMomentumNext ==
  \/ \E m \in Listed : NewListing(m)
  \/ \E r \in Rules : Rebuild(r)
  \/ ranking = Absent /\ \E scene \in Odd, d \in Routing, at \in MomentumAt : RunMomentum(scene, d, at)
  \/ /\ ranking = Absent /\ listing.id = "m1" /\ members.id[2] = RegularRules
     /\ \E scene \in Scene, d \in Routing : d.multiplier > 0 /\ RunMomentum(scene, d, d.at)

MCMomentumSpec == MomentumInit /\ [][MCMomentumNext]_momentumVars
=============================================================================
