------------------------------ MODULE Momentum ------------------------------
(***************************************************************************)
(* Alpha A, CrossSectionalMomentum.evaluate: one ranking of the whole long *)
(* universe at one instant, and the intents of its tail.                   *)
(*                                                                         *)
(* Returns are in units of 1/ReturnUnit, ranks are percentiles times twice *)
(* the population, scores and strengths have the population times 12 and   *)
(* the sum of the weights as their 1.  An observation: [token, at,         *)
(* returns, trend, quality, ...], where returns are the five of the code,  *)
(* trend the signs of the three confirmations and quality the liquidity    *)
(* quality in twelfths, Absent when a requirement fails.                   *)
(*                                                                         *)
(* The machine: masters arrive by the day, the universe is rebuilt or not, *)
(* and the caller evaluates with what it has.                              *)
(***************************************************************************)
EXTENDS UniverseBuilder

CONSTANTS
  MomentumRules,  \* [enabled, excludeRecent, minimum, weights, trendWeight,
                  \*  qualityWeight, longTail, shortTail, maxPerSide]
  TailUnit,       \* a tail of the whole population
  ReturnUnit      \* a return of 100%

\* MomentumSettings: tails below a half, a population of two at least.
ASSUME TailsAreApart ==
  /\ {TailUnit, ReturnUnit} \subseteq Nat \ {0}
  /\ {MomentumRules.longTail, MomentumRules.shortTail} \subseteq 1 .. (TailUnit - 1) \div 2
  /\ {MomentumRules.minimum, MomentumRules.maxPerSide} \subseteq Nat \ {0} /\ MomentumRules.minimum >= 2
  /\ MomentumRules.weights \in [1 .. 5 -> Nat]
  /\ {MomentumRules.trendWeight, MomentumRules.qualityWeight} \subseteq Nat
  /\ MomentumRules.excludeRecent \in BOOLEAN

\* without_recent.
WithoutRecent(total, recent) ==
  ((ReturnUnit + total) * ReturnUnit) \div (ReturnUnit + recent) - ReturnUnit

\* _returns: stock over three horizons, then over 30 minutes against the sector and
\* the market.
ReturnsOf(o) ==
  LET cut(total, recent) == IF MomentumRules.excludeRecent THEN WithoutRecent(total, recent) ELSE total
      stock == [h \in 1 .. 3 |-> cut(o.stock[h], o.recent.stock)]
  IN stock \o <<stock[1] - cut(o.sector, o.recent.sector), stock[1] - cut(o.market, o.recent.market)>>

\* The context and provenance of an observation, and its mandatory features.
Sound(o, master, universe, decision, at) ==
  /\ Unencumbered(InstrumentOf(master, o.token), Day(at))
  /\ o.linked /\ o.universe = universe.id
  /\ o.known <= at /\ o.from <= at /\ at < o.to
  /\ o.release = decision.release
  /\ ~o.missing
  /\ \A r \in {o.stock[1], o.stock[2], o.stock[3], o.sector, o.market} : r > -ReturnUnit

\* The card of a security: confirmations, strength and the score of each side.
CardOf(o, observations) ==
  LET n == Cardinality(observations)
      rank(i) == Rank([p \in observations |-> ReturnsOf(p)[i]], o, observations)
      trend == SumFunction([i \in DOMAIN o.trend |-> o.trend[i] + 1])
      ranks == SumFunction([i \in 1 .. 5 |-> MomentumRules.weights[i] * rank(i)])
      directional == 6 * ranks + 2 * n * MomentumRules.trendWeight * trend
      weights == SumFunction(MomentumRules.weights) + MomentumRules.trendWeight
      quality == IF o.quality = Absent THEN 0 ELSE MomentumRules.qualityWeight * o.quality * n
  IN [token |-> o.token, strength |-> directional,
      score |-> [LONG |-> directional + quality,
                 SHORT |-> 12 * n * weights - directional + quality],
      confirmed |-> {side \in {"LONG", "SHORT"} :
                       \A i \in DOMAIN o.trend : o.trend[i] = (IF side = "LONG" THEN 1 ELSE -1)},
      liquid |-> o.quality # Absent]

InTail(card, cards, side) ==
  LET n == Cardinality(cards)
      rank == Rank([c \in cards |-> c.strength], card, cards)
  IN IF side = "LONG"
     THEN rank * TailUnit >= 2 * n * (TailUnit - MomentumRules.longTail)
     ELSE rank * TailUnit <= 2 * n * MomentumRules.shortTail

\* mutant: the cap cuts through a tie, in the order of the tokens
WithinCap_Split(tail, side, cap) ==
  LET behind(c, d) ==
        \/ (IF side = "LONG" THEN d.strength > c.strength ELSE d.strength < c.strength)
        \/ (c.strength = d.strength /\ d.token <= c.token)
  IN {c \in tail : Cardinality({d \in tail : behind(c, d)}) <= cap}

\* The first of the tail, without the tie that the cap would split: those with no
\* more than cap that are at least as extreme.
WithinCap(tail, side, cap) ==
  LET atLeast(d, c) == IF side = "LONG" THEN d.strength >= c.strength ELSE d.strength <= c.strength
  IN {c \in tail : Cardinality({d \in tail : atLeast(d, c)}) <= cap}

\* What is left of the tail after the confirmations.
Picked(cards, side, master, universe) ==
  LET fraction == IF side = "LONG" THEN MomentumRules.longTail ELSE MomentumRules.shortTail
      cap == Min({MomentumRules.maxPerSide, (Cardinality(cards) * fraction) \div TailUnit})
  IN {c \in WithinCap({d \in cards : InTail(d, cards, side)}, side, cap) :
        /\ c.liquid /\ side \in c.confirmed
        /\ side = "SHORT" => ShortPermitted(c.token, master, universe)}

\* evaluate: only observations of this very instant are looked at.
RankMomentum(offered, universe, master, decision, at) ==
  LET observations == {o \in offered : o.at = at}
      cards == {CardOf(o, observations) : o \in observations}
      side == DirectionalSide(decision)
      result(reason, shown, intents) ==
        [at |-> at, observations |-> observations, side |-> side, reason |-> reason,
         cards |-> shown, intents |-> intents]
  IN IF ~MomentumRules.enabled THEN result("ALPHA_DISABLED", {}, {})
     ELSE IF ~UniverseOfDay(master, universe, at) THEN result("UNIVERSE_UNAVAILABLE", {}, {})
     ELSE IF \/ Cardinality(universe.long) < MomentumRules.minimum
             \/ ~CrossSectionComplete(observations, master, universe)
          THEN result("INCOMPLETE_OR_AMBIGUOUS_CROSS_SECTION", {}, {})
     ELSE IF \E o \in observations : ~Sound(o, master, universe, decision, at)
          THEN result("INVALID_OR_MISSING_INPUT", {}, {})
     ELSE IF ~Permitted(decision, "momentum", at) \/ side = Absent
          THEN result("STATE_PERMISSION_DENIED", cards, {})
     ELSE result("RANKING_COMPLETE", cards,
                 {[token |-> c.token, side |-> side, score |-> c.score[side]]
                    : c \in Picked(cards, side, master, universe)})

-----------------------------------------------------------------------------
CONSTANTS
  Listed,      \* the masters of the days
  Rules,       \* rules of the universe
  Scene,       \* cross-sections: sets of observations before they are stamped
  Routing,     \* decisions of the router
  MomentumAt   \* instants of evaluation

\* What the models of the features let in, as far as the ranks depend on it.
ASSUME MomentumScenesAreTyped ==
  \A scene \in Scene :
    /\ IsFiniteSet(scene)
    /\ \A o \in scene :
         /\ {"token", "at", "universe", "stock", "sector", "market", "trend", "quality"} \subseteq DOMAIN o
         /\ o.stock \in [1 .. 3 -> Int] /\ {o.sector, o.market} \subseteq Int
         /\ o.trend \in [1 .. 3 -> {-1, 0, 1}]
         /\ o.quality # Absent => o.quality \in Int

VARIABLES
  listing,   \* the last InstrumentMasterSnapshot
  members,   \* the last UniverseSnapshot
  ranking    \* the last MomentumResult, with what it was made from

momentumVars == <<listing, members, ranking>>

MomentumInit ==
  /\ listing \in Listed
  /\ \E r \in Rules : members = BuildUniverse(listing, r, listing.generated)
  /\ ranking = Absent

Stamp(o, at) == [o EXCEPT !.at = at - o.at, !.universe = members.id]

RunMomentum(scene, decision, at) ==
  /\ ranking' = RankMomentum({Stamp(o, at) : o \in scene}, members, listing, decision, at)
  /\ UNCHANGED <<listing, members>>

\* The master of another day arrives; the universe is not rebuilt with it.
NewListing(master) ==
  /\ listing' = master /\ ranking' = Absent
  /\ UNCHANGED members

Rebuild(rules) ==
  /\ members' = BuildUniverse(listing, rules, listing.generated)
  /\ ranking' = Absent
  /\ UNCHANGED listing

MomentumNext ==
  \/ \E m \in Listed : NewListing(m)
  \/ \E r \in Rules : Rebuild(r)
  \/ \E scene \in Scene, d \in Routing, at \in MomentumAt : RunMomentum(scene, d, at)

MomentumSpec == MomentumInit /\ [][MomentumNext]_momentumVars

-----------------------------------------------------------------------------
Emitted == {i.token : i \in ranking.intents}
CardFor(token) == CHOOSE c \in ranking.cards : c.token = token
Eligible(card) ==
  /\ card.liquid /\ ranking.side \in card.confirmed
  /\ ranking.side = "SHORT" => ShortPermitted(card.token, listing, members)

\* phase-7-momentum.md: a cap never splits an exact tie, and rejected candidates are
\* not replaced from outside the original tail.  So of two securities that could
\* both be traded the more extreme one is there whenever the other is, equals come
\* together, and whoever is there would be if all the others were eligible as well.
TiesStandTogether ==
  ranking # Absent =>
    \A c, d \in ranking.cards :
      (c.token \in Emitted /\ Eligible(d)
         /\ (IF ranking.side = "LONG" THEN d.strength >= c.strength ELSE d.strength <= c.strength))
        => d.token \in Emitted
RejectionsLeaveGaps ==
  ranking # Absent =>
    \A t \in Emitted :
      Cardinality({c \in ranking.cards : IF ranking.side = "LONG"
                     THEN c.strength >= CardFor(t).strength
                     ELSE c.strength <= CardFor(t).strength}) <= MomentumRules.maxPerSide

\* Sides are mirror images: the cross-section with every return and sign reversed
\* asks to sell short what this one asks to buy, as far as that is permitted, with
\* the same scores.
MirrorOf(o) ==
  [o EXCEPT !.stock = [h \in 1 .. 3 |-> -o.stock[h]], !.sector = -o.sector, !.market = -o.market,
            !.trend = [i \in DOMAIN o.trend |-> -o.trend[i]]]
SidesMirrorEachOther ==
  ranking # Absent /\ ranking.reason = "RANKING_COMPLETE" /\ ranking.side = "LONG"
    /\ ~MomentumRules.excludeRecent /\ MomentumRules.longTail = MomentumRules.shortTail =>
    LET mirror == {MirrorOf(o) : o \in ranking.observations}
        cards == {CardOf(o, mirror) : o \in mirror}
    IN {[token |-> c.token, score |-> c.score["SHORT"]]
          : c \in Picked(cards, "SHORT", listing, members)} =
       {[token |-> i.token, score |-> i.score]
          : i \in {j \in ranking.intents : ShortPermitted(j.token, listing, members)}}

\* Who is traded follows from the ranks alone, on either side.
RankingIsFair == TiesStandTogether /\ RejectionsLeaveGaps /\ SidesMirrorEachOther
=============================================================================
