---------------------------- MODULE RelativeValue ----------------------------
(***************************************************************************)
(* Alpha E, SectorRelativeValue.evaluate: the strongest of a sector        *)
(* against the weakest, in the proportions that cancel the market, without *)
(* the securities that statistical arbitrage already holds; and            *)
(* stat_arb_inventory, the snapshot that says which those are.             *)
(*                                                                         *)
(* Betas are fitted outside and have units of 1/BetaOne; parts of the      *)
(* gross are [part, of].  An observation: [token, at, sector and market    *)
(* residual, beta, stable, history, ...], its history rows of a stock and  *)
(* a market bar.                                                           *)
(*                                                                         *)
(* The machine: pairs that are opened and closed while inventories are     *)
(* taken and, later, evaluations made with them.                           *)
(***************************************************************************)
EXTENDS UniverseBuilder

CONSTANTS
  RvRules,     \* RelativeValueSettings
  RvBarTicks,  \* ticks of a five-minute bar
  RvTailUnit,  \* a tail of the whole sector
  BetaOne,
  Nifty        \* the token of the index

\* The bounds of RelativeValueSettings.
ASSUME RvRulesOrdered ==
  /\ {RvRules.minBeta, RvRules.maxBeta, RvRules.minimumSector, RvRules.minGap, RvRules.tail,
      RvRules.trainingReturns, RvBarTicks, RvTailUnit, BetaOne} \subseteq Nat \ {0}
  /\ RvRules.minBeta < RvRules.maxBeta /\ RvRules.members \in 1 .. 5 /\ RvRules.minimumSector >= 2
  /\ 2 * RvRules.tail < RvTailUnit /\ RvRules.sectorWeight \in 0 .. 10 /\ RvRules.maxNet \in Nat

Away(x) == IF x < 0 THEN -x ELSE x

-----------------------------------------------------------------------------
(* stat_arb_inventory. *)

\* mutant: the master of any day is good enough
InventoryMayBe_AnyDay(active, master, at) == \A p \in active : p.at <= at

\* The intents are not of the future and have their tokens from this very master.
InventoryMayBe(active, master, at) ==
  /\ master.generated <= at
  /\ \A i, j \in master.instruments : i # j => i.token # j.token
  /\ \A p \in active :
       /\ p.at <= at /\ master.asOf = Day(p.at) /\ master.generated <= p.at
       /\ \A t \in p.tokens : \E i \in master.instruments : i.token = t

InventoryOf(active, master, at, complete) ==
  [at |-> at, complete |-> complete,
   reserved |-> {InstrumentOf(master, t).entity : t \in UNION {p.tokens : p \in active}}]

-----------------------------------------------------------------------------
(* estimate_beta and neutral_weights. *)

\* The last rows of the session that had closed and arrived a bar before.
BetaRows(history, at, opening) ==
  LET cutoff == at - RvBarTicks
      known(row) == \A bar \in {row.stock, row.market} : bar.end <= cutoff /\ bar.received <= cutoff
      rows == Sorted({row \in history : row.stock.start >= opening /\ known(row)},
                     LAMBDA r, s : r.stock.end < s.stock.end)
      n == Len(rows)
  IN SubSeq(rows, Max({1, n - RvRules.trainingReturns}), n)

\* The training of a security: contiguous up to the bar before the decision.
TrainingSound(rows, o, at, opening) ==
  /\ Len(rows) = RvRules.trainingReturns + 1
  /\ rows[Len(rows)].stock.end = at - RvBarTicks
  /\ \A i \in DOMAIN rows :
       LET stock == rows[i].stock
           market == rows[i].market
       IN /\ stock.clean /\ stock.token = o.token
          /\ market.clean /\ market.token = Nifty
          /\ stock.start = market.start /\ stock.end = market.end
          /\ (stock.start - opening) % RvBarTicks = 0
          /\ i > 1 => rows[i - 1].stock.end = stock.start
  /\ RvRules.minBeta <= o.beta /\ o.beta <= RvRules.maxBeta
  /\ o.stable

SumOf(members) == SumFunctionOnSet([c \in members |-> c.beta], members)

\* mutant: each side has the weight of its own beta
WeightsOf_Swapped(leaders, laggards) ==
  [LONG |-> SumOf(leaders), SHORT |-> SumOf(laggards), of |-> SumOf(leaders) + SumOf(laggards)]

\* Each side has the beta of the other as its part.
WeightsOf(leaders, laggards) ==
  [LONG |-> SumOf(laggards), SHORT |-> SumOf(leaders), of |-> SumOf(leaders) + SumOf(laggards)]

\* What neutral_weights raises for.
NetFeasible(w) == Away(w.LONG - w.SHORT) * BetaOne <= RvRules.maxNet * w.of

-----------------------------------------------------------------------------
(* evaluate. *)

\* The context, the liquidity and the training of a security of the cross-section.
Admitted(o, instrument, universe, decision, at, opening) ==
  /\ Unencumbered(instrument, Day(at))
  /\ o.linked /\ o.universe = universe.id /\ o.sector = instrument.sector
  /\ o.release = decision.release
  /\ o.liquid /\ ~o.missing
  /\ TrainingSound(BetaRows(o.history, at, opening), o, at, opening)

Reserved(instrument, inventory) == instrument.entity \in inventory.reserved

RankedOf(o, instrument, at, opening) ==
  [token |-> o.token, entity |-> instrument.entity, sector |-> instrument.sector,
   strength |-> RvRules.sectorWeight * o.residual.sector + (10 - RvRules.sectorWeight) * o.residual.market,
   beta |-> o.beta,
   market |-> {r.market : r \in Range(BetaRows(o.history, at, opening))}]

Percentile(c, group) == Rank([d \in group |-> d.strength], c, group)

TailOf(group, side) ==
  LET n == Cardinality(group)
  IN {c \in group : IF side = "LONG"
                    THEN Percentile(c, group) * RvTailUnit >= 2 * n * (RvTailUnit - RvRules.tail)
                    ELSE Percentile(c, group) * RvTailUnit <= 2 * n * RvRules.tail}

\* The most extreme of a tail; the security id breaks ties.
FirstOf(tail, side) ==
  LET before(c, d) ==
        \/ IF side = "LONG" THEN c.strength > d.strength ELSE c.strength < d.strength
        \/ c.strength = d.strength /\ c.entity < d.entity
  IN {c \in tail : Cardinality({d \in tail : before(d, c)}) < RvRules.members}

\* The legs of a sector with the gap and the weights they are chosen for; Absent when
\* the sector is too small, the tails too short or close, or the net too large.
BasketOf(group, master, universe, at) ==
  LET leaders == FirstOf(TailOf(group, "LONG"), "LONG")
      laggards == FirstOf({c \in TailOf(group, "SHORT") : ShortPermitted(c.token, master, universe)}, "SHORT")
      w == WeightsOf(leaders, laggards)
      gap == Min({c.strength : c \in leaders}) - Max({c.strength : c \in laggards})
      leg(c, side) == [token |-> c.token, entity |-> c.entity, side |-> side, beta |-> c.beta,
                       rank |-> Percentile(c, group), sector |-> c.sector,
                       part |-> w[side], of |-> RvRules.members * w.of]
  IN IF \/ Cardinality(group) < RvRules.minimumSector
        \/ Cardinality(leaders) # RvRules.members \/ Cardinality(laggards) # RvRules.members
     THEN Absent
     ELSE IF gap < RvRules.minGap \/ ~NetFeasible(w) THEN Absent
     ELSE [id |-> <<{c.entity : c \in leaders \cup laggards}, at>>, at |-> at,
           sector |-> (CHOOSE c \in leaders : TRUE).sector, size |-> Cardinality(group),
           legs |-> {leg(c, "LONG") : c \in leaders} \cup {leg(c, "SHORT") : c \in laggards}]

\* evaluate: the reason and the baskets.
FindBaskets(offered, universe, master, decision, inventory, calendar, at, mode) ==
  LET observations == {o \in offered : o.at = at}
      opening == Moment(calendar, at, "open")
      usable == {o \in observations :
                   LET i == InstrumentOf(master, o.token)
                   IN ~Reserved(i, inventory) /\ Admitted(o, i, universe, decision, at, opening)}
      candidates == {RankedOf(o, InstrumentOf(master, o.token), at, opening) : o \in usable}
      baskets == {BasketOf({c \in candidates : c.sector = s}, master, universe, at)
                    : s \in {c.sector : c \in candidates}}
      result(reason, found) == [at |-> at, reason |-> reason, baskets |-> found]
  IN IF mode = "LIVE" \/ ~RvRules.enabled THEN result("NOT_ENABLED", {})
     ELSE IF Vetoed(decision, at) \/ "relative_value" \notin decision.allowed
          THEN result("STATE_OR_HEALTH_BLOCKED", {})
     ELSE IF ~inventory.complete \/ inventory.at > at \/ at - inventory.at > RvRules.inventoryAge
          THEN result("INVENTORY_UNAVAILABLE", {})
     ELSE IF ~SessionKnown(calendar, at) THEN result("SESSION_UNAVAILABLE", {})
     ELSE IF \/ at <= opening
             \/ at >= Min({Moment(calendar, at, "finalEntry"), Moment(calendar, at, "flatten")})
             \/ (at - opening) % RvBarTicks # 0
          THEN result("ENTRY_WINDOW_BLOCKED", {})
     ELSE IF \/ ~UniverseOfDay(master, universe, at)
             \/ ~CrossSectionComplete(observations, master, universe)
             \/ \E i, j \in master.instruments : i # j /\ i.entity = j.entity
          THEN result("CROSS_SECTION_OR_MASTER_AMBIGUOUS", {})
     ELSE IF Cardinality({c.market : c \in candidates}) > 1
          THEN result("INCONSISTENT_MARKET_TRAINING", {})
     ELSE result("EVALUATION_COMPLETE", baskets \ {Absent})

\* RelativeValueIntent.coherent_exposure in exact proportions, without the rounding of
\* floats and the tolerances for it: a basket that is not cannot be built, and the whole
\* evaluation raises.
Coherent(basket) ==
  LET side(s) == {leg \in basket.legs : leg.side = s}
      exposure(s) == SumFunctionOnSet([leg \in side(s) |-> leg.part * leg.beta], side(s))
      gross(s) == SumFunctionOnSet([leg \in side(s) |-> leg.part], side(s))
      ranks(s) == SumFunctionOnSet([leg \in side(s) |-> leg.rank], side(s))
      of == (CHOOSE leg \in basket.legs : TRUE).of
  IN /\ \A leg, other \in basket.legs : leg # other => leg.entity # other.entity
     /\ \A s \in {"LONG", "SHORT"} : Cardinality(side(s)) = RvRules.members
     /\ ranks("LONG") - ranks("SHORT") \in 0 .. 2 * basket.size * RvRules.members
     /\ \A leg \in basket.legs : leg.sector = basket.sector /\ leg.of = of
     /\ gross("LONG") + gross("SHORT") = of
     /\ Away(gross("LONG") - gross("SHORT")) * BetaOne <= RvRules.maxNet * of
     /\ exposure("LONG") = exposure("SHORT")

-----------------------------------------------------------------------------
CONSTANTS
  RvListing,   \* the master of a day
  RvCalendar,
  RvInstants,  \* instants at which something happens
  PairTokens,  \* what a pair may be made of
  RvScene,     \* cross-sections before they are stamped
  RvRouting,   \* decisions of the router
  MaxPairs

\* Time is counted in ticks, and a master is the one of its day.
ASSUME RvTimesAreNatural ==
  /\ RvInstants # {} /\ RvInstants \subseteq Nat /\ RvRules.inventoryAge \in Nat
\* What the models of an observation let in; and a bar is in a history once, or else the
\* code raises for a training that it is in twice.
ASSUME RvScenesAreRecorded ==
  \A scene \in RvScene :
    /\ IsFiniteSet(scene)
    /\ \A o \in scene :
         /\ {"token", "at", "universe", "residual", "beta", "history"} \subseteq DOMAIN o
         /\ {o.beta, o.residual.sector, o.residual.market} \subseteq Int
         /\ IsFiniteSet(o.history)
         /\ \A row \in o.history : {row.stock.end, row.market.end, row.stock.received, row.market.received} \subseteq Int
         /\ \A row, other \in o.history : row.stock.end = other.stock.end => row = other
ASSUME RvMastersAreDaily == \A day \in DOMAIN RvListing : RvListing[day].asOf = day

VARIABLES
  rvTime,
  held,       \* pair intents that are active or pending: [at, tokens, entities]
  inventory,  \* the last snapshot, Absent at first
  baskets     \* the last evaluation: its result and its cross-section

rvVars == <<rvTime, held, inventory, baskets>>

RvMaster == RvListing[Day(rvTime)]
RvUniverse ==
  BuildUniverse(RvMaster, [excludeSurveillance |-> TRUE, excludeAmbiguous |-> TRUE, symbols |-> {},
                           sectors |-> {}, shortsAllowed |-> TRUE, shortsNeedFo |-> TRUE],
                RvMaster.generated)

RvInit ==
  /\ rvTime = Min(RvInstants) /\ held = {} /\ inventory = Absent /\ baskets = Absent

RvAdvance ==
  /\ \E t \in RvInstants : t > rvTime
  /\ rvTime' = Min({t \in RvInstants : t > rvTime}) /\ baskets' = Absent
  /\ UNCHANGED <<held, inventory>>

OpenPair(tokens) ==
  /\ Cardinality(held) < MaxPairs
  /\ held' = held \cup {[at |-> rvTime, tokens |-> tokens,
                         entities |-> {InstrumentOf(RvMaster, t).entity : t \in tokens}]}
  /\ baskets' = Absent
  /\ UNCHANGED <<rvTime, inventory>>

ReleasePair(pair) ==
  /\ held' = held \ {pair} /\ baskets' = Absent
  /\ UNCHANGED <<rvTime, inventory>>

\* The caller is honest: complete is everything that is held.
TakeInventory(active, master) ==
  /\ InventoryMayBe(active, master, rvTime)
  /\ inventory' = InventoryOf(active, master, rvTime, active = held)
  /\ baskets' = Absent
  /\ UNCHANGED <<rvTime, held>>

\* evaluate and publish_relative_value.
EvaluateBaskets(scene, decision) ==
  /\ inventory # Absent
  /\ LET observations == {[o EXCEPT !.at = rvTime, !.universe = RvUniverse.id] : o \in scene}
         now == [decision EXCEPT !.at = rvTime, !.health.at = rvTime]
     IN baskets' = [result |-> FindBaskets(observations, RvUniverse, RvMaster, now, inventory, RvCalendar,
                                           rvTime, "PAPER"),
                    scene |-> scene]
  /\ UNCHANGED <<rvTime, held, inventory>>

RvNext ==
  \/ RvAdvance
  \/ \E tokens \in PairTokens : OpenPair(tokens)
  \/ \E pair \in held : ReleasePair(pair)
  \/ \E active \in SUBSET held, day \in DOMAIN RvListing : TakeInventory(active, RvListing[day])
  \/ \E scene \in RvScene, d \in RvRouting : EvaluateBaskets(scene, d)

RvSpec == RvInit /\ [][RvNext]_rvVars

-----------------------------------------------------------------------------
Found == IF baskets = Absent THEN {} ELSE baskets.result.baskets

\* phase-11-relative-value.md: the check is read-only and not a reservation service.
\* What it does promise: a basket shares a security with an active pair only if the
\* pair was entered after the inventory, within its age, whatever tokens the security
\* had on the day of the entry.
OverlapIsRecent ==
  \A b \in Found, p \in held :
    ({leg.entity : leg \in b.legs} \cap p.entities # {}) =>
      inventory.at <= p.at /\ p.at <= b.at /\ b.at - p.at <= RvRules.inventoryAge

\* What evaluate chooses can be built: sides of equal beta, a net in its limits and no
\* security twice; otherwise the evaluation raises and every sector is lost.
BasketsAreCoherent == \A b \in Found : Coherent(b)

\* No decision without its own latest bars: the training of every leg ends a bar
\* before, and that bar had arrived by the very instant it closed.  A feed with any
\* latency never trades.
TradesNeedPromptBars ==
  \A b \in Found : \A leg \in b.legs :
    \E o \in baskets.scene : \E row \in o.history :
      /\ o.token = leg.token
      /\ row.stock.end = b.at - RvBarTicks
      /\ row.stock.received <= row.stock.end /\ row.market.received <= row.market.end
=============================================================================
