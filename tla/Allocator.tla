------------------------------ MODULE Allocator ------------------------------
(***************************************************************************)
(* allocate: from the candidates of one decision time to proposed target   *)
(* positions, on top of the existing and pending ones.                     *)
(*                                                                         *)
(* Fractions of equity, weights, multipliers, penalties, losses and        *)
(* correlations are in parts (Ensemble).  Each product and each quotient   *)
(* is rounded where the code takes it, in the order in which it does.      *)
(***************************************************************************)
EXTENDS Ensemble

CONSTANT Caps    \* AllocatorSettings

\* AllocatorSettings.limits and its fields.
ASSUME CapsAreConsistent ==
  /\ {Caps.alpha, Caps.gross, Caps.symbol, Caps.sector, Caps.risk, Caps.candidateRisk} \subseteq 1 .. One
  /\ {Caps.groups, Caps.sectorGroups} \subseteq Nat \ {0}
  /\ {Caps.net, Caps.threshold, Caps.sectorPenalty, Caps.correlationPenalty, Caps.maxInputAge} \subseteq Nat
  /\ Caps.net <= Caps.gross /\ Caps.sectorGroups <= Caps.groups
  /\ Caps.threshold < One

\* A position: [entity, sector, alpha, group, notional, risk, proposed].
\* mutant: opposite positions cancel out
Gross_Netted(positions) == AbsoluteValue(SumFunction([p \in positions |-> p.notional]))

Gross(positions) == SumFunction([p \in positions |-> AbsoluteValue(p.notional)])
Net(positions) == SumFunction([p \in positions |-> p.notional])

\* mutant: the risk of existing positions is not counted
Risk_ProposedOnly(positions) == SumFunction([p \in {q \in positions : q.proposed} |-> p.risk])

Risk(positions) == SumFunction([p \in positions |-> p.risk])

GroupsOf(positions) == {p.group : p \in positions}
OfAlpha(positions, alpha) == {p \in positions : p.alpha = alpha}
InSector(positions, sector) == {p \in positions : p.sector = sector}

\* within_caps.
WithinCaps(positions) ==
  /\ Gross(positions) <= Caps.gross
  /\ AbsoluteValue(Net(positions)) <= Caps.net
  /\ Risk(positions) <= Caps.risk
  /\ Cardinality(GroupsOf(positions)) <= Caps.groups
  /\ \A p \in positions :
       /\ Gross(OfAlpha(positions, p.alpha)) <= Caps.alpha
       /\ Gross(InSector(positions, p.sector)) <= Caps.sector
       /\ Gross({q \in positions : q.entity = p.entity}) <= Caps.symbol
       /\ Cardinality(GroupsOf(InSector(positions, p.sector))) <= Caps.sectorGroups

-----------------------------------------------------------------------------
(* The gates in front of the loop. *)

Fresh(time, at) == time <= at /\ at - time <= Caps.maxInputAge

EntryWindow(calendar, at) ==
  /\ Covered(calendar, Day(at))
  /\ SessionOn(calendar, Day(at)) # Absent
  /\ SessionOn(calendar, Day(at)).open <= TickOf(at)
  /\ TickOf(at) < SessionOn(calendar, Day(at)).finalEntry

\* The mode, the portfolio snapshot, the two decisions and the health in the state.
MayAllocate(inputs) ==
  /\ inputs.mode # "LIVE"
  /\ inputs.portfolio.complete /\ ~inputs.portfolio.blocks
  /\ Fresh(inputs.portfolio.at, inputs.at)
  /\ inputs.ensemble.at = inputs.at /\ ~Vetoed(inputs.state, inputs.at)

\* Every input names its subject once; correlations were trained in the past.
Unambiguous(inputs) ==
  /\ \A h, k \in inputs.health : h.alpha = k.alpha => h = k
  /\ \A c, d \in inputs.liquidity : c.entity = d.entity => c = d
  /\ \A e, f \in inputs.estimates : e.id = f.id => e = f
  /\ \A r, s \in inputs.correlations.estimates : r.pair = s.pair => r = s
  /\ inputs.correlations.trained < inputs.at
  /\ inputs.correlations.trained <= inputs.correlations.at
  /\ Fresh(inputs.correlations.at, inputs.at)

-----------------------------------------------------------------------------
(* One candidate. *)

\* Registered, current, permitted by the router, with current health and risk.
Usable(inputs, candidate) ==
  /\ Registry[candidate.alpha].enabled
  /\ candidate.at = inputs.at
  /\ candidate.alpha \in inputs.state.allowed
  /\ \E e \in inputs.estimates : e.id = candidate.id /\ Fresh(e.at, inputs.at)
  /\ \E h \in inputs.health :
       /\ h.alpha = candidate.alpha
       /\ h.at <= inputs.at /\ inputs.at - h.at <= h.maxAge
       /\ h.release = inputs.state.release
       /\ h.minimum <= h.value /\ h.value <= h.maximum

HealthOf(inputs, alpha) == CHOOSE h \in inputs.health : h.alpha = alpha
EstimateOf(inputs, candidate) == CHOOSE e \in inputs.estimates : e.id = candidate.id

SectorsOf(candidate) == {leg.sector : leg \in candidate.legs}

CapacityUsable(inputs, leg) ==
  \E c \in inputs.liquidity :
    c.entity = leg.entity /\ c.eligible /\ Fresh(c.at, inputs.at) /\ inputs.at <= c.until

\* The pairs of a leg and another position whose correlation is needed.
PairsNeeded(candidate, targets) ==
  {{leg.entity, p.entity} : leg \in candidate.legs, p \in targets}

CorrelationsOf(inputs, candidate, targets) ==
  {r \in inputs.correlations.estimates : r.pair \in PairsNeeded(candidate, targets)}

\* The first reason to leave the candidate out; "" when there is none.
Obstacle(inputs, candidate, targets) ==
  IF ~Usable(inputs, candidate) THEN "CANDIDATE_INPUT_UNAVAILABLE"
  ELSE IF \E p \in targets : p.entity \in EntitiesOf(candidate)
       THEN "EXISTING_OR_SELECTED_SYMBOL_OVERLAP"
  ELSE IF Cardinality(GroupsOf(targets)) >= Caps.groups THEN "POSITION_GROUP_CAP"
  ELSE IF \E s \in SectorsOf(candidate) :
            Cardinality(GroupsOf(InSector(targets, s))) >= Caps.sectorGroups
       THEN "SECTOR_GROUP_CAP"
  ELSE IF PairsNeeded(candidate, targets) #
            {r.pair : r \in CorrelationsOf(inputs, candidate, targets)}
       THEN "CORRELATION_UNAVAILABLE"
  ELSE IF \E leg \in candidate.legs : ~CapacityUsable(inputs, leg)
       THEN "LIQUIDITY_CAPACITY_UNAVAILABLE"
  ELSE ""

Penalty(inputs, candidate, targets) ==
  LET correlation == Max({0} \cup {r.value : r \in CorrelationsOf(inputs, candidate, targets)})
      duplicates ==
        Cardinality(GroupsOf({p \in targets : p.sector \in SectorsOf(candidate)}))
      excess == Max({0, correlation - Caps.threshold})
  IN Times(EstimateOf(inputs, candidate).volatility,
           One + Caps.sectorPenalty * duplicates
             + Over(Times(Caps.correlationPenalty, excess), One - Caps.threshold))

\* base_budget * gross_risk_multiplier * health.
Budget(inputs, alpha) ==
  Times(Times(Registry[alpha].budget, inputs.state.multiplier), HealthOf(inputs, alpha).value)

ScoreSum(inputs, alpha) ==
  LET own == {n \in DOMAIN inputs.ensemble.candidates : inputs.ensemble.candidates[n].alpha = alpha}
  IN Max({One, SumFunction([n \in own |-> inputs.ensemble.candidates[n].strength])})

Desired(inputs, candidate, targets) ==
  Over(Over(Times(Budget(inputs, candidate.alpha), candidate.strength),
            ScoreSum(inputs, candidate.alpha)),
       Penalty(inputs, candidate, targets))

NetWeight(candidate) == SumFunction([leg \in candidate.legs |-> leg.weight])

\* A leg's own limit: the symbol cap and what the market can absorb.
LegLimit(inputs, leg) ==
  LET c == CHOOSE c \in inputs.liquidity : c.entity = leg.entity
  IN Over(Min({Caps.symbol, c.notional, c.volume, c.turnover}), AbsoluteValue(leg.weight))

WeightIn(candidate, sector) ==
  SumFunction([leg \in {x \in candidate.legs : x.sector = sector} |-> AbsoluteValue(leg.weight)])

\* What each cap, the budget and the market leave of the candidate.
Limits(inputs, candidate, targets) ==
  LET loss == EstimateOf(inputs, candidate).loss
      net == NetWeight(candidate)
      held == Gross(OfAlpha(targets, candidate.alpha))
  IN { Desired(inputs, candidate, targets),
       Budget(inputs, candidate.alpha) - held,
       Caps.gross - Gross(targets),
       Over(Caps.risk - Risk(targets), loss),
       Over(Caps.candidateRisk, loss),
       Caps.alpha - held }
     \cup (IF net > 0 THEN {Over(Caps.net - Net(targets), net)} ELSE {})
     \cup (IF net < 0 THEN {Over(Caps.net + Net(targets), -net)} ELSE {})
     \cup {Over(Caps.sector - Gross(InSector(targets, s)), WeightIn(candidate, s)) :
             s \in SectorsOf(candidate)}
     \cup {LegLimit(inputs, leg) : leg \in candidate.legs}

\* quantize with ROUND_DOWN, never a cap upwards.
Quantized(x) == x - (x % Quantum)

\* mutant: the desired amount is not clipped
Amount_Desired(inputs, candidate, targets) == Quantized(Desired(inputs, candidate, targets))

Amount(inputs, candidate, targets) ==
  Quantized(Max({0, Min(Limits(inputs, candidate, targets))}))

\* The proposed positions of a candidate, all its legs or none.
Additions(inputs, candidate, amount) ==
  {[entity |-> leg.entity, sector |-> leg.sector, alpha |-> candidate.alpha,
    group |-> candidate.id, notional |-> Times(amount, leg.weight),
    risk |-> Times(Times(amount, EstimateOf(inputs, candidate).loss), AbsoluteValue(leg.weight)),
    proposed |-> TRUE] : leg \in candidate.legs}

\* One turn of the loop; so far is [targets, records].
Consider(inputs, soFar, candidate) ==
  LET obstacle == Obstacle(inputs, candidate, soFar.targets)
      amount == Amount(inputs, candidate, soFar.targets)
      more == Additions(inputs, candidate, amount)
      record(gross, reason) == [id |-> candidate.id, gross |-> gross, reason |-> reason]
  IN IF obstacle # "" THEN [soFar EXCEPT !.records = Append(@, record(0, obstacle))]
     ELSE IF amount > 0 /\ WithinCaps(soFar.targets \cup more)
     THEN [targets |-> soFar.targets \cup more,
           records |-> Append(soFar.records, record(amount, "PROPOSED"))]
     ELSE [soFar EXCEPT !.records = Append(@, record(0, "NO_CAPACITY"))]

\* allocate; the candidates of an ensemble decision are in their order already.
Allocate(inputs, calendar) ==
  LET positions == inputs.portfolio.positions
      candidates == inputs.ensemble.candidates
      finish(reason, made) ==
        [identity |-> inputs, at |-> inputs.at, targets |-> made.targets,
         allocations |-> made.records, reason |-> reason]
      unchanged == [targets |-> positions, records |-> <<>>]
      made[n \in 0 .. Len(candidates)] ==  \* after the first n candidates
        IF n = 0 THEN unchanged ELSE Consider(inputs, made[n - 1], candidates[n])
  IN IF ~EntryWindow(calendar, inputs.at) THEN finish("CALENDAR_BLOCKED", unchanged)
     ELSE IF ~MayAllocate(inputs) THEN finish("NEW_ALLOCATION_BLOCKED", unchanged)
     ELSE IF ~WithinCaps(positions) THEN finish("EXISTING_EXPOSURE_REQUIRES_RISK_REVIEW", unchanged)
     ELSE IF ~Unambiguous(inputs) THEN finish("ALLOCATION_INPUT_AMBIGUOUS", unchanged)
     ELSE IF \E m, n \in DOMAIN candidates : m # n /\ candidates[m].id = candidates[n].id
          THEN finish("DUPLICATE_CANDIDATE", unchanged)
     ELSE finish("PROPOSALS_ONLY_NO_EXECUTION", made[Len(candidates)])
=============================================================================
