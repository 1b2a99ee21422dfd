------------------------------ MODULE Ensemble ------------------------------
(***************************************************************************)
(* normalize_intents: what the five alphas ask for at one decision time,   *)
(* brought to one scale, checked against the inputs of the decision and    *)
(* reduced to candidates that do not contradict each other.  The caller    *)
(* collects the intents: late, repeated, of other releases, for legs that  *)
(* are no longer eligible.                                                 *)
(*                                                                         *)
(* A content hash is the hashed value itself, or the id of a snapshot; the *)
(* registry is that of the release.                                        *)
(* Scores are integers in units of their own; "PAIR" scores are |z| in     *)
(* units of the stop.  A Decimal, and a float made one, is a number of     *)
(* parts of 1: fixed places stand for the 28 significant digits of the     *)
(* context, so that products and quotients are rounded and sums are not.   *)
(***************************************************************************)
EXTENDS UniverseBuilder

CONSTANTS
  Registry,    \* AlphaRegistry: alpha -> [enabled, budget, floor, ceiling]
  ScoreUnit,   \* a score of 1
  One,         \* the parts of 1
  Quantum      \* 1e-12, the place that amounts are quantized to

\* AlphaRegistration.ordered and AlphaRegistry.unique_budget bound what is loaded.
ASSUME RegistryLoads ==
  /\ {ScoreUnit, One, Quantum} \subseteq Nat \ {0}
  /\ \A a \in DOMAIN Registry :
       /\ {Registry[a].budget, Registry[a].floor, Registry[a].ceiling} \subseteq Nat
       /\ Registry[a].floor < Registry[a].ceiling

\* n / d to the nearest part, a tie to the even one.
Rounded(n, d) ==
  LET q == n \div d
      r == 2 * (n % d)
  IN IF r < d \/ (r = d /\ q % 2 = 0) THEN q ELSE q + 1

Times(x, y) == Rounded(x * y, One)
Over(x, y) == Rounded(x * One, y)

\* The master and the universe are of the day and known, belong together and name
\* every listing once; the router has decided at this very instant.
MetadataAvailable(master, universe, state, at) ==
  /\ UniverseOfDay(master, universe, at)
  /\ \A i, j \in master.instruments : i # j => i.token # j.token /\ i.entity # j.entity
  /\ state.at = at

EligibleLeg(token, weight, master, universe, day) ==
  /\ \E i \in master.instruments : i.token = token
  /\ token \in universe.long
  /\ Unencumbered(InstrumentOf(master, token), day)
  /\ weight < 0 => ShortPermitted(token, master, universe)

\* Made at this instant, by this release, from this universe and this decision.
CausallyBound(intent, universe, state, at) ==
  /\ intent.at = at
  /\ intent.release = state.release
  /\ intent.universe = universe.id
  /\ intent.state = state.id

AbsoluteValue(x) == IF x < 0 THEN -x ELSE x

\* A leg's part of the gross of its intent.
LegWeight(intent, token) ==
  Rounded(intent.legs[token] * One,
          SumFunction([t \in DOMAIN intent.legs |-> AbsoluteValue(intent.legs[t])]))

\* NormalizedCandidate.indivisible_weights, after rounding.
UnitGross(intent) ==
  LET weight == [t \in DOMAIN intent.legs |-> AbsoluteValue(LegWeight(intent, t))]
  IN /\ \A t \in DOMAIN weight : weight[t] # 0
     /\ AbsoluteValue(SumFunction(weight) - One) <= Quantum

\* The first check that an intent fails; "" when it normalizes.
Refusal(intent, master, universe, state, at) ==
  IF intent.alpha \notin DOMAIN Registry THEN "UNKNOWN_ALPHA"
  ELSE IF ~Registry[intent.alpha].enabled THEN "ALPHA_DISABLED"
  ELSE IF intent.kind = "SIGNAL" /\ ~intent.evidence THEN "SCORED_EVIDENCE_REQUIRED"
  ELSE IF intent.kind = "PAIR" /\ intent.action # "ENTER" THEN "EXIT_IS_NO_ALLOCATION"
  ELSE IF intent.kind # "PAIR" /\ intent.master # master.id THEN "MASTER_MISMATCH"
  ELSE IF ~CausallyBound(intent, universe, state, at) THEN "CAUSAL_PROVENANCE_MISMATCH"
  ELSE IF \E t \in DOMAIN intent.legs :
            ~EligibleLeg(t, intent.legs[t], master, universe, Day(at))
       THEN "INELIGIBLE_LEG"
  ELSE IF ~UnitGross(intent) THEN "WEIGHTS_WITHOUT_UNIT_GROSS"
  ELSE ""

\* mutant: only scores of signals are clamped
Strength_PairsUnclamped(intent) ==
  LET r == Registry[intent.alpha]
  IN Max({0, Rounded((intent.score - r.floor) * One, r.ceiling - r.floor)})

\* The score between the anchors of the alpha.
Strength(intent) ==
  LET r == Registry[intent.alpha]
      score == IF intent.kind = "PAIR" THEN Min({ScoreUnit, intent.score}) ELSE intent.score
  IN Max({0, Min({One, Rounded((score - r.floor) * One, r.ceiling - r.floor)})})

Candidate(intent, master) ==
  [id |-> intent.id, alpha |-> intent.alpha, at |-> intent.at,
   strength |-> Strength(intent),
   legs |-> {[entity |-> InstrumentOf(master, t).entity,
              sector |-> InstrumentOf(master, t).sector,
              weight |-> LegWeight(intent, t)] : t \in DOMAIN intent.legs}]

EntitiesOf(candidate) == {leg.entity : leg \in candidate.legs}

Opposed(c, d) ==
  \E a \in c.legs, b \in d.legs : a.entity = b.entity /\ a.weight * b.weight < 0

Conflicted(candidates) == {c \in candidates : \E d \in candidates : c.id # d.id /\ Opposed(c, d)}

Stronger(c, d) == c.strength > d.strength \/ (c.strength = d.strength /\ c.id < d.id)

\* mutant: a weaker candidate is dropped for every stronger one, selected or not
Selected_AgainstAll(candidates) ==
  SetToSortSeq({c \in candidates \ Conflicted(candidates) :
                  ~\E d \in candidates : Stronger(d, c) /\ EntitiesOf(c) \cap EntitiesOf(d) # {}},
               Stronger)

\* Sorted by strength and id: each has as many before it as are stronger.
ByStrength(candidates) ==
  [n \in 1 .. Cardinality(candidates) |->
     CHOOSE c \in candidates : Cardinality({d \in candidates : Stronger(d, c)}) = n - 1]

\* By strength, each unless it shares a security with one that was selected.
Selected(candidates) ==
  LET order == ByStrength(candidates \ Conflicted(candidates))
      overlaps(c, chosen) == \E i \in DOMAIN chosen : EntitiesOf(c) \cap EntitiesOf(chosen[i]) # {}
      taken[n \in 0 .. Len(order)] ==  \* of the first n
        IF n = 0 THEN <<>>
        ELSE IF overlaps(order[n], taken[n - 1]) THEN taken[n - 1]
        ELSE Append(taken[n - 1], order[n])
  IN taken[Len(order)]

IdsOf(intents) == {i.id : i \in intents}

\* The identity of a decision: _Inputs, which holds no decision time.
InputsOf(intents, master, universe, state) ==
  [intents |-> intents, master |-> master, universe |-> universe, state |-> state]

BlockedDecision(intents, identity, at, reason) ==
  [identity |-> identity, at |-> at, candidates |-> <<>>,
   rejected |-> [i \in IdsOf(intents) |-> reason], reason |-> reason]

\* normalize_intents: the tuple of intents is a set, since it is sorted and
\* repetitions are dropped.
NormalizeIntents(intents, master, universe, state, at) ==
  LET identity == InputsOf(intents, master, universe, state)
      refusal(i) == Refusal(i, master, universe, state, at)
      valid == {i \in intents : refusal(i) = ""}
      candidates == {Candidate(i, master) : i \in valid}
      conflictedIds == IdsOf(Conflicted(candidates))
      selected == Selected(candidates)
      kept == {selected[n].id : n \in DOMAIN selected}
  IN IF ~MetadataAvailable(master, universe, state, at)
     THEN BlockedDecision(intents, identity, at, "NORMALIZATION_METADATA_UNAVAILABLE")
     ELSE IF \E i, j \in intents : i # j /\ i.id = j.id
     THEN BlockedDecision(intents, identity, at, "CONFLICTING_SIGNAL_ID")
     ELSE [identity   |-> identity, at |-> at,
           candidates |-> selected,
           rejected   |-> [id \in IdsOf(intents) \ kept |->
                             LET intent == CHOOSE i \in intents : i.id = id
                             IN IF refusal(intent) # "" THEN refusal(intent)
                                ELSE IF id \in conflictedIds THEN "OPPOSITE_DIRECTION_CONFLICT"
                                ELSE "SAME_SECURITY_DUPLICATE"],
           reason     |-> "NORMALIZED_CONFLICTS_RESOLVED"]
=============================================================================
