----------------------------- MODULE DeskProofs -----------------------------
(***************************************************************************)
(* Theorems about the desk for all settings, listings, requests and        *)
(* supplies: which intents become candidates, which positions a plan       *)
(* proposes, and what the book holds after every approval.                 *)
(***************************************************************************)
EXTENDS Desk, AllocationProofs

-----------------------------------------------------------------------------
(* Candidates. *)

\* What the weights of an intent add up to.
GrossOf(legs) == SumFunction([t \in DOMAIN legs |-> AbsoluteValue(legs[t])])

\* The legs of an intent: some, but few.
FewLegs(legs) ==
  /\ IsFiniteSet(DOMAIN legs) /\ DOMAIN legs # {} /\ Cardinality(DOMAIN legs) + 1 < Quantum
  /\ \A t \in DOMAIN legs : legs[t] \in Int \ {0}

\* The leg of a candidate for a token of its intent.
LegOf(legs, t) ==
  [entity |-> InstrumentOf(Master, t).entity, sector |-> InstrumentOf(Master, t).sector,
   weight |-> Rounded(legs[t] * One, GrossOf(legs))]

\* Every token of an intent is another security, and has a weight after rounding.
Distinguished(legs) ==
  /\ \A t, u \in DOMAIN legs : InstrumentOf(Master, t).entity = InstrumentOf(Master, u).entity => t = u
  /\ \A t \in DOMAIN legs : LegOf(legs, t).weight # 0

\* The weights of an intent add up to something, and none is beyond it.
LEMMA GrossIsPositive ==
  ASSUME NEW legs, FewLegs(legs)
  PROVE  GrossOf(legs) \in Nat \ {0} /\ \A t \in DOMAIN legs : AbsoluteValue(legs[t]) <= GrossOf(legs)
  <1> DEFINE S == DOMAIN legs
             f == [t \in S |-> AbsoluteValue(legs[t])]
  <1>1. GrossOf(legs) = SumFunctionOnSet(f, S)
    BY DEF GrossOf, SumFunction
  <1>2. IsFiniteSet(S) /\ S # {}
    BY DEF FewLegs
  <1>3. \A t \in S : f[t] \in Nat \ {0} /\ f[t] = AbsoluteValue(legs[t])
    BY DEF FewLegs, AbsoluteValue
  <1> HIDE DEF f, S
  <1>4. \A t \in S : GrossOf(legs) \in Nat \ {0} /\ f[t] <= GrossOf(legs)
    <2> TAKE t \in S
    <2> DEFINE R == S \ {t}
    <2>1. SumFunctionOnSet(f, S) = f[t] + SumFunctionOnSet(f, R)
      BY <1>2, <1>3, SumWithout
    <2>2. R \subseteq S
      OBVIOUS
    <2> HIDE DEF R
    <2>3. IsFiniteSet(R) /\ \A u \in R : f[u] \in Nat
      BY <1>2, <1>3, <2>2, FS_Subset
    <2>4. SumFunctionOnSet(f, R) \in Nat
      BY <2>3, SumIsNatural
    <2>5. f[t] \in Nat \ {0}
      BY <1>3
    <2> QED
      BY <1>1, <2>1, <2>4, <2>5
  <1>5. PICK t : t \in S
    BY <1>2
  <1>6. GrossOf(legs) \in Nat \ {0}
    BY <1>4, <1>5
  <1>7. \A u \in S : AbsoluteValue(legs[u]) <= GrossOf(legs)
    BY <1>3, <1>4
  <1> QED
    BY <1>6, <1>7 DEF S

\* A weight is in proportion to the intent but for half a part, on its side, and no
\* larger than the whole.
LEMMA WeightsInProportion ==
  ASSUME NEW legs, FewLegs(legs), NEW t \in DOMAIN legs
  PROVE  LET w == LegOf(legs, t).weight
         IN /\ w \in Int /\ Within(2 * (GrossOf(legs) * w), 2 * (One * legs[t]), GrossOf(legs))
            /\ (legs[t] > 0 => w >= 0) /\ (legs[t] < 0 => w <= 0)
            /\ AbsoluteValue(w) \in Nat /\ AbsoluteValue(w) <= One
            /\ Within(2 * (GrossOf(legs) * AbsoluteValue(w)), 2 * (One * AbsoluteValue(legs[t])), GrossOf(legs))
  <1> DEFINE g == GrossOf(legs)
             x == legs[t]
             w == LegOf(legs, t).weight
             p == x * One
  <1>1. g \in Nat \ {0} /\ AbsoluteValue(x) <= g
    BY GrossIsPositive
  <1>2. x \in Int \ {0} /\ One \in Nat \ {0}
    BY UnitsArePositive DEF FewLegs
  <1>3. w = Rounded(p, g)
    BY DEF LegOf
  <1> HIDE DEF g, x, w
  <1>4. p \in Int /\ p = One * x /\ (x > 0 => p > 0) /\ (x < 0 => p < 0)
    BY <1>2
  <1>5. p <= g * One /\ g * (-One) <= p /\ -One \in Int
    <2>1. x <= g /\ -x <= g
      BY <1>1, <1>2 DEF AbsoluteValue
    <2>2. g - x \in Nat /\ g + x \in Nat
      BY <1>1, <1>2, <2>1
    <2>3. (g - x) * One >= 0 /\ (g + x) * One >= 0
      BY <1>2, <2>2
    <2>4. (g - x) * One = g * One - x * One /\ (g + x) * One = g * One + x * One /\ g * (-One) = -(g * One)
      BY <1>1, <1>2
    <2> QED
      BY <1>1, <1>2, <2>3, <2>4
  <1> HIDE DEF p
  <1>6. w \in Int /\ Within(2 * (g * w), 2 * p, g)
    BY <1>1, <1>3, <1>4, RoundingIsNear
  <1>7. w <= One
    BY <1>1, <1>2, <1>3, <1>4, <1>5, RoundedBetween
  <1>8. -One <= w
    <2> DEFINE m == -One
    <2>1. m \in Int /\ g * m <= p
      BY <1>5
    <2> HIDE DEF m
    <2>2. m <= Rounded(p, g)
      BY <1>1, <1>4, <2>1, RoundedBetween
    <2> QED
      BY <1>3, <2>2 DEF m
  <1>9. (x > 0 => w >= 0) /\ (x < 0 => w <= 0)
    <2> DEFINE m == 0
    <2>1. m \in Int /\ g * m = 0
      BY <1>1
    <2> HIDE DEF m
    <2>2. (p <= g * m => Rounded(p, g) <= m) /\ (g * m <= p => m <= Rounded(p, g))
      BY <1>1, <1>4, <2>1, RoundedBetween
    <2> QED
      BY <1>2, <1>3, <1>4, <2>1, <2>2 DEF m
  <1>10. AbsoluteValue(w) \in Nat /\ AbsoluteValue(w) <= One
    BY <1>2, <1>6, <1>7, <1>8 DEF AbsoluteValue
  <1>11. Within(2 * (g * AbsoluteValue(w)), 2 * (One * AbsoluteValue(x)), g)
    <2>1. g * w \in Int /\ g * (-w) = -(g * w) /\ One * (-x) = -(One * x)
      BY <1>1, <1>2, <1>6
    <2>2. CASE x > 0
      <3>2. w \in Int /\ w >= 0 /\ x \in Int /\ x > 0
        BY <1>2, <1>6, <1>9, <2>2
      <3>1. AbsoluteValue(w) = w /\ AbsoluteValue(x) = x
        BY <3>2 DEF AbsoluteValue
      <3> QED
        BY <1>4, <1>6, <3>1
    <2>3. CASE x < 0
      <3>1. w \in Int /\ w <= 0 /\ x \in Int /\ x < 0
        BY <1>2, <1>6, <1>9, <2>3
      <3>2. AbsoluteValue(w) = -w
        BY <3>1 DEF AbsoluteValue
      <3>3. AbsoluteValue(x) = -x
        BY <3>1 DEF AbsoluteValue
      <3> QED
        BY <1>1, <1>4, <1>6, <2>1, <3>2, <3>3 DEF Within
    <2> QED
      BY <1>2, <2>2, <2>3
  <1> QED
    BY <1>4, <1>6, <1>9, <1>10, <1>11 DEF g, x, w

\* The legs of a candidate are each of another security, as many as the intent has, and
\* weigh one together but for half a part each.
LEMMA CandidateLegs ==
  ASSUME NEW i, FewLegs(i.legs), Distinguished(i.legs)
  PROVE  LET c == Candidate(i, Master)
         IN /\ c.id = i.id /\ c.alpha = i.alpha /\ c.at = i.at /\ c.strength = Strength(i)
            /\ c.legs = {LegOf(i.legs, t) : t \in DOMAIN i.legs}
            /\ c.legs # {} /\ Legs(c.legs) /\ Cardinality(c.legs) + 1 < Quantum
            /\ 2 * Weigh(c.legs) <= 2 * One + Cardinality(c.legs)
  <1> DEFINE S == DOMAIN i.legs
             G == GrossOf(i.legs)
             h == [t \in S |-> LegOf(i.legs, t)]
             legs == {h[t] : t \in S}
             x == [t \in S |-> AbsoluteValue(i.legs[t])]
             q == [t \in S |-> AbsoluteValue(LegOf(i.legs, t).weight)]
             w == [leg \in legs |-> AbsoluteValue(leg.weight)]
             ox == [t \in S |-> One * x[t]]
  <1>1. /\ Candidate(i, Master).id = i.id /\ Candidate(i, Master).alpha = i.alpha
        /\ Candidate(i, Master).at = i.at /\ Candidate(i, Master).strength = Strength(i)
        /\ Candidate(i, Master).legs = {LegOf(i.legs, t) : t \in DOMAIN i.legs}
    BY DEF Candidate, LegWeight, LegOf, GrossOf
  <1>2. legs = {LegOf(i.legs, t) : t \in DOMAIN i.legs}
    OBVIOUS
  <1>3. IsFiniteSet(S) /\ S # {} /\ Cardinality(S) + 1 < Quantum
    BY DEF FewLegs
  <1>4. \A t \in S : /\ LegOf(i.legs, t).weight \in Int \ {0} /\ q[t] \in Nat /\ q[t] <= One /\ x[t] \in Nat
                     /\ q[t] = AbsoluteValue(h[t].weight) /\ Within(2 * (G * q[t]), 2 * (One * x[t]), G)
    <2> TAKE t \in S
    <2> DEFINE v == LegOf(i.legs, t).weight
    <2>1. v \in Int /\ AbsoluteValue(v) \in Nat /\ AbsoluteValue(v) <= One
      BY WeightsInProportion
    <2>2. Within(2 * (GrossOf(i.legs) * AbsoluteValue(v)), 2 * (One * AbsoluteValue(i.legs[t])), GrossOf(i.legs))
      BY WeightsInProportion
    <2>3. v # 0
      BY DEF Distinguished
    <2>4. q[t] = AbsoluteValue(v) /\ x[t] = AbsoluteValue(i.legs[t]) /\ h[t].weight = v
      OBVIOUS
    <2>5. AbsoluteValue(i.legs[t]) \in Nat
      BY MagnitudeIsNatural DEF FewLegs
    <2> HIDE DEF q, x, v, h
    <2> QED
      BY <2>1, <2>2, <2>3, <2>4, <2>5 DEF v
  <1>5. G \in Nat \ {0} /\ One \in Nat \ {0}
    BY GrossIsPositive, UnitsArePositive
  <1>6. \A t, u \in S : h[t].entity = h[u].entity => t = u
    BY DEF LegOf, Distinguished
  <1>7. \A t \in S : w[h[t]] = q[t]
    OBVIOUS
  <1>18. \A t \in S : ox[t] = One * x[t]
    OBVIOUS
  <1>8. Weigh(legs) = SumFunctionOnSet(w, legs) /\ G = SumFunctionOnSet(x, S)
    BY DEF Weigh, SumFunction, GrossOf
  <1>9. \A t \in S : h[t].weight \in Int \ {0} /\ AbsoluteValue(h[t].weight) <= One
    <2> TAKE t \in S
    <2>1. h[t].weight = LegOf(i.legs, t).weight
      OBVIOUS
    <2>2. LegOf(i.legs, t).weight \in Int \ {0} /\ q[t] <= One /\ q[t] = AbsoluteValue(h[t].weight)
      BY <1>4
    <2> HIDE DEF h, q
    <2> QED
      BY <2>1, <2>2
  <1>10. h \in [S -> legs]
    OBVIOUS
  <1> HIDE DEF w, q, x, G, ox, h, S
  <1>11. \A t, u \in S : h[t] = h[u] => t = u
    BY <1>6
  <1>12. IsFiniteSet(legs) /\ SumFunctionOnSet(w, legs) = SumFunctionOnSet(q, S)
    <2>1. \A t \in S : q[t] \in Int
      BY <1>4
    <2>2. IsFiniteSet(S)
      BY <1>3
    <2> QED
      BY <1>7, <1>11, <2>1, <2>2, SumsCorrespond
  <1>13. Legs(legs) /\ legs # {}
    BY <1>3, <1>6, <1>9, <1>12 DEF Legs
  <1>14. Cardinality(legs) = Cardinality(S) /\ Cardinality(S) \in Nat
    <2>1. h \in Surjection(S, legs)
      BY <1>10 DEF Surjection
    <2>2. h \in Injection(S, legs)
      BY <1>10, <1>11 DEF Injection, IsInjective
    <2> HIDE DEF legs
    <2>3. Cardinality(legs) = Cardinality(S)
      BY <1>3, <2>1, <2>2, FS_Surjection
    <2> QED
      BY <1>3, <2>3, FS_CardinalityType
  <1> DEFINE total == SumFunctionOnSet(q, S)
             k == Cardinality(S)
  <1>15. SumFunctionOnSet(ox, S) = One * G
    <2>1. One \in Int /\ \A t \in S : x[t] \in Int
      BY <1>4, <1>5
    <2> QED
      BY <1>3, <1>18, <1>8, <2>1, SumOfMultiples
  <1>16. total \in Int /\ Within(2 * (G * total), 2 * (One * G), G * k)
    <2>1. \A t \in S : ox[t] \in Int /\ q[t] \in Int /\ Within(2 * (G * q[t]), 2 * ox[t], G)
      <3> TAKE t \in S
      <3>1. q[t] \in Nat /\ x[t] \in Nat /\ Within(2 * (G * q[t]), 2 * (One * x[t]), G) /\ ox[t] = One * x[t]
        BY <1>4, <1>18
      <3>2. One * x[t] \in Int
        BY <1>5, <3>1
      <3> QED
        BY <3>1, <3>2
    <2>2. G \in Nat
      BY <1>5
    <2>3. Within(2 * (G * total), 2 * SumFunctionOnSet(ox, S), G * k)
      BY <1>3, <2>1, <2>2, SumsNear
    <2>4. total \in Int
      BY <1>3, <2>1, SumIsInteger
    <2> QED
      BY <1>15, <2>3, <2>4
  <1> HIDE DEF total, k
  <1>17. 2 * total <= 2 * One + k
    <2>1. k \in Nat
      BY <1>14 DEF k
    <2>2. 2 * (G * total) <= 2 * (One * G) + G * k
      BY <1>16 DEF Within
    <2> SUFFICES ASSUME 2 * total > 2 * One + k PROVE FALSE
      BY <1>5, <1>16, <2>1
    <2>3. 2 * total - 2 * One - k - 1 \in Nat
      BY <1>5, <1>16, <2>1
    <2>4. G * (2 * total - 2 * One - k - 1) >= 0
      BY <1>5, <2>3
    <2>5. G * (2 * total - 2 * One - k - 1) = 2 * (G * total) - 2 * (One * G) - G * k - G
      BY <1>5, <1>16, <2>1
    <2>6. G * total \in Int /\ One * G \in Int /\ G * k \in Int
      BY <1>5, <1>16, <2>1
    <2> QED
      BY <1>5, <2>2, <2>4, <2>5, <2>6
  <1> HIDE DEF legs
  <1> QED
    BY <1>1, <1>2, <1>3, <1>8, <1>12, <1>13, <1>14, <1>17 DEF total, k

-----------------------------------------------------------------------------
(* Normalization: from intents to candidates. *)

\* Candidates that can be ordered: by strength, those as strong by their ids.
Ranked(S) ==
  /\ IsFiniteSet(S) /\ \A c \in S : c.strength \in Int /\ c.id \in Int
  /\ \A c, d \in S : c.id = d.id => c = d

\* Those in S that are stronger than c.
StrongerIn(S, c) == {d \in S : Stronger(d, c)}

\* One of two candidates is stronger, and who is stronger than the stronger one is
\* stronger than the weaker one.
LEMMA StrengthOrders ==
  ASSUME NEW S, Ranked(S)
  PROVE  /\ \A c \in S : ~Stronger(c, c)
         /\ \A c, d \in S : c # d => Stronger(c, d) \/ Stronger(d, c)
         /\ \A c, d \in S : ~(Stronger(c, d) /\ Stronger(d, c))
         /\ \A c, d, e \in S : Stronger(c, d) /\ Stronger(d, e) => Stronger(c, e)
  BY DEF Ranked, Stronger

\* Candidates differ in how many are stronger, so ByStrength lists all of them, the
\* stronger ones first.
LEMMA StrengthRanks ==
  ASSUME NEW S, Ranked(S)
  PROVE  /\ Cardinality(S) \in Nat
         /\ \A c \in S : IsFiniteSet(StrongerIn(S, c)) /\ Cardinality(StrongerIn(S, c)) \in 0 .. Cardinality(S) - 1
         /\ \A c, d \in S : Stronger(c, d) <=> Cardinality(StrongerIn(S, c)) < Cardinality(StrongerIn(S, d))
         /\ \A i \in 1 .. Cardinality(S) : \E c \in S : Cardinality(StrongerIn(S, c)) = i - 1
  <1> DEFINE n == Cardinality(S)
             rank == [c \in S |-> Cardinality(StrongerIn(S, c))]
  <1>0. IsFiniteSet(S)
    BY DEF Ranked
  <1>1. n \in Nat
    BY <1>0, FS_CardinalityType
  <1>2. \A c \in S : IsFiniteSet(StrongerIn(S, c)) /\ rank[c] \in 0 .. n - 1
    <2> TAKE c \in S
    <2>1. IsFiniteSet(S \ {c}) /\ Cardinality(S \ {c}) = n - 1
      BY <1>0, FS_RemoveElement
    <2>2. StrongerIn(S, c) \in SUBSET (S \ {c})
      BY StrengthOrders DEF StrongerIn
    <2>3. IsFiniteSet(StrongerIn(S, c)) /\ Cardinality(StrongerIn(S, c)) <= n - 1
      BY <2>1, <2>2, FS_Subset
    <2>4. Cardinality(StrongerIn(S, c)) \in Nat
      BY <2>3, FS_CardinalityType
    <2> QED
      BY <1>1, <2>3, <2>4
  <1>3. \A c, d \in S : Stronger(c, d) => rank[c] < rank[d]
    <2> SUFFICES ASSUME NEW c \in S, NEW d \in S, Stronger(c, d) PROVE rank[c] < rank[d]
      OBVIOUS
    <2>1. StrongerIn(S, c) \in SUBSET StrongerIn(S, d) /\ c \in StrongerIn(S, d) /\ c \notin StrongerIn(S, c)
      BY StrengthOrders DEF StrongerIn
    <2>2. /\ Cardinality(StrongerIn(S, c)) <= Cardinality(StrongerIn(S, d))
          /\ Cardinality(StrongerIn(S, c)) # Cardinality(StrongerIn(S, d))
      BY <1>2, <2>1, FS_Subset
    <2> QED
      BY <1>1, <1>2, <2>2
  <1>4. \A c, d \in S : Stronger(c, d) <=> rank[c] < rank[d]
    <2> SUFFICES ASSUME NEW c \in S, NEW d \in S, rank[c] < rank[d] PROVE Stronger(c, d)
      BY <1>3
    <2>1. rank[c] \in Int /\ rank[d] \in Int
      BY <1>2
    <2>2. ~(rank[d] < rank[c]) /\ ~(rank[c] < rank[c])
      BY <2>1
    <2>3. c # d /\ ~Stronger(d, c)
      <3> HIDE DEF rank
      <3> QED
        BY <1>3, <2>2
    <2> QED
      BY <2>3, StrengthOrders
  <1>5. rank \in Injection(S, 0 .. n - 1)
    <2>2. rank \in [S -> 0 .. n - 1]
      BY <1>2
    <2>3. \A c, d \in S : rank[c] = rank[d] => c = d
      <3>1. \A c, d \in S : c # d => Stronger(c, d) \/ Stronger(d, c)
        BY StrengthOrders
      <3> HIDE DEF rank
      <3> QED
        BY <1>1, <1>3, <2>2, <3>1
    <2> QED
      BY <2>2, <2>3 DEF Injection, IsInjective
  <1>6. rank \in Surjection(S, 0 .. n - 1)
    <2>1. IsFiniteSet(0 .. n - 1) /\ Cardinality(0 .. n - 1) = n
      BY <1>1, FS_Interval
    <2> HIDE DEF rank, n
    <2> QED
      BY <1>0, <1>5, <2>1, FS_Injection DEF n
  <1>7. \A i \in 1 .. n : \E c \in S : Cardinality(StrongerIn(S, c)) = i - 1
    <2> TAKE i \in 1 .. n
    <2>1. i - 1 \in 0 .. n - 1
      BY <1>1
    <2>2. PICK c \in S : rank[c] = i - 1
      BY <1>6, <2>1 DEF Surjection
    <2> QED
      BY <2>2
  <1> QED
    BY <1>1, <1>2, <1>4, <1>7

\* The list itself.
ListedOnce(order, S) ==
  /\ order \in Seq(S) /\ Len(order) = Cardinality(S)
  /\ \A i \in 1 .. Len(order) : Cardinality(StrongerIn(S, order[i])) = i - 1
  /\ \A i, j \in 1 .. Len(order) : i < j => Stronger(order[i], order[j])
  /\ \A c \in S : \E i \in 1 .. Len(order) : order[i] = c

\* ByStrength lists every candidate once, stronger ones first.
LEMMA ByStrengthLists ==
  ASSUME NEW S, Ranked(S)
  PROVE  ListedOnce(ByStrength(S), S)
  <1> DEFINE n == Cardinality(S)
             order == ByStrength(S)
             size(c) == Cardinality(StrongerIn(S, c))
  <1>1. /\ n \in Nat /\ \A c \in S : size(c) \in 0 .. n - 1
        /\ \A c, d \in S : Stronger(c, d) <=> size(c) < size(d)
        /\ \A i \in 1 .. n : \E c \in S : size(c) = i - 1
    BY StrengthRanks
  <1>2. order = [i \in 1 .. n |-> CHOOSE c \in S : size(c) = i - 1]
    BY DEF ByStrength, StrongerIn
  <1> HIDE DEF order, size, n
  <1>3. \A i \in 1 .. n : order[i] \in S /\ size(order[i]) = i - 1
    <2> TAKE i \in 1 .. n
    <2>1. order[i] = CHOOSE c \in S : size(c) = i - 1
      BY <1>2
    <2>2. \E c \in S : size(c) = i - 1
      BY <1>1
    <2> QED
      BY <2>1, <2>2
  <1>4. order \in [1 .. n -> S]
    BY <1>2, <1>3
  <1>5. order \in Seq(S) /\ Len(order) = n
    BY <1>1, <1>4
  <1>6. \A i, j \in 1 .. n : i < j => Stronger(order[i], order[j])
    <2> SUFFICES ASSUME NEW i \in 1 .. n, NEW j \in 1 .. n, i < j PROVE Stronger(order[i], order[j])
      OBVIOUS
    <2>1. size(order[i]) = i - 1 /\ size(order[j]) = j - 1 /\ order[i] \in S /\ order[j] \in S
      BY <1>3
    <2>2. size(order[i]) < size(order[j])
      BY <1>1, <2>1
    <2> QED
      BY <1>1, <2>1, <2>2
  <1>7. \A c \in S : \E i \in 1 .. n : order[i] = c
    <2> TAKE c \in S
    <2> DEFINE i == size(c) + 1
    <2>1. size(c) \in 0 .. n - 1
      BY <1>1
    <2>2. i \in 1 .. n /\ i - 1 = size(c)
      BY <1>1, <2>1
    <2>3. order[i] \in S /\ size(order[i]) = size(c)
      BY <1>3, <2>2
    <2>4. ~Stronger(c, order[i]) /\ ~Stronger(order[i], c)
      BY <1>1, <2>1, <2>3
    <2>5. order[i] = c
      BY <2>3, <2>4, StrengthOrders
    <2> QED
      BY <2>2, <2>5
  <1> QED
    BY <1>3, <1>5, <1>6, <1>7 DEF ListedOnce, order, size, n

\* The selection, candidate by candidate; it shares no security with what it has.
Overlaps(c, chosen) == \E i \in DOMAIN chosen : EntitiesOf(c) \cap EntitiesOf(chosen[i]) # {}
Run(order, n, taken) ==
  taken = [k \in 0 .. n |->
             IF k = 0 THEN <<>>
             ELSE IF Overlaps(order[k], taken[k - 1]) THEN taken[k - 1]
             ELSE Append(taken[k - 1], order[k])]

\* The selection comes to an end.
LEMMA RunEnds ==
  ASSUME NEW order, NEW n \in Nat
  PROVE  \E taken : Run(order, n, taken)
  <1> DEFINE bad == {k \in Nat : ~\E taken : Run(order, k, taken)}
             turn(taken, k) == IF Overlaps(order[k], taken[k - 1]) THEN taken[k - 1]
                               ELSE Append(taken[k - 1], order[k])
  <1> SUFFICES ASSUME bad # {} PROVE FALSE
    OBVIOUS
  <1>1. PICK k \in bad : \A j \in bad : k <= j
    <2>1. bad \in SUBSET Nat
      OBVIOUS
    <2> HIDE DEF bad
    <2> QED
      BY <2>1, MinOfNaturals
  <1>2. k \in Nat /\ ~\E taken : Run(order, k, taken)
    BY <1>1
  <1>3. \A j, taken : Run(order, j, taken) <=> taken = [i \in 0 .. j |-> IF i = 0 THEN <<>> ELSE turn(taken, i)]
    BY DEF Run
  <1>4. CASE k = 0
    <2> DEFINE taken == [i \in 0 .. 0 |-> <<>>]
    <2>1. \A i \in 0 .. 0 : i = 0
      OBVIOUS
    <2> HIDE DEF turn
    <2>2. taken = [i \in 0 .. 0 |-> IF i = 0 THEN <<>> ELSE turn(taken, i)]
      BY <2>1
    <2> QED
      BY <1>2, <1>3, <1>4, <2>2
  <1>5. CASE k # 0
    <2>1. k - 1 \in Nat /\ k - 1 < k
      BY <1>2, <1>5
    <2>2. k - 1 \notin bad
      <3> HIDE DEF bad
      <3> QED
        BY <1>1, <1>2, <2>1
    <2>3. PICK before : Run(order, k - 1, before)
      BY <2>1, <2>2
    <2> DEFINE taken == [i \in 0 .. k |-> IF i = k THEN turn(before, k) ELSE before[i]]
    <2>4. before = [i \in 0 .. k - 1 |-> IF i = 0 THEN <<>> ELSE turn(before, i)]
      BY <1>3, <2>3
    <2>5. taken = [i \in 0 .. k |-> IF i = 0 THEN <<>> ELSE turn(taken, i)]
      <3>1. \A i \in 0 .. k : taken[i] = IF i = 0 THEN <<>> ELSE turn(taken, i)
        <4> TAKE i \in 0 .. k
        <4>1. CASE i = k
          <5>1. k - 1 \in 0 .. k /\ k - 1 # k
            BY <1>2, <2>1
          <5>2. taken[k - 1] = before[k - 1]
            BY <5>1
          <5> QED
            BY <1>5, <4>1, <5>2
        <4>2. CASE i # k /\ i = 0
          <5>1. i \in 0 .. k - 1
            BY <1>2, <2>1, <4>2
          <5>2. before[i] = <<>>
            BY <2>4, <4>2, <5>1
          <5> QED
            BY <4>2, <5>2
        <4>3. CASE i # k /\ i # 0
          <5>1. i \in 0 .. k - 1 /\ i - 1 \in 0 .. k /\ i - 1 # k
            BY <1>2, <4>3
          <5>2. before[i] = turn(before, i)
            <6> HIDE DEF turn
            <6> QED
              BY <2>4, <4>3, <5>1
          <5>3. taken[i - 1] = before[i - 1]
            BY <5>1
          <5> QED
            BY <4>3, <5>2, <5>3
        <4> QED
          BY <4>1, <4>2, <4>3
      <3>2. DOMAIN taken = 0 .. k /\ taken = [i \in 0 .. k |-> taken[i]]
        OBVIOUS
      <3> HIDE DEF turn, taken
      <3> QED
        BY <3>1, <3>2
    <2> QED
      BY <1>2, <1>3, <2>5
  <1> QED
    BY <1>4, <1>5

\* What normalize_intents selects is where the run over its list ends.
LEMMA SelectedRuns ==
  ASSUME NEW V, Len(ByStrength(V \ Conflicted(V))) \in Nat
  PROVE  LET order == ByStrength(V \ Conflicted(V))
         IN \E taken : Run(order, Len(order), taken) /\ Selected(V) = taken[Len(order)]
  <1> DEFINE order == ByStrength(V \ Conflicted(V))
             taken == CHOOSE taken : Run(order, Len(order), taken)
  <1>1. Selected(V) = taken[Len(order)]
    BY DEF Selected, Run, Overlaps
  <1>2. Run(order, Len(order), taken)
    BY RunEnds
  <1> QED
    BY <1>1, <1>2

\* The members of a list.
RangeOf(s) == {s[i] : i \in DOMAIN s}

\* What the selection keeps of the first n: all that overlap nothing kept before.
Keeps(order, taken, S, n) ==
  /\ taken[n] \in Seq(S)
  /\ \A x : x \in RangeOf(taken[n]) <=> \E k \in 1 .. n : x = order[k] /\ ~Overlaps(order[k], taken[k - 1])

\* A run has after n candidates those that shared no security with what was selected before them.
LEMMA RunKeeps ==
  ASSUME NEW S, NEW order \in Seq(S), NEW taken, Run(order, Len(order), taken)
  PROVE  \A n \in 0 .. Len(order) : Keeps(order, taken, S, n)
  <1> DEFINE L == Len(order)
             bad == {n \in Nat : n <= L /\ ~Keeps(order, taken, S, n)}
  <1>1. L \in Nat /\ \A k \in 1 .. L : order[k] \in S
    OBVIOUS
  <1>2. /\ taken[0] = <<>>
        /\ \A n \in 0 .. L : n # 0 => taken[n] = IF Overlaps(order[n], taken[n - 1]) THEN taken[n - 1]
                                                ELSE Append(taken[n - 1], order[n])
    <2> DEFINE turn(n) == IF Overlaps(order[n], taken[n - 1]) THEN taken[n - 1] ELSE Append(taken[n - 1], order[n])
    <2>1. taken = [n \in 0 .. L |-> IF n = 0 THEN <<>> ELSE turn(n)]
      BY DEF Run
    <2> HIDE DEF turn
    <2>2. taken[0] = <<>> /\ \A n \in 0 .. L : n # 0 => taken[n] = turn(n)
      BY <1>1, <2>1
    <2> QED
      BY <2>2 DEF turn
  <1>3. Keeps(order, taken, S, 0)
    BY <1>2 DEF Keeps, RangeOf
  <1>4. \A n \in 0 .. L : n # 0 /\ Keeps(order, taken, S, n - 1) => Keeps(order, taken, S, n)
    <2> SUFFICES ASSUME NEW n \in 0 .. L, n # 0, Keeps(order, taken, S, n - 1) PROVE Keeps(order, taken, S, n)
      OBVIOUS
    <2> DEFINE s == taken[n - 1]
               c == order[n]
    <2>1. n \in 1 .. L /\ c \in S /\ n - 1 \in Nat
      BY <1>1
    <2>2. s \in Seq(S)
      BY DEF Keeps
    <2>3. \A k : k \in 1 .. n <=> k \in 1 .. n - 1 \/ k = n
      BY <2>1
    <2>4. \A x : x \in RangeOf(s) <=> \E k \in 1 .. n - 1 : x = order[k] /\ ~Overlaps(order[k], taken[k - 1])
      BY DEF Keeps
    <2>5. CASE Overlaps(c, s)
      <3>1. taken[n] = s
        BY <1>2, <2>5
      <3>2. \A x : x \in RangeOf(s) <=> \E k \in 1 .. n : x = order[k] /\ ~Overlaps(order[k], taken[k - 1])
        BY <2>3, <2>4, <2>5
      <3> HIDE DEF s, c
      <3> QED
        BY <2>2, <3>1, <3>2 DEF Keeps
    <2>6. CASE ~Overlaps(c, s)
      <3>1. taken[n] = Append(s, c)
        BY <1>2, <2>6
      <3> DEFINE t == Append(s, c)
      <3>2. t \in Seq(S) /\ \A x : x \in RangeOf(t) <=> x \in RangeOf(s) \/ x = c
        <4> HIDE DEF s, c
        <4>1. t \in Seq(S) /\ Len(t) = Len(s) + 1 /\ Len(s) \in Nat /\ DOMAIN s = 1 .. Len(s) /\ DOMAIN t = 1 .. Len(t)
          BY <2>1, <2>2
        <4>2. \A i \in 1 .. Len(s) : t[i] = s[i]
          BY <2>1, <2>2
        <4>3. t[Len(s) + 1] = c
          BY <2>1, <2>2
        <4> HIDE DEF t
        <4>4. \A i : i \in DOMAIN t <=> i \in DOMAIN s \/ i = Len(s) + 1
          BY <4>1
        <4> QED
          BY <4>1, <4>2, <4>3, <4>4 DEF RangeOf
      <3>3. \A x : x \in RangeOf(t) <=> \E k \in 1 .. n : x = order[k] /\ ~Overlaps(order[k], taken[k - 1])
        <4> HIDE DEF t
        <4> QED
          BY <2>3, <2>4, <2>6, <3>2
      <3> HIDE DEF s, c, t
      <3> QED
        BY <3>1, <3>2, <3>3 DEF Keeps, t
    <2> QED
      BY <2>5, <2>6
  <1> SUFFICES ASSUME bad # {} PROVE FALSE
    BY <1>1
  <1>5. PICK n \in bad : \A j \in bad : n <= j
    <2>1. bad \in SUBSET Nat
      OBVIOUS
    <2> HIDE DEF bad
    <2> QED
      BY <2>1, MinOfNaturals
  <1>6. n \in Nat /\ n <= L /\ ~Keeps(order, taken, S, n)
    BY <1>5
  <1>7. n # 0
    BY <1>3, <1>6
  <1>8. n \in 0 .. L /\ n - 1 \in Nat /\ n - 1 <= L /\ n - 1 < n
    BY <1>1, <1>6, <1>7
  <1>9. n - 1 \notin bad
    <2> HIDE DEF bad
    <2> QED
      BY <1>5, <1>6, <1>8
  <1>10. Keeps(order, taken, S, n - 1)
    BY <1>8, <1>9
  <1> QED
    BY <1>4, <1>6, <1>7, <1>8, <1>10

\* Two candidates share a security.
Share(c, d) == EntitiesOf(c) \cap EntitiesOf(d) # {}

\* The survivors: no two share a security, and whoever is not among them shares one
\* with a stronger one that is.
Survivors(s, S) ==
  /\ s \in Seq(S)
  /\ \A c, d \in RangeOf(s) : c # d => ~Share(c, d)
  /\ \A c \in S : c \in RangeOf(s) \/ \E d \in RangeOf(s) : Stronger(d, c) /\ Share(d, c)

\* A run over candidates in the order of their strength ends with the survivors.
LEMMA RunSurvivors ==
  ASSUME NEW S, NEW order, ListedOnce(order, S), NEW taken, Run(order, Len(order), taken)
  PROVE  Survivors(taken[Len(order)], S)
  <1> DEFINE L == Len(order)
             s == taken[L]
  <1>1. /\ order \in Seq(S) /\ L \in Nat
        /\ \A i, j \in 1 .. L : i < j => Stronger(order[i], order[j])
        /\ \A c \in S : \E i \in 1 .. L : order[i] = c
    BY DEF ListedOnce
  <1>2. \A n \in 0 .. L : Keeps(order, taken, S, n)
    BY <1>1, RunKeeps
  <1>3. s \in Seq(S)
    BY <1>1, <1>2 DEF Keeps
  <1>4. \A n \in 0 .. L : \A x :
           x \in RangeOf(taken[n]) <=> \E k \in 1 .. n : x = order[k] /\ ~Overlaps(order[k], taken[k - 1])
    BY <1>2 DEF Keeps
  <1>5. \A c, t : Overlaps(c, t) <=> \E d \in RangeOf(t) : Share(d, c)
    BY DEF Overlaps, RangeOf, Share
  <1>6. \A c, d : Share(c, d) <=> Share(d, c)
    BY DEF Share
  <1>7. \A i, j \in 1 .. L :
           i < j /\ order[i] \in RangeOf(s) /\ order[j] \in RangeOf(s) /\ order[i] # order[j]
           => ~Share(order[i], order[j])
    <2> SUFFICES ASSUME NEW i \in 1 .. L, NEW j \in 1 .. L, i < j, order[i] \in RangeOf(s), order[j] \in RangeOf(s),
                        order[i] # order[j]
                 PROVE  ~Share(order[i], order[j])
      OBVIOUS
    <2>1. L \in 0 .. L
      BY <1>1
    <2>2. PICK k \in 1 .. L : order[i] = order[k] /\ ~Overlaps(order[k], taken[k - 1])
      BY <1>4, <2>1
    <2>3. PICK m \in 1 .. L : order[j] = order[m] /\ ~Overlaps(order[m], taken[m - 1])
      BY <1>4, <2>1
    <2>4. k \in Int /\ m \in Int /\ k # m
      BY <2>2, <2>3
    <2>5. CASE k < m
      <3>1. m - 1 \in 0 .. L /\ k \in 1 .. m - 1
        BY <1>1, <2>4, <2>5
      <3>2. order[k] \in RangeOf(taken[m - 1])
        BY <1>4, <2>2, <3>1
      <3> QED
        BY <1>5, <2>2, <2>3, <3>2
    <2>6. CASE m < k
      <3>1. k - 1 \in 0 .. L /\ m \in 1 .. k - 1
        BY <1>1, <2>4, <2>6
      <3>2. order[m] \in RangeOf(taken[k - 1])
        BY <1>4, <2>3, <3>1
      <3> QED
        BY <1>5, <1>6, <2>2, <2>3, <3>2
    <2> QED
      BY <2>4, <2>5, <2>6
  <1>8. \A x \in RangeOf(s) : \E k \in 1 .. L : x = order[k]
    <2>1. L \in 0 .. L
      BY <1>1
    <2> QED
      BY <1>4, <2>1
  <1>9. \A c, d \in RangeOf(s) : c # d => ~Share(c, d)
    <2> SUFFICES ASSUME NEW c \in RangeOf(s), NEW d \in RangeOf(s), c # d PROVE ~Share(c, d)
      OBVIOUS
    <2>1. PICK i \in 1 .. L : c = order[i]
      BY <1>8
    <2>2. PICK j \in 1 .. L : d = order[j]
      BY <1>8
    <2>3. i < j \/ j < i
      BY <2>1, <2>2
    <2> HIDE DEF s
    <2> QED
      BY <1>6, <1>7, <2>1, <2>2, <2>3
  <1>10. \A c \in S : c \in RangeOf(s) \/ \E d \in RangeOf(s) : Stronger(d, c) /\ Share(d, c)
    <2> TAKE c \in S
    <2>1. PICK j \in 1 .. L : order[j] = c
      BY <1>1
    <2>2. L \in 0 .. L /\ j - 1 \in 0 .. L
      BY <1>1
    <2>3. CASE ~Overlaps(order[j], taken[j - 1])
      BY <1>4, <2>1, <2>2, <2>3
    <2>4. CASE Overlaps(order[j], taken[j - 1])
      <3>1. PICK d \in RangeOf(taken[j - 1]) : Share(d, c)
        BY <1>5, <2>1, <2>4
      <3>2. PICK k \in 1 .. j - 1 : d = order[k] /\ ~Overlaps(order[k], taken[k - 1])
        BY <1>4, <2>2, <3>1
      <3>3. k \in 1 .. L /\ k < j
        BY <1>1, <2>1, <3>2
      <3>4. d \in RangeOf(s) /\ Stronger(d, c)
        BY <1>1, <1>4, <2>1, <2>2, <3>2, <3>3
      <3> QED
        BY <3>1, <3>4
    <2> QED
      BY <2>3, <2>4
  <1> HIDE DEF s
  <1> QED
    BY <1>3, <1>9, <1>10 DEF Survivors, s

\* Selection leaves the survivors of those in no conflict.
LEMMA SelectionSurvives ==
  ASSUME NEW V, Ranked(V)
  PROVE  Survivors(Selected(V), V \ Conflicted(V))
  <1> DEFINE K == V \ Conflicted(V)
             order == ByStrength(K)
  <1>1. Ranked(K)
    BY FS_Subset DEF Ranked
  <1> HIDE DEF K
  <1>2. ListedOnce(order, K)
    BY <1>1, ByStrengthLists
  <1>3. Len(order) \in Nat
    BY <1>2 DEF ListedOnce
  <1>4. PICK taken : Run(order, Len(order), taken) /\ Selected(V) = taken[Len(order)]
    BY <1>3, SelectedRuns DEF K
  <1> HIDE DEF order
  <1>5. Survivors(taken[Len(order)], K)
    BY <1>2, <1>4, RunSurvivors
  <1> QED
    BY <1>4, <1>5 DEF K

\* Intents as the alphas make them.
IntentsSound(I) ==
  /\ IsFiniteSet(I)
  /\ \A i \in I : i.id \in Int /\ i.score \in Int /\ FewLegs(i.legs)

\* What normalize_intents resolves: known metadata, distinct ids, what is refused and what is left.
Resolved(I, state, at) ==
  MetadataAvailable(Master, Universe, state, at) /\ \A i, j \in I : i.id = j.id => i = j
RefusalOf(i, state, at) == Refusal(i, Master, Universe, state, at)
ValidOf(I, state, at) == {i \in I : RefusalOf(i, state, at) = ""}
CandidatesFrom(I, state, at) == {Candidate(i, Master) : i \in ValidOf(I, state, at)}

\* The reason that a rejection names.
ReasonFor(id, I, state, at) ==
  LET intent == CHOOSE i \in I : i.id = id
  IN IF RefusalOf(intent, state, at) # "" THEN RefusalOf(intent, state, at)
     ELSE IF id \in IdsOf(Conflicted(CandidatesFrom(I, state, at))) THEN "OPPOSITE_DIRECTION_CONFLICT"
     ELSE "SAME_SECURITY_DUPLICATE"

\* The two outcomes of normalize_intents.
NormalizedFrom(e, I, state, at) ==
  /\ e.identity = InputsOf(I, Master, Universe, state) /\ e.at = at
  /\ Resolved(I, state, at) =>
       /\ e.candidates = Selected(CandidatesFrom(I, state, at))
       /\ e.rejected = [id \in IdsOf(I) \ IdsOf(RangeOf(e.candidates)) |-> ReasonFor(id, I, state, at)]
       /\ e.reason = "NORMALIZED_CONFLICTS_RESOLVED"
  /\ ~Resolved(I, state, at) =>
       /\ e.candidates = <<>> /\ e.reason # "NORMALIZED_CONFLICTS_RESOLVED"
       /\ e.rejected = [id \in IdsOf(I) |-> e.reason]
       /\ e.reason \in {"NORMALIZATION_METADATA_UNAVAILABLE", "CONFLICTING_SIGNAL_ID"}

\* normalize_intents has one of the two outcomes.
LEMMA NormalizeDecides ==
  ASSUME NEW I, NEW state, NEW at
  PROVE  NormalizedFrom(NormalizeIntents(I, Master, Universe, state, at), I, state, at)
  <1> DEFINE e == NormalizeIntents(I, Master, Universe, state, at)
             identity == InputsOf(I, Master, Universe, state)
             known == MetadataAvailable(Master, Universe, state, at)
             twice == \E i, j \in I : i # j /\ i.id = j.id
             V == CandidatesFrom(I, state, at)
             selected == Selected(V)
             kept == {selected[n].id : n \in DOMAIN selected}
             done == [identity |-> identity, at |-> at, candidates |-> selected,
                      rejected |-> [id \in IdsOf(I) \ kept |-> ReasonFor(id, I, state, at)],
                      reason |-> "NORMALIZED_CONFLICTS_RESOLVED"]
  <1>1. e = IF ~known THEN BlockedDecision(I, identity, at, "NORMALIZATION_METADATA_UNAVAILABLE")
            ELSE IF twice THEN BlockedDecision(I, identity, at, "CONFLICTING_SIGNAL_ID")
            ELSE done
    BY DEF NormalizeIntents, CandidatesFrom, ValidOf, RefusalOf, ReasonFor
  <1>2. Resolved(I, state, at) <=> known /\ ~twice
    BY DEF Resolved
  <1>3. \A reason : LET b == BlockedDecision(I, identity, at, reason)
                    IN /\ b.identity = identity /\ b.at = at /\ b.candidates = <<>> /\ b.reason = reason
                       /\ b.rejected = [id \in IdsOf(I) |-> reason]
    BY DEF BlockedDecision
  <1>4. kept = IdsOf(RangeOf(selected))
    BY DEF IdsOf, RangeOf
  <1>5. CASE known /\ ~twice
    <2>1. e = done
      <3> HIDE DEF e, done, known, twice
      <3> QED
        BY <1>1, <1>5
    <2>2. /\ done.identity = identity /\ done.at = at /\ done.candidates = selected
          /\ done.rejected = [id \in IdsOf(I) \ kept |-> ReasonFor(id, I, state, at)]
          /\ done.reason = "NORMALIZED_CONFLICTS_RESOLVED"
      <3> HIDE DEF selected, kept, identity
      <3> QED
        OBVIOUS
    <2> HIDE DEF e, done, known, twice, kept, selected, identity, V
    <2>3. Resolved(I, state, at)
      BY <1>2, <1>5
    <2>4. NormalizedFrom(e, I, state, at) <=>
            /\ e.identity = identity /\ e.at = at /\ e.candidates = Selected(V)
            /\ e.rejected = [id \in IdsOf(I) \ IdsOf(RangeOf(e.candidates)) |-> ReasonFor(id, I, state, at)]
            /\ e.reason = "NORMALIZED_CONFLICTS_RESOLVED"
      BY <2>3 DEF NormalizedFrom, V, identity
    <2>5. NormalizedFrom(e, I, state, at)
      BY <1>4, <2>1, <2>2, <2>4 DEF selected
    <2> QED
      BY <2>5 DEF e
  <1>6. CASE ~(known /\ ~twice)
    <2>1. \E reason \in {"NORMALIZATION_METADATA_UNAVAILABLE", "CONFLICTING_SIGNAL_ID"} :
             e = BlockedDecision(I, identity, at, reason)
      <3> HIDE DEF e, known, twice, done
      <3> QED
        BY <1>1, <1>6
    <2>2. PICK reason \in {"NORMALIZATION_METADATA_UNAVAILABLE", "CONFLICTING_SIGNAL_ID"} :
             e = BlockedDecision(I, identity, at, reason)
      BY <2>1
    <2> HIDE DEF e, known, twice, identity
    <2>3. /\ e.identity = identity /\ e.at = at /\ e.candidates = <<>> /\ e.reason = reason
          /\ e.rejected = [id \in IdsOf(I) |-> reason]
      BY <1>3, <2>2
    <2>4. ~Resolved(I, state, at)
      BY <1>2, <1>6
    <2>5. NormalizedFrom(e, I, state, at)
      BY <2>3, <2>4 DEF NormalizedFrom, identity
    <2> QED
      BY <2>5 DEF e
  <1> QED
    BY <1>5, <1>6

\* What an intent that is not refused looks like.
LEMMA NotRefused ==
  ASSUME NEW i, NEW state, NEW at, RefusalOf(i, state, at) = ""
  PROVE  /\ i.alpha \in DOMAIN Registry
         /\ \A t \in DOMAIN i.legs : EligibleLeg(t, i.legs[t], Master, Universe, Day(at))
         /\ UnitGross(i)
  <1> DEFINE unknown == i.alpha \notin DOMAIN Registry
             disabled == ~Registry[i.alpha].enabled
             scored == i.kind = "SIGNAL" /\ ~i.evidence
             exits == i.kind = "PAIR" /\ i.action # "ENTER"
             mismatch == i.kind # "PAIR" /\ i.master # Master.id
             unbound == ~CausallyBound(i, Universe, state, at)
             ineligible == \E t \in DOMAIN i.legs : ~EligibleLeg(t, i.legs[t], Master, Universe, Day(at))
  <1>1. RefusalOf(i, state, at) =
          IF unknown THEN "UNKNOWN_ALPHA"
          ELSE IF disabled THEN "ALPHA_DISABLED"
          ELSE IF scored THEN "SCORED_EVIDENCE_REQUIRED"
          ELSE IF exits THEN "EXIT_IS_NO_ALLOCATION"
          ELSE IF mismatch THEN "MASTER_MISMATCH"
          ELSE IF unbound THEN "CAUSAL_PROVENANCE_MISMATCH"
          ELSE IF ineligible THEN "INELIGIBLE_LEG"
          ELSE IF ~UnitGross(i) THEN "WEIGHTS_WITHOUT_UNIT_GROSS"
          ELSE ""
    BY DEF RefusalOf, Refusal
  <1>2. ~unknown /\ ~ineligible /\ UnitGross(i)
    <2> HIDE DEF unknown, disabled, scored, exits, mismatch, unbound, ineligible
    <2> QED
      BY <1>1
  <1> QED
    BY <1>2

\* Strengths are between 0 and 1.
LEMMA StrengthIsNatural ==
  ASSUME NEW i, i.score \in Int, i.alpha \in DOMAIN Registry
  PROVE  Strength(i) \in Nat /\ Strength(i) <= One
  <1> DEFINE r == Registry[i.alpha]
             score == IF i.kind = "PAIR" THEN Min({ScoreUnit, i.score}) ELSE i.score
             x == (score - r.floor) * One
             y == r.ceiling - r.floor
             q == Rounded(x, y)
             least == Min({One, q})
  <1>1. \A a, b \in Int : Min({a, b}) \in Int
    <2> TAKE a, b \in Int
    <2>1. \E m \in {a, b} : \A n \in {a, b} : m <= n
      OBVIOUS
    <2>2. Min({a, b}) \in {a, b}
      BY <2>1 DEF Min
    <2> QED
      BY <2>2
  <1>2. ScoreUnit \in Int /\ One \in Nat \ {0} /\ r.floor \in Int /\ y \in Nat \ {0}
    BY RegistryLoads
  <1>3. score \in Int
    BY <1>1, <1>2
  <1> HIDE DEF score
  <1>4. x \in Int
    BY <1>2, <1>3
  <1> HIDE DEF x, y
  <1>5. q \in Int
    BY <1>2, <1>4, RoundingIsNear
  <1> HIDE DEF q
  <1>6. least \in Int /\ least <= One
    <2>1. \A a, b \in Int : Min({a, b}) <= a
      <3> TAKE a, b \in Int
      <3>1. \E m \in {a, b} : \A n \in {a, b} : m <= n
        OBVIOUS
      <3> QED
        BY <3>1 DEF Min
    <2> QED
      BY <1>1, <1>2, <1>5, <2>1
  <1>7. Strength(i) = Max({0, least})
    BY DEF Strength, least, q, x, y, score
  <1> HIDE DEF least
  <1>8. /\ Max({0, least}) = 0 \/ Max({0, least}) = least
        /\ Max({0, least}) \in Int /\ 0 <= Max({0, least})
    <2>1. least \in Int
      BY <1>6
    <2>2. Max({0, least}) \in {0, least} /\ 0 <= Max({0, least})
      BY ONLY <2>1, MaxOfTwo
    <2> QED
      BY <2>1, <2>2
  <1>10. Max({0, least}) <= One
    BY <1>2, <1>6, <1>8
  <1> QED
    BY <1>7, <1>8, <1>10

\* Zero is no weight.
LEMMA NothingIsZero == AbsoluteValue(0) = 0
  BY DEF AbsoluteValue

\* The candidate of an intent that is not refused.
LEMMA ValidCandidate ==
  ASSUME NEW i, i.id \in Int, i.score \in Int, FewLegs(i.legs), NEW state, NEW at,
         MetadataAvailable(Master, Universe, state, at), RefusalOf(i, state, at) = ""
  PROVE  /\ Distinguished(i.legs) /\ SoundCandidate(Candidate(i, Master))
         /\ Candidate(i, Master).id = i.id /\ Candidate(i, Master).strength \in Int
         /\ Candidate(i, Master).legs = {LegOf(i.legs, t) : t \in DOMAIN i.legs}
  <1>1. /\ i.alpha \in DOMAIN Registry
        /\ \A t \in DOMAIN i.legs : EligibleLeg(t, i.legs[t], Master, Universe, Day(at))
        /\ UnitGross(i)
    BY NotRefused
  <1>2. \A t \in DOMAIN i.legs : InstrumentOf(Master, t) \in Master.instruments /\ InstrumentOf(Master, t).token = t
    BY <1>1 DEF EligibleLeg, InstrumentOf
  <1>3. \A j, k \in Master.instruments : j # k => j.token # k.token /\ j.entity # k.entity
    BY DEF MetadataAvailable
  <1>11. \A t \in DOMAIN i.legs : LegOf(i.legs, t).weight # 0
    <2> TAKE t \in DOMAIN i.legs
    <2>1. AbsoluteValue(LegWeight(i, t)) # 0
      BY <1>1 DEF UnitGross
    <2> DEFINE v == LegOf(i.legs, t).weight
    <2>2. LegWeight(i, t) = v
      BY DEF LegWeight, LegOf, GrossOf
    <2> HIDE DEF v
    <2>3. AbsoluteValue(v) # 0
      BY <2>1, <2>2
    <2>4. v # 0
      BY <2>3, NothingIsZero
    <2> QED
      BY <2>4 DEF v
  <1>12. \A t, u \in DOMAIN i.legs : InstrumentOf(Master, t).entity = InstrumentOf(Master, u).entity => t = u
    <2> SUFFICES ASSUME NEW t \in DOMAIN i.legs, NEW u \in DOMAIN i.legs,
                        InstrumentOf(Master, t).entity = InstrumentOf(Master, u).entity
                 PROVE  t = u
      OBVIOUS
    <2>1. InstrumentOf(Master, t) = InstrumentOf(Master, u)
      BY <1>2, <1>3
    <2> QED
      BY <1>2, <2>1
  <1>4. Distinguished(i.legs)
    BY <1>11, <1>12 DEF Distinguished
  <1>5. Strength(i) \in Nat
    BY <1>1, StrengthIsNatural
  <1> DEFINE c == Candidate(i, Master)
  <1>6. /\ c.alpha = i.alpha /\ c.legs # {} /\ Legs(c.legs) /\ Cardinality(c.legs) + 1 < Quantum
        /\ 2 * Weigh(c.legs) <= 2 * One + Cardinality(c.legs)
    BY <1>4, CandidateLegs
  <1>10. c.id = i.id /\ c.strength = Strength(i)
    BY <1>4, CandidateLegs
  <1>9. c.legs = {LegOf(i.legs, t) : t \in DOMAIN i.legs}
    BY <1>4, CandidateLegs
  <1> HIDE DEF c
  <1>7. SoundCandidate(c)
    BY <1>1, <1>5, <1>6, <1>10 DEF SoundCandidate
  <1>8. c.id = i.id /\ c.strength \in Int
    <2>1. Strength(i) \in Int
      <3> DEFINE n == Strength(i)
      <3>1. n \in Nat
        BY <1>5
      <3> HIDE DEF n
      <3>2. n \in Int
        BY ONLY <3>1
      <3> QED
        BY <3>2 DEF n
    <2> QED
      BY ONLY <1>10, <2>1, Zenon
  <1> QED
    BY ONLY <1>4, <1>7, <1>8, <1>9 DEF c

\* The candidates can be ordered.
LEMMA CandidatesRanked ==
  ASSUME NEW I, IntentsSound(I), NEW state, NEW at, Resolved(I, state, at)
  PROVE  Ranked(CandidatesFrom(I, state, at))
  <1> DEFINE S == ValidOf(I, state, at)
             V == CandidatesFrom(I, state, at)
             f == [i \in S |-> Candidate(i, Master)]
  <1>1. S \subseteq I /\ IsFiniteSet(S)
    BY FS_Subset DEF ValidOf, IntentsSound
  <1>2. f \in [S -> V] /\ V = {f[i] : i \in S}
    BY DEF CandidatesFrom
  <1>3. \A i \in S : Candidate(i, Master).id = i.id /\ Candidate(i, Master).strength \in Int /\ i.id \in Int
    <2> TAKE i \in S
    <2>1. i.id \in Int /\ i.score \in Int /\ FewLegs(i.legs) /\ RefusalOf(i, state, at) = ""
      BY <1>1 DEF IntentsSound, ValidOf
    <2>2. MetadataAvailable(Master, Universe, state, at)
      BY DEF Resolved
    <2> QED
      BY <2>1, <2>2, ValidCandidate
  <1>4. \A i, j \in S : i.id = j.id => i = j
    BY <1>1 DEF Resolved
  <1>5. \A c \in V : \E i \in S : c = Candidate(i, Master)
    BY DEF CandidatesFrom
  <1> HIDE DEF f, S
  <1>6. IsFiniteSet(V)
    BY <1>1, <1>2, FiniteImage
  <1>7. \A c \in V : c.strength \in Int /\ c.id \in Int
    BY <1>3, <1>5
  <1>8. \A c, d \in V : c.id = d.id => c = d
    BY <1>3, <1>4, <1>5
  <1> QED
    BY <1>6, <1>7, <1>8 DEF Ranked

\* What the allocator gets of an ensemble decision.
LEMMA NormalizedCandidates ==
  ASSUME NEW I, IntentsSound(I), NEW state, NEW at, NEW e, NormalizedFrom(e, I, state, at)
  PROVE  /\ Len(e.candidates) \in Nat /\ DOMAIN e.candidates = 1 .. Len(e.candidates)
         /\ \A n \in DOMAIN e.candidates : \E i \in I :
              /\ e.candidates[n] = Candidate(i, Master) /\ Candidate(i, Master).id = i.id
              /\ Candidate(i, Master).legs = {LegOf(i.legs, t) : t \in DOMAIN i.legs}
              /\ FewLegs(i.legs) /\ Distinguished(i.legs) /\ SoundCandidate(e.candidates[n])
  <1>1. CASE ~Resolved(I, state, at)
    <2>1. e.candidates = <<>>
      BY <1>1 DEF NormalizedFrom
    <2> QED
      BY <2>1
  <1>2. CASE Resolved(I, state, at)
    <2> DEFINE V == CandidatesFrom(I, state, at)
               K == V \ Conflicted(V)
    <2>1. e.candidates = Selected(V)
      BY <1>2 DEF NormalizedFrom
    <2>2. Ranked(V)
      BY <1>2, CandidatesRanked
    <2>3. e.candidates \in Seq(K)
      BY <2>1, <2>2, SelectionSurvives DEF Survivors
    <2>4. \A n \in DOMAIN e.candidates : e.candidates[n] \in V
      <3> HIDE DEF V
      <3> QED
        BY <2>3
    <2>5. \A c \in V : \E i \in I : c = Candidate(i, Master) /\ RefusalOf(i, state, at) = ""
      BY DEF CandidatesFrom, ValidOf
    <2>6. \A i \in I : RefusalOf(i, state, at) = "" =>
             /\ Candidate(i, Master).id = i.id
             /\ Candidate(i, Master).legs = {LegOf(i.legs, t) : t \in DOMAIN i.legs}
             /\ FewLegs(i.legs) /\ Distinguished(i.legs) /\ SoundCandidate(Candidate(i, Master))
      <3> SUFFICES ASSUME NEW i \in I, RefusalOf(i, state, at) = ""
                   PROVE  /\ Candidate(i, Master).id = i.id
                          /\ Candidate(i, Master).legs = {LegOf(i.legs, t) : t \in DOMAIN i.legs}
                          /\ FewLegs(i.legs) /\ Distinguished(i.legs) /\ SoundCandidate(Candidate(i, Master))
        OBVIOUS
      <3>1. i.id \in Int /\ i.score \in Int /\ FewLegs(i.legs) /\ MetadataAvailable(Master, Universe, state, at)
        BY <1>2 DEF IntentsSound, Resolved
      <3> QED
        BY <3>1, ValidCandidate
    <2>7. Len(e.candidates) \in Nat /\ DOMAIN e.candidates = 1 .. Len(e.candidates)
      <3> HIDE DEF K
      <3> QED
        BY <2>3
    <2> HIDE DEF V, K
    <2>8. \A n \in DOMAIN e.candidates : \E i \in I :
              /\ e.candidates[n] = Candidate(i, Master) /\ Candidate(i, Master).id = i.id
              /\ Candidate(i, Master).legs = {LegOf(i.legs, t) : t \in DOMAIN i.legs}
              /\ FewLegs(i.legs) /\ Distinguished(i.legs) /\ SoundCandidate(e.candidates[n])
      <3> TAKE n \in DOMAIN e.candidates
      <3>1. PICK i \in I : e.candidates[n] = Candidate(i, Master) /\ RefusalOf(i, state, at) = ""
        BY <2>4, <2>5
      <3> QED
        BY <2>6, <3>1
    <2> QED
      BY <2>7, <2>8
  <1> QED
    BY <1>1, <1>2

-----------------------------------------------------------------------------
(* Commitments. *)

\* A position that was proposed and is now held.
Commitment(p) == [p EXCEPT !.proposed = FALSE]

\* A commitment is the position that was proposed, but for the mark.
LEMMA CommitmentFields ==
  ASSUME NEW p, WellFormed(p)
  PROVE  /\ WellFormed(Commitment(p)) /\ Commitment(p).proposed = FALSE
         /\ Commitment(p).entity = p.entity /\ Commitment(p).sector = p.sector
         /\ Commitment(p).alpha = p.alpha /\ Commitment(p).group = p.group
         /\ Commitment(p).notional = p.notional /\ Commitment(p).risk = p.risk
  <1> DEFINE e == p.entity
             s == p.sector
             a == p.alpha
             g == p.group
             n == p.notional
             k == p.risk
             o == p.proposed
             q == [entity |-> e, sector |-> s, alpha |-> a, group |-> g, notional |-> n, risk |-> k, proposed |-> o]
             r == [entity |-> e, sector |-> s, alpha |-> a, group |-> g, notional |-> n, risk |-> k, proposed |-> FALSE]
             x == [q EXCEPT !.proposed = FALSE]
  <1>1. p = q
    BY DEF WellFormed
  <1> HIDE DEF e, s, a, g, n, k, o
  <1>2. x = r
    <2>1. /\ DOMAIN q = {"entity", "sector", "alpha", "group", "notional", "risk", "proposed"}
          /\ DOMAIN r = {"entity", "sector", "alpha", "group", "notional", "risk", "proposed"}
      OBVIOUS
    <2>2. DOMAIN x = DOMAIN q /\ \A f \in DOMAIN q : x[f] = IF f = "proposed" THEN FALSE ELSE q[f]
      OBVIOUS
    <2>3. \A f \in DOMAIN q : x[f] = r[f]
      <3>1. /\ q["entity"] = e /\ q["sector"] = s /\ q["alpha"] = a /\ q["group"] = g
            /\ q["notional"] = n /\ q["risk"] = k
            /\ r["entity"] = e /\ r["sector"] = s /\ r["alpha"] = a /\ r["group"] = g
            /\ r["notional"] = n /\ r["risk"] = k /\ r["proposed"] = FALSE
        OBVIOUS
      <3> HIDE DEF q, r, x
      <3> QED
        BY <2>1, <2>2, <3>1
    <2>4. x = [f \in DOMAIN x |-> x[f]] /\ r = [f \in DOMAIN r |-> r[f]]
      OBVIOUS
    <2> HIDE DEF q, r, x
    <2> QED
      BY <2>1, <2>2, <2>3, <2>4
  <1>3. Commitment(p) = x
    <2> HIDE DEF q
    <2> QED
      BY <1>1 DEF Commitment
  <1>4. Commitment(p) = r
    <2> HIDE DEF x, r
    <2> QED
      BY <1>2, <1>3
  <1> DEFINE c == Commitment(p)
  <1>5. c = r
    BY <1>4
  <1> HIDE DEF c
  <1>6. /\ WellFormed(c) /\ c.proposed = FALSE /\ c.entity = e /\ c.sector = s
        /\ c.alpha = a /\ c.group = g /\ c.notional = n /\ c.risk = k
    BY <1>5 DEF WellFormed
  <1> QED
    BY <1>6 DEF c, e, s, a, g, n, k

\* What is committed.
LEMMA CommittedAre ==
  ASSUME NEW S
  PROVE  Committed(S) = {Commitment(p) : p \in S}
  BY DEF Committed, Commitment

\* Committed positions are as large as the proposed ones.
LEMMA ExposuresCommitted ==
  ASSUME NEW S, Positions(S), Apart(S), \A p \in S : WellFormed(p)
  PROVE  /\ Positions(Committed(S))
         /\ Gross(Committed(S)) = Gross(S) /\ Net(Committed(S)) = Net(S) /\ Risk(Committed(S)) = Risk(S)
         /\ GroupsOf(Committed(S)) = GroupsOf(S)
  <1> DEFINE h == [p \in S |-> Commitment(p)]
             C == {h[p] : p \in S}
             fs == [p \in S |-> AbsoluteValue(p.notional)]
             gs == [p \in S |-> p.notional]
             rs == [p \in S |-> p.risk]
             fc == [p \in C |-> AbsoluteValue(p.notional)]
             gc == [p \in C |-> p.notional]
             rc == [p \in C |-> p.risk]
  <1>1. \A p \in S : h[p] = Commitment(p)
    OBVIOUS
  <1>2. Committed(S) = C
    BY CommittedAre
  <1>3. \A p \in S : /\ h[p].entity = p.entity /\ h[p].sector = p.sector /\ h[p].alpha = p.alpha
                     /\ h[p].group = p.group /\ h[p].notional = p.notional /\ h[p].risk = p.risk
    BY <1>1, CommitmentFields
  <1> HIDE DEF h
  <1>4. \A p, q \in S : h[p] = h[q] => p = q
    <2> SUFFICES ASSUME NEW p \in S, NEW q \in S, h[p] = h[q] PROVE p = q
      OBVIOUS
    <2>1. /\ p.entity = q.entity /\ p.sector = q.sector /\ p.alpha = q.alpha
          /\ p.group = q.group /\ p.notional = q.notional /\ p.risk = q.risk
      BY <1>3
    <2>2. p.proposed = q.proposed
      BY <2>1 DEF Apart
    <2>3. WellFormed(p) /\ WellFormed(q)
      OBVIOUS
    <2> QED
      BY <2>1, <2>2, <2>3 DEF WellFormed
  <1>5. IsFiniteSet(S) /\ \A p \in S : fs[p] \in Int /\ gs[p] \in Int /\ rs[p] \in Int
    BY MagnitudeIsNatural DEF Positions
  <1>6. \A p \in S : fc[h[p]] = fs[p] /\ gc[h[p]] = gs[p] /\ rc[h[p]] = rs[p]
    BY <1>3
  <1>7. /\ Gross(S) = SumFunctionOnSet(fs, S) /\ Net(S) = SumFunctionOnSet(gs, S)
        /\ Risk(S) = SumFunctionOnSet(rs, S)
        /\ Gross(C) = SumFunctionOnSet(fc, C) /\ Net(C) = SumFunctionOnSet(gc, C)
        /\ Risk(C) = SumFunctionOnSet(rc, C)
    BY DEF Gross, Net, Risk, SumFunction
  <1>8. \A p \in C : p.notional \in Int /\ p.risk \in Nat
    BY <1>3 DEF Positions
  <1>9. GroupsOf(C) = GroupsOf(S)
    <2>1. \A x : x \in GroupsOf(C) <=> x \in GroupsOf(S)
      BY <1>3 DEF GroupsOf
    <2> QED
      BY <2>1 DEF GroupsOf
  <1> HIDE DEF fs, gs, rs, fc, gc, rc
  <1>10. IsFiniteSet(C) /\ SumFunctionOnSet(fc, C) = SumFunctionOnSet(fs, S)
    BY <1>4, <1>5, <1>6, SumsCorrespond
  <1>11. SumFunctionOnSet(gc, C) = SumFunctionOnSet(gs, S)
    BY <1>4, <1>5, <1>6, SumsCorrespond
  <1>12. SumFunctionOnSet(rc, C) = SumFunctionOnSet(rs, S)
    BY <1>4, <1>5, <1>6, SumsCorrespond
  <1>13. Positions(C)
    BY <1>8, <1>10 DEF Positions
  <1> HIDE DEF C
  <1> QED
    BY <1>2, <1>7, <1>9, <1>10, <1>11, <1>12, <1>13

\* The limits hold of what is committed as they hold of what is proposed.
LEMMA CapsCommitted ==
  ASSUME NEW S, Positions(S), Apart(S), \A p \in S : WellFormed(p), WithinCaps(S)
  PROVE  WithinCaps(Committed(S))
  <1> DEFINE C == Committed(S)
  <1>1. \A T \in SUBSET S : /\ Positions(T) /\ Apart(T) /\ \A p \in T : WellFormed(p)
    BY FS_Subset DEF Positions, Apart
  <1>2. \A T \in SUBSET S : /\ Gross(Committed(T)) = Gross(T) /\ Net(Committed(T)) = Net(T)
                            /\ Risk(Committed(T)) = Risk(T) /\ GroupsOf(Committed(T)) = GroupsOf(T)
    BY <1>1, ExposuresCommitted
  <1>3. \A p \in S : /\ Commitment(p).entity = p.entity /\ Commitment(p).sector = p.sector
                     /\ Commitment(p).alpha = p.alpha
    BY CommitmentFields
  <1>4. C = {Commitment(p) : p \in S}
    BY CommittedAre
  <1>5. \A a : OfAlpha(C, a) = Committed(OfAlpha(S, a))
    <2> TAKE a
    <2>1. \A x : x \in OfAlpha(C, a) <=> x \in Committed(OfAlpha(S, a))
      BY <1>3, <1>4, CommittedAre DEF OfAlpha
    <2> QED
      BY <2>1 DEF OfAlpha, Committed
  <1>6. \A s : InSector(C, s) = Committed(InSector(S, s))
    <2> TAKE s
    <2>1. \A x : x \in InSector(C, s) <=> x \in Committed(InSector(S, s))
      BY <1>3, <1>4, CommittedAre DEF InSector
    <2> QED
      BY <2>1 DEF InSector, Committed
  <1>7. \A e : {q \in C : q.entity = e} = Committed({q \in S : q.entity = e})
    <2> TAKE e
    <2>1. \A x : x \in {q \in C : q.entity = e} <=> x \in Committed({q \in S : q.entity = e})
      BY <1>3, <1>4, CommittedAre
    <2> QED
      BY <2>1 DEF Committed
  <1>8. /\ Gross(C) = Gross(S) /\ Net(C) = Net(S) /\ Risk(C) = Risk(S) /\ GroupsOf(C) = GroupsOf(S)
    BY <1>2
  <1>9. ASSUME NEW c \in C
        PROVE  /\ Gross(OfAlpha(C, c.alpha)) <= Caps.alpha
               /\ Gross(InSector(C, c.sector)) <= Caps.sector
               /\ Gross({q \in C : q.entity = c.entity}) <= Caps.symbol
               /\ Cardinality(GroupsOf(InSector(C, c.sector))) <= Caps.sectorGroups
    <2>1. PICK p \in S : c.entity = p.entity /\ c.sector = p.sector /\ c.alpha = p.alpha
      BY <1>3, <1>4
    <2> DEFINE ta == OfAlpha(S, p.alpha)
               ts == InSector(S, p.sector)
               te == {q \in S : q.entity = p.entity}
    <2>2. ta \in SUBSET S /\ ts \in SUBSET S /\ te \in SUBSET S
      BY DEF OfAlpha, InSector
    <2>3. /\ Gross(ta) <= Caps.alpha /\ Gross(ts) <= Caps.sector
          /\ Gross(te) <= Caps.symbol /\ Cardinality(GroupsOf(ts)) <= Caps.sectorGroups
      BY DEF WithinCaps
    <2>4. /\ OfAlpha(C, c.alpha) = Committed(ta) /\ InSector(C, c.sector) = Committed(ts)
          /\ {q \in C : q.entity = c.entity} = Committed(te)
      BY <1>5, <1>6, <1>7, <2>1
    <2>5. /\ Gross(Committed(ta)) = Gross(ta) /\ Gross(Committed(ts)) = Gross(ts)
          /\ Gross(Committed(te)) = Gross(te) /\ GroupsOf(Committed(ts)) = GroupsOf(ts)
      <3> HIDE DEF ta, ts, te
      <3> QED
        BY <1>2, <2>2
    <2> HIDE DEF ta, ts, te, C
    <2> QED
      BY <2>3, <2>4, <2>5
  <1>10. /\ Gross(S) <= Caps.gross /\ AbsoluteValue(Net(S)) <= Caps.net
         /\ Risk(S) <= Caps.risk /\ Cardinality(GroupsOf(S)) <= Caps.groups
    BY DEF WithinCaps
  <1> HIDE DEF C
  <1>11. WithinCaps(C)
    BY <1>8, <1>9, <1>10 DEF WithinCaps
  <1> QED
    BY <1>11 DEF C

\* Positions that exceed no limit by more than slack exceed no cap of AllocatorSettings
\* by more.
LEMMA CapsFollow ==
  ASSUME NEW S, Positions(S), NEW slack \in Nat, WithinSlack(S, slack)
  PROVE  CapsHold(S, slack)
  <1> DEFINE gross == [p \in S |-> IF p.notional < 0 THEN -p.notional ELSE p.notional]
             signed == [p \in S |-> p.notional]
             counter == [p \in S |-> -signed[p]]
             risk == [p \in S |-> p.risk]
             of(a) == {p \in S : p.alpha = a}
             in(s) == {p \in S : p.sector = s}
             on(e) == {p \in S : p.entity = e}
  <1>1. CapsHold(S, slack) <=>
          /\ ~(SumFunctionOnSet(gross, S) > Caps.gross + slack)
          /\ ~(SumFunctionOnSet(signed, S) > Caps.net + slack)
          /\ ~(SumFunctionOnSet(counter, S) > Caps.net + slack)
          /\ ~(SumFunctionOnSet(risk, S) > Caps.risk + slack)
          /\ \A p \in S :
               /\ ~(SumFunctionOnSet(gross, of(p.alpha)) > Caps.alpha + slack)
               /\ ~(SumFunctionOnSet(gross, in(p.sector)) > Caps.sector + slack)
               /\ ~(SumFunctionOnSet(gross, on(p.entity)) > Caps.symbol + slack)
    BY DEF CapsHold, OverCap
  <1>2. IsFiniteSet(S) /\ \A p \in S : /\ gross[p] = AbsoluteValue(p.notional)
                                       /\ gross[p] \in Int /\ signed[p] \in Int /\ risk[p] \in Int
                                       /\ counter[p] = (-1) * signed[p]
    BY DEF Positions, AbsoluteValue
  <1>3. \A p \in S : signed[p] = p.notional /\ risk[p] = p.risk
    OBVIOUS
  <1> HIDE DEF gross, signed, counter, risk
  <1>4. \A T \in SUBSET S : SumFunctionOnSet(gross, T) = Gross(T) /\ Gross(T) \in Int
    <2> TAKE T \in SUBSET S
    <2> DEFINE f == [p \in T |-> AbsoluteValue(p.notional)]
    <2>1. IsFiniteSet(T) /\ \A p \in T : gross[p] \in Int /\ f[p] = gross[p]
      BY <1>2, FS_Subset
    <2>2. Gross(T) = SumFunctionOnSet(f, T)
      BY DEF Gross, SumFunction
    <2> HIDE DEF f
    <2>3. SumFunctionOnSet(gross, T) = SumFunctionOnSet(f, T)
      BY <2>1, SumsAgree
    <2>4. SumFunctionOnSet(gross, T) \in Int
      BY <2>1, SumIsInteger
    <2> QED
      BY <2>2, <2>3, <2>4
  <1>5. SumFunctionOnSet(signed, S) = Net(S) /\ SumFunctionOnSet(risk, S) = Risk(S)
    <2> DEFINE f == [p \in S |-> p.notional]
               g == [p \in S |-> p.risk]
    <2>1. \A p \in S : f[p] = signed[p] /\ g[p] = risk[p]
      BY <1>3
    <2>2. Net(S) = SumFunctionOnSet(f, S) /\ Risk(S) = SumFunctionOnSet(g, S)
      BY DEF Net, Risk, SumFunction
    <2> HIDE DEF f, g
    <2>3. SumFunctionOnSet(signed, S) = SumFunctionOnSet(f, S)
      BY <1>2, <2>1, SumsAgree
    <2>4. SumFunctionOnSet(risk, S) = SumFunctionOnSet(g, S)
      BY <1>2, <2>1, SumsAgree
    <2> QED
      BY <2>2, <2>3, <2>4
  <1>6. SumFunctionOnSet(counter, S) = (-1) * SumFunctionOnSet(signed, S)
    BY <1>2, SumOfMultiples
  <1>7. Gross(S) \in Nat /\ Net(S) \in Int /\ Risk(S) \in Nat
    BY ExposuresTyped
  <1>8. /\ Caps.gross + slack \in Int /\ Caps.net + slack \in Int /\ Caps.risk + slack \in Int
        /\ Caps.alpha + slack \in Int /\ Caps.sector + slack \in Int /\ Caps.symbol + slack \in Int
    BY CapsTyped
  <1>9. S \in SUBSET S
    OBVIOUS
  <1>10. /\ ~(SumFunctionOnSet(gross, S) > Caps.gross + slack)
         /\ ~(SumFunctionOnSet(risk, S) > Caps.risk + slack)
    BY <1>4, <1>5, <1>7, <1>8, <1>9 DEF WithinSlack
  <1>11. /\ ~(SumFunctionOnSet(signed, S) > Caps.net + slack)
         /\ ~(SumFunctionOnSet(counter, S) > Caps.net + slack)
    <2>1. Net(S) <= Caps.net + slack /\ -Net(S) <= Caps.net + slack
      BY DEF WithinSlack
    <2> QED
      BY <1>5, <1>6, <1>7, <1>8, <2>1
  <1>12. ASSUME NEW p \in S
         PROVE  /\ ~(SumFunctionOnSet(gross, of(p.alpha)) > Caps.alpha + slack)
                /\ ~(SumFunctionOnSet(gross, in(p.sector)) > Caps.sector + slack)
                /\ ~(SumFunctionOnSet(gross, on(p.entity)) > Caps.symbol + slack)
    <2>1. /\ Gross(of(p.alpha)) <= Caps.alpha + slack /\ Gross(in(p.sector)) <= Caps.sector + slack
          /\ Gross(on(p.entity)) <= Caps.symbol + slack
      BY DEF WithinSlack, OfAlpha, InSector, OfEntity
    <2>2. of(p.alpha) \in SUBSET S /\ in(p.sector) \in SUBSET S /\ on(p.entity) \in SUBSET S
      OBVIOUS
    <2> HIDE DEF of, in, on
    <2> QED
      BY <1>4, <1>8, <2>1, <2>2
  <1> HIDE DEF of, in, on
  <1> QED
    BY <1>1, <1>10, <1>11, <1>12

\* The caps that allocate keeps are those of AllocatorSettings.
LEMMA CapsKept ==
  ASSUME NEW S, Positions(S), WithinCaps(S)
  PROVE  CapsHold(S, 0)
  <1> DEFINE k == 0
  <1>1. k \in Nat /\ k = 0
    OBVIOUS
  <1> HIDE DEF k
  <1>2. Net(S) \in Int /\ Caps.net \in Int
    BY ExposuresTyped, CapsTyped
  <1>3. Net(S) <= Caps.net /\ -Net(S) <= Caps.net
    BY <1>2 DEF WithinCaps, AbsoluteValue
  <1>4. /\ Caps.gross + k = Caps.gross /\ Caps.net + k = Caps.net /\ Caps.risk + k = Caps.risk
        /\ Caps.alpha + k = Caps.alpha /\ Caps.sector + k = Caps.sector /\ Caps.symbol + k = Caps.symbol
    BY <1>1, CapsTyped
  <1>5. WithinSlack(S, k)
    <2>1. /\ Gross(S) <= Caps.gross /\ Risk(S) <= Caps.risk
          /\ \A p \in S : /\ Gross(OfAlpha(S, p.alpha)) <= Caps.alpha
                          /\ Gross(InSector(S, p.sector)) <= Caps.sector
                          /\ Gross(OfEntity(S, p.entity)) <= Caps.symbol
      BY DEF WithinCaps, OfEntity
    <2> QED
      BY <1>3, <1>4, <2>1 DEF WithinSlack
  <1>6. CapsHold(S, k)
    BY <1>1, <1>5, CapsFollow
  <1> QED
    BY <1>1, <1>6

\* Entries are made in the window that the calendar calls open.
LEMMA WindowIsOpen ==
  ASSUME NEW at \in Int, EntryWindow(DeskCalendar, at)
  PROVE  StateAt(DeskCalendar, at) = "OPEN"
  <1> DEFINE times == SessionOn(DeskCalendar, Day(at))
             t == TickOf(at)
  <1>1. times # Absent /\ times.open <= t /\ t < times.finalEntry /\ Covered(DeskCalendar, Day(at))
    BY DEF EntryWindow
  <1>2. Day(at) \in Int /\ t \in Int
    BY DaysHaveTicks DEF Day, TickOf
  <1>3. Day(at) \in DeskCalendar.from .. DeskCalendar.to
    BY <1>1, <1>2, SnapshotsLoad DEF Covered, SessionsOrdered
  <1>4. /\ TimesOrdered(times)
        /\ \A phase \in {"preopen", "open", "finalEntry", "flatten", "deadline", "close"} :
             times[phase] \in 0 .. DayTicks - 1
    BY <1>1, <1>3, SnapshotsLoad DEF SessionsOrdered
  <1>5. times.preopen \in Int /\ times.open \in Int /\ times.finalEntry \in Int
    BY <1>4, DaysHaveTicks
  <1>6. times.preopen < times.open
    BY <1>4 DEF TimesOrdered
  <1>7. StateAt(DeskCalendar, at) =
          IF times = Absent THEN "CLOSED"
          ELSE IF t < times.preopen THEN "CLOSED"
          ELSE IF t < times.open THEN "PREOPEN"
          ELSE IF t < times.finalEntry THEN "OPEN"
          ELSE IF t < times.flatten THEN "FINAL_ENTRY_BLOCKED"
          ELSE IF t < times.deadline THEN "FLATTENING"
          ELSE "CLOSED_POST"
    BY DEF StateAt
  <1> HIDE DEF times, t
  <1>8. ~(t < times.preopen) /\ ~(t < times.open)
    BY <1>1, <1>2, <1>5, <1>6
  <1> QED
    BY <1>1, <1>7, <1>8

-----------------------------------------------------------------------------
(* What the properties read off a plan. *)

\* What the n-th record adds.
AddedFor(inputs, R, n) ==
  IF R[n].reason = "PROPOSED" THEN Additions(inputs, inputs.ensemble.candidates[n], R[n].gross) ELSE {}

\* Every candidate has an id of its own.
DistinctIds(inputs) ==
  \A m, n \in DOMAIN inputs.ensemble.candidates :
    inputs.ensemble.candidates[m].id = inputs.ensemble.candidates[n].id => m = n

\* The targets after some of the records, member by member.
LEMMA MembersAfter ==
  ASSUME NEW inputs, NEW R, NEW n
  PROVE  \A x : x \in After(inputs, R, n)
                  <=> x \in inputs.portfolio.positions \/ \E j \in 1 .. n : x \in AddedFor(inputs, R, j)
  <1> DEFINE more(k) == Additions(inputs, inputs.ensemble.candidates[k], R[k].gross)
             yes == {j \in 1 .. n : R[j].reason = "PROPOSED"}
             all == UNION {more(k) : k \in yes}
  <1>1. After(inputs, R, n) = inputs.portfolio.positions \cup all
    BY DEF After
  <1>2. \A k : AddedFor(inputs, R, k) = IF R[k].reason = "PROPOSED" THEN more(k) ELSE {}
    BY DEF AddedFor
  <1> HIDE DEF more
  <1>3. \A x : x \in all <=> \E j \in yes : x \in more(j)
    OBVIOUS
  <1>4. \A x : (\E j \in yes : x \in more(j)) <=> \E j \in 1 .. n : x \in AddedFor(inputs, R, j)
    BY <1>2
  <1> HIDE DEF all, yes
  <1> QED
    BY <1>1, <1>3, <1>4

\* What is added is proposed, for the candidate of its turn.
ProposedAs(inputs, R, n) ==
  \A p \in AddedFor(inputs, R, n) :
    /\ R[n].reason = "PROPOSED"
    /\ p \in Additions(inputs, inputs.ensemble.candidates[n], R[n].gross)
    /\ p.proposed = TRUE /\ p.group = R[n].id

\* What a record adds is marked as proposed and is of the group of its candidate.
LEMMA AddedAreProposed ==
  ASSUME NEW inputs, NEW R, NEW n, R[n].id = inputs.ensemble.candidates[n].id
  PROVE  ProposedAs(inputs, R, n)
  BY DEF ProposedAs, AddedFor, Additions

\* The proposals of a plan in the order of its records.
LEMMA PlanUnfolds ==
  ASSUME NEW inputs, Prepared(inputs), DistinctIds(inputs), NEW R, NEW T,
         Decided(inputs, R, Len(inputs.ensemble.candidates)),
         T = After(inputs, R, Len(inputs.ensemble.candidates))
  PROVE  /\ {p \in T : ~p.proposed} = inputs.portfolio.positions
         /\ \A p \in T : p.proposed => \E n \in DOMAIN R : p \in AddedFor(inputs, R, n)
         /\ \A n \in DOMAIN R :
              /\ n \in DOMAIN inputs.ensemble.candidates /\ Turn(inputs, R, n)
              /\ {p \in T : p.proposed => \E m \in 1 .. n - 1 : R[m].id = p.group} = After(inputs, R, n - 1)
              /\ {p \in T : p.proposed /\ p.group = R[n].id} = AddedFor(inputs, R, n)
              /\ After(inputs, R, n - 1) \cup AddedFor(inputs, R, n) = After(inputs, R, n)
              /\ Holds(inputs, After(inputs, R, n - 1)) /\ Holds(inputs, After(inputs, R, n))
  <1> DEFINE C == inputs.ensemble.candidates
             L == Len(C)
             old == inputs.portfolio.positions
             new(j) == AddedFor(inputs, R, j)
             After_(n) == After(inputs, R, n)
  <1>1. L \in Nat /\ DOMAIN C = 1 .. L /\ \A p \in old : p.proposed = FALSE
    BY DEF Prepared
  <1>2. Len(R) = L /\ DOMAIN R = 1 .. L /\ (\A k \in 1 .. L : Turn(inputs, R, k))
    <2>1. R \in Seq(Records(inputs)) /\ Len(R) = L /\ \A k \in 1 .. L : Turn(inputs, R, k)
      BY DEF Decided
    <2>2. DOMAIN R = 1 .. Len(R)
      BY <2>1
    <2> QED
      BY <2>1, <2>2
  <1>3. \A k \in 0 .. L : Holds(inputs, After_(k))
    BY DEF Decided
  <1>4. \A k \in 1 .. L : R[k].id = C[k].id
    BY <1>2 DEF Turn
  <1>5. \A j \in 1 .. L : \A p \in new(j) : p.proposed = TRUE /\ p.group = R[j].id
    <2> TAKE j \in 1 .. L
    <2>1. R[j].id = inputs.ensemble.candidates[j].id
      BY <1>4
    <2>2. ProposedAs(inputs, R, j)
      BY <2>1, AddedAreProposed
    <2> QED
      BY <2>2 DEF ProposedAs
  <1>6. \A n, x : x \in After_(n) <=> x \in old \/ \E j \in 1 .. n : x \in new(j)
    BY MembersAfter
  <1>7. \A m, n \in 1 .. L : R[m].id = R[n].id => m = n
    BY <1>1, <1>4 DEF DistinctIds
  <1> HIDE DEF new, After_, old
  <1>8. T = After_(L)
    BY DEF After_
  <1>9. {p \in T : ~p.proposed} = old
    <2>1. \A x : x \in {p \in T : ~p.proposed} <=> x \in old
      BY <1>1, <1>5, <1>6, <1>8
    <2>2. {p \in T : ~p.proposed} \subseteq old /\ old \subseteq {p \in T : ~p.proposed}
      BY <2>1
    <2> QED
      BY <2>2
  <1>10. \A p \in T : p.proposed => \E n \in 1 .. L : p \in new(n)
    BY <1>1, <1>6, <1>8
  <1>11. ASSUME NEW n \in 1 .. L
         PROVE  /\ {p \in T : p.proposed => \E m \in 1 .. n - 1 : R[m].id = p.group} = After_(n - 1)
                /\ {p \in T : p.proposed /\ p.group = R[n].id} = new(n)
                /\ After_(n - 1) \cup new(n) = After_(n)
                /\ n \in 0 .. L /\ n - 1 \in 0 .. L
    <2>1. \A j : (j \in 1 .. n <=> j \in 1 .. n - 1 \/ j = n) /\ (j \in 1 .. n => j \in 1 .. L)
      BY <1>1
    <2>2. \A x : x \in After_(n) <=> x \in After_(n - 1) \/ x \in new(n)
      BY <1>6, <2>1
    <2>3. \A x : x \in T /\ (x.proposed => \E m \in 1 .. n - 1 : R[m].id = x.group) <=> x \in After_(n - 1)
      <3> TAKE x
      <3>1. ASSUME x \in T, x.proposed => \E m \in 1 .. n - 1 : R[m].id = x.group PROVE x \in After_(n - 1)
        <4>1. CASE x \in old
          BY <1>6, <4>1
        <4>2. CASE x \notin old
          <5>1. PICK j \in 1 .. L : x \in new(j)
            BY <1>6, <1>8, <3>1, <4>2
          <5>2. PICK m \in 1 .. n - 1 : R[m].id = x.group
            BY <1>5, <3>1, <5>1
          <5>3. m \in 1 .. L /\ R[m].id = R[j].id
            BY <1>5, <2>1, <5>1, <5>2
          <5>4. m = j
            BY <1>7, <5>3
          <5> QED
            BY <1>6, <5>1, <5>2, <5>4
        <4> QED
          BY <4>1, <4>2
      <3>2. ASSUME x \in After_(n - 1) PROVE x \in T /\ (x.proposed => \E m \in 1 .. n - 1 : R[m].id = x.group)
        <4>1. CASE x \in old
          BY <1>1, <1>6, <1>8, <4>1
        <4>2. CASE x \notin old
          <5>1. PICK j \in 1 .. n - 1 : x \in new(j)
            BY <1>6, <3>2, <4>2
          <5>2. j \in 1 .. L
            BY <2>1
          <5> QED
            BY <1>5, <1>6, <1>8, <5>1, <5>2
        <4> QED
          BY <4>1, <4>2
      <3> QED
        BY <3>1, <3>2
    <2>4. \A x : x \in T /\ x.proposed /\ x.group = R[n].id <=> x \in new(n)
      <3> TAKE x
      <3>1. ASSUME x \in T, x.proposed, x.group = R[n].id PROVE x \in new(n)
        <4>1. PICK j \in 1 .. L : x \in new(j)
          BY <1>10, <3>1
        <4>2. j = n
          BY <1>5, <1>7, <3>1, <4>1
        <4> QED
          BY <4>1, <4>2
      <3>2. ASSUME x \in new(n) PROVE x \in T /\ x.proposed /\ x.group = R[n].id
        BY <1>5, <1>6, <1>8, <3>2
      <3> QED
        BY <3>1, <3>2
    <2>5. {p \in T : p.proposed => \E m \in 1 .. n - 1 : R[m].id = p.group} = After_(n - 1)
      <3> DEFINE A == {p \in T : p.proposed => \E m \in 1 .. n - 1 : R[m].id = p.group}
      <3>1. \A x : x \in A <=> x \in After_(n - 1)
        BY <2>3
      <3> HIDE DEF A
      <3>2. A \subseteq After_(n - 1) /\ After_(n - 1) \subseteq A
        BY <3>1
      <3>3. A = After_(n - 1)
        BY <3>2
      <3> QED
        BY <3>3 DEF A
    <2>6. {p \in T : p.proposed /\ p.group = R[n].id} = new(n)
      <3> DEFINE A == {p \in T : p.proposed /\ p.group = R[n].id}
      <3>1. \A x : x \in A <=> x \in new(n)
        BY <2>4
      <3> HIDE DEF A
      <3>2. A \subseteq new(n) /\ new(n) \subseteq A
        BY <3>1
      <3>3. A = new(n)
        BY <3>2
      <3> QED
        BY <3>3 DEF A
    <2>7. After_(n - 1) \cup new(n) = After_(n)
      <3>1. After_(n - 1) \cup new(n) \subseteq After_(n) /\ After_(n) \subseteq After_(n - 1) \cup new(n)
        BY <2>2
      <3> QED
        BY <3>1
    <2>8. n \in 0 .. L /\ n - 1 \in 0 .. L
      BY <1>1
    <2> QED
      BY <2>5, <2>6, <2>7, <2>8
  <1>12. \A n \in 1 .. L : Holds(inputs, After_(n - 1)) /\ Holds(inputs, After_(n))
    BY <1>3, <1>11
  <1>13. \A p \in T : p.proposed => \E n \in DOMAIN R : p \in AddedFor(inputs, R, n)
    BY <1>2, <1>10 DEF new
  <1>14. {p \in T : ~p.proposed} = inputs.portfolio.positions
    BY <1>9 DEF old
  <1>15. ASSUME NEW n \in DOMAIN R
         PROVE  /\ n \in DOMAIN inputs.ensemble.candidates /\ Turn(inputs, R, n)
                /\ {p \in T : p.proposed => \E m \in 1 .. n - 1 : R[m].id = p.group} = After(inputs, R, n - 1)
                /\ {p \in T : p.proposed /\ p.group = R[n].id} = AddedFor(inputs, R, n)
                /\ After(inputs, R, n - 1) \cup AddedFor(inputs, R, n) = After(inputs, R, n)
                /\ Holds(inputs, After(inputs, R, n - 1)) /\ Holds(inputs, After(inputs, R, n))
    <2>1. n \in 1 .. L
      BY <1>2
    <2>2. n \in DOMAIN inputs.ensemble.candidates /\ Turn(inputs, R, n)
      BY <1>1, <1>2, <2>1
    <2>3. /\ {p \in T : p.proposed => \E m \in 1 .. n - 1 : R[m].id = p.group} = After_(n - 1)
          /\ {p \in T : p.proposed /\ p.group = R[n].id} = new(n)
          /\ After_(n - 1) \cup new(n) = After_(n)
      BY <1>11, <2>1
    <2>4. Holds(inputs, After_(n - 1)) /\ Holds(inputs, After_(n))
      BY <1>12, <2>1
    <2> QED
      BY <2>2, <2>3, <2>4 DEF After_, new
  <1> HIDE DEF C, L
  <1> QED
    BY <1>13, <1>14, <1>15

-----------------------------------------------------------------------------
(* The properties, of a plan that the loop decided. *)

\* What is known of an ensemble decision, of a plan and of a book.
EnsembleSound(e) ==
  /\ IntentsSound(e.identity.intents)
  /\ NormalizedFrom(e, e.identity.intents, e.identity.state, e.at)

PlanSound(p) ==
  /\ Prepared(p.identity) /\ EnsembleSound(p.identity.ensemble) /\ p.identity.at \in Int
  /\ PlanFrom(p.identity, DeskCalendar, p)

BookSound(S) ==
  /\ Positions(S) /\ OneGroup(S)
  /\ \A p \in S : WellFormed(p) /\ p.proposed = FALSE

\* A plan either adds nothing or is what the loop decided.
PlanUnchanged ==
  plan.targets = plan.identity.portfolio.positions /\ plan.allocations = <<>>
PlanDecided ==
  /\ EntryWindow(DeskCalendar, plan.identity.at) /\ DistinctIds(plan.identity)
  /\ Decided(plan.identity, plan.allocations, Len(plan.identity.ensemble.candidates))
  /\ plan.targets = After(plan.identity, plan.allocations, Len(plan.identity.ensemble.candidates))

\* ADR-0012: a plan that changes nothing proposes nothing.
LEMMA NothingProposed ==
  ASSUME PlanSound(plan), PlanUnchanged
  PROVE  /\ Proposals = {} /\ DOMAIN plan.allocations = {}
         /\ plan.targets \ Proposals = plan.identity.portfolio.positions
  <1>1. \A p \in plan.targets : p.proposed = FALSE
    BY DEF PlanSound, Prepared, PlanUnchanged
  <1>2. Proposals = {}
    BY <1>1 DEF Proposals
  <1> QED
    BY <1>2 DEF PlanUnchanged

\* What PlanUnfolds says of the plan.
LEMMA ProposedInTurn ==
  ASSUME PlanSound(plan), PlanDecided
  PROVE  /\ plan.targets \ Proposals = plan.identity.portfolio.positions
         /\ \A p \in Proposals : \E n \in DOMAIN plan.allocations : p \in AddedFor(plan.identity, plan.allocations, n)
         /\ \A n \in DOMAIN plan.allocations :
              /\ n \in DOMAIN plan.identity.ensemble.candidates /\ Turn(plan.identity, plan.allocations, n)
              /\ PlannedBefore(n) = After(plan.identity, plan.allocations, n - 1)
              /\ ProposedFor(plan.allocations[n].id) = AddedFor(plan.identity, plan.allocations, n)
              /\ PlannedBefore(n) \cup ProposedFor(plan.allocations[n].id) = After(plan.identity, plan.allocations, n)
              /\ Holds(plan.identity, PlannedBefore(n))
              /\ Holds(plan.identity, PlannedBefore(n) \cup ProposedFor(plan.allocations[n].id))
  <1> DEFINE inputs == plan.identity
             R == plan.allocations
             T == plan.targets
  <1>1. /\ Prepared(inputs) /\ DistinctIds(inputs) /\ Decided(inputs, R, Len(inputs.ensemble.candidates))
        /\ T = After(inputs, R, Len(inputs.ensemble.candidates))
    BY DEF PlanSound, PlanDecided
  <1>2. Proposals = {p \in T : p.proposed} /\ \A group : ProposedFor(group) = {p \in T : p.proposed /\ p.group = group}
    BY DEF Proposals, ProposedFor
  <1>3. \A n : PlannedBefore(n) = {p \in T : p.proposed => \E m \in 1 .. n - 1 : R[m].id = p.group}
    BY DEF PlannedBefore
  <1> HIDE DEF inputs, R, T
  <1>4. /\ {p \in T : ~p.proposed} = inputs.portfolio.positions
        /\ \A p \in T : p.proposed => \E n \in DOMAIN R : p \in AddedFor(inputs, R, n)
        /\ \A n \in DOMAIN R :
             /\ n \in DOMAIN inputs.ensemble.candidates /\ Turn(inputs, R, n)
             /\ {p \in T : p.proposed => \E m \in 1 .. n - 1 : R[m].id = p.group} = After(inputs, R, n - 1)
             /\ {p \in T : p.proposed /\ p.group = R[n].id} = AddedFor(inputs, R, n)
             /\ After(inputs, R, n - 1) \cup AddedFor(inputs, R, n) = After(inputs, R, n)
             /\ Holds(inputs, After(inputs, R, n - 1)) /\ Holds(inputs, After(inputs, R, n))
    BY <1>1, PlanUnfolds
  <1>5. T \ Proposals = inputs.portfolio.positions
    BY <1>2, <1>4
  <1>6. \A p \in Proposals : \E n \in DOMAIN R : p \in AddedFor(inputs, R, n)
    BY <1>2, <1>4
  <1>7. ASSUME NEW n \in DOMAIN R
        PROVE  /\ n \in DOMAIN inputs.ensemble.candidates /\ Turn(inputs, R, n)
               /\ PlannedBefore(n) = After(inputs, R, n - 1)
               /\ ProposedFor(R[n].id) = AddedFor(inputs, R, n)
               /\ PlannedBefore(n) \cup ProposedFor(R[n].id) = After(inputs, R, n)
               /\ Holds(inputs, PlannedBefore(n))
               /\ Holds(inputs, PlannedBefore(n) \cup ProposedFor(R[n].id))
    <2>1. PlannedBefore(n) = After(inputs, R, n - 1) /\ ProposedFor(R[n].id) = AddedFor(inputs, R, n)
      BY <1>2, <1>3, <1>4
    <2> QED
      BY <1>4, <2>1
  <1> QED
    BY <1>5, <1>6, <1>7 DEF inputs, R, T

\* After the last turn everything holds of all targets.
LEMMA TargetsHold ==
  ASSUME PlanSound(plan), PlanDecided
  PROVE  Holds(plan.identity, plan.targets)
  <1> DEFINE L == Len(plan.identity.ensemble.candidates)
  <1>1. L \in 0 .. L
    BY DEF PlanSound, Prepared
  <1> QED
    BY <1>1 DEF PlanDecided, Decided

\* ADR-0012: what is proposed is clipped and checked, existing positions included.
LEMMA PlanCaps ==
  ASSUME plan # Absent => PlanSound(plan) /\ (PlanUnchanged \/ PlanDecided)
  PROVE  PlanWithinCaps /\ BudgetsHold /\ EntriesOnlyWhileOpen
  <1>1. CASE plan = Absent
    BY <1>1 DEF PlanWithinCaps, BudgetsHold, EntriesOnlyWhileOpen
  <1>2. CASE plan # Absent /\ PlanUnchanged
    <2>1. Proposals = {}
      BY <1>2, NothingProposed
    <2> QED
      BY <2>1 DEF PlanWithinCaps, BudgetsHold, EntriesOnlyWhileOpen
  <1>3. CASE plan # Absent /\ PlanDecided
    <2>1. Holds(plan.identity, plan.targets)
      BY <1>3, TargetsHold
    <2>2. CapsHold(plan.targets, 0)
      BY <2>1, CapsKept DEF Holds
    <2>3. BudgetsHold
      <3> SUFFICES ASSUME NEW alpha \in {p.alpha : p \in Proposals}
                   PROVE  InBudget(plan.identity, plan.targets, alpha)
        BY DEF BudgetsHold, InBudget
      <3>1. PICK p \in plan.targets : p.proposed /\ p.alpha = alpha
        BY DEF Proposals
      <3> QED
        BY <2>1, <3>1 DEF Holds
    <2>4. plan.at = plan.identity.at /\ plan.identity.at \in Int
      BY <1>3 DEF PlanSound, PlanFrom
    <2>5. StateAt(DeskCalendar, plan.at) = "OPEN"
      BY <1>3, <2>4, WindowIsOpen DEF PlanDecided
    <2> QED
      BY <2>2, <2>3, <2>5 DEF PlanWithinCaps, EntriesOnlyWhileOpen
  <1> QED
    BY <1>1, <1>2, <1>3

\* Nothing is refused for lack of capacity but what the limits leave nothing for, or what
\* exceeds them by the rounding of its legs.
LEMMA PlanClips ==
  ASSUME plan # Absent => PlanSound(plan) /\ (PlanUnchanged \/ PlanDecided)
  PROVE  ClippingSuffices
  <1> DEFINE C == plan.identity.ensemble.candidates
             R == plan.allocations
             amount(n, c) == Amount(plan.identity, c, PlannedBefore(n))
             both(n, c) == PlannedBefore(n) \cup Additions(plan.identity, c, amount(n, c))
  <1> SUFFICES ASSUME plan # Absent, NEW n \in DOMAIN R, R[n].reason = "NO_CAPACITY"
               PROVE  \E c \in {C[m] : m \in DOMAIN C} :
                        c.id = R[n].id /\ (amount(n, c) = 0 \/ CapsHold(both(n, c), Quantum - 1))
    BY DEF ClippingSuffices
  <1>1. PlanDecided
    BY NothingProposed
  <1>2. n \in DOMAIN C /\ Turn(plan.identity, R, n) /\ PlannedBefore(n) = After(plan.identity, R, n - 1)
    BY <1>1, ProposedInTurn
  <1> DEFINE c == C[n]
  <1>3. c.id = R[n].id /\ Clipped(plan.identity, c, PlannedBefore(n))
    BY <1>2 DEF Turn
  <1>4. amount(n, c) = 0 \/ (Positions(both(n, c)) /\ WithinSlack(both(n, c), Quantum - 1))
    BY <1>3 DEF Clipped
  <1> DEFINE slack == Quantum - 1
             S == both(n, c)
  <1>5. slack \in Nat
    BY UnitsArePositive
  <1>6. c \in {C[m] : m \in DOMAIN C}
    BY <1>2
  <1> HIDE DEF slack, S
  <1>7. Positions(S) /\ WithinSlack(S, slack) => CapsHold(S, slack)
    BY <1>5, CapsFollow
  <1>8. amount(n, c) = 0 \/ CapsHold(both(n, c), Quantum - 1)
    BY <1>4, <1>7 DEF S, slack
  <1> HIDE DEF C, R, c, amount, both
  <1> QED
    BY <1>3, <1>6, <1>8

\* A leg that was rounded twice is no further above its proportion than a part.
LEMMA NotionalBelow ==
  ASSUME NEW g \in Nat \ {0}, NEW u \in Nat \ {0}, NEW a \in Nat, a <= u,
         NEW x \in Int, NEW v \in Int, NEW n \in Int,
         2 * (g * v) <= 2 * (u * x) + g, 2 * (u * n) <= 2 * (a * v) + u
  PROVE  g * n <= a * x + g
  <1> DEFINE gn == g * n
             ax == a * x
             av == a * v
             d == gn - ax - g
  <1>1. gn \in Int /\ ax \in Int /\ av \in Int /\ d \in Int
    OBVIOUS
  <1>2. u * gn = g * (u * n) /\ g * av = a * (g * v) /\ a * (u * x) = u * ax
    OBVIOUS
  <1>3. 2 * (g * (u * n)) <= 2 * (g * av) + g * u
    <2> DEFINE l == 2 * (u * n)
               r == 2 * av + u
    <2>1. l \in Int /\ r \in Int /\ l <= r
      OBVIOUS
    <2>2. g * l = 2 * (g * (u * n)) /\ g * r = 2 * (g * av) + g * u
      BY <1>1
    <2> HIDE DEF l, r
    <2>3. r - l \in Nat
      BY <2>1
    <2>4. g * (r - l) >= 0 /\ g * (r - l) = g * r - g * l
      BY <2>1, <2>3
    <2>5. g * l \in Int /\ g * r \in Int
      BY <2>1
    <2>6. g * l <= g * r
      BY <2>4, <2>5
    <2> QED
      BY <2>2, <2>6
  <1>4. 2 * (a * (g * v)) <= 2 * (a * (u * x)) + a * g
    <2> DEFINE l == 2 * (g * v)
               r == 2 * (u * x) + g
    <2>1. l \in Int /\ r \in Int /\ l <= r
      OBVIOUS
    <2>2. a * l = 2 * (a * (g * v)) /\ a * r = 2 * (a * (u * x)) + a * g
      OBVIOUS
    <2> HIDE DEF l, r
    <2>3. r - l \in Nat
      BY <2>1
    <2>4. a * (r - l) >= 0 /\ a * (r - l) = a * r - a * l
      BY <2>1, <2>3
    <2>5. a * l \in Int /\ a * r \in Int
      BY <2>1
    <2>6. a * l <= a * r
      BY <2>4, <2>5
    <2> QED
      BY <2>2, <2>6
  <1>5. a * g <= g * u /\ a * g \in Int /\ g * u \in Int
    <2>1. u - a \in Nat
      OBVIOUS
    <2>2. g * (u - a) >= 0 /\ g * (u - a) = g * u - a * g
      BY <2>1
    <2> QED
      BY <2>2
  <1>6. u * d = u * gn - u * ax - g * u
    BY <1>1
  <1>7. u * gn \in Int /\ u * ax \in Int /\ u * d \in Int
    BY <1>1
  <1> HIDE DEF gn, ax, av, d
  <1>8. 2 * (u * gn) <= 2 * (u * ax) + g * u + a * g
    <2> DEFINE s == g * (u * n)
               t == g * av
    <2>1. s \in Int /\ t \in Int
      BY <1>1
    <2>2. u * gn = s /\ a * (g * v) = t
      BY <1>2
    <2> HIDE DEF s, t
    <2> QED
      BY <1>2, <1>3, <1>4, <1>5, <1>7, <2>1, <2>2 DEF s, t
  <1>9. u * d <= 0
    BY <1>5, <1>6, <1>7, <1>8
  <1>10. ~(d > 0)
    <2> SUFFICES ASSUME d > 0 PROVE FALSE
      OBVIOUS
    <2>1. u * d > 0
      BY <1>1
    <2> QED
      BY <1>7, <1>9, <2>1
  <1> QED
    BY <1>1, <1>10 DEF d, gn, ax

\* What lies within g of zero, times y, lies within g times the magnitude of y.
LEMMA ProductWithin ==
  ASSUME NEW g \in Nat, NEW d \in Int, d <= g, -d <= g, NEW y \in Int
  PROVE  /\ AbsoluteValue(y) \in Nat
         /\ d * y <= g * AbsoluteValue(y) /\ -(d * y) <= g * AbsoluteValue(y)
  <1> DEFINE m == AbsoluteValue(y)
  <1>1. m \in Nat /\ (m = y \/ m = -y)
    BY DEF AbsoluteValue
  <1> HIDE DEF m
  <1>2. g - d \in Nat /\ g + d \in Nat
    OBVIOUS
  <1>3. (g - d) * m >= 0 /\ (g + d) * m >= 0
    BY <1>1, <1>2
  <1>4. (g - d) * m = g * m - d * m /\ (g + d) * m = g * m + d * m
    BY <1>1
  <1>5. g * m \in Int /\ d * m \in Int /\ d * y \in Int
    BY <1>1
  <1>6. d * m <= g * m /\ -(d * m) <= g * m
    BY <1>3, <1>4, <1>5
  <1>7. d * (-y) = -(d * y)
    OBVIOUS
  <1>8. d * m = d * y \/ d * m = -(d * y)
    BY <1>1, <1>7
  <1>9. d * y <= g * m /\ -(d * y) <= g * m
    BY <1>5, <1>6, <1>8
  <1> QED
    BY <1>1, <1>9 DEF m

\* Two legs that were each rounded stay in proportion, but for the rounding.
LEMMA ProportionKept ==
  ASSUME NEW g \in Nat \ {0}, NEW a \in Nat,
         NEW x \in Int, NEW y \in Int, NEW n \in Int, NEW m \in Int,
         Within(g * n, a * x, g), Within(g * m, a * y, g)
  PROVE  AbsoluteValue(n * y - m * x) <= AbsoluteValue(x) + AbsoluteValue(y)
  <1> DEFINE d == g * n - a * x
             b == g * m - a * y
             e == n * y - m * x
             ay == AbsoluteValue(y)
             ax == AbsoluteValue(x)
  <1>1. d \in Int /\ b \in Int /\ e \in Int
    OBVIOUS
  <1>2. d <= g /\ -d <= g /\ b <= g /\ -b <= g
    BY DEF Within
  <1>3. g * e = d * y - b * x
    <2>1. d * y = (g * n) * y - (a * x) * y /\ b * x = (g * m) * x - (a * y) * x
      OBVIOUS
    <2>2. (a * x) * y = (a * y) * x
      OBVIOUS
    <2>3. g * e = (g * n) * y - (g * m) * x
      OBVIOUS
    <2>4. (g * n) * y \in Int /\ (g * m) * x \in Int /\ (a * x) * y \in Int
      OBVIOUS
    <2> QED
      BY <2>1, <2>2, <2>3, <2>4
  <1> HIDE DEF d, b, e
  <1>4. ay \in Nat /\ d * y <= g * ay /\ -(d * y) <= g * ay
    BY <1>1, <1>2, ProductWithin
  <1>5. ax \in Nat /\ b * x <= g * ax /\ -(b * x) <= g * ax
    BY <1>1, <1>2, ProductWithin
  <1> HIDE DEF ax, ay
  <1> DEFINE t == ax + ay
  <1>6. t \in Nat /\ g * t = g * ax + g * ay
    BY <1>4, <1>5
  <1>7. g * ax \in Int /\ g * ay \in Int /\ g * t \in Int /\ g * e \in Int /\ d * y \in Int /\ b * x \in Int
    BY <1>1, <1>4, <1>5
  <1>8. g * e <= g * t /\ -(g * e) <= g * t
    BY <1>3, <1>4, <1>5, <1>6, <1>7
  <1> HIDE DEF t
  <1>9. e <= t
    <2> SUFFICES ASSUME e - t > 0 PROVE FALSE
      BY <1>1, <1>6
    <2>1. g * (e - t) > 0 /\ g * (e - t) = g * e - g * t
      BY <1>1, <1>6
    <2> QED
      BY <1>7, <1>8, <2>1
  <1>10. -e <= t
    <2> SUFFICES ASSUME -e - t > 0 PROVE FALSE
      BY <1>1, <1>6
    <2>1. g * (-e - t) > 0 /\ g * (-e - t) = -(g * e) - g * t
      BY <1>1, <1>6
    <2> QED
      BY <1>7, <1>8, <2>1
  <1>11. AbsoluteValue(e) <= t
    BY <1>1, <1>9, <1>10 DEF AbsoluteValue
  <1> QED
    BY <1>11 DEF e, t, ax, ay

\* A leg of a candidate, multiplied, is in proportion to the intent but for a part, on
\* its side.
LEMMA NotionalInProportion ==
  ASSUME NEW legs, FewLegs(legs), NEW t \in DOMAIN legs, NEW a \in Nat, a <= One
  PROVE  LET n == Times(a, LegOf(legs, t).weight)
         IN n \in Int /\ Within(GrossOf(legs) * n, a * legs[t], GrossOf(legs)) /\ n * legs[t] >= 0
  <1> DEFINE g == GrossOf(legs)
             x == legs[t]
             v == LegOf(legs, t).weight
             n == Times(a, v)
             u == One
  <1>1. g \in Nat \ {0} /\ u \in Nat \ {0} /\ a <= u /\ x \in Int \ {0}
    BY GrossIsPositive, UnitsArePositive DEF FewLegs
  <1>2. /\ v \in Int /\ Within(2 * (g * v), 2 * (u * x), g)
        /\ (x > 0 => v >= 0) /\ (x < 0 => v <= 0)
    BY WeightsInProportion
  <1> HIDE DEF g, x, v, u
  <1>3. n \in Int
    BY <1>2, ProductsAreNear
  <1>4. (v >= 0 => n >= 0) /\ (v <= 0 => n <= 0)
    BY <1>2, ProductsAreNear
  <1>5. Within(2 * (u * n), 2 * (a * v), u)
    <2>1. Within(2 * (One * n), 2 * (a * v), One)
      BY <1>2, ProductsAreNear
    <2> QED
      BY <2>1 DEF u
  <1> HIDE DEF n
  <1>6. g * n <= a * x + g
    <2>1. 2 * (g * v) <= 2 * (u * x) + g /\ 2 * (u * n) <= 2 * (a * v) + u
      BY <1>2, <1>5 DEF Within
    <2> QED
      BY <1>1, <1>2, <1>3, <2>1, NotionalBelow
  <1>7. a * x <= g * n + g
    <2> DEFINE mx == -x
               mv == -v
               mn == -n
    <2>1. mx \in Int /\ mv \in Int /\ mn \in Int
      BY <1>1, <1>2, <1>3
    <2>2. g * mv = -(g * v) /\ u * mx = -(u * x) /\ u * mn = -(u * n) /\ a * mv = -(a * v)
      BY <1>1, <1>2, <1>3
    <2>3. g * mn = -(g * n) /\ a * mx = -(a * x)
      BY <1>1, <1>3
    <2>4. g * v \in Int /\ u * x \in Int /\ u * n \in Int /\ a * v \in Int /\ g * n \in Int /\ a * x \in Int
      BY <1>1, <1>2, <1>3
    <2> HIDE DEF mx, mv, mn
    <2>5. 2 * (g * mv) <= 2 * (u * mx) + g /\ 2 * (u * mn) <= 2 * (a * mv) + u
      BY <1>1, <1>2, <1>5, <2>2, <2>4 DEF Within
    <2>6. g * mn <= a * mx + g
      BY <1>1, <2>1, <2>5, NotionalBelow
    <2> QED
      BY <1>1, <2>3, <2>4, <2>6
  <1>8. n * x >= 0
    <2>1. CASE x > 0
      BY <1>1, <1>2, <1>3, <1>4, <2>1
    <2>2. CASE x < 0
      <3>1. -n \in Nat /\ -x \in Nat
        BY <1>1, <1>2, <1>3, <1>4, <2>2
      <3>2. n * x = (-n) * (-x)
        BY <1>1, <1>3
      <3> QED
        BY <3>1, <3>2
    <2> QED
      BY <1>1, <2>1, <2>2
  <1>9. Within(g * n, a * x, g)
    BY <1>6, <1>7 DEF Within
  <1> QED
    BY <1>3, <1>8, <1>9 DEF g, x, v, n, u

\* A bundle of an intent: a position for every leg, in the proportion of the legs.
Whole(positions, i) ==
  /\ {p.entity : p \in positions} = {InstrumentOf(Master, t).entity : t \in DOMAIN i.legs}
  /\ \A p, q \in positions, t, u \in DOMAIN i.legs :
       /\ InstrumentOf(Master, t).entity = p.entity
       /\ InstrumentOf(Master, u).entity = q.entity
       => /\ AbsoluteValue(p.notional * i.legs[u] - q.notional * i.legs[t])
               <= AbsoluteValue(i.legs[t]) + AbsoluteValue(i.legs[u])
          /\ p.notional * i.legs[t] >= 0

\* ADR-0012: whole groups are added, in their hedge ratio.
LEMMA AdditionsWhole ==
  ASSUME NEW inputs, NEW i, FewLegs(i.legs), Distinguished(i.legs), NEW c,
         c.legs = {LegOf(i.legs, t) : t \in DOMAIN i.legs}, NEW amount \in Nat, amount <= One
  PROVE  Whole(Additions(inputs, c, amount), i)
  <1> DEFINE A == Additions(inputs, c, amount)
             S == DOMAIN i.legs
             entity(t) == InstrumentOf(Master, t).entity
             weight(t) == LegOf(i.legs, t).weight
  <1>1. \A p \in A : \E t \in S : p.entity = entity(t) /\ p.notional = Times(amount, weight(t))
    <2> SUFFICES ASSUME NEW p \in A PROVE \E t \in S : p.entity = entity(t) /\ p.notional = Times(amount, weight(t))
      OBVIOUS
    <2>1. PICK leg \in c.legs : p.entity = leg.entity /\ p.notional = Times(amount, leg.weight)
      BY DEF Additions
    <2>2. PICK t \in S : leg = LegOf(i.legs, t)
      BY <2>1
    <2> QED
      BY <2>1, <2>2 DEF LegOf
  <1>2. \A t \in S : \E p \in A : p.entity = entity(t)
    <2> SUFFICES ASSUME NEW t \in S PROVE \E p \in A : p.entity = entity(t)
      OBVIOUS
    <2>1. LegOf(i.legs, t) \in c.legs /\ LegOf(i.legs, t).entity = entity(t)
      BY DEF LegOf
    <2> DEFINE at(leg) == [entity |-> leg.entity, sector |-> leg.sector, alpha |-> c.alpha,
                           group |-> c.id, notional |-> Times(amount, leg.weight),
                           risk |-> Times(Times(amount, EstimateOf(inputs, c).loss), AbsoluteValue(leg.weight)),
                           proposed |-> TRUE]
               p == at(LegOf(i.legs, t))
    <2>2. A = {at(leg) : leg \in c.legs}
      BY DEF Additions
    <2>3. p.entity = entity(t)
      BY <2>1
    <2> HIDE DEF A, at
    <2>4. p \in A
      BY <2>1, <2>2
    <2> HIDE DEF p
    <2> QED
      BY <2>3, <2>4
  <1>3. {p.entity : p \in A} = {entity(t) : t \in S}
    <2> HIDE DEF A, S, entity, weight
    <2>1. \A x : x \in {p.entity : p \in A} <=> x \in {entity(t) : t \in S}
      BY <1>1, <1>2
    <2> QED
      BY <2>1
  <1>4. \A t, u \in S : entity(t) = entity(u) => t = u
    BY DEF Distinguished
  <1> DEFINE near(n, m, x, y) == AbsoluteValue(n * y - m * x) <= AbsoluteValue(x) + AbsoluteValue(y)
  <1>5. \A t \in S : i.legs[t] \in Int /\ GrossOf(i.legs) \in Nat \ {0}
    BY GrossIsPositive DEF FewLegs
  <1>6. \A t \in S : /\ Times(amount, weight(t)) \in Int
                     /\ Within(GrossOf(i.legs) * Times(amount, weight(t)), amount * i.legs[t], GrossOf(i.legs))
                     /\ Times(amount, weight(t)) * i.legs[t] >= 0
    BY NotionalInProportion
  <1>7. ASSUME NEW p \in A, NEW q \in A, NEW t \in S, NEW u \in S, entity(t) = p.entity, entity(u) = q.entity
        PROVE  near(p.notional, q.notional, i.legs[t], i.legs[u]) /\ p.notional * i.legs[t] >= 0
    <2> DEFINE g == GrossOf(i.legs)
               x == i.legs[t]
               y == i.legs[u]
               n == Times(amount, weight(t))
               m == Times(amount, weight(u))
    <2>1. p.notional = n /\ q.notional = m
      <3> HIDE DEF A, entity, weight
      <3> QED
        BY <1>1, <1>4, <1>7
    <2>2. /\ g \in Nat \ {0} /\ x \in Int /\ y \in Int /\ n \in Int /\ m \in Int
          /\ Within(g * n, amount * x, g) /\ Within(g * m, amount * y, g) /\ n * x >= 0
      BY <1>5, <1>6
    <2> HIDE DEF g, x, y, n, m, A, entity, weight, S
    <2>3. AbsoluteValue(n * y - m * x) <= AbsoluteValue(x) + AbsoluteValue(y)
      BY <2>2, ProportionKept
    <2> QED
      BY <2>1, <2>2, <2>3 DEF x, y
  <1>9. \A p, q \in A, t, u \in S :
          entity(t) = p.entity /\ entity(u) = q.entity =>
            near(p.notional, q.notional, i.legs[t], i.legs[u]) /\ p.notional * i.legs[t] >= 0
    BY <1>7
  <1> HIDE DEF A
  <1>8. Whole(A, i)
    BY <1>3, <1>9 DEF Whole
  <1> QED
    BY <1>8 DEF A

\* A proposal has every leg of its candidate; what is held stays as it is.
LEMMA PlanKeepsBundles ==
  ASSUME plan # Absent => PlanSound(plan) /\ (PlanUnchanged \/ PlanDecided)
  PROVE  BundlesStayWhole
  <1> DEFINE e == plan.identity.ensemble
             I == e.identity.intents
             R == plan.allocations
  <1>1. BundlesStayWhole <=>
          (plan # Absent =>
             /\ plan.targets \ Proposals = plan.identity.portfolio.positions
             /\ \A group \in GroupsOf(Proposals) : \E i \in I : i.id = group /\ Whole(ProposedFor(group), i))
    BY DEF BundlesStayWhole, Whole
  <1>2. CASE plan = Absent
    BY <1>1, <1>2
  <1>3. CASE plan # Absent /\ PlanUnchanged
    <2>1. Proposals = {} /\ plan.targets \ Proposals = plan.identity.portfolio.positions
      BY <1>3, NothingProposed
    <2>2. GroupsOf(Proposals) = {}
      BY <2>1 DEF GroupsOf
    <2> QED
      BY <1>1, <2>1, <2>2
  <1>4. CASE plan # Absent /\ PlanDecided
    <2>1. plan.targets \ Proposals = plan.identity.portfolio.positions
      BY <1>4, ProposedInTurn
    <2>2. ASSUME NEW group \in GroupsOf(Proposals)
          PROVE  \E i \in I : i.id = group /\ Whole(ProposedFor(group), i)
      <3>1. PICK p \in Proposals : p.group = group
        BY DEF GroupsOf
      <3>2. PICK n \in DOMAIN R : p \in AddedFor(plan.identity, R, n)
        BY <1>4, ProposedInTurn
      <3>3. /\ n \in DOMAIN e.candidates /\ Turn(plan.identity, R, n)
            /\ ProposedFor(R[n].id) = AddedFor(plan.identity, R, n)
        BY <1>4, <3>2, ProposedInTurn
      <3>4. R[n].id = e.candidates[n].id
        BY <3>3 DEF Turn
      <3>5. ProposedAs(plan.identity, R, n)
        BY <3>4, AddedAreProposed
      <3>6. R[n].reason = "PROPOSED" /\ R[n].id = group
        BY <3>1, <3>2, <3>5 DEF ProposedAs
      <3>7. Taken(plan.identity, e.candidates[n], After(plan.identity, R, n - 1), R[n].gross)
        BY <3>3, <3>6 DEF Turn
      <3>8. R[n].gross \in Nat /\ R[n].gross <= One
        BY <3>7 DEF Taken
      <3>9. IntentsSound(I) /\ NormalizedFrom(e, I, e.identity.state, e.at)
        BY <1>4 DEF PlanSound, EnsembleSound
      <3>15. \A k \in DOMAIN e.candidates : \E i \in I :
                /\ e.candidates[k] = Candidate(i, Master) /\ Candidate(i, Master).id = i.id
                /\ Candidate(i, Master).legs = {LegOf(i.legs, t) : t \in DOMAIN i.legs}
                /\ FewLegs(i.legs) /\ Distinguished(i.legs) /\ SoundCandidate(e.candidates[k])
        <4> DEFINE state == e.identity.state
                   at == e.at
        <4> HIDE DEF e, I, state, at
        <4>1. IntentsSound(I) /\ NormalizedFrom(e, I, state, at)
          BY <3>9 DEF state, at
        <4> QED
          BY <4>1, NormalizedCandidates
      <3>10. PICK i \in I : /\ e.candidates[n] = Candidate(i, Master) /\ Candidate(i, Master).id = i.id
                            /\ Candidate(i, Master).legs = {LegOf(i.legs, t) : t \in DOMAIN i.legs}
                            /\ FewLegs(i.legs) /\ Distinguished(i.legs)
        <4> HIDE DEF e, I
        <4> QED
          BY <3>3, <3>15
      <3>11. ProposedFor(group) = Additions(plan.identity, e.candidates[n], R[n].gross)
        BY <3>3, <3>6 DEF AddedFor
      <3> DEFINE c == e.candidates[n]
      <3>12. c.legs = {LegOf(i.legs, t) : t \in DOMAIN i.legs} /\ i.id = group
        BY <3>4, <3>6, <3>10
      <3> DEFINE inputs == plan.identity
                 amount == R[n].gross
      <3>13. amount \in Nat /\ amount <= One
        BY <3>8
      <3> HIDE DEF c, inputs, amount
      <3>14. Whole(Additions(inputs, c, amount), i)
        BY <3>10, <3>12, <3>13, AdditionsWhole
      <3> QED
        BY <3>11, <3>12, <3>14 DEF c, inputs, amount
    <2> QED
      BY <1>1, <2>1, <2>2
  <1> QED
    BY <1>2, <1>3, <1>4

-----------------------------------------------------------------------------
(* The invariant of the desk. *)

\* The invariant: every book is sound, and a decision is what its service made of its inputs.
DeskInv ==
  /\ clock \in Instant
  /\ routed.multiplier \in Nat
  /\ BookSound(book) /\ BookSound(portfolio.positions)
  /\ ensemble # Absent => EnsembleSound(ensemble)
  /\ plan # Absent => PlanSound(plan)

\* A plan adds nothing, or what the loop decided.
LEMMA PlanOutcomes ==
  ASSUME PlanSound(plan)
  PROVE  PlanUnchanged \/ PlanDecided
  BY DEF PlanSound, PlanFrom, PlanUnchanged, PlanDecided, DistinctIds

\* Part of a book that is sound is sound.
LEMMA BookShrinks ==
  ASSUME NEW S, BookSound(S), NEW T \in SUBSET S
  PROVE  BookSound(T)
  BY FS_Subset DEF BookSound, Positions, OneGroup

\* The book that a day starts from.
LEMMA NothingHeld == BookSound({})
  BY FS_EmptySet DEF BookSound, Positions, OneGroup

\* The stamped intents of a cycle have legs that normalize.
LEMMA BatchIsSound ==
  ASSUME NEW batch \in SUBSET Request
  PROVE  IntentsSound({Stamped(r) : r \in batch})
  <1> DEFINE f == [r \in batch |-> Stamped(r)]
             I == {Stamped(r) : r \in batch}
  <1>1. f \in [batch -> I] /\ I = {f[r] : r \in batch}
    OBVIOUS
  <1>2. IsFiniteSet(batch)
    BY RequestsAreTyped, FS_Subset
  <1>3. \A r \in batch : r.id \in Int /\ r.score \in Int /\ FewLegs(r.legs)
    BY RequestsAreTyped DEF FewLegs
  <1>4. \A r \in batch : Stamped(r).id = r.id /\ Stamped(r).score = r.score /\ Stamped(r).legs = r.legs
    BY DEF Stamped
  <1>5. \A i \in I : i.id \in Int /\ i.score \in Int /\ FewLegs(i.legs)
    BY <1>3, <1>4
  <1> HIDE DEF f, I
  <1>6. IsFiniteSet(I)
    BY <1>1, <1>2, FiniteImage
  <1>7. IntentsSound(I)
    BY <1>5, <1>6 DEF IntentsSound
  <1> QED
    BY <1>7 DEF I

\* What normalize_intents returns is sound.
LEMMA NormalizedIsSound ==
  ASSUME NEW I, IntentsSound(I), NEW state, NEW at, NEW e, e = NormalizeIntents(I, Master, Universe, state, at)
  PROVE  EnsembleSound(e)
  <1>1. NormalizedFrom(e, I, state, at)
    BY NormalizeDecides
  <1>2. e.identity = InputsOf(I, Master, Universe, state) /\ e.at = at
    BY <1>1 DEF NormalizedFrom
  <1>3. e.identity.intents = I /\ e.identity.state = state
    BY <1>2 DEF InputsOf
  <1> QED
    BY <1>1, <1>2, <1>3 DEF EnsembleSound

\* What the providers supply is what allocate can work with.
LEMMA SuppliedIsPrepared ==
  ASSUME DeskInv, ensemble # Absent, NEW s \in Supply
  PROVE  Prepared(InputsFrom(s))
  <1> DEFINE inputs == InputsFrom(s)
             C == ensemble.candidates
             health == inputs.health
  <1>1. /\ inputs.ensemble = ensemble /\ inputs.portfolio = portfolio /\ inputs.state = routed
        /\ inputs.correlations.estimates = s.correlations
    BY DEF InputsFrom
  <1>2. /\ s.health \in Nat /\ s.capacity \in Nat /\ s.loss \in 1 .. One /\ s.volatility \in Nat /\ One <= s.volatility
        /\ IsFiniteSet(s.correlations) /\ \A e \in s.correlations : e.value \in Nat
    BY SuppliesAreTyped, UnitsArePositive
  <1>3. \A h \in inputs.health : h.value \in Nat
    BY <1>2 DEF InputsFrom
  <1>4. \A l \in inputs.liquidity : l.notional \in Nat /\ l.volume \in Nat /\ l.turnover \in Nat
    BY <1>2 DEF InputsFrom
  <1>5. \A e \in inputs.estimates : e.loss \in 1 .. One /\ e.volatility \in Nat /\ One <= e.volatility
    BY <1>2 DEF InputsFrom
  <1>6. IntentsSound(ensemble.identity.intents)
        /\ NormalizedFrom(ensemble, ensemble.identity.intents, ensemble.identity.state, ensemble.at)
    BY DEF DeskInv, EnsembleSound
  <1>7. /\ Len(C) \in Nat /\ DOMAIN C = 1 .. Len(C)
        /\ \A n \in DOMAIN C : SoundCandidate(C[n])
    <2> DEFINE I == ensemble.identity.intents
               state == ensemble.identity.state
               at == ensemble.at
               e == ensemble
    <2>1. IntentsSound(I) /\ NormalizedFrom(e, I, state, at)
      BY <1>6
    <2> HIDE DEF I, state, at, e
    <2>2. /\ Len(e.candidates) \in Nat /\ DOMAIN e.candidates = 1 .. Len(e.candidates)
          /\ \A n \in DOMAIN e.candidates : \E i \in I :
               /\ e.candidates[n] = Candidate(i, Master) /\ Candidate(i, Master).id = i.id
               /\ Candidate(i, Master).legs = {LegOf(i.legs, t) : t \in DOMAIN i.legs}
               /\ FewLegs(i.legs) /\ Distinguished(i.legs) /\ SoundCandidate(e.candidates[n])
      BY <2>1, NormalizedCandidates
    <2> QED
      BY <2>2 DEF e
  <1>8. IsFiniteSet(DOMAIN C) /\ \A n \in DOMAIN C : C[n].strength \in Nat
    <2>1. IsFiniteSet(1 .. Len(C))
      <3> DEFINE L == Len(C)
      <3>1. L \in Nat
        BY <1>7
      <3> HIDE DEF L
      <3>2. IsFiniteSet(1 .. L)
        BY <3>1, FS_Interval
      <3> QED
        BY <3>2 DEF L
    <2>2. IsFiniteSet(DOMAIN C)
      BY <1>7, <2>1
    <2> QED
      BY <1>7, <2>2 DEF SoundCandidate
  <1>9. routed.multiplier \in Nat
    BY DEF DeskInv
  <1> HIDE DEF inputs
  <1>10. InputsTyped(inputs)
    BY <1>1, <1>2, <1>3, <1>4, <1>5, <1>8, <1>9 DEF InputsTyped
  <1>11. Positions(portfolio.positions) /\ OneGroup(portfolio.positions)
         /\ \A p \in portfolio.positions : WellFormed(p) /\ p.proposed = FALSE
    BY DEF DeskInv, BookSound
  <1>12. Prepared(inputs)
    BY <1>1, <1>7, <1>10, <1>11 DEF Prepared
  <1> QED
    BY <1>12 DEF inputs

\* What a plan that allocate returns is known for.
LEMMA ProposedIsSound ==
  ASSUME DeskInv, ensemble # Absent, NEW s \in Supply, NEW p, p = Allocate(InputsFrom(s), DeskCalendar)
  PROVE  PlanSound(p)
  <1> DEFINE inputs == InputsFrom(s)
             calendar == DeskCalendar
  <1>1. inputs.ensemble = ensemble /\ inputs.at = clock
    BY DEF InputsFrom
  <1>2. Prepared(inputs)
    BY SuppliedIsPrepared
  <1> HIDE DEF inputs, calendar
  <1>3. PlanFrom(inputs, calendar, Allocate(inputs, calendar))
    BY <1>2, AllocateDecides
  <1>4. PlanFrom(inputs, DeskCalendar, p)
    BY <1>3 DEF inputs, calendar
  <1>5. p.identity = inputs
    BY <1>4 DEF PlanFrom
  <1>6. clock \in Int /\ EnsembleSound(ensemble)
    BY InstantsAreTicks DEF DeskInv
  <1> QED
    BY <1>1, <1>2, <1>4, <1>5, <1>6 DEF PlanSound

\* Approval reserves what a plan holds after a group: the book is then that of the
\* targets of this turn.
LEMMA ApprovalReserves ==
  ASSUME DeskInv, NEW n, Approve(n)
  PROVE  \E S : /\ Holds(plan.identity, S)
                /\ book' = Committed(S)
  <1> DEFINE A == PlannedBefore(n)
             B == ProposedFor(plan.allocations[n].id)
  <1>1. n \in DOMAIN plan.allocations /\ PlanSound(plan)
    BY DEF Approve, DeskInv
  <1>2. PlanDecided
    BY <1>1, PlanOutcomes, NothingProposed
  <1>3. Holds(plan.identity, A \cup B)
    BY <1>1, <1>2, ProposedInTurn
  <1>4. book' = Committed(A) \cup Committed(B)
    BY DEF Approve
  <1> HIDE DEF A, B
  <1>5. Committed(A) \cup Committed(B) = Committed(A \cup B)
    BY DEF Committed
  <1> QED
    BY <1>3, <1>4, <1>5

\* Commitments are a book that is sound.
LEMMA CommitmentsAreSound ==
  ASSUME NEW inputs, NEW S, Holds(inputs, S)
  PROVE  BookSound(Committed(S))
  <1>1. Positions(S) /\ Apart(S) /\ OneGroup(S) /\ \A p \in S : WellFormed(p)
    BY DEF Holds
  <1>2. Positions(Committed(S))
    BY <1>1, ExposuresCommitted
  <1>3. \A p \in S : /\ WellFormed(Commitment(p)) /\ Commitment(p).proposed = FALSE
                     /\ Commitment(p).entity = p.entity /\ Commitment(p).group = p.group
    BY <1>1, CommitmentFields
  <1>4. Committed(S) = {Commitment(p) : p \in S}
    BY CommittedAre
  <1> DEFINE T == Committed(S)
  <1>5. \A c \in T : \E p \in S : c = Commitment(p)
    BY <1>4
  <1> HIDE DEF T
  <1>6. \A c \in T : WellFormed(c) /\ c.proposed = FALSE
    BY <1>3, <1>5
  <1>7. OneGroup(T)
    BY <1>1, <1>3, <1>5 DEF OneGroup
  <1> QED
    BY <1>2, <1>6, <1>7 DEF BookSound, T

\* What the desk knows holds from the first decision on.
LEMMA DeskStarts ==
  ASSUME DeskInit
  PROVE  DeskInv
  <1>1. PICK o \in Outlook : routed = Routed(o, clock)
    BY DEF DeskInit
  <1>2. routed.multiplier \in Nat
    BY <1>1, SuppliesAreTyped DEF Routed
  <1>3. book = {} /\ portfolio.positions = {}
    BY DEF DeskInit
  <1>4. clock \in Instant /\ ensemble = Absent /\ plan = Absent
    BY DEF DeskInit
  <1> QED
    BY <1>2, <1>3, <1>4, NothingHeld DEF DeskInv

\* Every step keeps what the desk knows.
LEMMA DeskKeeps ==
  ASSUME DeskInv, [DeskNext]_deskVars
  PROVE  DeskInv'
  <1>1. /\ clock \in Instant /\ routed.multiplier \in Nat /\ BookSound(book) /\ BookSound(portfolio.positions)
        /\ (ensemble # Absent => EnsembleSound(ensemble)) /\ (plan # Absent => PlanSound(plan))
    BY DEF DeskInv
  <1>2. CASE UNCHANGED deskVars
    <2>1. UNCHANGED <<clock, routed, book, portfolio, ensemble, plan>>
      BY <1>2 DEF deskVars
    <2> QED
      BY <1>1, <2>1 DEF DeskInv, PlanSound
  <1>3. ASSUME NEW keep \in BOOLEAN, Advance(keep) PROVE DeskInv'
    <2>1. clock' \in Instant /\ UNCHANGED <<routed, book, portfolio>>
      BY <1>3 DEF Advance
    <2>2. UNCHANGED <<ensemble, plan>> \/ (ensemble' = Absent /\ plan' = Absent)
      BY <1>3 DEF Advance
    <2> QED
      BY <1>1, <2>1, <2>2 DEF DeskInv, PlanSound
  <1>4. ASSUME NEW o \in Outlook, Route(o) PROVE DeskInv'
    <2>1. routed'.multiplier \in Nat
      BY <1>4, SuppliesAreTyped DEF Route, Routed
    <2>2. UNCHANGED <<clock, book, portfolio, ensemble, plan>>
      BY <1>4 DEF Route
    <2> QED
      BY <1>1, <2>1, <2>2 DEF DeskInv, PlanSound
  <1>5. ASSUME NEW complete, NEW blocks, TakeSnapshot(complete, blocks) PROVE DeskInv'
    <2>1. portfolio'.positions = book
      BY <1>5 DEF TakeSnapshot
    <2>2. UNCHANGED <<clock, routed, book, ensemble, plan>>
      BY <1>5 DEF TakeSnapshot
    <2> QED
      BY <1>1, <2>1, <2>2 DEF DeskInv, PlanSound
  <1>6. ASSUME NEW batch \in SUBSET Request, Normalize(batch) PROVE DeskInv'
    <2> DEFINE I == {Stamped(r) : r \in batch}
               e == NormalizeIntents(I, Master, Universe, routed, clock)
    <2>1. IntentsSound(I)
      BY BatchIsSound
    <2>2. ensemble' = e /\ UNCHANGED <<clock, routed, book, portfolio, plan>>
      BY <1>6 DEF Normalize
    <2> HIDE DEF I
    <2>3. EnsembleSound(e)
      BY <2>1, NormalizedIsSound
    <2> HIDE DEF e
    <2> QED
      BY <1>1, <2>2, <2>3 DEF DeskInv, PlanSound
  <1>7. ASSUME NEW s \in Supply, Propose(s) PROVE DeskInv'
    <2> DEFINE p == Allocate(InputsFrom(s), DeskCalendar)
    <2>1. plan' = p /\ UNCHANGED <<clock, routed, book, portfolio, ensemble>> /\ ensemble # Absent
      BY <1>7 DEF Propose
    <2>2. PlanSound(p)
      BY <2>1, ProposedIsSound
    <2> HIDE DEF p
    <2> QED
      BY <1>1, <2>1, <2>2 DEF DeskInv, PlanSound
  <1>8. ASSUME NEW decision, Publish(decision) PROVE DeskInv'
    <2>1. UNCHANGED <<clock, routed, book, portfolio, ensemble, plan>>
      BY <1>8 DEF Publish
    <2> QED
      BY <1>1, <2>1 DEF DeskInv, PlanSound
  <1>9. ASSUME NEW n, Approve(n) PROVE DeskInv'
    <2>1. BookSound(book')
      BY <1>9, ApprovalReserves, CommitmentsAreSound
    <2>2. UNCHANGED <<clock, routed, portfolio, ensemble, plan>>
      BY <1>9 DEF Approve
    <2> QED
      BY <1>1, <2>1, <2>2 DEF DeskInv, PlanSound
  <1>10. ASSUME NEW group, Close(group) PROVE DeskInv'
    <2>1. book' \in SUBSET book
      BY <1>10 DEF Close
    <2>2. BookSound(book')
      BY <1>1, <2>1, BookShrinks
    <2>3. UNCHANGED <<clock, routed, portfolio, ensemble, plan>>
      BY <1>10 DEF Close
    <2> QED
      BY <1>1, <2>2, <2>3 DEF DeskInv, PlanSound
  <1> QED
    BY <1>2, <1>3, <1>4, <1>5, <1>6, <1>7, <1>8, <1>9, <1>10 DEF DeskNext, kSubset

\* From the first cycle on, what MarketStateRouter, normalize_intents and allocate left on the desk is
\* what they make of the inputs they recorded, and every book holds committed positions only, each security
\* in one group.
THEOREM DeskInvariant == DeskSpec => []DeskInv
  BY DeskStarts, DeskKeeps, PTL DEF DeskSpec

\* PlanIsSound: for all settings and inputs, a plan of allocate that proposes anything is within every cap,
\* existing positions included, while entries are open; an alpha that gets something stays within its budget
\* but for less than a quantum; a bundle has every leg of its intent, on its side and in the proportion of the
\* legs but for the rounding of each; what is held stays, one group per security.
THEOREM PlansAreSound == DeskSpec => []PlanIsSound
  <1>1. DeskInv => PlanIsSound
    <2> SUFFICES ASSUME DeskInv PROVE PlanIsSound
      OBVIOUS
    <2>1. plan # Absent => PlanSound(plan) /\ (PlanUnchanged \/ PlanDecided)
      BY PlanOutcomes DEF DeskInv
    <2>2. PlanWithinCaps /\ BudgetsHold /\ EntriesOnlyWhileOpen /\ BundlesStayWhole
      BY <2>1, PlanCaps, PlanKeepsBundles
    <2>3. OneGroupPerSecurity
      BY DEF DeskInv, BookSound, OneGroup, OneGroupPerSecurity
    <2> QED
      BY <2>2, <2>3 DEF PlanIsSound
  <1> QED
    BY <1>1, DeskInvariant, PTL

\* ClippingSuffices: allocate finds no capacity for a candidate only if the limits of _amount leave nothing
\* of it, or if rounding its legs takes them beyond a cap by less than a quantum; within_caps refuses nothing
\* else that was clipped.
THEOREM LimitsSuffice == DeskSpec => []ClippingSuffices
  <1>1. DeskInv => ClippingSuffices
    <2> SUFFICES ASSUME DeskInv PROVE ClippingSuffices
      OBVIOUS
    <2>1. plan # Absent => PlanSound(plan) /\ (PlanUnchanged \/ PlanDecided)
      BY PlanOutcomes DEF DeskInv
    <2> QED
      BY <2>1, PlanClips
  <1> QED
    BY <1>1, DeskInvariant, PTL

\* ApprovalKeepsCaps: reserving the groups of a plan one after the other, in the order of its allocations,
\* never takes a book that is within the caps of AllocatorSettings beyond them.
THEOREM ApprovalsKeepCaps == DeskSpec => ApprovalKeepsCaps
  <1>1. DeskInv /\ [DeskNext]_deskVars => [book \subseteq book' => (CapsHold(book, 0) => CapsHold(book', 0))]_deskVars
    <2> SUFFICES ASSUME DeskInv, [DeskNext]_deskVars, book \subseteq book', CapsHold(book, 0)
                 PROVE  CapsHold(book', 0)
      OBVIOUS
    <2>1. CASE book' = book
      BY <2>1
    <2>2. CASE book' # book
      <3>1. PICK n \in 1 .. MaxBatch : Approve(n)
        <4>1. ~UNCHANGED deskVars
          BY <2>2 DEF deskVars
        <4>2. ASSUME NEW group, Close(group) PROVE FALSE
          <5>1. book' \subseteq book
            BY <4>2 DEF Close
          <5> QED
            BY <2>2, <5>1
        <4> QED
          BY <2>2, <4>1, <4>2 DEF DeskNext, Advance, Route, TakeSnapshot, Normalize, Propose, Publish
      <3>2. PICK S : Holds(plan.identity, S) /\ book' = Committed(S)
        BY <3>1, ApprovalReserves
      <3> DEFINE T == Committed(S)
      <3>3. Positions(T) /\ WithinCaps(T)
        BY <3>2, ExposuresCommitted, CapsCommitted DEF Holds
      <3> HIDE DEF T
      <3>4. CapsHold(T, 0)
        BY <3>3, CapsKept
      <3> QED
        BY <3>2, <3>4 DEF T
    <2> QED
      BY <2>1, <2>2
  <1> QED
    BY <1>1, DeskInvariant, PTL DEF DeskSpec, ApprovalKeepsCaps

-----------------------------------------------------------------------------
(* The selection without a candidate that it did not take. *)

\* A list without its member at m.
At(order, m, i) == IF i < m THEN order[i] ELSE order[i + 1]
Without(less, order, m) ==
  Len(order) \in Nat /\ Len(less) = Len(order) - 1 /\ \A i \in 1 .. Len(less) : less[i] = At(order, m, i)

\* Without one candidate the others keep their order.
LEMMA OrderWithout ==
  ASSUME NEW S, Ranked(S), NEW order, ListedOnce(order, S), NEW m \in 1 .. Len(order),
         NEW less, ListedOnce(less, S \ {order[m]})
  PROVE  Without(less, order, m)
  <1> DEFINE x == order[m]
             R == S \ {x}
             L == Len(order)
  <1>1. /\ order \in Seq(S) /\ L = Cardinality(S) /\ L \in Nat
        /\ \A i \in 1 .. L : order[i] \in S /\ Cardinality(StrongerIn(S, order[i])) = i - 1
        /\ \A i, j \in 1 .. L : i < j => Stronger(order[i], order[j])
    BY DEF ListedOnce
  <1>2. /\ less \in Seq(R) /\ Len(less) = Cardinality(R)
        /\ \A i \in 1 .. Len(less) : less[i] \in R /\ Cardinality(StrongerIn(R, less[i])) = i - 1
    <2>1. ListedOnce(less, R)
      OBVIOUS
    <2> HIDE DEF R
    <2>2. /\ less \in Seq(R) /\ Len(less) = Cardinality(R)
          /\ \A i \in 1 .. Len(less) : Cardinality(StrongerIn(R, less[i])) = i - 1
      BY <2>1 DEF ListedOnce
    <2>3. \A i \in 1 .. Len(less) : less[i] \in R
      BY <2>2
    <2> QED
      BY <2>2, <2>3
  <1>3. x \in S /\ IsFiniteSet(S)
    BY <1>1 DEF Ranked
  <1>4. Len(less) = L - 1
    BY <1>1, <1>2, <1>3, FS_RemoveElement, ZenonT(60)
  <1>5. Ranked(R)
    BY FS_Subset DEF Ranked
  <1>6. \A c, d \in S : ~(Stronger(c, d) /\ Stronger(d, c))
    BY StrengthOrders
  <1> HIDE DEF x
  <1>7. ASSUME NEW i \in 1 .. L - 1
        PROVE  At(order, m, i) \in R /\ Cardinality(StrongerIn(R, At(order, m, i))) = i - 1
    <2>1. CASE i < m
      <3> DEFINE c == order[i]
      <3>1. i \in 1 .. L /\ Stronger(c, x)
        BY <1>1, <2>1 DEF x
      <3>2. c \in S /\ c # x /\ Cardinality(StrongerIn(S, c)) = i - 1
        BY <1>1, <1>3, <1>6, <3>1
      <3>3. StrongerIn(R, c) = StrongerIn(S, c)
        BY <1>3, <1>6, <3>1, <3>2 DEF StrongerIn
      <3> QED
        BY <2>1, <3>2, <3>3 DEF At
    <2>2. CASE ~(i < m)
      <3> DEFINE c == order[i + 1]
      <3>1. i + 1 \in 1 .. L /\ m < i + 1
        BY <1>1, <2>2
      <3>2. Stronger(x, c) /\ c \in S /\ Cardinality(StrongerIn(S, c)) = (i + 1) - 1
        BY <1>1, <3>1 DEF x
      <3>3. c # x
        BY <1>3, <1>6, <3>2
      <3>4. StrongerIn(R, c) = StrongerIn(S, c) \ {x} /\ x \in StrongerIn(S, c)
        BY <1>3, <3>2 DEF StrongerIn
      <3>5. IsFiniteSet(StrongerIn(S, c))
        BY <1>3, FS_Subset DEF StrongerIn
      <3> HIDE DEF c, R
      <3>6. Cardinality(StrongerIn(R, c)) = Cardinality(StrongerIn(S, c)) - 1
        BY <3>4, <3>5, FS_RemoveElement
      <3>7. Cardinality(StrongerIn(R, c)) = i - 1
        BY <3>2, <3>6
      <3> QED
        BY <2>2, <3>2, <3>3, <3>7 DEF At, c, R
    <2> QED
      BY <2>1, <2>2
  <1> HIDE DEF R, L
  <1>8. \A c, d \in R : Cardinality(StrongerIn(R, c)) = Cardinality(StrongerIn(R, d)) => c = d
    <2> SUFFICES ASSUME NEW c \in R, NEW d \in R, Cardinality(StrongerIn(R, c)) = Cardinality(StrongerIn(R, d)), c # d
                 PROVE  FALSE
      OBVIOUS
    <2>1. Stronger(c, d) \/ Stronger(d, c)
      BY <1>5, StrengthOrders
    <2>2. \A e \in R : Cardinality(StrongerIn(R, e)) \in 0 .. Cardinality(R) - 1
      BY <1>5, StrengthRanks
    <2>3. /\ Cardinality(R) \in Nat
          /\ Stronger(c, d) <=> Cardinality(StrongerIn(R, c)) < Cardinality(StrongerIn(R, d))
          /\ Stronger(d, c) <=> Cardinality(StrongerIn(R, d)) < Cardinality(StrongerIn(R, c))
      BY <1>5, StrengthRanks
    <2> QED
      BY <2>1, <2>2, <2>3
  <1>9. \A i \in 1 .. Len(less) : less[i] = At(order, m, i)
    <2> TAKE i \in 1 .. Len(less)
    <2>1. i \in 1 .. L - 1
      BY <1>4
    <2>2. less[i] \in R /\ Cardinality(StrongerIn(R, less[i])) = i - 1
      BY <1>2
    <2> QED
      BY <1>7, <1>8, <2>1, <2>2
  <1> QED
    BY <1>1, <1>4, <1>9 DEF L, Without

\* A candidate that shares a security with what was selected before it leaves no trace.
LEMMA RunWithout ==
  ASSUME NEW order, NEW m \in 1 .. Len(order), NEW taken, Run(order, Len(order), taken),
         Overlaps(order[m], taken[m - 1]), NEW less, Without(less, order, m),
         NEW rest, Run(less, Len(less), rest)
  PROVE  rest[Len(less)] = taken[Len(order)]
  <1> DEFINE L == Len(order)
             same(k) == rest[k] = IF k < m THEN taken[k] ELSE taken[k + 1]
             bad == {k \in Nat : k <= L - 1 /\ ~same(k)}
  <1>0. L \in Nat /\ Len(less) = L - 1 /\ \A i \in 1 .. L - 1 : less[i] = At(order, m, i)
    BY DEF Without
  <1>1. /\ taken[0] = <<>>
        /\ \A k \in 1 .. L : taken[k] = IF Overlaps(order[k], taken[k - 1]) THEN taken[k - 1]
                                       ELSE Append(taken[k - 1], order[k])
    <2>1. taken = [k \in 0 .. L |-> IF k = 0 THEN <<>>
                                    ELSE IF Overlaps(order[k], taken[k - 1]) THEN taken[k - 1]
                                    ELSE Append(taken[k - 1], order[k])]
      BY <1>0 DEF Run
    <2>2. 0 \in 0 .. L /\ \A k \in 1 .. L : k \in 0 .. L /\ k # 0
      BY <1>0
    <2> HIDE DEF L
    <2> QED
      BY <1>0, <2>1, <2>2
  <1>2. /\ rest[0] = <<>>
        /\ \A k \in 1 .. L - 1 : rest[k] = IF Overlaps(less[k], rest[k - 1]) THEN rest[k - 1]
                                          ELSE Append(rest[k - 1], less[k])
    <2>1. rest = [k \in 0 .. L - 1 |-> IF k = 0 THEN <<>>
                                       ELSE IF Overlaps(less[k], rest[k - 1]) THEN rest[k - 1]
                                       ELSE Append(rest[k - 1], less[k])]
      BY <1>0 DEF Run
    <2>2. 0 \in 0 .. L - 1 /\ \A k \in 1 .. L - 1 : k \in 0 .. L - 1 /\ k # 0
      BY <1>0
    <2> HIDE DEF L
    <2> QED
      BY <1>0, <2>1, <2>2
  <1>3. taken[m] = taken[m - 1]
    BY <1>0, <1>1
  <1>4. same(0)
    BY <1>0, <1>1, <1>2
  <1>5. ASSUME NEW k \in 1 .. L - 1, same(k - 1) PROVE same(k)
    <2>1. CASE k < m
      <3>1. rest[k - 1] = taken[k - 1] /\ less[k] = order[k] /\ k \in 1 .. L
        BY <1>0, <1>5, <2>1 DEF At
      <3> QED
        BY <1>0, <1>1, <1>2, <2>1, <3>1
    <2>2. CASE ~(k < m)
      <3>1. less[k] = order[k + 1] /\ k + 1 \in 1 .. L /\ (k + 1) - 1 = k
        BY <1>0, <2>2 DEF At
      <3>2. rest[k - 1] = taken[k]
        <4>1. CASE k = m
          BY <1>0, <1>3, <1>5, <4>1
        <4>2. CASE k # m
          <5>1. ~(k - 1 < m) /\ (k - 1) + 1 = k
            BY <1>0, <2>2, <4>2
          <5> QED
            BY <1>0, <1>5, <5>1
        <4> QED
          BY <1>0, <4>1, <4>2
      <3>3. rest[k] = taken[k + 1]
        BY <1>0, <1>1, <1>2, <3>1, <3>2
      <3> QED
        BY <1>0, <2>2, <3>3
    <2> QED
      BY <1>0, <2>1, <2>2
  <1>6. \A k \in 0 .. L - 1 : same(k)
    <2> SUFFICES ASSUME bad # {} PROVE FALSE
      OBVIOUS
    <2>1. PICK k \in bad : \A j \in bad : k <= j
      <3>1. bad \in SUBSET Nat
        OBVIOUS
      <3> HIDE DEF bad
      <3> QED
        BY <3>1, MinOfNaturals
    <2>2. k \in Nat /\ k <= L - 1 /\ ~same(k)
      BY <1>0, <2>1
    <2>3. k # 0
      BY <1>0, <1>4, <2>2
    <2>4. k \in 1 .. L - 1 /\ k - 1 \in Nat /\ k - 1 <= L - 1 /\ k - 1 < k
      BY <1>0, <2>2, <2>3
    <2>5. same(k - 1)
      <3>1. k - 1 \notin bad
        <4> HIDE DEF bad
        <4> QED
          BY <1>0, <2>1, <2>2, <2>4
      <3> HIDE DEF same
      <3> QED
        BY <1>0, <2>4, <3>1
    <2> HIDE DEF same, bad
    <2> QED
      BY <1>0, <1>5, <2>2, <2>4, <2>5
  <1>7. L - 1 \in 0 .. L - 1
    BY <1>0
  <1>8. same(L - 1)
    BY <1>0, <1>6, <1>7
  <1>9. CASE L - 1 < m
    <2>1. m = L
      BY <1>0, <1>9
    <2>2. rest[L - 1] = taken[m - 1]
      BY <1>0, <1>8, <1>9, <2>1
    <2> QED
      BY <1>0, <1>3, <2>1, <2>2
  <1>10. CASE ~(L - 1 < m)
    <2>1. rest[L - 1] = taken[(L - 1) + 1] /\ (L - 1) + 1 = L
      BY <1>0, <1>8, <1>10
    <2> QED
      BY <1>0, <2>1
  <1> QED
    BY <1>0, <1>9, <1>10

\* Candidates with weights that are numbers.
Weighed(V) == \A c \in V : \A leg \in c.legs : leg.weight \in Int \ {0}

\* A candidate in no conflict is in nobody's.
LEMMA ConflictsWithout ==
  ASSUME NEW V, Weighed(V), NEW x \in V \ Conflicted(V)
  PROVE  Conflicted(V \ {x}) = Conflicted(V)
  <1> DEFINE W == V \ {x}
  <1>1. \A c, d \in V : Opposed(c, d) => Opposed(d, c)
    <2> SUFFICES ASSUME NEW c \in V, NEW d \in V, NEW a \in c.legs, NEW b \in d.legs,
                        a.entity = b.entity, a.weight * b.weight < 0
                 PROVE  Opposed(d, c)
      BY DEF Opposed
    <2> DEFINE v == a.weight
               w == b.weight
    <2>1. v \in Int /\ w \in Int /\ v * w < 0
      BY DEF Weighed
    <2> HIDE DEF v, w
    <2>2. w * v < 0
      BY <2>1
    <2> QED
      BY <2>2 DEF Opposed, v, w
  <1>2. \A d \in V : d.id # x.id => ~Opposed(x, d)
    BY DEF Conflicted
  <1>3. \A c : c \in Conflicted(W) <=> c \in Conflicted(V)
    <2> TAKE c
    <2>1. ASSUME c \in Conflicted(W) PROVE c \in Conflicted(V)
      BY <2>1 DEF Conflicted
    <2>2. ASSUME c \in Conflicted(V) PROVE c \in Conflicted(W)
      <3>1. PICK d \in V : c \in V /\ c.id # d.id /\ Opposed(c, d)
        BY <2>2 DEF Conflicted
      <3>2. c # x
        BY <2>2
      <3>3. d # x
        <4> SUFFICES ASSUME d = x PROVE FALSE
          OBVIOUS
        <4>1. Opposed(d, c)
          BY <1>1, <3>1
        <4> QED
          BY <1>2, <3>1, <4>1
      <3> QED
        BY <3>1, <3>2, <3>3 DEF Conflicted
    <2> QED
      BY <2>1, <2>2
  <1>4. Conflicted(W) \subseteq Conflicted(V) /\ Conflicted(V) \subseteq Conflicted(W)
    BY <1>3
  <1> QED
    BY <1>4

\* The selection is the same without a candidate that lost to one of its members.
LEMMA SelectionWithout ==
  ASSUME NEW V, Ranked(V), Weighed(V), NEW x \in V \ Conflicted(V), x \notin RangeOf(Selected(V))
  PROVE  Selected(V \ {x}) = Selected(V)
  <1> DEFINE K == V \ Conflicted(V)
             W == V \ {x}
             J == W \ Conflicted(W)
             order == ByStrength(K)
             less == ByStrength(J)
             L == Len(order)
             M == Len(less)
  <1>1. J = K \ {x}
    BY ConflictsWithout
  <1>2. Ranked(K) /\ Ranked(J)
    BY FS_Subset DEF Ranked
  <1>3. ListedOnce(order, K) /\ ListedOnce(less, J)
    <2> HIDE DEF K, J
    <2> QED
      BY <1>2, ByStrengthLists
  <1>4. order \in Seq(K) /\ less \in Seq(J)
    BY <1>3 DEF ListedOnce
  <1>5. L \in Nat /\ M \in Nat
    <2> HIDE DEF K, J, order, less
    <2> QED
      BY <1>4
  <1>6. PICK m \in 1 .. L : order[m] = x
    BY <1>3 DEF ListedOnce
  <1>7. PICK taken : Run(order, L, taken) /\ Selected(V) = taken[L]
    <2>1. Len(ByStrength(V \ Conflicted(V))) \in Nat
      BY <1>5
    <2>2. \E t : Run(order, L, t) /\ Selected(V) = t[L]
      BY <2>1, SelectedRuns
    <2> QED
      BY <2>2
  <1>8. PICK rest : Run(less, M, rest) /\ Selected(W) = rest[M]
    <2>1. Len(ByStrength(W \ Conflicted(W))) \in Nat
      BY <1>5
    <2> HIDE DEF W
    <2>2. \E t : Run(less, M, t) /\ Selected(W) = t[M]
      BY <2>1, SelectedRuns
    <2> QED
      BY <2>2
  <1> HIDE DEF K, W, J, order, less
  <1>9. Overlaps(order[m], taken[m - 1])
    <2>1. Keeps(order, taken, K, L)
      <3>1. L \in 0 .. L
        BY <1>5
      <3> QED
        BY <1>4, <1>7, <3>1, RunKeeps
    <2>2. x \in RangeOf(taken[L]) <=> \E k \in 1 .. L : x = order[k] /\ ~Overlaps(order[k], taken[k - 1])
      BY <2>1 DEF Keeps
    <2> QED
      BY <1>6, <1>7, <2>2
  <1>10. ListedOnce(less, K \ {order[m]})
    BY <1>1, <1>3, <1>6
  <1>11. Without(less, order, m)
    BY <1>2, <1>3, <1>10, OrderWithout
  <1>12. rest[M] = taken[L]
    BY <1>7, <1>8, <1>9, <1>11, RunWithout
  <1> QED
    BY <1>7, <1>8, <1>12 DEF W

\* The names of the refusals are not those of the losses.
LEMMA RefusalsNamed ==
  ASSUME NEW i, NEW state, NEW at
  PROVE  /\ RefusalOf(i, state, at) # "SAME_SECURITY_DUPLICATE"
         /\ RefusalOf(i, state, at) # "OPPOSITE_DIRECTION_CONFLICT"
  <1> DEFINE unknown == i.alpha \notin DOMAIN Registry
             disabled == ~Registry[i.alpha].enabled
             scored == i.kind = "SIGNAL" /\ ~i.evidence
             exits == i.kind = "PAIR" /\ i.action # "ENTER"
             mismatch == i.kind # "PAIR" /\ i.master # Master.id
             unbound == ~CausallyBound(i, Universe, state, at)
             ineligible == \E t \in DOMAIN i.legs : ~EligibleLeg(t, i.legs[t], Master, Universe, Day(at))
             uneven == ~UnitGross(i)
  <1>1. RefusalOf(i, state, at) =
          IF unknown THEN "UNKNOWN_ALPHA"
          ELSE IF disabled THEN "ALPHA_DISABLED"
          ELSE IF scored THEN "SCORED_EVIDENCE_REQUIRED"
          ELSE IF exits THEN "EXIT_IS_NO_ALLOCATION"
          ELSE IF mismatch THEN "MASTER_MISMATCH"
          ELSE IF unbound THEN "CAUSAL_PROVENANCE_MISMATCH"
          ELSE IF ineligible THEN "INELIGIBLE_LEG"
          ELSE IF uneven THEN "WEIGHTS_WITHOUT_UNIT_GROSS"
          ELSE ""
    BY DEF RefusalOf, Refusal
  <1> HIDE DEF unknown, disabled, scored, exits, mismatch, unbound, ineligible, uneven
  <1> QED
    BY <1>1

\* What is known of a decision that resolved the conflicts of its intents.
Resolves(e, I, V, state, at) ==
  /\ Ranked(V) /\ Weighed(V) /\ Survivors(e.candidates, V \ Conflicted(V)) /\ e.candidates = Selected(V)
  /\ \A i \in ValidOf(I, state, at) :
       /\ Candidate(i, Master) \in V /\ Candidate(i, Master).id = i.id
       /\ FewLegs(i.legs) /\ Candidate(i, Master).legs = {LegOf(i.legs, t) : t \in DOMAIN i.legs}
  /\ e.rejected = [id \in IdsOf(I) \ IdsOf(RangeOf(e.candidates)) |-> ReasonFor(id, I, state, at)]

\* normalize_intents resolves the conflicts of sound intents: the candidates are the survivors, and every
\* other intent has its reason.
LEMMA ResolutionKnown ==
  ASSUME NEW I, IntentsSound(I), NEW state, NEW at, NEW e, NormalizedFrom(e, I, state, at), Resolved(I, state, at)
  PROVE  Resolves(e, I, CandidatesFrom(I, state, at), state, at)
  <1> DEFINE V == CandidatesFrom(I, state, at)
  <1>1. Ranked(V)
    BY CandidatesRanked
  <1>2. \A i \in ValidOf(I, state, at) :
          /\ Candidate(i, Master) \in V /\ Candidate(i, Master).id = i.id /\ SoundCandidate(Candidate(i, Master))
          /\ FewLegs(i.legs) /\ Candidate(i, Master).legs = {LegOf(i.legs, t) : t \in DOMAIN i.legs}
    <2> TAKE i \in ValidOf(I, state, at)
    <2>1. i.id \in Int /\ i.score \in Int /\ FewLegs(i.legs) /\ RefusalOf(i, state, at) = ""
      BY DEF ValidOf, IntentsSound
    <2>2. MetadataAvailable(Master, Universe, state, at)
      BY DEF Resolved
    <2>3. Candidate(i, Master) \in V
      BY DEF CandidatesFrom
    <2> HIDE DEF V
    <2> QED
      BY <2>1, <2>2, <2>3, ValidCandidate
  <1>3. Weighed(V)
    <2>1. \A c \in V : SoundCandidate(c)
      BY <1>2 DEF CandidatesFrom
    <2> HIDE DEF V
    <2> QED
      BY <2>1 DEF Weighed, SoundCandidate, Legs
  <1>4. e.candidates = Selected(V)
    BY DEF NormalizedFrom
  <1>5. e.rejected = [id \in IdsOf(I) \ IdsOf(RangeOf(e.candidates)) |-> ReasonFor(id, I, state, at)]
    BY DEF NormalizedFrom
  <1> HIDE DEF V
  <1>6. Survivors(e.candidates, V \ Conflicted(V))
    BY <1>1, <1>4, SelectionSurvives
  <1>7. Resolves(e, I, V, state, at)
    BY <1>1, <1>2, <1>3, <1>4, <1>5, <1>6 DEF Resolves
  <1> QED
    BY <1>7 DEF V

\* Who lost: an intent that is refused, in a conflict, or as a duplicate.
LostAs(i, e, I, state, at) ==
  /\ i.id \notin IdsOf(RangeOf(e.candidates))
  /\ \/ RefusalOf(i, state, at) # "" /\ e.rejected[i.id] = RefusalOf(i, state, at)
     \/ /\ RefusalOf(i, state, at) = "" /\ i.id \in IdsOf(Conflicted(CandidatesFrom(I, state, at)))
        /\ e.rejected[i.id] = "OPPOSITE_DIRECTION_CONFLICT"
     \/ /\ RefusalOf(i, state, at) = "" /\ i.id \notin IdsOf(Conflicted(CandidatesFrom(I, state, at)))
        /\ e.rejected[i.id] = "SAME_SECURITY_DUPLICATE"

\* An intent that lost was refused, in a conflict, or the duplicate of a stronger one.
LEMMA LosersKnown ==
  ASSUME NEW I, NEW state, NEW at, NEW e, NEW V, Resolves(e, I, V, state, at),
         \A i, j \in I : i.id = j.id => i = j,
         NEW i \in I, i.id \in DOMAIN e.rejected
  PROVE  LostAs(i, e, I, state, at)
  <1> DEFINE F == IdsOf(I) \ IdsOf(RangeOf(e.candidates))
             r == [id \in F |-> ReasonFor(id, I, state, at)]
  <1>1. e.rejected = r
    BY DEF Resolves
  <1>2. i.id \in F /\ e.rejected[i.id] = ReasonFor(i.id, I, state, at)
    <2> HIDE DEF F
    <2> QED
      BY <1>1
  <1>3. (CHOOSE j \in I : j.id = i.id) = i
    OBVIOUS
  <1>4. ReasonFor(i.id, I, state, at) =
          IF RefusalOf(i, state, at) # "" THEN RefusalOf(i, state, at)
          ELSE IF i.id \in IdsOf(Conflicted(CandidatesFrom(I, state, at))) THEN "OPPOSITE_DIRECTION_CONFLICT"
          ELSE "SAME_SECURITY_DUPLICATE"
    BY <1>3 DEF ReasonFor
  <1>5. LostAs(i, e, I, state, at)
    BY <1>2, <1>4 DEF LostAs
  <1> QED
    BY <1>5

\* The candidates that the intents of the last decision had.
Field == CandidatesFrom(Intents, ensemble.identity.state, ensemble.at)

\* A decision that was blocked has no candidates and names no losers.
LEMMA BlockedHasNone ==
  ASSUME EnsembleSound(ensemble), ~Resolved(Intents, ensemble.identity.state, ensemble.at)
  PROVE  /\ Chosen = {} /\ ensemble.reason # "NORMALIZED_CONFLICTS_RESOLVED"
         /\ Because("SAME_SECURITY_DUPLICATE") = {} /\ Because("OPPOSITE_DIRECTION_CONFLICT") = {}
  <1>1. /\ ensemble.candidates = <<>> /\ ensemble.reason # "NORMALIZED_CONFLICTS_RESOLVED"
        /\ ensemble.rejected = [id \in IdsOf(Intents) |-> ensemble.reason]
        /\ ensemble.reason \in {"NORMALIZATION_METADATA_UNAVAILABLE", "CONFLICTING_SIGNAL_ID"}
    BY DEF EnsembleSound, NormalizedFrom, Intents
  <1>2. \A id \in DOMAIN ensemble.rejected : ensemble.rejected[id] = ensemble.reason
    <2> DEFINE r == ensemble.reason
    <2>1. ensemble.rejected = [id \in IdsOf(Intents) |-> r]
      BY <1>1
    <2> HIDE DEF r
    <2>2. \A id \in DOMAIN ensemble.rejected : ensemble.rejected[id] = r
      BY <2>1
    <2> QED
      BY <2>2 DEF r
  <1>3. Chosen = {}
    BY <1>1 DEF Chosen
  <1> QED
    BY <1>1, <1>2, <1>3 DEF Because

\* What a decision that was not blocked chose and rejected.
LEMMA ResolvedChose ==
  ASSUME EnsembleSound(ensemble), Resolved(Intents, ensemble.identity.state, ensemble.at)
  PROVE  /\ Resolves(ensemble, Intents, Field, ensemble.identity.state, ensemble.at)
         /\ Chosen = RangeOf(ensemble.candidates)
         /\ \A i, j \in Intents : i.id = j.id => i = j
  <1> DEFINE I == Intents
             state == ensemble.identity.state
             at == ensemble.at
             e == ensemble
  <1>1. IntentsSound(I) /\ NormalizedFrom(e, I, state, at) /\ Resolved(I, state, at)
    BY DEF EnsembleSound, Intents
  <1>2. Chosen = RangeOf(e.candidates)
    BY DEF Chosen, RangeOf
  <1> HIDE DEF I, state, at, e
  <1>3. Resolves(e, I, CandidatesFrom(I, state, at), state, at)
    BY <1>1, ResolutionKnown
  <1>4. \A i, j \in I : i.id = j.id => i = j
    BY <1>1 DEF Resolved
  <1> QED
    BY <1>2, <1>3, <1>4 DEF Field, I, state, at, e

\* A duplicate lost without a conflict, and a conflict is one of a candidate.
LEMMA LosersOfField ==
  ASSUME EnsembleSound(ensemble), Resolved(Intents, ensemble.identity.state, ensemble.at),
         NEW i \in Intents, i.id \in DOMAIN ensemble.rejected
  PROVE  /\ i.id \notin IdsOf(Chosen)
         /\ \/ RefusalOf(i, ensemble.identity.state, ensemble.at) # ""
            \/ /\ i \in ValidOf(Intents, ensemble.identity.state, ensemble.at)
               /\ Candidate(i, Master) \in Field \ Chosen
         /\ i.id \in Because("SAME_SECURITY_DUPLICATE") \cup Because("OPPOSITE_DIRECTION_CONFLICT") =>
              i \in ValidOf(Intents, ensemble.identity.state, ensemble.at)
         /\ i.id \in Because("SAME_SECURITY_DUPLICATE") => Candidate(i, Master) \in Field \ Conflicted(Field)
         /\ i.id \notin Because("OPPOSITE_DIRECTION_CONFLICT") =>
              \/ RefusalOf(i, ensemble.identity.state, ensemble.at) # ""
              \/ Candidate(i, Master) \in Field \ Conflicted(Field)
  <1> DEFINE I == Intents
             state == ensemble.identity.state
             at == ensemble.at
             e == ensemble
             V == Field
             c == Candidate(i, Master)
             refusal == RefusalOf(i, state, at)
             because == e.rejected[i.id]
  <1>1. Resolves(e, I, V, state, at) /\ Chosen = RangeOf(e.candidates) /\ \A j, k \in I : j.id = k.id => j = k
    BY ResolvedChose
  <1>2. i \in I /\ i.id \in DOMAIN e.rejected /\ V = CandidatesFrom(I, state, at)
    BY DEF Field
  <1>9. (i.id \in Because("SAME_SECURITY_DUPLICATE") <=> because = "SAME_SECURITY_DUPLICATE")
        /\ (i.id \in Because("OPPOSITE_DIRECTION_CONFLICT") <=> because = "OPPOSITE_DIRECTION_CONFLICT")
    BY DEF Because
  <1> HIDE DEF I, state, at, e, V
  <1>3. /\ i.id \notin IdsOf(RangeOf(e.candidates))
        /\ \/ refusal # "" /\ because = refusal
           \/ refusal = "" /\ i.id \in IdsOf(Conflicted(V)) /\ because = "OPPOSITE_DIRECTION_CONFLICT"
           \/ refusal = "" /\ i.id \notin IdsOf(Conflicted(V)) /\ because = "SAME_SECURITY_DUPLICATE"
    <2>1. LostAs(i, e, I, state, at)
      BY <1>1, <1>2, LosersKnown
    <2> QED
      BY <1>2, <2>1 DEF LostAs
  <1>4. refusal # "SAME_SECURITY_DUPLICATE" /\ refusal # "OPPOSITE_DIRECTION_CONFLICT"
    BY RefusalsNamed
  <1>5. refusal = "" => i \in ValidOf(I, state, at)
    BY <1>2 DEF ValidOf
  <1>6. i \in ValidOf(I, state, at) => c \in V /\ c.id = i.id
    BY <1>1 DEF Resolves
  <1> HIDE DEF refusal, because, c
  <1>7. c \in V /\ c.id = i.id /\ i.id \notin IdsOf(Conflicted(V)) => c \notin Conflicted(V)
    BY DEF IdsOf
  <1>8. c.id = i.id => c \notin Chosen
    BY <1>1, <1>3 DEF IdsOf
  <1>10. i.id \notin IdsOf(Chosen)
    BY <1>1, <1>3
  <1> QED
    BY <1>3, <1>4, <1>5, <1>6, <1>7, <1>8, <1>9, <1>10 DEF I, state, at, V, c, refusal

\* phase-12-allocation.md: no candidates overlap, and none opposes an intent that
\* would normalize.
LEMMA NoContradiction ==
  ASSUME EnsembleSound(ensemble)
  PROVE  CandidatesDoNotContradict
  <1> DEFINE state == ensemble.identity.state
             at == ensemble.at
             V == Field
  <1>1. CASE ~Resolved(Intents, state, at)
    <2>1. Chosen = {}
      BY <1>1, BlockedHasNone
    <2> QED
      BY <2>1 DEF CandidatesDoNotContradict
  <1>2. CASE Resolved(Intents, state, at)
    <2>1. Resolves(ensemble, Intents, V, state, at) /\ Chosen = RangeOf(ensemble.candidates)
      BY <1>2, ResolvedChose
    <2>2. Weighed(V) /\ Survivors(ensemble.candidates, V \ Conflicted(V))
      BY <2>1 DEF Resolves
    <2>3. \A c, d \in Chosen : c # d => EntitiesOf(c) \cap EntitiesOf(d) = {}
      BY <2>1, <2>2 DEF Survivors, Share
    <2>4. \A c \in Chosen : c \in V \ Conflicted(V)
      <3> DEFINE K == V \ Conflicted(V)
                 s == ensemble.candidates
      <3>1. s \in Seq(K) /\ Chosen = {s[n] : n \in DOMAIN s}
        BY <2>2 DEF Survivors, Chosen
      <3> HIDE DEF K, s
      <3>2. \A c \in Chosen : c \in K
        BY <3>1
      <3> QED
        BY <3>2 DEF K
    <2>5. ASSUME NEW i \in Intents, NEW c \in Chosen,
                 i.id \in Because("SAME_SECURITY_DUPLICATE") \/ i.id \in Because("OPPOSITE_DIRECTION_CONFLICT"),
                 NEW t \in DOMAIN i.legs, NEW leg \in c.legs, InstrumentOf(Master, t).entity = leg.entity
          PROVE  i.legs[t] * leg.weight > 0
      <3>1. i.id \in DOMAIN ensemble.rejected
        BY <2>5 DEF Because
      <3>2. i \in ValidOf(Intents, state, at) /\ i.id \notin IdsOf(Chosen)
        BY <1>2, <2>5, <3>1, LosersOfField
      <3> DEFINE d == Candidate(i, Master)
                 other == LegOf(i.legs, t)
                 x == i.legs[t]
                 v == leg.weight
                 w == other.weight
      <3>3. d \in V /\ d.id = i.id /\ FewLegs(i.legs) /\ d.legs = {LegOf(i.legs, u) : u \in DOMAIN i.legs}
        BY <2>1, <3>2 DEF Resolves
      <3>4. c.id # d.id
        BY <3>2, <3>3 DEF IdsOf
      <3>5. c \in V /\ ~Opposed(c, d)
        BY <2>4, <3>3, <3>4 DEF Conflicted
      <3>6. other \in d.legs /\ other.entity = leg.entity
        BY <2>5, <3>3 DEF LegOf
      <3>7. v \in Int \ {0} /\ w \in Int \ {0} /\ x \in Int \ {0} /\ (w > 0 <=> x > 0)
        <4>1. w \in Int /\ (x > 0 => w >= 0) /\ (x < 0 => w <= 0)
          BY <3>3, WeightsInProportion
        <4>2. x \in Int \ {0}
          BY <3>3 DEF FewLegs
        <4>3. v \in Int \ {0}
          BY <2>2, <3>5 DEF Weighed
        <4>4. w \in Int \ {0}
          BY <2>2, <3>3, <3>6 DEF Weighed
        <4> HIDE DEF v, w, x
        <4> QED
          BY <4>1, <4>2, <4>3, <4>4
      <3>8. ~(v * w < 0)
        BY <3>5, <3>6 DEF Opposed
      <3> HIDE DEF v, w, x
      <3>9. v > 0 <=> w > 0
        <4>1. CASE v > 0 /\ w < 0
          <5>1. v * (-w) > 0 /\ v * w = -(v * (-w))
            BY <3>7, <4>1
          <5> QED
            BY <3>7, <3>8, <5>1
        <4>2. CASE v < 0 /\ w > 0
          <5>1. (-v) * w > 0 /\ v * w = -((-v) * w)
            BY <3>7, <4>2
          <5> QED
            BY <3>7, <3>8, <5>1
        <4> QED
          BY <3>7, <4>1, <4>2
      <3>10. x * v > 0
        <4>1. CASE x > 0
          <5>1. v > 0
            BY <3>7, <3>9, <4>1
          <5> QED
            BY <3>7, <4>1, <5>1
        <4>2. CASE x < 0
          <5>1. v < 0
            BY <3>7, <3>9, <4>2
          <5>2. x * v = (-x) * (-v) /\ (-x) > 0 /\ (-v) > 0
            BY <3>7, <4>2, <5>1
          <5> QED
            BY <3>7, <5>2
        <4> QED
          BY <3>7, <4>1, <4>2
      <3> QED
        BY <3>10 DEF x, v
    <2>6. \A i \in Intents, c \in Chosen :
            (i.id \in Because("SAME_SECURITY_DUPLICATE") \/ i.id \in Because("OPPOSITE_DIRECTION_CONFLICT")) =>
              \A t \in DOMAIN i.legs, leg \in c.legs :
                InstrumentOf(Master, t).entity = leg.entity => i.legs[t] * leg.weight > 0
      BY <2>5
    <2> QED
      BY <2>3, <2>6 DEF CandidatesDoNotContradict
  <1> QED
    BY <1>1, <1>2

\* A duplicate lost to a stronger candidate that is really there.
LEMMA LosersLost ==
  ASSUME EnsembleSound(ensemble)
  PROVE  LosersLostToAWinner
  <1> DEFINE state == ensemble.identity.state
             at == ensemble.at
             V == Field
  <1>1. CASE ~Resolved(Intents, state, at)
    <2>1. Because("SAME_SECURITY_DUPLICATE") = {}
      BY <1>1, BlockedHasNone
    <2> QED
      BY <2>1 DEF LosersLostToAWinner
  <1>2. CASE Resolved(Intents, state, at)
    <2>1. Resolves(ensemble, Intents, V, state, at) /\ Chosen = RangeOf(ensemble.candidates)
      BY <1>2, ResolvedChose
    <2>2. Survivors(ensemble.candidates, V \ Conflicted(V))
      BY <2>1 DEF Resolves
    <2>3. ASSUME NEW i \in Intents, i.id \in Because("SAME_SECURITY_DUPLICATE")
          PROVE  \E c \in Chosen : /\ Stronger(c, Candidate(i, Master))
                                   /\ EntitiesOf(c) \cap EntitiesOf(Candidate(i, Master)) # {}
      <3>1. i.id \in DOMAIN ensemble.rejected
        BY <2>3 DEF Because
      <3> DEFINE d == Candidate(i, Master)
      <3>2. i \in ValidOf(Intents, state, at) /\ i.id \notin IdsOf(Chosen) /\ d \in V \ Conflicted(V)
        BY <1>2, <2>3, <3>1, LosersOfField
      <3>3. d.id = i.id
        BY <2>1, <3>2 DEF Resolves
      <3>4. d \notin Chosen
        BY <3>2, <3>3 DEF IdsOf
      <3> HIDE DEF d, V
      <3>5. \E c \in Chosen : Stronger(c, d) /\ Share(c, d)
        BY <2>1, <2>2, <3>2, <3>4 DEF Survivors
      <3> QED
        BY <3>5 DEF Share, d
    <2> QED
      BY <2>3 DEF LosersLostToAWinner
  <1> QED
    BY <1>1, <1>2

\* Without an intent that is refused or is a duplicate the candidates are the same.
LEMMA NoInterference ==
  ASSUME EnsembleSound(ensemble)
  PROVE  RejectedDoNotInterfere
  <1> DEFINE I == Intents
             state == ensemble.identity.state
             at == ensemble.at
             V == Field
             e == ensemble
  <1> SUFFICES ASSUME ensemble.reason = "NORMALIZED_CONFLICTS_RESOLVED", NEW i \in Intents,
                      i.id \in DOMAIN ensemble.rejected \ Because("OPPOSITE_DIRECTION_CONFLICT")
               PROVE  NormalizeIntents(I \ {i}, Master, Universe, state, at).candidates = e.candidates
    BY DEF RejectedDoNotInterfere
  <1> DEFINE J == I \ {i}
             f == NormalizeIntents(J, Master, Universe, state, at)
             c == Candidate(i, Master)
  <1>1. Resolved(I, state, at)
    BY BlockedHasNone
  <1>2. Resolves(e, I, V, state, at) /\ Chosen = RangeOf(e.candidates)
        /\ \A j, k \in I : j.id = k.id => j = k
    BY <1>1, ResolvedChose
  <1>3. i.id \notin IdsOf(Chosen)
        /\ (RefusalOf(i, state, at) # "" \/ (c \in V \ Conflicted(V) /\ RefusalOf(i, state, at) = ""))
    <2>1. /\ i.id \notin IdsOf(Chosen)
          /\ RefusalOf(i, state, at) # "" \/ c \in V \ Conflicted(V)
      BY <1>1, LosersOfField
    <2> QED
      BY <2>1
  <1>4. i \in I
    OBVIOUS
  <1>12. V = CandidatesFrom(I, state, at)
    BY DEF Field
  <1> HIDE DEF I, state, at, V, e, f
  <1>5. Resolved(J, state, at)
    BY <1>1 DEF Resolved
  <1>6. f.candidates = Selected(CandidatesFrom(J, state, at))
    <2>1. NormalizedFrom(f, J, state, at)
      <3> HIDE DEF J
      <3> QED
        BY NormalizeDecides DEF f
    <2> HIDE DEF J
    <2> QED
      BY <1>5, <2>1 DEF NormalizedFrom
  <1>7. e.candidates = Selected(V) /\ Ranked(V) /\ Weighed(V)
        /\ \A j \in ValidOf(I, state, at) : Candidate(j, Master) \in V /\ Candidate(j, Master).id = j.id
    BY <1>2 DEF Resolves
  <1>8. CASE RefusalOf(i, state, at) # ""
    <2>1. ValidOf(J, state, at) = ValidOf(I, state, at)
      BY <1>8 DEF ValidOf
    <2>2. CandidatesFrom(J, state, at) = V
      BY <1>12, <2>1 DEF CandidatesFrom
    <2> QED
      BY <1>6, <1>7, <2>2 DEF f
  <1>9. CASE c \in V \ Conflicted(V) /\ RefusalOf(i, state, at) = ""
    <2>1. i \in ValidOf(I, state, at) /\ ValidOf(J, state, at) = ValidOf(I, state, at) \ {i}
      BY <1>4, <1>9 DEF ValidOf
    <2>2. c.id = i.id
      BY <1>7, <2>1
    <2>3. CandidatesFrom(J, state, at) = V \ {c}
      <3>1. \A j \in ValidOf(I, state, at) : j \in I
        BY DEF ValidOf
      <3>2. \A j \in ValidOf(I, state, at) : j # i => Candidate(j, Master) # c
        BY <1>2, <1>4, <1>7, <2>2, <3>1
      <3>3. \A x : x \in CandidatesFrom(J, state, at) <=> x \in V \ {c}
        BY <1>12, <2>1, <3>2 DEF CandidatesFrom
      <3>4. CandidatesFrom(J, state, at) \subseteq V \ {c} /\ V \ {c} \subseteq CandidatesFrom(J, state, at)
        BY <3>3
      <3> QED
        BY <3>4
    <2>4. c \notin RangeOf(Selected(V))
      BY <1>2, <1>3, <1>7, <2>2 DEF IdsOf
    <2> HIDE DEF c
    <2>5. Selected(V \ {c}) = Selected(V)
      BY <1>7, <1>9, <2>4, SelectionWithout
    <2> QED
      BY <1>6, <1>7, <2>3, <2>5 DEF f
  <1> QED
    BY <1>3, <1>8, <1>9 DEF f, I, state, at, e

\* SelectionIsFair: no two candidates of normalize_intents share a security, none opposes an intent that would
\* normalize, a duplicate lost to a stronger candidate that is there, and without an intent that was refused
\* or is a duplicate the candidates are the same.
THEOREM SelectionsAreFair == DeskSpec => []SelectionIsFair
  <1>1. DeskInv => SelectionIsFair
    <2> SUFFICES ASSUME DeskInv PROVE SelectionIsFair
      OBVIOUS
    <2>1. CASE ensemble = Absent
      BY <2>1 DEF SelectionIsFair, CandidatesDoNotContradict, LosersLostToAWinner, RejectedDoNotInterfere
    <2>2. CASE ensemble # Absent
      <3>1. EnsembleSound(ensemble)
        BY <2>2 DEF DeskInv
      <3> QED
        BY <3>1, NoContradiction, LosersLost, NoInterference DEF SelectionIsFair
    <2> QED
      BY <2>1, <2>2
  <1> QED
    BY <1>1, DeskInvariant, PTL

-----------------------------------------------------------------------------
(* The types of the desk. *)

\* A decision names every intent once: as a candidate on the scale of strengths, of an alpha that is
\* registered, or with a reason.
LEMMA NormalizedTypes ==
  ASSUME NEW I, IntentsSound(I), NEW state, NEW at, NEW e, NormalizedFrom(e, I, state, at)
  PROVE  /\ \A c \in RangeOf(e.candidates) : c.strength \in 0 .. One /\ c.alpha \in DOMAIN Registry
         /\ IdsOf(I) = IdsOf(RangeOf(e.candidates)) \cup DOMAIN e.rejected
         /\ IdsOf(RangeOf(e.candidates)) \cap DOMAIN e.rejected = {}
  <1> DEFINE C == RangeOf(e.candidates)
  <1>1. \A c \in C : \E i \in I : c = Candidate(i, Master) /\ Candidate(i, Master).id = i.id /\ SoundCandidate(c)
    <2>1. \A c \in C : \E n \in DOMAIN e.candidates : c = e.candidates[n]
      BY DEF RangeOf
    <2> HIDE DEF C
    <2> QED
      BY <2>1, NormalizedCandidates
  <1>2. IdsOf(C) \subseteq IdsOf(I)
    <2> HIDE DEF C
    <2> QED
      BY <1>1 DEF IdsOf
  <1>3. \A c \in C : c.strength \in 0 .. One /\ c.alpha \in DOMAIN Registry
    <2> SUFFICES ASSUME NEW c \in C
                 PROVE  c.strength \in 0 .. One /\ c.alpha \in DOMAIN Registry
      OBVIOUS
    <2> HIDE DEF C
    <2>1. PICK i \in I : c = Candidate(i, Master) /\ SoundCandidate(c)
      BY <1>1
    <2>2. c.alpha = i.alpha /\ c.strength = Strength(i)
      BY <2>1 DEF Candidate
    <2>3. c.alpha \in DOMAIN Registry /\ i.score \in Int
      BY <2>1 DEF SoundCandidate, IntentsSound
    <2>4. Strength(i) \in Nat /\ Strength(i) <= One
      BY <2>2, <2>3, StrengthIsNatural
    <2>5. One \in Nat
      BY UnitsArePositive
    <2> QED
      BY <2>2, <2>3, <2>4, <2>5
  <1>4. \/ DOMAIN e.rejected = IdsOf(I) \ IdsOf(C)
        \/ C = {} /\ DOMAIN e.rejected = IdsOf(I)
    <2>1. CASE Resolved(I, state, at)
      BY <2>1 DEF NormalizedFrom
    <2>2. CASE ~Resolved(I, state, at)
      <3>1. e.candidates = <<>> /\ DOMAIN e.rejected = IdsOf(I)
        BY <2>2 DEF NormalizedFrom
      <3> QED
        BY <3>1 DEF RangeOf
    <2> QED
      BY <2>1, <2>2
  <1>5. C = {} => IdsOf(C) = {}
    BY DEF IdsOf
  <1> HIDE DEF C
  <1>6. IdsOf(I) = IdsOf(C) \cup DOMAIN e.rejected /\ IdsOf(C) \cap DOMAIN e.rejected = {}
    BY <1>2, <1>4, <1>5
  <1> QED
    BY <1>3, <1>6 DEF C

\* DeskTypeOK: in every cycle of the desk each intent has one outcome, on the scale, and what is held is
\* committed with a risk that can be summed.
THEOREM DeskTypes == DeskSpec => []DeskTypeOK
  <1>1. DeskInv => DeskTypeOK
    <2> SUFFICES ASSUME DeskInv PROVE DeskTypeOK
      OBVIOUS
    <2>1. ASSUME ensemble # Absent
          PROVE  /\ \A c \in Chosen : c.strength \in 0 .. One /\ c.alpha \in DOMAIN Registry
                 /\ IdsOf(Intents) = IdsOf(Chosen) \cup DOMAIN ensemble.rejected
                 /\ IdsOf(Chosen) \cap DOMAIN ensemble.rejected = {}
      <3> DEFINE I == Intents
                 state == ensemble.identity.state
                 at == ensemble.at
                 e == ensemble
      <3>1. IntentsSound(I) /\ NormalizedFrom(e, I, state, at)
        BY <2>1 DEF DeskInv, EnsembleSound, Intents
      <3>2. Chosen = RangeOf(e.candidates)
        BY DEF Chosen, RangeOf
      <3> HIDE DEF I, state, at, e
      <3>3. /\ \A c \in RangeOf(e.candidates) : c.strength \in 0 .. One /\ c.alpha \in DOMAIN Registry
            /\ IdsOf(I) = IdsOf(RangeOf(e.candidates)) \cup DOMAIN e.rejected
            /\ IdsOf(RangeOf(e.candidates)) \cap DOMAIN e.rejected = {}
        BY <3>1, NormalizedTypes
      <3> QED
        BY <3>2, <3>3 DEF I, e
    <2>2. clock \in Instant /\ \A p \in book : p.risk \in Nat /\ p.notional \in Int /\ ~p.proposed
      BY DEF DeskInv, BookSound, Positions
    <2> QED
      BY <2>1, <2>2 DEF DeskTypeOK
  <1> QED
    BY <1>1, DeskInvariant, PTL
=============================================================================
