-------------------------- MODULE AllocationProofs --------------------------
(***************************************************************************)
(* What allocate decides, for all settings, inputs and candidates: the     *)
(* sums it rests on, the limits of one candidate, and the invariant of     *)
(* its loop, by which every cap holds after every turn, and every budget   *)
(* up to the rounding of the legs.  What holds by induction over a set or  *)
(* over the turns is proved by a smallest counterexample.                  *)
(***************************************************************************)
EXTENDS Allocator, FiniteSetTheorems, WellFoundedInduction, TLAPS

\* A set of natural numbers that is not empty has a least one.
LEMMA MinOfNaturals ==
  ASSUME NEW S \in SUBSET Nat, S # {}
  PROVE  Min(S) \in S /\ \A n \in S : Min(S) <= n
  <1>1. PICK n \in S : \A m \in S : <<m, n>> \notin OpToRel(<, Nat)
    BY NatLessThanWellFounded, WFMin
  <1>2. \A m \in S : ~(m < n)
    BY <1>1 DEF OpToRel
  <1>3. \A m \in S : n <= m
    BY <1>2
  <1> QED
    BY <1>1, <1>3 DEF Min

\* Among some subsets of a finite set there is a smallest.
LEMMA SmallestSubset ==
  ASSUME NEW S, IsFiniteSet(S), NEW Some \in SUBSET SUBSET S, Some # {}
  PROVE  \E T \in Some : \A U \in Some : U \subseteq T => U = T
  <1> DEFINE sizes == {Cardinality(T) : T \in Some}
  <1>1. \A T \in Some : IsFiniteSet(T) /\ Cardinality(T) \in Nat
    BY FS_Subset, FS_CardinalityType
  <1>2. sizes \in SUBSET Nat /\ sizes # {}
    BY <1>1
  <1>3. PICK n \in sizes : \A m \in sizes : n <= m
    <2> HIDE DEF sizes
    <2> QED
      BY <1>2, MinOfNaturals
  <1>5. PICK T \in Some : n = Cardinality(T)
    BY <1>3
  <1>6. ASSUME NEW U \in Some, U \subseteq T PROVE U = T
    <2>1. Cardinality(U) <= Cardinality(T) /\ (Cardinality(T) = Cardinality(U) => T = U)
      BY <1>1, <1>6, FS_Subset
    <2>2. Cardinality(T) <= Cardinality(U)
      BY <1>3, <1>5
    <2> QED
      BY <1>1, <2>1, <2>2
  <1> QED
    BY <1>6

-----------------------------------------------------------------------------
(* Sums over finite sets.  SumFunctionOnSet takes the members in an order of its own. *)

\* The member that a fold takes out of a set first, and the sum that it then continues.
Pick(s) == CHOOSE x \in s : TRUE
Step(f, g, s) == IF s = {} THEN 0 ELSE f[Pick(s)] + g[s \ {Pick(s)}]
\* g says for every subset of S what f adds up to on it.
IsSummation(g, f, S) == g = [s \in SUBSET S |-> Step(f, g, s)]

\* Two functions that both say what f adds up to on the subsets of S are one.
LEMMA SummationsAgree ==
  ASSUME NEW f, NEW A, IsFiniteSet(A), NEW B, NEW g, IsSummation(g, f, A), NEW h, IsSummation(h, f, B),
         NEW T \in SUBSET A, T \in SUBSET B
  PROVE  g[T] = h[T]
  <1> DEFINE bad == {s \in SUBSET A : s \subseteq B /\ g[s] # h[s]}
  <1> SUFFICES ASSUME bad # {} PROVE FALSE
    OBVIOUS
  <1>1. PICK s \in bad : \A U \in bad : U \subseteq s => U = s
    <2>1. bad \in SUBSET SUBSET A
      OBVIOUS
    <2> HIDE DEF bad
    <2> QED
      BY <2>1, SmallestSubset
  <1>2. s \subseteq A /\ s \subseteq B /\ g[s] # h[s]
    BY <1>1
  <1>3. g[s] = Step(f, g, s) /\ h[s] = Step(f, h, s)
    BY <1>2 DEF IsSummation
  <1>4. s # {}
    BY <1>2, <1>3 DEF Step
  <1>5. Pick(s) \in s
    BY <1>4 DEF Pick
  <1>6. g[s \ {Pick(s)}] = h[s \ {Pick(s)}]
    BY <1>1, <1>2, <1>5
  <1> QED
    BY <1>2, <1>3, <1>4, <1>6 DEF Step

\* Over a finite set there is a function that says what f adds up to on the subsets.
LEMMA SummationExists ==
  ASSUME NEW f, NEW S, IsFiniteSet(S)
  PROVE  \E g : IsSummation(g, f, S)
  <1> DEFINE bad == {T \in SUBSET S : ~\E g : IsSummation(g, f, T)}
  <1> SUFFICES ASSUME bad # {} PROVE FALSE
    OBVIOUS
  <1>1. PICK T \in bad : \A U \in bad : U \subseteq T => U = T
    <2>1. bad \in SUBSET SUBSET S
      OBVIOUS
    <2> HIDE DEF bad
    <2> QED
      BY <2>1, SmallestSubset
  <1>2. IsFiniteSet(T) /\ T \subseteq S
    BY <1>1, FS_Subset
  <1> DEFINE over(s) == CHOOSE g : IsSummation(g, f, s)
  <1>3. \A s \in SUBSET T : s # T => IsSummation(over(s), f, s)
    BY <1>1
  <1> DEFINE g == [s \in SUBSET T |-> IF s = {} THEN 0
                                     ELSE f[Pick(s)] + over(s \ {Pick(s)})[s \ {Pick(s)}]]
  <1> HIDE DEF over
  <1>4. \A s \in SUBSET T : s # {} => Pick(s) \in s
    BY DEF Pick
  <1>5. ASSUME NEW s \in SUBSET T, s # T PROVE g[s] = over(s)[s]
    <2>1. IsSummation(over(s), f, s)
      BY <1>3, <1>5
    <2>2. over(s)[s] = Step(f, over(s), s)
      BY <2>1 DEF IsSummation
    <2>3. CASE s = {}
      BY <2>2, <2>3 DEF Step
    <2>4. CASE s # {}
      <3> DEFINE rest == s \ {Pick(s)}
      <3>1. rest \in SUBSET s /\ rest \in SUBSET T /\ rest # T
        BY <1>4, <2>4
      <3>2. IsSummation(over(rest), f, rest)
        BY <1>3, <3>1
      <3>3. IsFiniteSet(s)
        BY <1>2, FS_Subset
      <3>4. over(s)[rest] = over(rest)[rest]
        <4> HIDE DEF rest
        <4> QED
          BY <2>1, <3>1, <3>2, <3>3, SummationsAgree
      <3> QED
        BY <2>2, <2>4, <3>4 DEF Step
    <2> QED
      BY <2>3, <2>4
  <1>6. \A s \in SUBSET T : g[s] = Step(f, g, s)
    <2> TAKE s \in SUBSET T
    <2>1. CASE s = {}
      BY <2>1 DEF Step
    <2>2. CASE s # {}
      <3> DEFINE rest == s \ {Pick(s)}
      <3>1. rest \in SUBSET T /\ rest # T
        BY <1>4, <2>2
      <3>2. g[rest] = over(rest)[rest]
        BY <1>5, <3>1
      <3>3. g[s] = f[Pick(s)] + over(rest)[rest]
        BY <2>2
      <3> QED
        BY <2>2, <3>2, <3>3 DEF Step
    <2> QED
      BY <2>1, <2>2
  <1>7. IsSummation(g, f, T)
    <2>1. DOMAIN g = SUBSET T /\ g = [s \in SUBSET T |-> g[s]]
      OBVIOUS
    <2> HIDE DEF g
    <2> QED
      BY <1>6, <2>1 DEF IsSummation
  <1> QED
    BY <1>1, <1>7

\* SumFunctionOnSet, by which the allocator sums exposures, is what such a function says.
LEMMA SumIsSummation ==
  ASSUME NEW f, NEW S, IsFiniteSet(S)
  PROVE  \E g : IsSummation(g, f, S) /\ SumFunctionOnSet(f, S) = g[S]
  <1> DEFINE iter == CHOOSE g : IsSummation(g, f, S)
  <1>1. SumFunctionOnSet(f, S) = iter[S]
    BY DEF SumFunctionOnSet, FoldFunctionOnSet, MapThenFoldSet, IsSummation, Step, Pick
  <1>2. IsSummation(iter, f, S)
    BY SummationExists
  <1> QED
    BY <1>1, <1>2

\* A sum is the member that is picked plus the sum of the others.
LEMMA SumUnfolds ==
  ASSUME NEW f, NEW S, IsFiniteSet(S), S # {}
  PROVE  Pick(S) \in S /\ SumFunctionOnSet(f, S) = f[Pick(S)] + SumFunctionOnSet(f, S \ {Pick(S)})
  <1> DEFINE rest == S \ {Pick(S)}
  <1>1. Pick(S) \in S
    BY DEF Pick
  <1>2. rest \in SUBSET S /\ IsFiniteSet(rest)
    BY FS_Subset
  <1>3. PICK g : IsSummation(g, f, S) /\ SumFunctionOnSet(f, S) = g[S]
    BY SumIsSummation
  <1>4. PICK h : IsSummation(h, f, rest) /\ SumFunctionOnSet(f, rest) = h[rest]
    <2> HIDE DEF rest
    <2> QED
      BY <1>2, SumIsSummation
  <1>5. g[S] = f[Pick(S)] + g[rest]
    BY <1>3 DEF IsSummation, Step
  <1>6. g[rest] = h[rest]
    <2> HIDE DEF rest
    <2> QED
      BY <1>2, <1>3, <1>4, SummationsAgree
  <1> QED
    BY <1>1, <1>3, <1>4, <1>5, <1>6

\* Nothing adds up to zero.
LEMMA SumOfNothing ==
  ASSUME NEW f
  PROVE  SumFunctionOnSet(f, {}) = 0
  <1>1. IsFiniteSet({})
    BY FS_EmptySet
  <1>2. PICK g : IsSummation(g, f, {}) /\ SumFunctionOnSet(f, {}) = g[{}]
    BY <1>1, SumIsSummation
  <1> QED
    BY <1>2 DEF IsSummation, Step

\* A sum of integers is an integer, one of natural numbers a natural number.
LEMMA SumIsInteger ==
  ASSUME NEW S, IsFiniteSet(S), NEW f, \A x \in S : f[x] \in Int
  PROVE  SumFunctionOnSet(f, S) \in Int
  <1> DEFINE bad == {T \in SUBSET S : SumFunctionOnSet(f, T) \notin Int}
  <1> SUFFICES ASSUME bad # {} PROVE FALSE
    OBVIOUS
  <1>1. PICK T \in bad : \A U \in bad : U \subseteq T => U = T
    <2>1. bad \in SUBSET SUBSET S
      OBVIOUS
    <2> HIDE DEF bad
    <2> QED
      BY <2>1, SmallestSubset
  <1>2. T \subseteq S /\ IsFiniteSet(T) /\ SumFunctionOnSet(f, T) \notin Int
    BY <1>1, FS_Subset
  <1>3. T # {}
    BY <1>2, SumOfNothing
  <1>4. Pick(T) \in T /\ SumFunctionOnSet(f, T) = f[Pick(T)] + SumFunctionOnSet(f, T \ {Pick(T)})
    BY <1>2, <1>3, SumUnfolds
  <1>5. SumFunctionOnSet(f, T \ {Pick(T)}) \in Int
    BY <1>1, <1>2, <1>4
  <1> QED
    BY <1>2, <1>4, <1>5

\* Any member may be taken out first.
LEMMA SumWithout ==
  ASSUME NEW S, IsFiniteSet(S), NEW f, \A x \in S : f[x] \in Int, NEW x \in S
  PROVE  SumFunctionOnSet(f, S) = f[x] + SumFunctionOnSet(f, S \ {x})
  <1> DEFINE bad == {T \in SUBSET S : \E y \in T : SumFunctionOnSet(f, T) # f[y] + SumFunctionOnSet(f, T \ {y})}
  <1> SUFFICES ASSUME bad # {} PROVE FALSE
    OBVIOUS
  <1>1. PICK T \in bad : \A U \in bad : U \subseteq T => U = T
    <2>1. bad \in SUBSET SUBSET S
      OBVIOUS
    <2> HIDE DEF bad
    <2> QED
      BY <2>1, SmallestSubset
  <1>2. T \subseteq S /\ IsFiniteSet(T)
    BY <1>1, FS_Subset
  <1>3. PICK y \in T : SumFunctionOnSet(f, T) # f[y] + SumFunctionOnSet(f, T \ {y})
    BY <1>1
  <1> DEFINE z == Pick(T)
             both == T \ {y, z}
  <1>4. z \in T /\ SumFunctionOnSet(f, T) = f[z] + SumFunctionOnSet(f, T \ {z})
    BY <1>2, <1>3, SumUnfolds
  <1> HIDE DEF z
  <1>5. y # z
    BY <1>3, <1>4
  <1>6. /\ T \ {z} \notin bad /\ T \ {z} \subseteq S /\ y \in T \ {z} /\ (T \ {z}) \ {y} = both
        /\ T \ {y} \notin bad /\ T \ {y} \subseteq S /\ z \in T \ {y} /\ (T \ {y}) \ {z} = both
    <2> HIDE DEF bad
    <2>1. T \ {z} \notin bad /\ T \ {y} \notin bad
      BY <1>1, <1>3, <1>4
    <2> QED
      BY <1>2, <1>3, <1>4, <1>5, <2>1
  <1>7. SumFunctionOnSet(f, T \ {z}) = f[y] + SumFunctionOnSet(f, both)
    BY <1>6
  <1>8. SumFunctionOnSet(f, T \ {y}) = f[z] + SumFunctionOnSet(f, both)
    BY <1>6
  <1>9. SumFunctionOnSet(f, both) \in Int
    <2>1. IsFiniteSet(both)
      BY <1>2, FS_Subset
    <2>2. \A u \in both : f[u] \in Int
      BY <1>2
    <2> HIDE DEF both
    <2> QED
      BY <2>1, <2>2, SumIsInteger
  <1>10. f[y] \in Int /\ f[z] \in Int
    BY <1>2, <1>3, <1>4
  <1> QED
    BY <1>3, <1>4, <1>7, <1>8, <1>9, <1>10

\* Sums compare term by term.
LEMMA SumsCompare ==
  ASSUME NEW S, IsFiniteSet(S), NEW f, \A x \in S : f[x] \in Int, NEW g, \A x \in S : g[x] \in Int /\ f[x] <= g[x]
  PROVE  SumFunctionOnSet(f, S) <= SumFunctionOnSet(g, S)
  <1> DEFINE bad == {T \in SUBSET S : ~(SumFunctionOnSet(f, T) <= SumFunctionOnSet(g, T))}
  <1> SUFFICES ASSUME bad # {} PROVE FALSE
    OBVIOUS
  <1>1. PICK T \in bad : \A U \in bad : U \subseteq T => U = T
    <2>1. bad \in SUBSET SUBSET S
      OBVIOUS
    <2> HIDE DEF bad
    <2> QED
      BY <2>1, SmallestSubset
  <1>2. T \subseteq S /\ IsFiniteSet(T)
    BY <1>1, FS_Subset
  <1>3. T # {}
    <2>1. ~(SumFunctionOnSet(f, T) <= SumFunctionOnSet(g, T))
      BY <1>1
    <2>2. SumFunctionOnSet(f, {}) = 0 /\ SumFunctionOnSet(g, {}) = 0
      BY SumOfNothing
    <2> HIDE DEF bad
    <2> QED
      BY <2>1, <2>2
  <1> DEFINE x == Pick(T)
             rest == T \ {x}
  <1>4. /\ x \in T
        /\ SumFunctionOnSet(f, T) = f[x] + SumFunctionOnSet(f, rest)
        /\ SumFunctionOnSet(g, T) = g[x] + SumFunctionOnSet(g, rest)
    BY <1>2, <1>3, SumUnfolds
  <1> HIDE DEF x
  <1>5. rest \subseteq S /\ IsFiniteSet(rest) /\ rest \notin bad
    <2>1. rest \subseteq T /\ rest # T
      BY <1>4
    <2>2. IsFiniteSet(rest)
      BY <1>2, <2>1, FS_Subset
    <2> HIDE DEF bad, rest
    <2> QED
      BY <1>1, <1>2, <2>1, <2>2
  <1>6. SumFunctionOnSet(f, rest) <= SumFunctionOnSet(g, rest)
    BY <1>5
  <1> HIDE DEF rest
  <1>7. SumFunctionOnSet(f, rest) \in Int /\ SumFunctionOnSet(g, rest) \in Int
    BY <1>5, SumIsInteger
  <1>8. f[x] \in Int /\ g[x] \in Int /\ f[x] <= g[x]
    BY <1>2, <1>4
  <1>9. SumFunctionOnSet(f, T) <= SumFunctionOnSet(g, T)
    BY <1>4, <1>6, <1>7, <1>8
  <1> QED
    BY <1>1, <1>9

\* Only the members of the set matter.
LEMMA SumsAgree ==
  ASSUME NEW S, IsFiniteSet(S), NEW f, \A x \in S : f[x] \in Int, NEW g, \A x \in S : g[x] = f[x]
  PROVE  SumFunctionOnSet(f, S) = SumFunctionOnSet(g, S)
  <1>1. \A x \in S : f[x] \in Int /\ g[x] \in Int /\ f[x] <= g[x] /\ g[x] <= f[x]
    OBVIOUS
  <1>2. SumFunctionOnSet(f, S) <= SumFunctionOnSet(g, S) /\ SumFunctionOnSet(g, S) <= SumFunctionOnSet(f, S)
    BY <1>1, SumsCompare
  <1>3. SumFunctionOnSet(f, S) \in Int /\ SumFunctionOnSet(g, S) \in Int
    BY <1>1, SumIsInteger
  <1> QED
    BY <1>2, <1>3

\* A sum of nothing negative is not negative.
LEMMA SumIsNatural ==
  ASSUME NEW S, IsFiniteSet(S), NEW f, \A x \in S : f[x] \in Nat
  PROVE  SumFunctionOnSet(f, S) \in Nat
  <1> DEFINE bad == {T \in SUBSET S : SumFunctionOnSet(f, T) \notin Nat}
  <1> SUFFICES ASSUME bad # {} PROVE FALSE
    OBVIOUS
  <1>1. PICK T \in bad : \A U \in bad : U \subseteq T => U = T
    <2>1. bad \in SUBSET SUBSET S
      OBVIOUS
    <2> HIDE DEF bad
    <2> QED
      BY <2>1, SmallestSubset
  <1>2. T \subseteq S /\ IsFiniteSet(T) /\ SumFunctionOnSet(f, T) \notin Nat
    BY <1>1, FS_Subset
  <1>3. T # {}
    BY <1>2, SumOfNothing
  <1>4. Pick(T) \in T /\ SumFunctionOnSet(f, T) = f[Pick(T)] + SumFunctionOnSet(f, T \ {Pick(T)})
    BY <1>2, <1>3, SumUnfolds
  <1>5. SumFunctionOnSet(f, T \ {Pick(T)}) \in Nat
    BY <1>1, <1>2, <1>4
  <1> QED
    BY <1>2, <1>4, <1>5

\* Disjoint sets add up.
LEMMA SumOfBoth ==
  ASSUME NEW S, IsFiniteSet(S), NEW T, IsFiniteSet(T), S \cap T = {},
         NEW f, \A x \in S \cup T : f[x] \in Int
  PROVE  SumFunctionOnSet(f, S \cup T) = SumFunctionOnSet(f, S) + SumFunctionOnSet(f, T)
  <1> DEFINE bad == {U \in SUBSET T : SumFunctionOnSet(f, S \cup U) # SumFunctionOnSet(f, S) + SumFunctionOnSet(f, U)}
  <1> SUFFICES ASSUME bad # {} PROVE FALSE
    OBVIOUS
  <1>1. PICK U \in bad : \A V \in bad : V \subseteq U => V = U
    <2>1. bad \in SUBSET SUBSET T
      OBVIOUS
    <2> HIDE DEF bad
    <2> QED
      BY <2>1, SmallestSubset
  <1>2. U \subseteq T /\ IsFiniteSet(U) /\ IsFiniteSet(S \cup U)
    BY <1>1, FS_Subset, FS_Union
  <1>0. SumFunctionOnSet(f, S) \in Int
    BY SumIsInteger
  <1>3. U # {}
    <2>1. S \cup {} = S /\ SumFunctionOnSet(f, {}) = 0
      BY SumOfNothing
    <2>2. SumFunctionOnSet(f, S \cup U) # SumFunctionOnSet(f, S) + SumFunctionOnSet(f, U)
      BY <1>1
    <2> HIDE DEF bad
    <2>3. CASE U = {}
      <3>1. S \cup U = S
        BY <2>3
      <3>2. SumFunctionOnSet(f, S) # SumFunctionOnSet(f, S) + 0
        BY <2>1, <2>2, <2>3, <3>1
      <3> QED
        BY <1>0, <3>2
    <2> QED
      BY <2>3
  <1>4. PICK x : x \in U
    BY <1>3
  <1> DEFINE rest == U \ {x}
  <1>5. rest \subseteq T /\ rest \notin bad /\ IsFiniteSet(rest)
    <2>1. rest \subseteq U /\ rest # U
      BY <1>4
    <2>2. IsFiniteSet(rest)
      BY <1>2, <2>1, FS_Subset
    <2> HIDE DEF bad, rest
    <2> QED
      BY <1>1, <1>2, <2>1, <2>2
  <1>6. SumFunctionOnSet(f, S \cup rest) = SumFunctionOnSet(f, S) + SumFunctionOnSet(f, rest)
    BY <1>5
  <1>7. SumFunctionOnSet(f, U) = f[x] + SumFunctionOnSet(f, rest)
    <2>1. \A y \in U : f[y] \in Int
      BY <1>2
    <2> QED
      BY <1>2, <1>4, <2>1, SumWithout
  <1>8. SumFunctionOnSet(f, S \cup U) = f[x] + SumFunctionOnSet(f, S \cup rest)
    <2>1. \A y \in S \cup U : f[y] \in Int
      BY <1>2
    <2>2. x \in S \cup U /\ (S \cup U) \ {x} = S \cup rest
      BY <1>2, <1>4
    <2>3. SumFunctionOnSet(f, S \cup U) = f[x] + SumFunctionOnSet(f, (S \cup U) \ {x})
      BY <1>2, <2>1, <2>2, SumWithout
    <2> QED
      BY <2>2, <2>3
  <1>9. SumFunctionOnSet(f, rest) \in Int /\ f[x] \in Int
    <2>1. \A y \in rest : f[y] \in Int
      BY <1>2
    <2> HIDE DEF rest
    <2>2. SumFunctionOnSet(f, rest) \in Int
      BY <1>5, <2>1, SumIsInteger
    <2> QED
      BY <1>2, <1>4, <2>2
  <1> HIDE DEF rest
  <1>10. SumFunctionOnSet(f, S \cup U) = SumFunctionOnSet(f, S) + SumFunctionOnSet(f, U)
    BY <1>0, <1>6, <1>7, <1>8, <1>9
  <1> QED
    BY <1>1, <1>10

\* A common factor comes out of the sum.
LEMMA SumOfMultiples ==
  ASSUME NEW S, IsFiniteSet(S), NEW f, \A x \in S : f[x] \in Int, NEW k \in Int,
         NEW g, \A x \in S : g[x] = k * f[x]
  PROVE  SumFunctionOnSet(g, S) = k * SumFunctionOnSet(f, S)
  <1> DEFINE bad == {T \in SUBSET S : SumFunctionOnSet(g, T) # k * SumFunctionOnSet(f, T)}
  <1> SUFFICES ASSUME bad # {} PROVE FALSE
    OBVIOUS
  <1>1. PICK T \in bad : \A U \in bad : U \subseteq T => U = T
    <2>1. bad \in SUBSET SUBSET S
      OBVIOUS
    <2> HIDE DEF bad
    <2> QED
      BY <2>1, SmallestSubset
  <1>2. T \subseteq S /\ IsFiniteSet(T)
    BY <1>1, FS_Subset
  <1>3. T # {}
    <2>1. SumFunctionOnSet(g, {}) = 0 /\ SumFunctionOnSet(f, {}) = 0 /\ k * 0 = 0
      BY SumOfNothing
    <2>2. SumFunctionOnSet(g, T) # k * SumFunctionOnSet(f, T)
      BY <1>1
    <2> HIDE DEF bad
    <2> QED
      BY <2>1, <2>2
  <1> DEFINE x == Pick(T)
             rest == T \ {x}
  <1>4. /\ x \in T
        /\ SumFunctionOnSet(f, T) = f[x] + SumFunctionOnSet(f, rest)
        /\ SumFunctionOnSet(g, T) = g[x] + SumFunctionOnSet(g, rest)
    BY <1>2, <1>3, SumUnfolds
  <1> HIDE DEF x
  <1>5. rest \subseteq S /\ IsFiniteSet(rest) /\ rest \notin bad
    <2>1. rest \subseteq T /\ rest # T
      BY <1>4
    <2>2. IsFiniteSet(rest)
      BY <1>2, <2>1, FS_Subset
    <2> HIDE DEF bad, rest
    <2> QED
      BY <1>1, <1>2, <2>1, <2>2
  <1>6. SumFunctionOnSet(g, rest) = k * SumFunctionOnSet(f, rest)
    BY <1>5
  <1> HIDE DEF rest
  <1>7. SumFunctionOnSet(f, rest) \in Int
    BY <1>5, SumIsInteger
  <1>8. f[x] \in Int /\ g[x] = k * f[x]
    BY <1>2, <1>4
  <1>9. k * (f[x] + SumFunctionOnSet(f, rest)) = k * f[x] + k * SumFunctionOnSet(f, rest)
    BY <1>7, <1>8
  <1>10. SumFunctionOnSet(g, T) = k * SumFunctionOnSet(f, T)
    BY <1>4, <1>6, <1>8, <1>9
  <1> QED
    BY <1>1, <1>10

\* The same terms, carried over to another set one by one.
LEMMA SumsCorrespond ==
  ASSUME NEW S, IsFiniteSet(S), NEW h, NEW f, \A x \in S : f[x] \in Int,
         \A x, y \in S : h[x] = h[y] => x = y,
         NEW g, \A x \in S : g[h[x]] = f[x]
  PROVE  IsFiniteSet({h[x] : x \in S}) /\ SumFunctionOnSet(g, {h[x] : x \in S}) = SumFunctionOnSet(f, S)
  <1> DEFINE over(T) == {h[x] : x \in T}
             bad == {T \in SUBSET S : ~(IsFiniteSet(over(T)) /\ SumFunctionOnSet(g, over(T)) = SumFunctionOnSet(f, T))}
  <1> SUFFICES ASSUME bad # {} PROVE FALSE
    OBVIOUS
  <1>1. PICK T \in bad : \A U \in bad : U \subseteq T => U = T
    <2>1. bad \in SUBSET SUBSET S
      OBVIOUS
    <2> HIDE DEF bad
    <2> QED
      BY <2>1, SmallestSubset
  <1>2. T \subseteq S /\ IsFiniteSet(T)
    BY <1>1, FS_Subset
  <1>3. T # {}
    <2>1. over({}) = {} /\ IsFiniteSet({})
      BY FS_EmptySet
    <2>2. SumFunctionOnSet(g, {}) = 0 /\ SumFunctionOnSet(f, {}) = 0
      BY SumOfNothing
    <2> QED
      BY <1>1, <2>1, <2>2
  <1>4. PICK x : x \in T
    BY <1>3
  <1> DEFINE rest == T \ {x}
  <1>5. rest \subseteq S /\ IsFiniteSet(rest) /\ rest \notin bad
    <2>1. rest \subseteq T /\ rest # T
      BY <1>4
    <2>2. IsFiniteSet(rest)
      BY <1>2, <2>1, FS_Subset
    <2> HIDE DEF bad, rest
    <2> QED
      BY <1>1, <1>2, <2>1, <2>2
  <1>6. IsFiniteSet(over(rest)) /\ SumFunctionOnSet(g, over(rest)) = SumFunctionOnSet(f, rest)
    BY <1>5
  <1>7. over(T) = over(rest) \cup {h[x]} /\ h[x] \notin over(rest) /\ over(T) \ {h[x]} = over(rest)
    BY <1>2, <1>4
  <1>8. IsFiniteSet(over(T))
    <2> HIDE DEF over
    <2>1. IsFiniteSet(over(rest) \cup {h[x]})
      <3> HIDE DEF rest
      <3> QED
        BY <1>6, FS_AddElement
    <2> QED
      BY <1>7, <2>1
  <1>9. SumFunctionOnSet(g, over(T)) = g[h[x]] + SumFunctionOnSet(g, over(rest))
    <2>1. \A y \in over(T) : g[y] \in Int
      BY <1>2
    <2>2. h[x] \in over(T)
      BY <1>4
    <2> HIDE DEF over
    <2>3. SumFunctionOnSet(g, over(T)) = g[h[x]] + SumFunctionOnSet(g, over(T) \ {h[x]})
      BY <1>8, <2>1, <2>2, SumWithout
    <2> QED
      BY <1>7, <2>3
  <1>10. SumFunctionOnSet(f, T) = f[x] + SumFunctionOnSet(f, rest)
    <2>1. \A y \in T : f[y] \in Int
      BY <1>2
    <2> QED
      BY <1>2, <1>4, <2>1, SumWithout
  <1>11. g[h[x]] = f[x]
    BY <1>2, <1>4
  <1> HIDE DEF over, rest
  <1>12. SumFunctionOnSet(g, over(T)) = SumFunctionOnSet(f, T)
    BY <1>6, <1>9, <1>10, <1>11
  <1> QED
    BY <1>1, <1>8, <1>12

\* Terms that exceed others by e at most add up to at most e more per term.
LEMMA SumsBounded ==
  ASSUME NEW S, IsFiniteSet(S), NEW f, NEW g, NEW e \in Int,
         \A x \in S : f[x] \in Int /\ g[x] \in Int /\ f[x] <= g[x] + e
  PROVE  /\ Cardinality(S) \in Nat
         /\ SumFunctionOnSet(f, S) <= SumFunctionOnSet(g, S) + e * Cardinality(S)
  <1> DEFINE bad == {T \in SUBSET S :
                       ~(SumFunctionOnSet(f, T) <= SumFunctionOnSet(g, T) + e * Cardinality(T))}
  <1>0. Cardinality(S) \in Nat
    BY FS_CardinalityType
  <1> SUFFICES ASSUME bad # {} PROVE FALSE
    BY <1>0
  <1>1. PICK T \in bad : \A U \in bad : U \subseteq T => U = T
    <2>1. bad \in SUBSET SUBSET S
      OBVIOUS
    <2> HIDE DEF bad
    <2> QED
      BY <2>1, SmallestSubset
  <1>2. T \subseteq S /\ IsFiniteSet(T)
    BY <1>1, FS_Subset
  <1>3. T # {}
    <2>1. ~(SumFunctionOnSet(f, T) <= SumFunctionOnSet(g, T) + e * Cardinality(T))
      BY <1>1
    <2>2. SumFunctionOnSet(f, {}) = 0 /\ SumFunctionOnSet(g, {}) = 0 /\ Cardinality({}) = 0
      BY SumOfNothing, FS_EmptySet
    <2>3. 0 <= 0 + e * 0
      OBVIOUS
    <2> HIDE DEF bad
    <2>4. CASE T = {}
      <3>1. ~(0 <= 0 + e * 0)
        BY <2>1, <2>2, <2>4
      <3> QED
        BY <2>3, <3>1
    <2> QED
      BY <2>4
  <1> DEFINE x == Pick(T)
             rest == T \ {x}
  <1>4. /\ x \in T
        /\ SumFunctionOnSet(f, T) = f[x] + SumFunctionOnSet(f, rest)
        /\ SumFunctionOnSet(g, T) = g[x] + SumFunctionOnSet(g, rest)
    BY <1>2, <1>3, SumUnfolds
  <1> HIDE DEF x
  <1>5. rest \subseteq S /\ IsFiniteSet(rest) /\ rest \notin bad
    <2>1. rest \subseteq T /\ rest # T
      BY <1>4
    <2>2. IsFiniteSet(rest)
      BY <1>2, <2>1, FS_Subset
    <2> HIDE DEF bad, rest
    <2> QED
      BY <1>1, <1>2, <2>1, <2>2
  <1>6. SumFunctionOnSet(f, rest) <= SumFunctionOnSet(g, rest) + e * Cardinality(rest)
    BY <1>5
  <1>7. Cardinality(T) = Cardinality(rest) + 1 /\ Cardinality(rest) \in Nat
    <2>1. Cardinality(rest) \in Nat /\ IsFiniteSet(rest)
      <3> HIDE DEF rest
      <3> QED
        BY <1>5, FS_CardinalityType
    <2>2. Cardinality(T \ {x}) = IF x \in T THEN Cardinality(T) - 1 ELSE Cardinality(T)
      BY <1>2, FS_RemoveElement
    <2>3. Cardinality(T) \in Nat
      BY <1>2, FS_CardinalityType
    <2> QED
      BY <1>4, <2>1, <2>2, <2>3
  <1> HIDE DEF rest
  <1>8. SumFunctionOnSet(f, rest) \in Int /\ SumFunctionOnSet(g, rest) \in Int
    BY <1>5, SumIsInteger
  <1>9. f[x] \in Int /\ g[x] \in Int /\ f[x] <= g[x] + e
    BY <1>2, <1>4
  <1>10. e * Cardinality(T) = e * Cardinality(rest) + e /\ e * Cardinality(rest) \in Int
    BY <1>7
  <1>11. SumFunctionOnSet(f, T) <= SumFunctionOnSet(g, T) + e * Cardinality(T)
    BY <1>4, <1>6, <1>8, <1>9, <1>10
  <1> QED
    BY <1>1, <1>11

\* Two numbers that are e apart at most.
Within(x, y, e) == x <= y + e /\ y <= x + e

\* Terms that are the quotients of others by d, to the nearest integer, add up to the
\* quotient of their sum, half a unit per term away at most.
LEMMA SumsNear ==
  ASSUME NEW S, IsFiniteSet(S), NEW f, NEW g, NEW d \in Nat,
         \A x \in S : f[x] \in Int /\ g[x] \in Int /\ Within(2 * (d * g[x]), 2 * f[x], d)
  PROVE  /\ SumFunctionOnSet(f, S) \in Int /\ SumFunctionOnSet(g, S) \in Int /\ Cardinality(S) \in Nat
         /\ Within(2 * (d * SumFunctionOnSet(g, S)), 2 * SumFunctionOnSet(f, S), d * Cardinality(S))
  <1> DEFINE ff == [x \in S |-> 2 * f[x]]
             gg == [x \in S |-> (2 * d) * g[x]]
  <1>1. \A x \in S : f[x] \in Int /\ g[x] \in Int /\ ff[x] = 2 * f[x] /\ gg[x] = (2 * d) * g[x]
    OBVIOUS
  <1> HIDE DEF ff, gg
  <1>2. \A x \in S : ff[x] \in Int /\ gg[x] \in Int /\ gg[x] <= ff[x] + d /\ ff[x] <= gg[x] + d
    <2> TAKE x \in S
    <2>1. f[x] \in Int /\ g[x] \in Int /\ ff[x] = 2 * f[x] /\ gg[x] = (2 * d) * g[x]
      BY <1>1
    <2>2. (2 * d) * g[x] = 2 * (d * g[x]) /\ d * g[x] \in Int
      BY <2>1
    <2>3. Within(2 * (d * g[x]), 2 * f[x], d)
      OBVIOUS
    <2> QED
      BY <2>1, <2>2, <2>3 DEF Within
  <1>3. d \in Int /\ 2 * d \in Int /\ 2 \in Int
    OBVIOUS
  <1>4. /\ Cardinality(S) \in Nat
        /\ SumFunctionOnSet(gg, S) <= SumFunctionOnSet(ff, S) + d * Cardinality(S)
        /\ SumFunctionOnSet(ff, S) <= SumFunctionOnSet(gg, S) + d * Cardinality(S)
    BY <1>2, <1>3, SumsBounded
  <1>5. SumFunctionOnSet(ff, S) = 2 * SumFunctionOnSet(f, S)
    BY <1>1, <1>3, SumOfMultiples
  <1>6. SumFunctionOnSet(gg, S) = (2 * d) * SumFunctionOnSet(g, S)
    <2> DEFINE k == 2 * d
    <2>1. k \in Int /\ \A x \in S : gg[x] = k * g[x]
      BY <1>1
    <2> HIDE DEF k
    <2>2. SumFunctionOnSet(gg, S) = k * SumFunctionOnSet(g, S)
      BY <1>1, <2>1, SumOfMultiples
    <2> QED
      BY <2>2 DEF k
  <1>7. SumFunctionOnSet(f, S) \in Int /\ SumFunctionOnSet(g, S) \in Int
    BY <1>1, SumIsInteger
  <1>8. (2 * d) * SumFunctionOnSet(g, S) = 2 * (d * SumFunctionOnSet(g, S))
    BY <1>7
  <1> QED
    BY <1>4, <1>5, <1>6, <1>7, <1>8 DEF Within

-----------------------------------------------------------------------------
(* Rounding to the nearest part. *)

\* A rounded quotient is half a unit from the exact one at most.
LEMMA RoundingIsNear ==
  ASSUME NEW n \in Int, NEW d \in Nat \ {0}
  PROVE  Rounded(n, d) \in Int /\ Within(2 * (d * Rounded(n, d)), 2 * n, d)
  <1> DEFINE q == n \div d
             m == n % d
  <1>1. q \in Int /\ m \in Int /\ 0 <= m /\ m < d /\ n = d * q + m
    OBVIOUS
  <1>2. Rounded(n, d) = (IF 2 * m < d \/ (2 * m = d /\ q % 2 = 0) THEN q ELSE q + 1)
    BY DEF Rounded
  <1> HIDE DEF q, m
  <1>3. d * (q + 1) = d * q + d /\ d * q \in Int
    BY <1>1
  <1>4. CASE Rounded(n, d) = q
    <2>1. 2 * m <= d
      BY <1>1, <1>2, <1>4
    <2> QED
      BY <1>1, <1>3, <1>4, <2>1 DEF Within
  <1>5. CASE Rounded(n, d) = q + 1
    <2>1. d <= 2 * m
      BY <1>1, <1>2, <1>5
    <2> QED
      BY <1>1, <1>3, <1>5, <2>1 DEF Within
  <1> QED
    BY <1>2, <1>4, <1>5

\* What is divided between multiples of the divisor is rounded between them.
LEMMA RoundedBetween ==
  ASSUME NEW n \in Int, NEW d \in Nat \ {0}, NEW m \in Int
  PROVE  /\ n <= d * m => Rounded(n, d) <= m
         /\ d * m <= n => m <= Rounded(n, d)
  <1> DEFINE r == Rounded(n, d)
  <1>1. r \in Int /\ Within(2 * (d * r), 2 * n, d)
    BY RoundingIsNear
  <1> HIDE DEF r
  <1>2. d * r \in Int /\ d * m \in Int
    BY <1>1
  <1>3. ASSUME n <= d * m, r > m PROVE FALSE
    <2>1. r - m - 1 \in Nat
      BY <1>1, <1>3
    <2>2. d * (r - m - 1) >= 0 /\ d * (r - m - 1) = d * r - d * m - d
      BY <1>1, <2>1
    <2> QED
      BY <1>1, <1>2, <1>3, <2>2 DEF Within
  <1>4. ASSUME d * m <= n, r < m PROVE FALSE
    <2>1. m - r - 1 \in Nat
      BY <1>1, <1>4
    <2>2. d * (m - r - 1) >= 0 /\ d * (m - r - 1) = d * m - d * r - d
      BY <1>1, <2>1
    <2> QED
      BY <1>1, <1>2, <1>4, <2>2 DEF Within
  <1> QED
    BY <1>1, <1>3, <1>4 DEF r

-----------------------------------------------------------------------------
(* Exposures of positions. *)

\* Positions that can be added up.
Positions(S) == IsFiniteSet(S) /\ \A p \in S : p.notional \in Int /\ p.risk \in Nat

\* abs: a magnitude is a natural number, and no number is beyond it.
LEMMA MagnitudeIsNatural == \A x \in Int : AbsoluteValue(x) \in Nat /\ x <= AbsoluteValue(x) /\ -x <= AbsoluteValue(x)
  BY DEF AbsoluteValue

\* _gross, _net and _risk of a finite set of positions are numbers, gross and risk not negative.
LEMMA ExposuresTyped ==
  ASSUME NEW S, Positions(S)
  PROVE  Gross(S) \in Nat /\ Net(S) \in Int /\ Risk(S) \in Nat
  <1> DEFINE f == [p \in S |-> AbsoluteValue(p.notional)]
             g == [p \in S |-> p.notional]
             h == [p \in S |-> p.risk]
  <1>1. Gross(S) = SumFunctionOnSet(f, S) /\ Net(S) = SumFunctionOnSet(g, S) /\ Risk(S) = SumFunctionOnSet(h, S)
    BY DEF Gross, Net, Risk, SumFunction
  <1>2. \A p \in S : f[p] \in Nat /\ g[p] \in Int /\ h[p] \in Nat
    BY MagnitudeIsNatural DEF Positions
  <1>3. IsFiniteSet(S)
    BY DEF Positions
  <1> HIDE DEF f, g, h
  <1> QED
    BY <1>1, <1>2, <1>3, SumIsNatural, SumIsInteger

\* The exposures of two sets of positions that share none add up.
LEMMA ExposuresAdd ==
  ASSUME NEW S, Positions(S), NEW T, Positions(T), S \cap T = {}
  PROVE  /\ Positions(S \cup T)
         /\ Gross(S \cup T) = Gross(S) + Gross(T)
         /\ Net(S \cup T) = Net(S) + Net(T)
         /\ Risk(S \cup T) = Risk(S) + Risk(T)
  <1>1. Positions(S \cup T)
    BY FS_Union DEF Positions
  <1> DEFINE f(U) == [p \in U |-> AbsoluteValue(p.notional)]
             g(U) == [p \in U |-> p.notional]
             h(U) == [p \in U |-> p.risk]
  <1>2. \A U : /\ Gross(U) = SumFunctionOnSet(f(U), U)
               /\ Net(U) = SumFunctionOnSet(g(U), U)
               /\ Risk(U) = SumFunctionOnSet(h(U), U)
    BY DEF Gross, Net, Risk, SumFunction
  <1>3. \A p \in S \cup T : f(S \cup T)[p] \in Int /\ g(S \cup T)[p] \in Int /\ h(S \cup T)[p] \in Int
    BY <1>1, MagnitudeIsNatural DEF Positions
  <1>4. \A p \in S : f(S)[p] = f(S \cup T)[p] /\ g(S)[p] = g(S \cup T)[p] /\ h(S)[p] = h(S \cup T)[p]
    OBVIOUS
  <1>5. \A p \in T : f(T)[p] = f(S \cup T)[p] /\ g(T)[p] = g(S \cup T)[p] /\ h(T)[p] = h(S \cup T)[p]
    OBVIOUS
  <1> DEFINE ff == f(S \cup T)
             gg == g(S \cup T)
             hh == h(S \cup T)
             fs == f(S)
             gs == g(S)
             hs == h(S)
             ft == f(T)
             gt == g(T)
             ht == h(T)
  <1>6. IsFiniteSet(S) /\ IsFiniteSet(T)
    BY DEF Positions
  <1>7. \A p \in S \cup T : ff[p] \in Int /\ gg[p] \in Int /\ hh[p] \in Int
    BY <1>3
  <1>8. \A p \in S : fs[p] = ff[p] /\ gs[p] = gg[p] /\ hs[p] = hh[p]
    BY <1>4
  <1>9. \A p \in T : ft[p] = ff[p] /\ gt[p] = gg[p] /\ ht[p] = hh[p]
    BY <1>5
  <1>10. /\ Gross(S \cup T) = SumFunctionOnSet(ff, S \cup T) /\ Net(S \cup T) = SumFunctionOnSet(gg, S \cup T)
         /\ Risk(S \cup T) = SumFunctionOnSet(hh, S \cup T)
         /\ Gross(S) = SumFunctionOnSet(fs, S) /\ Net(S) = SumFunctionOnSet(gs, S) /\ Risk(S) = SumFunctionOnSet(hs, S)
         /\ Gross(T) = SumFunctionOnSet(ft, T) /\ Net(T) = SumFunctionOnSet(gt, T) /\ Risk(T) = SumFunctionOnSet(ht, T)
    BY <1>2
  <1> HIDE DEF f, g, h, ff, gg, hh, fs, gs, hs, ft, gt, ht
  <1>11. /\ SumFunctionOnSet(ff, S) = SumFunctionOnSet(fs, S)
         /\ SumFunctionOnSet(gg, S) = SumFunctionOnSet(gs, S)
         /\ SumFunctionOnSet(hh, S) = SumFunctionOnSet(hs, S)
    BY <1>6, <1>7, <1>8, SumsAgree
  <1>12. /\ SumFunctionOnSet(ff, T) = SumFunctionOnSet(ft, T)
         /\ SumFunctionOnSet(gg, T) = SumFunctionOnSet(gt, T)
         /\ SumFunctionOnSet(hh, T) = SumFunctionOnSet(ht, T)
    BY <1>6, <1>7, <1>9, SumsAgree
  <1>13. /\ SumFunctionOnSet(ff, S \cup T) = SumFunctionOnSet(ff, S) + SumFunctionOnSet(ff, T)
         /\ SumFunctionOnSet(gg, S \cup T) = SumFunctionOnSet(gg, S) + SumFunctionOnSet(gg, T)
         /\ SumFunctionOnSet(hh, S \cup T) = SumFunctionOnSet(hh, S) + SumFunctionOnSet(hh, T)
    BY <1>6, <1>7, SumOfBoth
  <1> QED
    BY <1>1, <1>10, <1>11, <1>12, <1>13

\* What some of the legs of a candidate weigh.
Weigh(legs) == SumFunction([leg \in legs |-> AbsoluteValue(leg.weight)])
Signed(legs) == SumFunction([leg \in legs |-> leg.weight])

\* Legs as a candidate has them: each of another security, and no larger than the whole.
Legs(S) ==
  /\ IsFiniteSet(S) /\ \A x \in S : x.weight \in Int \ {0} /\ AbsoluteValue(x.weight) <= One
  /\ \A x, y \in S : x.entity = y.entity => x = y

\* What allocate proposes for a leg, and for some of the legs of a candidate.
PositionFor(leg, candidate, amount, risk) ==
  [entity |-> leg.entity, sector |-> leg.sector, alpha |-> candidate.alpha, group |-> candidate.id,
   notional |-> Times(amount, leg.weight), risk |-> Times(risk, AbsoluteValue(leg.weight)), proposed |-> TRUE]
PositionsFor(legs, candidate, amount, risk) == {PositionFor(leg, candidate, amount, risk) : leg \in legs}

\* The parts of 1 and the quantum are positive.
LEMMA UnitsArePositive == One \in Nat \ {0} /\ Quantum \in Nat \ {0}
  BY RegistryLoads

\* A product with a weight is near the exact one, on its side, and so is its magnitude.
LEMMA ProductsAreNear ==
  ASSUME NEW a \in Nat, NEW w \in Int
  PROVE  /\ Times(a, w) \in Int /\ AbsoluteValue(w) \in Nat /\ Times(a, AbsoluteValue(w)) \in Nat
         /\ (w >= 0 => Times(a, w) >= 0) /\ (w <= 0 => Times(a, w) <= 0)
         /\ Within(2 * (One * Times(a, w)), 2 * (a * w), One)
         /\ Within(2 * (One * AbsoluteValue(Times(a, w))), 2 * (a * AbsoluteValue(w)), One)
         /\ Within(2 * (One * Times(a, AbsoluteValue(w))), 2 * (a * AbsoluteValue(w)), One)
  <1> DEFINE v == AbsoluteValue(w)
             p == a * w
             q == a * v
             r == Times(a, w)
             s == Times(a, v)
  <1>0. One \in Nat \ {0} /\ One * 0 = 0
    BY UnitsArePositive
  <1>1. v \in Nat /\ (w >= 0 => v = w) /\ (w <= 0 => v = -w)
    BY DEF AbsoluteValue
  <1> HIDE DEF v
  <1>2. p \in Int /\ q \in Nat
    BY <1>1
  <1>3. /\ w >= 0 => p >= 0 /\ q = p
        /\ w <= 0 => p <= 0 /\ q = -p
    BY <1>1
  <1> HIDE DEF p, q
  <1>4. r = Rounded(p, One) /\ s = Rounded(q, One)
    BY DEF Times, p, q
  <1> HIDE DEF r, s
  <1>5. r \in Int /\ Within(2 * (One * r), 2 * p, One) /\ s \in Int /\ Within(2 * (One * s), 2 * q, One)
    BY <1>0, <1>2, <1>4, RoundingIsNear
  <1>6. (p >= 0 => r >= 0) /\ (p <= 0 => r <= 0) /\ s >= 0
    <2>1. 0 \in Int /\ (p <= One * 0 => Rounded(p, One) <= 0) /\ (One * 0 <= p => 0 <= Rounded(p, One))
                    /\ (One * 0 <= q => 0 <= Rounded(q, One))
      BY <1>0, <1>2, RoundedBetween
    <2> QED
      BY <1>0, <1>2, <1>4, <1>5, <2>1
  <1>7. Within(2 * (One * AbsoluteValue(r)), 2 * q, One)
    <2>1. One * r \in Int /\ One * (-r) = -(One * r)
      BY <1>0, <1>5
    <2>2. CASE w >= 0
      <3>1. AbsoluteValue(r) = r /\ q = p
        BY <1>3, <1>5, <1>6, <2>2 DEF AbsoluteValue
      <3> QED
        BY <1>5, <3>1
    <2>3. CASE w <= 0
      <3>1. AbsoluteValue(r) = -r /\ q = -p
        BY <1>3, <1>5, <1>6, <2>3 DEF AbsoluteValue
      <3> QED
        BY <1>0, <1>2, <1>5, <2>1, <3>1 DEF Within
    <2> QED
      BY <2>2, <2>3
  <1> QED
    BY <1>1, <1>3, <1>5, <1>6, <1>7 DEF p, q, r, s, v

\* The legs of a set, one at most for each, weigh that many wholes at most.
LEMMA LegsWeighLittle ==
  ASSUME NEW S, Legs(S)
  PROVE  /\ Cardinality(S) \in Nat /\ Weigh(S) \in Nat /\ Signed(S) \in Int
         /\ Weigh(S) <= One * Cardinality(S)
         /\ Signed(S) <= One * Cardinality(S) /\ -Signed(S) <= One * Cardinality(S)
  <1> DEFINE w == [leg \in S |-> AbsoluteValue(leg.weight)]
             v == [leg \in S |-> leg.weight]
             u == [leg \in S |-> -leg.weight]
             zero == [leg \in S |-> 0]
  <1>1. \A leg \in S : /\ w[leg] \in Nat /\ w[leg] <= 0 + One
                       /\ v[leg] \in Int /\ v[leg] <= 0 + One
                       /\ u[leg] \in Int /\ u[leg] <= 0 + One
                       /\ u[leg] = (-1) * v[leg] /\ zero[leg] = 0 /\ zero[leg] = 0 * v[leg]
    <2> TAKE leg \in S
    <2>1. leg.weight \in Int /\ AbsoluteValue(leg.weight) <= One
      BY DEF Legs
    <2>2. One \in Nat
      BY UnitsArePositive
    <2>3. /\ w[leg] = AbsoluteValue(leg.weight) /\ v[leg] = leg.weight
          /\ u[leg] = -leg.weight /\ zero[leg] = 0
      OBVIOUS
    <2> HIDE DEF w, v, u, zero
    <2> QED
      BY <2>1, <2>2, <2>3, MagnitudeIsNatural
  <1>2. Weigh(S) = SumFunctionOnSet(w, S) /\ Signed(S) = SumFunctionOnSet(v, S)
    BY DEF Weigh, Signed, SumFunction
  <1>3. IsFiniteSet(S) /\ One \in Int
    BY UnitsArePositive DEF Legs
  <1> HIDE DEF w, v, u, zero
  <1>4. SumFunctionOnSet(w, S) \in Nat /\ SumFunctionOnSet(v, S) \in Int
    BY <1>1, <1>3, SumIsNatural, SumIsInteger
  <1>5. SumFunctionOnSet(zero, S) = 0
    <2>1. SumFunctionOnSet(zero, S) = 0 * SumFunctionOnSet(v, S)
      BY <1>1, <1>3, SumOfMultiples
    <2> QED
      BY <1>4, <2>1
  <1>6. SumFunctionOnSet(u, S) = (-1) * SumFunctionOnSet(v, S)
    <2> DEFINE k == -1
    <2>1. k \in Int /\ \A leg \in S : u[leg] = k * v[leg]
      BY <1>1
    <2> HIDE DEF k
    <2>2. SumFunctionOnSet(u, S) = k * SumFunctionOnSet(v, S)
      BY <1>1, <1>3, <2>1, SumOfMultiples
    <2> QED
      BY <2>2 DEF k
  <1>9. \A leg \in S : zero[leg] + One = 0 + One /\ zero[leg] \in Int
    BY <1>1
  <1>10. SumFunctionOnSet(w, S) <= SumFunctionOnSet(zero, S) + One * Cardinality(S)
    <2>1. \A leg \in S : w[leg] \in Int /\ zero[leg] \in Int /\ w[leg] <= zero[leg] + One
      BY <1>1
    <2> QED
      BY <1>3, <2>1, SumsBounded
  <1>13. Cardinality(S) \in Nat
    BY <1>3, FS_CardinalityType
  <1>11. SumFunctionOnSet(v, S) <= SumFunctionOnSet(zero, S) + One * Cardinality(S)
    BY <1>1, <1>3, <1>9, SumsBounded
  <1>12. SumFunctionOnSet(u, S) <= SumFunctionOnSet(zero, S) + One * Cardinality(S)
    BY <1>1, <1>3, <1>9, SumsBounded
  <1>8. One * Cardinality(S) \in Int
    BY <1>3, <1>13
  <1> QED
    BY <1>2, <1>4, <1>5, <1>6, <1>8, <1>10, <1>11, <1>12, <1>13

\* Positions of legs are as large as the legs weigh, but for half a part per leg.
LEMMA ExposuresOfLegs ==
  ASSUME NEW S, Legs(S), NEW candidate, NEW amount \in Nat, NEW risk \in Nat
  PROVE  LET positions == PositionsFor(S, candidate, amount, risk)
         IN /\ Positions(positions)
            /\ Within(2 * (One * Gross(positions)), 2 * (amount * Weigh(S)), One * Cardinality(S))
            /\ Within(2 * (One * Net(positions)), 2 * (amount * Signed(S)), One * Cardinality(S))
            /\ Within(2 * (One * Risk(positions)), 2 * (risk * Weigh(S)), One * Cardinality(S))
  <1> DEFINE w == [leg \in S |-> AbsoluteValue(leg.weight)]
             v == [leg \in S |-> leg.weight]
             h == [leg \in S |-> PositionFor(leg, candidate, amount, risk)]
             positions == {h[leg] : leg \in S}
             f == [p \in positions |-> AbsoluteValue(p.notional)]
             g == [p \in positions |-> p.notional]
             r == [p \in positions |-> p.risk]
             fx == [leg \in S |-> AbsoluteValue(Times(amount, leg.weight))]
             gx == [leg \in S |-> Times(amount, leg.weight)]
             rx == [leg \in S |-> Times(risk, AbsoluteValue(leg.weight))]
             fw == [leg \in S |-> amount * w[leg]]
             gv == [leg \in S |-> amount * v[leg]]
             rw == [leg \in S |-> risk * w[leg]]
  <1>1. IsFiniteSet(S) /\ \A leg \in S : w[leg] \in Nat /\ v[leg] \in Int
    BY MagnitudeIsNatural DEF Legs
  <1>2. \A leg \in S : fw[leg] = amount * w[leg] /\ gv[leg] = amount * v[leg] /\ rw[leg] = risk * w[leg]
    OBVIOUS
  <1>3. \A leg \in S : /\ fw[leg] \in Int /\ gv[leg] \in Int /\ rw[leg] \in Int
                       /\ fx[leg] \in Int /\ gx[leg] \in Int /\ rx[leg] \in Nat
                       /\ Within(2 * (One * fx[leg]), 2 * fw[leg], One)
                       /\ Within(2 * (One * gx[leg]), 2 * gv[leg], One)
                       /\ Within(2 * (One * rx[leg]), 2 * rw[leg], One)
    <2> TAKE leg \in S
    <2> DEFINE x == leg.weight
    <2>1. x \in Int /\ w[leg] = AbsoluteValue(x) /\ v[leg] = x
      BY DEF Legs
    <2>2. fx[leg] = AbsoluteValue(Times(amount, x)) /\ gx[leg] = Times(amount, x) /\ rx[leg] = Times(risk, AbsoluteValue(x))
      OBVIOUS
    <2>3. fw[leg] = amount * AbsoluteValue(x) /\ gv[leg] = amount * x /\ rw[leg] = risk * AbsoluteValue(x)
      BY <1>2, <2>1
    <2> HIDE DEF x, w, v, fw, gv, rw, fx, gx, rx
    <2>4. /\ Times(amount, x) \in Int /\ AbsoluteValue(x) \in Nat /\ Times(risk, AbsoluteValue(x)) \in Nat
          /\ Within(2 * (One * Times(amount, x)), 2 * (amount * x), One)
          /\ Within(2 * (One * AbsoluteValue(Times(amount, x))), 2 * (amount * AbsoluteValue(x)), One)
          /\ Within(2 * (One * Times(risk, AbsoluteValue(x))), 2 * (risk * AbsoluteValue(x)), One)
      BY <2>1, ProductsAreNear
    <2>5. AbsoluteValue(Times(amount, x)) \in Int
      BY <2>4, MagnitudeIsNatural
    <2>6. amount * AbsoluteValue(x) \in Int /\ amount * x \in Int /\ risk * AbsoluteValue(x) \in Int
      BY <2>1, <2>4
    <2> QED
      BY <2>2, <2>3, <2>4, <2>5, <2>6
  <1>4. \A x, y \in S : h[x] = h[y] => x = y
    BY DEF Legs, PositionFor
  <1>5. \A leg \in S : f[h[leg]] = fx[leg] /\ g[h[leg]] = gx[leg] /\ r[h[leg]] = rx[leg]
    BY DEF PositionFor
  <1>7. PositionsFor(S, candidate, amount, risk) = positions
    BY DEF PositionsFor
  <1>8. /\ Gross(positions) = SumFunctionOnSet(f, positions)
        /\ Net(positions) = SumFunctionOnSet(g, positions)
        /\ Risk(positions) = SumFunctionOnSet(r, positions)
        /\ Weigh(S) = SumFunctionOnSet(w, S) /\ Signed(S) = SumFunctionOnSet(v, S)
    BY DEF Gross, Net, Risk, SumFunction, Weigh, Signed
  <1>9. \A p \in positions : p.notional \in Int /\ p.risk \in Nat
    <2>1. \A leg \in S : h[leg].notional = gx[leg] /\ h[leg].risk = rx[leg]
      BY DEF PositionFor
    <2> HIDE DEF gx, rx, h
    <2> QED
      BY <1>3, <2>1
  <1> HIDE DEF w, v, h, fw, gv, rw, fx, gx, rx, f, g, r
  <1>10. /\ IsFiniteSet(positions)
         /\ SumFunctionOnSet(f, positions) = SumFunctionOnSet(fx, S)
         /\ SumFunctionOnSet(g, positions) = SumFunctionOnSet(gx, S)
         /\ SumFunctionOnSet(r, positions) = SumFunctionOnSet(rx, S)
    <2>1. IsFiniteSet(positions) /\ SumFunctionOnSet(f, positions) = SumFunctionOnSet(fx, S)
      BY <1>1, <1>3, <1>4, <1>5, SumsCorrespond
    <2>2. SumFunctionOnSet(g, positions) = SumFunctionOnSet(gx, S)
      BY <1>1, <1>3, <1>4, <1>5, SumsCorrespond
    <2>3. SumFunctionOnSet(r, positions) = SumFunctionOnSet(rx, S)
      BY <1>1, <1>3, <1>4, <1>5, SumsCorrespond
    <2> QED
      BY <2>1, <2>2, <2>3
  <1>11. /\ SumFunctionOnSet(fw, S) = amount * SumFunctionOnSet(w, S)
         /\ SumFunctionOnSet(gv, S) = amount * SumFunctionOnSet(v, S)
         /\ SumFunctionOnSet(rw, S) = risk * SumFunctionOnSet(w, S)
    <2>1. amount \in Int /\ risk \in Int
      OBVIOUS
    <2>2. SumFunctionOnSet(fw, S) = amount * SumFunctionOnSet(w, S)
      BY <1>1, <1>2, <2>1, SumOfMultiples
    <2>3. SumFunctionOnSet(gv, S) = amount * SumFunctionOnSet(v, S)
      BY <1>1, <1>2, <2>1, SumOfMultiples
    <2>4. SumFunctionOnSet(rw, S) = risk * SumFunctionOnSet(w, S)
      BY <1>1, <1>2, <2>1, SumOfMultiples
    <2> QED
      BY <2>2, <2>3, <2>4
  <1>12. /\ Within(2 * (One * SumFunctionOnSet(fx, S)), 2 * SumFunctionOnSet(fw, S), One * Cardinality(S))
         /\ Within(2 * (One * SumFunctionOnSet(gx, S)), 2 * SumFunctionOnSet(gv, S), One * Cardinality(S))
         /\ Within(2 * (One * SumFunctionOnSet(rx, S)), 2 * SumFunctionOnSet(rw, S), One * Cardinality(S))
    <2>1. One \in Nat
      BY UnitsArePositive
    <2>2. Within(2 * (One * SumFunctionOnSet(fx, S)), 2 * SumFunctionOnSet(fw, S), One * Cardinality(S))
      <3>1. \A leg \in S : fw[leg] \in Int /\ fx[leg] \in Int /\ Within(2 * (One * fx[leg]), 2 * fw[leg], One)
        BY <1>3
      <3> QED
        BY <1>1, <2>1, <3>1, SumsNear
    <2>3. Within(2 * (One * SumFunctionOnSet(gx, S)), 2 * SumFunctionOnSet(gv, S), One * Cardinality(S))
      <3>1. \A leg \in S : gv[leg] \in Int /\ gx[leg] \in Int /\ Within(2 * (One * gx[leg]), 2 * gv[leg], One)
        BY <1>3
      <3> QED
        BY <1>1, <2>1, <3>1, SumsNear
    <2>4. Within(2 * (One * SumFunctionOnSet(rx, S)), 2 * SumFunctionOnSet(rw, S), One * Cardinality(S))
      <3>1. \A leg \in S : rw[leg] \in Int /\ rx[leg] \in Int /\ Within(2 * (One * rx[leg]), 2 * rw[leg], One)
        BY <1>3
      <3> QED
        BY <1>1, <2>1, <3>1, SumsNear
    <2> QED
      BY <2>2, <2>3, <2>4
  <1>13. Positions(positions)
    BY <1>9, <1>10 DEF Positions
  <1> QED
    BY <1>7, <1>8, <1>10, <1>11, <1>12, <1>13

-----------------------------------------------------------------------------
(* The limits of one candidate. *)

\* A finite set of integers has a least one, and a greatest of two is one of them.
LEMMA MinOfFinite ==
  ASSUME NEW S, IsFiniteSet(S), S # {}, S \subseteq Int
  PROVE  Min(S) \in S /\ \A n \in S : Min(S) <= n
  <1> DEFINE below(n) == {m \in S : m <= n}
             some == {below(n) : n \in S}
  <1>1. some \in SUBSET SUBSET S /\ some # {}
    OBVIOUS
  <1>2. PICK T \in some : \A U \in some : U \subseteq T => U = T
    <2>1. IsFiniteSet(S)
      OBVIOUS
    <2> HIDE DEF some
    <2> QED
      BY ONLY <1>1, <2>1, SmallestSubset
  <1>3. PICK n \in S : T = below(n)
    BY <1>2
  <1>4. \A m \in S : n <= m
    <2> SUFFICES ASSUME NEW m \in S, m < n PROVE FALSE
      OBVIOUS
    <2>0. n \in Int /\ m \in Int /\ \A k \in S : k \in Int
      OBVIOUS
    <2>3. \A k \in S : k <= m => k <= n
      BY <2>0
    <2>4. below(m) \subseteq below(n)
      BY <2>3
    <2>5. n \in below(n)
      BY <2>0
    <2>6. n \notin below(m)
      BY <2>0
    <2>1. below(m) \subseteq below(n) /\ n \in below(n) /\ n \notin below(m)
      BY <2>4, <2>5, <2>6
    <2>2. below(m) \in some
      OBVIOUS
    <2> HIDE DEF some, below
    <2> QED
      BY <1>2, <1>3, <2>1, <2>2
  <1> QED
    BY <1>3, <1>4 DEF Min

\* The greater of two numbers is one of them and above both.
LEMMA MaxOfTwo ==
  ASSUME NEW x \in Int, NEW y \in Int
  PROVE  Max({x, y}) \in {x, y} /\ x <= Max({x, y}) /\ y <= Max({x, y})
  <1>1. \E m \in {x, y} : \A n \in {x, y} : m >= n
    OBVIOUS
  <1>2. Max({x, y}) \in {x, y} /\ \A n \in {x, y} : Max({x, y}) >= n
    BY <1>1 DEF Max
  <1> QED
    BY <1>2

\* Likewise a greatest one.
LEMMA MaxOfFinite ==
  ASSUME NEW S, IsFiniteSet(S), S # {}, S \subseteq Int
  PROVE  Max(S) \in S /\ \A n \in S : n <= Max(S)
  <1> DEFINE above(n) == {m \in S : n <= m}
             some == {above(n) : n \in S}
  <1>1. some \in SUBSET SUBSET S /\ some # {}
    OBVIOUS
  <1>2. PICK T \in some : \A U \in some : U \subseteq T => U = T
    <2>1. IsFiniteSet(S)
      OBVIOUS
    <2> HIDE DEF some
    <2> QED
      BY ONLY <1>1, <2>1, SmallestSubset
  <1>3. PICK n \in S : T = above(n)
    BY <1>2
  <1>4. \A m \in S : m <= n
    <2> SUFFICES ASSUME NEW m \in S, n < m PROVE FALSE
      OBVIOUS
    <2>0. n \in Int /\ m \in Int /\ \A k \in S : k \in Int
      OBVIOUS
    <2>3. \A k \in S : m <= k => n <= k
      BY <2>0
    <2>4. above(m) \subseteq above(n)
      BY <2>3
    <2>5. n \in above(n)
      BY <2>0
    <2>6. n \notin above(m)
      BY <2>0
    <2>1. above(m) \subseteq above(n) /\ n \in above(n) /\ n \notin above(m)
      BY <2>4, <2>5, <2>6
    <2>2. above(m) \in some
      OBVIOUS
    <2> HIDE DEF some, above
    <2> QED
      BY <1>2, <1>3, <2>1, <2>2
  <1>5. Max(S) \in S /\ \A y \in S : Max(S) >= y
    BY <1>3, <1>4 DEF Max
  <1> QED
    BY <1>5

\* The image of a finite set is finite.
LEMMA FiniteImage ==
  ASSUME NEW S, IsFiniteSet(S), NEW T, NEW f \in [S -> T], T = {f[x] : x \in S}
  PROVE  IsFiniteSet(T)
  <1>1. f \in Surjection(S, T)
    BY DEF Surjection
  <1> QED
    BY <1>1, FS_Surjection

\* What is below a rounded quotient is below the quotient, times the divisor too, but for half of it.
LEMMA BelowQuotient ==
  ASSUME NEW x \in Int, NEW y \in Nat \ {0}
  PROVE  /\ Over(x, y) \in Int
         /\ \A a \in Int : a <= Over(x, y) => 2 * (a * y) <= 2 * (x * One) + y
  <1> DEFINE n == x * One
             r == Over(x, y)
  <1>1. n \in Int
    BY UnitsArePositive
  <1>2. r = Rounded(n, y)
    BY DEF Over
  <1> HIDE DEF n, r
  <1>3. r \in Int /\ Within(2 * (y * r), 2 * n, y)
    BY <1>1, <1>2, RoundingIsNear
  <1>4. \A a \in Int : a <= r => 2 * (a * y) <= 2 * n + y
    <2> SUFFICES ASSUME NEW a \in Int, a <= r PROVE 2 * (a * y) <= 2 * n + y
      OBVIOUS
    <2>1. r - a \in Nat /\ (r - a) * y >= 0
      BY <1>3
    <2>2. (r - a) * y = y * r - a * y
      BY <1>3
    <2>3. y * r \in Int /\ a * y \in Int
      BY <1>3
    <2> QED
      BY <1>1, <1>3, <2>1, <2>2, <2>3 DEF Within
  <1> QED
    BY <1>3, <1>4 DEF n, r

\* Products and quotients of natural numbers are natural numbers; a factor of 1 or more
\* makes nothing smaller, and one of 1 at most nothing greater.
LEMMA RoundedNaturals ==
  ASSUME NEW x \in Nat, NEW y \in Nat
  PROVE  /\ Times(x, y) \in Nat
         /\ One <= x => y <= Times(x, y)
         /\ x <= One => Times(x, y) <= y
         /\ y # 0 => Over(x, y) \in Nat
  <1> DEFINE n == x * y
             m == x * One
  <1>0. One \in Nat \ {0} /\ One * 0 = 0 /\ y * 0 = 0
    BY UnitsArePositive
  <1>1. n \in Nat /\ m \in Nat
    BY <1>0
  <1>2. One * y \in Nat
    BY <1>0
  <1>3. One <= x => One * y <= n
    <2> SUFFICES ASSUME One <= x PROVE One * y <= n
      OBVIOUS
    <2>1. x - One \in Nat
      BY <1>0
    <2>2. (x - One) * y >= 0 /\ (x - One) * y = x * y - One * y
      BY <1>0, <2>1
    <2> QED
      BY <1>1, <1>2, <2>2
  <1>4. x <= One => n <= One * y
    <2> SUFFICES ASSUME x <= One PROVE n <= One * y
      OBVIOUS
    <2>1. One - x \in Nat
      BY <1>0
    <2>2. (One - x) * y >= 0 /\ (One - x) * y = One * y - x * y
      BY <1>0, <2>1
    <2> QED
      BY <1>1, <1>2, <2>2
  <1>5. Times(x, y) = Rounded(n, One) /\ Over(x, y) = Rounded(m, y)
    BY DEF Times, Over
  <1> HIDE DEF n, m
  <1>6. Rounded(n, One) \in Int
    BY <1>0, <1>1, RoundingIsNear
  <1>7. 0 <= Rounded(n, One)
    BY <1>0, <1>1, RoundedBetween
  <1>8. One <= x => y <= Rounded(n, One)
    BY <1>0, <1>1, <1>3, RoundedBetween
  <1>9. x <= One => Rounded(n, One) <= y
    BY <1>0, <1>1, <1>4, RoundedBetween
  <1>10. y # 0 => Rounded(m, y) \in Int /\ 0 <= Rounded(m, y)
    <2> SUFFICES ASSUME y # 0 PROVE Rounded(m, y) \in Int /\ 0 <= Rounded(m, y)
      OBVIOUS
    <2>1. y \in Nat \ {0} /\ m \in Int
      BY <1>1
    <2>2. Rounded(m, y) \in Int
      BY <2>1, RoundingIsNear
    <2>3. 0 <= Rounded(m, y)
      BY <1>0, <1>1, <2>1, RoundedBetween
    <2> QED
      BY <2>2, <2>3
  <1> QED
    BY <1>5, <1>6, <1>7, <1>8, <1>9, <1>10

\* What allocate gets: data in the bounds of their fields.
InputsTyped(inputs) ==
  /\ inputs.state.multiplier \in Nat
  /\ \A h \in inputs.health : h.value \in Nat
  /\ \A l \in inputs.liquidity : l.notional \in Nat /\ l.volume \in Nat /\ l.turnover \in Nat
  /\ \A e \in inputs.estimates : e.loss \in 1 .. One /\ e.volatility \in Nat /\ One <= e.volatility
  /\ IsFiniteSet(inputs.correlations.estimates)
  /\ \A r \in inputs.correlations.estimates : r.value \in Nat
  /\ IsFiniteSet(DOMAIN inputs.ensemble.candidates)
  /\ \A n \in DOMAIN inputs.ensemble.candidates : inputs.ensemble.candidates[n].strength \in Nat

\* A candidate as normalize_intents makes it: its legs weigh one, but for half a part
\* each, and the parts that rounding them costs are no quantum.
SoundCandidate(candidate) ==
  /\ Legs(candidate.legs) /\ candidate.legs # {}
  /\ Cardinality(candidate.legs) + 1 < Quantum
  /\ 2 * Weigh(candidate.legs) <= 2 * One + Cardinality(candidate.legs)
  /\ candidate.alpha \in DOMAIN Registry /\ candidate.strength \in Nat

\* The bounds of AllocatorSettings make every cap a natural number and leave a penalty range.
LEMMA CapsTyped ==
  /\ One \in Nat \ {0} /\ Quantum \in Nat \ {0} /\ Caps.gross <= One
  /\ Caps.alpha \in Nat /\ Caps.gross \in Nat /\ Caps.symbol \in Nat /\ Caps.sector \in Nat
  /\ Caps.risk \in Nat /\ Caps.candidateRisk \in Nat /\ Caps.groups \in Nat /\ Caps.sectorGroups \in Nat
  /\ Caps.net \in Nat /\ Caps.threshold \in Nat /\ Caps.sectorPenalty \in Nat /\ Caps.correlationPenalty \in Nat
  /\ One - Caps.threshold \in Nat \ {0}
  <1>1. /\ Caps.alpha \in 1 .. One /\ Caps.gross \in 1 .. One /\ Caps.symbol \in 1 .. One /\ Caps.sector \in 1 .. One
        /\ Caps.risk \in 1 .. One /\ Caps.candidateRisk \in 1 .. One
        /\ Caps.groups \in Nat /\ Caps.sectorGroups \in Nat
        /\ Caps.net \in Nat /\ Caps.threshold \in Nat /\ Caps.sectorPenalty \in Nat
        /\ Caps.correlationPenalty \in Nat /\ Caps.threshold < One
    BY CapsAreConsistent
  <1> QED
    BY <1>1, UnitsArePositive

\* The figures of a candidate that is usable.
LEMMA UsableFigures ==
  ASSUME NEW inputs, InputsTyped(inputs), NEW c, SoundCandidate(c), Usable(inputs, c)
  PROVE  /\ EstimateOf(inputs, c).loss \in Nat \ {0} /\ EstimateOf(inputs, c).loss <= One
         /\ EstimateOf(inputs, c).volatility \in Nat /\ One <= EstimateOf(inputs, c).volatility
         /\ Budget(inputs, c.alpha) \in Nat
  <1>1. EstimateOf(inputs, c) \in inputs.estimates
    BY DEF Usable, EstimateOf
  <1>2. HealthOf(inputs, c.alpha) \in inputs.health
    BY DEF Usable, HealthOf
  <1>3. Registry[c.alpha].budget \in Nat
    BY RegistryLoads DEF SoundCandidate
  <1>4. HealthOf(inputs, c.alpha).value \in Nat /\ inputs.state.multiplier \in Nat
    BY <1>2 DEF InputsTyped
  <1> DEFINE gated == Times(Registry[c.alpha].budget, inputs.state.multiplier)
  <1>5. gated \in Nat
    BY <1>3, <1>4, RoundedNaturals
  <1>6. Budget(inputs, c.alpha) = Times(gated, HealthOf(inputs, c.alpha).value)
    BY DEF Budget
  <1> HIDE DEF gated
  <1>7. Budget(inputs, c.alpha) \in Nat
    BY <1>4, <1>5, <1>6, RoundedNaturals
  <1> QED
    BY <1>1, <1>7, UnitsArePositive DEF InputsTyped

\* The groups of a finite set of positions can be counted.
LEMMA GroupsCounted ==
  ASSUME NEW S, IsFiniteSet(S)
  PROVE  IsFiniteSet(GroupsOf(S)) /\ Cardinality(GroupsOf(S)) \in Nat
  <1> DEFINE f == [p \in S |-> p.group]
  <1>1. f \in [S -> GroupsOf(S)] /\ GroupsOf(S) = {f[p] : p \in S}
    BY DEF GroupsOf
  <1> HIDE DEF f
  <1>2. IsFiniteSet(GroupsOf(S))
    BY <1>1, FiniteImage
  <1> QED
    BY <1>2, FS_CardinalityType

\* The penalty divides.
LEMMA PenaltyIsPositive ==
  ASSUME NEW inputs, InputsTyped(inputs), NEW c, SoundCandidate(c), Usable(inputs, c), NEW targets, IsFiniteSet(targets)
  PROVE  Penalty(inputs, c, targets) \in Nat \ {0}
  <1> DEFINE values == {0} \cup {r.value : r \in CorrelationsOf(inputs, c, targets)}
             correlation == Max(values)
             among == {p \in targets : p.sector \in SectorsOf(c)}
             duplicates == Cardinality(GroupsOf(among))
             rest == One - Caps.threshold
             over == correlation - Caps.threshold
             volatility == EstimateOf(inputs, c).volatility
             more == Max({0, over})
  <1>1. values \subseteq Int /\ IsFiniteSet(values) /\ values # {}
    <2> DEFINE R == CorrelationsOf(inputs, c, targets)
               f == [r \in R |-> r.value]
               image == {r.value : r \in R}
    <2>1. R \subseteq inputs.correlations.estimates
      BY DEF CorrelationsOf
    <2>2. IsFiniteSet(R)
      BY <2>1, FS_Subset DEF InputsTyped
    <2>3. f \in [R -> image] /\ image = {f[r] : r \in R}
      OBVIOUS
    <2>4. image \subseteq Int
      BY <2>1 DEF InputsTyped
    <2> HIDE DEF R, f, image
    <2>5. IsFiniteSet(image)
      BY <2>2, <2>3, FiniteImage
    <2>6. IsFiniteSet({0}) /\ IsFiniteSet({0} \cup image)
      BY <2>5, FS_Singleton, FS_Union
    <2> QED
      BY <2>4, <2>6 DEF image, R
  <1>2. correlation \in Int
    <2> HIDE DEF values
    <2> QED
      BY <1>1, MaxOfFinite
  <1>3. duplicates \in Nat
    <2>1. IsFiniteSet(among)
      BY FS_Subset
    <2> HIDE DEF among
    <2> QED
      BY <2>1, GroupsCounted
  <1> HIDE DEF correlation, duplicates
  <1>4. over \in Int
    BY <1>2, CapsTyped
  <1>5. more \in Nat
    <2> HIDE DEF over
    <2>1. Max({0, over}) \in Int /\ 0 <= Max({0, over})
      BY <1>4, MaxOfTwo
    <2> QED
      BY <2>1
  <1>6. volatility \in Nat /\ One <= volatility /\ rest \in Nat \ {0} /\ One \in Nat \ {0}
    BY UsableFigures, CapsTyped
  <1> DEFINE scaled == Times(Caps.correlationPenalty, more)
             quotient == Over(scaled, rest)
             sum == One + Caps.sectorPenalty * duplicates + quotient
  <1>7. Penalty(inputs, c, targets) = Times(volatility, sum)
    BY DEF Penalty, correlation, duplicates
  <1> HIDE DEF volatility, rest, more
  <1>8. scaled \in Nat
    BY <1>5, CapsTyped, RoundedNaturals
  <1> HIDE DEF scaled
  <1>9. quotient \in Nat
    BY <1>6, <1>8, RoundedNaturals
  <1>10. Caps.sectorPenalty * duplicates \in Nat
    BY <1>3, CapsTyped
  <1> HIDE DEF quotient
  <1>11. sum \in Nat /\ One <= sum
    BY <1>6, <1>9, <1>10
  <1> HIDE DEF sum
  <1>12. Times(volatility, sum) \in Nat /\ sum <= Times(volatility, sum)
    BY <1>6, <1>11, RoundedNaturals
  <1> QED
    BY <1>6, <1>7, <1>11, <1>12

\* The amount that the score, the volatility and the penalty ask for is a number.
LEMMA DesiredIsNumber ==
  ASSUME NEW inputs, InputsTyped(inputs), NEW c, SoundCandidate(c), Usable(inputs, c), NEW targets, IsFiniteSet(targets)
  PROVE  Desired(inputs, c, targets) \in Int
  <1> DEFINE candidates == inputs.ensemble.candidates
             own == {n \in DOMAIN candidates : candidates[n].alpha = c.alpha}
             f == [n \in own |-> candidates[n].strength]
             sum == SumFunctionOnSet(f, own)
             score == ScoreSum(inputs, c.alpha)
             penalty == Penalty(inputs, c, targets)
             budget == Budget(inputs, c.alpha)
  <1>1. sum \in Int
    <2>1. IsFiniteSet(own) /\ \A n \in own : f[n] \in Int
      BY FS_Subset DEF InputsTyped
    <2> HIDE DEF own, f
    <2> QED
      BY <2>1, SumIsInteger
  <1>2. score = Max({One, sum})
    BY DEF ScoreSum, SumFunction
  <1> HIDE DEF sum, score
  <1>3. score \in Nat \ {0}
    <2>1. One \in Int /\ One > 0
      BY CapsTyped
    <2>2. Max({One, sum}) \in Int /\ One <= Max({One, sum})
      BY <1>1, <2>1, MaxOfTwo
    <2> QED
      BY <1>2, <2>1, <2>2
  <1>4. penalty \in Nat \ {0}
    BY PenaltyIsPositive
  <1>5. budget \in Nat /\ c.strength \in Nat
    BY UsableFigures DEF SoundCandidate
  <1> DEFINE wanted == Times(budget, c.strength)
             part == Over(wanted, score)
  <1>6. Desired(inputs, c, targets) = Over(part, penalty)
    BY DEF Desired, score
  <1> HIDE DEF penalty, budget
  <1>7. wanted \in Nat
    BY <1>5, RoundedNaturals
  <1> HIDE DEF wanted
  <1>8. part \in Int
    BY <1>3, <1>7, RoundedNaturals
  <1> HIDE DEF part
  <1>9. Over(part, penalty) \in Int
    BY <1>4, <1>8, BelowQuotient
  <1> QED
    BY <1>6, <1>9

\* Legs weigh a natural number in all, and more than nothing.
LEMMA LegsWeigh ==
  ASSUME NEW S, Legs(S), S # {}
  PROVE  Weigh(S) \in Nat \ {0}
  <1> DEFINE f == [leg \in S |-> AbsoluteValue(leg.weight)]
  <1>1. Weigh(S) = SumFunctionOnSet(f, S)
    BY DEF Weigh, SumFunction
  <1>2. IsFiniteSet(S) /\ \A leg \in S : f[leg] \in Nat \ {0}
    BY DEF Legs, AbsoluteValue
  <1> HIDE DEF f
  <1>3. PICK leg : leg \in S
    OBVIOUS
  <1> DEFINE R == S \ {leg}
  <1>4. SumFunctionOnSet(f, S) = f[leg] + SumFunctionOnSet(f, R)
    BY <1>2, <1>3, SumWithout
  <1>5. R \subseteq S
    OBVIOUS
  <1> HIDE DEF R
  <1>6. IsFiniteSet(R) /\ \A x \in R : f[x] \in Nat
    BY <1>2, <1>5, FS_Subset
  <1>7. SumFunctionOnSet(f, R) \in Nat
    BY <1>6, SumIsNatural
  <1>8. f[leg] \in Nat \ {0}
    BY <1>2, <1>3
  <1> QED
    BY <1>1, <1>4, <1>7, <1>8

\* Some of the legs of a candidate are legs too.
LEMMA SomeLegs ==
  ASSUME NEW S, Legs(S), NEW T \in SUBSET S
  PROVE  Legs(T)
  BY FS_Subset DEF Legs

\* The legs of a candidate in a sector.
LegsIn(candidate, s) == {x \in candidate.legs : x.sector = s}

\* WeightIn adds up the legs in a sector, and there are some.
LEMMA SectorsWeigh ==
  ASSUME NEW c, SoundCandidate(c), NEW s \in SectorsOf(c)
  PROVE  Legs(LegsIn(c, s)) /\ WeightIn(c, s) = Weigh(LegsIn(c, s)) /\ Weigh(LegsIn(c, s)) \in Nat \ {0}
  <1>1. LegsIn(c, s) \in SUBSET c.legs /\ LegsIn(c, s) # {}
    BY DEF LegsIn, SectorsOf
  <1>2. Legs(LegsIn(c, s))
    BY <1>1, SomeLegs DEF SoundCandidate
  <1>3. Weigh(LegsIn(c, s)) \in Nat \ {0}
    BY <1>1, <1>2, LegsWeigh
  <1> QED
    BY <1>2, <1>3 DEF WeightIn, Weigh, LegsIn

\* The least of a leg's limits is below each of them.
LEMMA LegIsLimited ==
  ASSUME NEW inputs, InputsTyped(inputs), NEW leg, leg.weight \in Int \ {0}, CapacityUsable(inputs, leg)
  PROVE  /\ LegLimit(inputs, leg) \in Int
         /\ \A a \in Int : a <= LegLimit(inputs, leg) =>
              2 * (a * AbsoluteValue(leg.weight)) <= 2 * (Caps.symbol * One) + AbsoluteValue(leg.weight)
  <1> DEFINE l == CHOOSE l \in inputs.liquidity : l.entity = leg.entity
             w == AbsoluteValue(leg.weight)
             four == {Caps.symbol, l.notional, l.volume, l.turnover}
             least == Min(four)
  <1>1. l \in inputs.liquidity
    BY DEF CapacityUsable
  <1>2. l.notional \in Nat /\ l.volume \in Nat /\ l.turnover \in Nat /\ Caps.symbol \in Nat
    BY <1>1, CapsTyped DEF InputsTyped
  <1> HIDE DEF l
  <1>3. least \in Int /\ least <= Caps.symbol
    <2>1. \E m \in four : \A n \in four : m <= n
      BY <1>2
    <2>2. least \in four /\ \A n \in four : least <= n
      BY <2>1 DEF Min
    <2> QED
      BY <1>2, <2>2
  <1>4. w \in Nat \ {0}
    BY DEF AbsoluteValue
  <1>5. LegLimit(inputs, leg) = Over(least, w)
    BY DEF LegLimit, l
  <1> HIDE DEF least, w
  <1>6. One \in Nat \ {0} /\ Caps.symbol \in Nat
    BY CapsTyped
  <1>7. least * One \in Int /\ Caps.symbol * One \in Int /\ least * One <= Caps.symbol * One
    <2>1. Caps.symbol - least \in Nat
      BY <1>2, <1>3
    <2>2. (Caps.symbol - least) * One >= 0
      BY <1>6, <2>1
    <2>3. (Caps.symbol - least) * One = Caps.symbol * One - least * One
      BY <1>2, <1>3, <1>6
    <2> QED
      BY <1>2, <1>3, <1>6, <2>2, <2>3
  <1>8. Over(least, w) \in Int /\ \A a \in Int : a <= Over(least, w) => 2 * (a * w) <= 2 * (least * One) + w
    BY <1>3, <1>4, BelowQuotient
  <1>9. \A a \in Int : a * w \in Int
    BY <1>4
  <1>10. \A a \in Int : a <= Over(least, w) => 2 * (a * w) <= 2 * (Caps.symbol * One) + w
    BY <1>4, <1>7, <1>8, <1>9
  <1> QED
    BY <1>5, <1>8, <1>10 DEF w

\* Six limits are finitely many.
LEMMA SixAreFinite ==
  ASSUME NEW a, NEW b, NEW c, NEW d, NEW e, NEW f
  PROVE  IsFiniteSet({a, b, c, d, e, f})
  <1>1. IsFiniteSet({a}) /\ IsFiniteSet({b}) /\ IsFiniteSet({c}) /\ IsFiniteSet({d}) /\ IsFiniteSet({e}) /\ IsFiniteSet({f})
    BY FS_Singleton
  <1>2. IsFiniteSet({a} \cup {b}) /\ IsFiniteSet({c} \cup {d}) /\ IsFiniteSet({e} \cup {f})
    BY <1>1, FS_Union
  <1>3. IsFiniteSet(({a} \cup {b}) \cup ({c} \cup {d}))
    BY <1>2, FS_Union
  <1>4. IsFiniteSet((({a} \cup {b}) \cup ({c} \cup {d})) \cup ({e} \cup {f}))
    BY <1>2, <1>3, FS_Union
  <1>5. {a, b, c, d, e, f} = (({a} \cup {b}) \cup ({c} \cup {d})) \cup ({e} \cup {f})
    OBVIOUS
  <1> QED
    BY <1>4, <1>5

\* The limits are numbers, of which there is a least.
LEMMA LimitsTyped ==
  ASSUME NEW inputs, InputsTyped(inputs), NEW c, SoundCandidate(c), Usable(inputs, c),
         \A leg \in c.legs : CapacityUsable(inputs, leg), NEW T, Positions(T)
  PROVE  IsFiniteSet(Limits(inputs, c, T)) /\ Limits(inputs, c, T) # {} /\ Limits(inputs, c, T) \subseteq Int
  <1> DEFINE loss == EstimateOf(inputs, c).loss
             net == NetWeight(c)
             held == Gross(OfAlpha(T, c.alpha))
             first == { Desired(inputs, c, T),
                        Budget(inputs, c.alpha) - held,
                        Caps.gross - Gross(T),
                        Over(Caps.risk - Risk(T), loss),
                        Over(Caps.candidateRisk, loss),
                        Caps.alpha - held }
             up == IF net > 0 THEN {Over(Caps.net - Net(T), net)} ELSE {}
             down == IF net < 0 THEN {Over(Caps.net + Net(T), -net)} ELSE {}
             bySector(s) == Over(Caps.sector - Gross(InSector(T, s)), WeightIn(c, s))
             sectors == {bySector(s) : s \in SectorsOf(c)}
             legs == {LegLimit(inputs, leg) : leg \in c.legs}
  <1>1. Limits(inputs, c, T) = first \cup up \cup down \cup sectors \cup legs
    BY DEF Limits
  <1>2. loss \in Nat \ {0} /\ Budget(inputs, c.alpha) \in Nat
    BY UsableFigures
  <1>3. Gross(T) \in Nat /\ Net(T) \in Int /\ Risk(T) \in Nat
    BY ExposuresTyped
  <1>4. \A S \in SUBSET T : Gross(S) \in Nat
    <2> TAKE S \in SUBSET T
    <2>1. Positions(S)
      BY FS_Subset DEF Positions
    <2> QED
      BY <2>1, ExposuresTyped
  <1>5. Gross(OfAlpha(T, c.alpha)) \in Nat /\ \A s : Gross(InSector(T, s)) \in Nat
    BY <1>4 DEF OfAlpha, InSector
  <1>6. net \in Int
    <2>1. Signed(c.legs) \in Int
      BY LegsWeighLittle DEF SoundCandidate
    <2> QED
      BY <2>1 DEF NetWeight, Signed
  <1>7. \A s \in SectorsOf(c) : WeightIn(c, s) \in Nat \ {0}
    <2> TAKE s \in SectorsOf(c)
    <2>1. WeightIn(c, s) = Weigh(LegsIn(c, s)) /\ Weigh(LegsIn(c, s)) \in Nat \ {0}
      BY SectorsWeigh
    <2> QED
      BY <2>1
  <1> HIDE DEF loss, net
  <1>8. first \subseteq Int
    <2>1. Desired(inputs, c, T) \in Int
      BY DesiredIsNumber DEF Positions
    <2>2. held \in Nat
      BY <1>5
    <2>3. Budget(inputs, c.alpha) - held \in Int /\ Caps.gross - Gross(T) \in Int /\ Caps.alpha - held \in Int
      <3> HIDE DEF held
      <3> QED
        BY <1>2, <1>3, <2>2, CapsTyped
    <2>4. Caps.risk - Risk(T) \in Int /\ Caps.candidateRisk \in Int
      BY <1>3, CapsTyped
    <2>5. Over(Caps.risk - Risk(T), loss) \in Int
      BY <1>2, <2>4, BelowQuotient
    <2>6. Over(Caps.candidateRisk, loss) \in Int
      BY <1>2, <2>4, BelowQuotient
    <2> HIDE DEF held
    <2> QED
      BY <2>1, <2>3, <2>5, <2>6
  <1>9. up \subseteq Int /\ down \subseteq Int
    <2>1. Caps.net - Net(T) \in Int /\ Caps.net + Net(T) \in Int
      BY <1>3, CapsTyped
    <2>2. (net > 0 => net \in Nat \ {0}) /\ (net < 0 => -net \in Nat \ {0})
      BY <1>6
    <2>3. net > 0 => Over(Caps.net - Net(T), net) \in Int
      BY <2>1, <2>2, BelowQuotient
    <2>4. net < 0 => Over(Caps.net + Net(T), -net) \in Int
      BY <2>1, <2>2, BelowQuotient
    <2> QED
      BY <2>3, <2>4
  <1>10. sectors \subseteq Int
    <2>1. \A s : Caps.sector - Gross(InSector(T, s)) \in Int
      BY <1>5, CapsTyped
    <2>2. \A s \in SectorsOf(c) : bySector(s) \in Int
      BY <1>7, <2>1, BelowQuotient
    <2> QED
      BY <2>2
  <1>11. legs \subseteq Int
    BY LegIsLimited DEF SoundCandidate, Legs
  <1>12. IsFiniteSet(c.legs)
    BY DEF SoundCandidate, Legs
  <1>13. IsFiniteSet(legs)
    <2> DEFINE f == [leg \in c.legs |-> LegLimit(inputs, leg)]
    <2>1. f \in [c.legs -> legs] /\ legs = {f[leg] : leg \in c.legs}
      OBVIOUS
    <2> HIDE DEF f, legs
    <2> QED
      BY <1>12, <2>1, FiniteImage
  <1>14. IsFiniteSet(sectors)
    <2> DEFINE f == [leg \in c.legs |-> leg.sector]
               g == [s \in SectorsOf(c) |-> bySector(s)]
    <2>1. f \in [c.legs -> SectorsOf(c)] /\ SectorsOf(c) = {f[leg] : leg \in c.legs}
      BY DEF SectorsOf
    <2>2. g \in [SectorsOf(c) -> sectors] /\ sectors = {g[s] : s \in SectorsOf(c)}
      OBVIOUS
    <2> HIDE DEF f, g, sectors
    <2>3. IsFiniteSet(SectorsOf(c))
      BY <1>12, <2>1, FiniteImage
    <2> QED
      BY <2>2, <2>3, FiniteImage
  <1>15. IsFiniteSet(first)
    BY SixAreFinite
  <1>16. IsFiniteSet(up) /\ IsFiniteSet(down)
    BY FS_EmptySet, FS_Singleton
  <1>17. first # {}
    OBVIOUS
  <1> HIDE DEF first, up, down, sectors, legs
  <1>18. IsFiniteSet(first \cup up \cup down \cup sectors \cup legs)
    BY <1>13, <1>14, <1>15, <1>16, FS_Union
  <1> QED
    BY <1>1, <1>8, <1>9, <1>10, <1>11, <1>17, <1>18

\* A positive amount is below every limit.
LEMMA AmountIsLimited ==
  ASSUME NEW inputs, InputsTyped(inputs), NEW c, SoundCandidate(c), Usable(inputs, c),
         \A leg \in c.legs : CapacityUsable(inputs, leg), NEW T, Positions(T)
  PROVE  /\ Amount(inputs, c, T) \in Nat
         /\ Amount(inputs, c, T) > 0 => \A n \in Limits(inputs, c, T) : Amount(inputs, c, T) <= n
  <1> DEFINE limits == Limits(inputs, c, T)
             least == Min(limits)
             most == Max({0, least})
  <1>1. IsFiniteSet(limits) /\ limits # {} /\ limits \subseteq Int
    BY LimitsTyped
  <1>2. Amount(inputs, c, T) = Quantized(most)
    BY DEF Amount
  <1> HIDE DEF limits
  <1>3. least \in Int /\ \A n \in limits : n \in Int /\ least <= n
    BY <1>1, MinOfFinite
  <1> HIDE DEF least
  <1>4. most \in {0, least} /\ 0 <= most
    BY <1>3, MaxOfTwo
  <1>5. most \in Nat
    BY <1>3, <1>4
  <1>6. most > 0 => \A n \in limits : most <= n
    BY <1>3, <1>4
  <1> HIDE DEF most
  <1>7. Quantized(most) \in Nat /\ Quantized(most) <= most
    <2> DEFINE q == most \div Quantum
               m == most % Quantum
    <2>1. q \in Nat /\ m \in Nat /\ most = Quantum * q + m
      BY <1>5, UnitsArePositive
    <2>2. Quantum * q \in Nat
      BY <2>1, UnitsArePositive
    <2>3. Quantized(most) = most - m
      BY DEF Quantized
    <2> HIDE DEF q, m
    <2> QED
      BY <1>5, <2>1, <2>2, <2>3
  <1>8. \A n \in limits : n \in Int
    BY <1>3
  <1> QED
    BY <1>2, <1>5, <1>6, <1>7, <1>8 DEF limits

\* Room that is left under a cap, half a part of what a quotient is rounded by included.
Room(inputs, c, T, amount) ==
  LET loss == EstimateOf(inputs, c).loss
      net == Signed(c.legs)
      held == Gross(OfAlpha(T, c.alpha))
  IN /\ amount <= Caps.gross - Gross(T)
     /\ amount <= Caps.alpha - held
     /\ amount <= Budget(inputs, c.alpha) - held
     /\ 2 * (amount * loss) <= 2 * ((Caps.risk - Risk(T)) * One) + loss
     /\ net > 0 => 2 * (amount * net) <= 2 * ((Caps.net - Net(T)) * One) + net
     /\ net < 0 => 2 * (amount * (-net)) <= 2 * ((Caps.net + Net(T)) * One) + (-net)
     /\ \A s \in SectorsOf(c) :
          2 * (amount * Weigh(LegsIn(c, s)))
            <= 2 * ((Caps.sector - Gross(InSector(T, s))) * One) + Weigh(LegsIn(c, s))
     /\ \A leg \in c.legs :
          2 * (amount * AbsoluteValue(leg.weight)) <= 2 * (Caps.symbol * One) + AbsoluteValue(leg.weight)

\* An amount below every limit has room.
LEMMA LimitsLeaveRoom ==
  ASSUME NEW inputs, InputsTyped(inputs), NEW c, SoundCandidate(c), Usable(inputs, c),
         \A leg \in c.legs : CapacityUsable(inputs, leg), NEW T, Positions(T),
         NEW amount \in Nat, \A n \in Limits(inputs, c, T) : amount <= n
  PROVE  Room(inputs, c, T, amount)
  <1> DEFINE loss == EstimateOf(inputs, c).loss
             net == NetWeight(c)
             held == Gross(OfAlpha(T, c.alpha))
             risk == Caps.risk - Risk(T)
             up == Caps.net - Net(T)
             down == Caps.net + Net(T)
             sector(s) == Caps.sector - Gross(InSector(T, s))
             limits == Limits(inputs, c, T)
  <1>1. /\ Budget(inputs, c.alpha) - held \in limits /\ Caps.gross - Gross(T) \in limits
        /\ Caps.alpha - held \in limits /\ Over(risk, loss) \in limits
        /\ net > 0 => Over(up, net) \in limits
        /\ net < 0 => Over(down, -net) \in limits
        /\ \A s \in SectorsOf(c) : Over(sector(s), WeightIn(c, s)) \in limits
        /\ \A leg \in c.legs : LegLimit(inputs, leg) \in limits
    BY DEF Limits
  <1>2. loss \in Nat \ {0} /\ Budget(inputs, c.alpha) \in Nat
    BY UsableFigures
  <1>3. Gross(T) \in Nat /\ Net(T) \in Int /\ Risk(T) \in Nat
    BY ExposuresTyped
  <1>4. \A S \in SUBSET T : Gross(S) \in Nat
    <2> TAKE S \in SUBSET T
    <2>1. Positions(S)
      BY FS_Subset DEF Positions
    <2> QED
      BY <2>1, ExposuresTyped
  <1>5. \A s : Gross(InSector(T, s)) \in Nat
    BY <1>4 DEF InSector
  <1>6. net = Signed(c.legs) /\ net \in Int
    <2>1. Signed(c.legs) \in Int
      BY LegsWeighLittle DEF SoundCandidate
    <2> QED
      BY <2>1 DEF NetWeight, Signed
  <1>7. \A s \in SectorsOf(c) : WeightIn(c, s) = Weigh(LegsIn(c, s)) /\ WeightIn(c, s) \in Nat \ {0}
    <2> TAKE s \in SectorsOf(c)
    <2>1. WeightIn(c, s) = Weigh(LegsIn(c, s)) /\ Weigh(LegsIn(c, s)) \in Nat \ {0}
      BY SectorsWeigh
    <2> QED
      BY <2>1
  <1>8. risk \in Int /\ up \in Int /\ down \in Int /\ \A s : sector(s) \in Int
    BY <1>3, <1>5, CapsTyped
  <1>9. \A n \in limits : amount <= n
    OBVIOUS
  <1>10. amount <= Caps.gross - Gross(T) /\ amount <= Caps.alpha - held /\ amount <= Budget(inputs, c.alpha) - held
    BY <1>1, <1>9
  <1>11. \A leg \in c.legs :
           2 * (amount * AbsoluteValue(leg.weight)) <= 2 * (Caps.symbol * One) + AbsoluteValue(leg.weight)
    <2> TAKE leg \in c.legs
    <2>1. leg.weight \in Int \ {0} /\ CapacityUsable(inputs, leg) /\ amount \in Int
      BY DEF SoundCandidate, Legs
    <2>2. amount <= LegLimit(inputs, leg)
      BY <1>1, <1>9
    <2> QED
      BY <2>1, <2>2, LegIsLimited
  <1> HIDE DEF limits, loss, net, held, risk, up, down, sector
  <1>12. amount \in Int
    OBVIOUS
  <1>13. 2 * (amount * loss) <= 2 * (risk * One) + loss
    BY <1>1, <1>2, <1>8, <1>9, <1>12, BelowQuotient
  <1>14. net > 0 => 2 * (amount * net) <= 2 * (up * One) + net
    <2> SUFFICES ASSUME net > 0 PROVE 2 * (amount * net) <= 2 * (up * One) + net
      OBVIOUS
    <2>1. net \in Nat \ {0} /\ amount <= Over(up, net)
      BY <1>1, <1>6, <1>9
    <2> QED
      BY <1>8, <1>12, <2>1, BelowQuotient
  <1>15. net < 0 => 2 * (amount * (-net)) <= 2 * (down * One) + (-net)
    <2> SUFFICES ASSUME net < 0 PROVE 2 * (amount * (-net)) <= 2 * (down * One) + (-net)
      OBVIOUS
    <2> DEFINE y == -net
    <2>1. y \in Nat \ {0} /\ amount <= Over(down, y)
      BY <1>1, <1>6, <1>9
    <2> HIDE DEF y
    <2>2. 2 * (amount * y) <= 2 * (down * One) + y
      BY <1>8, <1>12, <2>1, BelowQuotient
    <2> QED
      BY <2>2 DEF y
  <1>16. \A s \in SectorsOf(c) : 2 * (amount * Weigh(LegsIn(c, s))) <= 2 * (sector(s) * One) + Weigh(LegsIn(c, s))
    <2> TAKE s \in SectorsOf(c)
    <2> DEFINE room == sector(s)
               w == WeightIn(c, s)
    <2>1. w \in Nat \ {0} /\ w = Weigh(LegsIn(c, s))
      BY <1>7
    <2>2. room \in Int
      BY <1>8
    <2>3. amount <= Over(room, w)
      BY <1>1, <1>9
    <2> HIDE DEF room, w
    <2>4. 2 * (amount * w) <= 2 * (room * One) + w
      BY <1>12, <2>1, <2>2, <2>3, BelowQuotient
    <2> QED
      BY <2>1, <2>4 DEF room
  <1> QED
    BY <1>6, <1>10, <1>11, <1>13, <1>14, <1>15, <1>16 DEF Room, loss, held, risk, up, down, sector

\* Nothing is added up to nothing, and one leg weighs what it weighs.
LEMMA OneLegWeighs ==
  ASSUME NEW leg, leg.weight \in Int \ {0}, AbsoluteValue(leg.weight) <= One
  PROVE  Legs({leg}) /\ Weigh({leg}) = AbsoluteValue(leg.weight) /\ Cardinality({leg}) = 1
  <1> DEFINE S == {leg}
             f == [x \in S |-> AbsoluteValue(x.weight)]
  <1>1. IsFiniteSet(S) /\ Cardinality(S) = 1
    BY FS_Singleton
  <1>2. Legs(S)
    BY <1>1 DEF Legs
  <1>3. Weigh(S) = SumFunctionOnSet(f, S)
    BY DEF Weigh, SumFunction
  <1>4. leg \in S /\ \A x \in S : f[x] \in Int
    BY MagnitudeIsNatural
  <1>5. f[leg] = AbsoluteValue(leg.weight) /\ f[leg] \in Int /\ S \ {leg} = {}
    BY <1>4
  <1> HIDE DEF f, S
  <1>6. SumFunctionOnSet(f, S) = f[leg] + SumFunctionOnSet(f, S \ {leg})
    BY <1>1, <1>4, SumWithout
  <1>7. SumFunctionOnSet(f, S \ {leg}) = 0
    BY <1>5, SumOfNothing
  <1> QED
    BY <1>1, <1>2, <1>3, <1>5, <1>6, <1>7 DEF S

\* One group more makes at most one more to count.
LEMMA OneGroupMore ==
  ASSUME NEW S, IsFiniteSet(S), NEW T, IsFiniteSet(T), NEW g, GroupsOf(T) \subseteq {g}
  PROVE  Cardinality(GroupsOf(S \cup T)) <= Cardinality(GroupsOf(S)) + 1
  <1> DEFINE G == GroupsOf(S)
             H == GroupsOf(S \cup T)
             most == G \cup {g}
  <1>1. IsFiniteSet(G) /\ Cardinality(G) \in Nat
    BY GroupsCounted
  <1>2. H \subseteq most
    BY DEF GroupsOf
  <1> HIDE DEF G, H
  <1>5. IsFiniteSet(most) /\ Cardinality(most) = IF g \in G THEN Cardinality(G) ELSE Cardinality(G) + 1
    BY <1>1, FS_AddElement
  <1>3. IsFiniteSet(most) /\ Cardinality(most) <= Cardinality(G) + 1 /\ Cardinality(most) \in Nat
    <2> HIDE DEF most
    <2> QED
      BY <1>1, <1>5
  <1> HIDE DEF most
  <1>4. Cardinality(H) <= Cardinality(most) /\ Cardinality(H) \in Nat
    BY <1>2, <1>3, FS_Subset, FS_CardinalityType
  <1> QED
    BY <1>1, <1>3, <1>4 DEF G, H

\* The positions in a security.
OfEntity(positions, entity) == {p \in positions : p.entity = entity}

\* What has room but for the rounding of a quotient takes that room, and a part per leg.
LEMMA RoomIsKept ==
  ASSUME NEW a \in Int, NEW w \in Int, NEW room \in Int, NEW g \in Int, NEW k \in Nat,
         w <= One * k, 2 * (a * w) <= 2 * (room * One) + w, 2 * (One * g) <= 2 * (a * w) + One * k
  PROVE  g <= room + k
  <1> DEFINE p == a * w
  <1>1. One \in Nat \ {0} /\ p \in Int
    BY UnitsArePositive
  <1> HIDE DEF p
  <1>2. 2 * p <= 2 * (room * One) + w /\ 2 * (One * g) <= 2 * p + One * k
    BY DEF p
  <1>3. One * g \in Int /\ room * One \in Int /\ One * k \in Int
    BY <1>1
  <1>4. One * g <= room * One + One * k
    BY <1>1, <1>2, <1>3
  <1> SUFFICES ASSUME g > room + k PROVE FALSE
    OBVIOUS
  <1>5. g - room - k - 1 \in Nat
    OBVIOUS
  <1>6. One * (g - room - k - 1) >= 0
    BY <1>1, <1>5
  <1>7. One * (g - room - k - 1) = One * g - room * One - One * k - One
    BY <1>1
  <1> QED
    BY <1>1, <1>3, <1>4, <1>6, <1>7

\* Legs that weigh one, but for half a part each, take an amount and a part each.
LEMMA WholeIsKept ==
  ASSUME NEW a \in Nat, a <= One, NEW W \in Int, NEW g \in Int, NEW k \in Nat,
         2 * W <= 2 * One + k, 2 * (One * g) <= 2 * (a * W) + One * k
  PROVE  g <= a + k
  <1> DEFINE p == a * W
             q == a * One
             r == a * k
             s == One * k
             t == One * g
  <1>1. One \in Nat \ {0}
    BY UnitsArePositive
  <1>2. p \in Int /\ q \in Int /\ r \in Int /\ s \in Int /\ t \in Int
    BY <1>1
  <1>3. 2 * p <= 2 * q + r
    <2>1. 2 * One + k - 2 * W \in Nat
      BY <1>1
    <2>2. a * (2 * One + k - 2 * W) >= 0
      BY <2>1
    <2>3. a * (2 * One + k - 2 * W) = 2 * q + r - 2 * p
      BY <1>1
    <2> QED
      BY <1>2, <2>2, <2>3
  <1>4. r <= s
    <2>1. One - a \in Nat
      BY <1>1
    <2>2. (One - a) * k >= 0
      BY <2>1
    <2>3. (One - a) * k = s - r
      BY <1>1
    <2> QED
      BY <1>2, <2>2, <2>3
  <1>5. 2 * t <= 2 * p + s
    OBVIOUS
  <1> SUFFICES ASSUME g > a + k PROVE FALSE
    OBVIOUS
  <1>6. g - a - k - 1 \in Nat
    OBVIOUS
  <1>7. One * (g - a - k - 1) >= 0
    BY <1>1, <1>6
  <1>8. One * (g - a - k - 1) = t - q - s - One
    BY <1>1
  <1> HIDE DEF p, q, r, s, t
  <1>9. t <= q + s
    BY <1>1, <1>2, <1>3, <1>4, <1>5
  <1> QED
    BY <1>1, <1>2, <1>7, <1>8, <1>9

\* The exposures of an addition: a part per leg more than the amount and its risk.
LEMMA AdditionsExposed ==
  ASSUME NEW c, SoundCandidate(c), NEW amount \in Nat, amount <= One, NEW risk \in Nat, risk <= One,
         NEW A, A = PositionsFor(c.legs, c, amount, risk), NEW k, k = Cardinality(c.legs)
  PROVE  /\ Positions(A) /\ k \in Nat /\ Gross(A) <= amount + k /\ Risk(A) <= risk + k
         /\ Signed(c.legs) \in Int /\ Signed(c.legs) <= One * k /\ -Signed(c.legs) <= One * k
         /\ Within(2 * (One * Net(A)), 2 * (amount * Signed(c.legs)), One * k)
  <1> DEFINE W == Weigh(c.legs)
             G == Gross(A)
             R == Risk(A)
  <1>1. Legs(c.legs) /\ 2 * W <= 2 * One + k
    BY DEF SoundCandidate
  <1>2. k \in Nat /\ W \in Nat /\ Signed(c.legs) \in Int /\ Signed(c.legs) <= One * k /\ -Signed(c.legs) <= One * k
    BY <1>1, LegsWeighLittle
  <1>3. /\ Positions(A)
        /\ Within(2 * (One * Net(A)), 2 * (amount * Signed(c.legs)), One * k)
        /\ Within(2 * (One * G), 2 * (amount * W), One * k)
        /\ Within(2 * (One * R), 2 * (risk * W), One * k)
    BY <1>1, ExposuresOfLegs
  <1>4. G \in Int /\ R \in Int
    BY <1>3, ExposuresTyped
  <1> HIDE DEF W, G, R
  <1>5. 2 * (One * G) <= 2 * (amount * W) + One * k /\ 2 * (One * R) <= 2 * (risk * W) + One * k
    BY <1>3 DEF Within
  <1>6. G <= amount + k
    BY <1>1, <1>2, <1>4, <1>5, WholeIsKept
  <1>7. R <= risk + k
    BY <1>1, <1>2, <1>4, <1>5, WholeIsKept
  <1> QED
    BY <1>2, <1>3, <1>6, <1>7 DEF G, R

\* What an addition takes in a sector.
LEMMA SectorExposed ==
  ASSUME NEW c, SoundCandidate(c), NEW amount \in Nat, NEW risk \in Nat,
         NEW A, A = PositionsFor(c.legs, c, amount, risk), NEW s \in SectorsOf(c), NEW room \in Int,
         2 * (amount * Weigh(LegsIn(c, s))) <= 2 * (room * One) + Weigh(LegsIn(c, s))
  PROVE  /\ Positions(InSector(A, s)) /\ Cardinality(c.legs) \in Nat
         /\ Gross(InSector(A, s)) <= room + Cardinality(c.legs)
  <1> DEFINE S == LegsIn(c, s)
             w == Weigh(S)
             k == Cardinality(S)
             B == InSector(A, s)
             g == Gross(B)
  <1>1. Legs(S)
    BY SectorsWeigh
  <1>2. B = PositionsFor(S, c, amount, risk)
    BY DEF InSector, PositionsFor, PositionFor, LegsIn
  <1>3. IsFiniteSet(c.legs) /\ S \subseteq c.legs
    BY DEF SoundCandidate, Legs, LegsIn
  <1> HIDE DEF S, B
  <1>4. k <= Cardinality(c.legs) /\ Cardinality(c.legs) \in Nat
    BY <1>3, FS_Subset, FS_CardinalityType
  <1>5. k \in Nat /\ w \in Int /\ w <= One * k
    BY <1>1, LegsWeighLittle
  <1>6. Positions(B) /\ Within(2 * (One * g), 2 * (amount * w), One * k)
    BY <1>1, <1>2, ExposuresOfLegs
  <1>7. g \in Int
    BY <1>6, ExposuresTyped
  <1>8. 2 * (amount * w) <= 2 * (room * One) + w
    BY DEF S
  <1> HIDE DEF w, k, g
  <1>9. 2 * (One * g) <= 2 * (amount * w) + One * k
    BY <1>6 DEF Within
  <1>10. g <= room + k
    BY <1>5, <1>7, <1>8, <1>9, RoomIsKept
  <1> QED
    BY <1>4, <1>5, <1>6, <1>7, <1>10 DEF B, g

\* What an addition takes in a security.
LEMMA LegExposed ==
  ASSUME NEW c, SoundCandidate(c), NEW amount \in Nat, NEW risk \in Nat,
         NEW A, A = PositionsFor(c.legs, c, amount, risk), NEW leg \in c.legs, NEW room \in Int,
         2 * (amount * AbsoluteValue(leg.weight)) <= 2 * (room * One) + AbsoluteValue(leg.weight)
  PROVE  Gross(OfEntity(A, leg.entity)) \in Int /\ Gross(OfEntity(A, leg.entity)) <= room + 1
  <1>1. Legs(c.legs)
    BY DEF SoundCandidate
  <1> DEFINE one == {leg}
             B == OfEntity(A, leg.entity)
             w == AbsoluteValue(leg.weight)
             g == Gross(B)
  <1>2. B = PositionsFor(one, c, amount, risk)
    BY <1>1 DEF OfEntity, PositionsFor, PositionFor, Legs
  <1>3. Legs(one) /\ Weigh(one) = w /\ Cardinality(one) = 1
    BY <1>1, OneLegWeighs DEF Legs
  <1>4. w \in Nat /\ w <= One
    BY <1>1, MagnitudeIsNatural DEF Legs
  <1> HIDE DEF one, B, w
  <1>5. Positions(B) /\ Within(2 * (One * g), 2 * (amount * w), One * 1)
    BY <1>2, <1>3, ExposuresOfLegs
  <1>6. g \in Int
    BY <1>5, ExposuresTyped
  <1>7. 2 * (amount * w) <= 2 * (room * One) + w
    BY DEF w
  <1> HIDE DEF g
  <1>8. 2 * (One * g) <= 2 * (amount * w) + One * 1 /\ w <= One * 1
    BY <1>4, <1>5, UnitsArePositive DEF Within
  <1> DEFINE k == 1
  <1>10. k \in Nat /\ amount \in Int /\ w \in Int
    BY <1>4
  <1>11. 2 * (One * g) <= 2 * (amount * w) + One * k /\ w <= One * k
    BY <1>8
  <1> HIDE DEF k
  <1>12. g <= room + k
    BY <1>6, <1>7, <1>10, <1>11, RoomIsKept
  <1>9. g <= room + 1
    BY <1>12 DEF k
  <1> QED
    BY <1>6, <1>9 DEF g, B

\* The caps, exceeded by slack at most.
WithinSlack(positions, slack) ==
  /\ Gross(positions) <= Caps.gross + slack
  /\ Net(positions) <= Caps.net + slack /\ -Net(positions) <= Caps.net + slack
  /\ Risk(positions) <= Caps.risk + slack
  /\ \A p \in positions :
       /\ Gross(OfAlpha(positions, p.alpha)) <= Caps.alpha + slack
       /\ Gross(InSector(positions, p.sector)) <= Caps.sector + slack
       /\ Gross(OfEntity(positions, p.entity)) <= Caps.symbol + slack

\* What allocate adds when there is room leaves everything within the caps, and the
\* alpha within its budget, up to the rounding of the legs: that is all that the final
\* check of the loop can find.
LEMMA RoomSuffices ==
  ASSUME NEW inputs, InputsTyped(inputs), NEW c, SoundCandidate(c), Usable(inputs, c),
         NEW T, Positions(T), WithinCaps(T), NEW amount \in Nat, Room(inputs, c, T, amount),
         \A p \in T, leg \in c.legs : p.entity # leg.entity
  PROVE  LET A == Additions(inputs, c, amount)
         IN /\ amount <= One /\ Positions(T \cup A) /\ WithinSlack(T \cup A, Quantum - 1)
            /\ Gross(OfAlpha(T \cup A, c.alpha)) < Budget(inputs, c.alpha) + Quantum
            /\ \A a : a # c.alpha => OfAlpha(T \cup A, a) = OfAlpha(T, a)
  <1> DEFINE loss == EstimateOf(inputs, c).loss
             risk == Times(amount, loss)
             A == PositionsFor(c.legs, c, amount, risk)
             net == Signed(c.legs)
             k == Cardinality(c.legs)
             slack == Quantum - 1
             held == Gross(OfAlpha(T, c.alpha))
             budget == Budget(inputs, c.alpha)
             both == T \cup A
  <1>1. Additions(inputs, c, amount) = A
    BY DEF Additions, PositionsFor, PositionFor
  <1>2. loss \in Nat \ {0} /\ loss <= One /\ budget \in Nat
    BY UsableFigures
  <1>3. Gross(T) \in Nat /\ Net(T) \in Int /\ Risk(T) \in Nat
    BY ExposuresTyped
  <1>4. Gross(T) <= Caps.gross /\ AbsoluteValue(Net(T)) <= Caps.net /\ Risk(T) <= Caps.risk
    BY DEF WithinCaps
  <1>5. /\ amount <= Caps.gross - Gross(T) /\ amount <= Caps.alpha - held /\ amount <= budget - held
        /\ 2 * (amount * loss) <= 2 * ((Caps.risk - Risk(T)) * One) + loss
        /\ net > 0 => 2 * (amount * net) <= 2 * ((Caps.net - Net(T)) * One) + net
        /\ net < 0 => 2 * (amount * (-net)) <= 2 * ((Caps.net + Net(T)) * One) + (-net)
        /\ \A s \in SectorsOf(c) :
             2 * (amount * Weigh(LegsIn(c, s))) <= 2 * ((Caps.sector - Gross(InSector(T, s))) * One) + Weigh(LegsIn(c, s))
        /\ \A leg \in c.legs : 2 * (amount * AbsoluteValue(leg.weight)) <= 2 * (Caps.symbol * One) + AbsoluteValue(leg.weight)
    BY DEF Room
  <1> HIDE DEF loss, budget
  <1>6. amount <= One
    BY <1>3, <1>5, CapsTyped
  <1>7. risk \in Nat /\ risk <= One
    <2>1. risk \in Nat /\ risk <= loss
      BY <1>2, <1>6, RoundedNaturals
    <2> QED
      BY <1>2, <2>1, UnitsArePositive
  <1>8. risk <= Caps.risk - Risk(T) + 1
    <2> DEFINE room == Caps.risk - Risk(T)
               p == amount * loss
    <2>1. room \in Int /\ p \in Int /\ One \in Nat \ {0}
      BY <1>2, <1>3, CapsTyped
    <2>2. risk = Rounded(p, One)
      BY DEF Times
    <2>3. Within(2 * (One * Rounded(p, One)), 2 * p, One)
      <3> HIDE DEF p
      <3> QED
        BY <2>1, RoundingIsNear
    <2>4. 2 * (amount * loss) <= 2 * (room * One) + loss
      BY <1>5
    <2> HIDE DEF risk, room
    <2>5. 2 * (One * risk) <= 2 * (amount * loss) + One * 1 /\ loss <= One * 1
      BY <1>2, <2>1, <2>2, <2>3 DEF Within
    <2>6. amount \in Int /\ loss \in Int /\ risk \in Int /\ 1 \in Nat
      BY <1>2, <1>7
    <2>7. risk <= room + 1
      BY <2>1, <2>4, <2>5, <2>6, RoomIsKept
    <2> QED
      BY <2>7 DEF room
  <1>9. A = PositionsFor(c.legs, c, amount, risk)
    OBVIOUS
  <1>10. \A q \in A : \E leg \in c.legs : q = PositionFor(leg, c, amount, risk)
    BY DEF PositionsFor
  <1>11. \A q \in A : /\ q.alpha = c.alpha /\ q.group = c.id /\ q.sector \in SectorsOf(c)
                      /\ \E leg \in c.legs : q.entity = leg.entity
    BY <1>10 DEF PositionFor, SectorsOf
  <1> HIDE DEF risk, A, net, k, held
  <1>12. /\ Positions(A) /\ k \in Nat /\ Gross(A) <= amount + k /\ Risk(A) <= risk + k
         /\ net \in Int /\ net <= One * k /\ -net <= One * k
         /\ Within(2 * (One * Net(A)), 2 * (amount * net), One * k)
    <2>1. k = Cardinality(c.legs) /\ net = Signed(c.legs)
      BY DEF k, net
    <2> QED
      BY <1>6, <1>7, <1>9, <2>1, AdditionsExposed
  <1>13. Gross(A) \in Nat /\ Net(A) \in Int /\ Risk(A) \in Nat
    BY <1>12, ExposuresTyped
  <1>14. k + 1 <= slack /\ slack \in Int
    <2>1. k + 1 < Quantum
      BY DEF SoundCandidate, k
    <2> QED
      BY <1>12, <2>1, UnitsArePositive
  <1>15. T \cap A = {}
    BY <1>11
  <1>16. Positions(both) /\ Gross(both) = Gross(T) + Gross(A) /\ Net(both) = Net(T) + Net(A) /\ Risk(both) = Risk(T) + Risk(A)
    BY <1>12, <1>15, ExposuresAdd
  <1> HIDE DEF slack
  <1>17. Gross(both) <= Caps.gross + slack
    BY <1>3, <1>5, <1>12, <1>13, <1>14, <1>16, CapsTyped
  <1>18. Risk(both) <= Caps.risk + slack
    BY <1>3, <1>7, <1>8, <1>12, <1>13, <1>14, <1>16, CapsTyped
  <1>19. Net(both) <= Caps.net + slack /\ -Net(both) <= Caps.net + slack
    <2> DEFINE cap == Caps.net
               n == Net(A)
               m == Net(T)
               s == One * k
    <2>1. cap \in Nat /\ One \in Nat \ {0} /\ m \in Int /\ n \in Int /\ s \in Nat
      BY <1>3, <1>12, <1>13, CapsTyped
    <2>2. -cap <= m /\ m <= cap
      BY <1>3, <1>4, <2>1 DEF AbsoluteValue
    <2>3. 2 * (One * n) <= 2 * (amount * net) + s /\ 2 * (amount * net) <= 2 * (One * n) + s
      BY <1>12 DEF Within
    <2>4. amount * net \in Int /\ (net >= 0 => amount * net >= 0) /\ (net <= 0 => amount * net <= 0)
          /\ amount * (-net) = -(amount * net)
      BY <1>12
    <2>5. One * (-n) = -(One * n) /\ One * n \in Int
      BY <2>1
    <2>6. n <= k \/ net > 0
      <3> SUFFICES ASSUME net <= 0 PROVE n <= k
        BY <1>12
      <3>1. 2 * (One * n) <= 2 * (0 * One) + One * k /\ One * k <= 2 * (One * k)
        BY <2>1, <2>3, <2>4
      <3>2. 2 * (1 * 0) <= 2 * (0 * One) + 0 /\ 2 * (One * n) <= 2 * (1 * 0) + One * k /\ 0 <= One * k
        BY <2>1, <3>1
      <3>3. n <= 0 + k
        BY <1>12, <2>1, <3>2, RoomIsKept
      <3> QED
        BY <1>12, <2>1, <3>3
    <2>7. -n <= k \/ net < 0
      <3> SUFFICES ASSUME net >= 0 PROVE -n <= k
        BY <1>12
      <3> DEFINE o == -n
      <3>1. o \in Int /\ One * o = -(One * n)
        BY <2>1, <2>5
      <3> HIDE DEF o, n
      <3>2. 2 * (1 * 0) <= 2 * (0 * One) + 0 /\ 2 * (One * o) <= 2 * (1 * 0) + One * k /\ 0 <= One * k
        BY <2>1, <2>3, <2>4, <2>5, <3>1
      <3>3. o <= 0 + k
        BY <1>12, <2>1, <3>1, <3>2, RoomIsKept
      <3> QED
        BY <1>12, <3>1, <3>3 DEF o
    <2>8. net > 0 => n <= cap - m + k
      <3> SUFFICES ASSUME net > 0 PROVE n <= cap - m + k
        OBVIOUS
      <3> DEFINE room == cap - m
      <3>1. room \in Int /\ 2 * (amount * net) <= 2 * (room * One) + net
        BY <1>5, <2>1
      <3>2. amount \in Int /\ 2 * (One * n) <= 2 * (amount * net) + One * k
        BY <2>3
      <3> HIDE DEF room, n
      <3>3. n <= room + k
        BY <1>12, <2>1, <3>1, <3>2, RoomIsKept
      <3> QED
        BY <3>3 DEF room
    <2>9. net < 0 => -n <= cap + m + k
      <3> SUFFICES ASSUME net < 0 PROVE -n <= cap + m + k
        OBVIOUS
      <3> DEFINE room == cap + m
                 o == -n
                 w == -net
      <3>1. room \in Int /\ 2 * (amount * w) <= 2 * (room * One) + w /\ w \in Int /\ w <= One * k
        BY <1>5, <1>12, <2>1
      <3>2. amount \in Int /\ 2 * (One * o) <= 2 * (amount * w) + One * k /\ o \in Int
        BY <2>1, <2>3, <2>4, <2>5
      <3> HIDE DEF room, n, o, w
      <3>3. o <= room + k
        BY <1>12, <3>1, <3>2, RoomIsKept
      <3> QED
        BY <3>3 DEF room, o
    <2>10. Net(both) = m + n
      BY <1>16
    <2> HIDE DEF cap, n, m, s
    <2>11. m + n <= cap + slack
      BY <1>12, <1>14, <2>1, <2>2, <2>6, <2>8
    <2>12. -(m + n) <= cap + slack
      BY <1>12, <1>14, <2>1, <2>2, <2>7, <2>9
    <2> QED
      BY <2>10, <2>11, <2>12 DEF cap
  <1>20. \A a : a # c.alpha => OfAlpha(both, a) = OfAlpha(T, a)
    BY <1>11 DEF OfAlpha
  <1>21. OfAlpha(both, c.alpha) = OfAlpha(T, c.alpha) \cup A
    BY <1>11 DEF OfAlpha
  <1>22. Gross(OfAlpha(both, c.alpha)) = held + Gross(A) /\ held \in Nat
    <2> DEFINE S == OfAlpha(T, c.alpha)
    <2>1. Positions(S) /\ S \cap A = {}
      BY <1>15, FS_Subset DEF Positions, OfAlpha
    <2> HIDE DEF S
    <2>2. Gross(S \cup A) = Gross(S) + Gross(A) /\ Gross(S) \in Nat
      BY <1>12, <2>1, ExposuresAdd, ExposuresTyped
    <2> QED
      BY <1>21, <2>2 DEF S, held
  <1>23. Gross(OfAlpha(both, c.alpha)) <= Caps.alpha + slack
    BY <1>5, <1>12, <1>13, <1>14, <1>22, CapsTyped
  <1>24. Gross(OfAlpha(both, c.alpha)) < budget + Quantum
    BY <1>2, <1>5, <1>12, <1>13, <1>14, <1>22, UnitsArePositive DEF slack
  <1>25. \A p \in both : Gross(OfAlpha(both, p.alpha)) <= Caps.alpha + slack
    <2> TAKE p \in both
    <2>1. CASE p.alpha = c.alpha
      BY <1>23, <2>1
    <2>2. CASE p.alpha # c.alpha
      <3>1. p \in T
        BY <1>11, <2>2
      <3>2. OfAlpha(both, p.alpha) = OfAlpha(T, p.alpha) /\ Gross(OfAlpha(T, p.alpha)) <= Caps.alpha
        BY <1>20, <2>2, <3>1 DEF WithinCaps
      <3>3. Positions(OfAlpha(T, p.alpha))
        BY FS_Subset DEF Positions, OfAlpha
      <3>4. Gross(OfAlpha(T, p.alpha)) \in Nat
        BY <3>3, ExposuresTyped
      <3> QED
        BY <1>12, <1>14, <3>2, <3>4, CapsTyped
    <2> QED
      BY <2>1, <2>2
  <1>26. \A s : InSector(both, s) = InSector(T, s) \cup InSector(A, s)
    BY DEF InSector
  <1>27. \A s : Positions(InSector(T, s)) /\ InSector(T, s) \cap InSector(A, s) = {}
    BY <1>15, FS_Subset DEF Positions, InSector
  <1>28. \A p \in both : Gross(InSector(both, p.sector)) <= Caps.sector + slack
    <2> TAKE p \in both
    <2> DEFINE s == p.sector
               S == InSector(T, s)
               B == InSector(A, s)
    <2>0. Positions(S) /\ S \cap B = {}
      BY <1>27
    <2>1. CASE s \in SectorsOf(c)
      <3> DEFINE room == Caps.sector - Gross(S)
      <3>1. Gross(S) \in Nat
        <4> HIDE DEF S
        <4> QED
          BY <2>0, ExposuresTyped
      <3>2. room \in Int
        <4> HIDE DEF S
        <4> QED
          BY <3>1, CapsTyped
      <3>3. 2 * (amount * Weigh(LegsIn(c, s))) <= 2 * (room * One) + Weigh(LegsIn(c, s))
        BY <1>5, <2>1
      <3>4. Positions(B) /\ Gross(B) <= room + k
        <4> HIDE DEF room, s
        <4>1. Positions(InSector(A, s)) /\ Gross(InSector(A, s)) <= room + Cardinality(c.legs)
          BY <1>7, <1>9, <2>1, <3>2, <3>3, SectorExposed
        <4> QED
          BY <4>1 DEF k
      <3>5. InSector(both, s) = S \cup B
        BY <1>26
      <3> HIDE DEF S, B, room
      <3>6. Gross(S \cup B) = Gross(S) + Gross(B) /\ Gross(B) \in Nat
        BY <2>0, <3>4, ExposuresAdd, ExposuresTyped
      <3>7. Gross(S \cup B) <= Caps.sector + slack
        BY <1>12, <1>14, <3>1, <3>4, <3>6, CapsTyped DEF room
      <3> QED
        BY <3>5, <3>7
    <2>2. CASE s \notin SectorsOf(c)
      <3>1. p \in T /\ InSector(both, s) = S
        BY <1>11, <2>2 DEF InSector
      <3>2. Gross(S) <= Caps.sector
        BY <3>1 DEF WithinCaps
      <3> HIDE DEF S
      <3>3. Gross(S) \in Nat
        BY <2>0, ExposuresTyped
      <3>4. Gross(S) <= Caps.sector + slack
        BY <1>12, <1>14, <3>2, <3>3, CapsTyped
      <3> QED
        BY <3>1, <3>4
    <2> QED
      BY <2>1, <2>2
  <1>29. \A p \in both : Gross(OfEntity(both, p.entity)) <= Caps.symbol + slack
    <2> TAKE p \in both
    <2>1. CASE p \in A
      <3>1. PICK leg \in c.legs : p.entity = leg.entity
        BY <1>11, <2>1
      <3>2. OfEntity(both, p.entity) = OfEntity(A, leg.entity)
        BY <3>1 DEF OfEntity
      <3>3. 2 * (amount * AbsoluteValue(leg.weight)) <= 2 * (Caps.symbol * One) + AbsoluteValue(leg.weight)
        BY <1>5
      <3>4. Caps.symbol \in Int
        BY CapsTyped
      <3>5. Gross(OfEntity(A, leg.entity)) \in Int /\ Gross(OfEntity(A, leg.entity)) <= Caps.symbol + 1
        BY <1>7, <1>9, <3>3, <3>4, LegExposed
      <3> QED
        BY <1>12, <1>14, <3>2, <3>4, <3>5
    <2>2. CASE p \in T
      <3> DEFINE S == OfEntity(T, p.entity)
      <3>1. OfEntity(both, p.entity) = S
        BY <1>11, <2>2 DEF OfEntity
      <3>2. Gross(S) <= Caps.symbol
        BY <2>2 DEF WithinCaps, OfEntity
      <3>3. Positions(S)
        BY FS_Subset DEF Positions, OfEntity
      <3> HIDE DEF S
      <3>4. Gross(S) \in Nat
        BY <3>3, ExposuresTyped
      <3> QED
        BY <1>12, <1>14, <3>1, <3>2, <3>4, CapsTyped
    <2> QED
      BY <2>1, <2>2
  <1>30. WithinSlack(both, slack)
    BY <1>17, <1>18, <1>19, <1>25, <1>28, <1>29 DEF WithinSlack
  <1> QED
    BY <1>1, <1>6, <1>16, <1>20, <1>24, <1>30 DEF slack, budget

-----------------------------------------------------------------------------
(* The loop over the candidates. *)

\* What goes for a candidate that is proposed with an amount.
Taken(inputs, c, T, amount) ==
  LET both == T \cup Additions(inputs, c, amount)
  IN /\ amount \in Nat \ {0} /\ amount <= One /\ EstimateOf(inputs, c).loss \in Nat \ {0}
     /\ \A p \in T, leg \in c.legs : p.entity # leg.entity
     /\ Positions(both) /\ WithinCaps(both)
     /\ Gross(OfAlpha(both, c.alpha)) < Budget(inputs, c.alpha) + Quantum
     /\ \A a : a # c.alpha => OfAlpha(both, a) = OfAlpha(T, a)

\* Nothing is left of a candidate, or its legs exceed the caps by less than a quantum.
Clipped(inputs, c, T) ==
  LET amount == Amount(inputs, c, T)
      both == T \cup Additions(inputs, c, amount)
  IN amount = 0 \/ (Positions(both) /\ WithinSlack(both, Quantum - 1))

\* The record of an allocation, and the reasons that one can have.
Record(c, gross, reason) == [id |-> c.id, gross |-> gross, reason |-> reason]

Reasons == {"", "CANDIDATE_INPUT_UNAVAILABLE", "EXISTING_OR_SELECTED_SYMBOL_OVERLAP", "POSITION_GROUP_CAP",
            "SECTOR_GROUP_CAP", "CORRELATION_UNAVAILABLE", "LIQUIDITY_CAPACITY_UNAVAILABLE",
            "NO_CAPACITY", "PROPOSED"}

\* A candidate is left out for a reason of its own.
LEMMA ObstaclesNamed ==
  ASSUME NEW inputs, NEW c, NEW T
  PROVE  /\ Obstacle(inputs, c, T) \in Reasons
         /\ Obstacle(inputs, c, T) # "PROPOSED" /\ Obstacle(inputs, c, T) # "NO_CAPACITY"
  <1> DEFINE unusable == ~Usable(inputs, c)
             overlap == \E p \in T : p.entity \in EntitiesOf(c)
             groups == Cardinality(GroupsOf(T)) >= Caps.groups
             sectors == \E s \in SectorsOf(c) : Cardinality(GroupsOf(InSector(T, s))) >= Caps.sectorGroups
             correlations == PairsNeeded(c, T) # {r.pair : r \in CorrelationsOf(inputs, c, T)}
             capacity == \E leg \in c.legs : ~CapacityUsable(inputs, leg)
  <1>1. Obstacle(inputs, c, T) =
          IF unusable THEN "CANDIDATE_INPUT_UNAVAILABLE"
          ELSE IF overlap THEN "EXISTING_OR_SELECTED_SYMBOL_OVERLAP"
          ELSE IF groups THEN "POSITION_GROUP_CAP"
          ELSE IF sectors THEN "SECTOR_GROUP_CAP"
          ELSE IF correlations THEN "CORRELATION_UNAVAILABLE"
          ELSE IF capacity THEN "LIQUIDITY_CAPACITY_UNAVAILABLE"
          ELSE ""
    BY DEF Obstacle
  <1> HIDE DEF unusable, overlap, groups, sectors, correlations, capacity
  <1> QED
    BY <1>1 DEF Reasons

\* One turn of the loop over what there is so far.
TurnsTo(inputs, c, T, R, next) ==
  \/ \E reason \in Reasons :
       /\ reason # "PROPOSED" /\ (reason = "NO_CAPACITY" => Clipped(inputs, c, T))
       /\ next = [targets |-> T, records |-> Append(R, Record(c, 0, reason))]
  \/ \E amount \in Nat \ {0} :
       /\ Taken(inputs, c, T, amount)
       /\ next = [targets |-> T \cup Additions(inputs, c, amount),
                  records |-> Append(R, Record(c, amount, "PROPOSED"))]

\* One turn: the candidate stays out, without capacity only if nothing is left of its
\* amount or the rounding of its legs exceeds a cap, or its positions are added.
LEMMA TurnOfTheLoop ==
  ASSUME NEW inputs, InputsTyped(inputs), NEW c, SoundCandidate(c), NEW T, Positions(T), WithinCaps(T), NEW R,
         NEW next, next = Consider(inputs, [targets |-> T, records |-> R], c)
  PROVE  TurnsTo(inputs, c, T, R, next)
  <1> DEFINE soFar == [targets |-> T, records |-> R]
             obstacle == Obstacle(inputs, c, T)
             amount == Amount(inputs, c, T)
             more == Additions(inputs, c, amount)
             out(reason) == [targets |-> T, records |-> Append(R, Record(c, 0, reason))]
             added == [targets |-> T \cup more, records |-> Append(R, Record(c, amount, "PROPOSED"))]
  <1>1. next = IF obstacle # "" THEN out(obstacle)
               ELSE IF amount > 0 /\ WithinCaps(T \cup more) THEN added
               ELSE out("NO_CAPACITY")
    <2>1. soFar.targets = T /\ soFar.records = R
      OBVIOUS
    <2>2. \A X : [soFar EXCEPT !.records = X] = [targets |-> T, records |-> X]
      OBVIOUS
    <2>3. next = IF obstacle # "" THEN [soFar EXCEPT !.records = Append(@, Record(c, 0, obstacle))]
                 ELSE IF amount > 0 /\ WithinCaps(T \cup more) THEN added
                 ELSE [soFar EXCEPT !.records = Append(@, Record(c, 0, "NO_CAPACITY"))]
      BY DEF Consider, Record
    <2> HIDE DEF obstacle, amount, more, added
    <2> QED
      BY <2>1, <2>2, <2>3
  <1>2. obstacle \in Reasons /\ obstacle # "PROPOSED" /\ obstacle # "NO_CAPACITY"
    BY ObstaclesNamed
  <1>3. CASE obstacle # ""
    <2>1. next = out(obstacle)
      BY <1>1, <1>3
    <2> HIDE DEF obstacle
    <2> QED
      BY <1>2, <2>1 DEF TurnsTo
  <1>4. CASE obstacle = ""
    <2>1. /\ Usable(inputs, c)
          /\ \A p \in T, leg \in c.legs : p.entity # leg.entity
          /\ \A leg \in c.legs : CapacityUsable(inputs, leg)
      BY <1>4 DEF Obstacle, EntitiesOf
    <2>4. amount \in Nat /\ (amount > 0 => \A n \in Limits(inputs, c, T) : amount <= n)
      BY <2>1, AmountIsLimited
    <2> HIDE DEF amount
    <2> DEFINE both == T \cup more
    <2>5. amount > 0 =>
            /\ amount <= One /\ Positions(both) /\ WithinSlack(both, Quantum - 1)
            /\ Gross(OfAlpha(both, c.alpha)) < Budget(inputs, c.alpha) + Quantum
            /\ \A a : a # c.alpha => OfAlpha(both, a) = OfAlpha(T, a)
      <3> SUFFICES ASSUME amount > 0
                   PROVE  /\ amount <= One /\ Positions(both) /\ WithinSlack(both, Quantum - 1)
                          /\ Gross(OfAlpha(both, c.alpha)) < Budget(inputs, c.alpha) + Quantum
                          /\ \A a : a # c.alpha => OfAlpha(both, a) = OfAlpha(T, a)
        OBVIOUS
      <3>1. Room(inputs, c, T, amount)
        BY <2>1, <2>4, LimitsLeaveRoom
      <3>2. amount \in Nat /\ Usable(inputs, c) /\ \A p \in T, leg \in c.legs : p.entity # leg.entity
        BY <2>1, <2>4
      <3> HIDE DEF more, both
      <3>3. both = T \cup Additions(inputs, c, amount)
        BY DEF both, more
      <3> QED
        BY ONLY InputsTyped(inputs), SoundCandidate(c), Positions(T), WithinCaps(T),
                <3>1, <3>2, <3>3, RoomSuffices
    <2>6. CASE amount > 0 /\ WithinCaps(both)
      <3>1. EstimateOf(inputs, c).loss \in Nat \ {0} /\ amount \in Nat \ {0}
        BY <2>1, <2>4, <2>6, UsableFigures
      <3>2. Taken(inputs, c, T, amount) <=>
              /\ amount \in Nat \ {0} /\ amount <= One /\ EstimateOf(inputs, c).loss \in Nat \ {0}
              /\ \A p \in T, leg \in c.legs : p.entity # leg.entity
              /\ Positions(both) /\ WithinCaps(both)
              /\ Gross(OfAlpha(both, c.alpha)) < Budget(inputs, c.alpha) + Quantum
              /\ \A a : a # c.alpha => OfAlpha(both, a) = OfAlpha(T, a)
        BY DEF Taken
      <3>3. next = [targets |-> T \cup Additions(inputs, c, amount), records |-> Append(R, Record(c, amount, "PROPOSED"))]
        BY <1>1, <1>4, <2>6
      <3> HIDE DEF both
      <3>4. Taken(inputs, c, T, amount) /\ amount \in Nat \ {0}
        BY <2>1, <2>5, <2>6, <3>1, <3>2
      <3> QED
        BY <3>3, <3>4 DEF TurnsTo
    <2>7. CASE ~(amount > 0 /\ WithinCaps(both))
      <3>1. next = out("NO_CAPACITY")
        BY <1>1, <1>4, <2>7
      <3>2. "NO_CAPACITY" \in Reasons /\ "NO_CAPACITY" # "PROPOSED"
        BY DEF Reasons
      <3>3. Clipped(inputs, c, T) <=> amount = 0 \/ (Positions(both) /\ WithinSlack(both, Quantum - 1))
        BY DEF Clipped, amount
      <3> HIDE DEF both
      <3>4. Clipped(inputs, c, T)
        BY <2>4, <2>5, <3>3
      <3> QED
        BY <3>1, <3>2, <3>4 DEF TurnsTo
    <2> QED
      BY <2>6, <2>7
  <1> QED
    BY <1>3, <1>4

\* A position has the fields of a position, and nothing else.
WellFormed(p) ==
  p = [entity |-> p.entity, sector |-> p.sector, alpha |-> p.alpha, group |-> p.group,
       notional |-> p.notional, risk |-> p.risk, proposed |-> p.proposed]

\* A security belongs to one group, is either held or proposed, and an alpha is in its budget.
OneGroup(positions) == \A p, q \in positions : p.entity = q.entity => p.group = q.group
Apart(positions) == \A p, q \in positions : p.entity = q.entity => p.proposed = q.proposed
InBudget(inputs, positions, alpha) ==
  Gross(OfAlpha(positions, alpha)) < Budget(inputs, alpha) + Quantum

\* What holds of the targets after every turn.
Holds(inputs, positions) ==
  /\ Positions(positions) /\ WithinCaps(positions) /\ OneGroup(positions) /\ Apart(positions)
  /\ \A p \in positions : WellFormed(p)
  /\ \A p \in positions : p.proposed => InBudget(inputs, positions, p.alpha)

\* The records there can be.
Records(inputs) ==
  [id : {inputs.ensemble.candidates[k].id : k \in DOMAIN inputs.ensemble.candidates},
   gross : Nat, reason : Reasons]

\* The targets after the first n records.
After(inputs, R, n) ==
  inputs.portfolio.positions
    \cup UNION {Additions(inputs, inputs.ensemble.candidates[k], R[k].gross) :
                  k \in {j \in 1 .. n : R[j].reason = "PROPOSED"}}

\* The k-th record says what its turn did, given the targets after the turns before.
Turn(inputs, R, k) ==
  /\ R[k].id = inputs.ensemble.candidates[k].id
  /\ R[k].reason = "PROPOSED" =>
       Taken(inputs, inputs.ensemble.candidates[k], After(inputs, R, k - 1), R[k].gross)
  /\ R[k].reason = "NO_CAPACITY" =>
       Clipped(inputs, inputs.ensemble.candidates[k], After(inputs, R, k - 1))

\* The invariant of the loop: n records, each of its turn, and sound targets after every turn.
Decided(inputs, R, n) ==
  /\ R \in Seq(Records(inputs)) /\ Len(R) = n
  /\ \A k \in 1 .. n : Turn(inputs, R, k)
  /\ \A k \in 0 .. n : Holds(inputs, After(inputs, R, k))

\* What the loop starts from.
Prepared(inputs) ==
  /\ InputsTyped(inputs)
  /\ Len(inputs.ensemble.candidates) \in Nat
  /\ DOMAIN inputs.ensemble.candidates = 1 .. Len(inputs.ensemble.candidates)
  /\ \A n \in DOMAIN inputs.ensemble.candidates : SoundCandidate(inputs.ensemble.candidates[n])
  /\ Positions(inputs.portfolio.positions) /\ OneGroup(inputs.portfolio.positions)
  /\ \A p \in inputs.portfolio.positions : WellFormed(p) /\ p.proposed = FALSE

\* R2 is R with one record more.
Extends(inputs, R2, R, r, n) ==
  /\ R2 \in Seq(Records(inputs)) /\ Len(R2) = n + 1
  /\ R2[n + 1] = r /\ \A k \in 1 .. n : R2[k] = R[k]
  /\ \A k \in 0 .. n : After(inputs, R2, k) = After(inputs, R, k)
  /\ After(inputs, R2, n + 1) =
       IF r.reason = "PROPOSED"
       THEN After(inputs, R, n) \cup Additions(inputs, inputs.ensemble.candidates[n + 1], r.gross)
       ELSE After(inputs, R, n)

\* A further record leaves what was decided before.
LEMMA RecordsAppended ==
  ASSUME NEW inputs, NEW n \in Nat, NEW R \in Seq(Records(inputs)), Len(R) = n, NEW r \in Records(inputs),
         NEW R2, R2 = Append(R, r)
  PROVE  Extends(inputs, R2, R, r, n)
  <1>1. /\ R2 \in Seq(Records(inputs)) /\ Len(R2) = n + 1
        /\ R2[n + 1] = r /\ \A k \in 1 .. n : R2[k] = R[k]
    <2> DEFINE S == Records(inputs)
    <2> HIDE DEF S
    <2>1. R \in Seq(S) /\ r \in S
      BY DEF S
    <2>2. R2 \in Seq(S) /\ Len(R2) = n + 1 /\ R2[n + 1] = r /\ \A k \in 1 .. n : R2[k] = R[k]
      BY <2>1
    <2> QED
      BY <2>2 DEF S
  <1> DEFINE more(Q, k) == Additions(inputs, inputs.ensemble.candidates[k], Q[k].gross)
             yes(Q, k) == {j \in 1 .. k : Q[j].reason = "PROPOSED"}
  <1>2. \A Q, k : After(inputs, Q, k) = inputs.portfolio.positions \cup UNION {more(Q, j) : j \in yes(Q, k)}
    BY DEF After
  <1>9. \A Q, k, x : x \in After(inputs, Q, k)
                        <=> x \in inputs.portfolio.positions \/ \E j \in yes(Q, k) : x \in more(Q, j)
    <2> HIDE DEF more, yes
    <2> QED
      BY <1>2
  <1>3. \A k \in 0 .. n : yes(R2, k) = yes(R, k) /\ \A j \in yes(R, k) : more(R2, j) = more(R, j)
    <2> TAKE k \in 0 .. n
    <2>1. \A j \in 1 .. k : j \in 1 .. n
      OBVIOUS
    <2> QED
      BY <1>1, <2>1
  <1>4. yes(R2, n + 1) = IF r.reason = "PROPOSED" THEN yes(R, n) \cup {n + 1} ELSE yes(R, n)
    <2>1. \A j : j \in 1 .. n + 1 <=> j \in 1 .. n \/ j = n + 1
      OBVIOUS
    <2>2. n + 1 \notin 1 .. n
      OBVIOUS
    <2> QED
      BY <1>1, <2>1, <2>2
  <1>5. more(R2, n + 1) = Additions(inputs, inputs.ensemble.candidates[n + 1], r.gross)
    BY <1>1
  <1>6. \A j \in yes(R, n) : more(R2, j) = more(R, j)
    BY <1>3
  <1>7. \A k \in 0 .. n : After(inputs, R2, k) = After(inputs, R, k)
    <2> TAKE k \in 0 .. n
    <2>1. yes(R2, k) = yes(R, k) /\ \A j \in yes(R, k) : more(R2, j) = more(R, j)
      BY <1>3
    <2> HIDE DEF more, yes
    <2>2. \A x : x \in After(inputs, R2, k) <=> x \in After(inputs, R, k)
      BY <1>9, <2>1
    <2>3. After(inputs, R2, k) \subseteq After(inputs, R, k) /\ After(inputs, R, k) \subseteq After(inputs, R2, k)
      BY <2>2
    <2> QED
      BY <2>3
  <1>8. After(inputs, R2, n + 1) =
          IF r.reason = "PROPOSED"
          THEN After(inputs, R, n) \cup Additions(inputs, inputs.ensemble.candidates[n + 1], r.gross)
          ELSE After(inputs, R, n)
    <2> DEFINE new == Additions(inputs, inputs.ensemble.candidates[n + 1], r.gross)
    <2> HIDE DEF more, yes, new
    <2>1. CASE r.reason = "PROPOSED"
      <3>1. \A x : x \in After(inputs, R2, n + 1) <=> x \in After(inputs, R, n) \/ x \in new
        BY <1>4, <1>5, <1>6, <1>9, <2>1 DEF new
      <3>2. After(inputs, R2, n + 1) = After(inputs, R, n) \cup new
        BY <3>1
      <3> QED
        BY <2>1, <3>2 DEF new
    <2>2. CASE r.reason # "PROPOSED"
      <3>1. \A x : x \in After(inputs, R2, n + 1) <=> x \in After(inputs, R, n)
        BY <1>4, <1>6, <1>9, <2>2
      <3>2. /\ After(inputs, R2, n + 1) \subseteq After(inputs, R, n)
            /\ After(inputs, R, n) \subseteq After(inputs, R2, n + 1)
        BY <3>1
      <3> QED
        BY <2>2, <3>2
    <2> QED
      BY <2>1, <2>2
  <1> HIDE DEF more, yes
  <1> QED
    BY <1>1, <1>7, <1>8 DEF Extends

\* What is added for a candidate keeps what holds.
LEMMA HoldsWithMore ==
  ASSUME NEW inputs, NEW c, NEW T, Holds(inputs, T), NEW amount, Taken(inputs, c, T, amount)
  PROVE  Holds(inputs, T \cup Additions(inputs, c, amount))
  <1> DEFINE A == Additions(inputs, c, amount)
             both == T \cup A
  <1>1. \A q \in A : /\ q.alpha = c.alpha /\ q.group = c.id /\ q.proposed = TRUE /\ WellFormed(q)
                     /\ \E leg \in c.legs : q.entity = leg.entity
    BY DEF Additions, WellFormed
  <1> HIDE DEF A
  <1>2. /\ \A p \in T, leg \in c.legs : p.entity # leg.entity
        /\ Positions(both) /\ WithinCaps(both) /\ InBudget(inputs, both, c.alpha)
        /\ \A a : a # c.alpha => OfAlpha(both, a) = OfAlpha(T, a)
    BY DEF Taken, InBudget, A
  <1>3. OneGroup(both)
    BY <1>1, <1>2 DEF Holds, OneGroup
  <1>6. Apart(both)
    BY <1>1, <1>2, ZenonT(60) DEF Holds, Apart
  <1>4. \A p \in both : p.proposed => InBudget(inputs, both, p.alpha)
    <2> SUFFICES ASSUME NEW p \in both, p.proposed PROVE InBudget(inputs, both, p.alpha)
      OBVIOUS
    <2>1. CASE p.alpha = c.alpha
      BY <1>2, <2>1
    <2>2. CASE p.alpha # c.alpha
      <3>1. p \in T
        BY <1>1, <2>2
      <3>2. InBudget(inputs, T, p.alpha)
        BY <3>1 DEF Holds
      <3>3. OfAlpha(both, p.alpha) = OfAlpha(T, p.alpha)
        BY <1>2, <2>2
      <3> QED
        BY <3>2, <3>3 DEF InBudget
    <2> QED
      BY <2>1, <2>2
  <1>5. \A p \in both : WellFormed(p)
    BY <1>1 DEF Holds
  <1> QED
    BY <1>2, <1>3, <1>4, <1>5, <1>6 DEF Holds, A

\* The state of the loop after n turns.
Reached(inputs, state, n) ==
  \E R : Decided(inputs, R, n) /\ state = [targets |-> After(inputs, R, n), records |-> R]

\* One turn more.
LEMMA DecidedFurther ==
  ASSUME NEW inputs, Prepared(inputs), NEW n \in Nat, n + 1 \in DOMAIN inputs.ensemble.candidates,
         NEW R, Decided(inputs, R, n), NEW next,
         next = Consider(inputs, [targets |-> After(inputs, R, n), records |-> R],
                         inputs.ensemble.candidates[n + 1])
  PROVE  Reached(inputs, next, n + 1)
  <1> DEFINE c == inputs.ensemble.candidates[n + 1]
             T == After(inputs, R, n)
             Fits(r, m) == r.reason = "PROPOSED" /\ Taken(inputs, c, T, r.gross) /\ m = T \cup Additions(inputs, c, r.gross)
             Stays(r, m) == r.reason # "PROPOSED" /\ (r.reason = "NO_CAPACITY" => Clipped(inputs, c, T)) /\ m = T
  <1>1. /\ InputsTyped(inputs) /\ SoundCandidate(c) /\ Positions(T) /\ WithinCaps(T) /\ Holds(inputs, T)
        /\ R \in Seq(Records(inputs)) /\ Len(R) = n
    <2>1. n \in 0 .. n
      OBVIOUS
    <2>2. Holds(inputs, T)
      BY <2>1 DEF Decided
    <2>3. Positions(T) /\ WithinCaps(T)
      BY <2>2 DEF Holds
    <2>4. R \in Seq(Records(inputs)) /\ Len(R) = n
      BY DEF Decided
    <2>5. InputsTyped(inputs) /\ SoundCandidate(c)
      BY DEF Prepared
    <2> QED
      BY <2>2, <2>3, <2>4, <2>5
  <1>2. \E r \in Records(inputs) : \E m :
          /\ r.id = c.id /\ (Fits(r, m) \/ Stays(r, m))
          /\ next = [targets |-> m, records |-> Append(R, r)]
    <2> HIDE DEF T
    <2>1. next = Consider(inputs, [targets |-> T, records |-> R], c)
      BY DEF T
    <2>2. \A amount \in Nat, reason \in Reasons :
            /\ Record(c, amount, reason) \in Records(inputs) /\ Record(c, amount, reason).id = c.id
            /\ Record(c, amount, reason).gross = amount /\ Record(c, amount, reason).reason = reason
      <3>1. c.id \in {inputs.ensemble.candidates[k].id : k \in DOMAIN inputs.ensemble.candidates}
        OBVIOUS
      <3> HIDE DEF c
      <3> QED
        BY <3>1 DEF Record, Records
    <2>3. "PROPOSED" \in Reasons
      BY DEF Reasons
    <2> HIDE DEF c
    <2>4. TurnsTo(inputs, c, T, R, next)
      BY <1>1, <2>1, TurnOfTheLoop
    <2>5. CASE \E reason \in Reasons :
               /\ reason # "PROPOSED" /\ (reason = "NO_CAPACITY" => Clipped(inputs, c, T))
               /\ next = [targets |-> T, records |-> Append(R, Record(c, 0, reason))]
      <3>1. PICK reason \in Reasons :
               /\ reason # "PROPOSED" /\ (reason = "NO_CAPACITY" => Clipped(inputs, c, T))
               /\ next = [targets |-> T, records |-> Append(R, Record(c, 0, reason))]
        BY <2>5
      <3> DEFINE r == Record(c, 0, reason)
      <3>2. r \in Records(inputs) /\ r.id = c.id /\ r.gross = 0 /\ r.reason = reason
        BY <2>2
      <3> HIDE DEF r
      <3>3. Stays(r, T)
        BY <3>1, <3>2
      <3> QED
        BY <3>1, <3>2, <3>3 DEF r
    <2>6. CASE \E amount \in Nat \ {0} :
               /\ Taken(inputs, c, T, amount)
               /\ next = [targets |-> T \cup Additions(inputs, c, amount),
                          records |-> Append(R, Record(c, amount, "PROPOSED"))]
      <3>1. PICK amount \in Nat \ {0} :
               /\ Taken(inputs, c, T, amount)
               /\ next = [targets |-> T \cup Additions(inputs, c, amount),
                          records |-> Append(R, Record(c, amount, "PROPOSED"))]
        BY <2>6
      <3> DEFINE r == Record(c, amount, "PROPOSED")
                 m == T \cup Additions(inputs, c, amount)
      <3>2. r \in Records(inputs) /\ r.id = c.id /\ r.gross = amount /\ r.reason = "PROPOSED"
        BY <2>2, <2>3
      <3> HIDE DEF r
      <3>3. Fits(r, m)
        BY <3>1, <3>2
      <3> QED
        BY <3>1, <3>2, <3>3 DEF r
    <2> QED
      BY <2>4, <2>5, <2>6 DEF TurnsTo
  <1>12. PICK r \in Records(inputs) :
           \E m : /\ r.id = c.id /\ (Fits(r, m) \/ Stays(r, m))
                 /\ next = [targets |-> m, records |-> Append(R, r)]
    BY <1>2
  <1>3. PICK m : /\ r.id = c.id /\ (Fits(r, m) \/ Stays(r, m))
                 /\ next = [targets |-> m, records |-> Append(R, r)]
    BY <1>12
  <1> DEFINE R2 == Append(R, r)
  <1>4. /\ R2 \in Seq(Records(inputs)) /\ Len(R2) = n + 1
        /\ R2[n + 1] = r /\ \A k \in 1 .. n : R2[k] = R[k]
        /\ \A k \in 0 .. n : After(inputs, R2, k) = After(inputs, R, k)
        /\ After(inputs, R2, n + 1) = IF r.reason = "PROPOSED" THEN T \cup Additions(inputs, c, r.gross) ELSE T
    <2>1. R2 = Append(R, r) /\ R \in Seq(Records(inputs)) /\ Len(R) = n /\ r \in Records(inputs) /\ n \in Nat
      BY <1>1, <1>3
    <2> HIDE DEF R2
    <2>2. Extends(inputs, R2, R, r, n)
      BY <2>1, RecordsAppended
    <2> QED
      BY <2>2 DEF Extends
  <1> HIDE DEF R2
  <1>5. After(inputs, R2, n + 1) = m
    <2> HIDE DEF c, T
    <2> QED
      BY <1>3, <1>4
  <1>6. Holds(inputs, m)
    <2> HIDE DEF c, T
    <2> QED
      BY <1>1, <1>3, HoldsWithMore
  <1>7. Turn(inputs, R2, n + 1)
    <2>1. n + 1 - 1 = n /\ n \in 0 .. n
      OBVIOUS
    <2>2. After(inputs, R2, n + 1 - 1) = T
      BY <1>4, <2>1
    <2> HIDE DEF T
    <2> QED
      BY <1>3, <1>4, <2>2 DEF Turn
  <1>8. \A k \in 1 .. n : Turn(inputs, R2, k)
    <2> TAKE k \in 1 .. n
    <2>1. k - 1 \in 0 .. n
      OBVIOUS
    <2>2. R2[k] = R[k] /\ After(inputs, R2, k - 1) = After(inputs, R, k - 1)
      BY <1>4, <2>1
    <2>3. Turn(inputs, R, k)
      BY DEF Decided
    <2> QED
      BY <2>2, <2>3 DEF Turn
  <1>9. \A k \in 1 .. n + 1 : Turn(inputs, R2, k)
    <2>1. \A k \in 1 .. n + 1 : k \in 1 .. n \/ k = n + 1
      OBVIOUS
    <2> QED
      BY <1>7, <1>8, <2>1
  <1>10. \A k \in 0 .. n + 1 : Holds(inputs, After(inputs, R2, k))
    <2>1. \A k \in 0 .. n + 1 : k \in 0 .. n \/ k = n + 1
      OBVIOUS
    <2>2. \A k \in 0 .. n : Holds(inputs, After(inputs, R, k))
      BY DEF Decided
    <2> QED
      BY <1>4, <1>5, <1>6, <2>1, <2>2
  <1>11. Decided(inputs, R2, n + 1)
    BY <1>4, <1>9, <1>10 DEF Decided
  <1> QED
    BY <1>3, <1>5, <1>11 DEF Reached, R2

\* The states that the loop passes through, one per turn.
Unrolled(inputs, n, made) ==
  made = [k \in 0 .. n |->
            IF k = 0 THEN [targets |-> inputs.portfolio.positions, records |-> <<>>]
            ELSE Consider(inputs, made[k - 1], inputs.ensemble.candidates[k])]

\* The loop of allocate comes to an end, whatever it decides.
LEMMA LoopUnrolls ==
  ASSUME NEW inputs, NEW n \in Nat
  PROVE  \E made : Unrolled(inputs, n, made)
  <1> DEFINE bad == {k \in Nat : ~\E made : Unrolled(inputs, k, made)}
             zero == [targets |-> inputs.portfolio.positions, records |-> <<>>]
             turn(made, k) == Consider(inputs, made[k - 1], inputs.ensemble.candidates[k])
  <1> SUFFICES ASSUME bad # {} PROVE FALSE
    OBVIOUS
  <1>1. PICK k \in bad : \A j \in bad : k <= j
    <2>1. bad \in SUBSET Nat
      OBVIOUS
    <2> HIDE DEF bad
    <2> QED
      BY <2>1, MinOfNaturals
  <1>2. k \in Nat /\ ~\E made : Unrolled(inputs, k, made)
    BY <1>1
  <1>3. \A j, made : Unrolled(inputs, j, made) <=> made = [i \in 0 .. j |-> IF i = 0 THEN zero ELSE turn(made, i)]
    BY DEF Unrolled
  <1>4. CASE k = 0
    <2> DEFINE made == [i \in 0 .. 0 |-> zero]
    <2>1. \A i \in 0 .. 0 : i = 0
      OBVIOUS
    <2> HIDE DEF zero, turn
    <2>2. made = [i \in 0 .. 0 |-> IF i = 0 THEN zero ELSE turn(made, i)]
      BY <2>1
    <2> QED
      BY <1>2, <1>3, <1>4, <2>2
  <1>5. CASE k # 0
    <2>1. k - 1 \in Nat /\ k - 1 < k
      BY <1>2, <1>5
    <2>2. k - 1 \notin bad
      <3> HIDE DEF bad
      <3> QED
        BY <1>1, <1>2, <2>1
    <2>3. PICK before : Unrolled(inputs, k - 1, before)
      BY <2>1, <2>2
    <2> DEFINE made == [i \in 0 .. k |-> IF i = k THEN turn(before, k) ELSE before[i]]
    <2>4. before = [i \in 0 .. k - 1 |-> IF i = 0 THEN zero ELSE turn(before, i)]
      BY <1>3, <2>3
    <2>5. made = [i \in 0 .. k |-> IF i = 0 THEN zero ELSE turn(made, i)]
      <3>1. \A i \in 0 .. k : made[i] = IF i = 0 THEN zero ELSE turn(made, i)
        <4> TAKE i \in 0 .. k
        <4>1. CASE i = k
          <5>1. k - 1 \in 0 .. k /\ k - 1 # k
            BY <1>2, <2>1
          <5>2. made[k - 1] = before[k - 1]
            BY <5>1
          <5> QED
            BY <1>5, <4>1, <5>2
        <4>2. CASE i # k /\ i = 0
          <5>1. i \in 0 .. k - 1
            BY <1>2, <2>1, <4>2
          <5>2. before[i] = zero
            BY <2>4, <4>2, <5>1
          <5> QED
            BY <4>2, <5>2
        <4>3. CASE i # k /\ i # 0
          <5>1. i \in 0 .. k - 1 /\ i - 1 \in 0 .. k /\ i - 1 # k
            BY <1>2, <4>3
          <5>2. before[i] = turn(before, i)
            <6> HIDE DEF turn, zero
            <6> QED
              BY <2>4, <4>3, <5>1
          <5>3. made[i - 1] = before[i - 1]
            BY <5>1
          <5> QED
            BY <4>3, <5>2, <5>3
        <4> QED
          BY <4>1, <4>2, <4>3
      <3>2. DOMAIN made = 0 .. k /\ made = [i \in 0 .. k |-> made[i]]
        OBVIOUS
      <3> HIDE DEF turn, zero, made
      <3> QED
        BY <3>1, <3>2
    <2> QED
      BY <1>2, <1>3, <2>5
  <1> QED
    BY <1>4, <1>5

\* No record, nothing added.
LEMMA NothingDecided ==
  ASSUME NEW inputs, Prepared(inputs), WithinCaps(inputs.portfolio.positions)
  PROVE  Decided(inputs, <<>>, 0) /\ After(inputs, <<>>, 0) = inputs.portfolio.positions
  <1>1. After(inputs, <<>>, 0) = inputs.portfolio.positions
    <2> DEFINE yes == {j \in 1 .. 0 : <<>>[j].reason = "PROPOSED"}
               more(k) == Additions(inputs, inputs.ensemble.candidates[k], <<>>[k].gross)
    <2>1. yes = {}
      OBVIOUS
    <2>2. After(inputs, <<>>, 0) = inputs.portfolio.positions \cup UNION {more(k) : k \in yes}
      BY DEF After
    <2> HIDE DEF yes, more
    <2> QED
      BY <2>1, <2>2
  <1>2. Holds(inputs, inputs.portfolio.positions)
    BY DEF Holds, Prepared, Apart
  <1>3. \A k \in 0 .. 0 : k = 0
    OBVIOUS
  <1>4. \A k \in 0 .. 0 : Holds(inputs, After(inputs, <<>>, k))
    BY <1>1, <1>2, <1>3
  <1>5. \A k \in 1 .. 0 : Turn(inputs, <<>>, k)
    OBVIOUS
  <1>6. <<>> \in Seq(Records(inputs)) /\ Len(<<>>) = 0
    OBVIOUS
  <1> QED
    BY <1>1, <1>4, <1>5, <1>6 DEF Decided

\* After every turn the targets are those of the records, and sound.
LEMMA LoopDecides ==
  ASSUME NEW inputs, Prepared(inputs), WithinCaps(inputs.portfolio.positions),
         NEW made, Unrolled(inputs, Len(inputs.ensemble.candidates), made)
  PROVE  \A n \in 0 .. Len(inputs.ensemble.candidates) :
           Reached(inputs, made[n], n)
  <1> DEFINE C == inputs.ensemble.candidates
             L == Len(C)
             good(n) == Reached(inputs, made[n], n)
             bad == {n \in Nat : n <= L /\ ~good(n)}
  <1>1. L \in Nat /\ DOMAIN C = 1 .. L
    BY DEF Prepared
  <1>2. /\ made[0] = [targets |-> inputs.portfolio.positions, records |-> <<>>]
        /\ \A n \in 0 .. L : n # 0 => made[n] = Consider(inputs, made[n - 1], C[n])
    BY <1>1 DEF Unrolled
  <1>3. good(0)
    BY <1>2, NothingDecided DEF Reached
  <1>4. \A n \in 0 .. L : n # 0 /\ good(n - 1) => good(n)
    <2> SUFFICES ASSUME NEW n \in 0 .. L, n # 0, good(n - 1) PROVE good(n)
      OBVIOUS
    <2> DEFINE k == n - 1
    <2>1. k \in Nat /\ k + 1 = n /\ k + 1 \in DOMAIN C
      BY <1>1
    <2>2. PICK R : Decided(inputs, R, k) /\ made[k] = [targets |-> After(inputs, R, k), records |-> R]
      BY DEF Reached
    <2>3. made[n] = Consider(inputs, [targets |-> After(inputs, R, k), records |-> R], C[k + 1])
      BY <1>2, <2>1, <2>2
    <2> HIDE DEF k
    <2>4. Reached(inputs, made[n], k + 1)
      BY <2>1, <2>2, <2>3, DecidedFurther
    <2> QED
      BY <2>1, <2>4
  <1> SUFFICES ASSUME bad # {} PROVE FALSE
    BY <1>1
  <1>5. PICK n \in bad : \A j \in bad : n <= j
    <2>1. bad \in SUBSET Nat
      OBVIOUS
    <2> HIDE DEF bad
    <2> QED
      BY <2>1, MinOfNaturals
  <1>6. n \in Nat /\ n <= L /\ ~good(n)
    BY <1>5
  <1>7. n # 0
    BY <1>3, <1>6
  <1>8. n \in 0 .. L /\ n - 1 \in Nat /\ n - 1 <= L /\ n - 1 < n
    BY <1>1, <1>6, <1>7
  <1>9. n - 1 \notin bad
    <2> HIDE DEF bad
    <2> QED
      BY <1>5, <1>6, <1>8
  <1>10. good(n - 1)
    <2> HIDE DEF good
    <2> QED
      BY <1>8, <1>9
  <1> HIDE DEF good
  <1> QED
    BY <1>4, <1>6, <1>7, <1>8, <1>10

\* What allocate returns: the positions as they are, or what the loop decided.
PlanFrom(inputs, calendar, decision) ==
  /\ decision.identity = inputs /\ decision.at = inputs.at
  /\ \/ decision.targets = inputs.portfolio.positions /\ decision.allocations = <<>>
     \/ /\ EntryWindow(calendar, inputs.at)
        /\ \A m, n \in DOMAIN inputs.ensemble.candidates :
             inputs.ensemble.candidates[m].id = inputs.ensemble.candidates[n].id => m = n
        /\ Decided(inputs, decision.allocations, Len(inputs.ensemble.candidates))
        /\ decision.targets = After(inputs, decision.allocations, Len(inputs.ensemble.candidates))

\* allocate: on inputs that are typed it returns the positions as they are, or, while entries are open and
\* the ids of the candidates differ, what the turns of the loop decided.
LEMMA AllocateDecides ==
  ASSUME NEW inputs, Prepared(inputs), NEW calendar
  PROVE  PlanFrom(inputs, calendar, Allocate(inputs, calendar))
  <1> DEFINE positions == inputs.portfolio.positions
             C == inputs.ensemble.candidates
             zero == [targets |-> positions, records |-> <<>>]
             finish(reason, end) == [identity |-> inputs, at |-> inputs.at, targets |-> end.targets,
                                     allocations |-> end.records, reason |-> reason]
             made == CHOOSE made : Unrolled(inputs, Len(C), made)
             closed == ~EntryWindow(calendar, inputs.at)
             barred == ~MayAllocate(inputs)
             over == ~WithinCaps(positions)
             ambiguous == ~Unambiguous(inputs)
             twice == \E m, n \in DOMAIN C : m # n /\ C[m].id = C[n].id
             decision == Allocate(inputs, calendar)
  <1>1. decision = IF closed THEN finish("CALENDAR_BLOCKED", zero)
                   ELSE IF barred THEN finish("NEW_ALLOCATION_BLOCKED", zero)
                   ELSE IF over THEN finish("EXISTING_EXPOSURE_REQUIRES_RISK_REVIEW", zero)
                   ELSE IF ambiguous THEN finish("ALLOCATION_INPUT_AMBIGUOUS", zero)
                   ELSE IF twice THEN finish("DUPLICATE_CANDIDATE", zero)
                   ELSE finish("PROPOSALS_ONLY_NO_EXECUTION", made[Len(C)])
    BY DEF Allocate, Unrolled
  <1>2. Unrolled(inputs, Len(C), made)
    <2>1. Len(C) \in Nat
      BY DEF Prepared
    <2>2. \E m : Unrolled(inputs, Len(C), m)
      BY <2>1, LoopUnrolls
    <2> QED
      BY <2>2
  <1> HIDE DEF made
  <1>3. CASE closed \/ barred \/ over \/ ambiguous \/ twice
    <2>1. \E reason : decision = finish(reason, zero)
      <3> HIDE DEF closed, barred, over, ambiguous, twice, decision, finish
      <3> QED
        BY <1>1, <1>3
    <2>2. PICK reason : decision = finish(reason, zero)
      BY <2>1
    <2> HIDE DEF decision
    <2>3. decision.identity = inputs /\ decision.at = inputs.at /\ decision.targets = positions /\ decision.allocations = <<>>
      BY <2>2
    <2> QED
      BY <2>3 DEF PlanFrom, decision
  <1>4. CASE ~(closed \/ barred \/ over \/ ambiguous \/ twice)
    <2>1. decision = finish("PROPOSALS_ONLY_NO_EXECUTION", made[Len(C)])
      <3> HIDE DEF closed, barred, over, ambiguous, twice, decision, finish
      <3> QED
        BY <1>1, <1>4
    <2>2. /\ EntryWindow(calendar, inputs.at) /\ WithinCaps(positions)
          /\ \A m, n \in DOMAIN C : C[m].id = C[n].id => m = n
      BY <1>4
    <2>3. Len(C) \in 0 .. Len(C)
      BY DEF Prepared
    <2>6. Reached(inputs, made[Len(C)], Len(C))
      BY <1>2, <2>2, <2>3, LoopDecides
    <2>4. PICK R : Decided(inputs, R, Len(C)) /\ made[Len(C)] = [targets |-> After(inputs, R, Len(C)), records |-> R]
      BY <2>6 DEF Reached
    <2> HIDE DEF decision
    <2>5. /\ decision.identity = inputs /\ decision.at = inputs.at
          /\ decision.targets = After(inputs, R, Len(C)) /\ decision.allocations = R
      BY <2>1, <2>4
    <2> QED
      BY <2>2, <2>4, <2>5 DEF PlanFrom, decision
  <1> QED
    BY <1>3, <1>4
=============================================================================
