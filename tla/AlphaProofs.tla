----------------------------- MODULE AlphaProofs -----------------------------
(***************************************************************************)
(* Theorems about the alpha engines for all settings, calendars and inputs *)
(* that their modules allow.  RelativeValue: which tokens a basket may     *)
(* still share with an open pair.  Pairs: what an open position may miss   *)
(* while no exit is asked for, and that an exit undoes its entry.          *)
(* AlphaHealth: a multiplier is earned slowly, trade by trade, and again   *)
(* after a cut, whatever a caller selects of the trades.  Breakout: a      *)
(* break is a signal once, and its observations follow the bars.           *)
(* VwapReversion: late bars are unseen, and the exits of a signal differ.  *)
(***************************************************************************)
EXTENDS RelativeValue, Pairs, AlphaHealth, Breakout, VwapReversion, AllocationProofs, SequenceTheorems

-----------------------------------------------------------------------------
(* Relative value: what the inventory of open pairs reserves. *)

\* A pair that is open holds the entities its tokens had when it was opened.
HeldAsEntered ==
  \A p \in held :
    /\ p.at \in Nat /\ p.at <= rvTime
    /\ p.entities = {InstrumentOf(RvListing[Day(p.at)], t).entity : t \in p.tokens}

\* A complete inventory reserves every entity of the pairs opened before it was taken.
InventoryReserves ==
  inventory # Absent =>
    /\ inventory.at \in Nat /\ inventory.at <= rvTime
    /\ inventory.complete =>
         \A p \in held : p.at < inventory.at => p.entities \subseteq inventory.reserved

RvInv ==
  /\ rvTime \in Nat
  /\ HeldAsEntered
  /\ InventoryReserves
  /\ OverlapIsRecent

\* RelativeValueEngine.evaluate returns baskets only on a complete and fresh inventory,
\* stamped with the time of the evaluation and without a reserved entity.
LEMMA BasketsAreUnreserved ==
  ASSUME NEW offered, NEW universe, NEW master, NEW decision, NEW taken, NEW calendar, NEW at, NEW mode,
         NEW b \in FindBaskets(offered, universe, master, decision, taken, calendar, at, mode).baskets
  PROVE  /\ taken.complete /\ ~(taken.at > at) /\ ~(at - taken.at > RvRules.inventoryAge)
         /\ b.at = at
         /\ \A leg \in b.legs : leg.entity \notin taken.reserved
  <1> DEFINE opening == Moment(calendar, at, "open")
             usable == {o \in offered : o.at = at /\
                   LET i == InstrumentOf(master, o.token)
                   IN ~Reserved(i, taken) /\ Admitted(o, i, universe, decision, at, opening)}
             candidates == {RankedOf(o, InstrumentOf(master, o.token), at, opening) : o \in usable}
  <1>1. /\ taken.complete /\ ~(taken.at > at) /\ ~(at - taken.at > RvRules.inventoryAge)
        /\ \E s : b = BasketOf({c \in candidates : c.sector = s}, master, universe, at)
        /\ b # Absent
    BY DEF FindBaskets
  <1>2. \A c \in candidates : c.entity \notin taken.reserved
    BY DEF RankedOf, Reserved
  <1> HIDE DEF candidates
  <1>3. PICK s : b = BasketOf({c \in candidates : c.sector = s}, master, universe, at)
    BY <1>1
  <1> DEFINE group == {c \in candidates : c.sector = s}
  <1>4. \A side : TailOf(group, side) \subseteq group
    BY DEF TailOf
  <1>5. \A tail, side : FirstOf(tail, side) \subseteq tail
    BY DEF FirstOf
  <1>6. /\ FirstOf(TailOf(group, "LONG"), "LONG") \subseteq candidates
        /\ FirstOf({c \in TailOf(group, "SHORT") : ShortPermitted(c.token, master, universe)}, "SHORT")
             \subseteq candidates
    BY <1>4, <1>5
  <1>7. b.at = at /\ \A leg \in b.legs : \E c \in candidates : leg.entity = c.entity
    <2> DEFINE leaders == FirstOf(TailOf(group, "LONG"), "LONG")
               laggards == FirstOf({c \in TailOf(group, "SHORT") : ShortPermitted(c.token, master, universe)},
                                   "SHORT")
               w == WeightsOf(leaders, laggards)
               leg(c, side) == [token |-> c.token, entity |-> c.entity, side |-> side, beta |-> c.beta,
                                rank |-> Percentile(c, group), sector |-> c.sector,
                                part |-> w[side], of |-> RvRules.members * w.of]
               legs == {leg(c, "LONG") : c \in leaders} \cup {leg(c, "SHORT") : c \in laggards}
    <2>1. b # Absent /\ b = BasketOf(group, master, universe, at)
      BY <1>1, <1>3
    <2>2. leaders \subseteq candidates /\ laggards \subseteq candidates
      BY <1>6
    <2> HIDE DEF group
    <2>3. b.at = at /\ b.legs = legs
      BY <2>1 DEF BasketOf
    <2> HIDE DEF w, leaders, laggards
    <2>4. \A x \in legs : \E c \in candidates : x.entity = c.entity
      BY <2>2
    <2> QED
      BY <2>3, <2>4
  <1> QED
    BY <1>1, <1>2, <1>7

\* A basket and an open pair share an entity only if the pair was opened after the
\* inventory that evaluate was given, and that is at most inventoryAge old.
THEOREM OverlapsAreRecent == RvSpec => []OverlapIsRecent
  <1>1. RvInit => RvInv
    <2> SUFFICES ASSUME RvInit PROVE RvInv
      OBVIOUS
    <2>1. rvTime \in Nat
      BY MinOfNaturals, RvTimesAreNatural DEF RvInit
    <2> QED
      BY <2>1 DEF RvInit, RvInv, HeldAsEntered, InventoryReserves, OverlapIsRecent, Found
  <1>2. RvInv /\ [RvNext]_rvVars => RvInv'
    <2> SUFFICES ASSUME RvInv, [RvNext]_rvVars PROVE RvInv'
      OBVIOUS
    <2>1. CASE RvAdvance
      <3>1. rvTime' \in Nat /\ rvTime < rvTime'
        <4> DEFINE later == {t \in RvInstants : t > rvTime}
        <4>1. later \in SUBSET Nat /\ later # {}
          BY <2>1, RvTimesAreNatural DEF RvAdvance
        <4>2. Min(later) \in later
          BY <4>1, MinOfNaturals
        <4> QED
          BY <2>1, <4>1, <4>2 DEF RvAdvance
      <3> QED
        <4>1. UNCHANGED <<held, inventory>> /\ Found' = {}
          BY <2>1 DEF RvAdvance, Found
        <4>2. HeldAsEntered'
          BY <3>1, <4>1 DEF RvInv, HeldAsEntered
        <4>3. InventoryReserves'
          BY <3>1, <4>1 DEF RvInv, InventoryReserves
        <4> QED
          BY <3>1, <4>1, <4>2, <4>3 DEF RvInv, OverlapIsRecent
    <2>2. ASSUME NEW tokens \in PairTokens, OpenPair(tokens) PROVE RvInv'
      BY <2>2 DEF OpenPair, RvInv, HeldAsEntered, InventoryReserves, OverlapIsRecent, Found, RvMaster
    <2>3. ASSUME NEW pair \in held, ReleasePair(pair) PROVE RvInv'
      BY <2>3 DEF ReleasePair, RvInv, HeldAsEntered, InventoryReserves, OverlapIsRecent, Found
    <2>4. ASSUME NEW active \in SUBSET held, NEW day \in DOMAIN RvListing,
                 TakeInventory(active, RvListing[day])
          PROVE  RvInv'
      <3> DEFINE master == RvListing[day]
      <3>1. inventory'.at = rvTime /\ (inventory'.complete => active = held)
            /\ inventory'.reserved
                 = {InstrumentOf(master, t).entity : t \in UNION {p.tokens : p \in active}}
        BY <2>4 DEF TakeInventory, InventoryOf
      <3>2. \A p \in active : master = RvListing[Day(p.at)]
        BY <2>4, RvMastersAreDaily DEF TakeInventory, InventoryMayBe
      <3>3. \A p \in active : p.entities \subseteq inventory'.reserved
        BY <3>1, <3>2 DEF RvInv, HeldAsEntered
      <3>4. UNCHANGED <<rvTime, held>> /\ baskets' = Absent
        BY <2>4 DEF TakeInventory
      <3> QED
        BY <3>1, <3>3, <3>4 DEF RvInv, HeldAsEntered, InventoryReserves, OverlapIsRecent, Found
    <2>5. ASSUME NEW scene \in RvScene, NEW d \in RvRouting, EvaluateBaskets(scene, d)
          PROVE  RvInv'
      <3>1. UNCHANGED <<rvTime, held, inventory>> /\ inventory # Absent
        BY <2>5 DEF EvaluateBaskets
      <3>2. \A b \in Found' :
              /\ inventory.complete /\ ~(inventory.at > rvTime)
              /\ ~(rvTime - inventory.at > RvRules.inventoryAge)
              /\ b.at = rvTime
              /\ \A leg \in b.legs : leg.entity \notin inventory.reserved
        <4> DEFINE observations == {[o EXCEPT !.at = rvTime, !.universe = RvUniverse.id] : o \in scene}
                   now == [d EXCEPT !.at = rvTime, !.health.at = rvTime]
                   result == FindBaskets(observations, RvUniverse, RvMaster, now, inventory, RvCalendar,
                                         rvTime, "PAPER")
        <4>1. baskets' = [result |-> result, scene |-> scene]
          BY <2>5 DEF EvaluateBaskets
        <4>2. Found' \subseteq result.baskets
          BY <4>1 DEF Found
        <4> HIDE DEF observations, now
        <4>3. ASSUME NEW b \in result.baskets
              PROVE  /\ inventory.complete /\ ~(inventory.at > rvTime)
                     /\ ~(rvTime - inventory.at > RvRules.inventoryAge)
                     /\ b.at = rvTime
                     /\ \A leg \in b.legs : leg.entity \notin inventory.reserved
          BY BasketsAreUnreserved
        <4> QED
          BY <4>2, <4>3
      <3>3. OverlapIsRecent'
        BY <3>1, <3>2, RvTimesAreNatural DEF RvInv, HeldAsEntered, InventoryReserves, OverlapIsRecent
      <3> QED
        BY <3>1, <3>3 DEF RvInv, HeldAsEntered, InventoryReserves
    <2>6. CASE UNCHANGED rvVars
      BY <2>6 DEF rvVars, RvInv, HeldAsEntered, InventoryReserves, OverlapIsRecent, Found
    <2> QED
      BY <2>1, <2>2, <2>3, <2>4, <2>5, <2>6 DEF RvNext
  <1>3. RvInv => OverlapIsRecent
    BY DEF RvInv
  <1> QED
    BY <1>1, <1>2, <1>3, PTL DEF RvSpec

-----------------------------------------------------------------------------
(* Pairs: the window, and what follows from it for an open position. *)

Earlier(S, when, x) == {y \in S : when[y] < when[x]}

\* What happens at different instants has different numbers of others before it, so
\* every place in the order is taken: Sorted lists a set by time.
LEMMA PlacesAreTaken ==
  ASSUME NEW S, IsFiniteSet(S), NEW when \in [S -> Int], \A x, y \in S : when[x] = when[y] => x = y
  PROVE  /\ Cardinality(S) \in Nat
         /\ \A i \in 1 .. Cardinality(S) : \E x \in S : Cardinality(Earlier(S, when, x)) = i - 1
  <1> DEFINE earlier(x) == Earlier(S, when, x)
             n == Cardinality(S)
             rank == [x \in S |-> Cardinality(earlier(x))]
  <1>1. n \in Nat
    BY FS_CardinalityType
  <1>2. \A x \in S : IsFiniteSet(earlier(x)) /\ rank[x] \in 0 .. n - 1
    <2> TAKE x \in S
    <2>1. IsFiniteSet(S \ {x}) /\ Cardinality(S \ {x}) = n - 1
      BY FS_RemoveElement
    <2>2. earlier(x) \in SUBSET (S \ {x})
      BY DEF Earlier
    <2> HIDE DEF earlier
    <2>3. IsFiniteSet(earlier(x)) /\ Cardinality(earlier(x)) <= n - 1
      BY <2>1, <2>2, FS_Subset
    <2>4. Cardinality(earlier(x)) \in Nat
      BY <2>3, FS_CardinalityType
    <2> QED
      BY <1>1, <2>3, <2>4
  <1>3. \A x, y \in S : when[x] < when[y] => rank[x] < rank[y]
    <2> SUFFICES ASSUME NEW x \in S, NEW y \in S, when[x] < when[y]
                 PROVE  rank[x] < rank[y]
      OBVIOUS
    <2>1. earlier(x) \in SUBSET earlier(y) /\ x \in earlier(y) /\ x \notin earlier(x)
      BY DEF Earlier
    <2> HIDE DEF earlier
    <2>2. Cardinality(earlier(x)) <= Cardinality(earlier(y)) /\ Cardinality(earlier(x)) # Cardinality(earlier(y))
      BY <1>2, <2>1, FS_Subset
    <2> QED
      BY <1>1, <1>2, <2>2
  <1>4. rank \in Injection(S, 0 .. n - 1)
    <2>1. \A x, y \in S : x # y => when[x] < when[y] \/ when[y] < when[x]
      OBVIOUS
    <2> HIDE DEF earlier
    <2>2. rank \in [S -> 0 .. n - 1]
      BY <1>2
    <2>3. \A x, y \in S : rank[x] = rank[y] => x = y
      <3> HIDE DEF rank
      <3> QED
        BY <1>1, <1>3, <2>1, <2>2
    <2> QED
      BY <2>2, <2>3 DEF Injection, IsInjective
  <1>5. rank \in Surjection(S, 0 .. n - 1)
    <2>1. IsFiniteSet(0 .. n - 1) /\ Cardinality(0 .. n - 1) = n
      BY <1>1, FS_Interval
    <2> HIDE DEF rank, n
    <2> QED
      BY <1>4, <2>1, FS_Injection DEF n
  <1>6. \A i \in 1 .. n : \E x \in S : Cardinality(earlier(x)) = i - 1
    <2> TAKE i \in 1 .. n
    <2>1. i - 1 \in 0 .. n - 1
      BY <1>1
    <2>2. PICK x \in S : rank[x] = i - 1
      BY <1>5, <2>1 DEF Surjection
    <2> HIDE DEF earlier
    <2> QED
      BY <2>2
  <1> QED
    BY <1>1, <1>6

\* Rows of different bars in their order.
ByEnd(known) == Sorted(known, LAMBDA r, q : r.left.end < q.left.end)

\* All of them are listed.
LEMMA ByEndLists ==
  ASSUME NEW known, IsFiniteSet(known), \A r \in known : r.left.end \in Int,
         \A r, q \in known : r.left.end = q.left.end => r = q
  PROVE  /\ Cardinality(known) \in Nat
         /\ ByEnd(known) \in [1 .. Cardinality(known) -> known]
  <1> DEFINE when == [r \in known |-> r.left.end]
             n == Cardinality(known)
             earlier(r) == {q \in known : q.left.end < r.left.end}
  <1>1. when \in [known -> Int] /\ \A r, q \in known : when[r] = when[q] => r = q
    OBVIOUS
  <1>2. n \in Nat /\ \A i \in 1 .. n : \E r \in known : Cardinality(Earlier(known, when, r)) = i - 1
    <2> HIDE DEF when
    <2> QED
      BY <1>1, PlacesAreTaken
  <1>3. \A r \in known : Earlier(known, when, r) = earlier(r)
    BY DEF Earlier
  <1>4. \A i \in 1 .. n : \E r \in known : Cardinality(earlier(r)) = i - 1
    <2> HIDE DEF when, earlier
    <2> QED
      BY <1>2, <1>3
  <1>5. ByEnd(known) = [i \in 1 .. n |-> CHOOSE r \in known : Cardinality(earlier(r)) = i - 1]
    BY DEF ByEnd, Sorted
  <1> HIDE DEF earlier
  <1> QED
    BY <1>2, <1>4, <1>5

\* The provider's rows: one for a bar, none from the future.
RowsSound ==
  /\ IsFiniteSet(rows)
  /\ \A r \in rows :
       /\ r.left.start \in Int /\ r.left.start <= slot
       /\ r.left.end = r.left.start + PairBarTicks
       /\ {r.left.close, r.right.close} \subseteq Int
  /\ \A r, q \in rows : r.left.start = q.left.start => r = q

\* The last row of a window is one of the rows that are known.
LEMMA LastOfWindow ==
  ASSUME RowsSound, NEW at, PairWindow(rows, at) # <<>>
  PROVE  LET last == PairWindow(rows, at)[Len(PairWindow(rows, at))]
         IN last \in rows /\ RowKnown(last, at)
  <1> DEFINE known == {r \in rows : RowKnown(r, at)}
             n == Cardinality(known)
             first == Max({1, n - PairRules.trainingBars})
  <1>1. /\ IsFiniteSet(known) /\ \A r \in known : r.left.end \in Int
        /\ \A r, q \in known : r.left.end = q.left.end => r = q
    <2>1. known \in SUBSET rows /\ PairBarTicks \in Int
      BY PairRulesOrdered
    <2> HIDE DEF known
    <2>2. IsFiniteSet(known)
      BY <2>1, FS_Subset DEF RowsSound
    <2>3. \A r \in known : r.left.start \in Int /\ r.left.end = r.left.start + PairBarTicks
      BY <2>1 DEF RowsSound
    <2>4. \A r, q \in known : r.left.start = q.left.start => r = q
      BY <2>1 DEF RowsSound
    <2> QED
      BY <2>1, <2>2, <2>3, <2>4
  <1>2. n \in Nat /\ ByEnd(known) \in [1 .. n -> known]
    BY <1>1, ByEndLists
  <1>3. known \subseteq rows /\ \A r \in known : RowKnown(r, at)
    OBVIOUS
  <1> HIDE DEF known
  <1> HIDE DEF n
  <1>5. first \in Int /\ 1 <= first /\ (first <= n \/ n < 1)
    <2>1. PairRules.trainingBars \in Nat \ {0}
      BY PairRulesOrdered
    <2>2. n - PairRules.trainingBars \in Int
      BY <1>2, <2>1
    <2> DEFINE back == n - PairRules.trainingBars
    <2>3. first = Max({1, back}) /\ back \in Int /\ back < n
      BY <1>2, <2>1, <2>2
    <2> HIDE DEF back, first
    <2>4. \E x \in {1, back} : \A y \in {1, back} : x >= y
      BY <2>3
    <2>5. first \in {1, back} /\ \A y \in {1, back} : first >= y
      BY <2>3, <2>4 DEF Max
    <2> QED
      BY <1>2, <2>3, <2>5
  <1> HIDE DEF first
  <1>4. Len(ByEnd(known)) = n /\ \A i \in first .. n : ByEnd(known)[i] \in known
    BY <1>2, <1>5
  <1>6. PairWindow(rows, at) = SubSeq(ByEnd(known), first, n)
    BY <1>4 DEF PairWindow, ByEnd, Sorted, known, n, first
  <1>7. /\ Len(PairWindow(rows, at)) = (IF first <= n THEN n - first + 1 ELSE 0)
        /\ \A i \in 1 .. n - first + 1 : PairWindow(rows, at)[i] = ByEnd(known)[first + i - 1]
        /\ n < first => PairWindow(rows, at) = <<>>
    BY <1>2, <1>4, <1>5, <1>6, SubSeqProperties, SubSeqEmpty
  <1>8. first <= n
    BY <1>2, <1>5, <1>7
  <1>9. PairWindow(rows, at)[Len(PairWindow(rows, at))] = ByEnd(known)[n]
    BY <1>2, <1>5, <1>7, <1>8
  <1> QED
    BY <1>2, <1>3, <1>4, <1>5, <1>8, <1>9

\* The window that an evaluation decides on.
Seen == PairWindow(rows, PairTime)

PairTypes ==
  /\ slot \in Nat /\ waited \in Nat
  /\ rolling # Absent => rolling \in PairFit /\ rolling.to = slot
  /\ position # Absent =>
       /\ position \in PairPosition
       /\ position.legs = LegsOf(Pair, "ENTER", position.direction, position.fit)

\* The verdict is about the position, the rows and the fit as they still are.
VerdictIsCurrent ==
  verdict # Absent => verdict.outcome = Outcome(verdict.decision, verdict.narrow, position)

PairInv == RowsSound /\ PairTypes /\ VerdictIsCurrent

\* What the settings of the pairs engine are, one by one.
LEMMA PairTicks ==
  /\ PairBarTicks \in Nat \ {0} /\ BetaUnit \in Nat \ {0} /\ ZUnit \in Nat \ {0}
  /\ PairRules.exitZ \in Nat /\ PairRules.entryZ \in Nat \ {0} /\ PairRules.stopZ \in Nat
  /\ PairRules.minBeta \in Nat \ {0} /\ PairRules.maxBeta \in Nat /\ PairRules.maxDrift \in Nat
  /\ PairRules.holdTicks \in Nat \ {0} /\ PairRules.exitZ < PairRules.entryZ
  BY PairRulesOrdered

\* The next slot of the calendar exists and is later: LastSlot is one of the slots.
LEMMA NextSlot ==
  ASSUME slot \in Nat, slot < LastSlot
  PROVE  LET next == Min(ExpectedSlots(PairCalendar, slot + 1, LastSlot + PairBarTicks))
         IN next \in Nat /\ slot < next
  <1> DEFINE slots == ExpectedSlots(PairCalendar, slot + 1, LastSlot + PairBarTicks)
  <1>1. FirstSlot \in Nat /\ LastSlot \in ExpectedSlots(PairCalendar, FirstSlot, LastSlot + PairBarTicks)
    BY PairInputsTyped
  <1>2. LastSlot \in Int
    BY <1>1, PairTicks DEF ExpectedSlots
  <1>3. LastSlot \in slots
    BY <1>1, <1>2, PairTicks DEF ExpectedSlots
  <1>4. \A t \in slots : t \in Nat /\ slot < t
    BY <1>2, PairTicks DEF ExpectedSlots
  <1> HIDE DEF slots
  <1> QED
    BY <1>3, <1>4, MinOfNaturals DEF slots

\* A fit is trained to the bar that it is made at.
LEMMA FitsStamped ==
  ASSUME NEW fit \in Fits, NEW since \in Int, FitAt(fit, since) # Absent
  PROVE  FitAt(fit, since) \in PairFit /\ FitAt(fit, since).to = since
  <1>1. fit \in PairFit
    BY PairInputsTyped DEF FitAt
  <1> QED
    BY <1>1 DEF FitAt, PairFit

\* The deviation of a row from a fit is a number.
LEMMA DeviationTyped ==
  ASSUME RowsSound, NEW r \in rows, NEW fit \in PairFit
  PROVE  Deviation(r, fit) \in Int
  <1>1. r.left.close \in Int /\ r.right.close \in Int
    BY DEF RowsSound
  <1>2. fit.beta \in Int /\ fit.mean \in Int
    BY DEF PairFit
  <1>3. BetaUnit * r.left.close \in Int /\ fit.beta * r.right.close \in Int
    BY <1>1, <1>2, PairTicks
  <1> QED
    BY <1>2, <1>3 DEF Deviation, SpreadOf

(* What evaluate decides on, by names of its own. *)
InputsSound(carried) ==
  /\ PairRules.enabled /\ PairKnown(Pair, PairUniverse, PairMaster, PairCalendar, PairTime)
  /\ Seen # <<>> /\ WindowSound(Seen, Pair, PairCalendar, PairTime)
  /\ PositionValid(carried, Pair, PairCalendar, PairTime) /\ rolling # Absent
DeviationNow(carried) == Deviation(Seen[Len(Seen)], ActiveFit(carried, rolling))
Quoted(narrow) ==
  BothLiquid([left |-> QuoteOf(Pair.left, TRUE), right |-> QuoteOf(Pair.right, narrow)], Pair, PairTime)
PermittedNow(d) == Permitted([d EXCEPT !.at = PairTime], "pairs", PairTime)
ExitNow(d, narrow, carried) ==
  ExitFor(carried, rolling, DeviationNow(carried), Quoted(narrow), PermittedNow(d),
          Moment(PairCalendar, PairTime, "flatten"), PairTime)
BlocksNow(d, narrow, carried) ==
  EntryBlocks(rolling, DeviationNow(carried), Quoted(narrow), PermittedNow(d),
              Moment(PairCalendar, PairTime, "finalEntry"), PairTime)
DirectionNow(carried) == IF DeviationNow(carried) > 0 THEN "SHORT_SPREAD" ELSE "LONG_SPREAD"

\* The ways through evaluate that end in an intent or a HOLD.
LEMMA WaysNow ==
  ASSUME NEW d, NEW narrow, NEW carried
  PROVE  LET outcome == Outcome(d, narrow, carried)
         IN /\ outcome.intent # Absent => InputsSound(carried)
            /\ (outcome.intent # Absent /\ carried # Absent) =>
                 /\ outcome.intent.action = "EXIT"
                 /\ outcome.intent.legs = LegsOf(Pair, "EXIT", carried.direction, carried.fit)
            /\ (outcome.intent # Absent /\ outcome.intent.action = "ENTER") =>
                 /\ carried = Absent /\ BlocksNow(d, narrow, carried) = {}
                 /\ Reaches(Span(DeviationNow(carried)), PairRules.entryZ, rolling)
                 /\ outcome.intent.direction = DirectionNow(carried) /\ outcome.intent.fit = rolling
                 /\ outcome.intent.deviation = DeviationNow(carried)
                 /\ outcome.intent.legs = LegsOf(Pair, "ENTER", DirectionNow(carried), rolling)
            /\ (carried # Absent /\ ~outcome.attention) =>
                 outcome.reasons = {"HOLD"} /\ InputsSound(carried) /\ ExitNow(d, narrow, carried) = {}
            /\ (carried # Absent /\ InputsSound(carried) /\ ExitNow(d, narrow, carried) = {}) =>
                 outcome.reasons = {"HOLD"}
  <1> DEFINE quotes == [left |-> QuoteOf(Pair.left, TRUE), right |-> QuoteOf(Pair.right, narrow)]
             decision == [d EXCEPT !.at = PairTime]
             outcome == FindPair(Pair, rows, quotes, PairUniverse, PairMaster, decision, PairCalendar, PairTime,
                                 "PAPER", carried, rolling)
             window == PairWindow(rows, PairTime)
             deviation == Deviation(window[Len(window)], ActiveFit(carried, rolling))
             exit == ExitFor(carried, rolling, deviation, BothLiquid(quotes, Pair, PairTime),
                             Permitted(decision, "pairs", PairTime), Moment(PairCalendar, PairTime, "flatten"), PairTime)
             blocks == EntryBlocks(rolling, deviation, BothLiquid(quotes, Pair, PairTime),
                           Permitted(decision, "pairs", PairTime), Moment(PairCalendar, PairTime, "finalEntry"), PairTime)
             sound == /\ PairRules.enabled /\ PairKnown(Pair, PairUniverse, PairMaster, PairCalendar, PairTime)
                      /\ window # <<>> /\ WindowSound(window, Pair, PairCalendar, PairTime)
                      /\ PositionValid(carried, Pair, PairCalendar, PairTime) /\ rolling # Absent
             direction == IF deviation > 0 THEN "SHORT_SPREAD" ELSE "LONG_SPREAD"
  <1>1. /\ Outcome(d, narrow, carried) = outcome /\ DeviationNow(carried) = deviation
        /\ ExitNow(d, narrow, carried) = exit /\ BlocksNow(d, narrow, carried) = blocks
        /\ InputsSound(carried) <=> sound
        /\ DirectionNow(carried) = direction
    BY DEF Outcome, DeviationNow, ExitNow, BlocksNow, InputsSound, DirectionNow, Seen, Quoted, PermittedNow
  <1> HIDE DEF quotes, decision
  <1>3. "HOLD" \notin exit
    BY DEF ExitFor
  <1>4. carried # Absent => ActiveFit(carried, rolling) = carried.fit
    BY DEF ActiveFit
  <1>5. carried = Absent => ActiveFit(carried, rolling) = rolling
    BY SMTT(30) DEF ActiveFit
  <1>2. /\ outcome.intent # Absent => sound
        /\ (outcome.intent # Absent /\ carried # Absent) =>
             /\ outcome.intent.action = "EXIT"
             /\ outcome.intent.legs = LegsOf(Pair, "EXIT", carried.direction, carried.fit)
        /\ (outcome.intent # Absent /\ outcome.intent.action = "ENTER") =>
             /\ carried = Absent /\ blocks = {} /\ Reaches(Span(deviation), PairRules.entryZ, rolling)
             /\ outcome.intent.direction = direction /\ outcome.intent.fit = rolling
             /\ outcome.intent.deviation = deviation
             /\ outcome.intent.legs = LegsOf(Pair, "ENTER", direction, rolling)
        /\ (carried # Absent /\ ~outcome.attention) => outcome.reasons = {"HOLD"} /\ sound /\ exit = {}
        /\ (carried # Absent /\ sound /\ exit = {}) => outcome.reasons = {"HOLD"}
    BY <1>3, <1>4, <1>5 DEF FindPair
  <1> HIDE DEF outcome, deviation, exit, blocks, sound, direction
  <1> QED
    BY <1>1, <1>2

\* The legs of an intent are one of each token of the pair.
LEMMA LegsTyped ==
  ASSUME NEW action, NEW direction, NEW fit \in PairFit
  PROVE  LegsOf(Pair, action, direction, fit) \in
           SUBSET [token : {Pair.left, Pair.right}, side : {"LONG", "SHORT"}, part : Int, of : Int]
  <1>1. fit.beta \in Int /\ BetaUnit \in Int
    BY PairTicks DEF PairFit
  <1> QED
    BY <1>1 DEF LegsOf, LeftSide, Opposite

\* The position that an ENTER intent opens is a position, with the legs of the entry.
LEMMA EntryIsPosition ==
  ASSUME PairInv, verdict # Absent, verdict.outcome.intent # Absent, verdict.outcome.intent.action = "ENTER"
  PROVE  LET entered == PositionOf(verdict.outcome.intent, PairTime)
         IN /\ entered \in PairPosition
            /\ entered.legs = LegsOf(Pair, "ENTER", entered.direction, entered.fit)
  <1> DEFINE intent == verdict.outcome.intent
  <1>1. verdict.outcome = Outcome(verdict.decision, verdict.narrow, position)
    BY DEF PairInv, VerdictIsCurrent
  <1>2. /\ position = Absent /\ InputsSound(position)
        /\ intent.direction \in {"LONG_SPREAD", "SHORT_SPREAD"}
        /\ intent.fit = rolling
        /\ intent.deviation = DeviationNow(position)
        /\ intent.legs = LegsOf(Pair, "ENTER", intent.direction, rolling)
    BY <1>1, WaysNow DEF DirectionNow
  <1>3. rolling \in PairFit
    BY <1>2 DEF PairInv, PairTypes, InputsSound
  <1>4. intent.deviation \in Int
    <2>1. Seen[Len(Seen)] \in rows
      BY <1>2, LastOfWindow DEF PairInv, Seen, InputsSound
    <2> QED
      BY <1>2, <1>3, <2>1, DeviationTyped DEF PairInv, ActiveFit, DeviationNow
  <1>5. PairTime \in Int
    BY PairTicks DEF PairInv, PairTypes, PairTime
  <1>6. intent.legs \in
          SUBSET [token : {Pair.left, Pair.right}, side : {"LONG", "SHORT"}, part : Int, of : Int]
    BY <1>2, <1>3, LegsTyped
  <1> HIDE DEF intent
  <1>7. PositionOf(intent, PairTime) \in PairPosition
    BY <1>2, <1>3, <1>4, <1>5, <1>6 DEF PositionOf, PairPosition
  <1> QED
    BY <1>2, <1>7 DEF PositionOf, intent

\* The invariant holds of the history that a session starts with.
LEMMA PairsStartSound == PairInit => PairInv
  <1> SUFFICES ASSUME PairInit PROVE PairInv
    OBVIOUS
  <1>1. slot \in Nat /\ waited \in Nat /\ slot = FirstSlot
    BY PairInputsTyped DEF PairInit
  <1>2. rolling # Absent => rolling \in PairFit /\ rolling.to = slot
    BY <1>1, FitsStamped DEF PairInit
  <1>3. RowsSound
    <2> DEFINE first == FirstSlot - 4 * PairBarTicks
               slots == ExpectedSlots(PairCalendar, first, FirstSlot + PairBarTicks)
    <2>1. first \in Int /\ FirstSlot \in Int
      BY <1>1, PairTicks
    <2>2. IsFiniteSet(first .. (FirstSlot + PairBarTicks) - PairBarTicks)
      BY <2>1, PairTicks, FS_Interval
    <2>3. slots \in SUBSET (first .. (FirstSlot + PairBarTicks) - PairBarTicks)
      BY DEF ExpectedSlots
    <2>4. \A t \in slots : t \in Int /\ t <= slot
      BY <1>1, <2>1, <2>3, PairTicks
    <2> HIDE DEF slots
    <2>5. IsFiniteSet(slots)
      BY <2>2, <2>3, FS_Subset
    <2>6. rows = {RowAt(t, 10, 0) : t \in slots}
      BY DEF PairInit, slots
    <2>7. IsFiniteSet(rows)
      <3> DEFINE row == [t \in slots |-> RowAt(t, 10, 0)]
      <3>1. row \in [slots -> rows] /\ rows = {row[t] : t \in slots}
        BY <2>6
      <3> QED
        BY <2>5, <3>1, FiniteImage
    <2>8. \A t \in slots : /\ RowAt(t, 10, 0).left.start = t
                           /\ RowAt(t, 10, 0).left.end = t + PairBarTicks
                           /\ RowAt(t, 10, 0).left.close = 10 /\ RowAt(t, 10, 0).right.close = 10
      BY DEF RowAt
    <2> QED
      BY <2>4, <2>6, <2>7, <2>8 DEF RowsSound
  <1> QED
    BY <1>1, <1>2, <1>3 DEF PairInv, PairTypes, VerdictIsCurrent, PairInit

\* A bar, late, lost or on time, keeps the rows sound and leaves no verdict on old ones.
LEMMA BarStep ==
  ASSUME PairInv, NEW close \in PairClose, NEW fit \in Fits, NEW delay, NextPairBar(close, fit, delay)
  PROVE  PairInv'
  <1> DEFINE next == Min(ExpectedSlots(PairCalendar, slot + 1, LastSlot + PairBarTicks))
             seen == {q \in rows : slot - q.left.start < DayTicks}
             again(r) == RowAt(r.left.start, 10, r.left.received - r.left.end)
             kept == {again(r) : r \in seen}
             new == IF delay = Absent THEN {} ELSE {RowAt(next, close, delay)}
  <1>1. /\ slot < LastSlot /\ slot' = next /\ waited' = 0 /\ rows' = kept \cup new
        /\ rolling' = FitAt(fit, next) /\ verdict' = Absent /\ position' = position
    BY DEF NextPairBar
  <1>2. next \in Nat /\ slot < next /\ slot \in Nat
    BY <1>1, NextSlot DEF PairInv, PairTypes
  <1>3. close \in Int
    BY PairInputsTyped
  <1>4. \A t, price, wait : LET row == RowAt(t, price, wait)
                           IN /\ row.left.start = t /\ row.left.end = t + PairBarTicks
                              /\ row.left.close = price /\ row.right.close = 10
    BY DEF RowAt
  <1> HIDE DEF next
  <1>5. IsFiniteSet(seen) /\ seen \in SUBSET rows
    BY FS_Subset DEF PairInv, RowsSound
  <1>6. IsFiniteSet(kept)
    <2> HIDE DEF seen
    <2> DEFINE image == [r \in seen |-> again(r)]
    <2>1. image \in [seen -> kept] /\ kept = {image[r] : r \in seen}
      OBVIOUS
    <2> HIDE DEF kept, image
    <2> QED
      BY <1>5, <2>1, FiniteImage
  <1>7. IsFiniteSet(rows')
    <2> HIDE DEF kept
    <2>1. CASE delay = Absent
      BY <1>1, <1>6, <2>1
    <2>2. CASE delay # Absent
      BY <1>1, <1>6, <2>2, FS_AddElement
    <2> QED
      BY <2>1, <2>2
  <1>8. \A r \in kept : /\ r.left.start \in Int /\ r.left.start < next
                       /\ r.left.end = r.left.start + PairBarTicks
                       /\ {r.left.close, r.right.close} \subseteq Int
                       /\ \A q \in kept : r.left.start = q.left.start => r = q
    <2>1. \A r \in seen : r.left.start \in Int /\ r.left.start <= slot
      BY <1>5 DEF PairInv, RowsSound
    <2>2. \A r, q \in seen : r.left.start = q.left.start => r = q
      BY <1>5 DEF PairInv, RowsSound
    <2> HIDE DEF seen
    <2>3. \A r \in seen : /\ again(r).left.start = r.left.start
                         /\ again(r).left.end = r.left.start + PairBarTicks
                         /\ again(r).left.close = 10 /\ again(r).right.close = 10
      BY <1>4
    <2> HIDE DEF again
    <2> QED
      BY <1>2, <2>1, <2>2, <2>3
  <1>9. \A r \in new : /\ r.left.start = next /\ r.left.end = r.left.start + PairBarTicks
                      /\ {r.left.close, r.right.close} \subseteq Int
                      /\ \A q \in new : r = q
    BY <1>3, <1>4
  <1> HIDE DEF kept, new
  <1>10. RowsSound'
    <2>1. \A r \in rows' : /\ r.left.start \in Int /\ r.left.start <= slot'
                          /\ r.left.end = r.left.start + PairBarTicks
                          /\ {r.left.close, r.right.close} \subseteq Int
      BY <1>1, <1>2, <1>8, <1>9
    <2>2. \A r, q \in rows' : r.left.start = q.left.start => r = q
      BY <1>1, <1>2, <1>8, <1>9
    <2> QED
      BY <1>7, <2>1, <2>2 DEF RowsSound
  <1>11. rolling' # Absent => rolling' \in PairFit /\ rolling'.to = slot'
    BY <1>1, <1>2, FitsStamped
  <1> QED
    BY <1>1, <1>2, <1>10, <1>11 DEF PairInv, PairTypes, VerdictIsCurrent

\* The rows are sound, and a verdict is about the state that it was made in.
LEMMA PairHolds == PairSpec => []PairInv
  <1>1. PairInv /\ [PairNext]_pairVars => PairInv'
    <2> SUFFICES ASSUME PairInv, [PairNext]_pairVars PROVE PairInv'
      OBVIOUS
    <2>1. ASSUME NEW close \in PairClose, NEW fit \in Fits, NEW delay \in PairReceipts,
                 NextPairBar(close, fit, delay)
          PROVE  PairInv'
      BY <2>1, BarStep
    <2>2. CASE PairWait
      BY <2>2 DEF PairWait, PairInv, RowsSound, PairTypes, VerdictIsCurrent
    <2>3. ASSUME NEW d \in PairRouting, NEW narrow \in Narrow, EvaluatePair(d, narrow)
          PROVE  PairInv'
      <3>1. UNCHANGED <<rows, slot, waited, rolling, position>>
            /\ verdict' = [outcome |-> Outcome(d, narrow, position), decision |-> d, narrow |-> narrow]
        BY <2>3 DEF EvaluatePair
      <3>2. RowsSound' /\ PairTypes'
        BY <3>1 DEF PairInv, RowsSound, PairTypes
      <3>3. Outcome(d, narrow, position)' = Outcome(d, narrow, position)
        BY <3>1 DEF Outcome, PairUniverse, PairMaster, QuoteOf, PairTime
      <3> QED
        BY <3>1, <3>2, <3>3 DEF PairInv, VerdictIsCurrent
    <2>4. CASE EnterPair
      BY <2>4, EntryIsPosition DEF EnterPair, PairInv, RowsSound, PairTypes, VerdictIsCurrent
    <2>5. CASE LeavePair
      BY <2>5 DEF LeavePair, PairInv, RowsSound, PairTypes, VerdictIsCurrent
    <2>6. CASE UNCHANGED pairVars
      <3>1. UNCHANGED <<rows, slot, waited, rolling, position, verdict>>
        BY <2>6 DEF pairVars
      <3>2. RowsSound' /\ PairTypes'
        BY <3>1 DEF PairInv, RowsSound, PairTypes
      <3>3. \A d, narrow : Outcome(d, narrow, position)' = Outcome(d, narrow, position)
        BY <3>1 DEF Outcome, PairUniverse, PairMaster, QuoteOf, PairTime
      <3> QED
        BY <3>1, <3>2, <3>3 DEF PairInv, VerdictIsCurrent
    <2> QED
      BY <2>1, <2>2, <2>3, <2>4, <2>5, <2>6 DEF PairNext
  <1> QED
    BY <1>1, PairsStartSound, PTL DEF PairSpec

\* select_window and validate_window: no intent rests on a window with a hole, whatever
\* bars came late or never.
THEOREM TrainingsAreWhole == PairSpec => []TrainingHasNoHoles
  <1>1. PairInv => TrainingHasNoHoles
    <2> SUFFICES ASSUME PairInv, verdict # Absent, verdict.outcome.intent # Absent
                 PROVE  ExpectedSlots(PairCalendar, Seen[1].left.start, Seen[Len(Seen)].left.end) =
                          {w.left.start : w \in Range(Seen)}
      BY DEF TrainingHasNoHoles, Seen
    <2>1. InputsSound(position)
      <3>1. verdict.outcome = Outcome(verdict.decision, verdict.narrow, position)
        BY DEF PairInv, VerdictIsCurrent
      <3> QED
        BY <3>1, WaysNow
    <2> QED
      BY <2>1 DEF InputsSound, WindowSound
  <1> QED
    BY <1>1, PairHolds, PTL

\* evaluate_exit takes the legs of the position, each side turned round.
LEMMA Undone ==
  ASSUME PairInv
  PROVE  ExitUndoesEntry
  <1> SUFFICES ASSUME verdict # Absent, position # Absent, verdict.outcome.intent # Absent
               PROVE  /\ verdict.outcome.intent.action = "EXIT"
                      /\ verdict.outcome.intent.legs
                           = {[leg EXCEPT !.side = Opposite(leg.side)] : leg \in position.legs}
    BY DEF ExitUndoesEntry
  <1>1. verdict.outcome = Outcome(verdict.decision, verdict.narrow, position)
    BY DEF PairInv, VerdictIsCurrent
  <1>2. /\ verdict.outcome.intent.action = "EXIT"
        /\ verdict.outcome.intent.legs = LegsOf(Pair, "EXIT", position.direction, position.fit)
    BY <1>1, WaysNow
  <1>3. position.legs = LegsOf(Pair, "ENTER", position.direction, position.fit)
        /\ position.direction \in {"LONG_SPREAD", "SHORT_SPREAD"}
    BY DEF PairInv, PairTypes, PairPosition
  <1>4. ASSUME NEW direction \in {"LONG_SPREAD", "SHORT_SPREAD"}, NEW fit
        PROVE  LegsOf(Pair, "EXIT", direction, fit)
               = {[leg EXCEPT !.side = Opposite(leg.side)] : leg \in LegsOf(Pair, "ENTER", direction, fit)}
    BY DEF LegsOf, LeftSide, Opposite
  <1> QED
    BY <1>2, <1>3, <1>4

\* An instant of a session, and an earlier one in it, are of the same day.
LEMMA SameDay ==
  ASSUME NEW at \in Nat, NEW before \in Int, NEW offset \in Nat,
         Day(at) * DayTicks + offset <= before, before <= at
  PROVE  Day(before) = Day(at)
  <1>1. DayTicks \in Nat \ {0}
    BY DaysHaveTicks
  <1>2. Day(at) * DayTicks <= before /\ before < (Day(at) + 1) * DayTicks /\ Day(at) \in Int
    BY <1>1 DEF Day
  <1>3. before \div DayTicks = Day(at)
    BY <1>1, <1>2
  <1> QED
    BY <1>3 DEF Day

\* The phases of a session that is known.
LEMMA PhasesTyped ==
  ASSUME NEW at \in Nat, SessionKnown(PairCalendar, at)
  PROVE  /\ Day(at) \in Int /\ Day(at) * DayTicks \in Int
         /\ \A phase \in {"preopen", "open", "finalEntry", "flatten", "deadline", "close"} :
              /\ SessionOn(PairCalendar, Day(at))[phase] \in Nat
              /\ Moment(PairCalendar, at, phase) = Day(at) * DayTicks + SessionOn(PairCalendar, Day(at))[phase]
              /\ Moment(PairCalendar, at, phase) \in Int
         /\ Moment(PairCalendar, at, "finalEntry") < Moment(PairCalendar, at, "flatten")
  <1>1. DayTicks \in Nat \ {0}
    BY DaysHaveTicks
  <1>2. Day(at) \in Int /\ Day(at) * DayTicks \in Int
    BY <1>1 DEF Day
  <1>3. SessionsOrdered(PairCalendar)
    BY PairInputsTyped
  <1>4. Day(at) \in PairCalendar.from .. PairCalendar.to /\ SessionOn(PairCalendar, Day(at)) # Absent
    BY <1>2, <1>3 DEF SessionKnown, Covered, SessionsOrdered
  <1>5. /\ TimesOrdered(SessionOn(PairCalendar, Day(at)))
        /\ \A phase \in {"preopen", "open", "finalEntry", "flatten", "deadline", "close"} :
             SessionOn(PairCalendar, Day(at))[phase] \in 0 .. DayTicks - 1
    BY <1>3, <1>4 DEF SessionsOrdered
  <1>6. \A phase \in {"preopen", "open", "finalEntry", "flatten", "deadline", "close"} :
             SessionOn(PairCalendar, Day(at))[phase] \in Nat
    BY <1>1, <1>5
  <1>7. SessionOn(PairCalendar, Day(at))["finalEntry"] < SessionOn(PairCalendar, Day(at))["flatten"]
    BY <1>5 DEF TimesOrdered
  <1> QED
    BY <1>2, <1>6, <1>7 DEF Moment

\* The last row that evaluate sees.
LastRow == Seen[Len(Seen)]

\* On sound inputs the last row is known, recent and of a session that is open.
LEMMA LastRowKnown ==
  ASSUME PairInv, NEW carried, InputsSound(carried)
  PROVE  /\ PairTime \in Nat /\ slot \in Nat /\ slot < PairTime
         /\ LastRow \in rows /\ RowKnown(LastRow, PairTime) /\ PairTime - LastRow.left.end <= PairRules.lag
         /\ SessionKnown(PairCalendar, PairTime) /\ Moment(PairCalendar, PairTime, "open") <= PairTime
         /\ rolling \in PairFit /\ rolling.to = slot
  <1>1. PairTime \in Nat /\ slot \in Nat /\ slot < PairTime
    BY PairTicks DEF PairInv, PairTypes, PairTime
  <1>2. LastRow \in rows /\ RowKnown(LastRow, PairTime)
    BY LastOfWindow DEF PairInv, InputsSound, Seen, LastRow
  <1>3. PairTime - LastRow.left.end <= PairRules.lag
    BY DEF InputsSound, WindowSound, LastRow
  <1>4. SessionKnown(PairCalendar, PairTime) /\ Moment(PairCalendar, PairTime, "open") <= PairTime
    BY DEF InputsSound, PairKnown
  <1> QED
    BY <1>1, <1>2, <1>3, <1>4 DEF PairInv, PairTypes, InputsSound

\* Without a call for attention the position is within its stop, its day and its holding time.
LEMMA WatchedWhileOpen ==
  ASSUME PairInv
  PROVE  OpenPairsAreWatched
  <1> SUFFICES ASSUME verdict # Absent, position # Absent, ~verdict.outcome.attention
               PROVE  OpenPairsAreWatched
    BY DEF OpenPairsAreWatched
  <1> DEFINE z == Deviation(LastRow, position.fit)
             flatten == Moment(PairCalendar, PairTime, "flatten")
  <1>1. verdict.outcome = Outcome(verdict.decision, verdict.narrow, position)
    BY DEF PairInv, VerdictIsCurrent
  <1>2. /\ verdict.outcome.reasons = {"HOLD"} /\ InputsSound(position)
        /\ ExitNow(verdict.decision, verdict.narrow, position) = {}
    BY <1>1, WaysNow
  <1>3. /\ PairTime \in Nat /\ LastRow \in rows /\ RowKnown(LastRow, PairTime)
        /\ PairTime - LastRow.left.end <= PairRules.lag
        /\ SessionKnown(PairCalendar, PairTime)
    BY <1>2, LastRowKnown
  <1>4. position \in PairPosition /\ position.fit \in PairFit /\ position.opened \in Int
        /\ position.deviation \in Int
    BY DEF PairInv, PairTypes, PairPosition
  <1>5. z \in Int
    BY <1>3, <1>4, DeviationTyped DEF PairInv
  <1>6. DeviationNow(position) = z
    BY DEF DeviationNow, ActiveFit, LastRow
  <1> HIDE DEF z
  <1>7. /\ ~(PairTime >= flatten) /\ ~(PairTime >= position.opened + PairRules.holdTicks)
        /\ ~Reaches(IF position.direction = "SHORT_SPREAD" THEN z ELSE -z, PairRules.stopZ, position.fit)
        /\ ~Reverted(position, z)
    BY <1>2, <1>6 DEF ExitNow, ExitFor
  <1>8. PairTime < flatten
    BY <1>3, <1>7, PhasesTyped
  <1>9. PairTime < position.opened + PairRules.holdTicks
    BY <1>3, <1>4, <1>7, PairTicks
  <1>10. z * position.deviation > 0
    <2>1. ~(z * position.deviation <= 0)
      BY <1>7 DEF Reverted
    <2>2. z * position.deviation \in Int
      BY <1>4, <1>5
    <2> QED
      BY <2>1, <2>2
  <1>11. Day(PairTime) = Day(position.opened)
    <2>1. /\ Moment(PairCalendar, PairTime, "open") <= position.opened
          /\ position.opened <= PairTime
      BY <1>2 DEF InputsSound, PositionValid
    <2> DEFINE offset == SessionOn(PairCalendar, Day(PairTime))["open"]
    <2>2. offset \in Nat /\ Moment(PairCalendar, PairTime, "open") = Day(PairTime) * DayTicks + offset
      BY <1>3, PhasesTyped
    <2> HIDE DEF offset
    <2> QED
      BY <1>3, <1>4, <2>1, <2>2, SameDay
  <1>12. rolling # Absent
    BY <1>2 DEF InputsSound
  <1> QED
    BY <1>2, <1>3, <1>7, <1>8, <1>9, <1>10, <1>11, <1>12 DEF OpenPairsAreWatched, z

\* Evaluated again at once, an entry would be held: no exit rule contradicts an entry rule.
LEMMA EntriesHeld ==
  ASSUME PairInv
  PROVE  EntriesAreHeld
  <1> SUFFICES ASSUME verdict # Absent, verdict.outcome.intent # Absent, verdict.outcome.intent.action = "ENTER"
               PROVE  EntriesAreHeld
    BY DEF EntriesAreHeld
  <1> DEFINE d == verdict.decision
             narrow == verdict.narrow
             intent == verdict.outcome.intent
             entered == PositionOf(intent, PairTime)
             z == Deviation(LastRow, rolling)
  <1>1. verdict.outcome = Outcome(d, narrow, position)
    BY DEF PairInv, VerdictIsCurrent
  <1>2. /\ position = Absent /\ InputsSound(position) /\ BlocksNow(d, narrow, position) = {}
        /\ Reaches(Span(DeviationNow(position)), PairRules.entryZ, rolling)
        /\ intent.direction = DirectionNow(position) /\ intent.fit = rolling
        /\ intent.deviation = DeviationNow(position)
    BY <1>1, WaysNow
  <1>3. entered \in PairPosition /\ entered # Absent
    BY EntryIsPosition, PositionsAreNotAbsent
  <1>4. /\ PairTime \in Nat /\ slot < PairTime /\ slot \in Nat
        /\ LastRow \in rows /\ SessionKnown(PairCalendar, PairTime)
        /\ Moment(PairCalendar, PairTime, "open") <= PairTime
        /\ rolling \in PairFit /\ rolling.to = slot
    BY <1>2, LastRowKnown
  <1>5. z \in Int /\ DeviationNow(position) = z
    BY <1>2, <1>4, DeviationTyped DEF DeviationNow, ActiveFit, LastRow, PairInv
  <1>6. /\ entered.pair = Pair.id /\ entered.opened = PairTime /\ entered.fit = rolling
        /\ entered.deviation = z /\ entered.direction = IF z > 0 THEN "SHORT_SPREAD" ELSE "LONG_SPREAD"
    BY <1>2, <1>5 DEF PositionOf, DirectionNow
  <1> HIDE DEF d, narrow, intent, entered, z
  <1>7. DeviationNow(entered) = z
    BY <1>3, <1>6 DEF DeviationNow, ActiveFit, LastRow, z
  <1>8. /\ Rejections(rolling) = {} /\ Quoted(narrow) /\ PermittedNow(d)
        /\ PairTime < Moment(PairCalendar, PairTime, "finalEntry")
        /\ ~Reaches(Span(z), PairRules.stopZ, rolling)
    BY <1>2, <1>5 DEF BlocksNow, EntryBlocks
  <1>9. rolling.beta \in Nat \ {0} /\ rolling.std \in Nat \ {0}
    <2>1. rolling.beta \in Int /\ rolling.std \in Nat \ {0}
      BY <1>4 DEF PairFit
    <2>2. PairRules.minBeta <= rolling.beta
      BY <1>8 DEF Rejections
    <2> QED
      BY <2>1, <2>2, PairTicks
  <1>10. InputsSound(entered)
    <2>1. PositionValid(entered, Pair, PairCalendar, PairTime)
      BY <1>4, <1>6, <1>9 DEF PositionValid
    <2> QED
      BY <1>2, <2>1 DEF InputsSound
  <1>11. ~(PairTime >= Moment(PairCalendar, PairTime, "flatten"))
    BY <1>4, <1>8, PhasesTyped
  <1>12. ~(PairTime >= entered.opened + PairRules.holdTicks)
    BY <1>4, <1>6, PairTicks
  <1>13. ~DriftedFrom(rolling, entered.fit)
    <2>1. Span(rolling.beta - rolling.beta) = 0
      BY <1>9 DEF Span
    <2>2. PairRules.maxDrift * rolling.beta >= 0
      BY <1>9, PairTicks
    <2> QED
      BY <1>6, <1>9, <2>1, <2>2, PairTicks DEF DriftedFrom
  <1>14. ~Reaches(IF entered.direction = "SHORT_SPREAD" THEN z ELSE -z, PairRules.stopZ, entered.fit)
    BY <1>5, <1>6, <1>8 DEF Span
  <1>15. ~Reverted(entered, z)
    <2>1. Span(z) * ZUnit >= PairRules.entryZ * rolling.std
      BY <1>2, <1>5 DEF Reaches
    <2>2. Span(z) \in Nat /\ (Span(z) = 0 => z = 0)
      BY <1>5 DEF Span
    <2>3. /\ PairRules.entryZ * rolling.std > PairRules.exitZ * rolling.std
          /\ PairRules.exitZ * rolling.std >= 0
          /\ PairRules.exitZ * rolling.std \in Int /\ PairRules.entryZ * rolling.std \in Int
      BY <1>9, PairTicks
    <2>4. Span(z) * ZUnit \in Int /\ (Span(z) = 0 => Span(z) * ZUnit = 0)
      BY <2>2, PairTicks
    <2>5. ~(Span(z) * ZUnit <= PairRules.exitZ * rolling.std)
      BY <2>1, <2>3, <2>4
    <2>6. z # 0
      BY <1>5, <2>1, <2>3, <2>4 DEF Span
    <2>7. z * z > 0
      BY <1>5, <2>6
    <2>8. ~(z * entered.deviation <= 0)
      BY <1>5, <1>6, <2>7
    <2> QED
      BY <1>6, <2>5, <2>8 DEF Reverted
  <1>16. ExitNow(d, narrow, entered) = {}
    BY <1>6, <1>7, <1>8, <1>11, <1>12, <1>13, <1>14, <1>15 DEF ExitNow, ExitFor
  <1>17. Outcome(d, narrow, entered).reasons = {"HOLD"}
    BY <1>3, <1>10, <1>16, WaysNow
  <1> QED
    BY <1>17 DEF EntriesAreHeld, d, narrow, entered, intent

\* An evaluation of an open position that asks for nothing has seen current rows, and
\* the position is not due to leave for any of the reasons of evaluate_exit.
THEOREM OpenPairsStayWatched == PairSpec => []OpenPairsAreWatched
  BY PairHolds, WatchedWhileOpen, PTL

\* An intent about an open position is the exact reverse of its entry, and an entry is
\* never one that the exit rules would close at the same instant.
THEOREM TripsClose == PairSpec => []RoundTripsClose
  <1>1. PairInv => RoundTripsClose
    BY Undone, EntriesHeld DEF RoundTripsClose
  <1> QED
    BY <1>1, PairHolds, PTL

-----------------------------------------------------------------------------
(* Health: arithmetic. *)

\* Products along a chain: one more increase, and no increase at all.
LEMMA OneMore ==
  ASSUME NEW m \in Nat, NEW n \in Nat
  PROVE  /\ m * n \in Nat
         /\ m * (n + 1) = m * n + m
         /\ (n + 1) * m = n * m + m
  OBVIOUS

\* r intervals fit into a span that is at least r times as long.
LEMMA IntervalsFit ==
  ASSUME NEW r \in Nat, NEW interval \in Nat \ {0}, NEW span \in Nat, r * interval <= span
  PROVE  r <= span \div interval
  OBVIOUS

\* A product grows with its second factor.
LEMMA ProductGrows ==
  ASSUME NEW m \in Nat, NEW x \in Nat, NEW y \in Nat, x <= y
  PROVE  m * x <= m * y
  OBVIOUS

-----------------------------------------------------------------------------
(* Health: the newest trade. *)

\* A set of naturals that is bounded, and not empty, has a greatest: the least of its bounds.
LEMMA GreatestNatural ==
  ASSUME NEW S \in SUBSET Nat, S # {}, NEW bound \in Nat, \A x \in S : x <= bound
  PROVE  Max(S) \in S
  <1> DEFINE Bounds == {n \in Nat : \A x \in S : x <= n}
  <1>1. PICK m \in Bounds : \A n \in Bounds : m <= n
    BY MinOfNaturals
  <1>2. m \in S
    <2> SUFFICES ASSUME m \notin S PROVE FALSE
      OBVIOUS
    <2>1. m \in Nat /\ \A x \in S : x \in Nat /\ x < m
      BY <1>1
    <2>2. PICK x \in S : x \in Nat /\ x < m
      BY <2>1
    <2>3. m - 1 \in Nat /\ \A y \in S : y <= m - 1
      BY <2>1, <2>2
    <2>4. m - 1 \in Bounds /\ ~ (m <= m - 1)
      BY <2>1, <2>3
    <2> QED
      BY <1>1, <2>4
  <1>3. \A x \in S : m >= x
    BY <1>1
  <1> QED
    BY <1>2, <1>3 DEF Max

\* The newest of the trades that are visible is a close time.
LEMMA LastTradeIsATime ==
  ASSUME NEW outcomes \in SUBSET Trade, NEW at \in Time, Visible(outcomes, at) # {}
  PROVE  LastTrade(Visible(outcomes, at)) \in Nat
  <1> DEFINE closes == {t.closed : t \in Visible(outcomes, at)}
  <1>1. closes \in SUBSET Nat /\ closes # {} /\ at \in Nat
    BY TradesAreOrdered, BoundIsNatural DEF Visible, Time
  <1>2. \A x \in closes : x <= at
    BY DEF Visible
  <1>3. Max(closes) \in closes
    BY <1>1, <1>2, GreatestNatural
  <1> QED
    BY <1>1, <1>3 DEF LastTrade

-----------------------------------------------------------------------------
(* Health: the inductive invariant. *)

\* The newest trade a chain knows bounds every close time it was credited with.
CreditIsKnown(s) ==
  /\ s.lastTrade \in Nat \cup {None}
  /\ s.lastTrade = None => credited = {}
  /\ s.lastTrade # None => \A c \in credited : c <= s.lastTrade

\* An increase took an interval of its own, and lifted by MaxIncrease at most.
ClimbIsPaced(s) ==
  /\ start \in Nat /\ s.lastIncrease \in Nat /\ s.timestamp \in Nat
  /\ start <= s.lastIncrease /\ s.lastIncrease <= s.timestamp
  /\ raises * IncreaseInterval <= s.lastIncrease - start
  /\ s.multiplier \in Nat
  /\ s.multiplier <= InitialMultiplier + MaxIncrease * raises

\* Every increase was paid for by one more close time.
RaisesArePaid ==
  /\ raises \in Nat
  /\ IsFiniteSet(credited) /\ credited \subseteq Nat
  /\ raises <= Cardinality(credited)

\* The climb since the chain last fell to the minimum.
CutIsEarnedBack ==
  sinceCut # None =>
    /\ sinceCut \in Nat /\ snapshot.multiplier \in Nat
    /\ snapshot.multiplier <= MinimumMultiplier + MaxIncrease * sinceCut

HealthInv ==
  /\ RaisesArePaid
  /\ snapshot # None => CreditIsKnown(snapshot) /\ ClimbIsPaced(snapshot)
  /\ CutIsEarnedBack

-----------------------------------------------------------------------------
(* Health: what one measurement yields. *)

\* A verdict never exceeds what was carried, except by an increase that was earned.
LEMMA VerdictIsBounded ==
  ASSUME NEW previous, NEW window, NEW earned \in BOOLEAN,
         earned => ~Deteriorated(window),
         previous # None => previous.multiplier \in Nat
  PROVE  LET value == IF previous = None THEN InitialMultiplier ELSE previous.multiplier
         IN /\ Verdict(previous, window, earned) \in Nat
            /\ Deteriorated(window) => Verdict(previous, window, earned) = MinimumMultiplier
            /\ ~Deteriorated(window) /\ ~earned => Verdict(previous, window, earned) <= value
            /\ earned => Verdict(previous, window, earned) <= value + MaxIncrease
  <1> DEFINE value == IF previous = None THEN InitialMultiplier ELSE previous.multiplier
  <1>1. /\ value \in Nat /\ InitialMultiplier \in Nat /\ MaximumMultiplier \in Nat
        /\ MinimumMultiplier \in Nat /\ MaxIncrease \in Nat
    BY SettingsAreBounded
  <1>2. Carried(previous, window) \in Nat /\ Carried(previous, window) <= value
    <2>1. Carried(previous, window) \in {Lesser(value, InitialMultiplier), value}
      BY DEF Carried
    <2>2. Lesser(value, InitialMultiplier) \in Nat /\ Lesser(value, InitialMultiplier) <= value
      BY <1>1 DEF Lesser
    <2> QED
      BY <1>1, <2>1, <2>2
  <1> HIDE DEF value
  <1>3. Raised(previous, window) \in Nat /\ Raised(previous, window) <= value + MaxIncrease
    BY <1>1, <1>2 DEF Raised, Lesser
  <1>4. CASE Deteriorated(window)
    BY <1>1, <1>4 DEF Verdict, value
  <1>5. CASE earned
    BY <1>1, <1>3, <1>5 DEF Verdict, value
  <1>6. CASE ~Deteriorated(window) /\ ~earned
    BY <1>1, <1>2, <1>6 DEF Verdict, value
  <1> QED
    BY <1>4, <1>5, <1>6 DEF value

\* A chain that starts has earned nothing yet.
LEMMA ChainStarts ==
  ASSUME NEW outcomes \in SUBSET Trade, NEW at \in Time,
         MeasureHealth(outcomes, at, None)
  PROVE  HealthInv'
  <1> DEFINE trades == Visible(outcomes, at)
             window == Window(trades)
             last == LastTrade(trades)
  <1>1. /\ Earned(None, trades, at) = FALSE
        /\ raises' = 0 /\ start' = at /\ credited' = {last} \ {None}
        /\ sinceCut' = IF Deteriorated(window) THEN 0 ELSE None
        /\ snapshot'.timestamp = at /\ snapshot'.lastIncrease = at
        /\ snapshot'.lastTrade = last
        /\ snapshot'.multiplier = Verdict(None, window, FALSE)
    BY DEF MeasureHealth, Earned
  <1>2. last \in Nat \/ last = None
    BY LastTradeIsATime DEF LastTrade
  <1>3. at \in Nat /\ InitialMultiplier \in Nat /\ MinimumMultiplier \in Nat
        /\ MinimumMultiplier <= InitialMultiplier /\ MaxIncrease \in Nat /\ IncreaseInterval \in Nat
    BY SettingsAreBounded, BoundIsNatural DEF Time
  <1>4. /\ Verdict(None, window, FALSE) \in Nat
        /\ Verdict(None, window, FALSE) <= InitialMultiplier
        /\ Deteriorated(window) => Verdict(None, window, FALSE) = MinimumMultiplier
    BY VerdictIsBounded, <1>3
  <1> HIDE DEF trades, window, last
  <1>5. RaisesArePaid'
    <2>1. IsFiniteSet({last}) /\ IsFiniteSet({last} \ {None})
      BY FS_Singleton, FS_Difference
    <2>2. Cardinality({last} \ {None}) \in Nat
      BY <2>1, FS_CardinalityType
    <2>3. raises' <= Cardinality(credited')
      BY <1>1, <2>2
    <2> QED
      BY <1>1, <1>2, <2>1, <2>3 DEF RaisesArePaid
  <1>6. CreditIsKnown(snapshot)'
    BY <1>1, <1>2, NoneIsNoTime DEF CreditIsKnown
  <1>7. ClimbIsPaced(snapshot)'
    <2>1. raises' * IncreaseInterval = 0 /\ MaxIncrease * raises' = 0
      BY <1>1, <1>3
    <2>2. snapshot'.multiplier \in Nat /\ snapshot'.multiplier <= InitialMultiplier
      BY <1>1, <1>4
    <2>3. snapshot'.multiplier <= InitialMultiplier + MaxIncrease * raises'
      BY <1>3, <2>1, <2>2
    <2>4. raises' * IncreaseInterval <= snapshot'.lastIncrease - start'
      BY <1>1, <1>3, <2>1
    <2>5. /\ start' \in Nat /\ snapshot'.lastIncrease \in Nat /\ snapshot'.timestamp \in Nat
          /\ start' <= snapshot'.lastIncrease /\ snapshot'.lastIncrease <= snapshot'.timestamp
      BY <1>1, <1>3
    <2> QED
      BY <2>2, <2>3, <2>4, <2>5 DEF ClimbIsPaced
  <1>8. CutIsEarnedBack'
    <2> SUFFICES ASSUME sinceCut' # None
                 PROVE  /\ sinceCut' \in Nat /\ snapshot'.multiplier \in Nat
                        /\ snapshot'.multiplier <= MinimumMultiplier + MaxIncrease * sinceCut'
      BY DEF CutIsEarnedBack
    <2>1. Deteriorated(window) /\ sinceCut' = 0
      BY <1>1
    <2>2. snapshot'.multiplier = MinimumMultiplier
      BY <1>1, <1>4, <2>1
    <2>3. MaxIncrease * sinceCut' = 0
      BY <1>3, <2>1
    <2> QED
      BY <1>3, <2>1, <2>2, <2>3
  <1> QED
    BY <1>5, <1>6, <1>7, <1>8 DEF HealthInv

\* One more measurement of a chain keeps what the chain has earned.
LEMMA ChainContinues ==
  ASSUME HealthInv, snapshot # None,
         NEW outcomes \in SUBSET Trade, NEW at \in Time,
         MeasureHealth(outcomes, at, snapshot)
  PROVE  HealthInv'
  <1> DEFINE trades == Visible(outcomes, at)
             window == Window(trades)
             last == LastTrade(trades)
             earned == Earned(snapshot, trades, at)
  <1>1. /\ start' = start
        /\ raises' = IF earned THEN raises + 1 ELSE raises
        /\ credited' = credited \cup ({last} \ {None})
        /\ sinceCut' = IF Deteriorated(window) THEN 0
                       ELSE IF sinceCut = None THEN None
                       ELSE IF earned THEN sinceCut + 1 ELSE sinceCut
        /\ snapshot'.timestamp = at
        /\ snapshot'.lastIncrease = (IF earned THEN at ELSE snapshot.lastIncrease)
        /\ snapshot'.lastTrade = last
        /\ snapshot'.multiplier = Verdict(snapshot, window, earned)
    BY DEF MeasureHealth
  <1>2. last \in Nat \/ (last = None /\ trades = {})
    BY LastTradeIsATime DEF LastTrade
  <1>3. /\ snapshot.timestamp < at
        /\ snapshot.lastTrade # None => trades # {} /\ last >= snapshot.lastTrade
    BY DEF MeasureHealth, ValidHistory
  <1>4. earned => /\ ~Deteriorated(window) /\ trades # {}
                  /\ snapshot.lastTrade # None => last > snapshot.lastTrade
                  /\ at - snapshot.lastIncrease >= IncreaseInterval
    BY DEF Earned, NewlyClosed, IntervalPassed
  <1>5. earned \in BOOLEAN
    BY DEF Earned
  <1>6. /\ CreditIsKnown(snapshot) /\ ClimbIsPaced(snapshot)
        /\ RaisesArePaid /\ CutIsEarnedBack
    BY DEF HealthInv
  <1>7. /\ at \in Nat /\ MinimumMultiplier \in Nat /\ InitialMultiplier \in Nat
        /\ MaxIncrease \in Nat /\ IncreaseInterval \in Nat /\ raises \in Nat
        /\ snapshot.multiplier \in Nat
    BY <1>6, SettingsAreBounded, BoundIsNatural DEF Time, ClimbIsPaced, RaisesArePaid
  <1>8. trades # {} => last \in Nat
    BY LastTradeIsATime
  <1>9. /\ Verdict(snapshot, window, earned) \in Nat
        /\ Deteriorated(window) => Verdict(snapshot, window, earned) = MinimumMultiplier
        /\ ~Deteriorated(window) /\ ~earned =>
             Verdict(snapshot, window, earned) <= snapshot.multiplier
        /\ earned => Verdict(snapshot, window, earned) <= snapshot.multiplier + MaxIncrease
    BY VerdictIsBounded, <1>4, <1>5, <1>7
  <1> HIDE DEF trades, window, last, earned
  <1>10. RaisesArePaid'
    <2>1. /\ IsFiniteSet(credited) /\ credited \subseteq Nat /\ raises <= Cardinality(credited)
          /\ Cardinality(credited) \in Nat
      BY <1>6, FS_CardinalityType DEF RaisesArePaid
    <2>2. CASE last = None
      <3>1. credited' = credited
        BY <1>1, <2>2
      <3>2. ~ earned
        BY <1>2, <1>4, <2>2, <1>8, NoneIsNoTime
      <3> QED
        BY <1>1, <1>7, <2>1, <3>1, <3>2 DEF RaisesArePaid
    <2>3. CASE last # None
      <3>1. last \in Nat /\ credited' = credited \cup {last}
        BY <1>1, <1>2, <2>3
      <3>2. /\ IsFiniteSet(credited \cup {last})
            /\ Cardinality(credited \cup {last}) =
                 IF last \in credited THEN Cardinality(credited) ELSE Cardinality(credited) + 1
        BY <2>1, FS_AddElement
      <3>3. earned => last \notin credited
        <4>1. earned /\ snapshot.lastTrade = None => credited = {}
          BY <1>6 DEF CreditIsKnown
        <4>2. earned /\ snapshot.lastTrade # None =>
                last > snapshot.lastTrade /\ \A c \in credited : c <= snapshot.lastTrade
          BY <1>4, <1>6 DEF CreditIsKnown
        <4>3. snapshot.lastTrade # None => snapshot.lastTrade \in Nat
          BY <1>6 DEF CreditIsKnown
        <4> QED
          BY <2>1, <3>1, <4>1, <4>2, <4>3
      <3>4. raises' \in Nat /\ raises' <= Cardinality(credited \cup {last})
        BY <1>1, <1>7, <2>1, <3>2, <3>3
      <3> QED
        BY <2>1, <3>1, <3>2, <3>4 DEF RaisesArePaid
    <2> QED
      BY <2>2, <2>3
  <1>11. CreditIsKnown(snapshot)'
    <2>1. /\ snapshot.lastTrade \in Nat \cup {None}
          /\ snapshot.lastTrade = None => credited = {}
          /\ snapshot.lastTrade # None => \A c \in credited : c <= snapshot.lastTrade
          /\ credited \subseteq Nat
      BY <1>6 DEF CreditIsKnown, RaisesArePaid
    <2>2. CASE last = None
      <3>1. credited = {} /\ credited' = {}
        BY <1>1, <1>2, <1>3, <2>1, <2>2, NoneIsNoTime
      <3> QED
        BY <1>1, <2>2, <3>1 DEF CreditIsKnown
    <2>3. CASE last # None
      <3>1. last \in Nat /\ credited' = credited \cup {last}
        BY <1>1, <1>2, <2>3
      <3>2. \A c \in credited : c <= last
        <4>1. CASE snapshot.lastTrade = None
          BY <2>1, <4>1
        <4>2. CASE snapshot.lastTrade # None
          <5>1. snapshot.lastTrade \in Nat /\ snapshot.lastTrade <= last
            BY <1>3, <2>1, <3>1, <4>2
          <5> HIDE DEF last
          <5> QED
            BY <2>1, <3>1, <4>2, <5>1
        <4> QED
          BY <4>1, <4>2
      <3>3. \A c \in credited' : c <= snapshot'.lastTrade
        BY <1>1, <3>1, <3>2
      <3> QED
        BY <1>1, <2>3, <3>1, <3>3 DEF CreditIsKnown
    <2> QED
      BY <2>2, <2>3
  <1>12. ClimbIsPaced(snapshot)'
    <2>1. /\ start \in Nat /\ snapshot.lastIncrease \in Nat /\ snapshot.timestamp \in Nat
          /\ start <= snapshot.lastIncrease /\ snapshot.lastIncrease <= snapshot.timestamp
          /\ raises * IncreaseInterval <= snapshot.lastIncrease - start
          /\ snapshot.multiplier <= InitialMultiplier + MaxIncrease * raises
      BY <1>6 DEF ClimbIsPaced
    <2>2. /\ raises * IncreaseInterval \in Nat /\ MaxIncrease * raises \in Nat
          /\ (raises + 1) * IncreaseInterval = raises * IncreaseInterval + IncreaseInterval
          /\ MaxIncrease * (raises + 1) = MaxIncrease * raises + MaxIncrease
      BY <1>7, OneMore
    <2>3. /\ start' \in Nat /\ snapshot'.lastIncrease \in Nat /\ snapshot'.timestamp \in Nat
          /\ start' <= snapshot'.lastIncrease /\ snapshot'.lastIncrease <= snapshot'.timestamp
          /\ snapshot'.multiplier \in Nat
      <3>1. snapshot'.lastIncrease = at \/ snapshot'.lastIncrease = snapshot.lastIncrease
        BY <1>1
      <3> QED
        BY <1>1, <1>3, <1>7, <1>9, <2>1, <3>1
    <2>4. raises' * IncreaseInterval <= snapshot'.lastIncrease - start'
      <3>1. CASE earned
        <4>1. raises' = raises + 1 /\ snapshot'.lastIncrease = at /\ start' = start
          BY <1>1, <3>1
        <4>2. raises * IncreaseInterval + IncreaseInterval <= at - start
          BY <1>4, <1>7, <2>1, <2>2, <3>1
        <4> QED
          BY <2>2, <4>1, <4>2
      <3>2. CASE ~ earned
        BY <1>1, <2>1, <3>2
      <3> QED
        BY <3>1, <3>2
    <2>5. snapshot'.multiplier <= InitialMultiplier + MaxIncrease * raises'
      <3>1. CASE earned
        <4>1. raises' = raises + 1 /\ snapshot'.multiplier = Verdict(snapshot, window, earned)
          BY <1>1, <3>1
        <4>2. Verdict(snapshot, window, earned) <= snapshot.multiplier + MaxIncrease
          BY <1>9, <3>1
        <4> QED
          BY <1>7, <1>9, <2>1, <2>2, <4>1, <4>2
      <3>2. CASE ~ earned
        <4>1. raises' = raises /\ snapshot'.multiplier = Verdict(snapshot, window, earned)
          BY <1>1, <3>2
        <4>2. Verdict(snapshot, window, earned) \in {MinimumMultiplier} \cup 0 .. snapshot.multiplier
          BY <1>7, <1>9, <3>2
        <4>3. MinimumMultiplier <= InitialMultiplier
          BY SettingsAreBounded
        <4> QED
          BY <1>7, <2>1, <2>2, <4>1, <4>2, <4>3
      <3> QED
        BY <3>1, <3>2
    <2> QED
      BY <2>3, <2>4, <2>5 DEF ClimbIsPaced
  <1>13. CutIsEarnedBack'
    <2> SUFFICES ASSUME sinceCut' # None
                 PROVE  /\ sinceCut' \in Nat /\ snapshot'.multiplier \in Nat
                        /\ snapshot'.multiplier <= MinimumMultiplier + MaxIncrease * sinceCut'
      BY DEF CutIsEarnedBack
    <2>1. CASE Deteriorated(window)
      <3>1. sinceCut' = 0 /\ snapshot'.multiplier = MinimumMultiplier
        BY <1>1, <1>9, <2>1
      <3>2. MaxIncrease * sinceCut' = 0
        BY <1>7, <3>1
      <3> QED
        BY <1>7, <3>1, <3>2
    <2>2. CASE ~ Deteriorated(window)
      <3>1. sinceCut # None
        BY <1>1, <2>2
      <3>2. /\ sinceCut \in Nat
            /\ snapshot.multiplier <= MinimumMultiplier + MaxIncrease * sinceCut
        BY <1>6, <3>1 DEF CutIsEarnedBack
      <3>3. /\ MaxIncrease * sinceCut \in Nat
            /\ MaxIncrease * (sinceCut + 1) = MaxIncrease * sinceCut + MaxIncrease
        BY <1>7, <3>2, OneMore
      <3>4. CASE earned
        <4>1. sinceCut' = sinceCut + 1 /\ snapshot'.multiplier = Verdict(snapshot, window, earned)
          BY <1>1, <2>2, <3>1, <3>4
        <4>2. Verdict(snapshot, window, earned) <= snapshot.multiplier + MaxIncrease
          BY <1>9, <3>4
        <4> QED
          BY <1>7, <1>9, <3>2, <3>3, <4>1, <4>2
      <3>5. CASE ~ earned
        <4>1. sinceCut' = sinceCut /\ snapshot'.multiplier = Verdict(snapshot, window, earned)
          BY <1>1, <2>2, <3>1, <3>5
        <4>2. Verdict(snapshot, window, earned) <= snapshot.multiplier
          BY <1>9, <2>2, <3>5
        <4> QED
          BY <1>7, <1>9, <3>2, <3>3, <4>1, <4>2
      <3> QED
        BY <3>4, <3>5
    <2> QED
      BY <2>1, <2>2
  <1> QED
    BY <1>10, <1>11, <1>12, <1>13 DEF HealthInv

-----------------------------------------------------------------------------
(* Health: the theorem. *)

\* The invariant holds in every reachable state.
THEOREM HealthInvHolds == Spec => []HealthInv
  <1>1. Init => HealthInv
    <2>1. IsFiniteSet({}) /\ Cardinality({}) = 0
      BY FS_EmptySet
    <2> QED
      BY <2>1 DEF Init, HealthInv, RaisesArePaid, CutIsEarnedBack
  <1>2. HealthInv /\ [Next]_vars => HealthInv'
    <2> SUFFICES ASSUME HealthInv, [Next]_vars
                 PROVE  HealthInv'
      OBVIOUS
    <2>1. ASSUME NEW outcomes \in SUBSET Trade, NEW at \in Time, MeasureHealth(outcomes, at, None)
          PROVE  HealthInv'
      BY <2>1, ChainStarts
    <2>2. ASSUME NEW outcomes \in SUBSET Trade, NEW at \in Time, snapshot # None,
                 MeasureHealth(outcomes, at, snapshot)
          PROVE  HealthInv'
      BY <2>2, ChainContinues
    <2>3. CASE UNCHANGED vars
      BY <2>3 DEF vars, HealthInv, RaisesArePaid, CreditIsKnown, ClimbIsPaced, CutIsEarnedBack
    <2> QED
      BY <2>1, <2>2, <2>3 DEF Next, MeasureRefused
  <1> QED
    BY <1>1, <1>2, PTL DEF Spec

\* The window of the newest trades has at most WindowTrades of them.
LEMMA WindowIsBounded ==
  ASSUME NEW trades, IsFiniteSet(trades)
  PROVE  Len(Window(trades)) \in 0 .. WindowTrades
  <1> DEFINE n == Cardinality(trades)
             before(t, u) == t.closed < u.closed \/ (t.closed = u.closed /\ t.id < u.id)
             sorted == [i \in 1 .. n |->
                          CHOOSE t \in trades : Cardinality({u \in trades : before(u, t)}) = i - 1]
             first == IF n > WindowTrades THEN n - WindowTrades + 1 ELSE 1
  <1>1. n \in Nat /\ WindowTrades \in Nat \ {0}
    BY FS_CardinalityType, SettingsAreBounded
  <1>2. Window(trades) = SubSeq(sorted, first, n)
    BY DEF Window
  <1> HIDE DEF n, sorted
  <1>3. first \in 1 .. n + 1 /\ n - first + 1 \in 0 .. WindowTrades
    BY <1>1
  <1> HIDE DEF first
  <1>4. \E S : sorted \in Seq(S) /\ Len(sorted) = n
    <2> DEFINE value(i) == CHOOSE t \in trades : Cardinality({u \in trades : before(u, t)}) = i - 1
    <2>1. sorted = [i \in 1 .. n |-> value(i)]
      BY DEF sorted
    <2> HIDE DEF value
    <2>2. sorted \in Seq({value(i) : i \in 1 .. n}) /\ Len(sorted) = n
      BY <1>1, <2>1
    <2> QED
      BY <2>2
  <1>5. Len(SubSeq(sorted, first, n)) = n - first + 1
    <2>1. PICK S : sorted \in Seq(S) /\ Len(sorted) = n
      BY <1>4
    <2>2. n \in first - 1 .. Len(sorted) /\ first \in 1 .. Len(sorted) + 1
      BY <1>1, <1>3, <2>1
    <2>3. Len(SubSeq(sorted, first, n)) = IF first <= n THEN n - first + 1 ELSE 0
      BY <2>1, <2>2, SubSeqProperties
    <2> QED
      BY <1>1, <1>3, <2>3
  <1> QED
    BY <1>2, <1>3, <1>5

\* The multiplier stays between the bounds of the version.
LEMMA VerdictInBounds ==
  ASSUME NEW previous, NEW window, NEW earned \in BOOLEAN, earned => ~Deteriorated(window),
         previous # None => previous.multiplier \in MinimumMultiplier .. MaximumMultiplier
  PROVE  Verdict(previous, window, earned) \in MinimumMultiplier .. MaximumMultiplier
  <1> DEFINE value == IF previous = None THEN InitialMultiplier ELSE previous.multiplier
             carried == Carried(previous, window)
             bounded(x) == x \in MinimumMultiplier .. MaximumMultiplier
  <1>1. /\ InitialMultiplier \in Nat /\ MaximumMultiplier \in Nat /\ MinimumMultiplier \in Nat
        /\ MinimumMultiplier <= InitialMultiplier /\ InitialMultiplier <= MaximumMultiplier
        /\ MaxIncrease \in Nat
    BY SettingsAreBounded
  <1>2. bounded(value) /\ bounded(InitialMultiplier) /\ bounded(MinimumMultiplier)
    BY <1>1
  <1>3. carried \in {Lesser(value, InitialMultiplier), value}
    BY DEF Carried
  <1> HIDE DEF value, carried
  <1>4. bounded(carried)
    BY <1>1, <1>2, <1>3 DEF Lesser
  <1>5. bounded(Lesser(MaximumMultiplier, carried + MaxIncrease))
    BY <1>1, <1>4 DEF Lesser
  <1>6. Verdict(previous, window, earned) \in
          {MinimumMultiplier, Lesser(MaximumMultiplier, carried + MaxIncrease), carried}
    <2>1. Verdict(previous, window, earned) =
            IF Deteriorated(window) THEN MinimumMultiplier
            ELSE IF earned THEN Lesser(MaximumMultiplier, carried + MaxIncrease) ELSE carried
      <3>1. CASE Deteriorated(window)
        BY <3>1 DEF Verdict
      <3>2. CASE ~Deteriorated(window) /\ earned
        BY <3>2 DEF Verdict, Raised, carried
      <3>3. CASE ~Deteriorated(window) /\ ~earned
        BY <3>3 DEF Verdict, carried
      <3> QED
        BY <3>1, <3>2, <3>3
    <2> QED
      BY <2>1
  <1> QED
    BY <1>2, <1>4, <1>5, <1>6

\* A measurement is built from the trades that were known at its time.
LEMMA MeasuredTypes ==
  ASSUME NEW outcomes \in SUBSET Trade, NEW at \in Time, NEW previous,
         previous # None => previous \in Snapshot /\ previous.lastIncrease <= previous.timestamp,
         MeasureHealth(outcomes, at, previous)
  PROVE  /\ snapshot' \in Snapshot
         /\ snapshot'.lastIncrease <= snapshot'.timestamp
         /\ snapshot'.lastTrade # None => snapshot'.lastTrade <= snapshot'.timestamp
         /\ LastTrade(Visible(outcomes, at)) \in Nat \cup {None}
  <1> DEFINE trades == Visible(outcomes, at)
             window == Window(trades)
             earned == Earned(previous, trades, at)
             increase == IF previous = None \/ earned THEN at ELSE previous.lastIncrease
             last == LastTrade(trades)
             value == Verdict(previous, window, earned)
  <1>1. snapshot' = [timestamp |-> at, trades |-> Len(window), multiplier |-> value,
                     lastIncrease |-> increase, lastTrade |-> last]
    BY DEF MeasureHealth
  <1>2. IsFiniteSet(trades)
    BY TradesAreOrdered, FS_Subset DEF Visible
  <1>3. Len(window) \in 0 .. WindowTrades
    <2> HIDE DEF trades
    <2> QED
      BY <1>2, WindowIsBounded
  <1>4. value \in MinimumMultiplier .. MaximumMultiplier
    <2>1. previous # None => previous.multiplier \in MinimumMultiplier .. MaximumMultiplier
      BY DEF Snapshot
    <2>2. earned \in BOOLEAN /\ (earned => ~Deteriorated(window))
      BY DEF Earned
    <2> HIDE DEF window, earned
    <2> QED
      BY <2>1, <2>2, VerdictInBounds
  <1>5. last = None \/ (last \in Nat /\ last <= at)
    <2>1. CASE trades = {}
      BY <2>1 DEF LastTrade
    <2>2. CASE trades # {}
      <3> DEFINE closes == {t.closed : t \in trades}
                 f == [t \in trades |-> t.closed]
      <3>1. closes \in SUBSET Nat /\ closes # {} /\ \A x \in closes : x <= at
        BY <2>2, TradesAreOrdered DEF Visible
      <3>2. f \in [trades -> closes] /\ closes = {f[t] : t \in trades}
        OBVIOUS
      <3>3. last = Max(closes)
        BY <2>2 DEF LastTrade
      <3> HIDE DEF f, trades, closes
      <3>4. IsFiniteSet(closes)
        BY <1>2, <3>2, FiniteImage
      <3>5. Max(closes) \in closes
        <4>1. closes # {} /\ closes \subseteq Int
          BY <3>1
        <4> QED
          BY ONLY <3>4, <4>1, MaxOfFinite
      <3> QED
        BY <3>1, <3>3, <3>5
    <2> QED
      BY <2>1, <2>2
  <1>6. increase \in Time /\ increase <= at
    <2>1. at \in Nat
      BY BoundIsNatural DEF Time
    <2>2. CASE previous = None \/ earned
      BY <2>1, <2>2
    <2>3. CASE ~(previous = None \/ earned)
      <3>1. previous.timestamp < at /\ previous \in Snapshot /\ previous.lastIncrease <= previous.timestamp
        BY <2>3 DEF MeasureHealth, ValidHistory
      <3>2. previous.timestamp \in Nat /\ previous.lastIncrease \in Nat /\ previous.lastIncrease \in Time
        BY <3>1, BoundIsNatural DEF Snapshot, Time
      <3>3. increase = previous.lastIncrease
        BY <2>3
      <3> QED
        BY <2>1, <3>1, <3>2, <3>3
    <2> QED
      BY <2>2, <2>3
  <1> HIDE DEF trades, window, earned, increase, last, value
  <1>7. snapshot' \in Snapshot
    BY <1>1, <1>3, <1>4, <1>5, <1>6 DEF Snapshot
  <1>8. snapshot'.timestamp = at /\ snapshot'.lastIncrease = increase /\ snapshot'.lastTrade = last
    BY <1>1
  <1> QED
    BY <1>5, <1>6, <1>7, <1>8 DEF last, trades

\* TypeOK: whatever a caller selects of the trades, the snapshot of measure_health is within the bounds that
\* AlphaHealthMultiplier and AlphaHealthSnapshot.coherent demand, so it can be built.
THEOREM HealthTypes == Spec => []TypeOK
  <1>1. Init => TypeOK
    BY DEF Init, TypeOK
  <1>2. TypeOK /\ [Next]_vars => TypeOK'
    <2> SUFFICES ASSUME TypeOK, [Next]_vars PROVE TypeOK'
      OBVIOUS
    <2>1. ASSUME NEW outcomes \in SUBSET Trade, NEW at \in Time, NEW previous \in {None, snapshot},
                 MeasureHealth(outcomes, at, previous)
          PROVE  TypeOK'
      <3> DEFINE last == LastTrade(Visible(outcomes, at))
      <3>1. previous # None => previous \in Snapshot /\ previous.lastIncrease <= previous.timestamp
        BY <2>1 DEF TypeOK
      <3>2. /\ snapshot' \in Snapshot /\ snapshot'.lastIncrease <= snapshot'.timestamp
            /\ snapshot'.lastTrade # None => snapshot'.lastTrade <= snapshot'.timestamp
            /\ last \in Nat \cup {None}
        BY <2>1, <3>1, MeasuredTypes
      <3>3. /\ start' = IF previous = None THEN at ELSE start
            /\ raises' \in {0, raises, raises + 1}
            /\ credited' \subseteq credited \cup ({last} \ {None})
            /\ sinceCut' \in {0, None} \/ (sinceCut # None /\ sinceCut' \in {sinceCut, sinceCut + 1})
        BY <2>1 DEF MeasureHealth
      <3> HIDE DEF last
      <3>4. start' \in Time \cup {None}
        BY <3>3 DEF TypeOK
      <3>5. raises' \in Nat
        BY <3>3 DEF TypeOK
      <3>6. sinceCut' \in Nat \cup {None}
        BY <3>3 DEF TypeOK
      <3>7. credited' \subseteq Nat
        BY <3>2, <3>3 DEF TypeOK
      <3> QED
        BY <3>2, <3>4, <3>5, <3>6, <3>7 DEF TypeOK
    <2>2. CASE UNCHANGED vars
      BY <2>2 DEF vars, TypeOK
    <2> QED
      BY <2>1, <2>2 DEF Next, MeasureRefused
  <1> QED
    BY <1>1, <1>2, PTL DEF Spec

\* A multiplier is earned: it climbs at most MaxIncrease per interval of its
\* chain, every increase has a close time of its own, and a cut is won back step
\* by step (measure_health).
THEOREM MultiplierEarned == Spec => []MultiplierIsEarned
  <1>1. HealthInv => MultiplierIsEarned
    <2> SUFFICES ASSUME HealthInv
                 PROVE  MultiplierIsEarned
      OBVIOUS
    <2>1. RaisesArePaid /\ CutIsEarnedBack
      BY DEF HealthInv
    <2>2. ClimbIsSlow
      <3> SUFFICES ASSUME snapshot # None
                   PROVE  snapshot.multiplier <=
                            InitialMultiplier
                              + MaxIncrease * ((snapshot.timestamp - start) \div IncreaseInterval)
        BY DEF ClimbIsSlow
      <3> DEFINE intervals == (snapshot.timestamp - start) \div IncreaseInterval
      <3>1. ClimbIsPaced(snapshot)
        BY DEF HealthInv
      <3>2. /\ raises \in Nat /\ MaxIncrease \in Nat /\ InitialMultiplier \in Nat
            /\ IncreaseInterval \in Nat \ {0}
        BY <2>1, SettingsAreBounded DEF RaisesArePaid
      <3>3. /\ snapshot.timestamp - start \in Nat
            /\ raises * IncreaseInterval <= snapshot.timestamp - start
        <4>1. raises * IncreaseInterval \in Nat
          BY <3>2, OneMore
        <4> QED
          BY <3>1, <4>1 DEF ClimbIsPaced
      <3>4. raises <= intervals
        BY <3>2, <3>3, IntervalsFit
      <3>5. intervals \in Nat
        BY <3>2, <3>3
      <3> HIDE DEF intervals
      <3>6. MaxIncrease * raises <= MaxIncrease * intervals
        BY <3>2, <3>4, <3>5, ProductGrows
      <3>7. MaxIncrease * raises \in Nat /\ MaxIncrease * intervals \in Nat
        BY <3>2, <3>5, OneMore
      <3>8. snapshot.multiplier \in Nat
            /\ snapshot.multiplier <= InitialMultiplier + MaxIncrease * raises
        BY <3>1 DEF ClimbIsPaced
      <3>9. snapshot.multiplier <= InitialMultiplier + MaxIncrease * intervals
        BY <3>2, <3>6, <3>7, <3>8
      <3> QED
        BY <3>9 DEF intervals
    <2>3. EachRaiseHasItsTrade
      BY <2>1 DEF RaisesArePaid, EachRaiseHasItsTrade
    <2>4. CutsAreEarnedBack
      BY <2>1 DEF CutIsEarnedBack, CutsAreEarnedBack
    <2> QED
      BY <2>2, <2>3, <2>4 DEF MultiplierIsEarned
  <1> QED
    BY <1>1, HealthInvHolds, PTL

-----------------------------------------------------------------------------
(* Breakout: a break is a signal once, and its observations follow the bars. *)

\* The end of the k-th bar.
Bell(k) == OpeningBell + BarTicks * k

TapeBar ==
  [token : {Watched}, start : Int, end : Int, received : Int, open : Nat \ {0}, close : Nat \ {0},
   high : Nat, low : Nat, clean : {TRUE}]

\* The bars of the session have no hole.
TapeSound ==
  /\ tape \in Seq(TapeBar) /\ Len(tape) \in 1 .. SessionBars
  /\ \A i \in 1 .. Len(tape) :
       tape[i].start = Bell(i - 1) /\ tape[i].end = Bell(i) /\ tape[i].received = Bell(i)

\* A signal came of the k-th bar, with the level as of the n-th; the bar before had
\* closed on the other side.
SignalSound(s) ==
  /\ s.id = <<s.trigger, s.token>> /\ s.token = Watched
  /\ {s.at, s.expires} \subseteq Int /\ s.trigger <= s.at /\ s.at < s.expires
  /\ s.expires <= s.trigger + BarTicks * BreakoutRules.observationBars
  /\ s.out > 0
  /\ \E k \in 2 .. Len(tape), n \in Nat :
       /\ s.trigger = Bell(k) /\ s.known = Bell(n) /\ n < k
       /\ Sign(s.side) * (tape[k - 1].close - s.level) <= 0

BreakoutInv ==
  /\ TapeSound /\ late \in 0 .. BarTicks - 1
  /\ \A s \in accepted : SignalSound(s)
  /\ OneSignalPerTrigger

\* The opening bell is an instant.
LEMMA BellTyped == OpeningBell \in Int /\ \A k \in Int : Bell(k) \in Int
  <1>1. DayTicks \in Nat \ {0} /\ BarTicks \in Nat /\ DayStart \in Int
    BY DaysHaveTicks, BreakoutRulesOrdered, BreakoutInputsTyped DEF DayStart
  <1>2. Day(DayStart) \in Int
    BY <1>1 DEF Day
  <1>3. Day(DayStart) * DayTicks \in Int
    BY <1>1, <1>2
  <1>4. SessionOn(BreakoutCalendar, Day(DayStart))["open"] \in Int
    BY <1>2, BreakoutInputsTyped, DaysHaveTicks DEF SessionsOrdered, SessionKnown, Covered
  <1>5. OpeningBell \in Int
    BY <1>3, <1>4 DEF OpeningBell, Moment
  <1> QED
    BY <1>1, <1>5 DEF Bell

\* Marks a step apart are in the order of their numbers.
LEMMA GridInOrder ==
  ASSUME NEW base \in Int, NEW step \in Nat \ {0}, NEW i \in Int, NEW k \in Int
  PROVE  /\ i < k => base + step * i + step <= base + step * k
         /\ i <= k <=> base + step * i <= base + step * k
         /\ i < k <=> base + step * i < base + step * k
         /\ base + step * k = base + step * i + step * (k - i)
  <1>1. step * k = step * i + step * (k - i) /\ step * i \in Int /\ step * (k - i) \in Int
    OBVIOUS
  <1>2. i < k => step * (k - i) >= step
    <2>1. i < k => k - i - 1 \in Nat
      OBVIOUS
    <2>2. \A m \in Nat : step * (m + 1) >= step
      OBVIOUS
    <2> QED
      BY <2>1, <2>2
  <1>3. k < i => step * (k - i) <= -step
    <2>1. k < i => i - k - 1 \in Nat
      OBVIOUS
    <2>2. \A m \in Nat : step * (-(m + 1)) <= -step
      OBVIOUS
    <2>3. k < i => k - i = -((i - k - 1) + 1)
      OBVIOUS
    <2> QED
      BY <2>1, <2>2, <2>3
  <1>4. i = k => step * (k - i) = 0
    OBVIOUS
  <1> QED
    BY <1>1, <1>2, <1>3, <1>4

\* Later bars end later, by a bar at least.
LEMMA BellsInOrder ==
  ASSUME NEW i \in Int, NEW k \in Int
  PROVE  /\ i < k => Bell(i) + BarTicks <= Bell(k)
         /\ i <= k <=> Bell(i) <= Bell(k)
         /\ i < k <=> Bell(i) < Bell(k)
         /\ Bell(k) = Bell(i) + BarTicks * (k - i)
  <1>1. BarTicks \in Nat \ {0} /\ OpeningBell \in Int
    BY BreakoutRulesOrdered, BellTyped
  <1>2. Bell(i) = OpeningBell + BarTicks * i /\ Bell(k) = OpeningBell + BarTicks * k
    BY DEF Bell
  <1>3. /\ i < k => OpeningBell + BarTicks * i + BarTicks <= OpeningBell + BarTicks * k
        /\ i <= k <=> OpeningBell + BarTicks * i <= OpeningBell + BarTicks * k
        /\ i < k <=> OpeningBell + BarTicks * i < OpeningBell + BarTicks * k
        /\ OpeningBell + BarTicks * k = OpeningBell + BarTicks * i + BarTicks * (k - i)
    BY <1>1, GridInOrder
  <1> QED
    BY <1>2, <1>3

\* The smaller of two numbers is one of them and below both.
LEMMA MinOfTwo ==
  ASSUME NEW x \in Int, NEW y \in Int
  PROVE  Min({x, y}) \in {x, y} /\ Min({x, y}) <= x /\ Min({x, y}) <= y
  <1>1. \E m \in {x, y} : \A n \in {x, y} : m <= n
    OBVIOUS
  <1>2. Min({x, y}) \in {x, y} /\ \A n \in {x, y} : Min({x, y}) <= n
    BY <1>1 DEF Min
  <1> QED
    BY <1>2

\* evaluate finds a signal only in an open session, of an observation that is sound and
\* whose bar is the first beyond a level.
LEMMA SignalsAreConfirmed ==
  ASSUME NEW offered, NEW universe, NEW master, NEW decision, NEW calendar, NEW at,
         NEW s \in FindBreakouts(offered, universe, master, decision, calendar, at).intents
  PROVE  LET side == DirectionalSide(decision)
             opening == Moment(calendar, at, "open")
             closing == Moment(calendar, at, "close")
         IN /\ side \in {"LONG", "SHORT"}
            /\ ~(at < opening) /\ ~(closing <= at) /\ UniverseOfDay(master, universe, at)
            /\ SessionKnown(calendar, at)
            /\ \E o \in offered :
                 /\ o.at = at /\ BreakoutSound(o, master, universe, decision, at, opening)
                 /\ Crossed(o, side, opening) # {}
                 /\ InvalidationAt(o, side, o.reference.levels[side][HardestOf(o, side, opening)]) > 0
                 /\ s = SignalOf(o, side, at, opening, closing)
  <1> DEFINE side == DirectionalSide(decision)
             opening == Moment(calendar, at, "open")
             closing == Moment(calendar, at, "close")
             observations == {o \in offered : o.at = at}
             n == Cardinality(observations)
             rank(field, o) == Rank([p \in observations |-> p[field]], o, observations)
             up(o) == rank("sector", o) + rank("market", o)
             strength(o) == IF side = "LONG" THEN up(o) ELSE 4 * n - up(o)
             confirmed(o) ==
               /\ side = "SHORT" => ShortPermitted(o.token, master, universe)
               /\ o.atr > 0 /\ o.bar.high # o.bar.low
               /\ Crossed(o, side, opening) # {}
               /\ Confirmed(o, side, o.reference.levels[side][HardestOf(o, side, opening)], strength(o), n)
             found == FindBreakouts(offered, universe, master, decision, calendar, at)
  <1>1. /\ side # Absent /\ ~(at < opening) /\ ~(closing <= at) /\ UniverseOfDay(master, universe, at)
        /\ SessionKnown(calendar, at)
        /\ \A o \in observations : BreakoutSound(o, master, universe, decision, at, opening)
        /\ found.intents = {SignalOf(o, side, at, opening, closing) : o \in {p \in observations : confirmed(p)}}
    BY DEF FindBreakouts
  <1>2. side \in {"LONG", "SHORT"}
    BY <1>1 DEF DirectionalSide
  <1>3. \A o : confirmed(o) =>
          /\ Crossed(o, side, opening) # {}
          /\ InvalidationAt(o, side, o.reference.levels[side][HardestOf(o, side, opening)]) > 0
    BY DEF Confirmed
  <1> HIDE DEF confirmed, side, opening, closing
  <1>4. PICK o \in observations : confirmed(o) /\ s = SignalOf(o, side, at, opening, closing)
    BY <1>1
  <1> QED
    BY <1>1, <1>2, <1>3, <1>4 DEF side, opening, closing

\* The levels after some bars of the session are numbers, or there are none.
LEMMA LevelsTyped ==
  ASSUME TapeSound, NEW n \in 0 .. Len(tape), NEW swing \in Swings,
         NEW side \in {"LONG", "SHORT"}, NEW kind \in {"opening_range", "swing"}
  PROVE  LevelsAfter(n, swing)[side][kind] \in Int \cup {Absent}
  <1> DEFINE m == BreakoutRules.openingBars
             first == {tape[i] : i \in 1 .. Min({n, m})}
  <1>1. swing \in Int \cup {Absent} /\ m \in Nat \ {0} /\ n \in Nat
    BY BreakoutInputsTyped, BreakoutRulesOrdered DEF TapeSound
  <1>2. ASSUME n >= m
        PROVE  Max({b.high : b \in first}) \in Int /\ Min({b.low : b \in first}) \in Int
    <2>1. Min({n, m}) = m
      <3>1. {n, m} \in SUBSET Nat /\ {n, m} # {}
        BY <1>1
      <3>2. Min({n, m}) \in {n, m} /\ \A x \in {n, m} : Min({n, m}) <= x
        BY <3>1, MinOfNaturals
      <3> HIDE DEF m
      <3> QED
        BY <1>1, <1>2, <3>2
    <2>2. \A i \in 1 .. m : i \in 1 .. Len(tape) /\ tape[i] \in TapeBar
      BY <1>1, <1>2 DEF TapeSound
    <2> HIDE DEF m
    <2> DEFINE highs == {b.high : b \in first}
               lows == {b.low : b \in first}
               high == [i \in 1 .. m |-> tape[i].high]
               low == [i \in 1 .. m |-> tape[i].low]
    <2>3. IsFiniteSet(1 .. m) /\ 1 \in 1 .. m
      BY <1>1, FS_Interval
    <2>4. highs = {high[i] : i \in 1 .. m} /\ lows = {low[i] : i \in 1 .. m}
      BY <2>1
    <2>5. high \in [1 .. m -> highs] /\ low \in [1 .. m -> lows]
      BY <2>4
    <2>11. \A b \in TapeBar : b.high \in Int /\ b.low \in Int
      BY DEF TapeBar
    <2>9. \A i \in 1 .. m : tape[i].high \in Int /\ tape[i].low \in Int
      BY <2>2, <2>11
    <2>10. \A i \in 1 .. m : high[i] \in Int /\ low[i] \in Int
      BY <2>9
    <2> HIDE DEF highs, lows, high, low
    <2>6. highs \subseteq Int /\ lows \subseteq Int /\ highs # {} /\ lows # {}
      BY <2>3, <2>4, <2>10
    <2>7. IsFiniteSet(highs) /\ IsFiniteSet(lows)
      BY <2>3, <2>4, <2>5, FiniteImage
    <2>8. Max(highs) \in highs /\ Min(lows) \in lows
      BY <2>6, <2>7, MaxOfFinite, MinOfFinite
    <2> QED
      BY <2>6, <2>8 DEF highs, lows
  <1>3. LevelsAfter(n, swing)[side][kind] =
          IF kind = "swing" THEN swing
          ELSE IF n >= m THEN (IF side = "LONG" THEN Max({b.high : b \in first}) ELSE Min({b.low : b \in first}))
          ELSE Absent
    BY DEF LevelsAfter
  <1> QED
    BY <1>1, <1>2, <1>3

\* Of some levels that were crossed one is the hardest.
LEMMA HardestIsCrossed ==
  ASSUME NEW o, NEW side \in {"LONG", "SHORT"}, NEW opening, Crossed(o, side, opening) # {},
         \A kind \in {"opening_range", "swing"} : o.reference.levels[side][kind] \in Int \cup {Absent}
  PROVE  HardestOf(o, side, opening) \in Crossed(o, side, opening)
  <1> DEFINE crossed == Crossed(o, side, opening)
             level(kind) == Sign(side) * o.reference.levels[side][kind]
             hardest(kind) ==
               /\ \A other \in crossed : level(other) <= level(kind)
               /\ kind = "swing" => \A other \in crossed \ {kind} : level(other) < level(kind)
  <1>1. crossed \subseteq {"opening_range", "swing"} /\ crossed # {}
    BY BreakoutRulesOrdered DEF Crossed
  <1>2. Sign(side) \in Int
    BY DEF Sign
  <1>3. \A kind \in crossed : o.reference.levels[side][kind] \in Int
    BY <1>1 DEF Crossed
  <1>4. \A kind \in crossed : level(kind) \in Int
    <2> HIDE DEF crossed
    <2> QED
      BY <1>2, <1>3
  <1> HIDE DEF level, crossed
  <1>5. \E kind \in crossed : hardest(kind)
    <2>1. CASE crossed = {"opening_range"}
      BY <1>4, <2>1
    <2>2. CASE crossed = {"swing"}
      BY <1>4, <2>2
    <2>3. CASE crossed = {"opening_range", "swing"}
      <3>1. CASE level("opening_range") < level("swing")
        BY <1>4, <2>3, <3>1
      <3>2. CASE level("swing") <= level("opening_range")
        BY <1>4, <2>3, <3>2
      <3> QED
        BY <1>4, <2>3, <3>1, <3>2
    <2> QED
      BY <1>1, <2>1, <2>2, <2>3
  <1>6. HardestOf(o, side, opening) = CHOOSE kind \in crossed : hardest(kind)
    BY DEF HardestOf, crossed, level
  <1> HIDE DEF hardest
  <1> QED
    BY <1>5, <1>6 DEF crossed

\* The watched security is the only one with signals, and all its signals of one
\* evaluation are one: of the last bar, with the level as of the n-th.
LEMMA EvaluationFindsOne ==
  ASSUME BreakoutInv, NEW features \in Features, NEW n \in 0 .. SessionBars, NEW swing \in Swings,
         NEW decision, 1 < Len(tape), n < Len(tape),
         NEW s \in FindBreakouts({Watching(features, n, swing)} \cup {QuietAt(o) : o \in Others},
                                 BreakoutUniverse, BreakoutMaster, decision, BreakoutCalendar,
                                 BreakoutTime).intents
  PROVE  /\ s = SignalOf(Watching(features, n, swing), DirectionalSide(decision), BreakoutTime,
                         OpeningBell, Moment(BreakoutCalendar, BreakoutTime, "close"))
         /\ SignalSound(s) /\ s.trigger = Bell(Len(tape))
  <1> DEFINE w == Watching(features, n, swing)
             offered == {w} \cup {QuietAt(o) : o \in Others}
             side == DirectionalSide(decision)
             opening == Moment(BreakoutCalendar, BreakoutTime, "open")
             closing == Moment(BreakoutCalendar, BreakoutTime, "close")
             level == w.reference.levels[side][HardestOf(w, side, opening)]
             k == Len(tape)
  <1>1. /\ k \in Int /\ 1 < k /\ tape \in Seq(TapeBar) /\ late \in Nat /\ k \in 2 .. Len(tape)
        /\ tape[k].end = Bell(k) /\ tape[k].start = Bell(k - 1) /\ tape[k] \in TapeBar
        /\ tape[k - 1] \in TapeBar
    BY BreakoutRulesOrdered DEF BreakoutInv, TapeSound
  <1>2. /\ side \in {"LONG", "SHORT"}
        /\ ~(BreakoutTime < opening) /\ ~(closing <= BreakoutTime)
        /\ UniverseOfDay(BreakoutMaster, BreakoutUniverse, BreakoutTime)
        /\ SessionKnown(BreakoutCalendar, BreakoutTime)
    BY SignalsAreConfirmed
  <1>3. PICK o \in offered :
          /\ o.at = BreakoutTime
          /\ BreakoutSound(o, BreakoutMaster, BreakoutUniverse, decision, BreakoutTime, opening)
          /\ Crossed(o, side, opening) # {}
          /\ InvalidationAt(o, side, o.reference.levels[side][HardestOf(o, side, opening)]) > 0
          /\ s = SignalOf(o, side, BreakoutTime, opening, closing)
    BY SignalsAreConfirmed
  <1>4. opening = OpeningBell
    <2>1. Day(BreakoutTime) = BreakoutMaster.asOf
      BY <1>2 DEF UniverseOfDay
    <2>2. DayTicks \in Nat \ {0} /\ BreakoutMaster.asOf \in Int
      BY DaysHaveTicks, BreakoutInputsTyped
    <2>3. Day(DayStart) = BreakoutMaster.asOf
      BY <2>2 DEF Day, DayStart
    <2> QED
      BY <2>1, <2>3 DEF Moment, OpeningBell
  <1>5. o = w
    <2> SUFFICES ASSUME NEW q \in Others, o = QuietAt(q) PROVE FALSE
      OBVIOUS
    <2>1. o.reference = Watching(q, 0, Absent).reference
      BY DEF QuietAt, Watching
    <2>2. \A kind \in {"opening_range", "swing"} : o.reference.levels[side][kind] = Absent
      BY <1>2, <2>1, BreakoutRulesOrdered DEF Watching, LevelsAfter
    <2>3. Crossed(o, side, opening) = {}
      BY <2>2, BreakoutRulesOrdered DEF Crossed
    <2> QED
      BY <1>3, <2>3
  <1>6. /\ w.reference.at = Bell(n) /\ w.bar = tape[k] /\ w.previous = tape[k - 1]
        /\ w.reference.levels = LevelsAfter(n, swing) /\ w.token = Watched
    BY DEF Watching, Bell
  <1> HIDE DEF w
  <1>7. HardestOf(w, side, opening) \in Crossed(w, side, opening)
    <2>1. n \in 0 .. Len(tape)
      BY <1>1
    <2>2. \A kind \in {"opening_range", "swing"} : w.reference.levels[side][kind] \in Int \cup {Absent}
      BY <1>2, <1>6, <2>1, LevelsTyped DEF BreakoutInv
    <2> QED
      BY <1>2, <1>3, <1>5, <2>2, HardestIsCrossed
  <1>8. Sign(side) * (tape[k - 1].close - level) <= 0
    BY <1>6, <1>7 DEF Crossed
  <1>9. /\ s.id = <<Bell(k), Watched>> /\ s.token = Watched /\ s.side = side /\ s.at = BreakoutTime
        /\ s.level = level /\ s.known = Bell(n) /\ s.trigger = Bell(k)
        /\ s.expires = Min({closing, Bell(k) + BarTicks * BreakoutRules.observationBars})
        /\ s.out > 0
    BY <1>1, <1>3, <1>5, <1>6 DEF SignalOf, SignalId, ExpiryOf
  <1>10. BreakoutTime = Bell(k) + late /\ BreakoutTime \in Int /\ Bell(k) \in Int /\ Bell(k) <= BreakoutTime
    <2>1. BreakoutTime = Bell(k) + late
      BY DEF BreakoutTime, Bell
    <2>2. Bell(k) \in Int
      BY <1>1, BellTyped
    <2> QED
      BY <1>1, <2>1, <2>2
  <1>11. closing \in Int /\ BreakoutTime < closing
    <2>1. DayTicks \in Nat \ {0} /\ Day(BreakoutTime) \in Int
      BY <1>10, DaysHaveTicks DEF Day
    <2>2. Day(BreakoutTime) * DayTicks \in Int
      BY <2>1
    <2>3. SessionOn(BreakoutCalendar, Day(BreakoutTime))["close"] \in Int
      BY <1>2, <2>1, BreakoutInputsTyped DEF SessionsOrdered, SessionKnown, Covered
    <2>4. closing \in Int
      BY <2>2, <2>3 DEF Moment
    <2> QED
      BY <1>2, <1>10, <2>4
  <1>12. /\ s.expires \in Int /\ BreakoutTime < s.expires
         /\ s.expires <= Bell(k) + BarTicks * BreakoutRules.observationBars
    <2> DEFINE window == BarTicks * BreakoutRules.observationBars
    <2>1. window \in Nat /\ BreakoutRules.lag < window /\ BreakoutRules.lag \in Nat
      BY BreakoutRulesOrdered
    <2>2. BreakoutTime - Bell(k) <= BreakoutRules.lag
      BY <1>1, <1>3, <1>5, <1>6 DEF BreakoutSound
    <2> HIDE DEF window
    <2>3. Bell(k) + window \in Int /\ BreakoutTime < Bell(k) + window
      BY <1>10, <2>1, <2>2
    <2> DEFINE end == Bell(k) + window
    <2>4. end \in Int
      BY <2>3
    <2> HIDE DEF end, closing
    <2>6. Min({closing, end}) \in {closing, end} /\ Min({closing, end}) <= closing /\ Min({closing, end}) <= end
      BY <1>11, <2>4, MinOfTwo
    <2>7. s.expires = Min({closing, end})
      BY <1>9 DEF end, window
    <2>8. BreakoutTime < end /\ end = Bell(k) + BarTicks * BreakoutRules.observationBars
      BY <2>3 DEF end, window
    <2> QED
      BY <1>11, <2>4, <2>6, <2>7, <2>8
  <1>13. SignalSound(s)
    BY <1>1, <1>8, <1>9, <1>10, <1>12 DEF SignalSound
  <1> QED
    BY <1>3, <1>4, <1>5, <1>9, <1>13 DEF w

\* A bar of the session, of prices above zero.
LEMMA BarTyped ==
  ASSUME NEW n \in Nat, NEW open \in Nat \ {0}, NEW close \in Nat \ {0}
  PROVE  /\ BarAt(n, open, close) \in TapeBar
         /\ BarAt(n, open, close).start = Bell(n - 1) /\ BarAt(n, open, close).end = Bell(n)
         /\ BarAt(n, open, close).received = Bell(n)
  <1>1. Max({open, close}) + 1 \in Nat /\ Min({open, close}) - 1 \in Nat
    <2> DEFINE a == open
               b == close
    <2>0. a \in Int /\ b \in Int /\ a \in Nat \ {0} /\ b \in Nat \ {0}
      OBVIOUS
    <2> HIDE DEF a, b
    <2>1. Max({a, b}) \in {a, b} /\ Min({a, b}) \in {a, b}
      BY <2>0, MaxOfTwo, MinOfTwo
    <2>2. Max({a, b}) + 1 \in Nat /\ Min({a, b}) - 1 \in Nat
      BY <2>0, <2>1
    <2> QED
      BY <2>2 DEF a, b
  <1>2. OpeningBell + BarTicks * (n - 1) \in Int /\ OpeningBell + BarTicks * n \in Int
    BY BellTyped DEF Bell
  <1> QED
    BY <1>1, <1>2 DEF BarAt, TapeBar, Bell

\* The invariant holds at the opening.
LEMMA BreakoutStarts == BreakoutInit => BreakoutInv
  <1> SUFFICES ASSUME BreakoutInit PROVE BreakoutInv
    OBVIOUS
  <1>1. FirstClose \in Nat \ {0} /\ SessionBars \in Nat \ {0} /\ BarTicks \in Nat \ {0}
    BY BreakoutInputsTyped, BreakoutRulesOrdered
  <1>2. tape = <<BarAt(1, FirstClose, FirstClose)>> /\ late = 0 /\ accepted = {}
    BY DEF BreakoutInit
  <1> DEFINE bar == BarAt(1, FirstClose, FirstClose)
  <1>3. bar \in TapeBar /\ bar.start = Bell(1 - 1) /\ bar.end = Bell(1) /\ bar.received = Bell(1)
    BY <1>1, BarTyped
  <1> HIDE DEF bar
  <1>4. TapeSound
    BY <1>1, <1>2, <1>3 DEF TapeSound, bar
  <1> QED
    BY <1>1, <1>2, <1>4 DEF BreakoutInv, OneSignalPerTrigger

\* A bar is added at the end, and what the signals say of the bars before stays true.
LEMMA ClosingKeeps ==
  ASSUME BreakoutInv, NEW close \in Price, CloseBar(close)
  PROVE  BreakoutInv'
  <1> DEFINE k == Len(tape)
             bar == BarAt(k + 1, tape[k].close, close)
  <1>1. tape \in Seq(TapeBar) /\ k \in Nat \ {0} /\ k < SessionBars /\ tape[k] \in TapeBar
    BY BreakoutInputsTyped DEF BreakoutInv, TapeSound, CloseBar
  <1>2. tape[k].close \in Nat \ {0} /\ close \in Nat \ {0}
    BY <1>1, BreakoutInputsTyped DEF TapeBar
  <1>3. bar \in TapeBar /\ bar.start = Bell(k) /\ bar.end = Bell(k + 1) /\ bar.received = Bell(k + 1)
    <2>1. (k + 1) - 1 = k /\ k + 1 \in Nat
      BY <1>1
    <2> HIDE DEF k
    <2>2. bar.start = Bell((k + 1) - 1) /\ bar \in TapeBar /\ bar.end = Bell(k + 1) /\ bar.received = Bell(k + 1)
      BY <1>2, <2>1, BarTyped
    <2> QED
      BY <2>1, <2>2
  <1>4. tape' = Append(tape, bar) /\ late' = 0 /\ accepted' = accepted
    BY DEF CloseBar
  <1> HIDE DEF bar
  <1>5. /\ tape' \in Seq(TapeBar) /\ Len(tape') = k + 1 /\ tape'[k + 1] = bar
        /\ \A i \in 1 .. k : tape'[i] = tape[i]
    BY <1>1, <1>3, <1>4
  <1>6. TapeSound'
    <2>1. \A i \in 1 .. k + 1 : i = k + 1 \/ i \in 1 .. k
      BY <1>1
    <2>2. Len(tape') \in 1 .. SessionBars
      BY <1>1, <1>5, BreakoutInputsTyped
    <2> SUFFICES \A i \in 1 .. k + 1 :
                   tape'[i].start = Bell(i - 1) /\ tape'[i].end = Bell(i) /\ tape'[i].received = Bell(i)
      BY <1>5, <2>2 DEF TapeSound, Bell
    <2>3. \A i \in 1 .. k :
            tape[i].start = Bell(i - 1) /\ tape[i].end = Bell(i) /\ tape[i].received = Bell(i)
      BY DEF BreakoutInv, TapeSound
    <2>4. (k + 1) - 1 = k
      BY <1>1
    <2> QED
      BY <1>3, <1>5, <2>1, <2>3, <2>4
  <1>7. \A s \in accepted' : SignalSound(s)'
    <2> TAKE s \in accepted'
    <2>1. SignalSound(s)
      BY <1>4 DEF BreakoutInv
    <2>2. PICK m \in 2 .. Len(tape), n \in Nat :
            /\ s.trigger = Bell(m) /\ s.known = Bell(n) /\ n < m
            /\ Sign(s.side) * (tape[m - 1].close - s.level) <= 0
      BY <2>1 DEF SignalSound
    <2>3. m \in 2 .. Len(tape') /\ m - 1 \in 1 .. k
      BY <1>1, <1>5
    <2>4. tape'[m - 1] = tape[m - 1]
      BY <1>5, <2>3
    <2> QED
      BY <2>1, <2>2, <2>3, <2>4 DEF SignalSound, Bell
  <1> QED
    BY <1>4, <1>6, <1>7, BreakoutRulesOrdered DEF BreakoutInv, OneSignalPerTrigger

\* An evaluation adds a signal of the last bar, or stops when the journal has another.
LEMMA EvaluatingKeeps ==
  ASSUME BreakoutInv, NEW features \in Features, NEW n \in 0 .. SessionBars, NEW swing \in Swings,
         NEW outcome \in Outcomes, Evaluate(features, n, swing, outcome)
  PROVE  BreakoutInv'
  <1> DEFINE w == Watching(features, n, swing)
             decision == [outcome EXCEPT !.at = BreakoutTime]
             found == FindBreakouts({w} \cup {QuietAt(o) : o \in Others}, BreakoutUniverse, BreakoutMaster,
                                    decision, BreakoutCalendar, BreakoutTime)
             one == SignalOf(w, DirectionalSide(decision), BreakoutTime, OpeningBell,
                             Moment(BreakoutCalendar, BreakoutTime, "close"))
             clash == \E s \in found.intents, a \in accepted : a.id = s.id /\ a # s
  <1>1. /\ 1 < Len(tape) /\ n < Len(tape) /\ tape' = tape /\ late' = late
        /\ accepted' = IF clash THEN accepted ELSE accepted \cup found.intents
    BY DEF Evaluate, BreakoutInv, TapeSound
  <1>2. \A s \in found.intents : s = one /\ SignalSound(s)
    <2> HIDE DEF decision
    <2> QED
      BY <1>1, EvaluationFindsOne
  <1> HIDE DEF found, one
  <1>3. TapeSound' /\ late' \in 0 .. BarTicks - 1
    BY <1>1 DEF BreakoutInv, TapeSound, Bell, OpeningBell, DayStart
  <1>4. \A s \in accepted' : SignalSound(s)
    BY <1>1, <1>2 DEF BreakoutInv
  <1>5. \A s \in accepted' : SignalSound(s)'
    BY <1>1, <1>4 DEF SignalSound, Bell
  <1>6. ASSUME NEW s \in accepted', NEW t \in accepted', s.trigger = t.trigger, s.token = t.token
        PROVE  s = t
    <2>1. s.id = t.id
      BY <1>4, <1>6 DEF SignalSound
    <2>2. CASE s \in accepted /\ t \in accepted
      BY <1>6, <2>2 DEF BreakoutInv, OneSignalPerTrigger
    <2>3. CASE s \in found.intents /\ t \in found.intents
      BY <1>2, <2>3
    <2>4. CASE ~clash /\ s \in found.intents /\ t \in accepted
      BY <2>1, <2>4
    <2>5. CASE ~clash /\ t \in found.intents /\ s \in accepted
      BY <2>1, <2>5
    <2> QED
      BY <1>1, <2>2, <2>3, <2>4, <2>5
  <1>7. OneSignalPerTrigger'
    BY <1>6 DEF OneSignalPerTrigger
  <1> QED
    BY <1>3, <1>5, <1>7 DEF BreakoutInv

\* Every step keeps the invariant.
LEMMA BreakoutSteps == BreakoutInv /\ [BreakoutNext]_breakoutVars => BreakoutInv'
  <1> SUFFICES ASSUME BreakoutInv, [BreakoutNext]_breakoutVars PROVE BreakoutInv'
    OBVIOUS
  <1>1. ASSUME NEW close \in Price, CloseBar(close) PROVE BreakoutInv'
    BY <1>1, ClosingKeeps
  <1>2. CASE Linger
    <2>1. tape' = tape /\ accepted' = accepted /\ late' \in 0 .. BarTicks - 1
      BY <1>2, BreakoutRulesOrdered DEF Linger, BreakoutInv
    <2> QED
      BY <2>1 DEF BreakoutInv, TapeSound, SignalSound, OneSignalPerTrigger, Bell
  <1>3. ASSUME NEW f \in Features, NEW n \in 0 .. SessionBars, NEW swing \in Swings, NEW d \in Outcomes,
               Evaluate(f, n, swing, d)
        PROVE  BreakoutInv'
    BY <1>3, EvaluatingKeeps
  <1>4. CASE UNCHANGED breakoutVars
    BY <1>4 DEF breakoutVars, BreakoutInv, TapeSound, SignalSound, OneSignalPerTrigger, Bell
  <1> QED
    BY <1>1, <1>2, <1>3, <1>4 DEF BreakoutNext

\* What is accepted at the trigger bar is new: the bar before had closed on the other
\* side of the level, and no other signal came in between.
LEMMA InvariantBreaksAnew == BreakoutInv => SignalsAreNew
  <1> SUFFICES ASSUME BreakoutInv PROVE SignalsAreNew
    OBVIOUS
  <1>1. ASSUME NEW s \in accepted, NEW t \in accepted,
               s.side = t.side, s.level = t.level, s.trigger < t.trigger
        PROVE  \E i \in DOMAIN tape :
                 /\ s.trigger <= tape[i].end /\ tape[i].end < t.trigger
                 /\ Sign(s.side) * (tape[i].close - s.level) <= 0
    <2>1. PICK k \in 2 .. Len(tape) : s.trigger = Bell(k)
      BY DEF BreakoutInv, SignalSound
    <2>2. PICK m \in 2 .. Len(tape) :
            t.trigger = Bell(m) /\ Sign(t.side) * (tape[m - 1].close - t.level) <= 0
      BY DEF BreakoutInv, SignalSound
    <2>3. tape \in Seq(TapeBar) /\ Len(tape) \in Nat
      BY DEF BreakoutInv, TapeSound
    <2>4. k \in Int /\ m \in Int /\ m - 1 \in 1 .. Len(tape) /\ m - 1 \in Int
      BY <2>3
    <2>5. k < m
      BY <1>1, <2>1, <2>2, <2>4, BellsInOrder
    <2>6. k <= m - 1 /\ m - 1 < m
      BY <2>4, <2>5
    <2>7. Bell(k) <= Bell(m - 1) /\ Bell(m - 1) < Bell(m)
      BY <2>4, <2>6, BellsInOrder
    <2>8. tape[m - 1].end = Bell(m - 1)
      BY <2>4 DEF BreakoutInv, TapeSound
    <2>9. m - 1 \in DOMAIN tape
      BY <2>3, <2>4
    <2> QED
      BY <1>1, <2>1, <2>2, <2>7, <2>8, <2>9
  <1>2. ASSUME NEW s \in accepted
        PROVE  s.known <= s.trigger - BarTicks
    <2>1. PICK k \in 2 .. Len(tape), n \in Nat : s.trigger = Bell(k) /\ s.known = Bell(n) /\ n < k
      BY DEF BreakoutInv, SignalSound
    <2>2. k \in Int /\ n \in Int /\ n < k /\ BarTicks \in Int
      BY <2>1, BreakoutRulesOrdered
    <2>3. Bell(n) + BarTicks <= Bell(k)
      BY <2>2, BellsInOrder
    <2>4. Bell(n) \in Int /\ Bell(k) \in Int
      BY <2>2, BellTyped
    <2> QED
      BY <2>1, <2>2, <2>3, <2>4
  <1>3. BreaksAreNew
    BY <1>1, <1>2 DEF BreaksAreNew
  <1> QED
    BY <1>3 DEF BreakoutInv, SignalsAreNew

\* An interval of integers has as many members as its ends say.
LEMMA IntervalCounts ==
  ASSUME NEW a \in Int, NEW b \in Int, a <= b
  PROVE  IsFiniteSet(a .. b) /\ Cardinality(a .. b) = b - a + 1
  BY FS_Interval

\* The bars in the window of a signal follow its trigger, one after the other.
LEMMA InvariantFollowsTheBars == BreakoutInv => StatusesFollowTheBars
  <1> SUFFICES ASSUME BreakoutInv, NEW s \in accepted
               PROVE  LET status == [i \in DOMAIN tape |-> FailureStatus(s, tape[i], BreakoutTime)]
                          open == {i \in DOMAIN tape : status[i] \in {"ACTIVE", "FAILED"}}
                      IN /\ Cardinality(open) <= BreakoutRules.observationBars
                         /\ \A i, k \in DOMAIN tape :
                              /\ (i < k /\ status[i] = "EXPIRED") => status[k] = "EXPIRED"
                              /\ (i < k /\ i \in open) => status[k] # "NOT_SUBSEQUENT_BAR"
                              /\ (i < k /\ k \in open /\ tape[i].end > s.trigger) => i \in open
    BY DEF StatusesFollowTheBars
  <1> DEFINE status == [i \in DOMAIN tape |-> FailureStatus(s, tape[i], BreakoutTime)]
             open == {i \in DOMAIN tape : status[i] \in {"ACTIVE", "FAILED"}}
             most == BreakoutRules.observationBars
             window == BarTicks * most
             D == 1 .. Len(tape)
  <1>1. tape \in Seq(TapeBar) /\ Len(tape) \in Nat /\ DOMAIN tape = D /\ late \in Nat
    BY BreakoutRulesOrdered DEF BreakoutInv, TapeSound
  <1>2. PICK m \in 2 .. Len(tape) : s.trigger = Bell(m)
    BY DEF BreakoutInv, SignalSound
  <1>3. /\ m \in Int /\ s.expires \in Int /\ s.expires <= Bell(m) + window
        /\ Bell(m) \in Int /\ window \in Int
    <2>1. SignalSound(s) /\ m \in Int
      BY DEF BreakoutInv
    <2>2. Bell(m) \in Int /\ window \in Int
      <3>1. Bell(m) \in Int
        BY <2>1, BellTyped
      <3>2. BarTicks \in Int /\ most \in Int
        BY BreakoutRulesOrdered
      <3> HIDE DEF most
      <3> QED
        BY <3>1, <3>2
    <2>3. s.expires \in Int /\ s.expires <= s.trigger + window
      BY <2>1 DEF SignalSound
    <2> QED
      BY <1>2, <2>1, <2>2, <2>3
  <1>4. \A i \in D : i \in Int /\ tape[i].end = Bell(i) /\ Bell(i) \in Int /\ Ready(tape[i], BreakoutTime)
    <2> TAKE i \in D
    <2>1. i \in Int /\ i <= Len(tape) /\ tape[i] \in TapeBar /\ tape[i].end = Bell(i) /\ tape[i].received = Bell(i)
      BY <1>1 DEF BreakoutInv, TapeSound
    <2>2. BreakoutTime = Bell(Len(tape)) + late /\ Bell(Len(tape)) \in Int /\ Bell(i) \in Int
      BY <1>1, <2>1, BellTyped DEF BreakoutTime, Bell
    <2>3. Bell(i) <= Bell(Len(tape))
      BY <1>1, <2>1, BellsInOrder
    <2>4. Bell(i) <= BreakoutTime
      BY <1>1, <2>2, <2>3
    <2>5. tape[i].clean
      BY <2>1 DEF TapeBar
    <2> QED
      BY <2>1, <2>2, <2>4, <2>5 DEF Ready
  <1>5. \A i \in D :
          /\ status[i] = "NOT_SUBSEQUENT_BAR" <=> i <= m
          /\ status[i] = "EXPIRED" <=> m < i /\ Bell(i) > s.expires
          /\ status[i] \in {"ACTIVE", "FAILED"} <=> m < i /\ Bell(i) <= s.expires
    <2> TAKE i \in D
    <2>1. i <= m <=> Bell(i) <= Bell(m)
      BY <1>3, <1>4, BellsInOrder
    <2>2. status[i] = FailureStatus(s, tape[i], BreakoutTime)
      BY <1>1
    <2>3. status[i] = IF Bell(i) <= Bell(m) THEN "NOT_SUBSEQUENT_BAR"
                      ELSE IF Bell(i) > s.expires THEN "EXPIRED"
                      ELSE IF Sign(s.side) * (tape[i].close - s.out) <= 0 THEN "FAILED" ELSE "ACTIVE"
      BY <1>2, <1>4, <2>2 DEF FailureStatus
    <2> HIDE DEF status
    <2> QED
      BY <1>3, <1>4, <2>1, <2>3
  <1> HIDE DEF status
  <1>6. \A i, k \in D : i < k => Bell(i) < Bell(k)
    BY <1>4, BellsInOrder
  <1>7. Cardinality(open) <= most
    <2>1. most \in Nat \ {0} /\ m + most \in Int /\ m + 1 \in Int
      BY <1>3, BreakoutRulesOrdered
    <2>2. Bell(m + most) = Bell(m) + window
      <3>1. Bell(m + most) = Bell(m) + BarTicks * ((m + most) - m)
        BY <1>3, <2>1, BellsInOrder
      <3>2. (m + most) - m = most
        BY <1>3, <2>1
      <3> QED
        BY <3>1, <3>2
    <2>3. \A i \in D : i \in open => m < i /\ i <= m + most
      <3> SUFFICES ASSUME NEW i \in D, i \in open PROVE m < i /\ i <= m + most
        OBVIOUS
      <3>1. m < i /\ Bell(i) <= s.expires
        BY <1>5
      <3>2. Bell(i) <= Bell(m + most)
        <4> HIDE DEF window, most
        <4> QED
          BY <1>3, <1>4, <2>2, <3>1
      <3> QED
        BY <1>4, <2>1, <3>1, <3>2, BellsInOrder
    <2>4. open \subseteq m + 1 .. m + most
      BY <1>1, <1>3, <1>4, <2>1, <2>3
    <2> HIDE DEF open, most
    <2> DEFINE a == m + 1
               b == m + most
    <2>5. a \in Int /\ b \in Int /\ a <= b /\ b - a + 1 = most
      BY <1>3, <2>1
    <2>6. open \subseteq a .. b
      BY <2>4
    <2> HIDE DEF a, b
    <2>7. IsFiniteSet(a .. b) /\ Cardinality(a .. b) = b - a + 1
      BY <2>5, IntervalCounts
    <2>8. Cardinality(open) <= Cardinality(a .. b)
      BY <2>6, <2>7, FS_Subset
    <2> QED
      BY <2>5, <2>7, <2>8
  <1>8. \A i, k \in D :
          /\ (i < k /\ status[i] = "EXPIRED") => status[k] = "EXPIRED"
          /\ (i < k /\ i \in open) => status[k] # "NOT_SUBSEQUENT_BAR"
          /\ (i < k /\ k \in open /\ tape[i].end > s.trigger) => i \in open
    <2> TAKE i, k \in D
    <2>1. i \in Int /\ k \in Int /\ Bell(i) \in Int /\ Bell(k) \in Int
      BY <1>4
    <2>2. (i < k /\ status[i] = "EXPIRED") => status[k] = "EXPIRED"
      BY <1>3, <1>5, <1>6, <2>1
    <2>3. (i < k /\ i \in open) => status[k] # "NOT_SUBSEQUENT_BAR"
      BY <1>3, <1>5, <2>1
    <2>4. (i < k /\ k \in open /\ tape[i].end > s.trigger) => i \in open
      <3>1. tape[i].end > s.trigger => m < i
        BY <1>2, <1>3, <1>4, <2>1, BellsInOrder, ZenonT(60)
      <3> QED
        BY <1>1, <1>3, <1>5, <1>6, <2>1, <3>1
    <2> QED
      BY <2>2, <2>3, <2>4
  <1> QED
    BY <1>1, <1>7, <1>8 DEF status

\* A trigger bar makes one signal, however often and with whatever features it is
\* evaluated, and signals on one level have a return to its other side between them.
THEOREM BreaksStayNew == BreakoutSpec => []SignalsAreNew
  BY BreakoutStarts, BreakoutSteps, InvariantBreaksAnew, PTL DEF BreakoutSpec

\* observe_failed_breakout reads later bars alike in every order: in the window of the
\* signal active or failed, expired for ever after.
THEOREM ObservationsFollow == BreakoutSpec => []StatusesFollowTheBars
  BY BreakoutStarts, BreakoutSteps, InvariantFollowsTheBars, PTL DEF BreakoutSpec

\* Signals are made in time, with a level known before the trigger bar.
THEOREM SignalsAreTimely == BreakoutSpec => []BreakoutTypeOK
  <1>1. BreakoutInv => BreakoutTypeOK
    <2> SUFFICES ASSUME BreakoutInv PROVE BreakoutTypeOK
      OBVIOUS
    <2>1. \A s \in accepted : s.known < s.trigger /\ s.trigger <= s.at /\ s.at < s.expires /\ s.out > 0
      <3> TAKE s \in accepted
      <3>1. PICK k \in 2 .. Len(tape), n \in Nat : s.trigger = Bell(k) /\ s.known = Bell(n) /\ n < k
        BY DEF BreakoutInv, SignalSound
      <3>2. Bell(n) < Bell(k)
        BY <3>1, BellsInOrder
      <3> QED
        BY <3>1, <3>2 DEF BreakoutInv, SignalSound
    <2> QED
      BY <2>1 DEF BreakoutInv, TapeSound, BreakoutTypeOK
  <1> QED
    BY <1>1, BreakoutStarts, BreakoutSteps, PTL DEF BreakoutSpec

-----------------------------------------------------------------------------
(* Vwap reversion: what is known does not depend on what comes later, and  *)
(* the exits of a signal are apart.                                        *)

\* Bars that have not arrived by an instant are not seen then.
THEOREM LaterBarsAreUnseen == VwapSpec => []ReplayDecidesTheSame
  <1>1. ReplayDecidesTheSame
    <2> SUFFICES ASSUME NEW at PROVE
          \A d, l, mode : ReversionOf(Range(session), d, l, mode, at) = ReversionOf(ReceivedBy(at), d, l, mode, at)
      BY DEF ReplayDecidesTheSame
    <2>1. \A opening : {b \in Range(session) : opening <= b.start /\ b.end <= at /\ b.received <= at}
                       = {b \in ReceivedBy(at) : opening <= b.start /\ b.end <= at /\ b.received <= at}
      BY DEF ReceivedBy
    <2>2. \A opening : KnownBars(Range(session), at, opening) = KnownBars(ReceivedBy(at), at, opening)
      BY <2>1 DEF KnownBars
    <2> QED
      BY <2>2 DEF ReversionOf, FindReversion
  <1> QED
    BY <1>1, PTL

\* The end of the k-th bar.
VwapBell(k) == VwapOpening + VwapBarTicks * k

SessionBar ==
  [token : {1}, start : Int, end : Int, received : Int, open : Int, close : Int, high : Int, low : Int,
   volume : Nat, clean : {TRUE}]

\* The n-th bar.
OnGrid(b, n) == b \in SessionBar /\ b.start = VwapBell(n - 1) /\ b.end = VwapBell(n)

SessionSound ==
  /\ session \in Seq(SessionBar) /\ session # <<>>
  /\ \A i \in 1 .. Len(session) : session[i].start = VwapBell(i - 1) /\ session[i].end = VwapBell(i)

\* How far a price is past a line of a signal.
Past(s, line, price) == SideSign(s.side) * (price * line.by - line.of)

\* No price is both back at the vwap's line and past the adverse one.
ExitsApart(s) == \A price \in Int : ~(Past(s, s.convergence, price) >= 0 /\ Past(s, s.adverse, price) <= 0)

VwapInv ==
  /\ SessionSound /\ elapsed \in 0 .. VwapBarTicks - 1
  /\ \A s \in reversals : s.token = 1 /\ ExitsApart(s)

\* Different bars that have come are listed, each of them.
LEMMA KnownBarsListed ==
  ASSUME NEW bars, IsFiniteSet(bars), bars \subseteq SessionBar,
         \A b, c \in bars : b.start = c.start => b = c, NEW at, NEW opening
  PROVE  KnownBars(bars, at, opening) \in Seq(SessionBar)
  <1> DEFINE known == {b \in bars : opening <= b.start /\ b.end <= at /\ b.received <= at}
             when == [b \in known |-> b.start]
             n == Cardinality(known)
             earlier(b) == {c \in known : c.start < b.start}
  <1>1. IsFiniteSet(known)
    <2>1. known \subseteq bars
      OBVIOUS
    <2> HIDE DEF known
    <2> QED
      BY <2>1, FS_Subset
  <1>2. known \subseteq SessionBar /\ \A b, c \in known : b.start = c.start => b = c
    OBVIOUS
  <1>3. KnownBars(bars, at, opening) = [i \in 1 .. n |-> CHOOSE b \in known : Cardinality(earlier(b)) = i - 1]
    BY DEF KnownBars, Sorted
  <1> HIDE DEF known
  <1>4. when \in [known -> Int] /\ \A b, c \in known : when[b] = when[c] => b = c
    BY <1>2 DEF SessionBar
  <1>5. n \in Nat /\ \A i \in 1 .. n : \E b \in known : Cardinality(Earlier(known, when, b)) = i - 1
    <2> HIDE DEF when
    <2> QED
      BY <1>1, <1>4, PlacesAreTaken
  <1>6. \A b \in known : Earlier(known, when, b) = earlier(b)
    BY DEF Earlier
  <1>7. \A i \in 1 .. n : \E b \in known : Cardinality(earlier(b)) = i - 1
    <2> HIDE DEF when, earlier
    <2> QED
      BY <1>5, <1>6
  <1> HIDE DEF earlier, n
  <1>8. KnownBars(bars, at, opening) \in [1 .. n -> SessionBar]
    BY <1>2, <1>3, <1>7
  <1> QED
    BY <1>5, <1>8

\* Products of integers.
LEMMA ProductsKeepSigns ==
  \A x \in Nat \ {0}, y \in Int : x * y \in Int /\ (y < 0 => x * y < 0) /\ (y >= 0 => x * y >= 0)
                                 /\ (y > 0 => x * y > 0) /\ (y <= 0 => x * y <= 0)
  <1> TAKE x \in Nat \ {0}, y \in Int
  <1>1. x * y \in Int /\ (y = 0 => x * y = 0)
    OBVIOUS
  <1>2. y > 0 => x * y > 0
    OBVIOUS
  <1>3. y < 0 => x * y < 0
    <2>1. y < 0 => x * (-y) > 0
      OBVIOUS
    <2>2. x * (-y) = -(x * y)
      OBVIOUS
    <2> QED
      BY <1>1, <2>1, <2>2
  <1> QED
    BY <1>1, <1>2, <1>3

\* Their order, and a common factor.
LEMMA ProductsAssociate ==
  \A x, y, z \in Int : x * y * z = x * (y * z) /\ x * y \in Int /\ x * z - y * z = z * (x - y)
  OBVIOUS

\* The features of typed bars are integers.
LEMMA FeaturesTyped ==
  ASSUME NEW known \in Seq(SessionBar), Len(known) >= VwapRules.scaleBars + 2
  PROVE  LET f == ReversionFeatures(known)
         IN f.token = 1 /\ {f.price, f.range, f.turnover} \subseteq Int /\ f.volume \in Nat
  <1> DEFINE n == Len(known)
             first == n - VwapRules.scaleBars
             range == [i \in first .. n - 1 |->
                Max({known[i].high - known[i].low, Magnitude(known[i].high - known[i - 1].close),
                     Magnitude(known[i].low - known[i - 1].close)})]
             turnover == [i \in 1 .. n |-> (known[i].high + known[i].low + known[i].close) * known[i].volume]
             volume == [i \in 1 .. n |-> known[i].volume]
  <1>1. n \in Nat /\ VwapRules.scaleBars \in Nat /\ n >= VwapRules.scaleBars + 2 /\ n \in 1 .. n
        /\ first \in Int /\ 2 <= first /\ n - 1 \in Int
    BY VwapRulesOrdered
  <1>2. \A i \in 1 .. n : known[i] \in SessionBar
    OBVIOUS
  <1>3. \A i \in 1 .. n : /\ known[i].high \in Int /\ known[i].low \in Int /\ known[i].close \in Int
                          /\ known[i].volume \in Nat /\ known[i].token = 1
    BY <1>2 DEF SessionBar
  <1>4. \A i \in first .. n - 1 : range[i] \in Int
    <2> TAKE i \in first .. n - 1
    <2>1. i \in 1 .. n /\ i - 1 \in 1 .. n
      BY <1>1
    <2> DEFINE x == known[i].high - known[i].low
               y == Magnitude(known[i].high - known[i - 1].close)
               z == Magnitude(known[i].low - known[i - 1].close)
    <2>2. x \in Int /\ y \in Int /\ z \in Int
      <3>1. \A m \in Int : Magnitude(m) \in Int
        BY DEF Magnitude
      <3>2. /\ x \in Int /\ known[i].high - known[i - 1].close \in Int
            /\ known[i].low - known[i - 1].close \in Int
        BY <1>3, <2>1
      <3> QED
        BY <3>1, <3>2
    <2>3. range[i] = Max({x, y, z})
      OBVIOUS
    <2> HIDE DEF x, y, z, range
    <2>4. \E a \in {x, y, z} : \A b \in {x, y, z} : a >= b
      BY <2>2
    <2>5. Max({x, y, z}) \in {x, y, z}
      BY <2>4 DEF Max
    <2> QED
      BY <2>2, <2>3, <2>5
  <1>5. IsFiniteSet(first .. n - 1) /\ IsFiniteSet(1 .. n)
    <2> HIDE DEF first, n
    <2>1. \A a, b \in Int : IsFiniteSet(a .. b)
      BY FS_Interval
    <2> QED
      BY <1>1, <2>1
  <1>6. ScaleOf(known) = SumFunctionOnSet(range, first .. n - 1)
    BY DEF ScaleOf, SumFunction
  <1>7. SumFunctionOnSet(range, first .. n - 1) \in Int
    <2> HIDE DEF range, first, n
    <2> QED
      BY <1>4, <1>5, SumIsInteger
  <1>8. SumFunction(turnover) \in Int
    <2>1. \A i \in 1 .. n : turnover[i] \in Int
      <3> TAKE i \in 1 .. n
      <3>1. known[i].high + known[i].low + known[i].close \in Int /\ known[i].volume \in Int
        BY <1>3
      <3> QED
        BY <3>1, ProductsAssociate
    <2>2. SumFunction(turnover) = SumFunctionOnSet(turnover, 1 .. n)
      BY DEF SumFunction
    <2> HIDE DEF turnover, n
    <2> QED
      BY <1>5, <2>1, <2>2, SumIsInteger
  <1>9. SumFunction(volume) \in Nat
    <2>1. \A i \in 1 .. n : volume[i] \in Nat
      BY <1>3
    <2>2. SumFunction(volume) = SumFunctionOnSet(volume, 1 .. n)
      BY DEF SumFunction
    <2> HIDE DEF volume, n
    <2> QED
      BY <1>5, <2>1, <2>2, SumIsNatural
  <1>10. LET f == ReversionFeatures(known)
         IN /\ f.token = known[n].token /\ f.price = known[n].close /\ f.range = ScaleOf(known)
            /\ f.turnover = SumFunction(turnover) /\ f.volume = 3 * SumFunction(volume)
    BY DEF ReversionFeatures
  <1> HIDE DEF range, turnover, volume, n
  <1> QED
    BY <1>1, <1>3, <1>6, <1>7, <1>8, <1>9, <1>10

\* What is evaluated into an intent has a volatility, and a stretch in the limits.
LEMMA IntentsAreStretched ==
  ASSUME NEW bars, NEW liquidity, NEW universe, NEW master, NEW decision, NEW calendar, NEW at, NEW mode,
         FindReversion(bars, liquidity, universe, master, decision, calendar, at, mode).intent # Absent
  PROVE  LET known == KnownBars(bars, at, Moment(calendar, at, "open"))
             f == ReversionFeatures(known)
         IN /\ ~(Len(known) < VwapRules.scaleBars + 2) /\ ~(f.range <= 0) /\ StretchInLimits(f)
            /\ FindReversion(bars, liquidity, universe, master, decision, calendar, at, mode).intent
               = ReversionIntent(f, IF Stretched(f) < 0 THEN "LONG" ELSE "SHORT", decision, at,
                                 Moment(calendar, at, "flatten"))
  BY DEF FindReversion

\* The line of the way back is on the vwap's side of the price, the adverse line on the other.
LEMMA LinesAreApart ==
  ASSUME NEW f, {f.price, f.range, f.turnover} \subseteq Int, f.volume \in Nat,
         ~(f.range <= 0), StretchInLimits(f), NEW decision, NEW at, NEW flatten
  PROVE  ExitsApart(ReversionIntent(f, IF Stretched(f) < 0 THEN "LONG" ELSE "SHORT", decision, at, flatten))
  <1> DEFINE side == IF Stretched(f) < 0 THEN "LONG" ELSE "SHORT"
             s == ReversionIntent(f, side, decision, at, flatten)
             V == f.volume
             U == StretchUnit
             W == VwapRules.scaleBars * U
             P == f.price
             away == VwapRules.convergence * Stretched(f)
             risk == VwapRules.adverse * f.range
             sign == SideSign(side)
  <1>1. /\ U \in Nat \ {0} /\ VwapRules.scaleBars \in Nat \ {0}
        /\ {VwapRules.minStretch, VwapRules.maxStretch, VwapRules.adverse, VwapRules.convergence} \subseteq Nat \ {0}
    BY VwapRulesOrdered
  <1>2. Stretched(f) \in Int
    <2>1. f.price * f.volume \in Int
      OBVIOUS
    <2> QED
      BY <2>1 DEF Stretched
  <1>3. f.range \in Nat \ {0}
    OBVIOUS
  <1>4. V \in Nat \ {0}
    <2> SUFFICES ASSUME V = 0 PROVE FALSE
      OBVIOUS
    <2>1. Magnitude(Stretched(f)) \in Nat
      BY <1>2 DEF Magnitude
    <2>2. VwapRules.scaleBars * Magnitude(Stretched(f)) \in Nat
      BY <1>1, <2>1
    <2>3. VwapRules.scaleBars * Magnitude(Stretched(f)) * U \in Nat
      BY <1>1, <2>2
    <2>4. VwapRules.maxStretch * f.volume * f.range = 0
      BY <1>1, <1>3
    <2>5. VwapRules.scaleBars * Magnitude(Stretched(f)) * U < VwapRules.maxStretch * f.volume * f.range
      BY DEF StretchInLimits
    <2> HIDE DEF U
    <2> QED
      BY <2>3, <2>4, <2>5
  <1>5. V * U \in Nat \ {0} /\ W \in Nat \ {0} /\ away \in Int /\ risk \in Nat \ {0} /\ P \in Int
        /\ (side = "LONG" => away < 0) /\ (side = "SHORT" => away >= 0)
    <2>1. \A y, z \in Nat \ {0} : y * z \in Nat \ {0}
      BY ProductsKeepSigns
    <2>2. V * U \in Nat \ {0} /\ W \in Nat \ {0} /\ risk \in Nat \ {0}
      BY <1>1, <1>3, <1>4, <2>1
    <2>3. away \in Int /\ (Stretched(f) < 0 => away < 0) /\ (Stretched(f) >= 0 => away >= 0)
      BY <1>1, <1>2, ProductsKeepSigns
    <2> QED
      BY <1>2, <2>2, <2>3
  <1>6. /\ s.side = side /\ s.convergence.of = P * V * U - away /\ s.convergence.by = V * U
        /\ s.adverse.of = P * VwapRules.scaleBars * U - sign * risk /\ s.adverse.by = W
    <2>1. SideSign(side) \in Int
      BY DEF SideSign
    <2> QED
      BY <1>1, <1>3, <2>1, ProductsAssociate DEF ReversionIntent, ConvergenceOf, AdverseOf
  <1>7. side \in {"LONG", "SHORT"} /\ (side = "LONG" => sign = 1) /\ (side = "SHORT" => sign = -1)
    BY DEF SideSign
  <1> SUFFICES ASSUME NEW price \in Int, Past(s, s.convergence, price) >= 0, Past(s, s.adverse, price) <= 0
               PROVE  FALSE
    BY DEF ExitsApart
  <1>8. Past(s, s.convergence, price) = sign * (price * (V * U) - (P * V * U - away))
        /\ Past(s, s.adverse, price) = sign * (price * W - (P * VwapRules.scaleBars * U - sign * risk))
    BY <1>6 DEF Past
  <1>9. P * V * U = P * (V * U) /\ P * VwapRules.scaleBars * U = P * W
    BY <1>1, <1>4, <1>5, ProductsAssociate
  <1> HIDE DEF s, V, U, W, P, away, risk, sign, side
  <1> DEFINE x == V * U
             gain == price - P
  <1>10. /\ x \in Nat \ {0} /\ gain \in Int /\ x * gain \in Int /\ W * gain \in Int
         /\ price * x - P * x = x * gain /\ price * W - P * W = W * gain
    BY <1>5, ProductsAssociate
  <1>11. (gain > 0 => x * gain > 0 /\ W * gain > 0) /\ (gain <= 0 => x * gain <= 0 /\ W * gain <= 0)
    BY <1>5, <1>10, ProductsKeepSigns
  <1>12. Past(s, s.convergence, price) = sign * (x * gain + away) /\ Past(s, s.adverse, price) = sign * (W * gain + sign * risk)
    BY <1>5, <1>7, <1>8, <1>9, <1>10
  <1>13. x * gain \in Int /\ W * gain \in Int /\ away \in Int /\ risk \in Nat \ {0}
    BY <1>5, <1>10
  <1> DEFINE forth == x * gain
             back == W * gain
  <1> HIDE DEF forth, back
  <1>14. CASE side = "LONG"
    <2>1. forth + away >= 0 /\ back + risk <= 0 /\ away < 0
      BY <1>5, <1>7, <1>12, <1>13, <1>14 DEF forth, back
    <2> QED
      BY <1>10, <1>11, <1>13, <2>1 DEF forth, back
  <1>15. CASE side = "SHORT"
    <2>1. forth + away <= 0 /\ back - risk >= 0 /\ away >= 0
      <3>1. (-1) * (forth + away) >= 0 /\ (-1) * (back + (-1) * risk) <= 0
        <4>1. sign = -1
          BY <1>7, <1>15
        <4>2. Past(s, s.convergence, price) = (-1) * (forth + away)
              /\ Past(s, s.adverse, price) = (-1) * (back + (-1) * risk)
          <5>1. Past(s, s.convergence, price) = sign * (forth + away)
                /\ Past(s, s.adverse, price) = sign * (back + sign * risk)
            BY <1>12 DEF forth, back
          <5> QED
            BY <4>1, <5>1
        <4> QED
          BY <4>2
      <3> QED
        BY <1>5, <1>13, <1>15, <3>1 DEF forth, back
    <2> QED
      BY <1>10, <1>11, <1>13, <2>1 DEF forth, back
  <1> QED
    BY <1>7, <1>14, <1>15

\* The opening is an instant, and bars are a bar apart.
LEMMA VwapBellsTyped ==
  /\ VwapOpening \in Int /\ \A k \in Int : VwapBell(k) \in Int
  /\ \A i, k \in Int : (i <= k <=> VwapBell(i) <= VwapBell(k)) /\ (i < k <=> VwapBell(i) < VwapBell(k))
  <1>1. DayTicks \in Nat \ {0} /\ VwapBarTicks \in Nat \ {0} /\ VwapMaster.asOf * DayTicks \in Int
    BY DaysHaveTicks, VwapInputsTyped
  <1>2. Day(VwapMaster.asOf * DayTicks) \in Int
    BY <1>1 DEF Day
  <1>3. Day(VwapMaster.asOf * DayTicks) * DayTicks \in Int
    BY <1>1, <1>2
  <1>4. SessionOn(VwapCalendar, Day(VwapMaster.asOf * DayTicks))["open"] \in Int
    BY <1>2, VwapInputsTyped, DaysHaveTicks DEF SessionsOrdered, SessionKnown, Covered
  <1>5. VwapOpening \in Int
    BY <1>3, <1>4 DEF VwapOpening, Moment
  <1>6. \A k \in Int : VwapBell(k) \in Int
    BY <1>1, <1>5 DEF VwapBell
  <1>7. ASSUME NEW i \in Int, NEW k \in Int
        PROVE  (i <= k <=> VwapBell(i) <= VwapBell(k)) /\ (i < k <=> VwapBell(i) < VwapBell(k))
    <2>1. /\ i <= k <=> VwapOpening + VwapBarTicks * i <= VwapOpening + VwapBarTicks * k
          /\ i < k <=> VwapOpening + VwapBarTicks * i < VwapOpening + VwapBarTicks * k
      BY <1>1, <1>5, GridInOrder
    <2> QED
      BY <2>1 DEF VwapBell
  <1> QED
    BY <1>5, <1>6, <1>7

\* A new bar of the session is as typed, and ends a bar after the one before.
LEMMA VwapBarTyped ==
  ASSUME NEW n \in Int, NEW open \in Int, NEW close \in Int, NEW delay \in Nat,
         NEW b, b = VwapBar(n, open, close, delay)
  PROVE  OnGrid(b, n)
  <1>1. VwapBell(n) \in Int /\ VwapBell(n) - VwapBarTicks \in Int /\ VwapBell(n) + delay \in Int
    <2>1. VwapBell(n) \in Int
      BY VwapBellsTyped
    <2>2. VwapBarTicks \in Int
      BY VwapInputsTyped
    <2> QED
      BY <2>1, <2>2
  <1>2. Max({open, close}) \in Int /\ Min({open, close}) \in Int
    <2>1. Max({open, close}) \in {open, close}
      BY MaxOfTwo
    <2>2. Min({open, close}) \in {open, close}
      BY MinOfTwo
    <2> QED
      BY <2>1, <2>2
  <1>3. Max({open, close}) + 1 \in Int /\ Min({open, close}) - 1 \in Int
    BY <1>2
  <1>4. VwapBell(n) - VwapBarTicks = VwapBell(n - 1)
    <2>1. VwapBarTicks \in Int /\ VwapOpening \in Int
      BY VwapInputsTyped, VwapBellsTyped
    <2>2. VwapOpening + VwapBarTicks * n = VwapOpening + VwapBarTicks * (n - 1) + VwapBarTicks
      BY <2>1
    <2> QED
      BY <2>1, <2>2 DEF VwapBell
  <1> QED
    BY <1>1, <1>3, <1>4 DEF VwapBar, VwapBell, SessionBar, OnGrid

\* Of the invariant: every bar has closed, on the grid, and no two start together.
LEMMA SessionBarsKnown ==
  ASSUME VwapInv
  PROVE  /\ Len(session) \in Nat \ {0} /\ IsFiniteSet(Range(session)) /\ Range(session) \subseteq SessionBar
         /\ VwapTime \in Int
         /\ \A b \in Range(session) : b.end <= VwapTime
         /\ \A b, c \in Range(session) : b.start = c.start => b = c
  <1> DEFINE n == Len(session)
  <1>1. session \in Seq(SessionBar) /\ session # <<>> /\ n \in Nat /\ DOMAIN session = 1 .. n /\ n # 0
    BY DEF VwapInv, SessionSound
  <1>2. Range(session) = {session[i] : i \in 1 .. n}
    BY <1>1 DEF Range
  <1>3. IsFiniteSet(Range(session))
    <2>1. IsFiniteSet(1 .. n)
      BY <1>1, FS_Interval
    <2>2. session \in [1 .. n -> Range(session)]
      BY <1>1, <1>2
    <2> HIDE DEF n
    <2> QED
      BY <1>2, <2>1, <2>2, FiniteImage
  <1>4. VwapBell(n) \in Int /\ VwapTime = VwapBell(n) + elapsed /\ elapsed \in Nat
    <2>1. VwapTime = VwapBell(n) + elapsed
      BY DEF VwapTime, VwapBell
    <2>2. elapsed \in Nat
      BY DEF VwapInv
    <2>3. VwapBell(n) \in Int
      BY <1>1, VwapBellsTyped
    <2> QED
      BY <2>1, <2>2, <2>3
  <1>5. \A i \in 1 .. n : session[i].end = VwapBell(i) /\ session[i].start = VwapBell(i - 1)
    BY DEF VwapInv, SessionSound
  <1>6. \A i \in 1 .. n : VwapBell(i) \in Int /\ VwapBell(i) <= VwapBell(n)
    BY <1>1, VwapBellsTyped
  <1>7. \A i, k \in 1 .. n : VwapBell(i - 1) = VwapBell(k - 1) => i = k
    <2> TAKE i, k \in 1 .. n
    <2>1. i - 1 \in Int /\ k - 1 \in Int /\ i \in Int /\ k \in Int
      BY <1>1
    <2>2. VwapBell(i - 1) \in Int /\ VwapBell(k - 1) \in Int
          /\ (i - 1 < k - 1 <=> VwapBell(i - 1) < VwapBell(k - 1))
          /\ (k - 1 < i - 1 <=> VwapBell(k - 1) < VwapBell(i - 1))
      BY <2>1, VwapBellsTyped
    <2> QED
      BY <2>1, <2>2
  <1> HIDE DEF n
  <1>8. \A b \in Range(session) : b.end <= VwapTime
    BY <1>2, <1>4, <1>5, <1>6
  <1>9. \A b, c \in Range(session) : b.start = c.start => b = c
    BY <1>2, <1>5, <1>7
  <1> QED
    BY <1>1, <1>2, <1>3, <1>4, <1>8, <1>9 DEF n

\* An evaluation's signal is of the session's token, with exits that are apart.
LEMMA EvaluationsAreApart ==
  ASSUME VwapInv, NEW d, NEW l, NEW mode,
         ReversionOf(ReceivedBy(VwapTime), d, l, mode, VwapTime).intent # Absent
  PROVE  LET s == ReversionOf(ReceivedBy(VwapTime), d, l, mode, VwapTime).intent
         IN s.token = 1 /\ ExitsApart(s)
  <1> DEFINE liquidity == LiquidityAt(l, VwapTime)
             decision == DecisionAt(d, VwapTime)
             bars == ReceivedBy(VwapTime)
             known == KnownBars(bars, VwapTime, Moment(VwapCalendar, VwapTime, "open"))
             f == ReversionFeatures(known)
             side == IF Stretched(f) < 0 THEN "LONG" ELSE "SHORT"
             flatten == Moment(VwapCalendar, VwapTime, "flatten")
             s == ReversionOf(bars, d, l, mode, VwapTime).intent
  <1>1. /\ ~(Len(known) < VwapRules.scaleBars + 2) /\ ~(f.range <= 0) /\ StretchInLimits(f)
        /\ s = ReversionIntent(f, side, decision, VwapTime, flatten)
    <2>1. s = FindReversion(bars, liquidity, VwapUniverse, VwapMaster, decision, VwapCalendar, VwapTime, mode).intent
      BY DEF ReversionOf
    <2> HIDE DEF liquidity, decision, bars
    <2> QED
      BY <2>1, IntentsAreStretched DEF bars
  <1>2. bars \subseteq Range(session)
    BY DEF ReceivedBy
  <1> HIDE DEF bars
  <1>3. /\ IsFiniteSet(bars) /\ bars \subseteq SessionBar
        /\ \A b, c \in bars : b.start = c.start => b = c
    BY <1>2, SessionBarsKnown, FS_Subset
  <1>4. known \in Seq(SessionBar)
    BY <1>3, KnownBarsListed
  <1> HIDE DEF known
  <1>5. Len(known) >= VwapRules.scaleBars + 2
    BY <1>1, <1>4, VwapRulesOrdered
  <1>6. f.token = 1 /\ {f.price, f.range, f.turnover} \subseteq Int /\ f.volume \in Nat
    BY <1>4, <1>5, FeaturesTyped
  <1> HIDE DEF f, decision, flatten
  <1>7. ExitsApart(ReversionIntent(f, side, decision, VwapTime, flatten))
    BY <1>1, <1>6, LinesAreApart
  <1>8. ReversionIntent(f, side, decision, VwapTime, flatten).token = f.token
    BY DEF ReversionIntent
  <1> HIDE DEF s
  <1>9. s.token = 1 /\ ExitsApart(s)
    BY <1>1, <1>6, <1>7, <1>8
  <1> QED
    BY <1>9 DEF s, bars

\* The first bars are sound.
LEMMA VwapStarts == VwapInit => VwapInv
  <1> SUFFICES ASSUME VwapInit PROVE VwapInv
    OBVIOUS
  <1> DEFINE n == Len(VwapPrefix)
  <1>1. n \in Nat \ {0} /\ DOMAIN VwapPrefix = 1 .. n /\ \A i \in 1 .. n : VwapPrefix[i] \in Nat
    BY VwapInputsTyped
  <1>2. /\ session = [i \in 1 .. n |-> VwapBar(i, VwapPrefix[Max({1, i - 1})], VwapPrefix[i], 0)]
        /\ elapsed = 0 /\ reversals = {}
    BY <1>1 DEF VwapInit
  <1>3. ASSUME NEW i \in 1 .. n
        PROVE  /\ session[i] \in SessionBar /\ session[i].start = VwapBell(i - 1)
               /\ session[i].end = VwapBell(i)
    <2>1. Max({1, i - 1}) \in 1 .. n
      <3>1. Max({1, i - 1}) \in {1, i - 1} /\ 1 <= Max({1, i - 1})
        <4> DEFINE j == i - 1
        <4>1. j \in Int /\ 1 \in Int
          BY <1>1
        <4> HIDE DEF j
        <4>2. Max({1, j}) \in {1, j} /\ 1 <= Max({1, j})
          BY <4>1, MaxOfTwo
        <4> QED
          BY <4>2 DEF j
      <3> QED
        BY <1>1, <3>1
    <2>2. VwapPrefix[Max({1, i - 1})] \in Int /\ VwapPrefix[i] \in Int /\ i \in Int
      BY <1>1, <2>1
    <2> DEFINE before == VwapPrefix[Max({1, i - 1})]
    <2>3. session[i] = VwapBar(i, before, VwapPrefix[i], 0)
      BY <1>2
    <2>4. before \in Int /\ VwapPrefix[i] \in Int /\ i \in Int /\ 0 \in Nat
      BY <2>2
    <2> HIDE DEF n, before
    <2>5. OnGrid(session[i], i)
      BY <2>3, <2>4, VwapBarTyped
    <2> QED
      BY <2>5 DEF OnGrid
  <1> HIDE DEF n
  <1>4. session \in [1 .. n -> SessionBar]
    BY <1>2, <1>3
  <1>5. session \in Seq(SessionBar) /\ Len(session) = n
    BY <1>1, <1>4
  <1>6. SessionSound
    BY <1>1, <1>3, <1>5 DEF SessionSound
  <1> QED
    BY <1>2, <1>6, VwapInputsTyped DEF VwapInv

\* The next bar keeps the invariant.
LEMMA NextBarKeeps ==
  ASSUME VwapInv, NEW close \in VwapClose, NEW delay \in Delay, NextVwapBar(close, delay)
  PROVE  VwapInv'
  <1> DEFINE n == Len(session)
             b == VwapBar(n + 1, session[n].close, close, delay)
  <1>1. /\ session \in Seq(SessionBar) /\ n \in Nat \ {0} /\ session' = Append(session, b)
        /\ elapsed' = 0 /\ reversals' = reversals
    BY SessionBarsKnown DEF NextVwapBar, VwapInv, SessionSound
  <1>2. session[n].close \in Int /\ close \in Int /\ delay \in Nat
    <2>1. session[n] \in SessionBar
      BY <1>1
    <2>2. close \in Int /\ delay \in Nat
      BY VwapInputsTyped
    <2>3. session[n].close \in Int
      BY <2>1 DEF SessionBar
    <2> QED
      BY <2>2, <2>3
  <1>3. b \in SessionBar /\ b.start = VwapBell(n) /\ b.end = VwapBell(n + 1)
    <2> DEFINE m == n + 1
               before == session[n].close
    <2>1. m - 1 = n /\ m \in Int /\ before \in Int
      BY <1>1, <1>2
    <2>2. b = VwapBar(m, before, close, delay)
      OBVIOUS
    <2> HIDE DEF b, n, m, before
    <2>3. OnGrid(b, m)
      BY <1>2, <2>1, <2>2, VwapBarTyped
    <2> QED
      BY <2>1, <2>3 DEF OnGrid, m
  <1> HIDE DEF b
  <1>4. session' \in Seq(SessionBar) /\ Len(session') = n + 1 /\ session' # <<>>
        /\ \A i \in 1 .. n + 1 : session'[i] = IF i = n + 1 THEN b ELSE session[i]
    BY <1>1, <1>3
  <1>5. \A i \in 1 .. n : session[i].start = VwapBell(i - 1) /\ session[i].end = VwapBell(i)
    BY DEF VwapInv, SessionSound
  <1>6. \A i \in 1 .. n + 1 : session'[i].start = VwapBell(i - 1) /\ session'[i].end = VwapBell(i)
    <2> HIDE DEF n
    <2> QED
      BY <1>1, <1>3, <1>4, <1>5
  <1>7. SessionSound'
    BY <1>4, <1>6 DEF SessionSound, VwapBell, VwapOpening
  <1> QED
    BY <1>1, <1>7, VwapInputsTyped DEF VwapInv

\* Every step keeps the invariant.
LEMMA VwapSteps == VwapInv /\ [VwapNext]_vwapVars => VwapInv'
  <1> SUFFICES ASSUME VwapInv, [VwapNext]_vwapVars PROVE VwapInv'
    OBVIOUS
  <1>1. ASSUME NEW close \in VwapClose, NEW delay \in Delay, NextVwapBar(close, delay) PROVE VwapInv'
    BY <1>1, NextBarKeeps
  <1>2. CASE Elapse
    <2>1. session' = session /\ reversals' = reversals /\ elapsed' \in 0 .. VwapBarTicks - 1
      BY <1>2, VwapInputsTyped DEF Elapse, VwapInv
    <2> QED
      BY <2>1 DEF VwapInv, SessionSound
  <1>3. ASSUME NEW d \in VwapRouting, NEW l \in Liquidity, NEW mode \in Modes, EvaluateReversion(d, l, mode)
        PROVE  VwapInv'
    <2> DEFINE made == {ReversionOf(ReceivedBy(VwapTime), d, l, mode, VwapTime).intent} \ {Absent}
    <2>1. session' = session /\ elapsed' = elapsed /\ reversals' \subseteq reversals \cup made
      BY <1>3 DEF EvaluateReversion
    <2>2. \A s \in made : s.token = 1 /\ ExitsApart(s)
      BY EvaluationsAreApart
    <2> HIDE DEF made
    <2>3. \A s \in reversals' : s.token = 1 /\ ExitsApart(s)
      BY <2>1, <2>2 DEF VwapInv
    <2> QED
      BY <2>1, <2>3 DEF VwapInv, SessionSound
  <1>4. CASE UNCHANGED vwapVars
    BY <1>4 DEF vwapVars, VwapInv, SessionSound
  <1> QED
    BY <1>1, <1>2, <1>3, <1>4 DEF VwapNext

\* What arrives within the lag can be observed, and the price exits are apart.
LEMMA InvariantFollowsTheTape ==
  ASSUME VwapInv, VwapRules.lag \in Int, VwapRules.lag < VwapBarTicks
  PROVE  ExitsFollowTheTape
  <1> SUFFICES ASSUME NEW s \in reversals, NEW d \in VwapRouting, NEW b \in Range(session)
               PROVE  LET exits == ExitReasons(s, b, DecisionAt(d, VwapTime), VwapTime)
                          observed == "EXIT_INPUT_UNAVAILABLE" \notin exits
                      IN /\ observed => /\ VwapTime - b.end < VwapBarTicks
                                        /\ ~{"VWAP_CONVERGENCE", "ADVERSE_CONTINUATION"} \subseteq exits
                                        /\ VwapTime >= s.stop => exits # {}
                         /\ (b.end > s.bar /\ b.received <= VwapTime /\ VwapTime - b.end <= VwapRules.lag) => observed
    BY DEF ExitsFollowTheTape
  <1> DEFINE decision == DecisionAt(d, VwapTime)
             exits == ExitReasons(s, b, decision, VwapTime)
  <1>1. /\ b \in SessionBar /\ b.end <= VwapTime /\ VwapTime \in Int /\ VwapBarTicks \in Int
        /\ s.token = 1 /\ ExitsApart(s)
    BY SessionBarsKnown, VwapInputsTyped DEF VwapInv
  <1>2. b.token = s.token /\ b.clean /\ b.end \in Int /\ b.close \in Int
    BY <1>1 DEF SessionBar
  <1>3. decision.at = VwapTime
    BY VwapInputsTyped DEF DecisionAt
  <1> HIDE DEF decision
  <1>4. "EXIT_INPUT_UNAVAILABLE" \notin exits <=> Observable(s, b, decision, VwapTime)
    BY DEF ExitReasons
  <1>5. Observable(s, b, decision, VwapTime) =>
          /\ "VWAP_CONVERGENCE" \in exits => Past(s, s.convergence, b.close) >= 0
          /\ "ADVERSE_CONTINUATION" \in exits => Past(s, s.adverse, b.close) <= 0
          /\ VwapTime >= s.stop => "TIME_STOP" \in exits
    BY DEF ExitReasons, Past
  <1> HIDE DEF exits
  <1>6. ~(Past(s, s.convergence, b.close) >= 0 /\ Past(s, s.adverse, b.close) <= 0)
    BY <1>1, <1>2 DEF ExitsApart
  <1>7. Observable(s, b, decision, VwapTime) => VwapTime - b.end < VwapBarTicks
    <2>1. Observable(s, b, decision, VwapTime) => VwapTime - b.end <= VwapRules.lag
      BY DEF Observable
    <2> QED
      BY <1>1, <1>2, <2>1
  <1>8. (b.end > s.bar /\ b.received <= VwapTime /\ VwapTime - b.end <= VwapRules.lag)
          => Observable(s, b, decision, VwapTime)
    BY <1>1, <1>2, <1>3 DEF Observable, Ready
  <1> QED
    BY <1>4, <1>5, <1>6, <1>7, <1>8 DEF exits, decision

\* A signal's bars are observed when they arrive, never when the next is due, and a price
\* is not both back at the vwap and past the adverse line.  The lag of the settings has
\* no upper bound in the code: it is assumed to be less than a bar, as it is by default.
THEOREM ExitsFollow ==
  ASSUME VwapRules.lag \in Int, VwapRules.lag < VwapBarTicks
  PROVE  VwapSpec => []ExitsFollowTheTape
  <1>1. VwapInv => ExitsFollowTheTape
    BY InvariantFollowsTheTape
  <1> QED
    BY <1>1, VwapStarts, VwapSteps, PTL DEF VwapSpec
=============================================================================
