----------------------------- MODULE AlphaHealth -----------------------------
(***************************************************************************)
(* measure_health: the multiplier an alpha earns from its closed trades.   *)
(* The function is pure, but each snapshot takes the one before it as its  *)
(* predecessor, and what has to hold (slow increases, each paid for with   *)
(* new trades, immediate cuts) holds along the chain of snapshots.         *)
(*                                                                         *)
(* Trades are reported late, repeatedly, in any selection and with ids     *)
(* that conflict: the caller chooses the outcomes of every call.  Returns  *)
(* and multipliers are integers in units of their own.                     *)
(***************************************************************************)
EXTENDS Integers, FiniteSets, SequencesExt

CONSTANTS
  Trade,          \* outcomes of one alpha: [id, closed, received, return]
  WindowTrades, MinimumTrades, MinimumMultiplier, InitialMultiplier,
  MaximumMultiplier, MaxIncrease, IncreaseInterval, MaxDrawdown,
  None,           \* no predecessor, no trade
  MaxTime         \* bound on the clock

ASSUME SettingsAreBounded ==
  /\ {WindowTrades, MinimumTrades, MaxIncrease, IncreaseInterval, MaxDrawdown} \subseteq Nat \ {0}
  /\ MinimumTrades <= WindowTrades
  /\ {MinimumMultiplier, InitialMultiplier, MaximumMultiplier} \subseteq Nat
  /\ MinimumMultiplier <= InitialMultiplier /\ InitialMultiplier <= MaximumMultiplier
ASSUME TradesAreOrdered ==
  /\ IsFiniteSet(Trade)
  /\ \A t \in Trade : t.id \in Nat /\ t.closed \in Nat /\ t.received \in Nat /\ t.closed <= t.received
ASSUME BoundIsNatural == MaxTime \in Nat
ASSUME NoneIsNoTime == None \notin Nat

Time == 1 .. MaxTime

VARIABLES
  snapshot,  \* the last AlphaHealthSnapshot, None at first
  start,     \* history: timestamp of the first snapshot of the chain
  raises,    \* history: increases along the chain
  credited,  \* history: close times of the newest trades of the chain's snapshots
  sinceCut   \* history: increases since the chain last deteriorated

vars == <<snapshot, start, raises, credited, sinceCut>>

Snapshot ==
  [timestamp : Time, trades : 0 .. WindowTrades,
   multiplier : MinimumMultiplier .. MaximumMultiplier,
   lastIncrease : Time, lastTrade : Nat \cup {None}]

-----------------------------------------------------------------------------
(* The rolling window and its measures. *)

Visible(outcomes, at) == {t \in outcomes : t.received <= at /\ t.closed <= at}

Conflicting(trades) == \E t, u \in trades : t.id = u.id /\ t # u

\* The newest WindowTrades of them, by close time and then by id.
Window(trades) ==
  LET before(t, u) == t.closed < u.closed \/ (t.closed = u.closed /\ t.id < u.id)
      n == Cardinality(trades)
      sorted == [i \in 1 .. n |->
                   CHOOSE t \in trades : Cardinality({u \in trades : before(u, t)}) = i - 1]
  IN SubSeq(sorted, IF n > WindowTrades THEN n - WindowTrades + 1 ELSE 1, n)

\* The additive curve of returns after the first n trades of a window.
Curve(window, n) ==
  LET sum[i \in 0 .. Len(window)] == IF i = 0 THEN 0 ELSE sum[i - 1] + window[i].return
  IN sum[n]

\* The deepest fall from a peak; the curve starts at 0.
DrawdownAtLeast(window, limit) ==
  \E i, j \in 0 .. Len(window) : i <= j /\ Curve(window, i) - Curve(window, j) >= limit

\* When the last trade of the window was closed, which is the newest of all.
LastTrade(trades) == IF trades = {} THEN None ELSE Max({t.closed : t \in trades})

\* Nonpositive expectancy or too deep a drawdown.
Deteriorated(window) ==
  /\ window # <<>>
  /\ Curve(window, Len(window)) <= 0 \/ DrawdownAtLeast(window, MaxDrawdown)

NewlyClosed(previous, trades) ==
  /\ trades # {}
  /\ previous.lastTrade # None => LastTrade(trades) > previous.lastTrade

-----------------------------------------------------------------------------
(* measure_health. *)

\* The predecessor is older, and the newest trade it knew is still there.
ValidHistory(previous, trades, at) ==
  previous # None =>
    /\ previous.timestamp < at
    /\ previous.lastTrade # None => trades # {} /\ LastTrade(trades) >= previous.lastTrade

Lesser(x, y) == IF x < y THEN x ELSE y

\* Before any verdict; a short window never keeps more than the initial value.
Carried(previous, window) ==
  LET value == IF previous = None THEN InitialMultiplier ELSE previous.multiplier
  IN IF Len(window) < MinimumTrades THEN Lesser(value, InitialMultiplier) ELSE value

\* mutant: any later measurement may increase
IntervalPassed_AnyCall(previous, at) == at > previous.timestamp

IntervalPassed(previous, at) == at - previous.lastIncrease >= IncreaseInterval

Earned(previous, trades, at) ==
  /\ previous # None
  /\ ~Deteriorated(Window(trades))
  /\ Len(Window(trades)) >= MinimumTrades
  /\ NewlyClosed(previous, trades)
  /\ IntervalPassed(previous, at)

Raised(previous, window) ==
  Lesser(MaximumMultiplier, Carried(previous, window) + MaxIncrease)

Verdict(previous, window, earned) ==
  CASE Deteriorated(window) -> MinimumMultiplier
    [] earned               -> Raised(previous, window)
    [] OTHER                -> Carried(previous, window)

Init ==
  /\ snapshot = None
  /\ start = None
  /\ raises = 0
  /\ credited = {}
  /\ sinceCut = None

\* previous is the last snapshot, or None when the caller starts a chain anew.
MeasureHealth(outcomes, at, previous) ==
  LET trades == Visible(outcomes, at)
      window == Window(trades)
      earned == Earned(previous, trades, at)
  IN /\ ~Conflicting(trades)
     /\ ValidHistory(previous, trades, at)
     /\ snapshot' =
          [timestamp    |-> at,
           trades       |-> Len(window),
           multiplier   |-> Verdict(previous, window, earned),
           lastIncrease |-> IF previous = None \/ earned THEN at ELSE previous.lastIncrease,
           lastTrade    |-> LastTrade(trades)]
     /\ start' = IF previous = None THEN at ELSE start
     /\ raises' = IF previous = None THEN 0 ELSE IF earned THEN raises + 1 ELSE raises
     /\ credited' = (IF previous = None THEN {} ELSE credited) \cup ({LastTrade(trades)} \ {None})
     /\ sinceCut' = IF Deteriorated(window) THEN 0
                    ELSE IF previous = None \/ sinceCut = None THEN None
                    ELSE IF earned THEN sinceCut + 1 ELSE sinceCut

\* It raises, and the caller has no new snapshot.
MeasureRefused(outcomes, at, previous) ==
  /\ \/ Conflicting(Visible(outcomes, at))
     \/ ~ValidHistory(previous, Visible(outcomes, at), at)
  /\ UNCHANGED vars

Next ==
  \E outcomes \in SUBSET Trade, at \in Time, previous \in {None, snapshot} :
    MeasureHealth(outcomes, at, previous) \/ MeasureRefused(outcomes, at, previous)

Spec == Init /\ [][Next]_vars

-----------------------------------------------------------------------------
(* Properties. *)

\* Types: the bounds of AlphaHealthMultiplier and AlphaHealthSnapshot.coherent,
\* without which the snapshot cannot be built.
TypeOK ==
  /\ snapshot \in Snapshot \cup {None}
  /\ snapshot # None =>
       /\ snapshot.lastIncrease <= snapshot.timestamp
       /\ snapshot.lastTrade # None => snapshot.lastTrade <= snapshot.timestamp
  /\ start \in Time \cup {None}
  /\ raises \in Nat
  /\ credited \subseteq Nat
  /\ sinceCut \in Nat \cup {None}

\* Along a chain the multiplier climbs at most MaxIncrease per interval, however
\* often it is measured and whatever cuts come in between.
ClimbIsSlow ==
  snapshot # None =>
    snapshot.multiplier <=
      InitialMultiplier + MaxIncrease * ((snapshot.timestamp - start) \div IncreaseInterval)

\* phase-12-allocation.md: reusing outcomes cannot repeatedly increase it.  Every
\* increase of a chain was paid for by a close time of its own.
EachRaiseHasItsTrade == raises <= Cardinality(credited)

\* A cut to the minimum is won back step by step: no late report, reselection of
\* outcomes or warm-up brings back what the multiplier was before the loss.
CutsAreEarnedBack ==
  sinceCut # None => snapshot.multiplier <= MinimumMultiplier + MaxIncrease * sinceCut

\* A multiplier is earned: slowly, trade by trade, and again after a cut.
MultiplierIsEarned == ClimbIsSlow /\ EachRaiseHasItsTrade /\ CutsAreEarnedBack
=============================================================================
