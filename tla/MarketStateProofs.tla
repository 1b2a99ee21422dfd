-------------------------- MODULE MarketStateProofs --------------------------
(***************************************************************************)
(* Theorems about MarketStateRouter for every setting, calendar and bound  *)
(* of the clock.  The router's own counter is not trusted: the invariant   *)
(* relates it to the feature timestamps it stands for.                     *)
(***************************************************************************)
EXTENDS MarketStateRouter, FiniteSetTheorems, TLAPS

-----------------------------------------------------------------------------
(* Types. *)

\* Times are natural numbers, and None is none.
LEMMA Vocabulary ==
  /\ None \notin Nat /\ None \notin Time /\ Time \subseteq Nat
  /\ \A at : Opening(at) \in Nat \cup {None}
BY NoneIsNoTime, CalendarIsValid, MaxTimeIsNatural DEF Time, Opening

\* Every reading is classified as a market state.
LEMMA ClassifyTyped ==
  \A reading \in Reading : \A elapsed : Classify(reading, elapsed) \in MarketState
BY DEF Reading, Classify, MarketState

\* What a market state permits: families, sides and a multiplier.
LEMMA PermissionsTyped ==
  ASSUME NEW s \in MarketState
  PROVE  /\ Families(s) \in SUBSET AlphaFamily /\ Sides(s) \in SUBSET Side
         /\ Multiplier(s) \in Nat
BY SettingsAreValid DEF MarketState, AlphaFamily, Directional, Side, Families, Sides, Multiplier

\* A snapshot proposes a market state.
LEMMA CandidateTyped ==
  ASSUME NEW snapshot \in Snapshot, NEW health, NEW at
  PROVE  Candidate(snapshot, health, at) \in MarketState
BY ClassifyTyped DEF Snapshot, Candidate, MarketState

\* What a call decides is a decision.
LEMMA DecideTyped ==
  ASSUME NEW at \in Time, NEW state \in MarketState, NEW since \in Time,
         NEW candidate \in MarketState
  PROVE  Decide(at, state, since, candidate) \in Decision
<1>1. /\ Families(state) \in SUBSET AlphaFamily /\ Sides(state) \in SUBSET Side
      /\ Multiplier(state) \in Nat /\ Multiplier(candidate) \in Nat
  BY PermissionsTyped
<1>2. GrantedFamilies(state, candidate) \in SUBSET AlphaFamily
  BY <1>1 DEF GrantedFamilies
<1>3. GrantedMultiplier(state, candidate) \in Nat
  BY <1>1 DEF GrantedMultiplier
<1>4. Sides(state) \cap Sides(candidate) \in SUBSET Side
  BY <1>1
<1>5. Opening(at) \in Nat \cup {None}
  BY Vocabulary
<1> QED BY <1>2, <1>3, <1>4, <1>5 DEF Decide, Decision

\* None is not a decision.
LEMMA DecisionIsSomething == last \in Decision \cup {None} /\ last # None => last \in Decision
OBVIOUS

\* Every call keeps the types.
LEMMA TypeNext == TypeOK /\ [Next]_vars => TypeOK'
<1> SUFFICES ASSUME TypeOK, [Next]_vars
             PROVE  TypeOK'
  OBVIOUS
<1>1. ASSUME NEW at \in Time, NEW snapshot \in Snapshot, NEW health \in RoutingHealth,
             Route(snapshot, health, at)
      PROVE  TypeOK'
  <2> DEFINE candidate == Candidate(snapshot, health, at)
             n == Count(snapshot, candidate, at)
             moves == Moves(candidate, n, at)
             state == IF moves THEN candidate ELSE StartState(at)
             since == IF moves THEN at ELSE StartSince(at)
  <2>1. candidate \in MarketState
    BY CandidateTyped
  <2>2. n \in Nat
    BY DEF Count, TypeOK
  <2>3. at \in Nat /\ snapshot.timestamp \in Time
    BY Vocabulary DEF Snapshot
  <2>4. StartState(at) \in MarketState /\ StartSince(at) \in Time /\ StartSince(at) <= at
    <3>1. CASE NewSession(at)
      BY <2>3, <3>1 DEF StartState, StartSince, MarketState
    <3>2. CASE ~NewSession(at)
      <4>1. last \in Decision /\ last.since <= last.timestamp /\ at > last.timestamp
        BY <1>1, <3>2 DEF NewSession, TypeOK, Route, Later
      <4>2. last.since \in Time /\ last.timestamp \in Time /\ last.state \in MarketState
        BY <4>1 DEF Decision
      <4>3. last.since \in Nat /\ last.timestamp \in Nat
        BY <4>2, Vocabulary
      <4>4. last.since <= at
        BY <2>3, <4>1, <4>3
      <4>5. StartState(at) = last.state /\ StartSince(at) = last.since
        BY <3>2 DEF StartState, StartSince
      <4> QED BY <4>2, <4>4, <4>5
    <3> QED BY <3>1, <3>2
  <2>5. state \in MarketState /\ since \in Time /\ since <= at
    BY <2>1, <2>3, <2>4
  <2>6. last' = Decide(at, state, since, candidate)
    BY <1>1 DEF Route
  <2>7. last' \in Decision
    BY <2>1, <2>5, <2>6, DecideTyped
  <2>8. last'.since <= last'.timestamp
    BY <2>5, <2>6 DEF Decide
  <2>9. /\ pending' = candidate /\ count' = n
        /\ featureTime' \in {snapshot.timestamp, featureTime}
        /\ support' \subseteq support \cup {snapshot.timestamp}
        /\ firstInSession' \in {at, firstInSession}
    BY <1>1 DEF Route
  <2> QED BY <2>1, <2>2, <2>3, <2>7, <2>8, <2>9 DEF TypeOK
<1>2. ASSUME NEW at, RouteNothing(at)
      PROVE  UNCHANGED vars
  BY <1>2 DEF RouteNothing
<1>3. CASE UNCHANGED vars
  BY <1>3 DEF TypeOK, vars
<1> QED BY <1>1, <1>2, <1>3 DEF Next

\* route keeps its types, and no decision has a state that starts after the
\* decision itself (TypeOK).
THEOREM RouterTypes == Spec => []TypeOK
<1>1. Init => TypeOK
  BY DEF Init, TypeOK
<1> QED BY <1>1, TypeNext, PTL DEF Spec

-----------------------------------------------------------------------------
(* What is inductive.  The confirmation in progress is for the candidate of  *)
(* the last decision; the feature timestamps behind it are no later than the *)
(* newest one seen, so a fresh one is a new one and the counter never runs    *)
(* ahead of them; the state was entered after the session's first decision,   *)
(* MinDuration or more after it unless it is an immediate one.                *)

ConfirmationIsForLast == last # None => pending = last.candidate

EvidenceIsKnown ==
  /\ IsFiniteSet(support)
  /\ \A t \in support : featureTime # None /\ t <= featureTime
  /\ count <= Cardinality(support)

EnteredInSession ==
  last # None =>
    /\ firstInSession \in Time /\ firstInSession <= last.since
    /\ last.state \notin Immediate => last.since - firstInSession >= MinDuration

GrantsAreDecided ==
  last # None =>
    /\ last.candidate \in {"RISK_OFF", "OPEN_SHOCK"} => last.state = last.candidate
    /\ last.families = GrantedFamilies(last.state, last.candidate)
    /\ last.sides = Sides(last.state) \cap Sides(last.candidate)
    /\ last.multiplier = GrantedMultiplier(last.state, last.candidate)

RouterInv ==
  /\ TypeOK /\ ConfirmationIsForLast /\ EvidenceIsKnown /\ EnteredInSession
  /\ GrantsAreDecided

\* Before the first call nothing is confirmed and nothing granted.
LEMMA RouterInvInit == Init => RouterInv
BY FS_EmptySet DEF Init, RouterInv, TypeOK, ConfirmationIsForLast, EvidenceIsKnown,
                   EnteredInSession, GrantsAreDecided

\* Where a call starts from, when the session goes on and when a new one starts.
LEMMA StartingPoint ==
  ASSUME TypeOK, EnteredInSession, NEW at \in Time, Later(at)
  PROVE  /\ NewSession(at) <=> OpensSession(at)
         /\ StartSince(at) \in Nat /\ StartSince(at) <= at
         /\ NewSession(at) => StartState(at) = "RISK_OFF" /\ StartSince(at) = at
         /\ ~NewSession(at) =>
              /\ last # None /\ last.open = Opening(at)
              /\ StartState(at) = last.state /\ StartSince(at) = last.since
              /\ last.since < at /\ firstInSession \in Nat
              /\ firstInSession <= last.since
<1>1. NewSession(at) <=> OpensSession(at)
  BY DEF NewSession, OpensSession
<1>2. at \in Nat
  BY Vocabulary
<1>3. CASE NewSession(at)
  BY <1>1, <1>2, <1>3 DEF StartState, StartSince
<1>4. CASE ~NewSession(at)
  <2>1. last # None /\ last.open = Opening(at) /\ at > last.timestamp
    BY <1>4 DEF NewSession, Later
  <2>2. last.since \in Nat /\ last.timestamp \in Nat /\ last.since <= last.timestamp
    BY <2>1, Vocabulary DEF TypeOK, Decision
  <2>3. firstInSession \in Nat /\ firstInSession <= last.since
    BY <2>1, Vocabulary DEF EnteredInSession
  <2>4. last.since < at /\ last.since <= at
    BY <1>2, <2>1, <2>2
  <2> QED BY <1>1, <1>4, <2>1, <2>2, <2>3, <2>4 DEF StartState, StartSince
<1> QED BY <1>3, <1>4

-----------------------------------------------------------------------------
(* One call, part by part. *)

\* The counter never runs ahead of the feature timestamps it counts.
LEMMA EvidenceStays ==
  ASSUME RouterInv, NEW at \in Time, NEW snapshot \in Snapshot, NEW health,
         Route(snapshot, health, at)
  PROVE  EvidenceIsKnown'
<1> DEFINE candidate == Candidate(snapshot, health, at)
           t == snapshot.timestamp
           run == IF ContinuesRun(candidate, at) THEN support ELSE {}
           seen == IF Kept(candidate, at) THEN count ELSE 0
<1>1. t \in Nat /\ at \in Nat /\ count \in Nat /\ featureTime \in Nat \cup {None}
  BY Vocabulary DEF Snapshot, RouterInv, TypeOK
<1>2. /\ support' = run \cup {t}
      /\ count' = seen + (IF FreshObservation(snapshot) THEN 1 ELSE 0)
      /\ featureTime' = IF FreshObservation(snapshot) THEN t ELSE featureTime
  BY DEF Route, Count
<1>3. Kept(candidate, at) => ContinuesRun(candidate, at)
  <2> SUFFICES ASSUME Kept(candidate, at)
               PROVE  ContinuesRun(candidate, at)
    OBVIOUS
  <2>1. ~NewSession(at) /\ ~Gap(at) /\ candidate = pending
    BY DEF Kept
  <2>2. last # None /\ ~OpensSession(at)
    BY <2>1 DEF NewSession, OpensSession
  <2>3. last.timestamp \in Nat
    BY <2>2, Vocabulary DEF RouterInv, TypeOK, Decision
  <2>4. at - last.timestamp <= MaxGap
    BY <1>1, <2>1, <2>2, <2>3, SettingsAreValid DEF Gap
  <2> QED BY <2>1, <2>2, <2>4 DEF ContinuesRun, RouterInv, ConfirmationIsForLast
<1>4. IsFiniteSet(run) /\ run \subseteq support /\ support \subseteq Nat
  BY FS_EmptySet, Vocabulary DEF RouterInv, TypeOK, EvidenceIsKnown
<1>5. seen \in Nat /\ Cardinality(run) \in Nat /\ seen <= Cardinality(run)
  <2>1. Cardinality(run) \in Nat
    BY <1>4, FS_CardinalityType
  <2>2. CASE Kept(candidate, at)
    BY <1>1, <1>3, <2>1, <2>2 DEF RouterInv, EvidenceIsKnown
  <2>3. CASE ~Kept(candidate, at)
    BY <2>1, <2>3
  <2> QED BY <2>2, <2>3
<1>6. /\ IsFiniteSet(support')
      /\ Cardinality(support') = IF t \in run THEN Cardinality(run) ELSE Cardinality(run) + 1
  BY <1>2, <1>4, FS_AddElement
<1>7. FreshObservation(snapshot) => t \notin run
  <2> SUFFICES ASSUME FreshObservation(snapshot), t \in support
               PROVE  FALSE
    BY <1>4
  <2>1. featureTime # None /\ t <= featureTime
    BY DEF RouterInv, EvidenceIsKnown
  <2>2. t > featureTime /\ featureTime \in Nat
    BY <1>1, <2>1 DEF FreshObservation
  <2> QED BY <1>1, <2>1, <2>2
<1>8. count' <= Cardinality(support')
  <2>1. CASE FreshObservation(snapshot)
    BY <1>2, <1>5, <1>6, <1>7, <2>1
  <2>2. CASE ~FreshObservation(snapshot)
    BY <1>2, <1>5, <1>6, <2>2
  <2> QED BY <2>1, <2>2
<1>9. ASSUME NEW u \in support'
      PROVE  featureTime' # None /\ u <= featureTime'
  <2>1. u \in support \/ u = t
    BY <1>2, <1>4
  <2>2. CASE FreshObservation(snapshot)
    <3>1. featureTime' = t /\ t # None
      BY <1>1, <1>2, <2>2, Vocabulary
    <3>2. CASE u \in support
      <4>1. featureTime # None /\ u <= featureTime /\ u \in Nat
        BY <1>4, <3>2 DEF RouterInv, EvidenceIsKnown
      <4>2. t > featureTime /\ featureTime \in Nat
        BY <1>1, <2>2, <4>1 DEF FreshObservation
      <4> QED BY <1>1, <3>1, <4>1, <4>2
    <3> QED BY <1>1, <2>1, <3>1, <3>2
  <2>3. CASE ~FreshObservation(snapshot)
    <3>1. featureTime' = featureTime /\ featureTime \in Nat /\ featureTime # None
      BY <1>1, <1>2, <2>3 DEF FreshObservation
    <3>2. t <= featureTime
      BY <1>1, <2>3, <3>1 DEF FreshObservation
    <3> QED BY <2>1, <3>1, <3>2 DEF RouterInv, EvidenceIsKnown
  <2> QED BY <2>2, <2>3
<1> QED BY <1>6, <1>8, <1>9 DEF EvidenceIsKnown

\* The session's first decision is no later than the entry of the state that the
\* call starts from.
LEMMA SessionStart ==
  ASSUME RouterInv, NEW at \in Time, NEW snapshot \in Snapshot, NEW health,
         Route(snapshot, health, at)
  PROVE  /\ firstInSession' \in Time /\ firstInSession' \in Nat
         /\ StartSince(at) \in Nat /\ StartSince(at) <= at
         /\ firstInSession' <= StartSince(at) /\ firstInSession' <= at
<1>1. firstInSession' = IF OpensSession(at) THEN at ELSE firstInSession
  BY DEF Route
<1>2. at \in Nat /\ TypeOK /\ EnteredInSession /\ Later(at)
  BY Vocabulary DEF RouterInv, Route
<1>3. CASE NewSession(at)
  BY <1>1, <1>2, <1>3, StartingPoint
<1>4. CASE ~NewSession(at)
  BY <1>1, <1>2, <1>4, StartingPoint DEF EnteredInSession
<1> QED BY <1>3, <1>4

\* A move to a state that is not immediate is at least MinDuration into the
\* session.
LEMMA MovesLate ==
  ASSUME RouterInv, NEW at \in Time, NEW snapshot \in Snapshot, NEW health,
         Route(snapshot, health, at), NEW candidate, NEW n,
         Moves(candidate, n, at), candidate \notin Immediate
  PROVE  /\ n >= Confirmations /\ at - StartSince(at) >= MinDuration
         /\ at - firstInSession' >= MinDuration
<1>1. n >= Confirmations /\ at - StartSince(at) >= MinDuration
  BY DEF Moves, Confirmed
<1>2. at \in Nat /\ MinDuration \in Nat
  BY Vocabulary, SettingsAreValid
<1>3. at - firstInSession' >= MinDuration
  BY <1>1, <1>2, SessionStart
<1> QED BY <1>1, <1>3

\* The state that is entered or kept is as old in its session as it must be.
LEMMA EntryStays ==
  ASSUME RouterInv, NEW at \in Time, NEW snapshot \in Snapshot, NEW health,
         Route(snapshot, health, at)
  PROVE  EnteredInSession'
<1> DEFINE candidate == Candidate(snapshot, health, at)
           moves == Moves(candidate, Count(snapshot, candidate, at), at)
           state == IF moves THEN candidate ELSE StartState(at)
           since == IF moves THEN at ELSE StartSince(at)
<1>1. /\ last'.state = state /\ last'.since = since
      /\ firstInSession' = IF OpensSession(at) THEN at ELSE firstInSession
  BY DEF Route, Decide
<1>2. /\ at \in Nat /\ MinDuration \in Nat /\ TypeOK /\ EnteredInSession
      /\ Later(at)
  BY Vocabulary, SettingsAreValid DEF RouterInv, Route
<1>3. /\ firstInSession' \in Time /\ firstInSession' <= StartSince(at)
      /\ firstInSession' <= at
  BY SessionStart
<1>5. CASE moves
  <2>1. state = candidate /\ since = at
    BY <1>5
  <2>2. ASSUME candidate \notin Immediate
        PROVE  at - firstInSession' >= MinDuration
    BY <1>5, <2>2, MovesLate
  <2> QED BY <1>1, <1>3, <2>1, <2>2 DEF EnteredInSession
<1>6. CASE ~moves
  <2>1. state = StartState(at) /\ since = StartSince(at)
    BY <1>6
  <2>2. ASSUME StartState(at) \notin Immediate
        PROVE  since - firstInSession' >= MinDuration
    <3>1. ~NewSession(at)
      BY <1>2, <2>2, StartingPoint DEF Immediate
    <3>2. /\ last # None /\ StartState(at) = last.state /\ StartSince(at) = last.since
          /\ firstInSession' = firstInSession
      BY <1>1, <1>2, <3>1, StartingPoint
    <3> QED BY <1>2, <2>1, <2>2, <3>2 DEF EnteredInSession
  <2> QED BY <1>1, <1>3, <2>1, <2>2 DEF EnteredInSession
<1> QED BY <1>5, <1>6

\* Blocking evidence is entered at once, so the state and the evidence agree.
LEMMA GrantsStay ==
  ASSUME NEW at, NEW snapshot, NEW health, Route(snapshot, health, at)
  PROVE  GrantsAreDecided'
<1> DEFINE candidate == Candidate(snapshot, health, at)
           moves == Moves(candidate, Count(snapshot, candidate, at), at)
           state == IF moves THEN candidate ELSE StartState(at)
<1>1. /\ last'.state = state /\ last'.candidate = candidate
      /\ last'.families = GrantedFamilies(state, candidate)
      /\ last'.sides = Sides(state) \cap Sides(candidate)
      /\ last'.multiplier = GrantedMultiplier(state, candidate)
  BY DEF Route, Decide
<1>2. candidate \in {"RISK_OFF", "OPEN_SHOCK"} => state = candidate
  <2>1. candidate \in {"RISK_OFF", "OPEN_SHOCK"} => candidate \in Immediate
    BY DEF Immediate
  <2>2. candidate \in Immediate => moves \/ candidate = StartState(at)
    BY DEF Moves
  <2> QED BY <2>1, <2>2
<1> HIDE DEF candidate, state
<1> QED BY <1>1, <1>2 DEF GrantsAreDecided

\* Every call keeps the confirmation, the evidence, the session and the grants related.
LEMMA RouterInvNext == RouterInv /\ [Next]_vars => RouterInv'
<1> SUFFICES ASSUME RouterInv, [Next]_vars
             PROVE  RouterInv'
  OBVIOUS
<1>1. TypeOK'
  BY TypeNext DEF RouterInv
<1>2. ASSUME NEW at \in Time, NEW snapshot \in Snapshot, NEW health \in RoutingHealth,
             Route(snapshot, health, at)
      PROVE  RouterInv'
  <2>1. ConfirmationIsForLast'
    BY <1>2 DEF Route, Decide, ConfirmationIsForLast
  <2> QED BY <1>1, <1>2, <2>1, EvidenceStays, EntryStays, GrantsStay DEF RouterInv
<1>3. CASE UNCHANGED vars
  BY <1>1, <1>3 DEF RouterInv, ConfirmationIsForLast, EvidenceIsKnown, EnteredInSession,
                    GrantsAreDecided, vars
<1> QED BY <1>2, <1>3 DEF Next, RouteNothing

\* RouterInv is inductive.
LEMMA RouterInvHolds == Spec => []RouterInv
BY RouterInvInit, RouterInvNext, PTL DEF Spec

-----------------------------------------------------------------------------
(* Theorems. *)

\* A veto or an opening shock takes the state and every permission with it in
\* the same call (BlockingEvidenceBlocks): it is never left waiting for a
\* confirmation, and a blocked candidate shares no family with any state.
THEOREM BlockingBlocks == Spec => []BlockingEvidenceBlocks
<1>1. RouterInv => BlockingEvidenceBlocks
  <2> SUFFICES ASSUME RouterInv, last # None, last.candidate \in {"RISK_OFF", "OPEN_SHOCK"}
               PROVE  /\ last.state = last.candidate
                      /\ last.families = {} /\ last.multiplier = 0
    BY DEF BlockingEvidenceBlocks
  <2>1. last.state = last.candidate
    BY DEF RouterInv, GrantsAreDecided
  <2>2. Families(last.candidate) = {}
    BY DEF Families
  <2>3. GrantedFamilies(last.state, last.candidate) = {}
    BY <2>2 DEF GrantedFamilies
  <2> QED BY <2>1, <2>3 DEF RouterInv, GrantsAreDecided, GrantedMultiplier
<1> QED BY <1>1, RouterInvHolds, PTL

\* While a transition is pending nothing is granted that the state or the
\* current evidence alone would deny (PendingGrantsLess).
THEOREM PendingNeverWidens == Spec => []PendingGrantsLess
<1>1. RouterInv => PendingGrantsLess
  <2> SUFFICES ASSUME RouterInv, last # None
               PROVE  PendingGrantsLess
    BY DEF PendingGrantsLess
  <2>1. last.state \in MarketState /\ last.candidate \in MarketState
    BY DEF RouterInv, TypeOK, Decision
  <2>2. Multiplier(last.state) \in Nat /\ Multiplier(last.candidate) \in Nat
    BY <2>1, PermissionsTyped
  <2>3. /\ last.families = GrantedFamilies(last.state, last.candidate)
        /\ last.sides = Sides(last.state) \cap Sides(last.candidate)
        /\ last.multiplier = GrantedMultiplier(last.state, last.candidate)
    BY DEF RouterInv, GrantsAreDecided
  <2>4. /\ \A f \in last.families : f \in Families(last.state) /\ f \in Families(last.candidate)
        /\ last.families \cap Directional # {} => last.sides # {}
    BY <2>3 DEF GrantedFamilies
  <2>5. /\ last.families = {} => last.multiplier = 0
        /\ last.multiplier <= Multiplier(last.candidate)
    BY <2>2, <2>3 DEF GrantedMultiplier
  <2> QED BY <2>4, <2>5 DEF PendingGrantsLess
<1> QED BY <1>1, RouterInvHolds, PTL

\* No session inherits a tradable state (SessionsStartClosed).
THEOREM NoInheritedState == Spec => []SessionsStartClosed
<1>1. RouterInv => SessionsStartClosed
  BY DEF RouterInv, EnteredInSession, SessionsStartClosed
<1> QED BY <1>1, RouterInvHolds, PTL

\* The step that enters a state other than the immediate ones.
LEMMA ConfirmedStep ==
  ASSUME RouterInv, RouterInv', NEW at \in Time, NEW snapshot \in Snapshot, NEW health,
         Route(snapshot, health, at),
         last'.state \notin Immediate, last'.since = last'.timestamp
  PROVE  /\ Cardinality(support') >= Confirmations
         /\ last'.timestamp - firstInSession' >= MinDuration
         /\ last # None /\ last'.open = last.open =>
              last'.timestamp - last.since >= MinDuration
<1> DEFINE candidate == Candidate(snapshot, health, at)
           n == Count(snapshot, candidate, at)
           moves == Moves(candidate, n, at)
           state == IF moves THEN candidate ELSE StartState(at)
           since == IF moves THEN at ELSE StartSince(at)
<1>1. /\ last'.state = state /\ last'.since = since /\ last'.timestamp = at
      /\ last'.open = Opening(at) /\ count' = n /\ Later(at)
  BY DEF Route, Decide
<1>2. moves
  <2> SUFFICES ASSUME ~moves
               PROVE  FALSE
    OBVIOUS
  <2>1. StartState(at) \notin Immediate /\ StartSince(at) = at
    BY <1>1
  <2>2. TypeOK /\ EnteredInSession
    BY DEF RouterInv
  <2>3. ~NewSession(at)
    BY <1>1, <2>1, <2>2, StartingPoint DEF Immediate
  <2>4. last.since = at /\ last.since < at /\ at \in Nat
    BY <1>1, <2>1, <2>2, <2>3, StartingPoint, Vocabulary
  <2> QED BY <2>4
<1>3. candidate \notin Immediate
  BY <1>1, <1>2
<1>4. n >= Confirmations /\ at - StartSince(at) >= MinDuration
      /\ at - firstInSession' >= MinDuration
  BY <1>2, <1>3, MovesLate
<1>5. Cardinality(support') >= Confirmations
  <2>1. n \in Nat /\ n <= Cardinality(support') /\ Confirmations \in Nat
    BY <1>1, SettingsAreValid DEF RouterInv, EvidenceIsKnown, TypeOK
  <2>2. Cardinality(support') \in Nat
    BY FS_CardinalityType DEF RouterInv, EvidenceIsKnown
  <2> HIDE DEF n
  <2> QED BY <1>4, <2>1, <2>2
<1>6. last # None /\ last'.open = last.open => StartSince(at) = last.since
  BY <1>1 DEF NewSession, StartSince
<1> QED BY <1>1, <1>4, <1>5, <1>6

\* A state other than the immediate ones is entered only on Confirmations
\* distinct feature timestamps and after MinDuration in the session and in the
\* state before (OrdinaryMovesAreConfirmed).
THEOREM OrdinaryMovesConfirmed == Spec => OrdinaryMovesAreConfirmed
<1>1. ASSUME RouterInv, RouterInv', [Next]_vars,
             last' # last, last'.state \notin Immediate, last'.since = last'.timestamp
      PROVE  /\ Cardinality(support') >= Confirmations
             /\ last'.timestamp - firstInSession' >= MinDuration
             /\ last # None /\ last'.open = last.open =>
                  last'.timestamp - last.since >= MinDuration
  <2>1. PICK at \in Time, snapshot \in Snapshot, health \in RoutingHealth :
          Route(snapshot, health, at)
    BY <1>1 DEF Next, RouteNothing, vars
  <2> QED BY <1>1, <2>1, ConfirmedStep
<1> QED BY <1>1, RouterInvHolds, PTL DEF Spec, OrdinaryMovesAreConfirmed

=============================================================================
