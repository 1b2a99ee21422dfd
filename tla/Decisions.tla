------------------------------ MODULE Decisions ------------------------------
(***************************************************************************)
(* From bars to targets: the features, the alphas, the health they earn    *)
(* and the allocation of what they ask for.  They share the calendar, the  *)
(* universe and the rules of permission and nothing that changes; what one *)
(* hands to the next is an input of its own, of any age.  So a behaviour   *)
(* of all of them is a behaviour of each.                                  *)
(***************************************************************************)
EXTENDS FeatureEngine, AlphaHealth, Momentum, Breakout, VwapReversion, Pairs, RelativeValue, Desk

decisionVars ==
  <<featureVars, vars, momentumVars, breakoutVars, vwapVars, pairVars, rvVars, deskVars>>

DecisionsSpec ==
  /\ FeatureSpec /\ Spec /\ DeskSpec
  /\ MomentumSpec /\ BreakoutSpec /\ VwapSpec /\ PairSpec /\ RvSpec

-----------------------------------------------------------------------------
\* The types of the parts that keep state over a day.
DecisionTypeOK == TypeOK /\ BreakoutTypeOK /\ DeskTypeOK

\* What a decision computes from the past is the unbroken past: baselines of
\* consecutive sessions, series that once were invalid never used, trainings
\* without a hole, and betas up to the bar before.
HistoriesAreSound ==
  BaselinesHaveNoHoles /\ InvalidStaysInvalid /\ TrainingHasNoHoles /\ TradesNeedPromptBars
=============================================================================
