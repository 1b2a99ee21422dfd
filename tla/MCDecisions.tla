----------------------------- MODULE MCDecisions -----------------------------
(***************************************************************************)
(* Instances of Decisions for TLC.  The parts share nothing that changes,  *)
(* so each behaviour is about one of them, the subject, and the others     *)
(* rest where they decide nothing.                                         *)
(***************************************************************************)
EXTENDS Decisions, MCFeatureEngine, MCAlphaHealth, MCMomentum, MCBreakout, MCVwap, MCPairs,
        MCRelativeValue, MCDesk

VARIABLE subject

FeaturesRest == featureLog = <<>> /\ featureTime = 0
MomentumRests ==
  /\ listing = MasterOf(1, "m1", {}) /\ ranking = Absent
  /\ members = BuildUniverse(listing, RegularRules, listing.generated)
VwapRests == session = <<>> /\ elapsed = 0 /\ reversals = {} /\ clashed = FALSE
PairRests ==
  /\ rows = {} /\ slot = FirstSlot /\ waited = 0
  /\ rolling = Absent /\ position = Absent /\ verdict = Absent
DeskRests == DeskInit /\ routed.state = "CHOP" /\ ~routed.health.blocks

MCDecisionsInit ==
  /\ subject \in {"features", "health", "momentum", "breakout", "vwap", "pairs", "relative value",
                  "desk"}
  /\ IF subject = "features" THEN FeatureInit ELSE FeaturesRest
  /\ Init
  /\ IF subject = "momentum" THEN MomentumInit ELSE MomentumRests
  /\ BreakoutInit
  /\ IF subject = "vwap" THEN VwapInit ELSE VwapRests
  /\ IF subject = "pairs" THEN PairInit ELSE PairRests
  /\ RvInit
  /\ IF subject = "desk" THEN DeskInit ELSE DeskRests

MCDecisionsNext ==
  \/ /\ subject = "features" /\ FeatureNext
     /\ UNCHANGED <<subject, vars, momentumVars, breakoutVars, vwapVars, pairVars, rvVars, deskVars>>
  \/ /\ subject = "health" /\ Next
     /\ UNCHANGED <<subject, featureVars, momentumVars, breakoutVars, vwapVars, pairVars, rvVars, deskVars>>
  \/ /\ subject = "momentum" /\ MCMomentumNext
     /\ UNCHANGED <<subject, featureVars, vars, breakoutVars, vwapVars, pairVars, rvVars, deskVars>>
  \/ /\ subject = "breakout" /\ BreakoutNext
     /\ UNCHANGED <<subject, featureVars, vars, momentumVars, vwapVars, pairVars, rvVars, deskVars>>
  \/ /\ subject = "vwap" /\ MCVwapNext
     /\ UNCHANGED <<subject, featureVars, vars, momentumVars, breakoutVars, pairVars, rvVars, deskVars>>
  \/ /\ subject = "pairs" /\ MCPairNext
     /\ UNCHANGED <<subject, featureVars, vars, momentumVars, breakoutVars, vwapVars, rvVars, deskVars>>
  \/ /\ subject = "relative value" /\ MCRvNext
     /\ UNCHANGED <<subject, featureVars, vars, momentumVars, breakoutVars, vwapVars, pairVars, deskVars>>
  \/ /\ subject = "desk" /\ MCNext
     /\ UNCHANGED <<subject, featureVars, vars, momentumVars, breakoutVars, vwapVars, pairVars, rvVars>>

MCDecisionsSpec == MCDecisionsInit /\ [][MCDecisionsNext]_<<subject, decisionVars>>
=============================================================================
