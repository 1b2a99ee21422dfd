----------------------------- MODULE MCMarketData -----------------------------
(***************************************************************************)
(* Instances of MarketData for TLC.  Bars and quotes share nothing that    *)
(* changes, so each behaviour is about one of them, the feed, and the      *)
(* other rests.                                                            *)
(***************************************************************************)
EXTENDS MarketData, MCBarPipeline, MCStreamRecovery

VARIABLE feed

MCFeedInit == feed \in {"bars", "quotes"} /\ FeedInit
MCFeedNext ==
  \/ feed = "bars" /\ MCNext /\ UNCHANGED <<feed, streamVars>>
  \/ feed = "quotes" /\ MCStreamNext /\ UNCHANGED <<feed, vars>>

MCFeedSpec == MCFeedInit /\ [][MCFeedNext]_<<feed, feedVars>>
=============================================================================
