------------------------------ MODULE MarketData ------------------------------
(***************************************************************************)
(* What MarketDataService is fed: minute bars on their way to canonical    *)
(* bars, and quotes on a stream that drops and comes back.  The service    *)
(* keeps the two apart: nothing that ingest_bar, load_history and          *)
(* window_health read or write is touched by ingest_quote.                 *)
(***************************************************************************)
EXTENDS BarPipeline, StreamRecovery

feedVars == <<vars, streamVars>>

FeedInit == Init /\ StreamInit

\* A call on one side leaves the other as it is.
FeedNext ==
  \/ Next /\ UNCHANGED streamVars
  \/ StreamNext /\ UNCHANGED vars

FeedSpec == FeedInit /\ [][FeedNext]_feedVars

-----------------------------------------------------------------------------
\* The types of both.
FeedTypeOK == TypeOK /\ StreamTypeOK
=============================================================================
