---------------------------- MODULE MCAlphaHealth ----------------------------
(***************************************************************************)
(* An instance of AlphaHealth for TLC: gains and losses, one reported two  *)
(* ticks after its close, two closing together, and one id reported with   *)
(* two contents.                                                           *)
(***************************************************************************)
EXTENDS AlphaHealth

Report(id, closed, received, return) ==
  [id |-> id, closed |-> closed, received |-> received, return |-> return]

MCTrade ==
  {Report(1, 1, 1, 2), Report(2, 2, 4, 1), Report(3, 2, 3, -1),
   Report(4, 5, 5, 2), Report(4, 5, 5, -4)}
=============================================================================
