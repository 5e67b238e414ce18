--------------------------- MODULE MCMarketRuntime ---------------------------
(***************************************************************************)
(* MarketRuntime for TLC: subscription attempts are interchangeable, since *)
(* the runtime never orders or compares them.                              *)
(***************************************************************************)
EXTENDS MarketRuntime, TLC

SessionSymmetry == Permutations(Sessions)

=============================================================================
