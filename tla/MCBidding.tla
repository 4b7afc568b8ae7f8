----------------------------- MODULE MCBidding -----------------------------
(***************************************************************************)
(* Bidding with one of BIDDING_TIERS, the highest, besides micro profits.  *)
(* The ramp of a losing streak reaches its cap from there, so every cap    *)
(* and both streak thresholds matter.                                      *)
(***************************************************************************)
EXTENDS Bidding

MCTierPct == <<60>>

=============================================================================
