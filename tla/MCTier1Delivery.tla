--------------------------- MODULE MCTier1Delivery ---------------------------
(***************************************************************************)
(* The instance of Tier1Delivery that TLC checks: a governance engagement  *)
(* with one question left, one of whose requests may die, and a combined   *)
(* engagement with one question left in each audit.                        *)
(***************************************************************************)
EXTENDS Tier1Delivery, TLC

CONSTANTS g1, s1

MCBank == ("tier_1"   :> [tier_1 |-> {g1}]) @@
          ("combined" :> [tier_1 |-> {g1}, aiitsa |-> {s1}])

MCMaxDeaths == [tier_1 |-> 1, combined |-> 0]
=============================================================================
