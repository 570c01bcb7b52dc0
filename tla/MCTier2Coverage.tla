--------------------------- MODULE MCTier2Coverage ---------------------------
(***************************************************************************)
(* The instances of Tier2Coverage that TLC checks: the smallest bracket    *)
(* (CEO, operations lead, employee) and its three people.  The CEO has     *)
(* answered; the other two are asked two questions each and count when     *)
(* they have answered both, so that a count that is one behind matters.    *)
(***************************************************************************)
EXTENDS Tier2Coverage, TLC

CONSTANTS ceo, mgr, ic, q1, q2, q3

MCRole == (ceo :> "CEO") @@ (mgr :> "MGR") @@ (ic :> "IC")

MCSees == (ceo :> {q1}) @@ (mgr :> {q2, q3}) @@ (ic :> {q2, q3})

MCParts == <<"tier_1", "aiitsa", "board">>

\* Nothing orders the requests, or the questions of the two.
CoverageSymmetry == Permutations(Requests) \cup Permutations({q2, q3})
=============================================================================
