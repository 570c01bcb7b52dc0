---------------------------- MODULE MCAccessCodes ----------------------------
(***************************************************************************)
(* The instance of AccessCodes that TLC checks: three submissions, a code  *)
(* with one use and a code with two that expires first.                    *)
(***************************************************************************)
EXTENDS AccessCodes, TLC

CONSTANTS Once, Twice

MCCodes == {Once, Twice}

MCMaxUses == (Once :> 1) @@ (Twice :> 2)

MCExpiresAt == (Once :> 2) @@ (Twice :> 1)

FormSymmetry ==
    Permutations(Submissions) \cup Permutations(Companies) \cup Permutations(Emails)
=============================================================================
