------------------------------ MODULE MCScoring ------------------------------
(***************************************************************************)
(* The instance of Scoring that TLC checks: a security officer and a       *)
(* manager, of whom only the first is asked T1-A-014 and T1-E-006.         *)
(***************************************************************************)
EXTENDS Scoring

CONSTANTS r1, r2

\* T1-B-001 hides T1-B-003 or T1-B-005; T1-A-014 weighs less than the guard asks for;
\* T1-E-006 and T1-E-012 count for risk, T1-G-009 for readiness and efficiency.
MCIds ==
  {<<"A", 14>>, <<"B", 1>>, <<"B", 3>>, <<"B", 5>>, <<"E", 6>>, <<"E", 12>>, <<"G", 9>>}

MCQuestions == {q \in ToSet(Tier1Questions) : q.id \in MCIds}

MCRoleOf == (r1 :> "CISO") @@ (r2 :> "MGR")

MCSelections ==
  [id \in MCIds |->
     CASE id = <<"A", 14>> -> {{2}}
       [] id = <<"B", 1>>  -> {{1}, {4}}
       [] id = <<"B", 3>>  -> {{1}}
       [] id = <<"B", 5>>  -> {{3}}
       [] id = <<"E", 6>>  -> {{1}}
       [] id = <<"E", 12>> -> {{1}, {2}}
       [] id = <<"G", 9>>  -> {{2}, {3}, {5}}]
=============================================================================
