--------------------------- MODULE MCQuestionnaire ---------------------------
(***************************************************************************)
(* The instance of Questionnaire that TLC checks: a board member who was   *)
(* sold both audits, with two tabs.                                        *)
(***************************************************************************)
EXTENDS Questionnaire

\* T1-B-001 and a question it hides, T1-F-010 which stands for AIITSA-GOV-001, and
\* AIITSA-GOV-001 itself.
MCSlice == {<<"B", 1>>, <<"B", 3>>, <<"F", 10>>, <<"GOV", 1>>}

MCSelections ==
  [id \in MCSlice |->
     CASE id = <<"B", 1>>   -> {{1}, {4}}
       [] id = <<"B", 3>>   -> {{1}}
       [] id = <<"F", 10>>  -> {{6}}
       [] id = <<"GOV", 1>> -> {{1}}]
=============================================================================
