----------------------------- MODULE RoleWeights -----------------------------
(***************************************************************************)
(* src/scoring/tier_2_role_weights.py: how much a role's view informs an   *)
(* item, in tenths.  What the table does not list counts 1.0.              *)
(***************************************************************************)
EXTENDS Integers

Leadership == {"BOARD", "CEO", "CFO", "CIO", "CISO", "COO"}
Workforce == {"VP", "DIR", "MGR", "IC", "HR"}

ExecHeavy ==
  [BOARD |-> 20, CEO |-> 20, CFO |-> 15, CIO |-> 15, CISO |-> 15, COO |-> 15,
   VP |-> 10, DIR |-> 10, HR |-> 10, MGR |-> 5, IC |-> 5]
TechHeavy ==
  [CISO |-> 20, CIO |-> 20, COO |-> 15, CFO |-> 10, CEO |-> 10, BOARD |-> 5,
   VP |-> 10, DIR |-> 10, HR |-> 5, MGR |-> 5, IC |-> 5]
FloorHeavy ==
  [IC |-> 20, MGR |-> 20, VP |-> 15, DIR |-> 15, HR |-> 15, COO |-> 10,
   CEO |-> 5, CFO |-> 5, CIO |-> 5, CISO |-> 5, BOARD |-> 0]
FinanceHeavy ==
  [CEO |-> 20, CFO |-> 20, COO |-> 15, BOARD |-> 15, VP |-> 10, DIR |-> 10,
   CIO |-> 10, CISO |-> 5, HR |-> 5, MGR |-> 5, IC |-> 0]

RoleWeights ==
  [v1_audit |->
     [tool_inventory          |-> [TechHeavy EXCEPT !.IC = 10, !.MGR = 10],
      risk_exposure           |-> TechHeavy,
      governance_gaps         |-> [ExecHeavy EXCEPT !.CISO = 20],
      cost_mapping            |-> FinanceHeavy,
      performance_measurement |-> [FinanceHeavy EXCEPT !.MGR = 10, !.IC = 5]],
   v2_readiness |->
     [workflow_readiness        |-> FloorHeavy,
      operational_friction      |-> FloorHeavy,
      people_readiness          |-> [FloorHeavy EXCEPT !.HR = 20],
      data_readiness            |-> [TechHeavy EXCEPT !.MGR = 10],
      leadership_accountability |-> [ExecHeavy EXCEPT !.IC = 10, !.MGR = 10],
      performance_measurement   |-> [FinanceHeavy EXCEPT !.MGR = 10, !.IC = 5]],
   v3_governance |->
     [accountability_mapping        |-> [ExecHeavy EXCEPT !.CISO = 20, !.IC = 0],
      data_exposure_assessment      |-> TechHeavy,
      vendor_risk_inventory         |-> [TechHeavy EXCEPT !.CFO = 15],
      decision_influence_review     |-> [ExecHeavy EXCEPT !.MGR = 10, !.IC = 10],
      incident_response_readiness   |-> TechHeavy,
      framework_crosswalk_readiness |-> [ExecHeavy EXCEPT !.CISO = 20, !.CIO = 20, !.IC = 0]],
   efficiency |->
     [outcome_alignment    |-> FinanceHeavy,
      process_optimization |-> [FloorHeavy EXCEPT !.COO = 15, !.BOARD = 5]]]

\* role_weight.
RoleWeight(role, framework, item) ==
  IF item \in DOMAIN RoleWeights[framework] THEN RoleWeights[framework][item][role] ELSE 10
=============================================================================
