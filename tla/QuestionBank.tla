---------------------------- MODULE QuestionBank ----------------------------
(***************************************************************************)
(* The Tier 1 (Pillar I) question bank, src/questionnaire/question_bank.py:*)
(* 138 questions in document order.  Of a question only what some other    *)
(* part of the program decides by is kept: its type, the roles it is shown *)
(* to, the class of each option (what scoring's text patterns make of the  *)
(* label), when it is skipped, and the dimensions it counts for.  The      *)
(* wording is left out, and so are the mappings to "context" and           *)
(* "lead_gen", whose weight is 0.                                          *)
(*                                                                         *)
(* An answer is the set of the positions of the options it selects; a      *)
(* question is identified by <<section, number>>: T1-B-001 is <<"B", 1>>.  *)
(* Weights are in hundredths.                                              *)
(***************************************************************************)
EXTENDS Integers, Sequences

\* Everyone ("all" in role_visibility).  The role of a respondent is one of these.
All == {"BOARD", "CEO", "CFO", "CIO", "CISO", "COO", "VP", "DIR", "MGR", "IC", "HR"}

\* Classes of option labels: "Y" a full yes, "P" a partial one, "N" a no, "D" don't
\* know, "-" a label no pattern recognises.
Neutral(n) == [i \in 1 .. n |-> "-"]

\* One question, shown to everyone of `roles`, never skipped.
Q(section, number, type, roles, opts, maps) ==
  [id |-> <<section, number>>, type |-> type, roles |-> roles, opts |-> opts,
   maps |-> maps, skip |-> {}, active |-> TRUE]

\* is_active = False: kept for its history, never walked.
Retired(q) == [q EXCEPT !.active = FALSE]

\* The conditions of a skip rule; combine is "any" in the whole bank.
SkipIf(conditions, q) == [q EXCEPT !.skip = conditions]
Equals(section, number, values) ==
  [test |-> "answer_equals", on |-> <<section, number>>, values |-> values]
OnlyIncludes(section, number, values) ==
  [test |-> "answer_only_includes", on |-> <<section, number>>, values |-> values]
DoesNotInclude(section, number, values) ==
  [test |-> "answer_does_not_include", on |-> <<section, number>>, values |-> values]

\* The options of T1-A-006 are the law catalog's; this is one law's place in it.
LocalLaw144 == 37

\* What a question counts for: a V1 dimension with its sub-component, a V2 module, a
\* V3 step or attention signal, an efficiency component.
V1(dimension, sub, weight) ==
  [framework |-> "v1_audit", part |-> dimension, sub |-> sub, weight |-> weight]
V2(module, weight) ==
  [framework |-> "v2_readiness", part |-> module, sub |-> "", weight |-> weight]
V3(step, weight) ==
  [framework |-> "v3_governance", part |-> step, sub |-> "", weight |-> weight]
Signal(signal, weight) ==
  [framework |-> "v3_signal", part |-> signal, sub |-> "", weight |-> weight]
Eff(component, weight) ==
  [framework |-> "efficiency", part |-> component, sub |-> "", weight |-> weight]

-----------------------------------------------------------------------------
SectionA1 == <<
  Retired(Q("A", 1, "SS", All, Neutral(11), {})),
  Q("A", 2, "SS", All, Neutral(4), {}),
  Retired(Q("A", 3, "SS", All, Neutral(6), {})),
  Retired(Q("A", 4, "SS", All, Neutral(14), {})) >>

SectionA2 == <<
  Retired(Q("A", 5, "SS", All, Neutral(5), {})),
  Q("A", 6, "LAW_INVENTORY", All, <<>>, {V3("framework_crosswalk_readiness", 100)}),
  Retired(Q("A", 7, "NR", All, Neutral(5) \o <<"D">>, {})),
  Q("A", 8, "SS", All, Neutral(5) \o <<"D">>, {}) >>

SectionA3 == <<
  Q("A", 9, "SS", All, <<"Y","P","N","D">>, {V1("governance_gaps", "approval_discipline", 100)}),
  Q("A", 10, "MS", All, Neutral(9), {}),
  Q("A", 11, "MS", All, Neutral(47) \o <<"N","D">>, {V3("framework_crosswalk_readiness", 100)}) >>

SectionA4 == <<
  Q("A", 12, "MS", {"BOARD", "CEO", "CFO", "CIO", "CISO", "COO"}, Neutral(7) \o <<"N","D">>,
       {V3("accountability_mapping", 100)}),
  Q("A", 13, "MS", {"BOARD", "CEO", "CFO", "CIO", "CISO", "COO", "VP", "DIR"}, Neutral(8) \o <<"N","D">>,
       {V3("vendor_risk_inventory", 100)}),
  Q("A", 14, "SS", {"BOARD", "CEO", "CFO", "CIO", "CISO", "COO"}, <<"-","P","P","-","D">>,
       {V3("incident_response_readiness", 50), V1("governance", "", 50)}) >>

SectionA5 == <<
  Retired(Q("A", 15, "SS", All, Neutral(21) \o <<"D">>, {V3("framework_crosswalk_readiness", 50)})),
  Retired(Q("A", 16, "SS", All, Neutral(23) \o <<"D">>, {})) >>

SectionB1 == <<
  Q("A", 0, "TOOL_INVENTORY", All, <<>>, {}),
  Q("B", 1, "SS", All, <<"Y","P","N","D">>, {V1("tool_inventory", "inventory_existence", 200)}),
  SkipIf({Equals("B", 1, {3, 4})},
     Q("B", 2, "MS", All, Neutral(14) \o <<"N">>, {V1("tool_inventory", "inventory_completeness", 100)})) >>

SectionB2 == <<
  SkipIf({Equals("B", 1, {3, 4})},
     Q("B", 3, "SS", All, Neutral(4) \o <<"D">>, {V1("tool_inventory", "inventory_currency", 100)})),
  SkipIf({Equals("B", 1, {3, 4})},
     Q("B", 4, "SS", All, Neutral(4) \o <<"D">>, {V1("tool_inventory", "inventory_ownership", 100)})),
  SkipIf({Equals("B", 1, {1, 2})},
     Q("B", 5, "SS", All, <<"-","-","N","D">>, {V1("tool_inventory", "inventory_attempted", 50)})) >>

SectionB3 == <<
  SkipIf({Equals("B", 1, {1, 2})},
     Q("B", 6, "MS", All, Neutral(7), {V1("tool_inventory", "barriers", 50)})),
  Q("B", 7, "SS", All, Neutral(5) \o <<"D">>, {V1("tool_inventory", "external_readiness", 150)}),
  Q("B", 8, "YN", All, <<"Y","N","D">>, {V1("tool_inventory", "external_pressure", 50)}),
  Q("B", 9, "NR", All, Neutral(7) \o <<"D">>, {V1("tool_inventory", "leadership_tool_count", 100)}) >>

SectionB4 == <<
  Q("B", 10, "SS", All, <<"Y","P","-","-","D">>, {V1("tool_inventory", "leadership_confidence", 50)}),
  Q("B", 11, "NR", {"MGR", "IC"}, <<"N">> \o Neutral(5), {V1("tool_inventory", "ic_tool_count", 100)}),
  Q("B", 13, "YN", {"MGR", "IC"}, <<"-","-","N","D","D">>, {V1("tool_inventory", "shadow_ai", 150)}),
  Q("B", 14, "SS", {"CEO", "CFO", "CIO", "CISO", "COO", "VP", "DIR"}, <<"-","-","N","D">>,
       {V1("tool_inventory", "shadow_adoption", 100)}) >>

SectionB5 == <<
  Q("B", 15, "SS", {"CEO", "CFO", "CIO", "CISO", "COO"}, Neutral(4) \o <<"D">>,
       {V1("tool_inventory", "vendor_enabled_awareness", 100)}),
  Q("B", 16, "SS", {"CIO", "CISO"}, <<"-","-","N","D">>, {V1("tool_inventory", "discovery_discipline", 100)}),
  Q("B", 17, "MATRIX", {"CEO", "CFO", "CIO", "CISO", "COO"}, <<>>,
       {V1("tool_inventory", "per_tool_detail", 200)}) >>

SectionB6 == <<
  Q("B", 19, "MS", {"CEO", "CFO", "CIO", "CISO", "COO"}, Neutral(13) \o <<"D">>,
       {V1("tool_inventory", "vendor_enabled_categories", 100)}),
  Q("B", 21, "NR", All, Neutral(5) \o <<"D">>, {V1("tool_inventory", "additions_velocity", 50)}),
  Q("B", 22, "NR", All, Neutral(4) \o <<"D">>, {V1("tool_inventory", "retirements_discipline", 50)}),
  Q("B", 23, "YN", All, Neutral(4) \o <<"D">>, {V1("tool_inventory", "kill_discipline", 100)}) >>

SectionB7 == <<
  Q("B", 24, "SS", All, <<"-","-","N","D">>, {V1("tool_inventory", "approval_process", 150)}) >>

SectionC1 == <<
  Q("C", 3, "NR", {"CEO", "CFO"}, Neutral(7) \o <<"D">>, {V1("cost_mapping", "total_spend", 100)}),
  Q("C", 4, "SS", {"CEO", "CFO"}, <<"Y","P","-","D">>, {V1("cost_mapping", "spend_confidence", 50)}),
  Q("C", 5, "YN", {"CEO", "CFO", "CIO"}, <<"-","P","N","D">>, {V1("cost_mapping", "shadow_spend", 150)}),
  Q("C", 6, "SS", {"CEO", "CFO"}, <<"-","-","P","N","D">>, {V1("cost_mapping", "budget_line_discipline", 150)}) >>

SectionC2 == <<
  SkipIf({Equals("C", 6, {4, 5})},
     Q("C", 2, "MS", {"CEO", "CFO"}, Neutral(9) \o <<"N">>,
       {V1("cost_mapping", "spend_report_completeness", 100)})),
  Q("C", 7, "MS", All, Neutral(7) \o <<"D">>, {V1("cost_mapping", "hidden_cost_awareness", 200)}),
  Q("C", 10, "SS", {"MGR", "IC"}, Neutral(5), {V1("cost_mapping", "ic_error_correction_time", 100)}) >>

SectionC3 == <<
  SkipIf({OnlyIncludes("C", 7, {7, 8})},
     Q("C", 11, "NR", {"CEO", "CFO"}, Neutral(5) \o <<"D">>, {V1("cost_mapping", "hidden_cost_multiplier", 100)})),
  Q("C", 12, "SS", {"CFO", "COO"}, <<"Y","P","N","D">>, {V1("cost_mapping", "contract_tracking", 100)}),
  Q("C", 13, "YN", {"CFO", "COO"}, <<"Y","-","N","D">>, {V1("cost_mapping", "exit_cost_awareness", 100)}),
  Q("C", 14, "YN", {"CFO", "COO"}, <<"-","-","N","D">>, {V1("cost_mapping", "usage_pricing_awareness", 100)}) >>

SectionC4 == <<
  Q("C", 15, "SS", {"CEO", "CFO"}, <<"-","P","N","D">>, {V1("cost_mapping", "roi_discipline", 150)}),
  Q("C", 16, "SS", {"BOARD", "CEO", "CFO"}, <<"Y","P","P","N","D">>,
       {V1("cost_mapping", "board_defensibility", 150)}) >>

SectionD1 == <<
  Q("D", 1, "MATRIX", All, <<>>,
       {V1("performance_measurement", "per_use_case_metric_existence", 200),
        V2("performance_measurement", 100)}),
  Q("D", 5, "SS", {"BOARD", "CEO", "CFO", "COO"}, Neutral(4) \o <<"D">>,
       {V1("performance_measurement", "review_accountability", 100)}),
  Q("D", 7, "YN", All, <<"Y","N","D","-">>, {V1("performance_measurement", "continuation_discipline", 100)}),
  Q("D", 8, "YN", All, <<"Y","N","D">>, {V1("performance_measurement", "kill_discipline", 150)}) >>

SectionD2 == <<
  Q("D", 9, "SS", {"DIR", "MGR", "IC"}, Neutral(4) \o <<"N","-">>,
       {V1("performance_measurement", "ic_error_frequency", 150)}),
  Q("D", 10, "SS", All, <<"Y">> \o Neutral(3) \o <<"N","D">>,
       {V1("performance_measurement", "error_containment", 150)}),
  Q("D", 11, "SS", All, <<"-","P","N","D">>,
       {V1("performance_measurement", "high_stakes_review_process", 150)}),
  Q("D", 12, "YN", {"BOARD", "CEO", "CFO", "CIO", "CISO", "COO", "VP", "DIR"}, <<"-","P","N","D">>,
       {V1("performance_measurement", "external_error_incidents", 150)}) >>

SectionD3 == <<
  Q("D", 13, "YN", {"CEO", "CFO", "CIO", "CISO", "COO"}, <<"Y","N","D">>,
       {V1("performance_measurement", "regulatory_disclosure", 150)}),
  Q("D", 14, "L5", {"MGR", "IC"}, Neutral(5), {V1("performance_measurement", "ic_trust_likert", 100)}),
  Q("D", 15, "YN", {"CEO", "CFO", "COO"}, <<"Y","P","N","D">>,
       {V1("performance_measurement", "benchmarking_discipline", 100)}),
  Q("D", 16, "YN", {"CEO", "CFO", "COO"}, <<"Y","N","D">>,
       {V1("performance_measurement", "baseline_comparison", 100)}),
  Q("D", 17, "YN", {"CEO", "CFO", "CIO", "COO"}, <<"-","-","N","D">>,
       {V1("performance_measurement", "vendor_performance_data", 100)}) >>

SectionD4 == <<
  Q("D", 18, "YN", All, Neutral(3) \o <<"N","D">>,
       {V1("performance_measurement", "stakeholder_satisfaction", 100)}),
  Q("D", 19, "SS", {"BOARD", "CEO", "CFO", "CIO", "CISO", "COO", "HR"}, Neutral(3) \o <<"N","N","-","D">>,
       {V1("risk_exposure", "bias_audit_discipline_documented", 200),
        V3("decision_influence_review", 150)}) >>

SectionE1 == <<
  Q("E", 1, "SS", {"CEO", "CIO", "CISO"}, <<"-","P","N","D">>,
       {V1("risk_exposure", "data_exposure_existence", 200), V3("data_exposure_assessment", 150)}),
  SkipIf({Equals("E", 1, {3, 4})},
     Q("E", 2, "MS", {"CEO", "CIO", "CISO"}, Neutral(11),
       {V1("risk_exposure", "data_exposure_categories", 150), V3("data_exposure_assessment", 100)})),
  Q("E", 3, "YN", {"BOARD", "CISO"}, <<"Y","-","N","D">>,
       {V1("risk_exposure", "legal_review_discipline", 100), V3("data_exposure_assessment", 50)}),
  Q("E", 4, "YN", {"CIO", "CISO"}, <<"-","P","N","D">>,
       {V1("risk_exposure", "data_retention_awareness", 150), V3("data_exposure_assessment", 100)}) >>

SectionE2 == <<
  Q("E", 5, "YN", {"BOARD", "CEO", "CISO"}, <<"Y","N","-","D">>,
       {V1("risk_exposure", "notification_compliance", 100), V3("data_exposure_assessment", 50)}),
  Q("E", 6, "YN", {"CIO", "CISO"}, <<"Y","P","N","D">>,
       {V1("risk_exposure", "regulated_data_mapping", 150), V3("data_exposure_assessment", 100)}),
  Q("E", 7, "YN", {"CIO", "CISO"}, <<"Y","N","D">>,
       {V1("risk_exposure", "data_classification_policy", 100), V3("data_exposure_assessment", 50)}),
  SkipIf({Equals("E", 7, {2})},
     Q("E", 8, "YN", {"CIO", "CISO"}, <<"Y","N","D">>,
       {V1("risk_exposure", "data_classification_enforcement", 100), V3("data_exposure_assessment", 50)})) >>

SectionE3 == <<
  Q("E", 9, "MS", {"BOARD", "CEO", "CFO", "CIO", "CISO", "COO", "HR"}, Neutral(8) \o <<"D">>,
       {V1("risk_exposure", "high_stakes_use_categories", 250), V3("decision_influence_review", 200)}),
  Q("E", 11, "SS", {"CEO", "COO", "VP", "DIR"}, <<"-","-","N","D">>,
       {V1("risk_exposure", "unreviewed_external_output", 150), V3("decision_influence_review", 100)}),
  Q("E", 12, "YN", All, <<"Y","N","D">>,
       {V1("risk_exposure", "attribution_risk", 100), V3("decision_influence_review", 50)}),
  Q("E", 14, "YN", {"BOARD", "CEO"}, <<"-","P","N","D">>,
       {V1("risk_exposure", "undisclosed_external_publication", 150),
        V3("decision_influence_review", 100)}) >>

SectionE4 == <<
  Q("E", 15, "SS", All, <<"-","-","N","D">>,
       {V1("risk_exposure", "customer_facing_disclosure", 150), V3("decision_influence_review", 100)}),
  Q("E", 17, "YN", {"CFO", "CIO", "CISO"}, <<"Y","N","D">>,
       {V1("risk_exposure", "vendor_incident_disclosure", 150), V3("vendor_risk_inventory", 100)}),
  Q("E", 18, "SS", {"CIO", "CISO"}, <<"Y","-","N","D">>,
       {V1("risk_exposure", "vendor_compliance_verification", 100), V3("vendor_risk_inventory", 100)}),
  Q("E", 19, "SS", {"CEO", "CIO", "COO"}, <<"-","-","N","D">>,
       {V1("risk_exposure", "vendor_switching_capability", 100), V3("vendor_risk_inventory", 50)}) >>

SectionE5 == <<
  Q("E", 20, "YN", {"CEO", "CFO"}, <<"Y","P","N","D">>,
       {V1("risk_exposure", "indemnification_review", 100), V3("vendor_risk_inventory", 50)}),
  Q("E", 21, "SS", {"BOARD", "CEO", "CFO"}, <<"-","-","N","D">>,
       {V1("risk_exposure", "ai_insurance_coverage", 100)}),
  Q("E", 22, "YN", {"BOARD", "CEO"}, <<"Y","N","D">>, {V1("risk_exposure", "liability_opinion", 100)}),
  SkipIf({DoesNotInclude("E", 9, {1})},
     Q("E", 23, "SS", {"CEO", "CISO", "HR"}, <<"-","-","N","D">>,
       {V1("risk_exposure", "bias_audit_discipline", 150), V3("decision_influence_review", 150)})) >>

SectionE6 == <<
  SkipIf({DoesNotInclude("E", 9, {1}), DoesNotInclude("A", 6, {LocalLaw144})},
     Q("E", 24, "SS", {"CEO", "HR"}, <<"Y","-","N","D">>,
       {V1("risk_exposure", "nyc_ll144_compliance", 150), V3("framework_crosswalk_readiness", 100)})),
  Q("E", 25, "SS", {"CIO", "CISO", "COO"}, <<"-","P","N","D">>,
       {V1("risk_exposure", "autonomous_execution_presence", 200), Signal("autonomous_execution_readiness", 250)}),
  SkipIf({Equals("E", 25, {3, 4})},
     Q("E", 26, "SS", {"CIO", "CISO", "COO"}, <<"-","-","N","D">>,
       {V1("risk_exposure", "autonomous_action_scope", 150), Signal("autonomous_execution_readiness", 200)})) >>

SectionE7 == <<
  SkipIf({Equals("E", 25, {3, 4})},
     Q("E", 27, "SS", {"CIO", "CISO", "COO"}, <<"-","-","N","D">>,
       {V1("risk_exposure", "autonomous_circuit_breakers", 200), Signal("autonomous_execution_readiness", 250)})),
  SkipIf({Equals("E", 25, {3, 4})},
     Q("E", 28, "SS", {"CIO", "CISO", "COO"}, <<"Y","P","N","D">>,
       {V1("risk_exposure", "autonomous_access_gating", 200), Signal("autonomous_execution_readiness", 250)})),
  Q("E", 29, "MS", {"BOARD", "CFO", "CIO", "CISO"}, Neutral(10) \o <<"N","D">>,
       {V1("risk_exposure", "vendor_flow_downs", 200), V3("vendor_risk_inventory", 200)}) >>

SectionE8 == <<
  Q("E", 30, "SS", {"BOARD", "CEO", "CFO", "COO"}, <<"-","-","N","D","-">>,
       {V1("risk_exposure", "external_claim_substantiation", 150), V3("decision_influence_review", 100)}),
  Q("E", 31, "SS", {"CEO", "CFO", "CIO", "CISO"}, Neutral(3) \o <<"N","D","-">>,
       {V1("risk_exposure", "subprocessor_disclosure", 150), V3("vendor_risk_inventory", 150)}),
  Q("E", 32, "SS", {"CFO", "CIO", "CISO", "COO"}, Neutral(3) \o <<"N","D">>,
       {V1("risk_exposure", "procurement_discipline", 150), V3("vendor_risk_inventory", 150)}) >>

SectionE9 == <<
  Q("E", 33, "SS", {"BOARD", "CEO", "CFO", "CIO", "CISO", "COO"}, Neutral(3) \o <<"N","D","-">>,
       {V1("risk_exposure", "human_oversight_per_use_case", 200), V3("decision_influence_review", 150)}) >>

SectionF1 == <<
  Q("F", 1, "SS", All, <<"Y","-","-","N","D">>,
       {V1("governance_gaps", "policy_existence", 200), V3("accountability_mapping", 100)}),
  Q("F", 2, "MATRIX_CHOICE", {"BOARD", "CEO", "CFO", "COO"}, <<>>,
       {V1("governance_gaps", "governance_structures", 250), V3("accountability_mapping", 200),
        V1("performance_measurement", "board_reporting_crossfeed", 100)}),
  Q("F", 6, "YN", {"BOARD", "CEO"}, <<"-","-","N","D">>,
       {V1("governance_gaps", "action_discipline", 150), V3("accountability_mapping", 100)}) >>

SectionF2 == <<
  Q("F", 7, "SS", {"CEO", "CIO", "CISO", "COO"}, <<"-","-","N","D">>,
       {V1("governance_gaps", "adoption_evaluation_process", 150), V3("framework_crosswalk_readiness", 100)}),
  Q("F", 8, "SS", {"BOARD", "CIO", "CISO"}, <<"-","-","N","D">>,
       {V1("governance_gaps", "incident_response_process", 200), V3("incident_response_readiness", 250)}),
  Q("F", 9, "YN", {"BOARD", "CEO"}, <<"-","-","N","D">>, {V1("governance_gaps", "audit_discipline", 150)}),
  Q("F", 10, "SS", {"BOARD", "CEO", "CFO"}, Neutral(4) \o <<"N","D">>,
       {V1("governance_gaps", "risk_register", 150), V3("accountability_mapping", 100)}) >>

SectionF3 == <<
  Q("F", 11, "SS", All, <<"-","-","N","D">>,
       {V1("governance_gaps", "training_program", 100), V2("people_readiness", 100)}),
  Q("F", 12, "RANK", All, Neutral(10), {V1("governance_gaps", "barrier_ranking", 100)}),
  Q("F", 13, "SS", {"BOARD", "CEO", "CIO", "CISO"}, <<"Y","P","N","-">>,
       {V3("framework_crosswalk_readiness", 200)}),
  Q("F", 14, "SS", {"BOARD", "CEO", "CIO", "CISO"}, <<"Y","P","N","-">>,
       {V3("framework_crosswalk_readiness", 200)}) >>

SectionF4 == <<
  Q("F", 15, "SS", {"BOARD", "CEO", "CIO", "CISO"}, <<"-","-","N","-","D">>,
       {V3("framework_crosswalk_readiness", 200)}),
  SkipIf({Equals("F", 15, {4})},
     Q("F", 16, "SS", {"BOARD", "CEO", "CIO", "CISO"}, <<"-","-","N","D">>,
       {V3("framework_crosswalk_readiness", 150)})),
  Q("F", 17, "SS", {"BOARD", "CEO", "CFO", "COO"}, <<"-","-","N","D">>,
       {V3("incident_response_readiness", 200), Signal("personal_defensibility", 150)}),
  Q("F", 18, "SS", {"BOARD", "CEO", "CFO", "COO"}, <<"Y","-","N","D">>,
       {Signal("personal_defensibility", 200)}) >>

SectionF5 == <<
  Q("F", 19, "SS", {"BOARD", "CEO", "CIO"}, <<"Y","-","N","D">>, {V3("accountability_mapping", 150)}),
  Q("F", 20, "SS", {"CEO", "CIO", "CISO"}, <<"Y","P","N","D">>, {V3("accountability_mapping", 200)}),
  Q("F", 21, "SS", {"CEO", "CFO", "COO"}, <<"Y","-","N","D">>, {Signal("governance_cadence", 150)}),
  Q("F", 22, "SS", {"BOARD", "CEO", "CIO", "CISO"}, <<"Y","P","N","N","D">>,
       {V3("accountability_mapping", 250), Signal("per_system_documentation", 200)}),
  Q("F", 23, "SS", {"CFO", "CIO", "CISO", "COO"}, <<"-","-","N","D">>,
       {V1("risk_exposure", "data_lineage_documentation", 150), V3("data_exposure_assessment", 150)}) >>

SectionF6 == <<
  Q("F", 24, "SS", {"BOARD", "CEO", "CFO", "CIO", "CISO", "COO"}, <<"Y","-","N","D","-">>,
       {V3("framework_crosswalk_readiness", 250), Signal("personal_defensibility", 150)}),
  Q("F", 25, "SS", {"BOARD", "CFO", "CIO", "CISO"}, Neutral(3) \o <<"N","D","-">>,
       {V1("governance_gaps", "incident_notification_window_readiness", 150),
        V3("incident_response_readiness", 200)}),
  Q("F", 26, "SS", {"BOARD", "CEO", "CFO", "CISO"}, <<"-","-","P","N","D">>,
       {V1("governance_gaps", "risk_taxonomy", 150), V3("accountability_mapping", 100)}) >>

SectionF7 == <<
  Q("F", 27, "SS", {"BOARD", "CEO", "CFO", "CISO"}, <<"-","-","P","N","D","-">>,
       {V1("governance_gaps", "internal_audit_evidence", 150), V3("framework_crosswalk_readiness", 100)}),
  Q("F", 28, "SS", {"BOARD", "CEO", "CFO", "CIO", "CISO", "COO"}, <<"-","-","P","N","D">>,
       {V1("governance_gaps", "management_review_evidence", 150), V3("accountability_mapping", 100)}),
  Q("F", 29, "SS", {"BOARD", "CEO", "CIO", "CISO", "COO"}, Neutral(3) \o <<"N","D">>,
       {V1("governance_gaps", "corrective_action_register", 150), V3("incident_response_readiness", 100)}) >>

SectionF8 == <<
  Q("F", 30, "SS", {"BOARD", "CEO", "CIO", "CISO", "COO"}, Neutral(3) \o <<"N","D">>,
       {V1("risk_exposure", "incident_communication_protocol", 150), V3("incident_response_readiness", 150)}),
  Q("F", 31, "SS", {"BOARD", "CEO", "CFO", "CIO", "COO"}, Neutral(4) \o <<"N","D">>,
       {V1("governance_gaps", "decision_influence_documentation", 200),
        V3("decision_influence_review", 200)}) >>

SectionG1 == <<
  Q("G", 1, "RANK", {"BOARD", "CEO", "CFO", "COO"}, Neutral(10),
       {V2("leadership_accountability", 150), Eff("outcome_alignment", 200)}),
  Q("G", 2, "YN", {"CEO", "CFO"}, <<"Y","N","P","D">>,
       {V2("leadership_accountability", 100), Eff("outcome_alignment", 150)}),
  Q("G", 4, "SS", {"BOARD", "CEO", "COO"}, <<"-","-","N","D">>,
       {V2("leadership_accountability", 100), V1("governance_gaps", "scalability_readiness", 50)}) >>

SectionG2 == <<
  Q("G", 5, "MS", {"COO", "VP", "DIR"}, Neutral(12) \o <<"N","D">>,
       {V2("workflow_readiness", 150), Eff("process_optimization", 150)}),
  Q("G", 6, "YN", {"COO", "VP", "DIR"}, <<"Y","N","D">>,
       {V2("operational_friction", 150), Eff("process_optimization", 150)}),
  Q("G", 7, "SS", {"MGR", "IC"}, <<"-","P","-","P","-">>,
       {V2("operational_friction", 150), Eff("process_optimization", 100)}) >>

SectionG3 == <<
  Q("G", 8, "SS", {"MGR", "IC"}, Neutral(4) \o <<"N","-">>,
       {V2("operational_friction", 150), Eff("process_optimization", 100)}),
  Q("G", 9, "L5", All, Neutral(5), {V2("leadership_accountability", 100), Eff("outcome_alignment", 100)}),
  Q("G", 10, "L5", All, Neutral(5),
       {Signal("regulatory_confidence", 100), V2("leadership_accountability", 50)}),
  Q("G", 11, "L5", All, Neutral(5), {V2("leadership_accountability", 100)}) >>

SectionG4 == <<
  Q("G", 12, "L5", All, Neutral(5), {Eff("outcome_alignment", 150), V2("leadership_accountability", 50)}) >>

SectionH1 == <<
  Q("H", 2, "MS", All, Neutral(5), {}),
  Q("H", 4, "SS", All, Neutral(4), {}),
  Q("H", 6, "TEXT", All, <<>>, {}) >>

-----------------------------------------------------------------------------
\* The whole bank, in document order.
Tier1Questions ==
  SectionA1 \o SectionA2 \o SectionA3 \o SectionA4 \o SectionA5 \o SectionB1 \o
    SectionB2 \o SectionB3 \o SectionB4 \o SectionB5 \o SectionB6 \o SectionB7 \o
    SectionC1 \o SectionC2 \o SectionC3 \o SectionC4 \o SectionD1 \o SectionD2 \o
    SectionD3 \o SectionD4 \o SectionE1 \o SectionE2 \o SectionE3 \o SectionE4 \o
    SectionE5 \o SectionE6 \o SectionE7 \o SectionE8 \o SectionE9 \o SectionF1 \o
    SectionF2 \o SectionF3 \o SectionF4 \o SectionF5 \o SectionF6 \o SectionF7 \o
    SectionF8 \o SectionG1 \o SectionG2 \o SectionG3 \o SectionG4 \o SectionH1
=============================================================================
