----------------------------- MODULE AiitsaBank -----------------------------
(***************************************************************************)
(* The question bank of the AI IT Security Audit,                          *)
(* src/questionnaire/aiitsa_question_bank.py: the 143 questions of the     *)
(* Tier 1 audit and the 48 of its Tier 2 extension, three gates and the    *)
(* sets they open.  Every question is a single choice of the same four     *)
(* answers and is shown to every role.  AIITSA-GOV-001 is <<"GOV", 1>>.    *)
(***************************************************************************)
EXTENDS QuestionBank, TLC

\* The answers, by their place in ANSWER_OPTIONS.
AnswerYes == 1
AnswerPartially == 2
AnswerNo == 3
AnswerDontKnow == 4

BaselineAreas ==
  {"Inventory", "Access", "Data", "Vendors", "Incidents", "Governance", "Evidence"}

\* The default area of a section; the screening questions have none.
SectionArea ==
  [SCR |-> "", GOV |-> "Governance", SOC |-> "Incidents", ARC |-> "Access",
   APP |-> "Evidence", TPR |-> "Vendors", DAT |-> "Data", INV |-> "Inventory"]

\* The questions of the Tier 1 bank that are evidence for another area.
AreaOverrides ==
  [Evidence |-> {<<"SCR", 1>>, <<"ARC", 6>>} \cup
       ({"GOV"} \X {6, 8, 9, 10, 11, 16}),
   Governance |-> {<<"SCR", 2>>},
   Incidents |-> {<<"SCR", 3>>, <<"DAT", 19>>} \cup ({"ARC"} \X {4, 14, 19, 20, 21}) \cup
       ({"APP"} \X {2, 6, 9, 10, 12, 13, 25}),
   Access |-> {<<"SCR", 4>>, <<"SCR", 5>>, <<"TPR", 10>>, <<"DAT", 21>>} \cup
       ({"SOC"} \X {11, 12}) \cup ({"APP"} \X {3, 14, 15, 24}),
   Vendors |-> {<<"SCR", 6>>, <<"INV", 2>>},
   Data |-> {<<"SCR", 7>>, <<"ARC", 2>>} \cup ({"APP"} \X {4, 5, 16, 21, 23}) \cup
       ({"TPR"} \X {7, 9, 11}),
   Inventory |-> {"ARC"} \X {1, 3}]

AreaOf(id) ==
  IF \E area \in BaselineAreas : id \in AreaOverrides[area]
  THEN CHOOSE area \in BaselineAreas : id \in AreaOverrides[area]
  ELSE SectionArea[id[1]]

\* The questions that open the Visibility Triangle.
VisibilityTriangle == {"SCR"} \X (2 .. 7)

\* One security question; `gate` is the question whose answer opens it, or its own id.
Security(id, area, gate, weight) ==
  Q(id[1], id[2], "SS", All, <<"Y", "P", "N", "D">>, {})
    @@ [area |-> area, gate |-> gate, weight |-> weight]

\* _build: the questions first .. last of a section, in order.
Rows(section, first, last) ==
  [i \in 1 .. (last - first + 1) |->
     LET id == <<section, first + i - 1>> IN Security(id, AreaOf(id), id, 1)]

AiitsaTier1 ==
  Rows("SCR", 1, 7) \o Rows("GOV", 1, 18) \o Rows("SOC", 1, 23) \o Rows("ARC", 1, 24) \o
    Rows("APP", 1, 25) \o Rows("TPR", 1, 20) \o Rows("DAT", 1, 23) \o Rows("INV", 1, 3)

-----------------------------------------------------------------------------
(***************************************************************************)
(* The Tier 2 extension.  A set behind a gate is skipped when the gate is  *)
(* answered No or Don't know; the gates themselves are never scored.       *)
(***************************************************************************)
GateShips == <<"SCR", 8>>
GateBuilt == <<"SCR", 9>>
GateInfra == <<"SCR", 10>>
Gates == {GateShips, GateBuilt, GateInfra}

\* The numbers of a section's questions from `first` on, one per area named.
Ungated(section, first, areas) ==
  [i \in DOMAIN areas |->
     LET id == <<section, first + i - 1>> IN Security(id, areas[i], id, 1)]

Gated(gate, section, first, areas) ==
  [i \in DOMAIN areas |->
     SkipIf({Equals(gate[1], gate[2], {AnswerNo, AnswerDontKnow})},
            Security(<<section, first + i - 1>>, areas[i], gate, 1))]

GateQuestions ==
  [i \in 1 .. 3 |-> LET id == <<"SCR", 7 + i>> IN Security(id, "Governance", id, 0)]

OperatingTheProgram ==
  Ungated("GOV", 19, <<"Governance", "Governance", "Governance", "Evidence", "Governance">>) \o
    Ungated("SOC", 24, <<"Access", "Incidents", "Incidents">>) \o
    Ungated("TPR", 21, <<"Vendors", "Vendors", "Vendors">>) \o
    Ungated("DAT", 24, <<"Data", "Data", "Data">>)

ShippedProducts ==
  Gated(GateShips, "APP", 26,
        <<"Evidence", "Governance", "Governance", "Evidence", "Evidence", "Evidence",
          "Incidents", "Incidents", "Evidence">>)

OwnApplications ==
  Gated(GateBuilt, "INV", 4, <<"Inventory", "Inventory">>) \o
    Gated(GateBuilt, "APP", 35,
          <<"Data", "Data", "Access", "Access", "Data", "Incidents", "Governance",
            "Evidence", "Evidence">>)

OwnInfrastructure ==
  Gated(GateInfra, "ARC", 25,
        <<"Governance", "Inventory", "Access", "Access", "Incidents", "Access", "Access",
          "Access", "Governance", "Access", "Evidence">>)

AiitsaTier2 ==
  GateQuestions \o OperatingTheProgram \o ShippedProducts \o OwnApplications \o
    OwnInfrastructure

\* questions_for_tier: the bank an engagement of a tier walks.
SecurityQuestions(tier) ==
  IF tier = "tier_2" THEN AiitsaTier1 \o AiitsaTier2 ELSE AiitsaTier1
=============================================================================
