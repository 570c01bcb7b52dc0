------------------------------ MODULE Coverage ------------------------------
(***************************************************************************)
(* The pure part of engagements/coverage.py: who must answer, by the size  *)
(* of the company, before a multi-respondent report may be generated.      *)
(*                                                                         *)
(* A slot is a family of roles and the number of respondents it needs.     *)
(* evaluate fills the slots greedily, narrowest first, each respondent in  *)
(* one slot (GreedyFilling).  No bracket has two slots with a common role, *)
(* so whatever the order a slot stays short exactly when too few           *)
(* respondents have one of its roles, and that is how RolesAreFilled says  *)
(* it (GreedyIsEnough of Tier2CoverageProofs).                             *)
(***************************************************************************)
EXTENDS Integers, FiniteSets

OPS_LEAD == {"COO", "VP", "DIR", "MGR"}
IT_LEAD  == {"CIO", "CISO"}

Slot(roles, need) == [roles |-> roles, need |-> need]

\* The slots that the four largest brackets share.
Officers == {Slot({"CEO"}, 1), Slot({"CFO"}, 1), Slot(IT_LEAD, 1),
             Slot({"COO"}, 1), Slot({"HR"}, 1)}

Requirement(minimum, slots) == [minimum |-> minimum, slots |-> slots]

REQUIREMENTS ==
    [bracket \in {"1-25", "26-100", "101-500", "501-2000", "2001-5000", "5000+"} |->
        CASE bracket = "1-25" ->
               Requirement(3, {Slot({"CEO"}, 1), Slot(OPS_LEAD, 1), Slot({"IC"}, 1)})
          [] bracket = "26-100" ->
               Requirement(5, {Slot({"CEO"}, 1), Slot({"CFO"}, 1), Slot(IT_LEAD, 1),
                               Slot({"COO", "VP", "DIR"}, 1), Slot({"MGR"}, 1)})
          [] bracket = "101-500" ->
               Requirement(8, Officers \cup {Slot({"DIR"}, 2), Slot({"IC"}, 2)})
          [] bracket = "501-2000" ->
               Requirement(15, Officers \cup {Slot({"VP"}, 2), Slot({"MGR"}, 3),
                                              Slot({"IC"}, 5)})
          [] bracket = "2001-5000" ->
               Requirement(20, Officers \cup {Slot({"VP"}, 3), Slot({"DIR"}, 5),
                                              Slot({"MGR"}, 7), Slot({"IC"}, 3)})
          [] bracket = "5000+" ->
               Requirement(25, Officers \cup {Slot({"VP"}, 3), Slot({"DIR"}, 5),
                                              Slot({"MGR"}, 7), Slot({"IC"}, 8)})]

ASSUME SlotsAreDisjoint ==
    \A bracket \in DOMAIN REQUIREMENTS :
      \A s, t \in REQUIREMENTS[bracket].slots : s = t \/ s.roles \cap t.roles = {}

\* completion_percentage >= MIN_COMPLETION: the rounding to four decimals
\* of the column cannot carry a share below 60% over the line for fewer
\* than 4,000 questions.  A share of no questions is 0.
EnoughAnswered(done, visible) == visible > 0 /\ 100 * done >= 60 * visible

\* role_gaps is empty.
RolesAreFilled(slots, counted, role) ==
    \A s \in slots : Cardinality({p \in counted : role[p] \in s.roles}) >= s.need

\* The loop over the slots, in an order: taken[k] are the respondents spent on the kth slot,
\* of its roles and from those the slots before it left, as many as it needs if there are.
GreedyFilling(order, taken, counted, role) ==
    \A k \in DOMAIN order :
      LET pool == counted \ UNION {taken[j] : j \in 1 .. (k - 1)}
          fitting == {p \in pool : role[p] \in order[k].roles}
      IN  /\ taken[k] \subseteq fitting
          /\ \/ Cardinality(taken[k]) = order[k].need
             \/ Cardinality(taken[k]) < order[k].need /\ taken[k] = fitting

\* role_gaps of a filling is empty.
NoGaps(order, taken) == \A k \in DOMAIN order : Cardinality(taken[k]) >= order[k].need

(***************************************************************************)
(* evaluate for tier_2: is_met means that missing_items is empty, and a    *)
(* respondent who was not removed and does not count is a missing item.    *)
(***************************************************************************)
IsMet(bracket, active, counted, role) ==
    /\ bracket \in DOMAIN REQUIREMENTS
    /\ Cardinality(counted) >= REQUIREMENTS[bracket].minimum
    /\ RolesAreFilled(REQUIREMENTS[bracket].slots, counted, role)
    /\ active \subseteq counted
=============================================================================
