------------------------------ MODULE Frameworks ------------------------------
(***************************************************************************)
(* The four frameworks a respondent's answers are scored against           *)
(* (src/scoring/frameworks/): the V1 audit, the V2 readiness modules, the  *)
(* V3 governance steps and the efficiency components.                      *)
(*                                                                         *)
(* An item (a dimension, module, step, component, or a sub-component of a  *)
(* dimension) is a bag of weighted questions.  Scores are fractions of 1   *)
(* where the code has points of 100.  The gap lists, which order items by  *)
(* their score, are left out.                                              *)
(***************************************************************************)
EXTENDS ResponseScoring

CONSTANT Questions   \* the bank that is scored: a set of questions of QuestionBank

ASSUME QuestionsAssumption == Questions \subseteq Range(Tier1Questions)

\* Every mapping counts, and a numeric range has more than one bracket.
ASSUME BankIsWeighted ==
  \A q \in Range(Tier1Questions) :
    /\ IsFiniteSet(q.maps) /\ \A m \in q.maps : m.weight \in Nat \ {0}
    /\ q.type = "NR" => IsFiniteSet(DOMAIN q.opts) /\ DOMAIN q.opts \subseteq Nat
                        /\ Cardinality(Brackets(q)) > 1

FrameworkNames == {"v1_audit", "v2_readiness", "v3_governance", "efficiency"}

Assignment(q, weight) == [q |-> q, weight |-> weight]

\* The questions with a mapping that Counts(m), each with the weight of the mapping.
MappedBy(Counts(_)) ==
  UNION {{Assignment(q, m.weight) : m \in {m \in q.maps : Counts(m)}} : q \in Questions}

-----------------------------------------------------------------------------
(***************************************************************************)
(* One item.  A question without an answer, or of a type that has no       *)
(* numeric value, does not contribute to the mean.                         *)
(***************************************************************************)
\* The answers given, scored, and of these the ones that count.
Scores(assignments, answers) ==
  [a \in {a \in assignments : a.q.id \in DOMAIN answers} |->
     ScoreResponse(a.q, answers[a.q.id])]

Counting(scores) == {a \in DOMAIN scores : ~scores[a].excluded}

WeightedScore(scores, counting) ==
  WeightedMeanOf([a \in counting |-> scores[a].value],
                 [a \in counting |-> Hundredths(a.weight)], counting)

ItemOf(scores, counting, expected) ==
  [score    |-> IF counting = {} THEN Zero ELSE WeightedScore(scores, counting),
   answered |-> Cardinality(counting),
   expected |-> expected,
   dontKnow |-> Cardinality({a \in counting : scores[a].dontKnow}),
   weight   |-> SumOf([a \in counting |-> Hundredths(a.weight)], counting)]

ItemFrom(scores, expected) == ItemOf(scores, Counting(scores), expected)

Item(assignments, answers) == ItemFrom(Scores(assignments, answers), Cardinality(assignments))

Level(score, labels) ==
  LET thresholds == <<Ratio(1, 5), Ratio(2, 5), Ratio(3, 5), Ratio(4, 5)>>
      above == {i \in 1 .. 4 : Less(thresholds[i], score)}
  IN  labels[Cardinality(above) + 1]

\* bracket_for_score and maturity_for_score.
Label(framework, score) ==
  Level(score,
    CASE framework \in {"v1_audit", "efficiency"} ->
           <<"Critical", "Concerning", "Developing", "Sound", "Mature">>
      [] framework = "v2_readiness" ->
           <<"Ad hoc", "Emerging", "Defined", "Managed", "Optimizing">>
      [] framework = "v3_governance" ->
           <<"Absent", "Reactive", "Defined", "Integrated", "Continuous">>)

\* An item with its confidence, and one with its label and sub-components (<<>> is none).
Trusted(item, confidence) ==
  [score |-> item.score, answered |-> item.answered, expected |-> item.expected,
   dontKnow |-> item.dontKnow, weight |-> item.weight, confidence |-> confidence]

Rated(item, label, subs) ==
  [score |-> item.score, answered |-> item.answered, expected |-> item.expected,
   dontKnow |-> item.dontKnow, weight |-> item.weight, confidence |-> item.confidence,
   label |-> label, subs |-> subs]

\* Without an answer the confidence is "low".
WithConfidence(item) == Trusted(item, ComputeConfidence(item.answered, item.dontKnow))

\* "No answers is not Critical / Ad hoc / Absent" (defect D3): not assessed.
Assessed(framework, item, subs) ==
  IF item.answered = 0 THEN Rated(Trusted(item, "none"), "Not assessed", subs)
  ELSE Rated(WithConfidence(item), Label(framework, item.score), subs)

-----------------------------------------------------------------------------
(***************************************************************************)
(* The V1 audit: five dimensions, each the plain mean of its               *)
(* sub-components that have an answer.                                     *)
(***************************************************************************)
Dimensions ==
  {"tool_inventory", "cost_mapping", "performance_measurement", "risk_exposure",
   "governance_gaps"}

\* Altered: a dimension too many.
InvertedTwice == {"risk_exposure", "tool_inventory"}

InvertedDimensions == {"risk_exposure"}

\* In hundredths.
CompositeWeights ==
  [tool_inventory |-> 20, cost_mapping |-> 20, performance_measurement |-> 20,
   risk_exposure |-> 25, governance_gaps |-> 15]

\* _extract_v1_mappings: one orphan name is an alias, a missing sub-component has a name.
DimensionOf(m) == IF m.part = "governance" THEN "governance_gaps" ELSE m.part
SubComponentOf(m) == IF m.sub = "" THEN "_unspecified" ELSE m.sub

SubComponents(dimension) ==
  UNION {{SubComponentOf(m) : m \in {m \in q.maps :
            m.framework = "v1_audit" /\ DimensionOf(m) = dimension}} : q \in Questions}

\* _group_questions_by_dim_sub.
DimensionAssignments ==
  [d \in Dimensions |-> [sub \in SubComponents(d) |->
     MappedBy(LAMBDA m : /\ m.framework = "v1_audit"
                         /\ DimensionOf(m) = d /\ SubComponentOf(m) = sub)]]

\* _score_sub_component.
SubComponentScore(dimension, sub, answers) ==
  WithConfidence(Item(DimensionAssignments[dimension][sub], answers))

\* _aggregate_dimension: risk_exposure is turned around, for a high signal there "means a
\* bad state of the world".
Turned(dimension, raw) ==
  IF dimension \in InvertedDimensions THEN Minus(One, raw) ELSE raw

AggregateDimension(dimension, subs, active) ==
  [score    |-> IF active = {} THEN Zero
                ELSE Turned(dimension, MeanOf([s \in active |-> subs[s].score], active)),
   answered |-> SumFunction([s \in active |-> subs[s].answered]),
   expected |-> SumFunction([s \in DOMAIN subs |-> subs[s].expected]),
   dontKnow |-> SumFunction([s \in active |-> subs[s].dontKnow]),
   weight   |-> SumOf([s \in active |-> subs[s].weight], active)]

Answered(items) == {i \in DOMAIN items : items[i].answered > 0}

DimensionOfParts(dimension, subs) ==
  Assessed("v1_audit", AggregateDimension(dimension, subs, Answered(subs)), subs)

Dimension(dimension, answers) ==
  DimensionOfParts(dimension, [sub \in SubComponents(dimension) |->
                                 SubComponentScore(dimension, sub, answers)])

-----------------------------------------------------------------------------
(***************************************************************************)
(* V2, V3 and efficiency.  V2 adds every question of section D to          *)
(* performance_measurement; the other section rules of the code are by     *)
(* subsection, which no question of the bank has.                          *)
(***************************************************************************)
Modules ==
  {"workflow_readiness", "data_readiness", "people_readiness", "leadership_accountability",
   "performance_measurement", "operational_friction"}

ModuleAssignments ==
  [module \in Modules |->
     LET explicit == MappedBy(LAMBDA m : m.framework = "v2_readiness" /\ m.part = module)
         bySection == {q \in Questions : module = "performance_measurement" /\ q.id[1] = "D"}
     IN  explicit \cup
         {Assignment(q, 100) : q \in {q \in bySection : \A a \in explicit : a.q # q}}]

Steps ==
  {"accountability_mapping", "data_exposure_assessment", "decision_influence_review",
   "vendor_risk_inventory", "framework_crosswalk_readiness", "incident_response_readiness"}

StepAssignments ==
  [step \in Steps |-> MappedBy(LAMBDA m : m.framework = "v3_governance" /\ m.part = step)]

Components == {"outcome_alignment", "process_optimization"}

ComponentAssignments ==
  [component \in Components |->
     MappedBy(LAMBDA m : m.framework = "efficiency" /\ m.part = component)]

\* The cross-cutting signals of V3: scored, in the confidence, not in the composite.
SignalAssignments ==
  LET signals == UNION {{m.part : m \in {m \in q.maps : m.framework = "v3_signal"}} :
                          q \in Questions}
  IN  [signal \in signals |->
         MappedBy(LAMBDA m : m.framework = "v3_signal" /\ m.part = signal)]

\* _score_cross_cutting_signal.
Signals(answers) ==
  [s \in DOMAIN SignalAssignments |-> WithConfidence(Item(SignalAssignments[s], answers))]

\* The items of a framework, scored for one respondent.
ItemsOf(framework, answers) ==
  CASE framework = "v1_audit" ->
         [d \in Dimensions |-> Dimension(d, answers)]
    [] framework = "v2_readiness" ->
         [m \in Modules |-> Assessed(framework, Item(ModuleAssignments[m], answers), <<>>)]
    [] framework = "v3_governance" ->
         [s \in Steps |-> Assessed(framework, Item(StepAssignments[s], answers), <<>>)]
    [] framework = "efficiency" ->
         [c \in Components |-> Assessed(framework, Item(ComponentAssignments[c], answers), <<>>)]

-----------------------------------------------------------------------------
\* The headline score.  Only items with an answer count, except in efficiency, where a
\* component without one counts as 0 ("the other component's score, halved").
CompositeOf(framework, scores, active) ==
  IF active = {} THEN Zero
  ELSE CASE framework = "v1_audit" ->
              WeightedMeanOf(scores, [d \in active |-> Hundredths(CompositeWeights[d])], active)
         [] framework \in {"v2_readiness", "v3_governance"} -> MeanOf(scores, active)
         [] framework = "efficiency" -> MeanOf(scores, Components)

Composite(framework, items) ==
  CompositeOf(framework, [i \in DOMAIN items |-> items[i].score], Answered(items))

\* The share of "don't know" over all the items and signals, each question counted as
\* often as it is mapped.
OverallConfidence(items, signals) ==
  LET Total(field(_)) == SumFunction([i \in DOMAIN items |-> field(items[i])])
                           + SumFunction([s \in DOMAIN signals |-> field(signals[s])])
      answered == Total(LAMBDA item : item.answered)
      dontKnow == Total(LAMBDA item : item.dontKnow)
  IN  ConfidenceForRatio(IF answered = 0 THEN Zero ELSE Ratio(dontKnow, answered))

\* score_v1_audit, score_v2_readiness, score_v3_governance, score_efficiency.
Outcome(framework, items, signals, confidence, composite) ==
  [items |-> items, signals |-> signals, confidence |-> confidence,
   composite |-> composite, label |-> Label(framework, composite)]

Result(framework, items, signals) ==
  Outcome(framework, items, signals, OverallConfidence(items, signals),
          Composite(framework, items))

FrameworkResult(framework, answers) ==
  Result(framework, ItemsOf(framework, answers),
         IF framework = "v3_governance" THEN Signals(answers) ELSE <<>>)

\* _score_for_responses.
RespondentResult(answers) == [f \in FrameworkNames |-> FrameworkResult(f, answers)]
=============================================================================
