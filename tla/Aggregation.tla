----------------------------- MODULE Aggregation -----------------------------
(***************************************************************************)
(* src/scoring/aggregation.py: the results of several respondents combined *)
(* into one, item by item, weighted by role and by how much of the item    *)
(* the respondent answered.                                                *)
(*                                                                         *)
(* An entry is one respondent's [role, item]; the combined item has the    *)
(* shape of a respondent's.  The list of contested questions, which feeds  *)
(* only the text of the report, is left out.                               *)
(***************************************************************************)
EXTENDS Frameworks, RoleWeights

DivergenceThreshold == Ratio(1, 5)   \* DIVERGENCE_THRESHOLD, of 1
MinDimWeight == One                  \* MIN_DIM_WEIGHT

\* _cov: what part of the item the respondent answered, at most 1.
Cov(item) ==
  IF item.expected = 0 THEN Zero ELSE LeastOf(Ratio(item.answered, item.expected), One)

EntryWeight(role, framework, name, item) ==
  Times(Ratio(RoleWeight(role, framework, name), 10), Cov(item))

\* The entries for one item: respondents is a sequence of [role, result].
Entry(role, framework, name, item) ==
  [role |-> role, item |-> item, weight |-> EntryWeight(role, framework, name, item)]

EntriesFor(framework, name, respondents, items) ==
  [i \in DOMAIN respondents |-> Entry(respondents[i].role, framework, name, items[i])]

\* The guard: the entry has a weight, and enough question weight was answered.
Clears(entry) == Less(Zero, entry.weight) /\ AtMost(MinDimWeight, entry.item.weight)

Clearing(entries) == {i \in DOMAIN entries : Clears(entries[i])}

ScoresIn(entries) == [i \in DOMAIN entries |-> entries[i].item.score]

\* Altered: every entry counts the same, answered or not.
MeanScorePlain(entries, counted) == MeanOf(ScoresIn(entries), DOMAIN entries)

\* The weighted mean of the entries that clear the guard; when none does, the plain mean
\* of all of them.
MeanScore(entries, counted) ==
  IF counted = {} THEN MeanOf(ScoresIn(entries), DOMAIN entries)
  ELSE WeightedMeanOf(ScoresIn(entries), [i \in counted |-> entries[i].weight], counted)

\* Leaders and workforce both count, and their means are 20 points or more apart.
Diverging(entries, leaders, workers) ==
  /\ leaders # {} /\ workers # {}
  /\ AtMost(DivergenceThreshold,
            Distance(MeanScore(entries, leaders), MeanScore(entries, workers)))

Flagged(entries, counted) ==
  Diverging(entries, {i \in counted : entries[i].role \in Leadership},
                     {i \in counted : entries[i].role \in Workforce})

ConfidenceOrder == <<"high", "medium", "low">>
Rank(confidence) == CHOOSE i \in 1 .. 3 : ConfidenceOrder[i] = confidence

\* _worst and _penalise: "none" is not known, and nothing known is "low".
KnownRanks(confidences) == {Rank(c) : c \in confidences \cap {"high", "medium", "low"}}

Worst(confidences) ==
  IF KnownRanks(confidences) = {} THEN "low" ELSE ConfidenceOrder[Max(KnownRanks(confidences))]

Penalise(confidence) == ConfidenceOrder[Min({Rank(confidence) + 1, 3})]

-----------------------------------------------------------------------------
\* One item of _aggregate_items, with the fields of _merge_common.
Combined(entries, counted, worst) ==
  [score      |-> MeanScore(entries, counted),
   answered   |-> SumFunction([i \in DOMAIN entries |-> entries[i].item.answered]),
   expected   |-> Max({entries[i].item.expected : i \in DOMAIN entries}),
   dontKnow   |-> SumFunction([i \in DOMAIN entries |-> entries[i].item.dontKnow]),
   weight     |-> SumOf([i \in DOMAIN entries |-> entries[i].item.weight], DOMAIN entries),
   confidence |-> IF Flagged(entries, counted) THEN Penalise(worst) ELSE worst]

Merged(entries) ==
  Combined(entries, Clearing(entries),
           Worst({entries[i].item.confidence : i \in DOMAIN entries}))

\* Altered: the label is the first respondent's.
LabelledLikeTheFirst(framework, entries, subs) ==
  Rated(Merged(entries), entries[1].item.label, subs)

\* The label is always that of the score, also when nobody answered anything.
WithLabel(framework, merged, subs) == Rated(merged, Label(framework, merged.score), subs)
Labelled(framework, entries, subs) == WithLabel(framework, Merged(entries), subs)

\* _aggregate_v1_subcomponents: inside a dimension; no sub-component has a role weight.
SubComponentsOf(dimension, respondents) ==
  [sub \in SubComponents(dimension) |->
     Merged(EntriesFor("v1_audit", sub, respondents,
              [i \in DOMAIN respondents |->
                 respondents[i].result["v1_audit"].items[dimension].subs[sub]]))]

EntriesOf(framework, name, respondents) ==
  EntriesFor(framework, name, respondents,
             [i \in DOMAIN respondents |-> respondents[i].result[framework].items[name]])

AggregateItem(framework, name, respondents) ==
  Labelled(framework, EntriesOf(framework, name, respondents),
           IF framework = "v1_audit" THEN SubComponentsOf(name, respondents) ELSE <<>>)

AggregateItems(framework, respondents) ==
  [name \in DOMAIN respondents[1].result[framework].items |->
     AggregateItem(framework, name, respondents)]

AggregateSignals(framework, respondents) ==
  [s \in DOMAIN respondents[1].result[framework].signals |->
     Merged(EntriesFor(framework, s, respondents,
              [i \in DOMAIN respondents |-> respondents[i].result[framework].signals[s]]))]

\* aggregate: the composite is computed from the combined items, and the confidence is
\* that of the worst item.
Whole(framework, items, signals) ==
  Outcome(framework, items, signals, Worst({items[i].confidence : i \in DOMAIN items}),
          Composite(framework, items))

AggregateResult(framework, respondents) ==
  Whole(framework, AggregateItems(framework, respondents),
        AggregateSignals(framework, respondents))

\* _aggregate_multi_respondent: one respondent's result is the engagement's.
Aggregate(respondents) ==
  IF Len(respondents) = 1 THEN respondents[1].result
  ELSE [f \in FrameworkNames |-> AggregateResult(f, respondents)]
=============================================================================
