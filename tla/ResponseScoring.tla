--------------------------- MODULE ResponseScoring ---------------------------
(***************************************************************************)
(* src/scoring/response_scoring.py: the value in [0, 1] of one answer to   *)
(* one question, in the shapes in which submit_response stores answers     *)
(* (src/questionnaire/views.py), and src/scoring/confidence.py.            *)
(*                                                                         *)
(* An answer is the set of the positions selected (QuestionBank).  No      *)
(* question of the bank has an option_value_map, a "_dont_know_value" or   *)
(* an "ms_aggregation", and answers carry no notes and no attachments, so  *)
(* the branches for these are left out.                                    *)
(***************************************************************************)
EXTENDS QuestionBank, OptionWeights, Rationals

Score(value, dontKnow) == [value |-> value, dontKnow |-> dontKnow, excluded |-> FALSE]

\* Free text, rankings and the law inventory have no numeric value.
Excluded == [value |-> Zero, dontKnow |-> FALSE, excluded |-> TRUE]
ExcludedTypes == {"TEXT", "RANK", "LAW_INVENTORY"}

Only(answer) == CHOOSE position \in answer : TRUE

\* looks_like_dont_know, and heuristic_option_value in hundredths.
IsDontKnow(q, position) == q.opts[position] = "D"
HeuristicValue(class) ==
  CASE class = "Y" -> 100 [] class = "P" -> 50 [] class = "N" -> 0 [] class = "D" -> 75
    [] OTHER -> 50

\* _resolve_option_value: the curated weight comes before the patterns.  `weights` are the
\* question's curated weights (WeightsOf).
OptionValue(q, position, weights) ==
  Hundredths(IF position \in DOMAIN weights THEN weights[position]
             ELSE HeuristicValue(q.opts[position]))

ScoreSingle(q, answer, weights) ==
  Score(OptionValue(q, Only(answer), weights), IsDontKnow(q, Only(answer)))

\* The mean of the options selected.  A single box that is ticked is stored as a string
\* and not as a list of one: the scorer then walks its characters, no one of which is an
\* option or a word, and the answer is neutral and never "don't know".
ScoreMultiple(q, answer, weights) ==
  IF Cardinality(answer) = 1 THEN Score(Half, FALSE)
  ELSE Score(MeanOf([position \in answer |-> OptionValue(q, position, weights)], answer), FALSE)

\* A bracket of a numeric range: its place among the brackets that are not "don't know".
Brackets(q) == {i \in DOMAIN q.opts : ~IsDontKnow(q, i)}

Place(position, brackets) ==
  Ratio(Cardinality({i \in brackets : i < position}), Cardinality(brackets) - 1)

ScoreRange(q, answer, weights) ==
  IF IsDontKnow(q, Only(answer)) THEN Score(Hundredths(75), TRUE)
  ELSE IF Only(answer) \in DOMAIN weights
    THEN Score(OptionValue(q, Only(answer), weights), FALSE)
    ELSE Score(Place(Only(answer), Brackets(q)), FALSE)

\* A Likert scale of five.
ScoreLikert(answer) == Score(Ratio(Only(answer) - 1, 4), FALSE)

\* A grid is stored as rows of a name and a dict of cells: the scorer finds one string in
\* each row, the name, and never reaches the cells.
ScoreGrid == Score(Half, FALSE)

\* A choice matrix: one of four columns per row; position 4(row - 1) + column.
ChoiceColumns == <<"Y", "P", "N", "D">>
ScoreChoices(answer) ==
  LET Column(position) == ChoiceColumns[((position - 1) % 4) + 1]
  IN  Score(MeanOf([position \in answer |-> Hundredths(HeuristicValue(Column(position)))],
                   answer),
            2 * Cardinality({position \in answer : Column(position) = "D"})
              >= Cardinality(answer))

\* score_response, by question type; an unknown type is neutral.
ScoreByType(q, answer, weights) ==
  CASE q.type \in {"SS", "YN"}     -> ScoreSingle(q, answer, weights)
    [] q.type = "MS"               -> ScoreMultiple(q, answer, weights)
    [] q.type = "NR"               -> ScoreRange(q, answer, weights)
    [] q.type = "L5"               -> ScoreLikert(answer)
    [] q.type = "MATRIX"           -> ScoreGrid
    [] q.type = "MATRIX_CHOICE"    -> ScoreChoices(answer)
    [] q.type \in ExcludedTypes    -> Excluded
    [] OTHER                       -> Score(Half, FALSE)

ScoreResponse(q, answer) == ScoreByType(q, answer, WeightsOf(q.id))

-----------------------------------------------------------------------------
\* confidence_for_dk_ratio: what share of "don't know" leaves the score trusted.
HighConfidenceMaxDK == Hundredths(15)
MediumConfidenceMaxDK == Hundredths(35)

ConfidenceForRatio(ratio) ==
  IF AtMost(ratio, HighConfidenceMaxDK) THEN "high"
  ELSE IF AtMost(ratio, MediumConfidenceMaxDK) THEN "medium" ELSE "low"

\* compute_confidence of an item without documentation: nothing answered is "low".
ComputeConfidence(answered, dontKnow) ==
  IF answered = 0 THEN "low" ELSE ConfidenceForRatio(Ratio(dontKnow, answered))
=============================================================================
