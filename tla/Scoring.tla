------------------------------- MODULE Scoring -------------------------------
(***************************************************************************)
(* Scoring one Tier 2 engagement (src/scoring/engine.py) while its         *)
(* respondents answer and edit: score_engagement reads who has completed,  *)
(* then the answers of each in a query of its own, then scores what it     *)
(* read.  An edit in the window makes the report again                     *)
(* (regenerate_after_edit), so scoring runs more than once.                *)
(*                                                                         *)
(* The bank is the constant Questions of Frameworks, a part of the real    *)
(* bank; how a respondent is walked through it is Questionnaire's subject, *)
(* and here one answer is one step.                                        *)
(***************************************************************************)
EXTENDS Aggregation, QuestionFlow

CONSTANTS
    Respondents,
    RoleOf,       \* [Respondents -> All]
    Selections,   \* [ids of Questions -> sets of positions a person may select]
    MaxEdits,     \* how many answers are changed (bound)
    MaxReports    \* how often the engagement is scored (bound)

ASSUME BankIsClosed == \A q \in Questions : \A c \in q.skip : \E p \in Questions : p.id = c.on

ASSUME RolesAssumption == \A r \in Respondents : RoleOf[r] \in All

\* submit_response: only a text or an inventory may be left empty; a scale has five places.
ASSUME SelectionsAssumption ==
  \A q \in Questions : \A selection \in Selections[q.id] :
    /\ IsFiniteSet(selection)
    /\ q.type \notin ExcludedTypes \cup {"TOOL_INVENTORY"} => selection # {}
    /\ q.type = "L5" => selection \subseteq 1 .. 5
    /\ q.type = "NR" => selection \subseteq DOMAIN q.opts

ASSUME BoundAssumption == MaxEdits \in Nat /\ MaxReports \in Nat

Bank == Tier1Questions

\* The places of the questions walked.
Places == {i \in DOMAIN Bank : Bank[i] \in Questions}

VARIABLES
    answers,      \* the responses table: respondent -> id -> selection
    completed,    \* the respondents with status completed, in the order of completed_at
    ids,          \* the respondents the running job has listed; <<>> is no job
    read,         \* the answers the job has read, one function per respondent listed
    report,       \* the last result: who was listed, what was read, each one's scores, and
                  \* the engagement's
    reports,      \* how many results there were
    edits, edited \* history: how many answers were changed, and whose

vars == <<answers, completed, ids, read, report, reports, edits, edited>>

NoReport == [ids |-> <<>>, read |-> <<>>, parts |-> <<>>, scores |-> <<>>]

VisibleNow(r) == VisibleTo(Bank, Places, "tier_1", RoleOf[r], answers[r])

Init ==
  /\ answers = [r \in Respondents |-> [id \in {} |-> {}]]
  /\ completed = <<>>
  /\ ids = <<>> /\ read = <<>>
  /\ report = NoReport /\ reports = 0
  /\ edits = 0 /\ edited = {}

-----------------------------------------------------------------------------
\* submit_response: the next visible question is answered.
Answer(r) ==
  /\ \E i \in NextUnanswered(Bank, VisibleNow(r), answers[r]) :
       \E selection \in Selections[Bank[i].id] :
         answers' = [answers EXCEPT ![r] = WithAnswer(@, Bank[i].id, selection)]
  /\ UNCHANGED <<completed, ids, read, report, reports, edits, edited>>

\* Nothing is left to answer: the respondent is completed, once.
Complete(r) ==
  /\ IsComplete(Bank, VisibleNow(r), answers[r])
  /\ r \notin ToSet(completed)
  /\ completed' = Append(completed, r)
  /\ UNCHANGED <<answers, ids, read, report, reports, edits, edited>>

\* edit_question: any answer given may be changed, shown still or not.
Edit(r) ==
  /\ edits < MaxEdits
  /\ \E id \in DOMAIN answers[r] : \E selection \in Selections[id] \ {answers[r][id]} :
       answers' = [answers EXCEPT ![r][id] = selection]
  /\ edits' = edits + 1
  /\ edited' = edited \cup {r}
  /\ UNCHANGED <<completed, ids, read, report, reports>>

-----------------------------------------------------------------------------
\* Altered: whoever has answered anything is listed.
LoadIdsOfAll ==
  /\ ids = <<>> /\ reports < MaxReports
  /\ completed # <<>>
  /\ ids' = completed \o SetToSeq({r \in Respondents : DOMAIN answers[r] # {}} \ ToSet(completed))
  /\ UNCHANGED <<answers, completed, read, report, reports, edits, edited>>

\* _load_completed_respondent_ids: without one, score_engagement raises ValueError.
LoadIds ==
  /\ ids = <<>> /\ reports < MaxReports
  /\ completed # <<>>
  /\ ids' = completed
  /\ UNCHANGED <<answers, completed, read, report, reports, edits, edited>>

\* _load_responses_for_respondent: every stored answer of the next one.
LoadResponses ==
  /\ Len(read) < Len(ids)
  /\ read' = Append(read, answers[ids[Len(read) + 1]])
  /\ UNCHANGED <<answers, completed, ids, report, reports, edits, edited>>

\* score_engagement, from the answers read.
RespondentResults ==
  [i \in DOMAIN read |-> [role |-> RoleOf[ids[i]], result |-> RespondentResult(read[i])]]

ReportOn(parts) ==
  [ids |-> ids, read |-> read, parts |-> parts, scores |-> Aggregate(parts)]

ScoreAnswers ==
  /\ ids # <<>> /\ Len(read) = Len(ids)
  /\ report' = ReportOn(RespondentResults)
  /\ reports' = reports + 1
  /\ ids' = <<>> /\ read' = <<>>
  /\ UNCHANGED <<answers, completed, edits, edited>>

Next ==
  \/ \E r \in Respondents : Answer(r) \/ Complete(r) \/ Edit(r)
  \/ LoadIds \/ LoadResponses \/ ScoreAnswers

Spec == Init /\ [][Next]_vars

-----------------------------------------------------------------------------
\* Rows stay in their types: nobody answers a question of another role, and only who has
\* completed is listed.
RowsOK ==
  /\ \A r \in Respondents :
       /\ DOMAIN answers[r] \subseteq {q.id : q \in {q \in Questions : RoleOf[r] \in q.roles}}
       /\ \A id \in DOMAIN answers[r] : answers[r][id] \in Selections[id]
  /\ ToSet(completed) \subseteq Respondents /\ IsInjective(completed)
  /\ ToSet(ids) \subseteq ToSet(completed)
  /\ Len(read) <= Len(ids)
  /\ reports \in 0 .. MaxReports /\ edits \in 0 .. MaxEdits /\ edited \subseteq Respondents

\* ... and a headline score is between 0 and 1.
TypeOK ==
  /\ RowsOK
  /\ reports > 0 => \A f \in FrameworkNames :
       /\ AtMost(Zero, report.scores[f].composite)
       /\ AtMost(report.scores[f].composite, One)

\* A result that no new job is about to replace.
Reported == reports > 0 /\ ids = <<>>

\* Which items of a framework each result has, and what the parts say of one item.
ItemNames(f) == DOMAIN report.scores[f].items
Parts(f, name) == {report.parts[i].result[f].items[name] : i \in DOMAIN report.parts}

\* A fraction lies between the least and the greatest of a set that is not empty.
Between(x, S) == (\E y \in S : AtMost(y, x)) /\ (\E y \in S : AtMost(x, y))

\* The combined score of an item lies between those of the respondents who answered it.
\* Only when no one of several answered enough of it to count may the others' 0 pull it
\* down (aggregation.py, the guard MIN_DIM_WEIGHT and the plain mean without it).
Deciding(entries, parts) ==
  LET answering == {p \in parts : p.answered > 0}
  IN  IF (Len(entries) = 1 \/ Clearing(entries) # {}) /\ answering # {} THEN answering ELSE parts

AggregateIsBetween ==
  Reported => \A f \in FrameworkNames : \A name \in ItemNames(f) :
    Between(report.scores[f].items[name].score,
            {p.score : p \in Deciding(EntriesOf(f, name, report.parts), Parts(f, name))})

\* A headline score lies between the scores of the items that somebody answered: one that
\* nobody answered does not pull it down (defects D1 and D3 of v1_audit.py).  Efficiency
\* is different by design: there a component without an answer halves the other's score.
MeanOfAssessed(result) ==
  LET assessed == Answered(result.items)
  IN  assessed # {} => Between(result.composite, {result.items[i].score : i \in assessed})

CompositeIsBetween ==
  Reported => \A f \in FrameworkNames \ {"efficiency"} :
    /\ MeanOfAssessed(report.scores[f])
    /\ \A i \in DOMAIN report.parts : MeanOfAssessed(report.parts[i].result[f])

\* Every score of the engagement is a mean of what goes into it (aggregation.py, the
\* frameworks' composites).
ScoresAreMeans == AggregateIsBetween /\ CompositeIsBetween

\* Who completed first makes no difference to any score, label or confidence.
OrderDoesNotMatter == Reported => Aggregate(Reverse(report.parts)) = report.scores

\* No item is trusted more in the engagement's result than in that of a respondent who
\* answered it: disagreement lowers the confidence and nothing raises it.
CombiningNeverRaisesConfidence ==
  Reported => \A f \in FrameworkNames : \A name \in ItemNames(f) :
    \A p \in Parts(f, name) :
      p.answered > 0 => Rank(p.confidence) <= Rank(report.scores[f].items[name].confidence)

\* Combining respondents is fair to them (aggregation.py): the order in which they completed
\* decides nothing, and their agreement or disagreement makes no item more certain.
CombiningIsFair == OrderDoesNotMatter /\ CombiningNeverRaisesConfidence

\* Of a respondent who changed no answer, exactly the questions that the answers lead to
\* are scored: none hidden, none missing (engine.py reads every stored row, and does not
\* look at the skip rules).
ScoresWhatWasAsked ==
  \A i \in DOMAIN report.ids :
    LET r == report.ids[i]
    IN  r \notin edited =>
          DOMAIN report.read[i] =
            Ids(Bank, VisibleTo(Bank, Places, "tier_1", RoleOf[r], report.read[i]))

-----------------------------------------------------------------------------
\* The second reading has the same respondents and questions as the first, and no answer
\* is worth less in it.
QuestionOf(id) == CHOOSE q \in Questions : q.id = id
ValueIn(reading, i, id) == ScoreResponse(QuestionOf(id), reading[i][id]).value

NoWorse(first, second) ==
  \A i \in DOMAIN first : \A id \in DOMAIN first[i] :
    AtMost(ValueIn(first, i, id), ValueIn(second, i, id))

SameQuestions(first, second) ==
  /\ DOMAIN first = DOMAIN second
  /\ \A i \in DOMAIN first : DOMAIN first[i] = DOMAIN second[i]

CountsForRisk(id) ==
  \E m \in QuestionOf(id).maps : m.framework = "v1_audit" /\ DimensionOf(m) = "risk_exposure"

RiskAnswersStand(first, second) ==
  \A i \in DOMAIN first : \A id \in DOMAIN first[i] :
    CountsForRisk(id) => first[i][id] = second[i][id]

Improves ==
  /\ reports > 0 /\ reports' = reports + 1
  /\ report'.ids = report.ids
  /\ SameQuestions(report.read, report'.read)
  /\ NoWorse(report.read, report'.read)

NoLower(f) == AtMost(report.scores[f].composite, report'.scores[f].composite)

\* When answers are changed for better ones and the report is made again, no headline
\* score falls.  For the V1 audit, answers that count for risk_exposure are excepted.
BetterAnswersScoreBetter ==
  [][Improves => /\ \A f \in FrameworkNames \ {"v1_audit"} : NoLower(f)
                 /\ RiskAnswersStand(report.read, report'.read) => NoLower("v1_audit")]_vars

\* What scoring/option_weights.py says of its weights: "1.0 = best signal (highest
\* maturity / lowest risk)", with the turning around of risk_exposure left to the
\* framework.  Then better answers never lower the audit's score.
BestAnswersAreBest == [][Improves => NoLower("v1_audit")]_vars
=============================================================================
