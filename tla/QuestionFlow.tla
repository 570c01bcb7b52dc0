---------------------------- MODULE QuestionFlow ----------------------------
(***************************************************************************)
(* Which questions a respondent sees: role visibility and skip rules       *)
(* (src/questionnaire/skip_logic.py), the walk over the bank               *)
(* (src/questionnaire/flow.py) and the questions a company that bought     *)
(* both audits is asked only once (src/questionnaire/overlap.py).          *)
(*                                                                         *)
(* A question is known by its place in its bank, and a list of questions   *)
(* that keeps the order of the bank is the set of their places.  `answers` *)
(* maps the ids of the questions answered so far to the set of positions   *)
(* selected.  Every skip rule of the bank has the newer form               *)
(* {combine: "any", conditions}, whose conditions say when to SKIP; the    *)
(* older depends_on form, which no question uses, is left out.             *)
(***************************************************************************)
EXTENDS AiitsaBank, FiniteSets, SequencesExt

\* Altered: every role sees every question.
VisibleToAnyone(q, role) == TRUE

VisibleToRole(q, role) == role \in q.roles

\* A condition on a question that has no answer yet is not evaluable: it is dropped.
Evaluable(c, answers) == c.on \in DOMAIN answers

ConditionMet(c, answers) ==
  LET selected == answers[c.on]
  IN  \/ c.test = "answer_equals" /\ selected \cap c.values # {}
      \/ c.test = "answer_does_not_include" /\ selected \cap c.values = {}
      \/ c.test = "answer_only_includes" /\ selected # {} /\ selected \subseteq c.values

\* Any evaluable condition that is met hides the question; none evaluable shows it.
Skipped(q, answers) ==
  \E c \in q.skip : Evaluable(c, answers) /\ ConditionMet(c, answers)

\* filter_questions_for_session.
FilterForSession(bank, places, role, answers) ==
  {i \in places : VisibleToRole(bank[i], role) /\ ~Skipped(bank[i], answers)}

Ids(bank, places) == {bank[i].id : i \in places}

-----------------------------------------------------------------------------
(***************************************************************************)
(* The overlap of the two audits.  Each security question of the table is  *)
(* paired with a governance question and an ordered list of rules: the     *)
(* positions whose label starts with a prefix, and the security answer     *)
(* they stand for; the first rule that matches wins.                       *)
(***************************************************************************)
Rule(positions, answer) == [positions |-> positions, answer |-> answer]

OverlapTable ==
  { [security |-> <<"GOV", 1>>, source |-> <<"F", 10>>,
     rules |-> <<Rule({4}, AnswerPartially), Rule(1 .. 4, AnswerYes), Rule({5}, AnswerNo)>>],
    [security |-> <<"GOV", 18>>, source |-> <<"E", 21>>,
     rules |-> <<Rule({1}, AnswerYes), Rule({2}, AnswerPartially), Rule({3}, AnswerNo)>>],
    [security |-> <<"SOC", 9>>, source |-> <<"F", 8>>,
     rules |-> <<Rule({1}, AnswerYes), Rule({2}, AnswerYes), Rule({3}, AnswerNo)>>],
    [security |-> <<"DAT", 1>>, source |-> <<"F", 23>>,
     rules |-> <<Rule({1}, AnswerYes), Rule({2}, AnswerPartially), Rule({3}, AnswerNo)>>],
    [security |-> <<"DAT", 4>>, source |-> <<"E", 6>>,
     rules |-> <<Rule({1}, AnswerYes), Rule({2}, AnswerPartially), Rule({3}, AnswerNo)>>] }

\* translate: the security answer that a selected position of the governance question
\* stands for; its don't-know option is always Don't know, and {} is "cannot translate".
Translate(pair, options, position) ==
  IF options[position] = "D" THEN {AnswerDontKnow}
  ELSE LET matching == {i \in DOMAIN pair.rules : position \in pair.rules[i].positions}
       IN  IF matching = {} THEN {} ELSE {pair.rules[Min(matching)].answer}

\* Altered: the question that stands for another one is looked for in the security audit.
StoodForWithinAudit(q, bank, shown) ==
  \E pair \in OverlapTable : pair.security = q.id /\ pair.source[1] \in DOMAIN SectionArea
    /\ pair.source \in Ids(bank, shown)

\* skipped_for: a security question is dropped for a respondent who sees the source.
StoodFor(q, bank, shown) ==
  \E pair \in OverlapTable : pair.security = q.id /\ pair.source \in Ids(bank, shown)

-----------------------------------------------------------------------------
\* bank_for: the questions an instrument walks, Pillar I first.
BankFor(instrument, tier) ==
  CASE instrument = "tier_1"   -> Tier1Questions
    [] instrument = "aiitsa"   -> SecurityQuestions(tier)
    [] instrument = "combined" -> Tier1Questions \o SecurityQuestions(tier)

\* questions_visible_to_role over the part of a bank that is active.
VisibleTo(bank, places, instrument, role, answers) ==
  LET shown == FilterForSession(bank, {i \in places : bank[i].active}, role, answers)
  IN  IF instrument # "combined" THEN shown
      ELSE {i \in shown : ~StoodFor(bank[i], bank, shown)}

HasAnswer(bank, i, answers) == bank[i].id \in DOMAIN answers

AnsweredIn(bank, visible, answers) == {i \in visible : HasAnswer(bank, i, answers)}

\* The places of a set that have no other before them, or after them: one, or none.
First(places) == {i \in places : \A j \in places : i <= j}
Furthest(places) == {i \in places : \A j \in places : j <= i}

\* Altered: the bank is walked from its end.
NextUnansweredBackwards(bank, visible, answers) ==
  {i \in visible : /\ ~HasAnswer(bank, i, answers)
                   /\ \A j \in visible : i < j => HasAnswer(bank, j, answers)}

\* next_unanswered_question, as a set of at most one place.
NextUnanswered(bank, visible, answers) ==
  {i \in visible : /\ ~HasAnswer(bank, i, answers)
                   /\ \A j \in visible : j < i => HasAnswer(bank, j, answers)}

IsComplete(bank, visible, answers) == \A i \in visible : HasAnswer(bank, i, answers)

\* _last_answered_index: the furthest answered visible question, if there is one.
LastAnswered(bank, visible, answers) == Furthest(AnsweredIn(bank, visible, answers))

\* A table of answers with one more, or with one replaced.
WithAnswer(answers, id, selection) ==
  [other \in DOMAIN answers \cup {id} |-> IF other = id THEN selection ELSE answers[other]]

\* How many visible questions are answered.
Done(bank, visible, answers) == Cardinality(AnsweredIn(bank, visible, answers))

-----------------------------------------------------------------------------
(***************************************************************************)
(* What holds of the two banks, and what the walk relies on.  Every run    *)
(* that walks a bank evaluates it.                                         *)
(***************************************************************************)
Instruments == {"tier_1", "aiitsa", "combined"}
Tiers == {"tier_1", "tier_2"}

\* The types whose answer is one option.
OneChoice == {"SS", "YN"}

\* The banks are sequences, and no id is used twice (load_questions.py refuses a bank in
\* which one is).
ASSUME BanksAreSequences ==
  /\ Tier1Questions \in Seq(ToSet(Tier1Questions))
  /\ \A tier \in Tiers : SecurityQuestions(tier) \in Seq(ToSet(SecurityQuestions(tier)))

ASSUME IdsAreUnique ==
  \A instrument \in Instruments, tier \in Tiers :
    LET bank == BankFor(instrument, tier)
    IN  \A i, j \in DOMAIN bank : bank[i].id = bank[j].id => i = j

\* A skip rule reads earlier questions, which are never skipped themselves.
ASSUME RulesLookBack ==
  \A instrument \in Instruments, tier \in Tiers :
    LET bank == BankFor(instrument, tier)
    IN  \A j \in DOMAIN bank : \A c \in bank[j].skip :
          \E i \in 1 .. (j - 1) : bank[i].id = c.on /\ bank[i].skip = {}

\* The governance questions that stand for a security question are never skipped and
\* take one answer, and each of their options translates to a security answer.  None is
\* stood for itself.
ASSUME SourcesTranslate ==
  \A q \in ToSet(Tier1Questions) : \A pair \in OverlapTable :
    /\ q.id # pair.security
    /\ q.id = pair.source =>
         /\ q.skip = {} /\ q.type \in OneChoice
         /\ \A position \in DOMAIN q.opts : Translate(pair, q.opts, position) # {}

\* A security question is shown to every role, stands for no other, and is no governance
\* question.
ASSUME SecurityIsForAll ==
  \A tier \in Tiers : \A q \in ToSet(SecurityQuestions(tier)) :
    /\ q.roles = All /\ q.active
    /\ \A pair \in OverlapTable : q.id # pair.source
    /\ \A p \in ToSet(Tier1Questions) : p.id # q.id
=============================================================================
