---------------------------- MODULE ScoringProofs ----------------------------
(***************************************************************************)
(* Proofs about Scoring, for any respondents, roles, part of the bank and  *)
(* answers, and any number of edits and results.                           *)
(*                                                                         *)
(* What is scored of a respondent is whatever rows there are, and the skip *)
(* rules are not looked at again.  That these are the right rows comes     *)
(* from the walk: a rule reads only earlier questions, so an answer can    *)
(* hide only questions after it, and those are not answered yet.           *)
(*                                                                         *)
(* What the scores are is a matter of sums of fractions over finite sets,  *)
(* which are folds.  Induction is over the set of the numbers, or of the   *)
(* subsets, of which a fact holds: a smallest one outside it would         *)
(* contradict its definition (NumberInduction, SubsetInduction).           *)
(***************************************************************************)
EXTENDS Scoring, TLAPS, FiniteSetTheorems, WellFoundedInduction

\* What somebody of a role sees, given their answers.
Sees(role, given) == VisibleTo(Bank, Places, "tier_1", role, given)

\* Only what they see is answered, and nothing seen before it is left out.
Walked(role, given) ==
  /\ \A id \in DOMAIN given : \E i \in Sees(role, given) : Bank[i].id = id
  /\ \A i, j \in Sees(role, given) :
       i < j /\ HasAnswer(Bank, j, given) => HasAnswer(Bank, i, given)

-----------------------------------------------------------------------------
(***************************************************************************)
(* The bank, and who sees what of it.                                      *)
(***************************************************************************)
LEMMA BankFacts ==
  /\ \A i \in DOMAIN Bank : i \in Nat
  /\ \A i, j \in DOMAIN Bank : Bank[i].id = Bank[j].id => i = j
  /\ \A j \in DOMAIN Bank : \A c \in Bank[j].skip :
       \E i \in DOMAIN Bank : i < j /\ Bank[i].id = c.on
<1>1. Bank = BankFor("tier_1", "tier_1") /\ "tier_1" \in Instruments /\ "tier_1" \in Tiers
  BY DEF Bank, BankFor, Instruments, Tiers
<1>2. Bank \in Seq(ToSet(Bank))
  BY BanksAreSequences DEF Bank
<1>3. Len(Bank) \in Nat /\ DOMAIN Bank = 1 .. Len(Bank)
  BY <1>2
<1>4. \A i, j \in DOMAIN Bank : Bank[i].id = Bank[j].id => i = j
  BY <1>1, IdsAreUnique
<1>5. ASSUME NEW j \in DOMAIN Bank, NEW c \in Bank[j].skip
      PROVE  \E i \in DOMAIN Bank : i < j /\ Bank[i].id = c.on
  <2>1. \E i \in 1 .. (j - 1) : Bank[i].id = c.on
    BY <1>1, RulesLookBack
  <2> QED
    BY <1>3, <2>1
<1> QED
  BY <1>3, <1>4, <1>5

\* The skip rules only take questions away.
LEMMA SeesIs ==
  ASSUME NEW role, NEW given
  PROVE  Sees(role, given) = {i \in Places : /\ Bank[i].active
                                             /\ role \in Bank[i].roles
                                             /\ ~ Skipped(Bank[i], given)}
BY DEF Sees, VisibleTo, FilterForSession, VisibleToRole

(***************************************************************************)
(* The next answer hides nothing that comes before it, and shows nothing.  *)
(***************************************************************************)
LEMMA AnswerHidesLater ==
  ASSUME NEW role, NEW given, NEW i \in Places, Bank[i].id \notin DOMAIN given,
         NEW selection
  PROVE  /\ Sees(role, WithAnswer(given, Bank[i].id, selection)) \subseteq Sees(role, given)
         /\ \A j \in Sees(role, given) :
              j <= i => j \in Sees(role, WithAnswer(given, Bank[i].id, selection))
<1> DEFINE after == WithAnswer(given, Bank[i].id, selection)
<1>1. /\ DOMAIN after = DOMAIN given \cup {Bank[i].id}
      /\ \A other \in DOMAIN given : after[other] = given[other]
  BY DEF WithAnswer
<1> HIDE DEF after
<1>2. \A q : Skipped(q, given) => Skipped(q, after)
  BY <1>1 DEF Skipped, Evaluable, ConditionMet
<1>3. ASSUME NEW j \in Places, j <= i, Skipped(Bank[j], after)
      PROVE  Skipped(Bank[j], given)
  <2>1. \A c \in Bank[j].skip : c.on # Bank[i].id
    BY <1>3, BankFacts DEF Places
  <2> QED
    BY <1>1, <1>3, <2>1 DEF Skipped, Evaluable, ConditionMet
<1>4. /\ Sees(role, after) \subseteq Sees(role, given)
      /\ \A j \in Sees(role, given) : j <= i => j \in Sees(role, after)
  BY <1>2, <1>3, SeesIs
<1> QED
  BY <1>4 DEF after

(***************************************************************************)
(* Who answers the next question goes on walking.                          *)
(***************************************************************************)
LEMMA WalkGoesOn ==
  ASSUME NEW role, NEW given, Walked(role, given),
         NEW i \in NextUnanswered(Bank, Sees(role, given), given), NEW selection
  PROVE  Walked(role, WithAnswer(given, Bank[i].id, selection))
<1> DEFINE after == WithAnswer(given, Bank[i].id, selection)
<1>1. /\ i \in Sees(role, given) /\ i \in Places /\ Bank[i].id \notin DOMAIN given
      /\ \A j \in Sees(role, given) : j < i => HasAnswer(Bank, j, given)
  BY SeesIs DEF NextUnanswered, HasAnswer
<1>2. DOMAIN after = DOMAIN given \cup {Bank[i].id}
  BY DEF WithAnswer
<1>3. /\ Sees(role, after) \subseteq Sees(role, given)
      /\ \A j \in Sees(role, given) : j <= i => j \in Sees(role, after)
  BY <1>1, AnswerHidesLater
<1> HIDE DEF after
<1>4. \A j \in Sees(role, given) : j \in DOMAIN Bank /\ j \in Nat
  BY SeesIs, BankFacts DEF Places
<1>5. \A j \in Sees(role, given) : HasAnswer(Bank, j, given) => j < i
  BY <1>1, <1>4 DEF Walked, HasAnswer
<1>6. \A j \in Sees(role, given) : HasAnswer(Bank, j, after) => j <= i
  BY <1>1, <1>2, <1>4, <1>5, BankFacts DEF HasAnswer
<1>7. ASSUME NEW id \in DOMAIN after
      PROVE  \E j \in Sees(role, after) : Bank[j].id = id
  <2>1. CASE id = Bank[i].id
    BY <1>1, <1>3, <1>4, <2>1
  <2>2. CASE id \in DOMAIN given
    <3>1. PICK j \in Sees(role, given) : Bank[j].id = id
      BY <2>2 DEF Walked
    <3>2. j < i
      BY <1>5, <2>2, <3>1 DEF HasAnswer
    <3> QED
      BY <1>1, <1>3, <1>4, <3>1, <3>2
  <2> QED
    BY <1>2, <2>1, <2>2
<1>8. ASSUME NEW j \in Sees(role, after), NEW k \in Sees(role, after), j < k,
             HasAnswer(Bank, k, after)
      PROVE  HasAnswer(Bank, j, after)
  <2>1. j < i
    BY <1>1, <1>3, <1>4, <1>6, <1>8
  <2> QED
    BY <1>1, <1>2, <1>3, <2>1 DEF HasAnswer
<1>9. Walked(role, after)
  BY <1>7, <1>8 DEF Walked
<1> QED
  BY <1>9 DEF after

(***************************************************************************)
(* Who has walked to the end has answered exactly what they see.           *)
(***************************************************************************)
LEMMA EndOfTheWalk ==
  ASSUME NEW role, NEW given, Walked(role, given), IsComplete(Bank, Sees(role, given), given)
  PROVE  DOMAIN given = Ids(Bank, Sees(role, given))
BY DEF Walked, IsComplete, HasAnswer, Ids

-----------------------------------------------------------------------------
(***************************************************************************)
(* The invariant.                                                          *)
(***************************************************************************)
Tables == UNION {[D -> UNION {Selections[id] : id \in D}] :
                   D \in SUBSET {q.id : q \in Questions}}

RunsOK ==
  /\ answers \in [Respondents -> Tables]
  /\ completed \in Seq(Respondents) /\ ids \in Seq(Respondents)
  /\ read \in Seq(Tables)
  /\ ids # <<>> => reports < MaxReports

\* Who has only answered, and changed nothing, is on the walk; once completed, at its end.
WalksGoOn == \A r \in Respondents \ edited : Walked(RoleOf[r], answers[r])

CompletedAreDone ==
  \A r \in ToSet(completed) \ edited : IsComplete(Bank, VisibleNow(r), answers[r])

\* What the running job has read is as whole as what it will report.
ReadsWhatWasAsked ==
  \A i \in DOMAIN read :
    ids[i] \notin edited => DOMAIN read[i] = Ids(Bank, Sees(RoleOf[ids[i]], read[i]))

IInv ==
  /\ RunsOK /\ RowsOK
  /\ WalksGoOn /\ CompletedAreDone
  /\ ReadsWhatWasAsked /\ ScoresWhatWasAsked

-----------------------------------------------------------------------------
\* Nothing is answered, listed or scored at the start.
LEMMA InitIInv == Init => IInv
<1> SUFFICES ASSUME Init PROVE IInv
  OBVIOUS
<1>1. \A r \in Respondents : DOMAIN answers[r] = {} /\ answers[r] \in Tables
  <2>1. [id \in {} |-> {}] \in [{} -> UNION {Selections[id] : id \in {}}]
    OBVIOUS
  <2>2. [{} -> UNION {Selections[id] : id \in {}}] \subseteq Tables
    BY DEF Tables
  <2> QED
    BY <2>1, <2>2 DEF Init
<1>2. RunsOK
  BY <1>1 DEF Init, RunsOK
<1>3. RowsOK
  BY <1>1, BoundAssumption DEF Init, RowsOK, ToSet, IsInjective
<1>4. WalksGoOn
  BY <1>1 DEF WalksGoOn, Walked, HasAnswer
<1>5. CompletedAreDone /\ ReadsWhatWasAsked /\ ScoresWhatWasAsked
  BY DEF Init, CompletedAreDone, ReadsWhatWasAsked, ScoresWhatWasAsked, ToSet, NoReport
<1> QED
  BY <1>2, <1>3, <1>4, <1>5 DEF IInv

\* What a respondent who has walked on may be given to answer.
LEMMA NextIsTheirs ==
  ASSUME NEW r, NEW i \in NextUnanswered(Bank, VisibleNow(r), answers[r])
  PROVE  /\ i \in NextUnanswered(Bank, Sees(RoleOf[r], answers[r]), answers[r])
         /\ i \in Sees(RoleOf[r], answers[r]) /\ ~ HasAnswer(Bank, i, answers[r])
         /\ Bank[i] \in Questions /\ RoleOf[r] \in Bank[i].roles
         /\ Bank[i].id \notin DOMAIN answers[r]
<1>1. VisibleNow(r) = Sees(RoleOf[r], answers[r])
  BY DEF VisibleNow, Sees
<1> QED
  BY <1>1, SeesIs DEF NextUnanswered, HasAnswer, Places

\* A step that leaves what was read and reported, and whose, leaves it whole.
LEMMA ReadingStands ==
  ASSUME ReadsWhatWasAsked, ScoresWhatWasAsked, UNCHANGED <<ids, read, report>>,
         edited \subseteq edited'
  PROVE  ReadsWhatWasAsked' /\ ScoresWhatWasAsked'
BY DEF ReadsWhatWasAsked, ScoresWhatWasAsked

\* An answer: who was completed has none to give, and the others walk on.
LEMMA AnswerIInv ==
  ASSUME IInv, NEW r \in Respondents, Answer(r)
  PROVE  IInv'
<1>0. PICK i \in NextUnanswered(Bank, VisibleNow(r), answers[r]) :
        \E selection \in Selections[Bank[i].id] :
          answers' = [answers EXCEPT ![r] = WithAnswer(answers[r], Bank[i].id, selection)]
  BY DEF Answer
<1> DEFINE id == Bank[i].id
<1>1. PICK selection \in Selections[id] :
        answers' = [answers EXCEPT ![r] = WithAnswer(answers[r], id, selection)]
  BY <1>0
<1>2. UNCHANGED <<completed, ids, read, report, reports, edits, edited>>
  BY DEF Answer
<1>3. /\ answers \in [Respondents -> Tables]
      /\ answers'[r] = WithAnswer(answers[r], id, selection)
      /\ \A other \in Respondents : other # r => answers'[other] = answers[other]
  BY <1>1 DEF IInv, RunsOK
<1>4. /\ DOMAIN answers'[r] = DOMAIN answers[r] \cup {id}
      /\ answers'[r][id] = selection
      /\ \A other \in DOMAIN answers[r] : other # id => answers'[r][other] = answers[r][other]
  BY <1>3 DEF WithAnswer
<1>5. /\ Bank[i] \in Questions /\ RoleOf[r] \in Bank[i].roles
      /\ id \notin DOMAIN answers[r]
  BY NextIsTheirs
<1>6. DOMAIN answers[r] \subseteq {q.id : q \in {q \in Questions : RoleOf[r] \in q.roles}}
  BY DEF IInv, RowsOK
<1>7. \A other \in DOMAIN answers'[r] : answers'[r][other] \in Selections[other]
  <2>1. \A other \in DOMAIN answers[r] : answers[r][other] \in Selections[other]
    BY DEF IInv, RowsOK
  <2> QED
    BY <1>1, <1>4, <2>1
<1>8. DOMAIN answers'[r] \subseteq {q.id : q \in {q \in Questions : RoleOf[r] \in q.roles}}
  BY <1>4, <1>5, <1>6
<1>9. answers' \in [Respondents -> Tables]
  <2>1. answers'[r] \in [DOMAIN answers'[r] -> UNION {Selections[q] : q \in DOMAIN answers'[r]}]
    <3>1. answers'[r] = [q \in DOMAIN answers'[r] |-> answers'[r][q]]
      BY <1>3, <1>4 DEF WithAnswer
    <3> QED
      BY <1>7, <3>1
  <2>2. DOMAIN answers'[r] \in SUBSET {q.id : q \in Questions}
    BY <1>8
  <2>3. answers'[r] \in Tables
    BY <2>1, <2>2 DEF Tables
  <2> QED
    BY <1>1, <1>3, <2>3
<1>10. RunsOK'
  BY <1>2, <1>9 DEF IInv, RunsOK
<1>11. RowsOK'
  <2>1. ASSUME NEW s \in Respondents
        PROVE  /\ DOMAIN answers'[s] \subseteq
                    {q.id : q \in {q \in Questions : RoleOf[s] \in q.roles}}
               /\ \A other \in DOMAIN answers'[s] : answers'[s][other] \in Selections[other]
    <3>1. CASE s = r
      BY <1>7, <1>8, <3>1
    <3>2. CASE s # r
      BY <1>3, <3>2 DEF IInv, RowsOK
    <3> QED
      BY <3>1, <3>2
  <2> QED
    BY <1>2, <2>1 DEF IInv, RowsOK
<1>12. WalksGoOn'
  <2>1. ASSUME NEW s \in Respondents \ edited
        PROVE  Walked(RoleOf[s], answers'[s])
    <3>1. Walked(RoleOf[s], answers[s])
      BY DEF IInv, WalksGoOn
    <3>2. CASE s = r
      BY <1>3, <3>1, <3>2, NextIsTheirs, WalkGoesOn
    <3> QED
      BY <1>3, <3>1, <3>2
  <2> QED
    BY <1>2, <2>1 DEF WalksGoOn
<1>13. CompletedAreDone'
  <2>1. ASSUME NEW s \in ToSet(completed) \ edited
        PROVE  IsComplete(Bank, VisibleNow(s)', answers'[s])
    <3>1. s \in Respondents /\ IsComplete(Bank, VisibleNow(s), answers[s])
      BY DEF IInv, RowsOK, CompletedAreDone
    <3>2. s # r
      BY <3>1, NextIsTheirs DEF IsComplete, NextUnanswered
    <3>3. answers'[s] = answers[s] /\ VisibleNow(s)' = VisibleNow(s)
      BY <1>3, <3>1, <3>2 DEF VisibleNow
    <3> QED
      BY <3>1, <3>3
  <2> QED
    BY <1>2, <2>1 DEF CompletedAreDone
<1>14. ReadsWhatWasAsked' /\ ScoresWhatWasAsked'
  BY <1>2, ReadingStands DEF IInv
<1> QED
  BY <1>10, <1>11, <1>12, <1>13, <1>14 DEF IInv

\* A completion adds somebody at the end of the walk.
LEMMA CompleteIInv ==
  ASSUME IInv, NEW r \in Respondents, Complete(r)
  PROVE  IInv'
<1>1. /\ IsComplete(Bank, VisibleNow(r), answers[r]) /\ r \notin ToSet(completed)
      /\ completed' = Append(completed, r)
      /\ UNCHANGED <<answers, ids, read, report, reports, edits, edited>>
  BY DEF Complete
<1>2. completed \in Seq(Respondents)
  BY DEF IInv, RunsOK
<1>3. /\ completed' \in Seq(Respondents)
      /\ DOMAIN completed' = 1 .. Len(completed) + 1 /\ DOMAIN completed = 1 .. Len(completed)
      /\ Len(completed) \in Nat
      /\ completed'[Len(completed) + 1] = r
      /\ \A i \in DOMAIN completed : completed'[i] = completed[i]
  BY <1>1, <1>2
<1>4. ToSet(completed') = ToSet(completed) \cup {r}
  BY <1>3 DEF ToSet
<1>5. IsInjective(completed')
  <2>1. IsInjective(completed)
    BY DEF IInv, RowsOK
  <2>2. \A i \in DOMAIN completed : completed[i] # r
    BY <1>1 DEF ToSet
  <2> QED
    BY <1>3, <2>1, <2>2 DEF IsInjective
<1>6. RunsOK' /\ RowsOK'
  BY <1>1, <1>3, <1>4, <1>5 DEF IInv, RunsOK, RowsOK
<1>7. WalksGoOn'
  BY <1>1 DEF IInv, WalksGoOn
<1>8. CompletedAreDone'
  BY <1>1, <1>4 DEF IInv, CompletedAreDone, VisibleNow
<1>9. ReadsWhatWasAsked' /\ ScoresWhatWasAsked'
  BY <1>1, ReadingStands DEF IInv
<1> QED
  BY <1>6, <1>7, <1>8, <1>9 DEF IInv

\* An edit is remembered, and nothing is claimed of who made it.
LEMMA EditIInv ==
  ASSUME IInv, NEW r \in Respondents, Edit(r)
  PROVE  IInv'
<1>0. PICK id \in DOMAIN answers[r] : \E selection \in Selections[id] :
        answers' = [answers EXCEPT ![r][id] = selection]
  BY DEF Edit
<1>1. PICK selection \in Selections[id] : answers' = [answers EXCEPT ![r][id] = selection]
  BY <1>0
<1>2. /\ edits < MaxEdits /\ edits' = edits + 1 /\ edited' = edited \cup {r}
      /\ UNCHANGED <<completed, ids, read, report, reports>>
  BY DEF Edit
<1>3. /\ answers \in [Respondents -> Tables]
      /\ answers'[r] = [answers[r] EXCEPT ![id] = selection]
      /\ \A other \in Respondents : other # r => answers'[other] = answers[other]
  BY <1>1 DEF IInv, RunsOK
<1>4. /\ DOMAIN answers'[r] = DOMAIN answers[r]
      /\ answers'[r][id] = selection
      /\ \A other \in DOMAIN answers[r] : other # id => answers'[r][other] = answers[r][other]
  BY <1>3
<1>5. \A other \in DOMAIN answers'[r] : answers'[r][other] \in Selections[other]
  <2>1. \A other \in DOMAIN answers[r] : answers[r][other] \in Selections[other]
    BY DEF IInv, RowsOK
  <2> QED
    BY <1>1, <1>4, <2>1
<1>6. DOMAIN answers'[r] \subseteq {q.id : q \in {q \in Questions : RoleOf[r] \in q.roles}}
  BY <1>4 DEF IInv, RowsOK
<1>7. answers' \in [Respondents -> Tables]
  <2>1. answers'[r] = [q \in DOMAIN answers'[r] |-> answers'[r][q]]
    BY <1>3
  <2>2. answers'[r] \in [DOMAIN answers'[r] -> UNION {Selections[q] : q \in DOMAIN answers'[r]}]
    BY <1>5, <2>1
  <2>3. DOMAIN answers'[r] \in SUBSET {q.id : q \in Questions}
    BY <1>6
  <2>4. answers'[r] \in Tables
    BY <2>2, <2>3 DEF Tables
  <2> QED
    BY <1>1, <1>3, <2>4
<1>8. RunsOK'
  BY <1>2, <1>7 DEF IInv, RunsOK
<1>9. RowsOK'
  <2>1. ASSUME NEW s \in Respondents
        PROVE  /\ DOMAIN answers'[s] \subseteq
                    {q.id : q \in {q \in Questions : RoleOf[s] \in q.roles}}
               /\ \A other \in DOMAIN answers'[s] : answers'[s][other] \in Selections[other]
    <3>1. CASE s = r
      BY <1>5, <1>6, <3>1
    <3>2. CASE s # r
      BY <1>3, <3>2 DEF IInv, RowsOK
    <3> QED
      BY <3>1, <3>2
  <2>2. edits' \in 0 .. MaxEdits /\ edited' \subseteq Respondents
    BY <1>2, BoundAssumption DEF IInv, RowsOK
  <2> QED
    BY <1>2, <2>1, <2>2 DEF IInv, RowsOK
<1>10. WalksGoOn'
  BY <1>2, <1>3 DEF IInv, WalksGoOn
<1>11. CompletedAreDone'
  <2>1. ASSUME NEW s \in ToSet(completed) \ edited'
        PROVE  IsComplete(Bank, VisibleNow(s)', answers'[s])
    <3>1. s \in Respondents /\ s # r /\ IsComplete(Bank, VisibleNow(s), answers[s])
      BY <1>2 DEF IInv, RowsOK, CompletedAreDone
    <3>2. answers'[s] = answers[s] /\ VisibleNow(s)' = VisibleNow(s)
      BY <1>3, <3>1 DEF VisibleNow
    <3> QED
      BY <3>1, <3>2
  <2> QED
    BY <1>2, <2>1 DEF CompletedAreDone
<1>12. ReadsWhatWasAsked' /\ ScoresWhatWasAsked'
  BY <1>2, ReadingStands DEF IInv
<1> QED
  BY <1>8, <1>9, <1>10, <1>11, <1>12 DEF IInv

\* Whom a job lists is completed, and it has read of nobody yet.
LEMMA LoadIdsIInv ==
  ASSUME IInv, LoadIds
  PROVE  IInv'
<1>1. /\ ids = <<>> /\ reports < MaxReports /\ ids' = completed
      /\ UNCHANGED <<answers, completed, read, report, reports, edits, edited>>
  BY DEF LoadIds
<1>2. read = <<>>
  <2>1. Len(read) \in Nat /\ Len(read) <= 0 /\ read \in Seq(Tables)
    BY <1>1 DEF IInv, RunsOK, RowsOK
  <2> QED
    BY <2>1
<1>3. RunsOK' /\ RowsOK'
  BY <1>1, <1>2 DEF IInv, RunsOK, RowsOK
<1>4. WalksGoOn'
  BY <1>1 DEF IInv, WalksGoOn
<1>5. CompletedAreDone'
  BY <1>1 DEF IInv, CompletedAreDone, VisibleNow
<1>6. ReadsWhatWasAsked'
  BY <1>1, <1>2 DEF ReadsWhatWasAsked
<1>7. ScoresWhatWasAsked'
  BY <1>1 DEF IInv, ScoresWhatWasAsked
<1> QED
  BY <1>3, <1>4, <1>5, <1>6, <1>7 DEF IInv

\* Who is listed is completed: if they changed nothing, they are at the end of the walk.
LEMMA LoadResponsesIInv ==
  ASSUME IInv, LoadResponses
  PROVE  IInv'
<1> DEFINE n == Len(read) + 1
<1>1. /\ Len(read) < Len(ids) /\ read' = Append(read, answers[ids[n]])
      /\ UNCHANGED <<answers, completed, ids, report, reports, edits, edited>>
  BY DEF LoadResponses
<1>2. read \in Seq(Tables) /\ ids \in Seq(Respondents) /\ answers \in [Respondents -> Tables]
  BY DEF IInv, RunsOK
<1>3. n \in DOMAIN ids /\ ids[n] \in Respondents /\ answers[ids[n]] \in Tables
  BY <1>1, <1>2
<1>4. /\ read' \in Seq(Tables) /\ Len(read') = n
      /\ DOMAIN read' = DOMAIN read \cup {n} /\ read'[n] = answers[ids[n]]
      /\ \A i \in DOMAIN read : i # n /\ read'[i] = read[i]
  BY <1>1, <1>2, <1>3
<1>5. RunsOK'
  BY <1>1, <1>4 DEF IInv, RunsOK
<1>6. RowsOK'
  <2>1. Len(read') <= Len(ids)
    BY <1>1, <1>2, <1>4
  <2> QED
    BY <1>1, <2>1 DEF IInv, RowsOK
<1>7. WalksGoOn'
  BY <1>1 DEF IInv, WalksGoOn
<1>8. CompletedAreDone'
  BY <1>1 DEF IInv, CompletedAreDone, VisibleNow
<1>9. ReadsWhatWasAsked'
  <2>1. ASSUME ids[n] \notin edited
        PROVE  DOMAIN answers[ids[n]] = Ids(Bank, Sees(RoleOf[ids[n]], answers[ids[n]]))
    <3>1. ids[n] \in ToSet(completed)
      BY <1>3 DEF IInv, RowsOK, ToSet
    <3>2. IsComplete(Bank, Sees(RoleOf[ids[n]], answers[ids[n]]), answers[ids[n]])
      BY <2>1, <3>1 DEF IInv, CompletedAreDone, VisibleNow, Sees
    <3>3. Walked(RoleOf[ids[n]], answers[ids[n]])
      BY <1>3, <2>1 DEF IInv, WalksGoOn
    <3> QED
      BY <3>2, <3>3, EndOfTheWalk
  <2> QED
    BY <1>1, <1>4, <2>1 DEF IInv, ReadsWhatWasAsked
<1>10. ScoresWhatWasAsked'
  BY <1>1 DEF IInv, ScoresWhatWasAsked
<1> QED
  BY <1>5, <1>6, <1>7, <1>8, <1>9, <1>10 DEF IInv

\* The result is of what was read.
LEMMA ScoreAnswersIInv ==
  ASSUME IInv, ScoreAnswers
  PROVE  IInv'
<1>1. /\ ids # <<>> /\ Len(read) = Len(ids)
      /\ reports' = reports + 1 /\ ids' = <<>> /\ read' = <<>>
      /\ UNCHANGED <<answers, completed, edits, edited>>
  BY DEF ScoreAnswers
<1>2. report'.ids = ids /\ report'.read = read
  BY DEF ScoreAnswers, ReportOn
<1>3. RunsOK'
  BY <1>1 DEF IInv, RunsOK
<1>4. RowsOK'
  <2>1. reports' \in 0 .. MaxReports
    BY <1>1, BoundAssumption DEF IInv, RunsOK, RowsOK
  <2>2. ToSet(ids') = {} /\ Len(read') <= Len(ids')
    BY <1>1 DEF ToSet
  <2> QED
    BY <1>1, <2>1, <2>2 DEF IInv, RowsOK
<1>5. WalksGoOn'
  BY <1>1 DEF IInv, WalksGoOn
<1>6. CompletedAreDone'
  BY <1>1 DEF IInv, CompletedAreDone, VisibleNow
<1>7. ReadsWhatWasAsked'
  BY <1>1 DEF ReadsWhatWasAsked
<1>8. ScoresWhatWasAsked'
  <2>1. DOMAIN ids = DOMAIN read
    BY <1>1 DEF IInv, RunsOK
  <2>2. ReadsWhatWasAsked
    BY DEF IInv
  <2> QED
    BY <1>1, <1>2, <2>1, <2>2 DEF ReadsWhatWasAsked, ScoresWhatWasAsked, Sees
<1> QED
  BY <1>3, <1>4, <1>5, <1>6, <1>7, <1>8 DEF IInv

\* A step that changes nothing.
LEMMA StutterIInv ==
  ASSUME IInv, UNCHANGED vars
  PROVE  IInv'
BY DEF IInv, RunsOK, RowsOK, WalksGoOn, CompletedAreDone, VisibleNow, ReadsWhatWasAsked,
       ScoresWhatWasAsked, vars

-----------------------------------------------------------------------------
(***************************************************************************)
(* In every reachable state answers are rows of the respondent's own       *)
(* questions, jobs list who has completed, and whoever changed nothing is  *)
(* on the walk (services.py, engine.py).                                   *)
(***************************************************************************)
THEOREM Invariance == Spec => []IInv
<1>1. IInv /\ [Next]_vars => IInv'
  <2> SUFFICES ASSUME IInv, [Next]_vars PROVE IInv'
    OBVIOUS
  <2>1. CASE \E r \in Respondents : Answer(r) \/ Complete(r) \/ Edit(r)
    BY <2>1, AnswerIInv, CompleteIInv, EditIInv
  <2>2. CASE LoadIds
    BY <2>2, LoadIdsIInv
  <2>3. CASE LoadResponses
    BY <2>3, LoadResponsesIInv
  <2>4. CASE ScoreAnswers
    BY <2>4, ScoreAnswersIInv
  <2>5. CASE UNCHANGED vars
    BY <2>5, StutterIInv
  <2> QED
    BY <2>1, <2>2, <2>3, <2>4, <2>5 DEF Next
<1> QED
  BY <1>1, InitIInv, PTL DEF Spec

(***************************************************************************)
(* Nobody answers a question of another role, an answer is one the page    *)
(* offers, nobody completes twice, and a job lists only who has completed. *)
(***************************************************************************)
THEOREM RowsStayInPlace == Spec => []RowsOK
<1>1. IInv => RowsOK
  BY DEF IInv
<1> QED
  BY <1>1, Invariance, PTL

(***************************************************************************)
(* Of a respondent who changed no answer, exactly the questions that the   *)
(* answers lead to are scored, though the scoring never looks at the skip  *)
(* rules (scoring/engine.py) and others answer and edit while it reads.    *)
(***************************************************************************)
THEOREM WhatWasAskedIsScored == Spec => []ScoresWhatWasAsked
<1>1. IInv => ScoresWhatWasAsked
  BY DEF IInv
<1> QED
  BY <1>1, Invariance, PTL

-----------------------------------------------------------------------------
(***************************************************************************)
(* Induction, Euclid's algorithm and fractions.                            *)
(* A fraction is a pair in lowest terms with a positive denominator, so    *)
(* two of the same value are equal, and sums can be taken in any order.    *)
(***************************************************************************)
\* A set of numbers that is not empty has a least one.
LEMMA LeastNat ==
  ASSUME NEW Bad, Bad \subseteq Nat, Bad # {}
  PROVE  \E n \in Bad : \A m \in Bad : n <= m
<1> DEFINE R == OpToRel(<, Nat)
<1>1. IsWellFoundedOn(R, Nat)
  BY NatLessThanWellFounded
<1>2. \E n \in Bad : \A m \in Bad : ~ (<<m, n>> \in R)
  <2> HIDE DEF R
  <2> QED BY <1>1, WFMin
<1>3. \A n, m \in Nat : m < n => <<m, n>> \in R
  BY DEF OpToRel
<1> HIDE DEF R
<1>4. PICK n \in Bad : \A m \in Bad : ~ (<<m, n>> \in R)
  BY <1>2
<1>5. ASSUME NEW m \in Bad PROVE n <= m
  <2>1. n \in Nat /\ m \in Nat
    OBVIOUS
  <2>2. ~ (m < n)
    BY <1>3, <1>4, <2>1
  <2> QED
    BY <2>1, <2>2
<1> QED BY <1>5

\* Of finitely many elements' subsets, some one has no other inside it.
LEMMA LeastSubset ==
  ASSUME NEW S, IsFiniteSet(S), NEW Bad, Bad \subseteq SUBSET S, Bad # {}
  PROVE  \E T \in Bad : \A U \in Bad : U \subseteq T => U = T
<1>1. IsWellFoundedOn(StrictSubsetOrdering(S), SUBSET S)
  BY FS_StrictSubsetOrderingWellFounded, FS_FiniteSubsetsOfFinite
<1> DEFINE R == StrictSubsetOrdering(S)
<1>2. \E T \in Bad : \A U \in Bad : ~ (<<U, T>> \in R)
  <2> HIDE DEF R
  <2> QED BY <1>1, WFMin DEF R
<1> QED BY <1>2 DEF StrictSubsetOrdering

\* Induction, over sets in place of predicates.
LEMMA NumberInduction ==
  ASSUME NEW b \in Nat, NEW Good,
         \A y \in 0 .. b : (\A z \in 0 .. b : z < y => z \in Good) => y \in Good
  PROVE  \A y \in 0 .. b : y \in Good
<1> DEFINE Bad == {y \in 0 .. b : y \notin Good}
<1>1. SUFFICES ASSUME Bad # {} PROVE FALSE
  OBVIOUS
<1>2. Bad \subseteq Nat
  OBVIOUS
<1>3. PICK y \in Bad : \A z \in Bad : y <= z
  BY <1>1, <1>2, LeastNat
<1>4. \A z \in 0 .. b : z < y => z \in Good
  BY <1>3
<1> QED
  BY <1>4

\* Induction over the subsets of a finite set: take any one element out.
LEMMA SubsetInduction ==
  ASSUME NEW S, IsFiniteSet(S), NEW Good, {} \in Good,
         \A T \in SUBSET S : T # {} /\ (\A x \in T : T \ {x} \in Good) => T \in Good
  PROVE  \A T \in SUBSET S : T \in Good
<1> DEFINE Bad == {T \in SUBSET S : T \notin Good}
<1>1. SUFFICES ASSUME Bad # {} PROVE FALSE
  OBVIOUS
<1>2. Bad \subseteq SUBSET S
  OBVIOUS
<1>3. PICK T \in Bad : \A U \in Bad : U \subseteq T => U = T
  <2> HIDE DEF Bad
  <2> QED
    BY <1>1, <1>2, LeastSubset
<1>4. ASSUME NEW x \in T PROVE T \ {x} \in Good
  <2>1. T \ {x} \subseteq T /\ T \ {x} # T /\ T \ {x} \in SUBSET S
    OBVIOUS
  <2> QED
    BY <1>3, <2>1
<1> QED
  BY <1>4

\* Euclid's algorithm below n.
EuclidSteps(e, n) ==
  e = [p \in Nat \X (0 .. n) |-> IF p[2] = 0 THEN p[1] ELSE e[<<p[2], p[1] % p[2]>>]]

\* Division with a remainder.
LEMMA Remainder ==
  ASSUME NEW x \in Nat, NEW y \in Nat, y > 0
  PROVE  /\ x % y \in Nat /\ x % y < y
         /\ x \div y \in Nat
         /\ x = y * (x \div y) + (x % y)
OBVIOUS

\* Euclid's algorithm is defined on every pair, however large the second number.
LEMMA EuclidExists ==
  ASSUME NEW b \in Nat
  PROVE  \E e : EuclidSteps(e, b)
<1> DEFINE Bad == {n \in Nat : ~ \E e : EuclidSteps(e, n)}
<1>1. SUFFICES ASSUME Bad # {} PROVE FALSE
  OBVIOUS
<1>2. PICK n \in Bad : \A m \in Bad : n <= m
  BY <1>1, LeastNat
<1>3. CASE n = 0
  <2> DEFINE e == [p \in Nat \X (0 .. 0) |-> p[1]]
  <2>1. e = [p \in Nat \X (0 .. 0) |->
               IF p[2] = 0 THEN p[1] ELSE e[<<p[2], p[1] % p[2]>>]]
    OBVIOUS
  <2>2. EuclidSteps(e, 0)
    BY <2>1 DEF EuclidSteps
  <2> QED
    BY <1>3, <2>2
<1>4. CASE n # 0
  <2>1. n - 1 \in Nat /\ n - 1 \notin Bad
    BY <1>2, <1>4
  <2>2. PICK e : EuclidSteps(e, n - 1)
    BY <2>1
  <2> DEFINE f == [p \in Nat \X (0 .. n) |->
                     IF p[2] = 0 THEN p[1] ELSE e[<<p[2], p[1] % p[2]>>]]
  <2>3. ASSUME NEW p \in Nat \X (0 .. n), p[2] # 0
        PROVE  e[<<p[2], p[1] % p[2]>>] = f[<<p[2], p[1] % p[2]>>]
    <3>1. p[1] \in Nat /\ p[2] \in Nat /\ p[2] <= n
      OBVIOUS
    <3>2. p[1] % p[2] \in Nat /\ p[1] % p[2] < p[2]
      BY <2>3, <3>1, Remainder
    <3> DEFINE q == <<p[2], p[1] % p[2]>>
    <3>3. q \in Nat \X (0 .. (n - 1)) /\ q \in Nat \X (0 .. n)
      BY <3>1, <3>2, <2>1
    <3> HIDE DEF q
    <3>4. e[q] = IF q[2] = 0 THEN q[1] ELSE e[<<q[2], q[1] % q[2]>>]
      BY <2>2, <3>3 DEF EuclidSteps
    <3>5. e[q] = f[q]
      BY <3>3, <3>4
    <3> QED
      BY <3>5 DEF q
  <2>4. f = [p \in Nat \X (0 .. n) |->
               IF p[2] = 0 THEN p[1] ELSE f[<<p[2], p[1] % p[2]>>]]
    BY <2>3
  <2> HIDE DEF f
  <2>5. EuclidSteps(f, n)
    BY <2>4 DEF EuclidSteps
  <2> QED
    BY <2>5
<1> QED
  BY <1>3, <1>4

\* Gcd unfolds as it is written, for the arguments it is called with.
LEMMA Euclid ==
  ASSUME NEW b \in Nat
  PROVE  \E e : /\ \A a \in Nat : Gcd(a, b) = e[<<a, b>>]
                /\ \A x \in Nat, y \in 0 .. b :
                     e[<<x, y>>] = IF y = 0 THEN x ELSE e[<<y, x % y>>]
<1> DEFINE e == CHOOSE e : EuclidSteps(e, b)
<1>1. ASSUME NEW a \in Nat PROVE Gcd(a, b) = e[<<a, b>>]
  BY DEF Gcd, EuclidSteps
<1>2. EuclidSteps(e, b)
  BY EuclidExists
<1> HIDE DEF e
<1>3. ASSUME NEW x \in Nat, NEW y \in 0 .. b
      PROVE  e[<<x, y>>] = IF y = 0 THEN x ELSE e[<<y, x % y>>]
  <2>1. <<x, y>> \in Nat \X (0 .. b)
    OBVIOUS
  <2> QED
    BY <1>2, <2>1 DEF EuclidSteps
<1> QED
  BY <1>1, <1>3

\* g divides x and y, and is not 0 when they are not.
Divides(g, x, y) ==
  /\ g \in Nat /\ (x + y > 0 => g > 0)
  /\ \E k \in Nat : x = g * k
  /\ \E k \in Nat : y = g * k

\* What divides the second number and the remainder divides the first.
LEMMA DividesBefore ==
  ASSUME NEW x \in Nat, NEW y \in Nat, y > 0, NEW g, Divides(g, y, x % y)
  PROVE  Divides(g, x, y)
<1> DEFINE r == x % y
           d == x \div y
<1>1. r \in Nat /\ d \in Nat /\ x = y * d + r
  BY Remainder
<1> HIDE DEF r, d
<1>2. g \in Nat /\ (y + r > 0 => g > 0)
  BY DEF Divides, r
<1>3. g > 0
  BY <1>1, <1>2
<1>4. PICK k \in Nat : y = g * k
  BY DEF Divides
<1>5. PICK l \in Nat : r = g * l
  BY DEF Divides, r
<1>6. x = (g * k) * d + g * l
  BY <1>1, <1>4, <1>5
<1>7. x = g * (k * d + l) /\ k * d + l \in Nat
  BY <1>1, <1>2, <1>6
<1> QED
  BY <1>2, <1>3, <1>4, <1>7 DEF Divides

\* Gcd divides both numbers, and is not 0 when they are not.
LEMMA GcdDivides ==
  ASSUME NEW a \in Nat, NEW b \in Nat
  PROVE  Divides(Gcd(a, b), a, b)
<1>1. PICK e : /\ \A x \in Nat : Gcd(x, b) = e[<<x, b>>]
               /\ \A x \in Nat, y \in 0 .. b :
                    e[<<x, y>>] = IF y = 0 THEN x ELSE e[<<y, x % y>>]
  BY Euclid
<1> DEFINE Good == {y \in 0 .. b : \A x \in Nat : Divides(e[<<x, y>>], x, y)}
<1>2. ASSUME NEW y \in 0 .. b, \A z \in 0 .. b : z < y => z \in Good
      PROVE  y \in Good
  <2>1. SUFFICES ASSUME NEW x \in Nat PROVE Divides(e[<<x, y>>], x, y)
    OBVIOUS
  <2>2. CASE y = 0
    <3>1. e[<<x, y>>] = x
      BY <1>1, <2>2
    <3>2. x = x * 1 /\ 0 = x * 0
      OBVIOUS
    <3> QED
      BY <2>2, <3>1, <3>2 DEF Divides
  <2>3. CASE y # 0
    <3>1. x % y \in Nat /\ x % y < y
      BY <2>3, Remainder
    <3>2. x % y \in 0 .. b
      BY <3>1
    <3>3. Divides(e[<<y, x % y>>], y, x % y)
      BY <1>2, <3>1, <3>2
    <3>4. e[<<x, y>>] = e[<<y, x % y>>]
      BY <1>1, <2>3
    <3> QED
      BY <2>3, <3>3, <3>4, DividesBefore
  <2> QED
    BY <2>2, <2>3
<1> HIDE DEF Good
<1>3. \A y \in 0 .. b : y \in Good
  BY <1>2, NumberInduction
<1>4. b \in Good
  BY <1>3
<1> QED
  BY <1>1, <1>4 DEF Good

\* The remainder is the only one.
LEMMA RemainderIs ==
  ASSUME NEW x \in Nat, NEW y \in Nat, y > 0, NEW q \in Nat, NEW r \in Nat, r < y,
         x = y * q + r
  PROVE  x % y = r
OBVIOUS

\* The remainder of multiples is the multiple of the remainder.
LEMMA RemainderScales ==
  ASSUME NEW k \in Nat, NEW x \in Nat, NEW y \in Nat, k > 0, y > 0
  PROVE  (k * x) % (k * y) = k * (x % y)
<1> DEFINE q == x \div y
           r == x % y
<1>1. r \in Nat /\ r < y /\ q \in Nat /\ x = y * q + r
  BY Remainder
<1> HIDE DEF q, r
<1> DEFINE m == k * x
           n == k * y
           s == k * r
<1>2. m = n * q + s
  BY <1>1
<1>3. s \in Nat /\ s < n /\ m \in Nat /\ n \in Nat /\ n > 0
  BY <1>1
<1>4. m % n = s
  <2> HIDE DEF m, n, s
  <2> QED
    BY <1>1, <1>2, <1>3, RemainderIs
<1> QED
  BY <1>4 DEF r

\* The algorithm takes the same steps on multiples.
LEMMA GcdScales ==
  ASSUME NEW k \in Nat, k > 0, NEW a \in Nat, NEW b \in Nat
  PROVE  Gcd(k * a, k * b) = k * Gcd(a, b)
<1>0. k * b \in Nat
  OBVIOUS
<1>1. PICK e : /\ \A x \in Nat : Gcd(x, b) = e[<<x, b>>]
               /\ \A x \in Nat, y \in 0 .. b :
                    e[<<x, y>>] = IF y = 0 THEN x ELSE e[<<y, x % y>>]
  BY Euclid
<1>2. PICK f : /\ \A x \in Nat : Gcd(x, k * b) = f[<<x, k * b>>]
               /\ \A x \in Nat, y \in 0 .. (k * b) :
                    f[<<x, y>>] = IF y = 0 THEN x ELSE f[<<y, x % y>>]
  BY <1>0, Euclid
<1> DEFINE Good == {y \in 0 .. b : \A x \in Nat : f[<<k * x, k * y>>] = k * e[<<x, y>>]}
<1>3. ASSUME NEW y \in 0 .. b, \A z \in 0 .. b : z < y => z \in Good
      PROVE  y \in Good
  <2>1. SUFFICES ASSUME NEW x \in Nat PROVE f[<<k * x, k * y>>] = k * e[<<x, y>>]
    OBVIOUS
  <2>2. k * x \in Nat /\ k * y \in 0 .. (k * b) /\ (k * y = 0 <=> y = 0)
    OBVIOUS
  <2>3. CASE y = 0
    BY <1>1, <1>2, <2>2, <2>3
  <2>4. CASE y # 0
    <3>1. x % y \in Nat /\ x % y < y
      BY <2>4, Remainder
    <3>2. x % y \in 0 .. b
      BY <3>1
    <3>3. f[<<k * y, k * (x % y)>>] = k * e[<<y, x % y>>]
      BY <1>3, <3>1, <3>2
    <3>4. (k * x) % (k * y) = k * (x % y)
      <4>1. y \in Nat /\ y > 0
        BY <2>4
      <4> HIDE DEF Good
      <4> QED
        BY <4>1, RemainderScales
    <3>5. f[<<k * x, k * y>>] = f[<<k * y, (k * x) % (k * y)>>]
      BY <1>2, <2>2, <2>4
    <3>6. e[<<x, y>>] = e[<<y, x % y>>]
      BY <1>1, <2>4
    <3> QED
      BY <3>3, <3>4, <3>5, <3>6
  <2> QED
    BY <2>3, <2>4
<1> HIDE DEF Good
<1>4. \A y \in 0 .. b : y \in Good
  BY <1>3, NumberInduction
<1>5. b \in Good
  BY <1>4
<1>6. k * a \in Nat
  OBVIOUS
<1> QED
  BY <1>1, <1>2, <1>5, <1>6 DEF Good

\* A fraction in lowest terms with a positive denominator.
Fractions == {a \in Int \X (Nat \ {0}) : a = Ratio(a[1], a[2])}

\* A multiple divided by its factor.
LEMMA QuotientIs ==
  ASSUME NEW g \in Nat, g > 0, NEW k \in Int
  PROVE  (g * k) \div g = k
OBVIOUS

\* A positive factor is cancelled in a comparison.
LEMMA CancelLe ==
  ASSUME NEW k \in Nat, k > 0, NEW x \in Int, NEW y \in Int
  PROVE  k * x <= k * y <=> x <= y
OBVIOUS

\* A positive factor is cancelled in an equation.
LEMMA CancelEq ==
  ASSUME NEW k \in Nat, k > 0, NEW x \in Int, NEW y \in Int, k * x = k * y
  PROVE  x = y
OBVIOUS

\* A ratio divided by the greatest common divisor.
LEMMA RatioIs ==
  ASSUME NEW n \in Int, NEW d \in Nat \ {0}
  PROVE  \E g \in Nat, m \in Int, l \in Nat :
           /\ g > 0 /\ l > 0 /\ n = g * m /\ d = g * l
           /\ Ratio(n, d) = <<m, l>>
<1> DEFINE a == IF n < 0 THEN -n ELSE n
           g == Gcd(a, d)
<1>1. a \in Nat /\ d \in Nat
  OBVIOUS
<1>2. Divides(g, a, d)
  BY <1>1, GcdDivides
<1>3. Ratio(n, d) = <<n \div g, d \div g>>
  BY DEF Ratio
<1>4. g \in Nat /\ (a + d > 0 => g > 0)
  BY <1>2 DEF Divides
<1>5. PICK k \in Nat : a = g * k
  BY <1>2 DEF Divides
<1>6. PICK l \in Nat : d = g * l
  BY <1>2 DEF Divides
<1>7. a + d > 0
  BY <1>1
<1> DEFINE m == IF n < 0 THEN -k ELSE k
<1>8. m \in Int /\ n = g * m
  <2>1. CASE n < 0
    <3>1. -n = g * k
      BY <1>5, <2>1
    <3>2. n = g * (-k)
      BY <1>4, <3>1
    <3> QED
      BY <2>1, <3>2
  <2>2. CASE ~ (n < 0)
    BY <1>5, <2>2
  <2> QED
    BY <2>1, <2>2
<1> HIDE DEF g, a, m
<1>9. n \div g = m /\ d \div g = l
  BY <1>4, <1>6, <1>7, <1>8, QuotientIs
<1>10. l > 0
  BY <1>6, <1>4
<1> QED
  BY <1>3, <1>4, <1>6, <1>7, <1>8, <1>9, <1>10

\* A ratio is a pair of an integer and a positive number, and stands for its arguments.
LEMMA RatioType ==
  ASSUME NEW n \in Int, NEW d \in Nat \ {0}
  PROVE  /\ Ratio(n, d) \in Int \X (Nat \ {0})
         /\ Ratio(n, d)[1] * d = n * Ratio(n, d)[2]
<1>1. PICK g \in Nat, m \in Int, l \in Nat :
        g > 0 /\ l > 0 /\ n = g * m /\ d = g * l /\ Ratio(n, d) = <<m, l>>
  BY RatioIs
<1>2. m * (g * l) = (g * m) * l
  OBVIOUS
<1>3. Ratio(n, d)[1] = m /\ Ratio(n, d)[2] = l
  BY <1>1
<1> QED
  BY <1>1, <1>2, <1>3

\* It does not matter by what the two numbers are multiplied.
LEMMA RatioScales ==
  ASSUME NEW n \in Int, NEW d \in Nat \ {0}, NEW k \in Nat, k > 0
  PROVE  Ratio(k * n, k * d) = Ratio(n, d)
<1> DEFINE a == IF n < 0 THEN -n ELSE n
           b == IF k * n < 0 THEN -(k * n) ELSE k * n
           g == Gcd(a, d)
<1>1. a \in Nat /\ d \in Nat /\ b = k * a
  OBVIOUS
<1>2. Gcd(b, k * d) = k * g
  BY <1>1, GcdScales
<1>3. Ratio(k * n, k * d) = <<(k * n) \div (k * g), (k * d) \div (k * g)>>
  BY <1>2 DEF Ratio
<1>4. Ratio(n, d) = <<n \div g, d \div g>>
  BY DEF Ratio
<1>5. Divides(g, a, d)
  BY <1>1, GcdDivides
<1>6. g \in Nat /\ (a + d > 0 => g > 0)
  BY <1>5 DEF Divides
<1>7. PICK m \in Nat : a = g * m
  BY <1>5 DEF Divides
<1>8. PICK l \in Nat : d = g * l
  BY <1>5 DEF Divides
<1>9. g > 0 /\ k * g \in Nat /\ k * g > 0
  BY <1>1, <1>6
<1> DEFINE s == IF n < 0 THEN -m ELSE m
<1>10. s \in Int /\ n = g * s
  <2>1. CASE n < 0
    <3>1. -n = g * m
      BY <1>7, <2>1
    <3>2. n = g * (-m)
      BY <1>6, <3>1
    <3> QED
      BY <2>1, <3>2
  <2>2. CASE ~ (n < 0)
    BY <1>7, <2>2
  <2> QED
    BY <2>1, <2>2
<1> HIDE DEF a, b, g, s
<1>11. n \div g = s /\ d \div g = l
  BY <1>6, <1>8, <1>9, <1>10, QuotientIs
<1>12. k * n = (k * g) * s /\ k * d = (k * g) * l
  BY <1>6, <1>8, <1>10
<1>13. (k * n) \div (k * g) = s /\ (k * d) \div (k * g) = l
  <2> DEFINE h == k * g
  <2>1. h \in Nat /\ h > 0 /\ k * n = h * s /\ k * d = h * l
    BY <1>9, <1>12
  <2> HIDE DEF h
  <2>2. (h * s) \div h = s /\ (h * l) \div h = l
    BY <2>1, <1>10, QuotientIs
  <2>3. (k * n) \div h = s /\ (k * d) \div h = l
    BY <2>1, <2>2
  <2> QED
    BY <2>3 DEF h
<1> QED
  BY <1>3, <1>4, <1>11, <1>13

\* Equal quotients have the same lowest terms.
LEMMA RatioEq ==
  ASSUME NEW n \in Int, NEW d \in Nat \ {0}, NEW m \in Int, NEW l \in Nat \ {0},
         n * l = m * d
  PROVE  Ratio(n, d) = Ratio(m, l)
<1>0. l \in Nat /\ l > 0 /\ d \in Nat /\ d > 0
  OBVIOUS
<1>1. Ratio(l * n, l * d) = Ratio(n, d)
  BY <1>0, RatioScales
<1>2. Ratio(d * m, d * l) = Ratio(m, l)
  BY <1>0, RatioScales
<1>3. l * n = d * m /\ l * d = d * l
  OBVIOUS
<1> QED
  BY <1>1, <1>2, <1>3

\* A ratio is in lowest terms.
LEMMA RatioFraction ==
  ASSUME NEW n \in Int, NEW d \in Nat \ {0}
  PROVE  Ratio(n, d) \in Fractions
<1> DEFINE r == Ratio(n, d)
<1>1. r \in Int \X (Nat \ {0}) /\ r[1] * d = n * r[2]
  BY RatioType
<1> HIDE DEF r
<1>2. r[1] \in Int /\ r[2] \in Nat \ {0}
  BY <1>1
<1>3. Ratio(r[1], r[2]) = Ratio(n, d)
  BY <1>1, <1>2, RatioEq
<1> QED
  BY <1>1, <1>3 DEF Fractions, r

\* The numbers of a fraction.
LEMMA FractionParts ==
  ASSUME NEW a \in Fractions
  PROVE  a[1] \in Int /\ a[2] \in Nat /\ a[2] > 0 /\ a = Ratio(a[1], a[2])
BY DEF Fractions

\* Two fractions of the same value are the same pair.
LEMMA FractionEq ==
  ASSUME NEW a \in Fractions, NEW b \in Fractions, a[1] * b[2] = b[1] * a[2]
  PROVE  a = b
BY RatioEq, FractionParts

\* Ratios are compared like their numbers.
LEMMA CompareRatio ==
  ASSUME NEW n \in Int, NEW d \in Nat, d > 0, NEW c \in Fractions
  PROVE  /\ AtMost(Ratio(n, d), c) <=> n * c[2] <= c[1] * d
         /\ AtMost(c, Ratio(n, d)) <=> c[1] * d <= n * c[2]
<1> DEFINE r == Ratio(n, d)
           p == r[1]
           q == r[2]
           x == c[1]
           y == c[2]
<1>1. r \in Int \X (Nat \ {0}) /\ r[1] * d = n * r[2]
  BY RatioType
<1>2. p \in Int /\ q \in Nat /\ q > 0 /\ p * d = n * q
  BY <1>1
<1>3. x \in Int /\ y \in Nat /\ y > 0
  BY FractionParts
<1>4. AtMost(r, c) <=> p * y <= x * q
  BY DEF AtMost
<1>5. AtMost(c, r) <=> x * q <= p * y
  BY DEF AtMost
<1> HIDE DEF r, p, q, x, y
<1>6. d * (p * y) = q * (n * y) /\ d * (x * q) = q * (x * d)
  <2>1. d * (p * y) = (p * d) * y
    BY <1>2, <1>3
  <2>2. q * (n * y) = (n * q) * y
    BY <1>2, <1>3
  <2> QED
    BY <1>2, <1>3, <2>1, <2>2
<1>7. p * y \in Int /\ n * y \in Int /\ x * q \in Int /\ x * d \in Int
  BY <1>2, <1>3
<1>8. p * y <= x * q <=> d * (p * y) <= d * (x * q)
  BY <1>7, CancelLe
<1>9. n * y <= x * d <=> q * (n * y) <= q * (x * d)
  BY <1>2, <1>7, CancelLe
<1>10. x * q <= p * y <=> d * (x * q) <= d * (p * y)
  BY <1>7, CancelLe
<1>11. x * d <= n * y <=> q * (x * d) <= q * (n * y)
  BY <1>2, <1>7, CancelLe
<1> QED
  BY <1>4, <1>5, <1>6, <1>8, <1>9, <1>10, <1>11 DEF r, x, y

\* Fractions are totally ordered.
LEMMA AtMostOrder ==
  /\ \A a \in Fractions : AtMost(a, a)
  /\ \A a, b \in Fractions : AtMost(a, b) \/ AtMost(b, a)
  /\ \A a, b \in Fractions : AtMost(a, b) /\ AtMost(b, a) => a = b
  /\ \A a, b \in Fractions : Less(a, b) <=> ~ AtMost(b, a)
  /\ \A a, b, c \in Fractions : AtMost(a, b) /\ AtMost(b, c) => AtMost(a, c)
<1>1. ASSUME NEW a \in Fractions, NEW b \in Fractions
      PROVE  /\ AtMost(a, a)
             /\ AtMost(a, b) \/ AtMost(b, a)
             /\ AtMost(a, b) /\ AtMost(b, a) => a = b
             /\ Less(a, b) <=> ~ AtMost(b, a)
  <2>1. /\ a[1] \in Int /\ a[2] \in Nat /\ b[1] \in Int /\ b[2] \in Nat
    BY FractionParts
  <2>2. a[1] * b[2] \in Int /\ b[1] * a[2] \in Int /\ a[1] * a[2] \in Int
    BY <2>1
  <2>3. AtMost(a, b) /\ AtMost(b, a) => a = b
    BY <2>2, FractionEq DEF AtMost
  <2> QED
    BY <2>2, <2>3 DEF AtMost, Less
<1>2. ASSUME NEW a \in Fractions, NEW b \in Fractions, NEW c \in Fractions,
             AtMost(a, b), AtMost(b, c)
      PROVE  AtMost(a, c)
  <2> DEFINE u == a[1]  v == a[2]  w == b[1]  x == b[2]  y == c[1]  z == c[2]
  <2>1. /\ u \in Int /\ v \in Nat /\ v > 0 /\ w \in Int /\ x \in Nat /\ x > 0
        /\ y \in Int /\ z \in Nat /\ z > 0
    BY FractionParts
  <2>2. u * x <= w * v /\ w * z <= y * x
    BY <1>2 DEF AtMost
  <2> HIDE DEF u, v, w, x, y, z
  <2>3. z * (u * x) <= z * (w * v)
    <3>1. u * x \in Int /\ w * v \in Int
      BY <2>1
    <3> QED
      BY <2>1, <2>2, <3>1, CancelLe
  <2>4. v * (w * z) <= v * (y * x)
    <3>1. w * z \in Int /\ y * x \in Int
      BY <2>1
    <3> QED
      BY <2>1, <2>2, <3>1, CancelLe
  <2>5. /\ z * (u * x) = x * (u * z) /\ v * (y * x) = x * (y * v)
        /\ z * (w * v) = v * (w * z)
    BY <2>1
  <2>6. u * z \in Int /\ y * v \in Int /\ v * (w * z) \in Int /\ x * (u * z) \in Int /\ x * (y * v) \in Int
    BY <2>1
  <2>7. x * (u * z) <= x * (y * v)
    BY <2>3, <2>4, <2>5, <2>6
  <2>8. u * z <= y * v
    BY <2>1, <2>6, <2>7, CancelLe
  <2> QED
    BY <2>8 DEF AtMost, u, v, y, z
<1> QED
  BY <1>1, <1>2

\* The four operations on the numbers of two ratios.
LEMMA PlusRatios ==
  ASSUME NEW n \in Int, NEW d \in Nat \ {0}, NEW m \in Int, NEW l \in Nat \ {0}
  PROVE  Plus(Ratio(n, d), Ratio(m, l)) = Ratio(n * l + m * d, d * l)
<1> DEFINE a == Ratio(n, d)  b == Ratio(m, l)
           p == a[1]  q == a[2]  r == b[1]  s == b[2]
<1>1. /\ p \in Int /\ q \in Nat /\ q > 0 /\ p * d = n * q
      /\ r \in Int /\ s \in Nat /\ s > 0 /\ r * l = m * s
  <2>1. /\ a \in Int \X (Nat \ {0}) /\ a[1] * d = n * a[2]
        /\ b \in Int \X (Nat \ {0}) /\ b[1] * l = m * b[2]
    BY RatioType
  <2> HIDE DEF a, b
  <2> QED
    BY <2>1
<1>2. Plus(a, b) = Ratio(p * s + r * q, q * s)
  BY DEF Plus
<1> HIDE DEF a, b, p, q, r, s
<1>3. (p * s) * (d * l) = (n * l) * (q * s)
  <2>1. (p * s) * (d * l) = (p * d) * (s * l)
    BY <1>1
  <2>2. (n * l) * (q * s) = (n * q) * (s * l)
    BY <1>1
  <2> QED
    BY <1>1, <2>1, <2>2
<1>4. (r * q) * (d * l) = (m * d) * (q * s)
  <2>1. (r * q) * (d * l) = (r * l) * (q * d)
    BY <1>1
  <2>2. (m * d) * (q * s) = (m * s) * (q * d)
    BY <1>1
  <2> QED
    BY <1>1, <2>1, <2>2
<1>5. (p * s + r * q) * (d * l) = (n * l + m * d) * (q * s)
  <2>1. (p * s + r * q) * (d * l) = (p * s) * (d * l) + (r * q) * (d * l)
    BY <1>1
  <2>2. (n * l + m * d) * (q * s) = (n * l) * (q * s) + (m * d) * (q * s)
    BY <1>1
  <2> QED
    BY <1>3, <1>4, <2>1, <2>2
<1>6. /\ p * s + r * q \in Int /\ q * s \in Nat \ {0}
      /\ n * l + m * d \in Int /\ d * l \in Nat \ {0}
  BY <1>1
<1>7. Ratio(p * s + r * q, q * s) = Ratio(n * l + m * d, d * l)
  BY <1>5, <1>6, RatioEq
<1> QED
  BY <1>2, <1>7 DEF a, b

\* The product of two ratios.
LEMMA TimesRatios ==
  ASSUME NEW n \in Int, NEW d \in Nat \ {0}, NEW m \in Int, NEW l \in Nat \ {0}
  PROVE  Times(Ratio(n, d), Ratio(m, l)) = Ratio(n * m, d * l)
<1> DEFINE a == Ratio(n, d)  b == Ratio(m, l)
           p == a[1]  q == a[2]  r == b[1]  s == b[2]
<1>1. /\ p \in Int /\ q \in Nat /\ q > 0 /\ p * d = n * q
      /\ r \in Int /\ s \in Nat /\ s > 0 /\ r * l = m * s
  <2>1. /\ a \in Int \X (Nat \ {0}) /\ a[1] * d = n * a[2]
        /\ b \in Int \X (Nat \ {0}) /\ b[1] * l = m * b[2]
    BY RatioType
  <2> HIDE DEF a, b
  <2> QED
    BY <2>1
<1>2. Times(a, b) = Ratio(p * r, q * s)
  BY DEF Times
<1> HIDE DEF a, b, p, q, r, s
<1>3. (p * r) * (d * l) = (n * m) * (q * s)
  <2>1. (p * r) * (d * l) = (p * d) * (r * l)
    BY <1>1
  <2>2. (n * m) * (q * s) = (n * q) * (m * s)
    BY <1>1
  <2> QED
    BY <1>1, <2>1, <2>2
<1>4. p * r \in Int /\ q * s \in Nat \ {0} /\ n * m \in Int /\ d * l \in Nat \ {0}
  BY <1>1
<1>5. Ratio(p * r, q * s) = Ratio(n * m, d * l)
  BY <1>3, <1>4, RatioEq
<1> QED
  BY <1>2, <1>5 DEF a, b

\* Sums and products are fractions; their laws.
LEMMA Arithmetic ==
  /\ \A a, b \in Fractions : /\ Plus(a, b) \in Fractions
                             /\ Minus(a, b) \in Fractions
                             /\ Times(a, b) \in Fractions
                             /\ b[1] > 0 => Over(a, b) \in Fractions
  /\ \A a, b \in Fractions : Plus(a, b) = Plus(b, a) /\ Times(a, b) = Times(b, a)
<1>1. SUFFICES ASSUME NEW a \in Fractions, NEW b \in Fractions
               PROVE  /\ Plus(a, b) \in Fractions
                      /\ Minus(a, b) \in Fractions
                      /\ Times(a, b) \in Fractions
                      /\ b[1] > 0 => Over(a, b) \in Fractions
                      /\ Plus(a, b) = Plus(b, a) /\ Times(a, b) = Times(b, a)
  OBVIOUS
<1> DEFINE p == a[1]  q == a[2]  r == b[1]  s == b[2]
<1>2. /\ p \in Int /\ q \in Nat /\ q > 0 /\ r \in Int /\ s \in Nat /\ s > 0
  BY FractionParts
<1>3. /\ Plus(a, b) = Ratio(p * s + r * q, q * s) /\ Plus(b, a) = Ratio(r * q + p * s, s * q)
      /\ Minus(a, b) = Ratio(p * s - r * q, q * s)
      /\ Times(a, b) = Ratio(p * r, q * s) /\ Times(b, a) = Ratio(r * p, s * q)
      /\ Over(a, b) = Ratio(p * s, q * r)
  BY DEF Plus, Minus, Times, Over
<1>4. b[1] = r
  OBVIOUS
<1> HIDE DEF p, q, r, s
<1>5. /\ p * s + r * q \in Int /\ p * s - r * q \in Int /\ p * r \in Int /\ p * s \in Int
      /\ q * s \in Nat \ {0} /\ (r > 0 => q * r \in Nat \ {0})
      /\ p * s + r * q = r * q + p * s /\ q * s = s * q /\ p * r = r * p
  BY <1>2
<1> QED
  BY <1>3, <1>4, <1>5, RatioFraction

\* The order of adding three fractions makes no difference.
LEMMA PlusAssociates ==
  ASSUME NEW a \in Fractions, NEW b \in Fractions, NEW c \in Fractions
  PROVE  Plus(a, Plus(b, c)) = Plus(Plus(a, b), c)
<1> DEFINE n == a[1]  d == a[2]  m == b[1]  l == b[2]  u == c[1]  v == c[2]
<1>1. /\ n \in Int /\ d \in Nat \ {0} /\ m \in Int /\ l \in Nat \ {0}
      /\ u \in Int /\ v \in Nat \ {0}
      /\ a = Ratio(n, d) /\ b = Ratio(m, l) /\ c = Ratio(u, v)
  BY FractionParts
<1> HIDE DEF n, d, m, l, u, v
<1>2. /\ m * v + u * l \in Int /\ l * v \in Nat \ {0}
      /\ n * l + m * d \in Int /\ d * l \in Nat \ {0}
  BY <1>1
<1>3. Plus(b, c) = Ratio(m * v + u * l, l * v) /\ Plus(a, b) = Ratio(n * l + m * d, d * l)
  BY <1>1, PlusRatios
<1>4. Plus(a, Plus(b, c)) = Ratio(n * (l * v) + (m * v + u * l) * d, d * (l * v))
  BY <1>1, <1>2, <1>3, PlusRatios
<1>5. Plus(Plus(a, b), c) = Ratio((n * l + m * d) * v + u * (d * l), (d * l) * v)
  BY <1>1, <1>2, <1>3, PlusRatios
<1>6. /\ n * (l * v) + (m * v + u * l) * d = (n * l + m * d) * v + u * (d * l)
      /\ d * (l * v) = (d * l) * v
  BY <1>1
<1> QED
  BY <1>4, <1>5, <1>6

\* A factor of a sum is a factor of its terms.
LEMMA TimesDistributes ==
  ASSUME NEW a \in Fractions, NEW b \in Fractions, NEW c \in Fractions
  PROVE  Times(a, Plus(b, c)) = Plus(Times(a, b), Times(a, c))
<1> DEFINE n == a[1]  d == a[2]  m == b[1]  l == b[2]  u == c[1]  v == c[2]
<1>1. /\ n \in Int /\ d \in Nat \ {0} /\ m \in Int /\ l \in Nat \ {0}
      /\ u \in Int /\ v \in Nat \ {0}
      /\ a = Ratio(n, d) /\ b = Ratio(m, l) /\ c = Ratio(u, v)
  BY FractionParts
<1> HIDE DEF n, d, m, l, u, v
<1>2. /\ m * v + u * l \in Int /\ l * v \in Nat \ {0}
      /\ n * m \in Int /\ d * l \in Nat \ {0} /\ n * u \in Int /\ d * v \in Nat \ {0}
  BY <1>1
<1>3. /\ Plus(b, c) = Ratio(m * v + u * l, l * v)
      /\ Times(a, b) = Ratio(n * m, d * l) /\ Times(a, c) = Ratio(n * u, d * v)
  <2>1. Plus(b, c) = Ratio(m * v + u * l, l * v)
    BY <1>1, PlusRatios
  <2>2. Times(a, b) = Ratio(n * m, d * l)
    BY <1>1, TimesRatios
  <2>3. Times(a, c) = Ratio(n * u, d * v)
    BY <1>1, TimesRatios
  <2> QED
    BY <2>1, <2>2, <2>3
<1>4. Times(a, Plus(b, c)) = Ratio(n * (m * v + u * l), d * (l * v))
  BY <1>1, <1>2, <1>3, TimesRatios
<1>5. Plus(Times(a, b), Times(a, c))
        = Ratio((n * m) * (d * v) + (n * u) * (d * l), (d * l) * (d * v))
  BY <1>2, <1>3, PlusRatios
<1>6. /\ (n * m) * (d * v) + (n * u) * (d * l) = d * (n * (m * v + u * l))
      /\ (d * l) * (d * v) = d * (d * (l * v))
  BY <1>1
<1>7. n * (m * v + u * l) \in Int /\ d * (l * v) \in Nat \ {0} /\ d \in Nat /\ d > 0
  BY <1>1, <1>2
<1>8. Ratio(d * (n * (m * v + u * l)), d * (d * (l * v))) = Ratio(n * (m * v + u * l), d * (l * v))
  BY <1>7, RatioScales
<1> QED
  BY <1>4, <1>5, <1>6, <1>8

\* Two ratios are compared by cross-multiplying.
LEMMA CompareRatios ==
  ASSUME NEW n \in Int, NEW d \in Nat, d > 0, NEW m \in Int, NEW l \in Nat, l > 0
  PROVE  AtMost(Ratio(n, d), Ratio(m, l)) <=> n * l <= m * d
<1> DEFINE r == Ratio(n, d)
           p == r[1]  q == r[2]
<1>1. r \in Fractions /\ r[1] * d = n * r[2]
  BY RatioFraction, RatioType
<1>2. p \in Int /\ q \in Nat /\ q > 0 /\ p * d = n * q
  BY <1>1, FractionParts
<1>3. AtMost(r, Ratio(m, l)) <=> r[1] * l <= m * r[2]
  <2> HIDE DEF r
  <2> QED
    BY <1>1, CompareRatio
<1>4. AtMost(r, Ratio(m, l)) <=> p * l <= m * q
  BY <1>3
<1> HIDE DEF r, p, q
<1>5. /\ p * l \in Int /\ m * q \in Int /\ n * l \in Int /\ m * d \in Int
      /\ d * (p * l) = (p * d) * l /\ q * (n * l) = (n * q) * l
      /\ d * (m * q) = q * (m * d)
  BY <1>2
<1>6. p * l <= m * q <=> d * (p * l) <= d * (m * q)
  BY <1>5, CancelLe
<1>7. n * l <= m * d <=> q * (n * l) <= q * (m * d)
  BY <1>2, <1>5, CancelLe
<1>8. d * (p * l) = q * (n * l)
  BY <1>2, <1>5
<1> QED
  BY <1>4, <1>5, <1>6, <1>7, <1>8 DEF r

\* Zero, one and a half, and the sign of a fraction.
LEMMA Signs ==
  /\ Zero \in Fractions /\ One \in Fractions /\ Half \in Fractions
  /\ \A a \in Fractions : /\ AtMost(Zero, a) <=> a[1] >= 0
                          /\ Less(Zero, a) <=> a[1] > 0
                          /\ Plus(Zero, a) = a /\ Plus(a, Zero) = a
                          /\ Times(One, a) = a /\ Times(a, One) = a
<1>0. ASSUME NEW g \in Nat, NEW k \in Nat, 1 = g * k PROVE g = 1
  BY <1>0
<1>1. Gcd(0, 1) = 1 /\ Gcd(1, 1) = 1 /\ Gcd(1, 2) = 1
  <2>1. Divides(Gcd(0, 1), 0, 1) /\ Divides(Gcd(1, 1), 1, 1) /\ Divides(Gcd(1, 2), 1, 2)
    BY GcdDivides
  <2> QED
    BY <2>1, <1>0 DEF Divides
<1>2. Ratio(0, 1) = Zero /\ Ratio(1, 1) = One /\ Ratio(1, 2) = Half
  <2>1. 0 \div 1 = 0 /\ 1 \div 1 = 1 /\ 2 \div 1 = 2
    OBVIOUS
  <2> QED
    BY <1>1, <2>1 DEF Ratio, Zero, One, Half
<1>3. Zero \in Fractions /\ One \in Fractions /\ Half \in Fractions
  BY <1>2, RatioFraction
<1>4. ASSUME NEW a \in Fractions
      PROVE  /\ AtMost(Zero, a) <=> a[1] >= 0
             /\ Less(Zero, a) <=> a[1] > 0
             /\ Plus(Zero, a) = a /\ Plus(a, Zero) = a
             /\ Times(One, a) = a /\ Times(a, One) = a
  <2> DEFINE n == a[1]  d == a[2]
  <2>1. n \in Int /\ d \in Nat /\ d > 0 /\ a = Ratio(n, d)
    BY FractionParts
  <2>2. /\ Plus(Zero, a) = Ratio(0 * d + n * 1, 1 * d)
        /\ Times(One, a) = Ratio(1 * n, 1 * d)
        /\ AtMost(Zero, a) <=> 0 * d <= n * 1
        /\ Less(Zero, a) <=> 0 * d < n * 1
    BY DEF Plus, Times, AtMost, Less, Zero, One
  <2>3. 0 * d + n * 1 = n /\ 1 * d = d /\ 1 * n = n /\ 0 * d = 0 /\ n * 1 = n
    BY <2>1
  <2>4. Plus(Zero, a) = a /\ Times(One, a) = a
    BY <2>1, <2>2, <2>3
  <2>5. Plus(a, Zero) = a /\ Times(a, One) = a
    BY <1>3, <2>4, Arithmetic
  <2> QED
    BY <2>1, <2>2, <2>3, <2>4, <2>5
<1> QED
  BY <1>3, <1>4

\* A sum grows with its terms, a product with a factor that is not negative.
LEMMA PlusMonotone ==
  ASSUME NEW a \in Fractions, NEW b \in Fractions, NEW c \in Fractions, AtMost(a, b)
  PROVE  AtMost(Plus(c, a), Plus(c, b))
<1> DEFINE n == a[1]  d == a[2]  m == b[1]  l == b[2]  u == c[1]  v == c[2]
<1>1. /\ n \in Int /\ d \in Nat /\ d > 0 /\ m \in Int /\ l \in Nat /\ l > 0
      /\ u \in Int /\ v \in Nat /\ v > 0
  BY FractionParts
<1>2. n * l <= m * d
  BY DEF AtMost
<1>3. Plus(c, a) = Ratio(u * d + n * v, v * d) /\ Plus(c, b) = Ratio(u * l + m * v, v * l)
  BY DEF Plus
<1> HIDE DEF n, d, m, l, u, v
<1>4. /\ u * d + n * v \in Int /\ v * d \in Nat /\ v * d > 0
      /\ u * l + m * v \in Int /\ v * l \in Nat /\ v * l > 0
  BY <1>1
<1>5. (u * d + n * v) * (v * l) <= (u * l + m * v) * (v * d)
  <2>1. /\ (u * d + n * v) * (v * l) = (u * d) * (v * l) + (v * v) * (n * l)
        /\ (u * l + m * v) * (v * d) = (u * d) * (v * l) + (v * v) * (m * d)
    BY <1>1
  <2>2. n * l \in Int /\ m * d \in Int /\ v * v \in Nat /\ v * v > 0
    BY <1>1
  <2>3. (v * v) * (n * l) <= (v * v) * (m * d)
    BY <1>2, <2>2, CancelLe
  <2>4. /\ (u * d) * (v * l) \in Int /\ (v * v) * (n * l) \in Int /\ (v * v) * (m * d) \in Int
    BY <1>1
  <2> QED
    BY <2>1, <2>3, <2>4
<1> QED
  BY <1>3, <1>4, <1>5, CompareRatios

\* A product grows with one factor when the other is not negative.
LEMMA TimesMonotone ==
  ASSUME NEW a \in Fractions, NEW b \in Fractions, NEW c \in Fractions,
         AtMost(a, b), AtMost(Zero, c)
  PROVE  AtMost(Times(a, c), Times(b, c))
<1> DEFINE n == a[1]  d == a[2]  m == b[1]  l == b[2]  u == c[1]  v == c[2]
<1>1. /\ n \in Int /\ d \in Nat /\ d > 0 /\ m \in Int /\ l \in Nat /\ l > 0
      /\ u \in Int /\ v \in Nat /\ v > 0
  BY FractionParts
<1>2. n * l <= m * d
  BY DEF AtMost
<1>3. Times(a, c) = Ratio(n * u, d * v) /\ Times(b, c) = Ratio(m * u, l * v)
  BY DEF Times
<1>4. u >= 0
  BY Signs
<1> HIDE DEF n, d, m, l, u, v
<1>5. /\ n * u \in Int /\ d * v \in Nat /\ d * v > 0
      /\ m * u \in Int /\ l * v \in Nat /\ l * v > 0
  BY <1>1
<1>6. (n * u) * (l * v) <= (m * u) * (d * v)
  <2>1. (n * u) * (l * v) = (u * v) * (n * l) /\ (m * u) * (d * v) = (u * v) * (m * d)
    BY <1>1
  <2>2. n * l \in Int /\ m * d \in Int /\ u * v \in Nat
    BY <1>1, <1>4
  <2>3. CASE u * v = 0
    BY <2>1, <2>2, <2>3
  <2>4. CASE u * v > 0
    BY <1>2, <2>1, <2>2, <2>4, CancelLe
  <2> QED
    BY <2>2, <2>3, <2>4
<1> QED
  BY <1>3, <1>5, <1>6, CompareRatios

\* A quotient is compared by multiplying.
LEMMA OverCompares ==
  ASSUME NEW a \in Fractions, NEW b \in Fractions, NEW w \in Fractions, w[1] > 0
  PROVE  /\ AtMost(Over(a, w), b) <=> AtMost(a, Times(b, w))
         /\ AtMost(b, Over(a, w)) <=> AtMost(Times(b, w), a)
<1> DEFINE n == a[1]  d == a[2]  m == b[1]  l == b[2]  u == w[1]  v == w[2]
<1>1. /\ n \in Int /\ d \in Nat /\ d > 0 /\ m \in Int /\ l \in Nat /\ l > 0
      /\ u \in Int /\ v \in Nat /\ v > 0 /\ u > 0
      /\ a = Ratio(n, d) /\ b = Ratio(m, l)
  BY FractionParts
<1>2. Over(a, w) = Ratio(n * v, d * u) /\ Times(b, w) = Ratio(m * u, l * v)
  BY DEF Over, Times
<1> HIDE DEF n, d, m, l, u, v
<1>3. /\ n * v \in Int /\ d * u \in Nat /\ d * u > 0
      /\ m * u \in Int /\ l * v \in Nat /\ l * v > 0
      /\ (n * v) * l = n * (l * v) /\ m * (d * u) = (m * u) * d
  BY <1>1
<1>4. AtMost(Ratio(n * v, d * u), Ratio(m, l)) <=> (n * v) * l <= m * (d * u)
  BY <1>1, <1>3, CompareRatios
<1>5. AtMost(Ratio(n, d), Ratio(m * u, l * v)) <=> n * (l * v) <= (m * u) * d
  BY <1>1, <1>3, CompareRatios
<1>6. AtMost(Ratio(m, l), Ratio(n * v, d * u)) <=> m * (d * u) <= (n * v) * l
  BY <1>1, <1>3, CompareRatios
<1>7. AtMost(Ratio(m * u, l * v), Ratio(n, d)) <=> (m * u) * d <= n * (l * v)
  BY <1>1, <1>3, CompareRatios
<1> QED
  BY <1>1, <1>2, <1>3, <1>4, <1>5, <1>6, <1>7

\* A quotient grows with what is divided.
LEMMA OverMonotone ==
  ASSUME NEW a \in Fractions, NEW b \in Fractions, NEW w \in Fractions, w[1] > 0,
         AtMost(a, b)
  PROVE  AtMost(Over(a, w), Over(b, w))
<1>1. Over(b, w) \in Fractions
  BY Arithmetic
<1>2. AtMost(Times(Over(b, w), w), b) /\ AtMost(b, Times(Over(b, w), w))
  BY <1>1, AtMostOrder, OverCompares
<1>3. Times(Over(b, w), w) \in Fractions
  BY <1>1, Arithmetic
<1>4. AtMost(a, Times(Over(b, w), w))
  BY <1>2, <1>3, AtMostOrder
<1> QED
  BY <1>1, <1>4, OverCompares

\* Turning a score around.
LEMMA MinusOne ==
  ASSUME NEW a \in Fractions, AtMost(Zero, a), AtMost(a, One)
  PROVE  AtMost(Zero, Minus(One, a)) /\ AtMost(Minus(One, a), One)
<1> DEFINE n == a[1]  d == a[2]
<1>1. n \in Int /\ d \in Nat /\ d > 0 /\ n >= 0
  BY FractionParts, Signs
<1>2. n * 1 <= 1 * d
  BY DEF AtMost, One
<1>3. Minus(One, a) = Ratio(1 * d - n * 1, 1 * d)
  BY DEF Minus, One
<1> HIDE DEF n, d
<1>4. 1 * d - n * 1 = d - n /\ 1 * d = d /\ d - n \in Int
  BY <1>1
<1>5. AtMost(Zero, Ratio(d - n, d)) <=> 0 * d <= (d - n) * 1
  <2>1. AtMost(Zero, Ratio(d - n, d)) <=> Zero[1] * d <= (d - n) * Zero[2]
    BY <1>1, <1>4, Signs, CompareRatio
  <2> QED
    BY <2>1 DEF Zero
<1>6. AtMost(Ratio(d - n, d), One) <=> (d - n) * 1 <= 1 * d
  <2>1. AtMost(Ratio(d - n, d), One) <=> (d - n) * One[2] <= One[1] * d
    BY <1>1, <1>4, Signs, CompareRatio
  <2> QED
    BY <2>1 DEF One
<1> QED
  BY <1>1, <1>2, <1>3, <1>4, <1>5, <1>6

-----------------------------------------------------------------------------
(***************************************************************************)
(* Folds, sums and totals: a fold takes elements out in an order that the  *)
(* library leaves open, and which makes no difference.                     *)
(***************************************************************************)
Taken(s) == CHOOSE x \in s : TRUE

\* g sums f over the subsets of S, one element after the other.
FoldsTo(g, add, zero, f, S) ==
  g = [s \in SUBSET S |-> IF s = {} THEN zero ELSE add[<<f[Taken(s)], g[s \ {Taken(s)}]>>]]

\* The recursion behind a fold is defined on every subset of a finite set.
LEMMA FoldExists ==
  ASSUME NEW S, IsFiniteSet(S), NEW add, NEW zero, NEW f
  PROVE  \E g : FoldsTo(g, add, zero, f, S)
<1> DEFINE Small(n) == {s \in SUBSET S : Cardinality(s) <= n}
           Step(g, s) == IF s = {} THEN zero ELSE add[<<f[Taken(s)], g[s \ {Taken(s)}]>>]
           Sums(g, n) == g = [s \in Small(n) |-> Step(g, s)]
           Good == {n \in Nat : \E g : Sums(g, n)}
<1>1. Cardinality(S) \in Nat /\ \A s \in SUBSET S : Cardinality(s) \in Nat /\ IsFiniteSet(s)
  BY FS_CardinalityType, FS_Subset
<1>2. ASSUME NEW n \in Nat, NEW s \in Small(n), s # {}
      PROVE  s \ {Taken(s)} \in Small(n - 1)
  <2>1. Taken(s) \in s
    BY <1>2 DEF Taken
  <2>2. Cardinality(s \ {Taken(s)}) = Cardinality(s) - 1
    BY <1>1, <2>1, FS_RemoveElement
  <2> QED
    BY <1>1, <2>2
<1>3. ASSUME NEW n \in 0 .. Cardinality(S), \A m \in 0 .. Cardinality(S) : m < n => m \in Good
      PROVE  n \in Good
  <2>1. n \in Nat
    BY <1>1
  <2>2. PICK g : n = 0 \/ Sums(g, n - 1)
    <3>1. CASE n = 0
      BY <3>1
    <3>2. CASE n # 0
      <4>1. n - 1 \in 0 .. Cardinality(S) /\ n - 1 < n
        BY <1>1, <3>2
      <4> QED
        BY <1>3, <4>1
    <3> QED
      BY <3>1, <3>2
  <2> DEFINE h == [s \in Small(n) |-> Step(g, s)]
  <2>3. ASSUME NEW s \in Small(n), s # {}
        PROVE  g[s \ {Taken(s)}] = h[s \ {Taken(s)}]
    <3> DEFINE t == s \ {Taken(s)}
    <3>1. t \in Small(n - 1)
      BY <1>2, <2>1, <2>3
    <3>2. n # 0
      BY <1>1, <3>1
    <3>3. t \in Small(n)
      BY <1>1, <2>1, <3>1
    <3>4. g[t] = Step(g, t)
      <4> HIDE DEF t, Small, Step
      <4> QED
        BY <2>2, <3>1, <3>2
    <3>5. h[t] = Step(g, t)
      <4> HIDE DEF t, Small, Step
      <4> QED
        BY <3>3
    <3> QED
      BY <3>4, <3>5
  <2>4. \A s \in Small(n) : Step(g, s) = Step(h, s)
    BY <2>3
  <2>5. Sums(h, n)
    <3> HIDE DEF Small, Step
    <3> QED
      BY <2>4
  <2> HIDE DEF h, Sums
  <2> QED
    BY <2>1, <2>5
<1> HIDE DEF Good
<1>4. Cardinality(S) \in Good
  <2>1. Cardinality(S) \in 0 .. Cardinality(S)
    BY <1>1
  <2>2. \A n \in 0 .. Cardinality(S) : n \in Good
    BY <1>1, <1>3, NumberInduction
  <2> QED
    BY <2>1, <2>2
<1>5. PICK g : Sums(g, Cardinality(S))
  BY <1>4 DEF Good
<1>6. Small(Cardinality(S)) = SUBSET S
  BY <1>1, FS_Subset
<1>7. FoldsTo(g, add, zero, f, S)
  BY <1>5, <1>6 DEF FoldsTo
<1> QED
  BY <1>7

\* How such a sum unfolds, and its type.
Unfolds(g, add, zero, f, S, T) ==
  /\ g[{}] = zero
  /\ \A s \in SUBSET S : s # {} => g[s] = add[<<f[Taken(s)], g[s \ {Taken(s)}]>>]
  /\ \A s \in SUBSET S : g[s] \in T
  /\ \A x \in S : f[x] \in T

\* It takes one element out at a time, and stays in the type of the operation.
LEMMA FoldUnfolds ==
  ASSUME NEW S, IsFiniteSet(S), NEW T, NEW zero \in T, NEW add \in [T \X T -> T],
         NEW f, \A x \in S : f[x] \in T, NEW g, FoldsTo(g, add, zero, f, S)
  PROVE  Unfolds(g, add, zero, f, S, T)
<1>1. g[{}] = zero
  BY DEF FoldsTo
<1>2. ASSUME NEW s \in SUBSET S, s # {}
      PROVE  g[s] = add[<<f[Taken(s)], g[s \ {Taken(s)}]>>]
  BY <1>2 DEF FoldsTo
<1> DEFINE Good == {s \in SUBSET S : g[s] \in T}
<1>3. ASSUME NEW s \in SUBSET S, s # {}, \A x \in s : s \ {x} \in Good
      PROVE  s \in Good
  <2>1. Taken(s) \in s
    BY <1>3 DEF Taken
  <2>2. f[Taken(s)] \in T /\ g[s \ {Taken(s)}] \in T
    BY <1>3, <2>1
  <2>3. add[<<f[Taken(s)], g[s \ {Taken(s)}]>>] \in T
    BY <2>2
  <2> QED
    BY <1>2, <1>3, <2>3
<1>4. {} \in Good
  BY <1>1
<1>5. \A s \in SUBSET S : s \in Good
  <2> HIDE DEF Good
  <2> QED
    BY <1>3, <1>4, SubsetInduction
<1> QED
  BY <1>1, <1>2, <1>5 DEF Unfolds

\* The operation is commutative and associative.
Commutes(add, T) ==
  /\ \A a, b \in T : add[<<a, b>>] = add[<<b, a>>]
  /\ \A a, b, c \in T : add[<<a, add[<<b, c>>]>>] = add[<<add[<<a, b>>], c>>]

\* Any element may be taken out first, when the operation is associative and commutative.
LEMMA FoldAnyFirst ==
  ASSUME NEW S, IsFiniteSet(S), NEW T, NEW zero, NEW add, Commutes(add, T), NEW f, NEW g,
         Unfolds(g, add, zero, f, S, T)
  PROVE  \A s \in SUBSET S : \A x \in s : g[s] = add[<<f[x], g[s \ {x}]>>]
<1>1. ASSUME NEW a \in T, NEW b \in T, NEW c \in T
      PROVE  add[<<a, add[<<b, c>>]>>] = add[<<b, add[<<a, c>>]>>]
  <2>1. add[<<a, add[<<b, c>>]>>] = add[<<add[<<a, b>>], c>>]
    BY DEF Commutes
  <2>2. add[<<b, add[<<a, c>>]>>] = add[<<add[<<b, a>>], c>>]
    BY DEF Commutes
  <2>3. add[<<a, b>>] = add[<<b, a>>]
    BY DEF Commutes
  <2> QED
    BY <2>1, <2>2, <2>3
<1>0. /\ \A s \in SUBSET S : s # {} => g[s] = add[<<f[Taken(s)], g[s \ {Taken(s)}]>>]
      /\ \A s \in SUBSET S : g[s] \in T
      /\ \A x \in S : f[x] \in T
  BY DEF Unfolds
<1> DEFINE Good == {s \in SUBSET S : \A x \in s : g[s] = add[<<f[x], g[s \ {x}]>>]}
<1>2. ASSUME NEW s \in SUBSET S, s # {}, \A x \in s : s \ {x} \in Good
      PROVE  s \in Good
  <2>1. SUFFICES ASSUME NEW x \in s PROVE g[s] = add[<<f[x], g[s \ {x}]>>]
    OBVIOUS
  <2> DEFINE c == Taken(s)
  <2>2. c \in s
    BY <1>2 DEF Taken
  <2>3. g[s] = add[<<f[c], g[s \ {c}]>>]
    BY <1>0, <1>2
  <2> HIDE DEF c
  <2>4. CASE x = c
    BY <2>3, <2>4
  <2>5. CASE x # c
    <3> DEFINE r == (s \ {c}) \ {x}
    <3>1. r = (s \ {x}) \ {c} /\ r \in SUBSET S
      OBVIOUS
    <3>2. g[s \ {c}] = add[<<f[x], g[r]>>]
      BY <1>2, <2>2, <2>5
    <3>3. g[s \ {x}] = add[<<f[c], g[r]>>]
      <4>1. c \in s \ {x} /\ s \ {x} \in Good
        BY <1>2, <2>2, <2>5
      <4>2. g[s \ {x}] = add[<<f[c], g[(s \ {x}) \ {c}]>>]
        BY <4>1
      <4> QED
        BY <3>1, <4>2
    <3>4. f[x] \in T /\ f[c] \in T /\ g[r] \in T
      BY <1>0, <2>2, <3>1
    <3> HIDE DEF r, Good
    <3>5. add[<<f[c], add[<<f[x], g[r]>>]>>] = add[<<f[x], add[<<f[c], g[r]>>]>>]
      BY <1>1, <3>4
    <3> QED
      BY <2>3, <3>2, <3>3, <3>5
  <2> QED
    BY <2>4, <2>5
<1>3. {} \in Good
  OBVIOUS
<1>4. \A s \in SUBSET S : s \in Good
  <2> HIDE DEF Good
  <2> QED
    BY <1>2, <1>3, SubsetInduction
<1> QED
  BY <1>4

(***************************************************************************)
(* Sums of fractions.                                                      *)
(***************************************************************************)
LEMMA SumUnfolds ==
  ASSUME NEW S, IsFiniteSet(S), NEW f, \A x \in S : f[x] \in Fractions
  PROVE  /\ SumOf(f, {}) = Zero
         /\ \A s \in SUBSET S : SumOf(f, s) \in Fractions
         /\ \A s \in SUBSET S : \A x \in s : SumOf(f, s) = Plus(f[x], SumOf(f, s \ {x}))
<1> DEFINE add == [p \in Fractions \X Fractions |-> Plus(p[1], p[2])]
<1>1. /\ add \in [Fractions \X Fractions -> Fractions]
      /\ \A a, b \in Fractions : add[<<a, b>>] = Plus(a, b)
  BY Arithmetic
<1>2. ASSUME NEW a \in Fractions, NEW b \in Fractions
      PROVE  add[<<a, b>>] = add[<<b, a>>]
  <2> HIDE DEF add
  <2>1. Plus(a, b) = Plus(b, a)
    BY Arithmetic
  <2> QED
    BY <1>1, <2>1
<1>3. ASSUME NEW a \in Fractions, NEW b \in Fractions, NEW c \in Fractions
      PROVE  add[<<a, add[<<b, c>>]>>] = add[<<add[<<a, b>>], c>>]
  <2> HIDE DEF add
  <2>1. Plus(a, b) \in Fractions /\ Plus(b, c) \in Fractions
    BY Arithmetic
  <2>2. /\ add[<<a, add[<<b, c>>]>>] = Plus(a, Plus(b, c))
        /\ add[<<add[<<a, b>>], c>>] = Plus(Plus(a, b), c)
    BY <1>1, <2>1
  <2> QED
    BY <2>2, PlusAssociates
<1> HIDE DEF add
<1>4. PICK g : FoldsTo(g, add, Zero, f, S)
  BY FoldExists
<1>0. Unfolds(g, add, Zero, f, S, Fractions)
  BY <1>1, <1>4, Signs, FoldUnfolds
<1>5. /\ g[{}] = Zero
      /\ \A s \in SUBSET S : g[s] \in Fractions
  BY <1>0 DEF Unfolds
<1>6. \A s \in SUBSET S : \A x \in s : g[s] = add[<<f[x], g[s \ {x}]>>]
  <2>1. Commutes(add, Fractions)
    BY <1>2, <1>3 DEF Commutes
  <2> QED
    BY <1>0, <2>1, FoldAnyFirst
<1>7. ASSUME NEW s \in SUBSET S, NEW x \in s
      PROVE  g[s] = Plus(f[x], g[s \ {x}])
  BY <1>1, <1>5, <1>6
<1>8. ASSUME NEW s \in SUBSET S
      PROVE  SumOf(f, s) = g[s]
  <2> DEFINE Step(h, t) == IF t = {} THEN Zero ELSE Plus(f[Taken(t)], h[t \ {Taken(t)}])
             Iterates(h) == h = [t \in SUBSET s |-> Step(h, t)]
             iter == CHOOSE h : Iterates(h)
             k == [t \in SUBSET s |-> g[t]]
  <2>1. SumOf(f, s) = iter[s]
    BY DEF SumOf, FoldFunctionOnSet, MapThenFoldSet, Taken
  <2>2. ASSUME NEW t \in SUBSET s PROVE k[t] = Step(k, t)
    <3>1. CASE t = {}
      BY <1>5, <3>1
    <3>2. CASE t # {}
      <4>1. Taken(t) \in t /\ t \in SUBSET S
        BY <3>2 DEF Taken
      <4>2. g[t] = Plus(f[Taken(t)], g[t \ {Taken(t)}])
        BY <1>7, <4>1
      <4> QED
        BY <3>2, <4>2
    <3> QED
      BY <3>1, <3>2
  <2>3. Iterates(k)
    <3> HIDE DEF Step
    <3> QED
      BY <2>2
  <2>4. Iterates(iter)
    <3> HIDE DEF Iterates, k
    <3> QED
      BY <2>3
  <2> HIDE DEF iter
  <2>5. \A t \in SUBSET s : iter[t] = Step(iter, t)
    <3> HIDE DEF Step
    <3> QED
      BY <2>4
  <2> DEFINE Good == {t \in SUBSET s : iter[t] = g[t]}
  <2>6. ASSUME NEW t \in SUBSET s, t # {}, \A x \in t : t \ {x} \in Good
        PROVE  t \in Good
    <3>1. Taken(t) \in t /\ t \in SUBSET S
      BY <2>6 DEF Taken
    <3>2. g[t] = Plus(f[Taken(t)], g[t \ {Taken(t)}])
      BY <1>7, <3>1
    <3>3. iter[t] = Plus(f[Taken(t)], iter[t \ {Taken(t)}])
      BY <2>5, <2>6
    <3>4. iter[t \ {Taken(t)}] = g[t \ {Taken(t)}]
      BY <2>6, <3>1
    <3> QED
      BY <3>2, <3>3, <3>4
  <2>7. {} \in Good
    BY <1>5, <2>5
  <2>8. IsFiniteSet(s)
    BY FS_Subset
  <2>9. \A t \in SUBSET s : t \in Good
    <3> HIDE DEF Good
    <3> QED
      BY <2>6, <2>7, <2>8, SubsetInduction
  <2> QED
    BY <2>1, <2>9
<1>9. ASSUME NEW s \in SUBSET S, NEW x \in s
      PROVE  SumOf(f, s) = Plus(f[x], SumOf(f, s \ {x}))
  <2>1. s \ {x} \in SUBSET S
    OBVIOUS
  <2> QED
    BY <1>7, <1>8, <2>1
<1> QED
  BY <1>5, <1>8, <1>9

(***************************************************************************)
(* Sums of numbers.                                                        *)
(***************************************************************************)
LEMMA TotalUnfolds ==
  ASSUME NEW S, IsFiniteSet(S), NEW f, \A x \in S : f[x] \in Nat
  PROVE  /\ SumFunctionOnSet(f, {}) = 0
         /\ \A s \in SUBSET S : SumFunctionOnSet(f, s) \in Nat
         /\ \A s \in SUBSET S : \A x \in s : SumFunctionOnSet(f, s) = (f[x] + SumFunctionOnSet(f, s \ {x}))
<1> DEFINE add == [p \in Nat \X Nat |-> p[1] + p[2]]
<1>1. /\ add \in [Nat \X Nat -> Nat]
      /\ \A a, b \in Nat : add[<<a, b>>] = (a + b)
  OBVIOUS
<1>2. ASSUME NEW a \in Nat, NEW b \in Nat
      PROVE  add[<<a, b>>] = add[<<b, a>>]
  <2> HIDE DEF add
  <2>1. (a + b) = (b + a)
    OBVIOUS
  <2> QED
    BY <1>1, <2>1
<1>3. ASSUME NEW a \in Nat, NEW b \in Nat, NEW c \in Nat
      PROVE  add[<<a, add[<<b, c>>]>>] = add[<<add[<<a, b>>], c>>]
  <2> HIDE DEF add
  <2>1. (a + b) \in Nat /\ (b + c) \in Nat
    OBVIOUS
  <2>2. /\ add[<<a, add[<<b, c>>]>>] = (a + (b + c))
        /\ add[<<add[<<a, b>>], c>>] = ((a + b) + c)
    BY <1>1, <2>1
  <2> QED
    BY <2>2
<1> HIDE DEF add
<1>4. PICK g : FoldsTo(g, add, 0, f, S)
  BY FoldExists
<1>0. Unfolds(g, add, 0, f, S, Nat)
  BY <1>1, <1>4, FoldUnfolds
<1>5. /\ g[{}] = 0
      /\ \A s \in SUBSET S : g[s] \in Nat
  BY <1>0 DEF Unfolds
<1>6. \A s \in SUBSET S : \A x \in s : g[s] = add[<<f[x], g[s \ {x}]>>]
  <2>1. Commutes(add, Nat)
    BY <1>2, <1>3 DEF Commutes
  <2> DEFINE T == Nat
             zero == 0
  <2>2. Commutes(add, T) /\ Unfolds(g, add, zero, f, S, T)
    BY <1>0, <2>1
  <2> HIDE DEF T, zero
  <2> QED
    BY <2>2, FoldAnyFirst
<1>7. ASSUME NEW s \in SUBSET S, NEW x \in s
      PROVE  g[s] = (f[x] + g[s \ {x}])
  BY <1>1, <1>5, <1>6
<1>8. ASSUME NEW s \in SUBSET S
      PROVE  SumFunctionOnSet(f, s) = g[s]
  <2> DEFINE Step(h, t) == IF t = {} THEN 0 ELSE (f[Taken(t)] + h[t \ {Taken(t)}])
             Iterates(h) == h = [t \in SUBSET s |-> Step(h, t)]
             iter == CHOOSE h : Iterates(h)
             k == [t \in SUBSET s |-> g[t]]
  <2>1. SumFunctionOnSet(f, s) = iter[s]
    BY DEF SumFunctionOnSet, FoldFunctionOnSet, MapThenFoldSet, Taken
  <2>2. ASSUME NEW t \in SUBSET s PROVE k[t] = Step(k, t)
    <3>1. CASE t = {}
      BY <1>5, <3>1
    <3>2. CASE t # {}
      <4>1. Taken(t) \in t /\ t \in SUBSET S
        BY <3>2 DEF Taken
      <4>2. g[t] = (f[Taken(t)] + g[t \ {Taken(t)}])
        BY <1>7, <4>1
      <4> QED
        BY <3>2, <4>2
    <3> QED
      BY <3>1, <3>2
  <2>3. Iterates(k)
    <3> HIDE DEF Step
    <3> QED
      BY <2>2
  <2>4. Iterates(iter)
    <3> HIDE DEF Iterates, k
    <3> QED
      BY <2>3
  <2> HIDE DEF iter
  <2>5. \A t \in SUBSET s : iter[t] = Step(iter, t)
    <3> HIDE DEF Step
    <3> QED
      BY <2>4
  <2> DEFINE Good == {t \in SUBSET s : iter[t] = g[t]}
  <2>6. ASSUME NEW t \in SUBSET s, t # {}, \A x \in t : t \ {x} \in Good
        PROVE  t \in Good
    <3>1. Taken(t) \in t /\ t \in SUBSET S
      BY <2>6 DEF Taken
    <3>2. g[t] = (f[Taken(t)] + g[t \ {Taken(t)}])
      BY <1>7, <3>1
    <3>3. iter[t] = (f[Taken(t)] + iter[t \ {Taken(t)}])
      BY <2>5, <2>6
    <3>4. iter[t \ {Taken(t)}] = g[t \ {Taken(t)}]
      BY <2>6, <3>1
    <3> QED
      BY <3>2, <3>3, <3>4
  <2>7. {} \in Good
    BY <1>5, <2>5
  <2>8. IsFiniteSet(s)
    BY FS_Subset
  <2>9. \A t \in SUBSET s : t \in Good
    <3> HIDE DEF Good
    <3> QED
      BY <2>6, <2>7, <2>8, SubsetInduction
  <2> QED
    BY <2>1, <2>9
<1>9. ASSUME NEW s \in SUBSET S, NEW x \in s
      PROVE  SumFunctionOnSet(f, s) = (f[x] + SumFunctionOnSet(f, s \ {x}))
  <2>1. s \ {x} \in SUBSET S
    OBVIOUS
  <2> QED
    BY <1>7, <1>8, <2>1
<1> QED
  BY <1>5, <1>8, <1>9

\* A sum depends on its terms only.
LEMMA SumReindexed ==
  ASSUME NEW S, IsFiniteSet(S), NEW U, IsFiniteSet(U), NEW f, NEW g, NEW pi,
         \A x \in S : pi[x] \in U /\ f[x] \in Fractions /\ f[x] = g[pi[x]],
         \A x, y \in S : pi[x] = pi[y] => x = y,
         \A u \in U : g[u] \in Fractions /\ \E x \in S : u = pi[x]
  PROVE  SumOf(f, S) = SumOf(g, U)
<1> DEFINE Image(s) == {pi[x] : x \in s}
           Good == {s \in SUBSET S : SumOf(f, s) = SumOf(g, Image(s))}
<1>1. /\ SumOf(f, {}) = Zero
      /\ \A s \in SUBSET S : \A x \in s : SumOf(f, s) = Plus(f[x], SumOf(f, s \ {x}))
  BY SumUnfolds
<1>2. /\ SumOf(g, {}) = Zero
      /\ \A s \in SUBSET U : \A x \in s : SumOf(g, s) = Plus(g[x], SumOf(g, s \ {x}))
  BY SumUnfolds
<1>3. ASSUME NEW s \in SUBSET S, s # {}, \A x \in s : s \ {x} \in Good
      PROVE  s \in Good
  <2>1. PICK x : x \in s
    BY <1>3
  <2>2. Image(s) \ {pi[x]} = Image(s \ {x})
    BY <2>1
  <2>3. Image(s) \in SUBSET U /\ pi[x] \in Image(s)
    BY <2>1
  <2>4. SumOf(g, Image(s)) = Plus(g[pi[x]], SumOf(g, Image(s \ {x})))
    <3> HIDE DEF Image
    <3>1. SumOf(g, Image(s)) = Plus(g[pi[x]], SumOf(g, Image(s) \ {pi[x]}))
      BY <1>2, <2>3
    <3> QED
      BY <2>2, <3>1
  <2>5. SumOf(f, s) = Plus(f[x], SumOf(f, s \ {x}))
    BY <1>1, <2>1
  <2> QED
    BY <1>3, <2>1, <2>4, <2>5
<1>4. {} \in Good
  <2>1. Image({}) = {}
    OBVIOUS
  <2> QED
    BY <1>1, <1>2, <2>1
<1>5. \A s \in SUBSET S : s \in Good
  <2> HIDE DEF Good
  <2> QED
    BY <1>3, <1>4, SubsetInduction
<1>6. Image(S) = U
  OBVIOUS
<1> QED
  BY <1>5, <1>6

\* ... and so does a sum of numbers.
LEMMA TotalReindexed ==
  ASSUME NEW S, IsFiniteSet(S), NEW U, IsFiniteSet(U), NEW f, NEW g, NEW pi,
         \A x \in S : pi[x] \in U /\ f[x] \in Nat /\ f[x] = g[pi[x]],
         \A x, y \in S : pi[x] = pi[y] => x = y,
         \A u \in U : g[u] \in Nat /\ \E x \in S : u = pi[x]
  PROVE  SumFunctionOnSet(f, S) = SumFunctionOnSet(g, U)
<1> DEFINE Image(s) == {pi[x] : x \in s}
           Good == {s \in SUBSET S : SumFunctionOnSet(f, s) = SumFunctionOnSet(g, Image(s))}
<1>1. /\ SumFunctionOnSet(f, {}) = 0
      /\ \A s \in SUBSET S : \A x \in s :
           SumFunctionOnSet(f, s) = f[x] + SumFunctionOnSet(f, s \ {x})
  BY TotalUnfolds
<1>2. /\ SumFunctionOnSet(g, {}) = 0
      /\ \A s \in SUBSET U : \A x \in s :
           SumFunctionOnSet(g, s) = g[x] + SumFunctionOnSet(g, s \ {x})
  BY TotalUnfolds
<1>3. ASSUME NEW s \in SUBSET S, s # {}, \A x \in s : s \ {x} \in Good
      PROVE  s \in Good
  <2>1. PICK x : x \in s
    BY <1>3
  <2>2. Image(s) \ {pi[x]} = Image(s \ {x})
    BY <2>1
  <2>3. Image(s) \in SUBSET U /\ pi[x] \in Image(s)
    BY <2>1
  <2>4. SumFunctionOnSet(g, Image(s)) = g[pi[x]] + SumFunctionOnSet(g, Image(s \ {x}))
    <3> HIDE DEF Image
    <3>1. SumFunctionOnSet(g, Image(s)) = g[pi[x]] + SumFunctionOnSet(g, Image(s) \ {pi[x]})
      BY <1>2, <2>3
    <3> QED
      BY <2>2, <3>1
  <2>5. SumFunctionOnSet(f, s) = f[x] + SumFunctionOnSet(f, s \ {x})
    BY <1>1, <2>1
  <2> QED
    BY <1>3, <2>1, <2>4, <2>5
<1>4. {} \in Good
  <2>1. Image({}) = {}
    OBVIOUS
  <2> QED
    BY <1>1, <1>2, <2>1
<1>5. \A s \in SUBSET S : s \in Good
  <2> HIDE DEF Good
  <2> QED
    BY <1>3, <1>4, SubsetInduction
<1>6. Image(S) = U
  OBVIOUS
<1> QED
  BY <1>5, <1>6

\* A sum does not fall when no term does.
LEMMA SumMonotone ==
  ASSUME NEW S, IsFiniteSet(S), NEW f, NEW g,
         \A x \in S : f[x] \in Fractions /\ g[x] \in Fractions /\ AtMost(f[x], g[x])
  PROVE  AtMost(SumOf(f, S), SumOf(g, S))
<1> DEFINE Good == {s \in SUBSET S : AtMost(SumOf(f, s), SumOf(g, s))}
<1>1. /\ SumOf(f, {}) = Zero
      /\ \A s \in SUBSET S : SumOf(f, s) \in Fractions
      /\ \A s \in SUBSET S : \A x \in s : SumOf(f, s) = Plus(f[x], SumOf(f, s \ {x}))
  BY SumUnfolds
<1>2. /\ SumOf(g, {}) = Zero
      /\ \A s \in SUBSET S : SumOf(g, s) \in Fractions
      /\ \A s \in SUBSET S : \A x \in s : SumOf(g, s) = Plus(g[x], SumOf(g, s \ {x}))
  BY SumUnfolds
<1>3. ASSUME NEW s \in SUBSET S, s # {}, \A x \in s : s \ {x} \in Good
      PROVE  s \in Good
  <2>1. PICK x : x \in s
    BY <1>3
  <2> DEFINE a == f[x]  b == g[x]  p == SumOf(f, s \ {x})  q == SumOf(g, s \ {x})
  <2>2. SumOf(f, s) = Plus(a, p) /\ SumOf(g, s) = Plus(b, q)
    BY <1>1, <1>2, <2>1
  <2>3. s \ {x} \in SUBSET S /\ s \ {x} \in Good
    BY <1>3, <2>1
  <2>4. /\ a \in Fractions /\ b \in Fractions /\ p \in Fractions /\ q \in Fractions
        /\ AtMost(a, b) /\ AtMost(p, q)
    BY <1>1, <1>2, <2>1, <2>3
  <2>5. AtMost(Plus(a, p), Plus(b, q))
    <3> HIDE DEF a, b, p, q
    <3>1. AtMost(Plus(a, p), Plus(a, q)) /\ AtMost(Plus(q, a), Plus(q, b))
      BY <2>4, PlusMonotone
    <3>2. /\ Plus(a, q) = Plus(q, a) /\ Plus(b, q) = Plus(q, b)
          /\ Plus(a, p) \in Fractions /\ Plus(a, q) \in Fractions /\ Plus(b, q) \in Fractions
      BY <2>4, Arithmetic
    <3> QED
      BY <3>1, <3>2, AtMostOrder
  <2> QED
    BY <2>2, <2>5
<1>4. {} \in Good
  BY <1>1, <1>2, Signs, AtMostOrder
<1>5. \A s \in SUBSET S : s \in Good
  <2> HIDE DEF Good
  <2> QED
    BY <1>3, <1>4, SubsetInduction
<1> QED
  BY <1>5

\* The sum of the multiples is the multiple of the sum.
LEMMA SumOfMultiples ==
  ASSUME NEW S, IsFiniteSet(S), NEW w, NEW f, NEW c \in Fractions,
         \A x \in S : w[x] \in Fractions /\ f[x] = Times(c, w[x])
  PROVE  SumOf(f, S) = Times(c, SumOf(w, S))
<1> DEFINE Good == {s \in SUBSET S : SumOf(f, s) = Times(c, SumOf(w, s))}
<1>0. \A x \in S : f[x] \in Fractions
  BY Arithmetic
<1>1. /\ SumOf(f, {}) = Zero
      /\ \A s \in SUBSET S : \A x \in s : SumOf(f, s) = Plus(f[x], SumOf(f, s \ {x}))
  BY <1>0, SumUnfolds
<1>2. /\ SumOf(w, {}) = Zero
      /\ \A s \in SUBSET S : SumOf(w, s) \in Fractions
      /\ \A s \in SUBSET S : \A x \in s : SumOf(w, s) = Plus(w[x], SumOf(w, s \ {x}))
  BY SumUnfolds
<1>3. ASSUME NEW s \in SUBSET S, s # {}, \A x \in s : s \ {x} \in Good
      PROVE  s \in Good
  <2>1. PICK x : x \in s
    BY <1>3
  <2>2. /\ SumOf(f, s) = Plus(f[x], SumOf(f, s \ {x}))
        /\ SumOf(w, s) = Plus(w[x], SumOf(w, s \ {x}))
        /\ SumOf(w, s \ {x}) \in Fractions /\ w[x] \in Fractions
    BY <1>1, <1>2, <2>1
  <2>3. SumOf(f, s \ {x}) = Times(c, SumOf(w, s \ {x})) /\ f[x] = Times(c, w[x])
    BY <1>3, <2>1
  <2> QED
    BY <2>2, <2>3, TimesDistributes
<1>4. {} \in Good
  <2>1. Times(c, Zero) = Zero
    <3> DEFINE n == c[1]  d == c[2]
    <3>1. n \in Int /\ d \in Nat /\ d > 0
      BY FractionParts
    <3>2. Times(c, Zero) = Ratio(n * 0, d * 1)
      BY DEF Times, Zero
    <3>3. Times(c, Zero) \in Fractions /\ Zero \in Fractions
      BY Arithmetic, Signs
    <3> HIDE DEF n, d
    <3>4. n * 0 = 0 /\ d * 1 = d
      BY <3>1
    <3>5. Ratio(0, d)[1] * d = 0 * Ratio(0, d)[2] /\ Ratio(0, d) \in Int \X (Nat \ {0})
      BY <3>1, RatioType
    <3>6. Ratio(0, d)[1] = 0
      BY <3>1, <3>5
    <3>7. Ratio(0, d) = Zero
      BY <3>2, <3>3, <3>4, <3>5, <3>6, FractionEq DEF Zero
    <3> QED
      BY <3>2, <3>4, <3>7
  <2> QED
    BY <1>1, <1>2, <2>1
<1>5. \A s \in SUBSET S : s \in Good
  <2> HIDE DEF Good
  <2> QED
    BY <1>3, <1>4, SubsetInduction
<1> QED
  BY <1>5

\* Sums of what is not negative, and of what is positive.
LEMMA SumSigns ==
  ASSUME NEW S, IsFiniteSet(S), NEW w, \A x \in S : w[x] \in Fractions /\ w[x][1] >= 0
  PROVE  /\ SumOf(w, S) \in Fractions /\ SumOf(w, S)[1] >= 0
         /\ (\E x \in S : w[x][1] > 0) => SumOf(w, S)[1] > 0
<1> DEFINE Good == {s \in SUBSET S : SumOf(w, s)[1] >= 0}
<1>1. /\ SumOf(w, {}) = Zero
      /\ \A s \in SUBSET S : SumOf(w, s) \in Fractions
      /\ \A s \in SUBSET S : \A x \in s : SumOf(w, s) = Plus(w[x], SumOf(w, s \ {x}))
  BY SumUnfolds
<1>2. ASSUME NEW a \in Fractions, NEW b \in Fractions, a[1] >= 0, b[1] >= 0
      PROVE  Plus(a, b)[1] >= 0 /\ (a[1] > 0 => Plus(a, b)[1] > 0)
  <2>1. AtMost(Zero, b) /\ Zero \in Fractions
    BY <1>2, Signs
  <2>2. AtMost(Plus(a, Zero), Plus(a, b))
    BY <2>1, PlusMonotone
  <2>3. AtMost(a, Plus(a, b)) /\ Plus(a, b) \in Fractions
    BY <2>2, Signs, Arithmetic
  <2>4. AtMost(Zero, a) /\ AtMost(Zero, Plus(a, b))
    BY <1>2, <2>1, <2>3, Signs, AtMostOrder
  <2>5. a[1] > 0 => ~ AtMost(Plus(a, b), Zero)
    <3>1. a[1] > 0 => Less(Zero, a)
      BY Signs
    <3>2. Less(Zero, a) => ~ AtMost(a, Zero)
      BY <2>1, AtMostOrder
    <3> QED
      BY <2>1, <2>3, <3>1, <3>2, AtMostOrder
  <2>6. ~ AtMost(Plus(a, b), Zero) => Less(Zero, Plus(a, b))
    BY <2>1, <2>3, AtMostOrder
  <2> QED
    BY <2>3, <2>4, <2>5, <2>6, Signs
<1>3. ASSUME NEW s \in SUBSET S, s # {}, \A x \in s : s \ {x} \in Good
      PROVE  s \in Good
  <2>1. PICK x : x \in s
    BY <1>3
  <2>2. /\ SumOf(w, s) = Plus(w[x], SumOf(w, s \ {x}))
        /\ SumOf(w, s \ {x}) \in Fractions /\ w[x] \in Fractions /\ w[x][1] >= 0
    BY <1>1, <2>1
  <2>3. SumOf(w, s \ {x})[1] >= 0
    BY <1>3, <2>1
  <2> QED
    BY <1>2, <2>2, <2>3
<1>4. {} \in Good
  BY <1>1 DEF Zero
<1>5. \A s \in SUBSET S : s \in Good
  <2> HIDE DEF Good
  <2> QED
    BY <1>3, <1>4, SubsetInduction
<1>6. ASSUME NEW x \in S, w[x][1] > 0
      PROVE  SumOf(w, S)[1] > 0
  <2>1. /\ SumOf(w, S) = Plus(w[x], SumOf(w, S \ {x}))
        /\ SumOf(w, S \ {x}) \in Fractions /\ w[x] \in Fractions /\ w[x][1] >= 0
    BY <1>1
  <2>2. SumOf(w, S \ {x})[1] >= 0
    BY <1>5
  <2> QED
    BY <1>2, <1>6, <2>1, <2>2
<1> QED
  BY <1>1, <1>5, <1>6

-----------------------------------------------------------------------------
(***************************************************************************)
(* Means.                                                                  *)
(***************************************************************************)
(***************************************************************************)
(* Means.                                                                  *)
(***************************************************************************)
\* Positive weights.
Weighs(w, S) == \A x \in S : w[x] \in Fractions /\ w[x][1] > 0

\* Values that are fractions, and these times their weights.
Values(f, S) == \A x \in S : f[x] \in Fractions
Products(f, w, S) == [x \in S |-> Times(f[x], w[x])]

\* What a weighted mean is made of, and that it is a fraction.
LEMMA WeightedMeanParts ==
  ASSUME NEW S, IsFiniteSet(S), S # {}, NEW f, NEW w, Weighs(w, S), Values(f, S)
  PROVE  /\ Values(Products(f, w, S), S)
         /\ SumOf(Products(f, w, S), S) \in Fractions
         /\ SumOf(w, S) \in Fractions /\ SumOf(w, S)[1] > 0
         /\ WeightedMeanOf(f, w, S) = Over(SumOf(Products(f, w, S), S), SumOf(w, S))
         /\ WeightedMeanOf(f, w, S) \in Fractions
<1>1. \A x \in S : w[x] \in Fractions /\ w[x][1] > 0
  BY DEF Weighs
<1>2. \A x \in S : w[x][1] >= 0
  BY <1>1, FractionParts
<1>3. \E x \in S : w[x][1] > 0
  BY <1>1
<1>4. SumOf(w, S) \in Fractions /\ SumOf(w, S)[1] > 0
  BY <1>1, <1>2, <1>3, SumSigns
<1>5. \A x \in S : Products(f, w, S)[x] \in Fractions
  BY <1>1, Arithmetic DEF Values, Products
<1>6. SumOf(Products(f, w, S), S) \in Fractions
  BY <1>5, SumUnfolds
<1>7. WeightedMeanOf(f, w, S) = Over(SumOf(Products(f, w, S), S), SumOf(w, S))
  BY DEF WeightedMeanOf, Products
<1>8. Over(SumOf(Products(f, w, S), S), SumOf(w, S)) \in Fractions
  BY <1>4, <1>6, Arithmetic
<1> QED
  BY <1>4, <1>5, <1>6, <1>7, <1>8 DEF Values

\* A weighted mean does not fall when no value does.
LEMMA WeightedMeanMonotone ==
  ASSUME NEW S, IsFiniteSet(S), S # {}, NEW f, NEW g, NEW w, Weighs(w, S),
         Values(f, S), Values(g, S), \A x \in S : AtMost(f[x], g[x])
  PROVE  AtMost(WeightedMeanOf(f, w, S), WeightedMeanOf(g, w, S))
<1> DEFINE fw == Products(f, w, S)
           gw == Products(g, w, S)
<1>1. /\ Values(fw, S) /\ SumOf(fw, S) \in Fractions
      /\ SumOf(w, S) \in Fractions /\ SumOf(w, S)[1] > 0
      /\ WeightedMeanOf(f, w, S) = Over(SumOf(fw, S), SumOf(w, S))
  BY WeightedMeanParts
<1>2. /\ Values(gw, S) /\ SumOf(gw, S) \in Fractions
      /\ WeightedMeanOf(g, w, S) = Over(SumOf(gw, S), SumOf(w, S))
  BY WeightedMeanParts
<1>3. ASSUME NEW x \in S
      PROVE  AtMost(fw[x], gw[x])
  <2>1. w[x] \in Fractions /\ w[x][1] > 0 /\ f[x] \in Fractions /\ g[x] \in Fractions
    BY DEF Weighs, Values
  <2>2. AtMost(Zero, w[x])
    BY <2>1, FractionParts, Signs
  <2>3. AtMost(Times(f[x], w[x]), Times(g[x], w[x]))
    BY <2>1, <2>2, TimesMonotone
  <2> QED
    BY <2>3 DEF Products
<1>4. AtMost(SumOf(fw, S), SumOf(gw, S))
  <2> HIDE DEF fw, gw
  <2> QED
    BY <1>1, <1>2, <1>3, SumMonotone DEF Values
<1> QED
  BY <1>1, <1>2, <1>4, OverMonotone

\* A mean is bounded by what bounds every term.
LEMMA WeightedMeanBounds ==
  ASSUME NEW S, IsFiniteSet(S), S # {}, NEW f, NEW w, Weighs(w, S), Values(f, S),
         NEW c \in Fractions
  PROVE  /\ (\A x \in S : AtMost(f[x], c)) => AtMost(WeightedMeanOf(f, w, S), c)
         /\ (\A x \in S : AtMost(c, f[x])) => AtMost(c, WeightedMeanOf(f, w, S))
<1> DEFINE fw == Products(f, w, S)
           cw == [x \in S |-> Times(c, w[x])]
           p == SumOf(fw, S)
           q == SumOf(w, S)
<1>1. /\ Values(fw, S) /\ p \in Fractions /\ q \in Fractions /\ q[1] > 0
      /\ WeightedMeanOf(f, w, S) = Over(p, q)
  BY WeightedMeanParts
<1>2. \A x \in S : w[x] \in Fractions /\ w[x][1] > 0
  BY DEF Weighs
<1>3. \A x \in S : fw[x] = Times(f[x], w[x]) /\ f[x] \in Fractions
  BY DEF Products, Values
<1>4. \A x \in S : cw[x] = Times(c, w[x])
  OBVIOUS
<1> HIDE DEF fw, cw
<1>5. SumOf(cw, S) = Times(c, q)
  BY <1>2, <1>4, SumOfMultiples
<1>6. ASSUME NEW x \in S
      PROVE  fw[x] \in Fractions /\ cw[x] \in Fractions /\ AtMost(Zero, w[x])
  <2>1. w[x] \in Fractions /\ w[x][1] > 0
    BY <1>2
  <2>2. AtMost(Zero, w[x])
    BY <2>1, FractionParts, Signs
  <2>3. cw[x] \in Fractions
    BY <1>4, <2>1, Arithmetic
  <2>4. fw[x] \in Fractions
    BY <1>1 DEF Values
  <2> QED
    BY <2>2, <2>3, <2>4
<1>7. ASSUME \A x \in S : AtMost(f[x], c)
      PROVE  AtMost(Over(p, q), c)
  <2>1. ASSUME NEW x \in S PROVE AtMost(fw[x], cw[x])
    BY <1>2, <1>3, <1>4, <1>6, <1>7, TimesMonotone
  <2>2. AtMost(p, Times(c, q))
    BY <1>5, <1>6, <2>1, SumMonotone
  <2> QED
    BY <1>1, <2>2, OverCompares
<1>8. ASSUME \A x \in S : AtMost(c, f[x])
      PROVE  AtMost(c, Over(p, q))
  <2>1. ASSUME NEW x \in S PROVE AtMost(cw[x], fw[x])
    BY <1>2, <1>3, <1>4, <1>6, <1>8, TimesMonotone
  <2>2. AtMost(Times(c, q), p)
    BY <1>5, <1>6, <2>1, SumMonotone
  <2> QED
    BY <1>1, <2>2, OverCompares
<1> QED
  BY <1>1, <1>7, <1>8

\* A whole number is in lowest terms over 1.
LEMMA WholeRatio ==
  ASSUME NEW n \in Nat
  PROVE  Ratio(n, 1) = <<n, 1>> /\ <<n, 1>> \in Fractions
<1>0. n \in Int /\ 1 \in Nat \ {0}
  OBVIOUS
<1>1. PICK g \in Nat, m \in Int, l \in Nat :
        /\ g > 0 /\ l > 0 /\ n = g * m /\ 1 = g * l
        /\ Ratio(n, 1) = <<m, l>>
  BY <1>0, RatioIs
<1>2. g = 1 /\ l = 1
  BY <1>1
<1>3. m = n
  BY <1>1, <1>2
<1>4. Ratio(n, 1) \in Fractions
  BY RatioFraction
<1> QED
  BY <1>1, <1>2, <1>3, <1>4

\* The plain mean is the mean of equal weights.
LEMMA PlainMean ==
  ASSUME NEW S, IsFiniteSet(S), S # {}, NEW f, Values(f, S)
  PROVE  MeanOf(f, S) = WeightedMeanOf(f, [x \in S |-> One], S)
<1> DEFINE ones == [x \in S |-> One]
           fw == [x \in S |-> Times(f[x], ones[x])]
           Good == {s \in SUBSET S : SumOf(ones, s) = <<Cardinality(s), 1>>}
<1>1. /\ SumOf(ones, {}) = Zero
      /\ \A s \in SUBSET S : \A x \in s : SumOf(ones, s) = Plus(One, SumOf(ones, s \ {x}))
  <2>1. \A x \in S : ones[x] \in Fractions
    BY Signs
  <2>2. \A x \in S : ones[x] = One
    OBVIOUS
  <2> HIDE DEF ones
  <2>3. /\ SumOf(ones, {}) = Zero
        /\ \A s \in SUBSET S : \A x \in s : SumOf(ones, s) = Plus(ones[x], SumOf(ones, s \ {x}))
    BY <2>1, SumUnfolds
  <2> QED
    BY <2>2, <2>3
<1>2. ASSUME NEW s \in SUBSET S, s # {}, \A x \in s : s \ {x} \in Good
      PROVE  s \in Good
  <2>1. PICK x : x \in s
    BY <1>2
  <2> DEFINE n == Cardinality(s \ {x})
  <2>2. IsFiniteSet(s) /\ n \in Nat /\ Cardinality(s) = n + 1
    BY <2>1, FS_Subset, FS_RemoveElement, FS_CardinalityType
  <2>3. SumOf(ones, s) = Plus(One, <<n, 1>>)
    BY <1>1, <1>2, <2>1
  <2> HIDE DEF n
  <2>4. Plus(One, <<n, 1>>) = Ratio(1 * 1 + n * 1, 1 * 1)
    BY DEF Plus, One
  <2>5. 1 * 1 + n * 1 = n + 1 /\ 1 * 1 = 1 /\ n + 1 \in Nat
    BY <2>2
  <2>6. SumOf(ones, s) = <<n + 1, 1>>
    BY <2>3, <2>4, <2>5, WholeRatio
  <2> QED
    BY <2>2, <2>6
<1>3. {} \in Good
  BY <1>1, FS_EmptySet DEF Zero
<1>4. \A s \in SUBSET S : s \in Good
  <2> HIDE DEF Good
  <2> QED
    BY <1>2, <1>3, SubsetInduction
<1>5. SumOf(ones, S) = <<Cardinality(S), 1>>
  BY <1>4
<1>6. SumOf(fw, S) = SumOf(f, S)
  <2> DEFINE id == [x \in S |-> x]
  <2>1. /\ \A x \in S : id[x] \in S /\ fw[x] \in Fractions /\ fw[x] = f[id[x]]
        /\ \A x, y \in S : id[x] = id[y] => x = y
        /\ \A u \in S : f[u] \in Fractions /\ \E x \in S : u = id[x]
    BY Signs DEF Values
  <2> HIDE DEF id, fw
  <2> QED
    BY <2>1, SumReindexed
<1>7. WeightedMeanOf(f, ones, S) = Over(SumOf(fw, S), SumOf(ones, S))
  BY DEF WeightedMeanOf
<1> QED
  BY <1>5, <1>6, <1>7 DEF MeanOf

\* Equal weights are weights.
LEMMA OnesWeigh ==
  ASSUME NEW S
  PROVE  Weighs([x \in S |-> One], S)
BY Signs DEF Weighs, One

\* A plain mean is bounded by what bounds every value.
LEMMA MeanBounds ==
  ASSUME NEW S, IsFiniteSet(S), S # {}, NEW f, Values(f, S),
         NEW c \in Fractions
  PROVE  /\ MeanOf(f, S) \in Fractions
         /\ (\A x \in S : AtMost(f[x], c)) => AtMost(MeanOf(f, S), c)
         /\ (\A x \in S : AtMost(c, f[x])) => AtMost(c, MeanOf(f, S))
<1> DEFINE ones == [x \in S |-> One]
<1>1. Weighs(ones, S)
  BY OnesWeigh
<1>2. MeanOf(f, S) = WeightedMeanOf(f, ones, S)
  BY PlainMean
<1> HIDE DEF ones
<1>3. WeightedMeanOf(f, ones, S) \in Fractions
  BY <1>1, WeightedMeanParts
<1> QED
  BY <1>1, <1>2, <1>3, WeightedMeanBounds

\* A plain mean does not fall when no value does.
LEMMA MeanMonotone ==
  ASSUME NEW S, IsFiniteSet(S), S # {}, NEW f, NEW g,
         Values(f, S), Values(g, S), \A x \in S : AtMost(f[x], g[x])
  PROVE  AtMost(MeanOf(f, S), MeanOf(g, S))
<1> DEFINE ones == [x \in S |-> One]
<1>1. Weighs(ones, S)
  BY OnesWeigh
<1>2. MeanOf(f, S) = WeightedMeanOf(f, ones, S) /\ MeanOf(g, S) = WeightedMeanOf(g, ones, S)
  BY PlainMean
<1> HIDE DEF ones
<1> QED
  BY <1>1, <1>2, WeightedMeanMonotone

\* Of finitely many fractions one is the greatest and one the least.
LEMMA Extremes ==
  ASSUME NEW S, IsFiniteSet(S), S # {}, NEW f, Values(f, S)
  PROVE  /\ \E m \in S : \A x \in S : AtMost(f[x], f[m])
         /\ \E m \in S : \A x \in S : AtMost(f[m], f[x])
<1> DEFINE Ends(s) == /\ \E m \in s : \A x \in s : AtMost(f[x], f[m])
                      /\ \E m \in s : \A x \in s : AtMost(f[m], f[x])
           Good == {s \in SUBSET S : s = {} \/ Ends(s)}
<1>1. ASSUME NEW s \in SUBSET S, s # {}, \A x \in s : s \ {x} \in Good
      PROVE  s \in Good
  <2>1. PICK x : x \in s
    BY <1>1
  <2>2. f[x] \in Fractions /\ AtMost(f[x], f[x])
    BY <2>1, AtMostOrder DEF Values
  <2>3. CASE s \ {x} = {}
    <3>1. s = {x}
      BY <2>1, <2>3
    <3> QED
      BY <2>2, <3>1
  <2>4. CASE s \ {x} # {}
    <3>1. Ends(s \ {x})
      BY <1>1, <2>1, <2>4
    <3>2. PICK m \in s \ {x} : \A y \in s \ {x} : AtMost(f[y], f[m])
      BY <3>1
    <3>3. PICK l \in s \ {x} : \A y \in s \ {x} : AtMost(f[l], f[y])
      BY <3>1
    <3>4. \E k \in s : \A y \in s : AtMost(f[y], f[k])
      <4>1. CASE AtMost(f[x], f[m])
        <5>1. \A y \in s : AtMost(f[y], f[m])
          BY <3>2, <4>1
        <5> QED
          BY <5>1
      <4>2. CASE ~ AtMost(f[x], f[m])
        <5>1. AtMost(f[m], f[x])
          BY <2>1, <4>2, AtMostOrder DEF Values
        <5>2. \A y \in s : AtMost(f[y], f[x])
          BY <2>2, <3>2, <5>1, AtMostOrder DEF Values
        <5> QED
          BY <2>1, <5>2
      <4> QED
        BY <4>1, <4>2
    <3>5. \E k \in s : \A y \in s : AtMost(f[k], f[y])
      <4>1. CASE AtMost(f[l], f[x])
        <5>1. \A y \in s : AtMost(f[l], f[y])
          BY <3>3, <4>1
        <5> QED
          BY <5>1
      <4>2. CASE ~ AtMost(f[l], f[x])
        <5>1. AtMost(f[x], f[l])
          BY <2>1, <4>2, AtMostOrder DEF Values
        <5>2. \A y \in s : AtMost(f[x], f[y])
          BY <2>2, <3>3, <5>1, AtMostOrder DEF Values
        <5> QED
          BY <2>1, <5>2
      <4> QED
        BY <4>1, <4>2
    <3> QED
      BY <3>4, <3>5
  <2> QED
    BY <2>3, <2>4
<1>2. {} \in Good
  OBVIOUS
<1>3. \A s \in SUBSET S : s \in Good
  <2> HIDE DEF Good
  <2> QED
    BY <1>1, <1>2, SubsetInduction
<1>4. S \in Good
  BY <1>3
<1> QED
  BY <1>4

-----------------------------------------------------------------------------
(***************************************************************************)
(* What one answer is worth (response_scoring.py).                         *)
(***************************************************************************)
\* The scores: fractions from 0 to 1.
Unit == {a \in Fractions : AtMost(Zero, a) /\ AtMost(a, One)}

\* A part of a number is between 0 and 1 of it.
LEMMA PartOfOne ==
  ASSUME NEW n \in Nat, NEW d \in Nat, d > 0, n <= d
  PROVE  Ratio(n, d) \in Unit
<1>1. Ratio(n, d) \in Fractions
  BY RatioFraction
<1>2. Zero \in Fractions /\ One \in Fractions
  BY Signs
<1>3. AtMost(Zero, Ratio(n, d)) <=> Zero[1] * d <= n * Zero[2]
  BY <1>2, CompareRatio
<1>4. AtMost(Ratio(n, d), One) <=> n * One[2] <= One[1] * d
  BY <1>2, CompareRatio
<1>5. Zero[1] = 0 /\ Zero[2] = 1 /\ One[1] = 1 /\ One[2] = 1
  BY DEF Zero, One
<1> QED
  BY <1>1, <1>3, <1>4, <1>5 DEF Unit

\* 0, a half and 1 are between 0 and 1.
LEMMA UnitEnds == Zero \in Unit /\ One \in Unit /\ Half \in Unit
<1>1. Ratio(0, 1) \in Unit /\ Ratio(1, 1) \in Unit /\ Ratio(1, 2) \in Unit
  BY PartOfOne
<1>2. Ratio(0, 1) = Zero /\ Ratio(1, 1) = One
  BY WholeRatio DEF Zero, One
<1>3. Half = Ratio(1, 2)
  <2>1. Half \in Fractions
    BY Signs
  <2>2. Half[1] = 1 /\ Half[2] = 2
    BY DEF Half
  <2> QED
    BY <2>1, <2>2, FractionParts
<1> QED
  BY <1>1, <1>2, <1>3

\* A plain mean of values between 0 and 1 is between 0 and 1.
LEMMA UnitMean ==
  ASSUME NEW S, IsFiniteSet(S), S # {}, NEW f, \A x \in S : f[x] \in Unit
  PROVE  MeanOf(f, S) \in Unit
<1>1. Values(f, S) /\ \A x \in S : AtMost(Zero, f[x]) /\ AtMost(f[x], One)
  BY DEF Values, Unit
<1>2. Zero \in Fractions /\ One \in Fractions
  BY Signs
<1> QED
  BY <1>1, <1>2, MeanBounds DEF Unit

\* So is a weighted mean.
LEMMA UnitWeightedMean ==
  ASSUME NEW S, IsFiniteSet(S), S # {}, NEW f, NEW w, Weighs(w, S), \A x \in S : f[x] \in Unit
  PROVE  WeightedMeanOf(f, w, S) \in Unit
<1>1. Values(f, S) /\ \A x \in S : AtMost(Zero, f[x]) /\ AtMost(f[x], One)
  BY DEF Values, Unit
<1>2. Zero \in Fractions /\ One \in Fractions
  BY Signs
<1>3. WeightedMeanOf(f, w, S) \in Fractions
  BY <1>1, WeightedMeanParts
<1> QED
  BY <1>1, <1>2, <1>3, WeightedMeanBounds DEF Unit

\* No curated weight is outside 0 to 100 hundredths (option_weights.py).
LEMMA CuratedWeights ==
  ASSUME NEW id
  PROVE  \A position \in DOMAIN WeightsOf(id) : WeightsOf(id)[position] \in 0 .. 100
<1> DEFINE Bounded(w) == \A position \in DOMAIN w.weights : w.weights[position] \in 0 .. 100
<1>1. \A w \in Weights1 : Bounded(w)
  BY DEF Weights1, W
<1>2. \A w \in Weights2 : Bounded(w)
  BY DEF Weights2, W
<1>3. \A w \in Weights3 : Bounded(w)
  BY DEF Weights3, W
<1>4. \A w \in Weights4 : Bounded(w)
  BY DEF Weights4, W
<1>5. \A w \in OptionWeightMaps : Bounded(w)
  BY <1>1, <1>2, <1>3, <1>4 DEF OptionWeightMaps
<1> QED
  BY <1>5 DEF WeightsOf

\* Up to a hundred hundredths are between 0 and 1.
LEMMA HundredthsUnit ==
  ASSUME NEW n \in 0 .. 100
  PROVE  Hundredths(n) \in Unit
BY PartOfOne DEF Hundredths

\* What an option is worth is between 0 and 1 (_resolve_option_value).
LEMMA OptionValueUnit ==
  ASSUME NEW q, NEW position
  PROVE  OptionValue(q, position, WeightsOf(q.id)) \in Unit
<1>1. HeuristicValue(q.opts[position]) \in 0 .. 100
  BY DEF HeuristicValue
<1>2. position \in DOMAIN WeightsOf(q.id) => WeightsOf(q.id)[position] \in 0 .. 100
  BY CuratedWeights
<1> QED
  BY <1>1, <1>2, HundredthsUnit DEF OptionValue

\* The questions scored are weighted like those of the bank.
LEMMA QuestionFacts ==
  ASSUME NEW q \in Questions
  PROVE  /\ IsFiniteSet(q.maps) /\ \A m \in q.maps : m.weight \in Nat \ {0}
         /\ q.type = "NR" => IsFiniteSet(DOMAIN q.opts) /\ DOMAIN q.opts \subseteq Nat
                             /\ Cardinality(Brackets(q)) > 1
BY QuestionsAssumption, BankIsWeighted

\* A bracket's place is the share of the other brackets before it.
LEMMA PlaceUnit ==
  ASSUME NEW brackets, IsFiniteSet(brackets), brackets \subseteq Nat,
         Cardinality(brackets) > 1, NEW position \in brackets
  PROVE  Place(position, brackets) \in Unit
<1> DEFINE before == {i \in brackets : i < position}
<1>1. IsFiniteSet(brackets \ {position})
       /\ Cardinality(brackets \ {position}) = Cardinality(brackets) - 1
  BY FS_RemoveElement
<1>2. before \subseteq brackets \ {position}
  OBVIOUS
<1>3. /\ IsFiniteSet(before)
      /\ Cardinality(before) <= Cardinality(brackets \ {position})
  BY <1>1, <1>2, FS_Subset
<1>4. Cardinality(before) \in Nat /\ Cardinality(brackets) \in Nat
  BY <1>3, FS_CardinalityType
<1>5. Ratio(Cardinality(before), Cardinality(brackets) - 1) \in Unit
  BY <1>1, <1>3, <1>4, PartOfOne
<1> QED
  BY <1>5 DEF Place

\* What an answer to one question is worth is a fraction of 1.
LEMMA ValueUnit ==
  ASSUME NEW q \in Questions, NEW answer \in Selections[q.id]
  PROVE  ScoreResponse(q, answer).value \in Unit
<1> DEFINE weights == WeightsOf(q.id)
<1>0. /\ IsFiniteSet(answer)
      /\ q.type \notin ExcludedTypes \cup {"TOOL_INVENTORY"} => answer # {}
      /\ q.type = "L5" => answer \subseteq 1 .. 5
      /\ q.type = "NR" => answer \subseteq DOMAIN q.opts
  BY SelectionsAssumption
<1>1. Half \in Unit /\ Zero \in Unit /\ Hundredths(75) \in Unit
  BY UnitEnds, HundredthsUnit
<1>2. \A position : OptionValue(q, position, weights) \in Unit
  BY OptionValueUnit
<1>3. ScoreSingle(q, answer, weights).value \in Unit
  BY <1>2 DEF ScoreSingle, Score
<1>4. ASSUME answer # {}
      PROVE  ScoreMultiple(q, answer, weights).value \in Unit
  <2> DEFINE f == [position \in answer |-> OptionValue(q, position, weights)]
  <2>1. \A x \in answer : f[x] \in Unit
    BY <1>2
  <2> HIDE DEF f
  <2>2. MeanOf(f, answer) \in Unit
    BY <1>0, <1>4, <2>1, UnitMean
  <2> QED
    BY <1>1, <2>2 DEF ScoreMultiple, Score, f
<1>5. ASSUME q.type = "NR"
      PROVE  ScoreRange(q, answer, weights).value \in Unit
  <2>1. Only(answer) \in answer /\ answer \subseteq DOMAIN q.opts
    BY <1>0, <1>5 DEF Only, ExcludedTypes
  <2>2. /\ IsFiniteSet(DOMAIN q.opts) /\ DOMAIN q.opts \subseteq Nat
        /\ Cardinality(Brackets(q)) > 1
    BY <1>5, QuestionFacts
  <2>3. Brackets(q) \subseteq DOMAIN q.opts /\ IsFiniteSet(Brackets(q))
    BY <2>2, FS_Subset DEF Brackets
  <2>4. ASSUME ~ IsDontKnow(q, Only(answer))
        PROVE  Place(Only(answer), Brackets(q)) \in Unit
    <3>1. Only(answer) \in Brackets(q)
      BY <2>1, <2>4 DEF Brackets
    <3> QED
      BY <2>2, <2>3, <3>1, PlaceUnit
  <2> QED
    BY <1>1, <1>2, <2>4 DEF ScoreRange, Score
<1>6. ASSUME q.type = "L5"
      PROVE  ScoreLikert(answer).value \in Unit
  <2>1. Only(answer) \in 1 .. 5
    BY <1>0, <1>6 DEF Only, ExcludedTypes
  <2>2. Ratio(Only(answer) - 1, 4) \in Unit
    BY <2>1, PartOfOne
  <2> QED
    BY <2>2 DEF ScoreLikert, Score
<1>7. ASSUME answer # {}
      PROVE  ScoreChoices(answer).value \in Unit
  <2> DEFINE Column(position) == ChoiceColumns[((position - 1) % 4) + 1]
             f == [position \in answer |-> Hundredths(HeuristicValue(Column(position)))]
  <2>1. \A x \in answer : f[x] \in Unit
    <3>1. \A class : HeuristicValue(class) \in 0 .. 100
      BY DEF HeuristicValue
    <3>2. \A class : Hundredths(HeuristicValue(class)) \in Unit
      BY <3>1, HundredthsUnit
    <3> QED
      BY <3>2
  <2>2. ScoreChoices(answer).value = MeanOf(f, answer)
    BY DEF ScoreChoices, Score
  <2> HIDE DEF f
  <2>3. MeanOf(f, answer) \in Unit
    BY <1>0, <1>7, <2>1, UnitMean
  <2> QED
    BY <2>2, <2>3
<1>8. /\ q.type \in {"SS", "YN", "MS", "NR", "L5", "MATRIX", "MATRIX_CHOICE"} => answer # {}
      /\ ScoreGrid.value \in Unit /\ Excluded.value \in Unit /\ Score(Half, FALSE).value \in Unit
  BY <1>0, <1>1 DEF ExcludedTypes, ScoreGrid, Excluded, Score
<1>9. CASE q.type \in {"SS", "YN"}
  BY <1>3, <1>9 DEF ScoreByType, ScoreResponse, ExcludedTypes
<1>10. CASE q.type = "MS"
  BY <1>4, <1>8, <1>10 DEF ScoreByType, ScoreResponse, ExcludedTypes
<1>11. CASE q.type = "NR"
  BY <1>5, <1>11 DEF ScoreByType, ScoreResponse, ExcludedTypes
<1>12. CASE q.type = "L5"
  BY <1>6, <1>12 DEF ScoreByType, ScoreResponse, ExcludedTypes
<1>13. CASE q.type = "MATRIX"
  BY <1>8, <1>13 DEF ScoreByType, ScoreResponse, ExcludedTypes
<1>14. CASE q.type = "MATRIX_CHOICE"
  BY <1>7, <1>8, <1>14 DEF ScoreByType, ScoreResponse, ExcludedTypes
<1>15. CASE q.type \in ExcludedTypes
  BY <1>8, <1>15 DEF ScoreByType, ScoreResponse, ExcludedTypes
<1>16. CASE q.type \notin {"SS", "YN", "MS", "NR", "L5", "MATRIX", "MATRIX_CHOICE"} \cup ExcludedTypes
  BY <1>8, <1>16 DEF ScoreByType, ScoreResponse, ExcludedTypes
<1> QED
  BY <1>9, <1>10, <1>11, <1>12, <1>13, <1>14, <1>15, <1>16

-----------------------------------------------------------------------------
(***************************************************************************)
(* The items of the frameworks, bags of weighted questions.                *)
(***************************************************************************)
\* Finitely many arguments have finitely many values.
LEMMA ImageFinite ==
  ASSUME NEW S, IsFiniteSet(S), NEW f
  PROVE  IsFiniteSet({f[x] : x \in S})
<1> DEFINE T == {f[x] : x \in S}
           h == [x \in S |-> f[x]]
<1>1. h \in Surjection(S, T)
  BY DEF Surjection
<1> QED
  BY <1>1, FS_Surjection

\* Finitely many questions are scored.
LEMMA QuestionsFinite == IsFiniteSet(Questions)
<1>1. Tier1Questions \in Seq(ToSet(Tier1Questions))
  BY BanksAreSequences
<1>2. DOMAIN Tier1Questions = 1 .. Len(Tier1Questions) /\ Len(Tier1Questions) \in Nat
  BY <1>1
<1>3. IsFiniteSet(DOMAIN Tier1Questions)
  BY <1>2, FS_Interval
<1>4. IsFiniteSet({Tier1Questions[i] : i \in DOMAIN Tier1Questions})
  BY <1>3, ImageFinite
<1>5. Questions \subseteq {Tier1Questions[i] : i \in DOMAIN Tier1Questions}
  BY QuestionsAssumption DEF Range
<1> QED
  BY <1>4, <1>5, FS_Subset

\* The mappings of all the questions, and of all the questions in an item.
AllMappings == UNION {q.maps : q \in Questions}
AllWeights == {m.weight : m \in AllMappings} \cup {100}
AllAssignments == [q : Questions, weight : AllWeights]

\* They have finitely many mappings, and assignments.
LEMMA MappingsFinite == IsFiniteSet(AllMappings) /\ IsFiniteSet(AllAssignments)
<1> DEFINE maps == [q \in Questions |-> q.maps]
           weight == [m \in AllMappings |-> m.weight]
           pairs == Questions \X AllWeights
           pair == [p \in pairs |-> Assignment(p[1], p[2])]
<1>1. IsFiniteSet({maps[q] : q \in Questions})
  BY QuestionsFinite, ImageFinite
<1>2. {maps[q] : q \in Questions} = {q.maps : q \in Questions}
  OBVIOUS
<1>3. \A M \in {q.maps : q \in Questions} : IsFiniteSet(M)
  BY QuestionFacts
<1>4. IsFiniteSet(AllMappings)
  BY <1>1, <1>2, <1>3, FS_UNION DEF AllMappings
<1>5. IsFiniteSet({weight[m] : m \in AllMappings})
  BY <1>4, ImageFinite
<1>6. {weight[m] : m \in AllMappings} = {m.weight : m \in AllMappings}
  OBVIOUS
<1>7. IsFiniteSet(AllWeights)
  BY <1>5, <1>6, FS_AddElement DEF AllWeights
<1>8. IsFiniteSet(pairs)
  BY <1>7, QuestionsFinite, FS_Product
<1> HIDE DEF pair, pairs
<1>9. IsFiniteSet({pair[p] : p \in pairs})
  BY <1>8, ImageFinite
<1> USE DEF pair, pairs
<1>10. ASSUME NEW a \in AllAssignments
       PROVE  \E p \in pairs : a = pair[p]
  <2>1. <<a.q, a.weight>> \in pairs
    BY DEF AllAssignments
  <2>2. a = Assignment(a.q, a.weight)
    BY DEF AllAssignments, Assignment
  <2>3. pair[<<a.q, a.weight>>] = Assignment(<<a.q, a.weight>>[1], <<a.q, a.weight>>[2])
    BY <2>1
  <2> QED
    BY <2>1, <2>2, <2>3
<1>11. AllAssignments \subseteq {pair[p] : p \in pairs}
  BY <1>10
<1>12. IsFiniteSet(AllAssignments)
  BY <1>9, <1>11, FS_Subset
<1> QED
  BY <1>4, <1>12

\* The questions of an item: finitely many, with weights that count.
Assignable(S) == IsFiniteSet(S) /\ \A a \in S : a.q \in Questions /\ a.weight \in Nat \ {0}

\* Any assignments of the bank can make up an item.
LEMMA AssignmentsAssignable ==
  ASSUME NEW S, S \subseteq AllAssignments
  PROVE  Assignable(S)
<1>1. \A w \in AllWeights : w \in Nat \ {0}
  BY QuestionFacts DEF AllWeights, AllMappings
<1>2. \A a \in AllAssignments : a.q \in Questions /\ a.weight \in Nat \ {0}
  BY <1>1 DEF AllAssignments, Assignment
<1> QED
  BY <1>2, MappingsFinite, FS_Subset DEF Assignable

\* A question under one of its weights is an assignment of the bank.
LEMMA AllOfThem ==
  ASSUME NEW q \in Questions
  PROVE  /\ \A m \in q.maps : Assignment(q, m.weight) \in AllAssignments
         /\ Assignment(q, 100) \in AllAssignments
<1>1. 100 \in AllWeights /\ \A m \in q.maps : m.weight \in AllWeights
  BY DEF AllWeights, AllMappings
<1>2. \A w \in AllWeights : Assignment(q, w) \in AllAssignments
  BY DEF AllAssignments, Assignment
<1> QED
  BY <1>1, <1>2

\* The governance steps are bags of weighted questions ...
LEMMA StepsAssignable == \A s \in Steps : Assignable(StepAssignments[s])
<1> SUFFICES ASSUME NEW s \in Steps PROVE Assignable(StepAssignments[s])
  OBVIOUS
<1>1. \A a \in StepAssignments[s] : \E q \in Questions : \E m \in q.maps :
        a = Assignment(q, m.weight)
  BY DEF StepAssignments, MappedBy
<1> QED
  BY <1>1, AllOfThem, AssignmentsAssignable

\* ... the efficiency components ...
LEMMA ComponentsAssignable == \A c \in Components : Assignable(ComponentAssignments[c])
<1> SUFFICES ASSUME NEW c \in Components PROVE Assignable(ComponentAssignments[c])
  OBVIOUS
<1>1. \A a \in ComponentAssignments[c] : \E q \in Questions : \E m \in q.maps :
        a = Assignment(q, m.weight)
  BY DEF ComponentAssignments, MappedBy
<1> QED
  BY <1>1, AllOfThem, AssignmentsAssignable

\* ... the readiness modules, with the questions added by section ...
LEMMA ModulesAssignable == \A m \in Modules : Assignable(ModuleAssignments[m])
<1> SUFFICES ASSUME NEW module \in Modules PROVE Assignable(ModuleAssignments[module])
  OBVIOUS
<1>1. \A a \in ModuleAssignments[module] :
        \/ \E q \in Questions : \E m \in q.maps : a = Assignment(q, m.weight)
        \/ \E q \in Questions : a = Assignment(q, 100)
  BY DEF ModuleAssignments, MappedBy
<1> QED
  BY <1>1, AllOfThem, AssignmentsAssignable

\* ... the sub-components of the audit's dimensions ...
LEMMA DimensionsAssignable ==
  \A d \in Dimensions : \A sub \in SubComponents(d) : Assignable(DimensionAssignments[d][sub])
<1> SUFFICES ASSUME NEW d \in Dimensions, NEW sub \in SubComponents(d)
             PROVE  Assignable(DimensionAssignments[d][sub])
  OBVIOUS
<1>1. \A a \in DimensionAssignments[d][sub] : \E q \in Questions : \E m \in q.maps :
        a = Assignment(q, m.weight)
  BY DEF DimensionAssignments, MappedBy
<1> QED
  BY <1>1, AllOfThem, AssignmentsAssignable

\* ... and the cross-cutting signals.
LEMMA SignalsAssignable ==
  \A s \in DOMAIN SignalAssignments : Assignable(SignalAssignments[s])
<1> SUFFICES ASSUME NEW s \in DOMAIN SignalAssignments PROVE Assignable(SignalAssignments[s])
  OBVIOUS
<1>1. \A a \in SignalAssignments[s] : \E q \in Questions : \E m \in q.maps :
        a = Assignment(q, m.weight)
  BY DEF SignalAssignments, MappedBy
<1> QED
  BY <1>1, AllOfThem, AssignmentsAssignable

\* Every framework has finitely many items.
LEMMA NamesFinite ==
  /\ IsFiniteSet(Dimensions) /\ IsFiniteSet(Modules)
  /\ IsFiniteSet(Steps) /\ IsFiniteSet(Components)
  /\ \A d \in Dimensions : IsFiniteSet(SubComponents(d))
  /\ IsFiniteSet(DOMAIN SignalAssignments)
<1>1. \A a, b, c, d, e, f : /\ IsFiniteSet({a, b, c, d, e, f})
                           /\ IsFiniteSet({a, b, c, d, e}) /\ IsFiniteSet({a, b})
  <2> TAKE a, b, c, d, e, f
  <2>1. IsFiniteSet({a} \cup {b})
    BY FS_Singleton, FS_AddElement
  <2>2. IsFiniteSet({a} \cup {b} \cup {c})
    BY <2>1, FS_AddElement
  <2>3. IsFiniteSet({a} \cup {b} \cup {c} \cup {d})
    BY <2>2, FS_AddElement
  <2>4. IsFiniteSet({a} \cup {b} \cup {c} \cup {d} \cup {e})
    BY <2>3, FS_AddElement
  <2>5. IsFiniteSet({a} \cup {b} \cup {c} \cup {d} \cup {e} \cup {f})
    BY <2>4, FS_AddElement
  <2>6. /\ {a, b} = {a} \cup {b}
        /\ {a, b, c, d, e} = {a} \cup {b} \cup {c} \cup {d} \cup {e}
        /\ {a, b, c, d, e, f} = {a} \cup {b} \cup {c} \cup {d} \cup {e} \cup {f}
    OBVIOUS
  <2> QED
    BY <2>1, <2>4, <2>5, <2>6
<1>2. /\ IsFiniteSet(Dimensions) /\ IsFiniteSet(Modules)
      /\ IsFiniteSet(Steps) /\ IsFiniteSet(Components)
  BY <1>1 DEF Dimensions, Modules, Steps, Components
<1>3. ASSUME NEW d \in Dimensions
      PROVE  IsFiniteSet(SubComponents(d))
  <2> DEFINE sub == [m \in AllMappings |-> SubComponentOf(m)]
  <2>1. IsFiniteSet({sub[m] : m \in AllMappings})
    BY MappingsFinite, ImageFinite
  <2>2. \A x \in SubComponents(d) : \E m \in AllMappings : x = SubComponentOf(m)
    BY DEF SubComponents, AllMappings
  <2>3. SubComponents(d) \subseteq {sub[m] : m \in AllMappings}
    BY <2>2
  <2> QED
    BY <2>1, <2>3, FS_Subset
<1>4. IsFiniteSet(DOMAIN SignalAssignments)
  <2> DEFINE part == [m \in AllMappings |-> m.part]
  <2>1. IsFiniteSet({part[m] : m \in AllMappings})
    BY MappingsFinite, ImageFinite
  <2>2. \A x \in DOMAIN SignalAssignments : \E m \in AllMappings : x = m.part
    BY DEF SignalAssignments, AllMappings
  <2>3. DOMAIN SignalAssignments \subseteq {part[m] : m \in AllMappings}
    BY <2>2
  <2> QED
    BY <2>1, <2>3, FS_Subset
<1> QED
  BY <1>2, <1>3, <1>4

-----------------------------------------------------------------------------
(***************************************************************************)
(* One respondent's items (frameworks/*.py).                               *)
(***************************************************************************)
\* A respondent's answers: to each question a selection that its page offers.
Given(given) == \A id \in DOMAIN given : given[id] \in Selections[id]

\* Whether an answer counts depends on the type of its question only.
LEMMA ExcludedByType ==
  ASSUME NEW q, NEW answer
  PROVE  ScoreResponse(q, answer).excluded <=> q.type \in ExcludedTypes
<1>1. /\ ScoreSingle(q, answer, WeightsOf(q.id)).excluded = FALSE
      /\ ScoreMultiple(q, answer, WeightsOf(q.id)).excluded = FALSE
      /\ ScoreRange(q, answer, WeightsOf(q.id)).excluded = FALSE
      /\ ScoreLikert(answer).excluded = FALSE /\ ScoreGrid.excluded = FALSE
      /\ ScoreChoices(answer).excluded = FALSE
      /\ Score(Half, FALSE).excluded = FALSE /\ Excluded.excluded = TRUE
  BY DEF ScoreSingle, ScoreMultiple, ScoreRange, ScoreLikert, ScoreGrid, ScoreChoices, Score,
         Excluded
<1>2. CASE q.type \in ExcludedTypes
  BY <1>1, <1>2 DEF ScoreResponse, ScoreByType, ExcludedTypes
<1>3. CASE q.type \in {"SS", "YN", "MS", "NR", "L5", "MATRIX", "MATRIX_CHOICE"}
  BY <1>1, <1>3 DEF ScoreResponse, ScoreByType, ExcludedTypes
<1>4. CASE q.type \notin {"SS", "YN", "MS", "NR", "L5", "MATRIX", "MATRIX_CHOICE"} \cup ExcludedTypes
  BY <1>1, <1>4 DEF ScoreResponse, ScoreByType, ExcludedTypes
<1> QED
  BY <1>2, <1>3, <1>4

\* The questions that count, what their answers are worth, and their weights.
CountingOf(assignments, given) ==
  {a \in assignments : a.q.id \in DOMAIN given /\ a.q.type \notin ExcludedTypes}
ValuesOf(assignments, given) ==
  [a \in CountingOf(assignments, given) |-> ScoreResponse(a.q, given[a.q.id]).value]
WeightsIn(counting) == [a \in counting |-> Hundredths(a.weight)]

\* An item is made of the answers that count: their weighted mean, number and weight.
LEMMA ItemIs ==
  ASSUME NEW assignments, NEW given
  PROVE  LET C == CountingOf(assignments, given)
             item == Item(assignments, given)
         IN  /\ item.score = IF C = {} THEN Zero
                             ELSE WeightedMeanOf(ValuesOf(assignments, given), WeightsIn(C), C)
             /\ item.answered = Cardinality(C)
             /\ item.expected = Cardinality(assignments)
             /\ \E D \in SUBSET C : item.dontKnow = Cardinality(D)
             /\ item.weight = SumOf(WeightsIn(C), C)
<1> DEFINE C == CountingOf(assignments, given)
           scores == Scores(assignments, given)
           D == {a \in C : scores[a].dontKnow}
<1>1. \A a \in DOMAIN scores : scores[a] = ScoreResponse(a.q, given[a.q.id])
  BY DEF Scores
<1>2. DOMAIN scores = {a \in assignments : a.q.id \in DOMAIN given}
  BY DEF Scores
<1>3. C = Counting(scores)
  BY <1>1, <1>2, ExcludedByType DEF Counting, CountingOf
<1>4. \A a \in C : scores[a].value = ScoreResponse(a.q, given[a.q.id]).value
  BY <1>1, <1>2 DEF CountingOf
<1>5. [a \in C |-> scores[a].value] = ValuesOf(assignments, given)
  BY <1>4 DEF ValuesOf
<1>6. WeightedScore(scores, C) = WeightedMeanOf(ValuesOf(assignments, given), WeightsIn(C), C)
  BY <1>5 DEF WeightedScore, WeightsIn
<1>7. Item(assignments, given) = ItemOf(scores, C, Cardinality(assignments))
  BY <1>3 DEF Item, ItemFrom
<1> HIDE DEF scores, C
<1>8. LET item == ItemOf(scores, C, Cardinality(assignments))
      IN  /\ item.score = IF C = {} THEN Zero ELSE WeightedScore(scores, C)
          /\ item.answered = Cardinality(C)
          /\ item.expected = Cardinality(assignments)
          /\ item.dontKnow = Cardinality(D)
          /\ item.weight = SumOf([a \in C |-> Hundredths(a.weight)], C)
  BY DEF ItemOf
<1>9. [a \in C |-> Hundredths(a.weight)] = WeightsIn(C) /\ D \in SUBSET C
  BY DEF WeightsIn
<1> QED
  BY <1>6, <1>7, <1>8, <1>9 DEF C

\* What a question's weight adds to a mean.
LEMMA HundredthsWeigh ==
  ASSUME NEW n \in Nat \ {0}
  PROVE  Hundredths(n) \in Fractions /\ Hundredths(n)[1] > 0
<1>1. Hundredths(n) \in Fractions
  BY RatioFraction DEF Hundredths
<1>2. Zero \in Fractions /\ Zero[1] = 0 /\ Zero[2] = 1
  BY Signs DEF Zero
<1>3. AtMost(Hundredths(n), Zero) <=> n * Zero[2] <= Zero[1] * 100
  BY <1>2, CompareRatio DEF Hundredths
<1>4. ~ AtMost(Hundredths(n), Zero)
  BY <1>2, <1>3
<1>5. Less(Zero, Hundredths(n))
  BY <1>1, <1>2, <1>4, AtMostOrder
<1> QED
  BY <1>1, <1>5, Signs

\* Their weights are positive and their values are between 0 and 1.
LEMMA CountingWeighs ==
  ASSUME NEW assignments, Assignable(assignments), NEW given, Given(given)
  PROVE  LET C == CountingOf(assignments, given)
         IN  /\ IsFiniteSet(C) /\ Weighs(WeightsIn(C), C)
             /\ \A a \in C : ValuesOf(assignments, given)[a] \in Unit
<1> DEFINE C == CountingOf(assignments, given)
<1>1. C \subseteq assignments /\ \A a \in C : a.q.id \in DOMAIN given
  BY DEF CountingOf
<1>2. IsFiniteSet(C)
  BY <1>1, FS_Subset DEF Assignable
<1>3. \A a \in C : a.q \in Questions /\ a.weight \in Nat \ {0}
  BY <1>1 DEF Assignable
<1>4. Weighs(WeightsIn(C), C)
  BY <1>3, HundredthsWeigh DEF Weighs, WeightsIn
<1>5. ASSUME NEW a \in C
      PROVE  ValuesOf(assignments, given)[a] \in Unit
  <2>1. given[a.q.id] \in Selections[a.q.id] /\ a.q \in Questions
    BY <1>1, <1>3 DEF Given
  <2>2. ScoreResponse(a.q, given[a.q.id]).value \in Unit
    BY <2>1, ValueUnit
  <2> QED
    BY <2>2 DEF ValuesOf
<1> QED
  BY <1>2, <1>4, <1>5

\* What is computed of an item, whoever computes it.
WellScored(item) ==
  /\ item.score \in Unit
  /\ item.answered \in Nat /\ item.expected \in Nat /\ item.dontKnow \in Nat
  /\ item.weight \in Fractions /\ item.weight[1] >= 0

Confidences == {"high", "medium", "low"}

\* ... and of one that has a confidence.
WellRated(item) ==
  /\ WellScored(item)
  /\ item.confidence \in Confidences \cup {"none"}
  /\ item.answered > 0 => item.confidence \in Confidences

\* An item of legal answers is well scored.
LEMMA ItemWellScored ==
  ASSUME NEW assignments, Assignable(assignments), NEW given, Given(given)
  PROVE  WellScored(Item(assignments, given))
<1> DEFINE C == CountingOf(assignments, given)
           f == ValuesOf(assignments, given)
           w == WeightsIn(C)
           item == Item(assignments, given)
<1>1. /\ item.score = IF C = {} THEN Zero ELSE WeightedMeanOf(f, w, C)
      /\ item.answered = Cardinality(C)
      /\ item.expected = Cardinality(assignments)
      /\ \E D \in SUBSET C : item.dontKnow = Cardinality(D)
      /\ item.weight = SumOf(w, C)
  BY ItemIs
<1>2. IsFiniteSet(C) /\ Weighs(w, C) /\ \A a \in C : f[a] \in Unit
  BY CountingWeighs
<1>3. Cardinality(C) \in Nat /\ Cardinality(assignments) \in Nat
  BY <1>2, FS_CardinalityType DEF Assignable
<1>4. \A D \in SUBSET C : Cardinality(D) \in Nat
  BY <1>2, FS_Subset, FS_CardinalityType
<1> HIDE DEF C, f, w, item
<1>5. \A x \in C : w[x] \in Fractions /\ w[x][1] >= 0
  BY <1>2 DEF Weighs, Fractions
<1>6. SumOf(w, C) \in Fractions /\ SumOf(w, C)[1] >= 0
  BY <1>2, <1>5, SumSigns
<1>7. item.score \in Unit
  BY <1>1, <1>2, UnitEnds, UnitWeightedMean
<1> QED
  BY <1>1, <1>3, <1>4, <1>6, <1>7 DEF WellScored, item

\* A computed confidence is high, medium or low.
LEMMA ConfidenceIs ==
  /\ \A ratio : ConfidenceForRatio(ratio) \in Confidences
  /\ \A answered, dontKnow : ComputeConfidence(answered, dontKnow) \in Confidences
<1>1. \A ratio : ConfidenceForRatio(ratio) \in Confidences
  BY DEF ConfidenceForRatio, Confidences
<1> QED
  BY <1>1 DEF ComputeConfidence, Confidences

\* An item keeps its score and extent when it gets a confidence, label and parts.
LEMMA TrustedIs ==
  ASSUME NEW item, WellScored(item)
  PROVE  /\ WellRated(WithConfidence(item))
         /\ WithConfidence(item).confidence \in Confidences
         /\ \A framework, subs : LET it == Assessed(framework, item, subs)
                                 IN  /\ WellRated(it) /\ it.subs = subs
                                     /\ it.score = item.score /\ it.answered = item.answered
                                     /\ it.weight = item.weight /\ it.expected = item.expected
<1>1. ComputeConfidence(item.answered, item.dontKnow) \in Confidences
  BY ConfidenceIs
<1>2. WellRated(WithConfidence(item)) /\ WithConfidence(item).confidence \in Confidences
  BY <1>1 DEF WellRated, WithConfidence, Trusted, WellScored
<1> SUFFICES ASSUME NEW framework, NEW subs
             PROVE  LET it == Assessed(framework, item, subs)
                    IN  /\ WellRated(it) /\ it.subs = subs
                        /\ it.score = item.score /\ it.answered = item.answered
                        /\ it.weight = item.weight /\ it.expected = item.expected
  BY <1>2
<1>3. CASE item.answered = 0
  BY <1>3 DEF WellRated, WellScored, Assessed, Rated, Trusted
<1>4. CASE item.answered # 0
  BY <1>1, <1>4 DEF WellRated, WellScored, Assessed, Rated, WithConfidence, Trusted
<1> QED
  BY <1>3, <1>4

\* Numbers and weights of finitely many items are added up.
LEMMA SumTypes ==
  ASSUME NEW S, IsFiniteSet(S), NEW f
  PROVE  /\ (\A x \in S : f[x] \in Nat) => SumFunctionOnSet(f, S) \in Nat
         /\ (\A x \in S : f[x] \in Fractions /\ f[x][1] >= 0)
              => SumOf(f, S) \in Fractions /\ SumOf(f, S)[1] >= 0
<1>1. ASSUME \A x \in S : f[x] \in Nat
      PROVE  SumFunctionOnSet(f, S) \in Nat
  BY <1>1, TotalUnfolds
<1>2. ASSUME \A x \in S : f[x] \in Fractions /\ f[x][1] >= 0
      PROVE  SumOf(f, S) \in Fractions /\ SumOf(f, S)[1] >= 0
  BY <1>2, SumSigns
<1> QED
  BY <1>1, <1>2

\* A score that is turned around is between 0 and 1.
LEMMA TurnedUnit ==
  ASSUME NEW d, NEW raw \in Unit
  PROVE  Turned(d, raw) \in Unit
<1>1. Minus(One, raw) \in Fractions
  BY Arithmetic, Signs DEF Unit
<1>2. AtMost(Zero, Minus(One, raw)) /\ AtMost(Minus(One, raw), One)
  BY MinusOne DEF Unit
<1> QED
  BY <1>1, <1>2 DEF Turned, Unit

\* A dimension of well-scored sub-components is well scored.
LEMMA DimensionWellScored ==
  ASSUME NEW d, NEW subs, IsFiniteSet(DOMAIN subs), \A s \in DOMAIN subs : WellScored(subs[s]),
         NEW active, active \subseteq DOMAIN subs
  PROVE  WellScored(AggregateDimension(d, subs, active))
<1> DEFINE score == [s \in active |-> subs[s].score]
           answered == [s \in active |-> subs[s].answered]
           expected == [s \in DOMAIN subs |-> subs[s].expected]
           dontKnow == [s \in active |-> subs[s].dontKnow]
           weight == [s \in active |-> subs[s].weight]
           item == AggregateDimension(d, subs, active)
<1>1. /\ item.score = IF active = {} THEN Zero ELSE Turned(d, MeanOf(score, active))
      /\ item.answered = SumFunction(answered)
      /\ item.expected = SumFunction(expected)
      /\ item.dontKnow = SumFunction(dontKnow)
      /\ item.weight = SumOf(weight, active)
  BY DEF AggregateDimension
<1>2. /\ SumFunction(answered) = SumFunctionOnSet(answered, active)
      /\ SumFunction(expected) = SumFunctionOnSet(expected, DOMAIN subs)
      /\ SumFunction(dontKnow) = SumFunctionOnSet(dontKnow, active)
  BY DEF SumFunction
<1>3. /\ \A s \in active : score[s] \in Unit /\ answered[s] \in Nat /\ dontKnow[s] \in Nat
      /\ \A s \in active : weight[s] \in Fractions /\ weight[s][1] >= 0
      /\ \A s \in DOMAIN subs : expected[s] \in Nat
  BY DEF WellScored
<1>4. IsFiniteSet(active)
  BY FS_Subset
<1> HIDE DEF score, answered, expected, dontKnow, weight, item
<1>5. /\ SumFunctionOnSet(answered, active) \in Nat
      /\ SumFunctionOnSet(expected, DOMAIN subs) \in Nat
      /\ SumFunctionOnSet(dontKnow, active) \in Nat
  BY <1>3, <1>4, SumTypes
<1>6. SumOf(weight, active) \in Fractions /\ SumOf(weight, active)[1] >= 0
  BY <1>3, <1>4, SumTypes
<1>7. ASSUME active # {}
      PROVE  Turned(d, MeanOf(score, active)) \in Unit
  BY <1>3, <1>4, <1>7, UnitMean, TurnedUnit
<1> QED
  BY <1>1, <1>2, <1>5, <1>6, <1>7, UnitEnds DEF WellScored, item

\* The names of a framework's items.
NamesOf(framework) ==
  CASE framework = "v1_audit" -> Dimensions
    [] framework = "v2_readiness" -> Modules
    [] framework = "v3_governance" -> Steps
    [] framework = "efficiency" -> Components

\* A framework's items, each with its sub-components, if it has some.
WellItems(framework, items) ==
  /\ DOMAIN items = NamesOf(framework)
  /\ \A name \in DOMAIN items : WellRated(items[name])
  /\ framework = "v1_audit" => \A d \in Dimensions :
       /\ DOMAIN items[d].subs = SubComponents(d)
       /\ \A s \in SubComponents(d) : WellRated(items[d].subs[s])

\* A respondent's dimension and its sub-components are well scored.
LEMMA DimensionWell ==
  ASSUME NEW d \in Dimensions, NEW given, Given(given)
  PROVE  LET item == Dimension(d, given)
         IN  /\ WellRated(item) /\ DOMAIN item.subs = SubComponents(d)
             /\ \A s \in SubComponents(d) : WellRated(item.subs[s])
<1> DEFINE subs == [sub \in SubComponents(d) |-> SubComponentScore(d, sub, given)]
<1>1. ASSUME NEW s \in SubComponents(d)
      PROVE  WellRated(subs[s])
  <2>1. WellScored(Item(DimensionAssignments[d][s], given))
    BY DimensionsAssignable, ItemWellScored
  <2>2. WellRated(WithConfidence(Item(DimensionAssignments[d][s], given)))
    BY <2>1, TrustedIs
  <2> QED
    BY <2>2 DEF SubComponentScore
<1>2. DOMAIN subs = SubComponents(d) /\ IsFiniteSet(DOMAIN subs)
  BY NamesFinite
<1>3. Dimension(d, given) = DimensionOfParts(d, subs)
  BY DEF Dimension
<1> HIDE DEF subs
<1>4. WellScored(AggregateDimension(d, subs, Answered(subs)))
  <2>1. \A s \in DOMAIN subs : WellScored(subs[s])
    BY <1>1, <1>2 DEF WellRated
  <2>2. Answered(subs) \subseteq DOMAIN subs
    BY DEF Answered
  <2> QED
    BY <1>2, <2>1, <2>2, DimensionWellScored
<1>5. WellRated(DimensionOfParts(d, subs)) /\ DimensionOfParts(d, subs).subs = subs
  BY <1>4, TrustedIs DEF DimensionOfParts
<1> QED
  BY <1>1, <1>2, <1>3, <1>5

\* So are all items of a framework.
LEMMA ItemsWell ==
  ASSUME NEW framework \in FrameworkNames, NEW given, Given(given)
  PROVE  WellItems(framework, ItemsOf(framework, given))
<1>1. CASE framework = "v1_audit"
  <2>1. ItemsOf(framework, given) = [d \in Dimensions |-> Dimension(d, given)]
    BY <1>1 DEF ItemsOf
  <2>2. NamesOf(framework) = Dimensions
    BY <1>1 DEF NamesOf
  <2> QED
    BY <2>1, <2>2, DimensionWell DEF WellItems
<1>2. CASE framework = "v2_readiness"
  <2>1. ItemsOf(framework, given)
          = [m \in Modules |-> Assessed(framework, Item(ModuleAssignments[m], given), <<>>)]
    BY <1>2 DEF ItemsOf
  <2>2. NamesOf(framework) = Modules
    BY <1>2 DEF NamesOf
  <2>3. \A m \in Modules : WellScored(Item(ModuleAssignments[m], given))
    BY ModulesAssignable, ItemWellScored
  <2>4. \A m \in Modules :
          WellRated(Assessed(framework, Item(ModuleAssignments[m], given), <<>>))
    BY <2>3, TrustedIs
  <2> QED
    BY <1>2, <2>1, <2>2, <2>4 DEF WellItems
<1>3. CASE framework = "v3_governance"
  <2>1. ItemsOf(framework, given)
          = [m \in Steps |-> Assessed(framework, Item(StepAssignments[m], given), <<>>)]
    BY <1>3 DEF ItemsOf
  <2>2. NamesOf(framework) = Steps
    BY <1>3 DEF NamesOf
  <2>3. \A m \in Steps : WellScored(Item(StepAssignments[m], given))
    BY StepsAssignable, ItemWellScored
  <2>4. \A m \in Steps :
          WellRated(Assessed(framework, Item(StepAssignments[m], given), <<>>))
    BY <2>3, TrustedIs
  <2> QED
    BY <1>3, <2>1, <2>2, <2>4 DEF WellItems
<1>4. CASE framework = "efficiency"
  <2>1. ItemsOf(framework, given)
          = [m \in Components |-> Assessed(framework, Item(ComponentAssignments[m], given), <<>>)]
    BY <1>4 DEF ItemsOf
  <2>2. NamesOf(framework) = Components
    BY <1>4 DEF NamesOf
  <2>3. \A m \in Components : WellScored(Item(ComponentAssignments[m], given))
    BY ComponentsAssignable, ItemWellScored
  <2>4. \A m \in Components :
          WellRated(Assessed(framework, Item(ComponentAssignments[m], given), <<>>))
    BY <2>3, TrustedIs
  <2> QED
    BY <1>4, <2>1, <2>2, <2>4 DEF WellItems
<1> QED
  BY <1>1, <1>2, <1>3, <1>4 DEF FrameworkNames

-----------------------------------------------------------------------------
(***************************************************************************)
(* Composites, and one respondent's result.                                *)
(***************************************************************************)
\* A mean lies between two of the values it is of.
LEMMA WeightedMeanBetween ==
  ASSUME NEW S, IsFiniteSet(S), S # {}, NEW f, NEW w, Weighs(w, S), Values(f, S)
  PROVE  /\ \E m \in S : AtMost(f[m], WeightedMeanOf(f, w, S))
         /\ \E m \in S : AtMost(WeightedMeanOf(f, w, S), f[m])
<1>1. PICK least \in S : \A x \in S : AtMost(f[least], f[x])
  BY Extremes
<1>2. PICK greatest \in S : \A x \in S : AtMost(f[x], f[greatest])
  BY Extremes
<1>3. f[least] \in Fractions /\ f[greatest] \in Fractions
  BY DEF Values
<1>4. AtMost(f[least], WeightedMeanOf(f, w, S))
  BY <1>1, <1>3, WeightedMeanBounds
<1>5. AtMost(WeightedMeanOf(f, w, S), f[greatest])
  BY <1>2, <1>3, WeightedMeanBounds
<1> QED
  BY <1>4, <1>5

\* So does a plain mean.
LEMMA MeanBetween ==
  ASSUME NEW S, IsFiniteSet(S), S # {}, NEW f, Values(f, S)
  PROVE  /\ \E m \in S : AtMost(f[m], MeanOf(f, S))
         /\ \E m \in S : AtMost(MeanOf(f, S), f[m])
<1>1. Weighs([x \in S |-> One], S)
  BY OnesWeigh
<1>2. MeanOf(f, S) = WeightedMeanOf(f, [x \in S |-> One], S)
  BY PlainMean
<1> DEFINE w == [x \in S |-> One]
<1> HIDE DEF w
<1>3. /\ \E m \in S : AtMost(f[m], WeightedMeanOf(f, w, S))
      /\ \E m \in S : AtMost(WeightedMeanOf(f, w, S), f[m])
  BY <1>1, WeightedMeanBetween DEF w
<1> QED
  BY <1>2, <1>3 DEF w

\* A framework has finitely many items.
LEMMA NamesOfFinite ==
  ASSUME NEW framework \in FrameworkNames
  PROVE  IsFiniteSet(NamesOf(framework))
BY NamesFinite DEF NamesOf, FrameworkNames

\* A framework's composite, of the scores alone.
ScoreOf(items) == [i \in DOMAIN items |-> items[i].score]
WeightsOfDimensions(active) == [d \in active |-> Hundredths(CompositeWeights[d])]

\* The weights of the audit's dimensions are positive.
LEMMA DimensionsWeigh ==
  ASSUME NEW active, active \subseteq Dimensions
  PROVE  Weighs(WeightsOfDimensions(active), active)
<1>1. \A d \in Dimensions : CompositeWeights[d] \in Nat \ {0}
  BY DEF Dimensions, CompositeWeights
<1> QED
  BY <1>1, HundredthsWeigh DEF Weighs, WeightsOfDimensions

\* A composite is a mean over the items with an answer; in efficiency, over both components.
LEMMA CompositeIs ==
  ASSUME NEW framework \in FrameworkNames, NEW items
  PROVE  LET active == Answered(items)
             score == ScoreOf(items)
         IN  /\ active = {} => Composite(framework, items) = Zero
             /\ active # {} =>
                  Composite(framework, items) =
                    IF framework = "v1_audit"
                    THEN WeightedMeanOf(score, WeightsOfDimensions(active), active)
                    ELSE MeanOf(score, IF framework = "efficiency" THEN Components ELSE active)
<1> DEFINE score == ScoreOf(items)
<1>1. Composite(framework, items) = CompositeOf(framework, score, Answered(items))
  BY DEF Composite, ScoreOf
<1> HIDE DEF score
<1>2. ASSUME NEW active, active # {}
      PROVE  CompositeOf(framework, score, active) =
                    IF framework = "v1_audit"
                    THEN WeightedMeanOf(score, WeightsOfDimensions(active), active)
                    ELSE MeanOf(score, IF framework = "efficiency" THEN Components ELSE active)
  <2>1. CASE framework = "v1_audit"
    BY <1>2, <2>1 DEF CompositeOf, WeightsOfDimensions
  <2>2. CASE framework \in {"v2_readiness", "v3_governance"}
    BY <1>2, <2>2 DEF CompositeOf
  <2>3. CASE framework = "efficiency"
    BY <1>2, <2>3 DEF CompositeOf
  <2> QED
    BY <2>1, <2>2, <2>3 DEF FrameworkNames
<1>3. CompositeOf(framework, score, {}) = Zero
  BY DEF CompositeOf
<1> QED
  BY <1>1, <1>2, <1>3 DEF score

\* A composite is between 0 and 1.
LEMMA CompositeUnit ==
  ASSUME NEW framework \in FrameworkNames, NEW items, WellItems(framework, items)
  PROVE  Composite(framework, items) \in Unit
<1> DEFINE active == Answered(items)
           score == ScoreOf(items)
<1>1. active \subseteq NamesOf(framework)
  BY DEF WellItems, Answered
<1>2. IsFiniteSet(active) /\ IsFiniteSet(Components)
  BY <1>1, NamesOfFinite, NamesFinite, FS_Subset
<1>3. \A i \in NamesOf(framework) : score[i] \in Unit
  BY DEF WellItems, WellRated, WellScored, ScoreOf
<1>4. /\ framework = "efficiency" => Components = NamesOf(framework)
      /\ framework = "v1_audit" => Dimensions = NamesOf(framework)
      /\ Components # {}
  BY DEF NamesOf, Components
<1>5. /\ active = {} => Composite(framework, items) = Zero
      /\ active # {} =>
           Composite(framework, items) =
             IF framework = "v1_audit"
             THEN WeightedMeanOf(score, WeightsOfDimensions(active), active)
             ELSE MeanOf(score, IF framework = "efficiency" THEN Components ELSE active)
  BY CompositeIs
<1> HIDE DEF active, score
<1>6. CASE active = {}
  BY <1>5, <1>6, UnitEnds
<1>7. CASE active # {} /\ framework = "v1_audit"
  BY <1>1, <1>2, <1>3, <1>4, <1>5, <1>7, DimensionsWeigh, UnitWeightedMean
<1>8. CASE active # {} /\ framework = "efficiency"
  BY <1>2, <1>3, <1>4, <1>5, <1>8, UnitMean
<1>9. CASE active # {} /\ framework \notin {"v1_audit", "efficiency"}
  BY <1>1, <1>2, <1>3, <1>5, <1>9, UnitMean
<1> QED
  BY <1>6, <1>7, <1>8, <1>9

\* Between the scores of the items with an answer, where all that have none are left out.
LEMMA CompositeBetween ==
  ASSUME NEW framework \in FrameworkNames \ {"efficiency"}, NEW items,
         WellItems(framework, items), Answered(items) # {}
  PROVE  Between(Composite(framework, items), {items[i].score : i \in Answered(items)})
<1> DEFINE active == Answered(items)
           score == ScoreOf(items)
           composite == Composite(framework, items)
<1>1. active \subseteq NamesOf(framework)
  BY DEF WellItems, Answered
<1>2. IsFiniteSet(active)
  BY <1>1, NamesOfFinite, FS_Subset
<1>3. Values(score, active)
  BY <1>1 DEF WellItems, WellRated, WellScored, ScoreOf, Unit, Values
<1>4. framework = "v1_audit" => Dimensions = NamesOf(framework)
  BY DEF NamesOf
<1>5. composite = IF framework = "v1_audit"
                  THEN WeightedMeanOf(score, WeightsOfDimensions(active), active)
                  ELSE MeanOf(score, active)
  BY CompositeIs
<1>6. active # {}
  OBVIOUS
<1> HIDE DEF active, score, composite
<1>7. (\E m \in active : AtMost(score[m], composite)) /\ (\E m \in active : AtMost(composite, score[m]))
  <2>1. CASE framework = "v1_audit"
    BY <1>1, <1>2, <1>3, <1>4, <1>5, <1>6, <2>1, DimensionsWeigh, WeightedMeanBetween
  <2>2. CASE framework # "v1_audit"
    BY <1>2, <1>3, <1>5, <1>6, <2>2, MeanBetween
  <2> QED
    BY <2>1, <2>2
<1>8. \A m \in active : score[m] = items[m].score
  BY DEF active, score, ScoreOf, Answered
<1> QED
  BY <1>7, <1>8 DEF Between, active, composite

\* The result of one framework, of one respondent or of all.
WellResult(framework, result) ==
  /\ WellItems(framework, result.items)
  /\ result.composite = Composite(framework, result.items)
  /\ DOMAIN result.signals
       = IF framework = "v3_governance" THEN DOMAIN SignalAssignments ELSE {}
  /\ \A s \in DOMAIN result.signals : WellRated(result.signals[s])

\* One respondent's result of legal answers is well scored.
LEMMA RespondentWell ==
  ASSUME NEW given, Given(given), NEW framework \in FrameworkNames
  PROVE  WellResult(framework, RespondentResult(given)[framework])
<1> DEFINE signals == IF framework = "v3_governance" THEN Signals(given) ELSE <<>>
           result == RespondentResult(given)[framework]
           items == ItemsOf(framework, given)
<1>1. result = Result(framework, items, signals)
  BY DEF RespondentResult, FrameworkResult
<1>2. /\ result.items = items /\ result.signals = signals
      /\ result.composite = Composite(framework, items)
  BY <1>1 DEF Result, Outcome
<1>3. \A s \in DOMAIN SignalAssignments : WellRated(Signals(given)[s])
  <2>1. \A s \in DOMAIN SignalAssignments : WellScored(Item(SignalAssignments[s], given))
    BY SignalsAssignable, ItemWellScored
  <2>2. \A s \in DOMAIN SignalAssignments :
          WellRated(WithConfidence(Item(SignalAssignments[s], given)))
    BY <2>1, TrustedIs
  <2> QED
    BY <2>2 DEF Signals
<1>4. DOMAIN Signals(given) = DOMAIN SignalAssignments /\ DOMAIN <<>> = {}
  BY DEF Signals
<1> QED
  BY <1>2, <1>3, <1>4, ItemsWell DEF WellResult

-----------------------------------------------------------------------------
(***************************************************************************)
(* Respondents combined (aggregation.py).                                  *)
(***************************************************************************)
\* Every role has a weight for every item.
LEMMA RoleWeightNat ==
  ASSUME NEW role \in All, NEW framework \in FrameworkNames, NEW name
  PROVE  RoleWeight(role, framework, name) \in Nat
<1> DEFINE RoleTables == [All -> Nat]
<1>1. ExecHeavy \in RoleTables /\ TechHeavy \in RoleTables /\ FloorHeavy \in RoleTables /\ FinanceHeavy \in RoleTables
  BY DEF All, ExecHeavy, TechHeavy, FloorHeavy, FinanceHeavy
<1>2. ASSUME NEW t \in RoleTables, NEW r, NEW n \in Nat
      PROVE  [t EXCEPT ![r] = n] \in RoleTables
  BY <1>2
<1> HIDE DEF RoleTables
<1>3. \A n \in DOMAIN RoleWeights["v1_audit"] : RoleWeights["v1_audit"][n] \in RoleTables
  <2>1. /\ [TechHeavy EXCEPT !.IC = 10, !.MGR = 10] \in RoleTables
        /\ [ExecHeavy EXCEPT !.CISO = 20] \in RoleTables
        /\ [FinanceHeavy EXCEPT !.MGR = 10, !.IC = 5] \in RoleTables
    BY <1>1, <1>2
  <2> QED
    BY <1>1, <2>1 DEF RoleWeights
<1>4. \A n \in DOMAIN RoleWeights["v2_readiness"] : RoleWeights["v2_readiness"][n] \in RoleTables
  <2>1. /\ [FloorHeavy EXCEPT !.HR = 20] \in RoleTables
        /\ [TechHeavy EXCEPT !.MGR = 10] \in RoleTables
        /\ [ExecHeavy EXCEPT !.IC = 10, !.MGR = 10] \in RoleTables
        /\ [FinanceHeavy EXCEPT !.MGR = 10, !.IC = 5] \in RoleTables
    BY <1>1, <1>2
  <2> QED
    BY <1>1, <2>1 DEF RoleWeights
<1>5. \A n \in DOMAIN RoleWeights["v3_governance"] : RoleWeights["v3_governance"][n] \in RoleTables
  <2>1. /\ [ExecHeavy EXCEPT !.CISO = 20, !.IC = 0] \in RoleTables
        /\ [TechHeavy EXCEPT !.CFO = 15] \in RoleTables
        /\ [ExecHeavy EXCEPT !.MGR = 10, !.IC = 10] \in RoleTables
        /\ [ExecHeavy EXCEPT !.CISO = 20, !.CIO = 20, !.IC = 0] \in RoleTables
    BY <1>1, <1>2
  <2> QED
    BY <1>1, <2>1 DEF RoleWeights
<1>6. \A n \in DOMAIN RoleWeights["efficiency"] : RoleWeights["efficiency"][n] \in RoleTables
  <2>1. [FloorHeavy EXCEPT !.COO = 15, !.BOARD = 5] \in RoleTables
    BY <1>1, <1>2
  <2> QED
    BY <1>1, <2>1 DEF RoleWeights
<1>7. \A n \in DOMAIN RoleWeights[framework] : RoleWeights[framework][n] \in RoleTables
  BY <1>3, <1>4, <1>5, <1>6 DEF FrameworkNames
<1> QED
  BY <1>7 DEF RoleWeight, RoleTables

\* No part of something is 0, and nothing times anything.
LEMMA NothingRatio ==
  /\ \A d \in Nat \ {0} : Ratio(0, d) = Zero
  /\ \A a \in Fractions : Times(a, Zero) = Zero /\ Times(Zero, a) = Zero
<1>1. ASSUME NEW d \in Nat \ {0}
      PROVE  Ratio(0, d) = Zero
  <2>1. Ratio(0, 1) = Zero
    BY WholeRatio DEF Zero
  <2>2. 0 * 1 = 0 * d
    OBVIOUS
  <2>3. Ratio(0, d) = Ratio(0, 1)
    BY <2>2, RatioEq
  <2> QED
    BY <2>1, <2>3
<1>2. ASSUME NEW a \in Fractions
      PROVE  Times(a, Zero) = Zero /\ Times(Zero, a) = Zero
  <2>1. a[1] \in Int /\ a[2] \in Nat \ {0}
    BY FractionParts
  <2>2. Zero[1] = 0 /\ Zero[2] = 1 /\ a[1] * 0 = 0 /\ 0 * a[1] = 0 /\ a[2] * 1 = a[2] /\ 1 * a[2] = a[2]
    BY <2>1 DEF Zero
  <2>3. Times(a, Zero) = Ratio(0, a[2]) /\ Times(Zero, a) = Ratio(0, a[2])
    BY <2>2 DEF Times
  <2> QED
    BY <1>1, <2>1, <2>3
<1> QED
  BY <1>1, <1>2

\* The part of an item that was answered is not negative, and it is nothing without one.
LEMMA CovIs ==
  ASSUME NEW item, WellScored(item)
  PROVE  Cov(item) \in Unit /\ (item.answered = 0 => Cov(item) = Zero)
<1>1. item.answered \in Nat /\ item.expected \in Nat
  BY DEF WellScored
<1>2. CASE item.expected = 0
  BY <1>2, UnitEnds DEF Cov
<1>3. CASE item.expected # 0
  <2> DEFINE part == Ratio(item.answered, item.expected)
  <2>1. part \in Fractions
    BY <1>1, <1>3, RatioFraction
  <2>2. Zero \in Fractions /\ One \in Fractions /\ Zero[1] = 0 /\ Zero[2] = 1
    BY Signs DEF Zero
  <2>3. AtMost(Zero, part) <=> Zero[1] * item.expected <= item.answered * Zero[2]
    BY <1>1, <1>3, <2>2, CompareRatio
  <2>4. AtMost(Zero, part)
    BY <1>1, <2>2, <2>3
  <2>5. item.answered = 0 => part = Zero
    BY <1>1, <1>3, NothingRatio
  <2>6. Cov(item) = LeastOf(part, One)
    BY <1>3 DEF Cov
  <2> HIDE DEF part
  <2>7. One \in Unit /\ AtMost(Zero, One)
    BY UnitEnds DEF Unit
  <2>8. AtMost(Zero, One) /\ One \in Unit /\ Zero \in Unit
    BY UnitEnds DEF Unit
  <2> QED
    BY <2>1, <2>4, <2>5, <2>6, <2>8 DEF LeastOf, Unit
<1> QED
  BY <1>2, <1>3

\* An entry as it is made of a respondent's item.
WellEntry(entry) ==
  /\ entry.role \in All
  /\ WellRated(entry.item)
  /\ entry.weight \in Fractions /\ entry.weight[1] >= 0
  /\ entry.weight[1] > 0 => entry.item.answered > 0

\* An entry weighs something only if its respondent answered some of the item.
LEMMA EntryWell ==
  ASSUME NEW role \in All, NEW framework \in FrameworkNames, NEW name, NEW item, WellRated(item)
  PROVE  WellEntry(Entry(role, framework, name, item))
<1> DEFINE n == RoleWeight(role, framework, name)
           r == Ratio(n, 10)
           weight == Times(r, Cov(item))
<1>1. n \in Nat
  BY RoleWeightNat
<1>2. r \in Fractions
  BY <1>1, RatioFraction
<1>3. Cov(item) \in Unit /\ (item.answered = 0 => Cov(item) = Zero)
  BY CovIs DEF WellRated
<1>4. Zero \in Fractions /\ Zero[1] = 0 /\ Zero[2] = 1
  BY Signs DEF Zero
<1>5. AtMost(Zero, r)
  <2>1. AtMost(Zero, r) <=> Zero[1] * 10 <= n * Zero[2]
    BY <1>1, <1>4, CompareRatio
  <2> QED
    BY <1>1, <1>4, <2>1
<1> HIDE DEF r
<1>6. weight \in Fractions
  BY <1>2, <1>3, Arithmetic DEF Unit
<1>7. AtMost(Times(Zero, Cov(item)), weight) /\ Times(Zero, Cov(item)) = Zero
  BY <1>2, <1>3, <1>4, <1>5, TimesMonotone, NothingRatio DEF Unit
<1>8. weight[1] >= 0
  BY <1>6, <1>7, Signs
<1>9. item.answered = 0 => weight = Zero
  BY <1>2, <1>3, NothingRatio
<1>10. weight[1] > 0 => item.answered > 0
  BY <1>4, <1>9 DEF WellRated, WellScored
<1>11. Entry(role, framework, name, item) = [role |-> role, item |-> item, weight |-> weight]
  BY DEF Entry, EntryWeight, r
<1> HIDE DEF weight
<1> QED
  BY <1>6, <1>8, <1>10, <1>11 DEF WellEntry

\* The entries for one item, of at least one respondent.
WellEntries(entries) ==
  /\ DOMAIN entries # {} /\ IsFiniteSet(DOMAIN entries)
  /\ \A i \in DOMAIN entries : WellEntry(entries[i])

\* Entries that clear the guard have positive weights, and were answered.
LEMMA ClearingIs ==
  ASSUME NEW entries, WellEntries(entries)
  PROVE  LET weight == [i \in Clearing(entries) |-> entries[i].weight]
         IN  /\ IsFiniteSet(Clearing(entries)) /\ Weighs(weight, Clearing(entries))
             /\ Clearing(entries) \subseteq DOMAIN entries
             /\ \A i \in Clearing(entries) : entries[i].item.answered > 0
<1>1. Clearing(entries) \subseteq DOMAIN entries
  BY DEF Clearing
<1>2. \A i \in Clearing(entries) : entries[i].weight \in Fractions /\ entries[i].weight[1] > 0
  BY <1>1, Signs DEF Clearing, Clears, WellEntries, WellEntry
<1> QED
  BY <1>1, <1>2, FS_Subset DEF Weighs, WellEntries, WellEntry

\* The combined score lies between two of the scores that decide it.
LEMMA MeanScoreIs ==
  ASSUME NEW entries, WellEntries(entries)
  PROVE  LET score == MeanScore(entries, Clearing(entries))
             from == IF Clearing(entries) = {} THEN DOMAIN entries ELSE Clearing(entries)
         IN  /\ score \in Unit
             /\ \E i \in from : AtMost(entries[i].item.score, score)
             /\ \E i \in from : AtMost(score, entries[i].item.score)
<1> DEFINE C == Clearing(entries)
           f == ScoresIn(entries)
           w == [i \in C |-> entries[i].weight]
<1>1. \A i \in DOMAIN entries : f[i] = entries[i].item.score /\ f[i] \in Unit
  BY DEF ScoresIn, WellEntries, WellEntry, WellRated, WellScored
<1>2. IsFiniteSet(C) /\ Weighs(w, C) /\ C \subseteq DOMAIN entries
  BY ClearingIs
<1>3. MeanScore(entries, C) = IF C = {} THEN MeanOf(f, DOMAIN entries)
                              ELSE WeightedMeanOf(f, w, C)
  BY DEF MeanScore
<1>4. DOMAIN entries # {} /\ IsFiniteSet(DOMAIN entries)
  BY DEF WellEntries
<1> HIDE DEF C, f, w
<1>5. Values(f, DOMAIN entries) /\ Values(f, C)
  BY <1>1, <1>2 DEF Values, Unit
<1>6. CASE C = {}
  <2>1. MeanOf(f, DOMAIN entries) \in Unit
    BY <1>1, <1>4, UnitMean
  <2>2. /\ \E m \in DOMAIN entries : AtMost(f[m], MeanOf(f, DOMAIN entries))
        /\ \E m \in DOMAIN entries : AtMost(MeanOf(f, DOMAIN entries), f[m])
    BY <1>4, <1>5, MeanBetween
  <2> QED
    BY <1>1, <1>3, <1>6, <2>1, <2>2 DEF C
<1>7. CASE C # {}
  <2>1. WeightedMeanOf(f, w, C) \in Unit
    BY <1>1, <1>2, <1>7, UnitWeightedMean
  <2>2. /\ \E m \in C : AtMost(f[m], WeightedMeanOf(f, w, C))
        /\ \E m \in C : AtMost(WeightedMeanOf(f, w, C), f[m])
    BY <1>2, <1>5, <1>7, WeightedMeanBetween
  <2> QED
    BY <1>1, <1>2, <1>3, <1>7, <2>1, <2>2 DEF C
<1> QED
  BY <1>6, <1>7

\* The greatest of a finite set of numbers that is not empty.
LEMMA MaxIs ==
  ASSUME NEW S, IsFiniteSet(S), S # {}, S \subseteq Nat
  PROVE  Max(S) \in S /\ \A x \in S : Max(S) >= x
<1> DEFINE f == [x \in S |-> <<x, 1>>]
<1>1. \A x \in S : f[x] = <<x, 1>> /\ x \in Nat
  OBVIOUS
<1>2. \A x \in S : f[x] \in Fractions
  BY <1>1, WholeRatio
<1> HIDE DEF f
<1>3. PICK m \in S : \A x \in S : AtMost(f[x], f[m])
  <2>1. Values(f, S)
    BY <1>2 DEF Values
  <2> QED
    BY <2>1, Extremes
<1>4. \A x \in S : m >= x
  <2> TAKE x \in S
  <2>1. f[x] = <<x, 1>> /\ f[m] = <<m, 1>> /\ AtMost(f[x], f[m]) /\ x \in Nat /\ m \in Nat
    BY <1>1, <1>3
  <2> QED
    BY <2>1 DEF AtMost
<1> QED
  BY <1>4 DEF Max

\* How confidences rank, and that no combination ranks lower than what it is made of.
LEMMA Ranks == Rank("high") = 1 /\ Rank("medium") = 2 /\ Rank("low") = 3
<1>1. /\ ConfidenceOrder[1] = "high" /\ ConfidenceOrder[2] = "medium"
      /\ ConfidenceOrder[3] = "low"
  BY DEF ConfidenceOrder
<1>2. 1 .. 3 = {1, 2, 3}
  OBVIOUS
<1> QED
  BY <1>1, <1>2 DEF Rank

\* Ranks and confidences name each other.
LEMMA OrderIs ==
  ASSUME NEW n \in 1 .. 3
  PROVE  ConfidenceOrder[n] \in Confidences /\ Rank(ConfidenceOrder[n]) = n
<1>1. n \in {1, 2, 3}
  OBVIOUS
<1> QED
  BY <1>1, Ranks DEF ConfidenceOrder, Confidences

\* The worst of several confidences ranks no lower than any of them.
LEMMA WorstIs ==
  ASSUME NEW S
  PROVE  /\ Worst(S) \in Confidences
         /\ \A c \in S \cap Confidences : Rank(c) <= Rank(Worst(S))
<1> DEFINE known == KnownRanks(S)
<1>1. known = {Rank(c) : c \in S \cap Confidences}
  BY DEF KnownRanks, Confidences
<1>2. \A c \in Confidences : Rank(c) \in 1 .. 3
  BY Ranks DEF Confidences
<1>3. known \subseteq 1 .. 3
  BY <1>1, <1>2
<1>4. known \in SUBSET Nat /\ \A n \in known : n <= 3
  BY <1>3
<1>5. known \subseteq Nat /\ IsFiniteSet(known)
  <2> HIDE DEF known
  <2> QED
    BY <1>4, FS_BoundedSetOfNaturals
<1>6. \A c \in S \cap Confidences : Rank(c) \in known
  BY <1>1
<1>7. CASE known = {}
  <2>1. S \cap Confidences = {}
    BY <1>6, <1>7
  <2>2. Worst(S) = "low"
    BY <1>7 DEF Worst
  <2> QED
    BY <2>1, <2>2 DEF Confidences
<1>8. CASE known # {}
  <2>1. Max(known) \in known /\ \A x \in known : Max(known) >= x
    BY <1>5, <1>8, MaxIs
  <2>2. Worst(S) = ConfidenceOrder[Max(known)]
    BY <1>8 DEF Worst
  <2> HIDE DEF known
  <2>3. Worst(S) \in Confidences /\ Rank(Worst(S)) = Max(known)
    BY <1>3, <2>1, <2>2, OrderIs
  <2> QED
    BY <1>3, <1>6, <2>1, <2>3
<1> QED
  BY <1>7, <1>8

\* A penalty lowers no rank.
LEMMA PenaliseIs ==
  ASSUME NEW c \in Confidences
  PROVE  Penalise(c) \in Confidences /\ Rank(c) <= Rank(Penalise(c))
<1> DEFINE r == Rank(c)
           n == Min({r + 1, 3})
<1>1. r \in 1 .. 3
  BY Ranks DEF Confidences
<1> HIDE DEF r
<1>2. n = IF r = 3 THEN 3 ELSE r + 1
  <2>1. CASE r = 3
    <3>1. {r + 1, 3} = {4, 3}
      BY <2>1
    <3>2. Min({4, 3}) = 3
      BY DEF Min
    <3> QED
      BY <2>1, <3>1, <3>2
  <2>2. CASE r # 3
    <3>1. r + 1 <= 3 /\ r + 1 \in Nat
      BY <1>1, <2>2
    <3>2. Min({r + 1, 3}) = r + 1
      BY <3>1 DEF Min
    <3> QED
      BY <2>2, <3>2
  <2> QED
    BY <2>1, <2>2
<1>3. Penalise(c) = ConfidenceOrder[n]
  BY DEF Penalise, r
<1> HIDE DEF n
<1>4. n \in 1 .. 3 /\ r <= n
  BY <1>1, <1>2
<1> QED
  BY <1>3, <1>4, OrderIs DEF r

\* What is combined of one item.
LEMMA MergedIs ==
  ASSUME NEW entries, WellEntries(entries)
  PROVE  LET merged == Merged(entries)
         IN  /\ WellRated(merged) /\ merged.confidence \in Confidences
             /\ merged.score = MeanScore(entries, Clearing(entries))
             /\ \A i \in DOMAIN entries :
                  entries[i].item.answered > 0
                    => Rank(entries[i].item.confidence) <= Rank(merged.confidence)
<1> DEFINE S == DOMAIN entries
           C == Clearing(entries)
           answered == [i \in S |-> entries[i].item.answered]
           expected == [i \in S |-> entries[i].item.expected]
           dontKnow == [i \in S |-> entries[i].item.dontKnow]
           weight == [i \in S |-> entries[i].item.weight]
           confidence == [i \in S |-> entries[i].item.confidence]
           worst == Worst({confidence[i] : i \in S})
           merged == Merged(entries)
<1>1. {entries[i].item.confidence : i \in DOMAIN entries} = {confidence[i] : i \in S}
  OBVIOUS
<1>2. merged = Combined(entries, C, worst)
  BY <1>1 DEF Merged
<1>3. {entries[i].item.expected : i \in DOMAIN entries} = {expected[i] : i \in S}
  OBVIOUS
<1> HIDE DEF C, worst, merged
<1>4. /\ merged.score = MeanScore(entries, C)
      /\ merged.answered = SumFunction(answered)
      /\ merged.expected = Max({expected[i] : i \in S})
      /\ merged.dontKnow = SumFunction(dontKnow)
      /\ merged.weight = SumOf(weight, S)
      /\ merged.confidence = IF Flagged(entries, C) THEN Penalise(worst) ELSE worst
  BY <1>2, <1>3 DEF Combined
<1>5. SumFunction(answered) = SumFunctionOnSet(answered, S)
       /\ SumFunction(dontKnow) = SumFunctionOnSet(dontKnow, S)
  BY DEF SumFunction
<1>6. /\ IsFiniteSet(S) /\ S # {}
      /\ \A i \in S : /\ answered[i] \in Nat /\ expected[i] \in Nat /\ dontKnow[i] \in Nat
                      /\ weight[i] \in Fractions /\ weight[i][1] >= 0
  BY DEF WellEntries, WellEntry, WellRated, WellScored
<1>7. \A i \in S : entries[i].item.answered > 0 => confidence[i] \in Confidences
  BY DEF WellEntries, WellEntry, WellRated
<1>8. \A i \in S : confidence[i] = entries[i].item.confidence
  OBVIOUS
<1> HIDE DEF answered, expected, dontKnow, weight, confidence, S
<1>9. /\ SumFunctionOnSet(answered, S) \in Nat /\ SumFunctionOnSet(dontKnow, S) \in Nat
      /\ SumOf(weight, S) \in Fractions /\ SumOf(weight, S)[1] >= 0
  BY <1>6, SumTypes
<1>10. Max({expected[i] : i \in S}) \in Nat
  <2>1. IsFiniteSet({expected[i] : i \in S})
    BY <1>6, ImageFinite
  <2>2. {expected[i] : i \in S} # {} /\ {expected[i] : i \in S} \subseteq Nat
    BY <1>6
  <2> QED
    BY <2>1, <2>2, MaxIs
<1>11. merged.score \in Unit
  BY <1>4, MeanScoreIs DEF C
<1>12. worst \in Confidences /\ \A i \in S : confidence[i] \in Confidences => Rank(confidence[i]) <= Rank(worst)
  <2>1. \A c \in {confidence[i] : i \in S} \cap Confidences : Rank(c) <= Rank(worst)
    BY WorstIs DEF worst
  <2> QED
    BY <2>1, WorstIs DEF worst
<1>13. merged.confidence \in Confidences /\ Rank(worst) <= Rank(merged.confidence)
  BY <1>4, <1>12, PenaliseIs, Ranks DEF Confidences
<1>14. \A c \in Confidences : Rank(c) \in Nat
  BY Ranks DEF Confidences
<1>15. \A i \in S : entries[i].item.answered > 0
                      => Rank(entries[i].item.confidence) <= Rank(merged.confidence)
  <2> SUFFICES ASSUME NEW i \in S, entries[i].item.answered > 0
               PROVE  Rank(confidence[i]) <= Rank(merged.confidence)
    BY <1>8
  <2>1. Rank(confidence[i]) <= Rank(worst) /\ confidence[i] \in Confidences
    BY <1>7, <1>12
  <2> QED
    BY <1>12, <1>13, <1>14, <2>1
<1>16. WellRated(merged)
  BY <1>4, <1>5, <1>9, <1>10, <1>11, <1>13 DEF WellRated, WellScored
<1> QED
  BY <1>4, <1>13, <1>15, <1>16 DEF merged, S, C

\* The respondents' results that are combined: of one or more.
WellParts(parts) ==
  /\ Len(parts) \in Nat \ {0} /\ DOMAIN parts = 1 .. Len(parts)
  /\ \A i \in DOMAIN parts :
       /\ parts[i].role \in All
       /\ \A f \in FrameworkNames : WellResult(f, parts[i].result[f])

\* The entries for one item, an entry for each respondent.
LEMMA EntriesWell ==
  ASSUME NEW parts, WellParts(parts), NEW framework \in FrameworkNames, NEW name, NEW items,
         \A i \in DOMAIN parts : WellRated(items[i])
  PROVE  LET entries == EntriesFor(framework, name, parts, items)
         IN  /\ WellEntries(entries) /\ DOMAIN entries = DOMAIN parts
             /\ \A i \in DOMAIN parts : entries[i] = Entry(parts[i].role, framework, name, items[i])
             /\ \A i \in DOMAIN parts : entries[i].item = items[i]
<1> DEFINE entries == EntriesFor(framework, name, parts, items)
<1>1. DOMAIN entries = DOMAIN parts
  BY DEF EntriesFor
<1>2. \A i \in DOMAIN parts : entries[i] = Entry(parts[i].role, framework, name, items[i])
  BY DEF EntriesFor
<1>3. 1 \in DOMAIN parts /\ IsFiniteSet(DOMAIN parts)
  <2>1. DOMAIN parts = 1 .. Len(parts) /\ 1 \in Int /\ Len(parts) \in Int /\ Len(parts) >= 1
    BY DEF WellParts
  <2>2. IsFiniteSet(1 .. Len(parts))
    BY <2>1, FS_Interval
  <2> QED
    BY <2>1, <2>2
<1> HIDE DEF entries
<1>4. \A i \in DOMAIN parts : WellEntry(entries[i])
  BY <1>2, EntryWell DEF WellParts
<1>5. \A i \in DOMAIN parts : entries[i].item = items[i]
  <2>1. \A role, item : Entry(role, framework, name, item).item = item
    BY DEF Entry
  <2> QED
    BY <1>2, <2>1
<1> QED
  BY <1>1, <1>2, <1>3, <1>4, <1>5 DEF WellEntries, entries

\* What the respondents' results say of one item, of a sub-component and of a signal.
ItemsFor(parts, framework, name) ==
  [i \in DOMAIN parts |-> parts[i].result[framework].items[name]]
SubsFor(parts, d, sub) ==
  [i \in DOMAIN parts |-> parts[i].result["v1_audit"].items[d].subs[sub]]
SignalsFor(parts, framework, signal) ==
  [i \in DOMAIN parts |-> parts[i].result[framework].signals[signal]]

\* Everything that is combined is well scored.
LEMMA PartsWell ==
  ASSUME NEW parts, WellParts(parts), NEW framework \in FrameworkNames
  PROVE  /\ \A name \in NamesOf(framework) : \A i \in DOMAIN parts :
              WellRated(ItemsFor(parts, framework, name)[i])
         /\ \A d \in Dimensions : \A sub \in SubComponents(d) : \A i \in DOMAIN parts :
              WellRated(SubsFor(parts, d, sub)[i])
         /\ framework = "v3_governance" =>
              \A s \in DOMAIN SignalAssignments : \A i \in DOMAIN parts :
                WellRated(SignalsFor(parts, framework, s)[i])
<1>1. \A i \in DOMAIN parts : WellResult(framework, parts[i].result[framework])
  BY DEF WellParts
<1>2. \A i \in DOMAIN parts : WellResult("v1_audit", parts[i].result["v1_audit"])
  BY DEF WellParts, FrameworkNames
<1>3. \A name \in NamesOf(framework) : \A i \in DOMAIN parts :
        WellRated(ItemsFor(parts, framework, name)[i])
  BY <1>1 DEF WellResult, WellItems, ItemsFor
<1>4. \A d \in Dimensions : \A sub \in SubComponents(d) : \A i \in DOMAIN parts :
        WellRated(SubsFor(parts, d, sub)[i])
  BY <1>2 DEF WellResult, WellItems, SubsFor
<1>5. framework = "v3_governance" =>
        \A s \in DOMAIN SignalAssignments : \A i \in DOMAIN parts :
          WellRated(SignalsFor(parts, framework, s)[i])
  BY <1>1 DEF WellResult, SignalsFor
<1> QED
  BY <1>3, <1>4, <1>5

\* A label and parts change nothing else of an item.
LEMMA RatedIs ==
  ASSUME NEW item, WellRated(item), NEW label, NEW subs
  PROVE  LET rated == Rated(item, label, subs)
         IN  /\ WellRated(rated) /\ rated.subs = subs /\ rated.score = item.score
             /\ rated.answered = item.answered /\ rated.confidence = item.confidence
             /\ rated.weight = item.weight /\ rated.expected = item.expected
BY DEF Rated, WellRated, WellScored

\* What is combined of one item, and from which entries.
LEMMA AggregateItemIs ==
  ASSUME NEW parts, WellParts(parts), NEW framework \in FrameworkNames,
         NEW name \in NamesOf(framework)
  PROVE  LET entries == EntriesOf(framework, name, parts)
             item == AggregateItem(framework, name, parts)
         IN  /\ WellEntries(entries) /\ DOMAIN entries = DOMAIN parts
             /\ \A i \in DOMAIN parts :
                  /\ entries[i].item = parts[i].result[framework].items[name]
                  /\ entries[i] = Entry(parts[i].role, framework, name, entries[i].item)
             /\ WellRated(item)
             /\ item.confidence = Merged(entries).confidence
             /\ item.score = MeanScore(entries, Clearing(entries))
             /\ framework = "v1_audit" => item.subs = SubComponentsOf(name, parts)
<1> DEFINE entries == EntriesOf(framework, name, parts)
           subs == IF framework = "v1_audit" THEN SubComponentsOf(name, parts) ELSE <<>>
           items == ItemsFor(parts, framework, name)
<1>1. entries = EntriesFor(framework, name, parts, items)
  BY DEF EntriesOf, ItemsFor
<1>2. \A i \in DOMAIN parts : WellRated(items[i])
  BY PartsWell
<1>3. /\ WellEntries(entries) /\ DOMAIN entries = DOMAIN parts
      /\ \A i \in DOMAIN parts : entries[i] = Entry(parts[i].role, framework, name, items[i])
      /\ \A i \in DOMAIN parts : entries[i].item = items[i]
  BY <1>1, <1>2, EntriesWell
<1>4. \A i \in DOMAIN parts : items[i] = parts[i].result[framework].items[name]
  BY DEF ItemsFor
<1>5. AggregateItem(framework, name, parts)
        = Rated(Merged(entries), Label(framework, Merged(entries).score), subs)
  BY DEF AggregateItem, Labelled, WithLabel
<1> HIDE DEF entries, subs, items
<1>6. WellRated(Merged(entries)) /\ Merged(entries).score = MeanScore(entries, Clearing(entries))
  BY <1>3, MergedIs
<1>7. \A label : LET rated == Rated(Merged(entries), label, subs)
         IN  /\ WellRated(rated) /\ rated.subs = subs /\ rated.score = Merged(entries).score
             /\ rated.confidence = Merged(entries).confidence
  BY <1>6, RatedIs
<1> QED
  BY <1>3, <1>4, <1>5, <1>6, <1>7 DEF entries, subs

\* What is combined of the sub-components of a dimension.
LEMMA SubComponentsOfIs ==
  ASSUME NEW parts, WellParts(parts), NEW d \in Dimensions
  PROVE  /\ DOMAIN SubComponentsOf(d, parts) = SubComponents(d)
         /\ \A sub \in SubComponents(d) :
              /\ WellEntries(EntriesFor("v1_audit", sub, parts, SubsFor(parts, d, sub)))
              /\ SubComponentsOf(d, parts)[sub]
                   = Merged(EntriesFor("v1_audit", sub, parts, SubsFor(parts, d, sub)))
              /\ WellRated(SubComponentsOf(d, parts)[sub])
<1>1. "v1_audit" \in FrameworkNames
  BY DEF FrameworkNames
<1>2. ASSUME NEW sub \in SubComponents(d)
      PROVE  /\ WellEntries(EntriesFor("v1_audit", sub, parts, SubsFor(parts, d, sub)))
             /\ SubComponentsOf(d, parts)[sub]
                   = Merged(EntriesFor("v1_audit", sub, parts, SubsFor(parts, d, sub)))
             /\ WellRated(SubComponentsOf(d, parts)[sub])
  <2>1. \A i \in DOMAIN parts : WellRated(SubsFor(parts, d, sub)[i])
    BY <1>1, PartsWell
  <2>2. WellEntries(EntriesFor("v1_audit", sub, parts, SubsFor(parts, d, sub)))
    BY <1>1, <2>1, EntriesWell
  <2>3. SubComponentsOf(d, parts)[sub]
                   = Merged(EntriesFor("v1_audit", sub, parts, SubsFor(parts, d, sub)))
    BY DEF SubComponentsOf, SubsFor
  <2> QED
    BY <2>2, <2>3, MergedIs
<1>3. DOMAIN SubComponentsOf(d, parts) = SubComponents(d)
  BY DEF SubComponentsOf
<1> QED
  BY <1>2, <1>3

\* What is combined of the signals.
LEMMA AggregateSignalsIs ==
  ASSUME NEW parts, WellParts(parts), NEW framework \in FrameworkNames
  PROVE  /\ DOMAIN AggregateSignals(framework, parts)
              = IF framework = "v3_governance" THEN DOMAIN SignalAssignments ELSE {}
         /\ \A s \in DOMAIN AggregateSignals(framework, parts) :
              /\ WellEntries(EntriesFor(framework, s, parts, SignalsFor(parts, framework, s)))
              /\ AggregateSignals(framework, parts)[s]
                   = Merged(EntriesFor(framework, s, parts, SignalsFor(parts, framework, s)))
              /\ WellRated(AggregateSignals(framework, parts)[s])
<1>1. WellResult(framework, parts[1].result[framework])
  BY DEF WellParts
<1>2. DOMAIN AggregateSignals(framework, parts)
        = IF framework = "v3_governance" THEN DOMAIN SignalAssignments ELSE {}
  BY <1>1 DEF AggregateSignals, WellResult
<1>3. ASSUME NEW s \in DOMAIN AggregateSignals(framework, parts)
      PROVE  /\ WellEntries(EntriesFor(framework, s, parts, SignalsFor(parts, framework, s)))
             /\ AggregateSignals(framework, parts)[s]
                  = Merged(EntriesFor(framework, s, parts, SignalsFor(parts, framework, s)))
             /\ WellRated(AggregateSignals(framework, parts)[s])
  <2>1. framework = "v3_governance" /\ s \in DOMAIN SignalAssignments
    BY <1>2, <1>3
  <2>2. \A i \in DOMAIN parts : WellRated(SignalsFor(parts, framework, s)[i])
    BY <2>1, PartsWell
  <2>3. WellEntries(EntriesFor(framework, s, parts, SignalsFor(parts, framework, s)))
    BY <2>2, EntriesWell
  <2>4. AggregateSignals(framework, parts)[s]
          = Merged(EntriesFor(framework, s, parts, SignalsFor(parts, framework, s)))
    BY <1>3 DEF AggregateSignals, SignalsFor
  <2> QED
    BY <2>3, <2>4, MergedIs
<1> QED
  BY <1>2, <1>3

\* The engagement's result has the shape of a respondent's.
LEMMA AggregateResultIs ==
  ASSUME NEW parts, WellParts(parts), NEW framework \in FrameworkNames
  PROVE  LET result == AggregateResult(framework, parts)
         IN  /\ WellResult(framework, result)
             /\ \A name \in NamesOf(framework) :
                  result.items[name] = AggregateItem(framework, name, parts)
<1> DEFINE items == AggregateItems(framework, parts)
           signals == AggregateSignals(framework, parts)
           result == AggregateResult(framework, parts)
<1>1. WellResult(framework, parts[1].result[framework])
  BY DEF WellParts
<1>2. /\ DOMAIN items = NamesOf(framework)
      /\ \A name \in NamesOf(framework) : items[name] = AggregateItem(framework, name, parts)
  BY <1>1 DEF AggregateItems, WellResult, WellItems
<1>3. /\ result.items = items /\ result.signals = signals
      /\ result.composite = Composite(framework, items)
  BY DEF AggregateResult, Whole, Outcome
<1> HIDE DEF items, signals, result
<1>4. \A name \in NamesOf(framework) : WellRated(items[name])
  BY <1>2, AggregateItemIs
<1>5. ASSUME framework = "v1_audit", NEW d \in Dimensions
      PROVE  /\ DOMAIN items[d].subs = SubComponents(d)
             /\ \A s \in SubComponents(d) : WellRated(items[d].subs[s])
  <2>1. d \in NamesOf(framework)
    BY <1>5 DEF NamesOf
  <2>2. items[d].subs = SubComponentsOf(d, parts)
    BY <1>2, <1>5, <2>1, AggregateItemIs
  <2> QED
    BY <2>2, SubComponentsOfIs
<1>6. WellItems(framework, items)
  BY <1>2, <1>4, <1>5 DEF WellItems
<1> QED
  BY <1>2, <1>3, <1>6, AggregateSignalsIs DEF WellResult, result, signals

\* The engagement's result is well scored.
LEMMA AggregateWell ==
  ASSUME NEW parts, WellParts(parts), NEW framework \in FrameworkNames
  PROVE  WellResult(framework, Aggregate(parts)[framework])
<1>1. 1 \in DOMAIN parts /\ WellResult(framework, parts[1].result[framework])
  BY DEF WellParts
<1>2. WellResult(framework, AggregateResult(framework, parts))
  BY AggregateResultIs
<1> QED
  BY <1>1, <1>2 DEF Aggregate

-----------------------------------------------------------------------------
(***************************************************************************)
(* What a report is made of.                                               *)
(***************************************************************************)
\* Answers that were read are legal, and the report is of such answers.
ReadsAnswers == \A i \in DOMAIN read : ids[i] \in Respondents /\ Given(read[i])

PartsOf(listed, readings) ==
  [i \in DOMAIN readings |->
     [role |-> RoleOf[listed[i]], result |-> RespondentResult(readings[i])]]

Legal(listed, readings) ==
  /\ Len(readings) \in Nat \ {0} /\ DOMAIN readings = 1 .. Len(readings)
  /\ \A i \in DOMAIN readings : listed[i] \in Respondents /\ Given(readings[i])

ReportsAnswers ==
  reports > 0 => /\ Legal(report.ids, report.read)
                 /\ report.parts = PartsOf(report.ids, report.read)
                 /\ report.scores = Aggregate(report.parts)

\* The results of legal answers are well scored.
LEMMA PartsAreWell ==
  ASSUME NEW listed, NEW readings, Legal(listed, readings)
  PROVE  WellParts(PartsOf(listed, readings))
<1> DEFINE parts == PartsOf(listed, readings)
<1>1. /\ DOMAIN parts = DOMAIN readings
      /\ \A i \in DOMAIN parts : /\ parts[i].role = RoleOf[listed[i]]
                                 /\ parts[i].result = RespondentResult(readings[i])
  BY DEF PartsOf
<1>2. Len(parts) = Len(readings)
  <2>1. parts \in Seq({parts[i] : i \in DOMAIN parts})
    <3>1. parts = [i \in 1 .. Len(readings) |-> parts[i]] /\ Len(readings) \in Nat
      BY DEF PartsOf, Legal
    <3> HIDE DEF parts
    <3>2. \A i \in 1 .. Len(readings) : parts[i] \in {parts[j] : j \in DOMAIN parts}
      BY <1>1 DEF Legal
    <3>3. parts \in [1 .. Len(readings) -> {parts[j] : j \in DOMAIN parts}]
      BY <3>1, <3>2
    <3> QED
      BY <3>1, <3>3
  <2>2. DOMAIN parts = 1 .. Len(parts) /\ Len(parts) \in Nat
    BY <2>1
  <2>3. 1 .. Len(parts) = 1 .. Len(readings) /\ Len(readings) \in Nat
    BY <1>1, <2>2 DEF Legal
  <2> HIDE DEF parts
  <2> QED
    BY <2>2, <2>3
<1> HIDE DEF parts
<1>3. ASSUME NEW i \in DOMAIN parts
      PROVE  /\ parts[i].role \in All
             /\ \A f \in FrameworkNames : WellResult(f, parts[i].result[f])
  BY <1>1, RolesAssumption, RespondentWell DEF Legal
<1>4. WellParts(parts)
  BY <1>1, <1>2, <1>3 DEF WellParts, Legal
<1> QED
  BY <1>4 DEF parts

\* A job reads rows of the table, which are legal.
LEMMA ReadsAnswersStep ==
  ASSUME IInv, ReadsAnswers, [Next]_vars
  PROVE  ReadsAnswers'
<1>1. CASE \E r \in Respondents : Answer(r) \/ Complete(r) \/ Edit(r)
  BY <1>1 DEF Answer, Complete, Edit, ReadsAnswers
<1>2. CASE LoadIds
  <2>1. read = <<>>
    <3>1. Len(read) \in Nat /\ Len(read) <= 0 /\ read \in Seq(Tables)
      BY <1>2 DEF LoadIds, IInv, RunsOK, RowsOK
    <3> QED
      BY <3>1
  <2> QED
    BY <1>2, <2>1 DEF LoadIds, ReadsAnswers
<1>3. CASE LoadResponses
  <2> DEFINE n == Len(read) + 1
  <2>1. /\ Len(read) < Len(ids) /\ read' = Append(read, answers[ids[n]]) /\ ids' = ids
    BY <1>3 DEF LoadResponses
  <2>2. read \in Seq(Tables) /\ ids \in Seq(Respondents) /\ answers \in [Respondents -> Tables]
    BY DEF IInv, RunsOK
  <2>3. n \in DOMAIN ids /\ ids[n] \in Respondents
    BY <2>1, <2>2
  <2>4. /\ DOMAIN read' = DOMAIN read \cup {n} /\ read'[n] = answers[ids[n]]
        /\ \A i \in DOMAIN read : read'[i] = read[i]
    BY <2>1, <2>2, <2>3
  <2>5. Given(answers[ids[n]])
    BY <2>3 DEF IInv, RowsOK, Given
  <2> QED
    BY <2>1, <2>3, <2>4, <2>5 DEF ReadsAnswers
<1>4. CASE ScoreAnswers
  BY <1>4 DEF ScoreAnswers, ReadsAnswers
<1>5. CASE UNCHANGED vars
  BY <1>5 DEF vars, ReadsAnswers
<1> QED
  BY <1>1, <1>2, <1>3, <1>4, <1>5 DEF Next

\* A report is made of what was read.
LEMMA ReportsAnswersStep ==
  ASSUME IInv, ReadsAnswers, ReportsAnswers, [Next]_vars
  PROVE  ReportsAnswers'
<1>1. CASE \E r \in Respondents : Answer(r) \/ Complete(r) \/ Edit(r)
  BY <1>1 DEF Answer, Complete, Edit, ReportsAnswers
<1>2. CASE LoadIds \/ LoadResponses
  BY <1>2 DEF LoadIds, LoadResponses, ReportsAnswers
<1>3. CASE ScoreAnswers
  <2>1. /\ ids # <<>> /\ Len(read) = Len(ids)
        /\ report' = ReportOn(RespondentResults)
    BY <1>3 DEF ScoreAnswers
  <2>2. /\ report'.ids = ids /\ report'.read = read /\ report'.parts = RespondentResults
        /\ report'.scores = Aggregate(RespondentResults)
    BY <2>1 DEF ReportOn
  <2>3. RespondentResults = PartsOf(ids, read)
    BY DEF RespondentResults, PartsOf
  <2>4. Legal(ids, read)
    <3>1. read \in Seq(Tables) /\ ids \in Seq(Respondents)
      BY DEF IInv, RunsOK
    <3>2. Len(read) \in Nat \ {0} /\ DOMAIN read = 1 .. Len(read)
      BY <2>1, <3>1
    <3> QED
      BY <3>2 DEF Legal, ReadsAnswers
  <2> QED
    BY <2>2, <2>3, <2>4 DEF ReportsAnswers
<1>4. CASE UNCHANGED vars
  BY <1>4 DEF vars, ReportsAnswers
<1> QED
  BY <1>1, <1>2, <1>3, <1>4 DEF Next

\* A report is of legal answers, and its scores are computed from them (engine.py).
THEOREM ReportsAreOfAnswers == Spec => [](ReadsAnswers /\ ReportsAnswers)
<1>1. Init => ReadsAnswers /\ ReportsAnswers
  BY DEF Init, ReadsAnswers, ReportsAnswers
<1>2. IInv /\ ReadsAnswers /\ ReportsAnswers /\ [Next]_vars => (ReadsAnswers /\ ReportsAnswers)'
  BY ReadsAnswersStep, ReportsAnswersStep
<1> QED
  BY <1>1, <1>2, Invariance, PTL DEF Spec

\* The headline scores of an engagement are fractions of 1.
THEOREM HeadlinesAreFractions == Spec => []TypeOK
<1>1. RowsOK /\ ReportsAnswers => TypeOK
  <2> SUFFICES ASSUME ReportsAnswers, reports > 0, NEW f \in FrameworkNames
               PROVE  /\ AtMost(Zero, report.scores[f].composite)
                      /\ AtMost(report.scores[f].composite, One)
    BY DEF TypeOK
  <2>1. WellParts(report.parts) /\ report.scores = Aggregate(report.parts)
    BY PartsAreWell DEF ReportsAnswers
  <2>2. WellResult(f, report.scores[f])
    BY <2>1, AggregateWell
  <2>3. report.scores[f].composite \in Unit
    BY <2>2, CompositeUnit DEF WellResult
  <2> QED
    BY <2>3 DEF Unit
<1> QED
  BY <1>1, RowsStayInPlace, ReportsAreOfAnswers, PTL

\* No item is trusted more than by a respondent who answered it.
LEMMA CombiningConfidence ==
  ASSUME NEW parts, WellParts(parts), NEW f \in FrameworkNames, NEW name \in NamesOf(f),
         NEW i \in DOMAIN parts, parts[i].result[f].items[name].answered > 0
  PROVE  Rank(parts[i].result[f].items[name].confidence)
           <= Rank(Aggregate(parts)[f].items[name].confidence)
<1>1. CASE Len(parts) = 1
  <2>1. DOMAIN parts = 1 .. Len(parts)
    BY DEF WellParts
  <2>2. i = 1 /\ Aggregate(parts) = parts[1].result
    BY <1>1, <2>1 DEF Aggregate
  <2>3. WellRated(parts[1].result[f].items[name])
    BY <2>1, <2>2, PartsWell DEF ItemsFor
  <2>4. parts[1].result[f].items[name].confidence \in Confidences
    BY <2>2, <2>3 DEF WellRated
  <2> QED
    BY <2>2, <2>4, Ranks DEF Confidences
<1>2. CASE Len(parts) # 1
  <2> DEFINE entries == EntriesOf(f, name, parts)
  <2>1. Aggregate(parts)[f] = AggregateResult(f, parts)
    BY <1>2 DEF Aggregate
  <2>2. Aggregate(parts)[f].items[name] = AggregateItem(f, name, parts)
    BY <2>1, AggregateResultIs
  <2>3. /\ WellEntries(entries) /\ DOMAIN entries = DOMAIN parts
        /\ entries[i].item = parts[i].result[f].items[name]
        /\ AggregateItem(f, name, parts).confidence = Merged(entries).confidence
    BY AggregateItemIs
  <2> HIDE DEF entries
  <2>4. Rank(entries[i].item.confidence) <= Rank(Merged(entries).confidence)
    BY <2>3, MergedIs
  <2> QED
    BY <2>2, <2>3, <2>4
<1> QED
  BY <1>1, <1>2

\* The items of a reported framework.
LEMMA NamesReported ==
  ASSUME ReportsAnswers, reports > 0, NEW f \in FrameworkNames
  PROVE  /\ WellParts(report.parts) /\ report.scores = Aggregate(report.parts)
         /\ ItemNames(f) = NamesOf(f)
<1>1. WellParts(report.parts) /\ report.scores = Aggregate(report.parts)
  BY PartsAreWell DEF ReportsAnswers
<1>2. WellResult(f, report.scores[f])
  BY <1>1, AggregateWell
<1> QED
  BY <1>1, <1>2 DEF WellResult, WellItems, ItemNames

\* No item is trusted more in the engagement's result than by a respondent who answered it
\* (_worst and _penalise of aggregation.py).
THEOREM CombiningRaisesNoConfidence == Spec => []CombiningNeverRaisesConfidence
<1>1. ReportsAnswers => CombiningNeverRaisesConfidence
  <2> SUFFICES ASSUME ReportsAnswers, reports > 0, NEW f \in FrameworkNames,
                      NEW name \in ItemNames(f), NEW p \in Parts(f, name), p.answered > 0
               PROVE  Rank(p.confidence) <= Rank(report.scores[f].items[name].confidence)
    BY DEF CombiningNeverRaisesConfidence, Reported
  <2>1. PICK i \in DOMAIN report.parts : p = report.parts[i].result[f].items[name]
    BY DEF Parts
  <2>2. WellParts(report.parts) /\ report.scores = Aggregate(report.parts) /\ name \in NamesOf(f)
    BY NamesReported
  <2> QED
    BY <2>1, <2>2, CombiningConfidence
<1> QED
  BY <1>1, ReportsAreOfAnswers, PTL

-----------------------------------------------------------------------------
(***************************************************************************)
(* Scores are means of what goes into them.                                *)
(***************************************************************************)
\* A combined score lies between those of the respondents who answered the item, or of all
\* when no one of several answered enough of it.
LEMMA CombinedBetween ==
  ASSUME NEW parts, WellParts(parts), NEW f \in FrameworkNames, NEW name \in NamesOf(f)
  PROVE  Between(Aggregate(parts)[f].items[name].score,
                 {p.score : p \in Deciding(EntriesOf(f, name, parts),
                                         {parts[i].result[f].items[name] : i \in DOMAIN parts})})
<1> DEFINE entries == EntriesOf(f, name, parts)
           item(i) == parts[i].result[f].items[name]
           S == {item(i) : i \in DOMAIN parts}
           from == Deciding(entries, S)
           score == Aggregate(parts)[f].items[name].score
<1>1. /\ WellEntries(entries) /\ DOMAIN entries = DOMAIN parts
      /\ \A i \in DOMAIN parts : entries[i].item = item(i)
      /\ AggregateItem(f, name, parts).score = MeanScore(entries, Clearing(entries))
  BY AggregateItemIs
<1>2. DOMAIN parts = 1 .. Len(parts) /\ Len(parts) \in Nat \ {0} /\ 1 \in DOMAIN parts
  BY DEF WellParts
<1>3. \A i \in DOMAIN parts : item(i) \in S /\ item(i).score \in Fractions
  BY PartsWell DEF ItemsFor, WellRated, WellScored, Unit
<1>4. ASSUME Len(parts) = 1
      PROVE  (\E p \in from : AtMost(p.score, score)) /\ (\E p \in from : AtMost(score, p.score))
  <2>1. DOMAIN parts = {1} /\ Aggregate(parts) = parts[1].result
    BY <1>2, <1>4 DEF Aggregate
  <2>2. S = {item(1)} /\ score = item(1).score
    BY <2>1
  <2>3. from = {item(1)}
    BY <2>2 DEF Deciding
  <2>4. AtMost(item(1).score, item(1).score)
    BY <1>2, <1>3, AtMostOrder
  <2> QED
    BY <2>2, <2>3, <2>4
<1>5. ASSUME Len(parts) # 1
      PROVE  (\E p \in from : AtMost(p.score, score)) /\ (\E p \in from : AtMost(score, p.score))
  <2>1. score = MeanScore(entries, Clearing(entries))
    <3>1. Aggregate(parts)[f] = AggregateResult(f, parts)
      BY <1>5 DEF Aggregate
    <3> QED
      BY <1>1, <3>1, AggregateResultIs
  <2>2. Len(entries) # 1
    <3>1. entries = [i \in 1 .. Len(parts) |-> entries[i]]
      BY <1>1, <1>2 DEF EntriesOf, EntriesFor
    <3> HIDE DEF entries
    <3>2. entries \in Seq({entries[i] : i \in 1 .. Len(parts)})
      BY <1>2, <3>1
    <3>3. DOMAIN entries = 1 .. Len(entries) /\ Len(entries) \in Nat
      BY <3>2
    <3> QED
      BY <1>1, <1>2, <1>5, <3>3
  <2> DEFINE those == IF Clearing(entries) = {} THEN DOMAIN entries ELSE Clearing(entries)
  <2> HIDE DEF entries, score
  <2>3. /\ \E i \in those : AtMost(entries[i].item.score, score)
        /\ \E i \in those : AtMost(score, entries[i].item.score)
    BY <1>1, <2>1, MeanScoreIs
  <2>4. Clearing(entries) \subseteq DOMAIN entries
         /\ \A i \in Clearing(entries) : entries[i].item.answered > 0
    BY <1>1, ClearingIs
  <2>5. \A i \in those : item(i) \in from /\ entries[i].item = item(i)
    <3>1. CASE Clearing(entries) = {}
      BY <1>1, <1>3, <2>2, <3>1 DEF Deciding
    <3>2. CASE Clearing(entries) # {}
      <4>1. \A i \in Clearing(entries) : item(i) \in S /\ item(i).answered > 0
        BY <1>1, <1>3, <2>4
      <4> QED
        BY <1>1, <2>4, <3>2, <4>1 DEF Deciding
    <3> QED
      BY <3>1, <3>2
  <2> HIDE DEF from, those, item
  <2> QED
    BY <2>3, <2>5
<1> HIDE DEF from, score
<1>6. Between(score, {p.score : p \in from})
  BY <1>4, <1>5 DEF Between
<1> QED
  BY <1>6 DEF from, score

\* Every score of the engagement is a mean of what goes into it.
THEOREM ScoresAreMeansOfTheirParts == Spec => []ScoresAreMeans
<1>1. ReportsAnswers => AggregateIsBetween
  <2> SUFFICES ASSUME ReportsAnswers, Reported, NEW f \in FrameworkNames, NEW name \in ItemNames(f)
               PROVE  Between(report.scores[f].items[name].score,
                              {p.score : p \in Deciding(EntriesOf(f, name, report.parts),
                                                      Parts(f, name))})
    BY DEF AggregateIsBetween
  <2>1. WellParts(report.parts) /\ report.scores = Aggregate(report.parts) /\ name \in NamesOf(f)
    BY NamesReported DEF Reported
  <2> QED
    BY <2>1, CombinedBetween DEF Parts
<1>2. ReportsAnswers => CompositeIsBetween
  <2> SUFFICES ASSUME ReportsAnswers, Reported, NEW f \in FrameworkNames \ {"efficiency"}
               PROVE  /\ MeanOfAssessed(report.scores[f])
                      /\ \A i \in DOMAIN report.parts : MeanOfAssessed(report.parts[i].result[f])
    BY DEF CompositeIsBetween
  <2>1. WellParts(report.parts) /\ report.scores = Aggregate(report.parts)
    BY NamesReported DEF Reported
  <2>2. WellResult(f, report.scores[f])
    BY <2>1, AggregateWell
  <2>3. \A i \in DOMAIN report.parts : WellResult(f, report.parts[i].result[f])
    BY <2>1 DEF WellParts
  <2>4. ASSUME NEW result, WellResult(f, result)
        PROVE  MeanOfAssessed(result)
    BY <2>4, CompositeBetween DEF WellResult, MeanOfAssessed
  <2> QED
    BY <2>2, <2>3, <2>4
<1>3. ReportsAnswers => ScoresAreMeans
  BY <1>1, <1>2 DEF ScoresAreMeans
<1> QED
  BY <1>3, ReportsAreOfAnswers, PTL

-----------------------------------------------------------------------------
(***************************************************************************)
(* The order of the respondents.                                           *)
(***************************************************************************)
\* pi gives every element of S another of U.
Matches(pi, S, U) ==
  /\ \A x \in S : pi[x] \in U
  /\ \A x, y \in S : pi[x] = pi[y] => x = y
  /\ \A u \in U : \E x \in S : u = pi[x]

\* A mean does not depend on the order of what it is of.
LEMMA WeightedMeanReindexed ==
  ASSUME NEW S, IsFiniteSet(S), NEW U, IsFiniteSet(U), S # {}, NEW pi, Matches(pi, S, U),
         NEW f, NEW g, NEW w, NEW v, Values(f, S), Values(g, U), Weighs(w, S), Weighs(v, U),
         \A x \in S : f[x] = g[pi[x]] /\ w[x] = v[pi[x]]
  PROVE  WeightedMeanOf(f, w, S) = WeightedMeanOf(g, v, U)
<1> DEFINE fw == Products(f, w, S)
           gv == Products(g, v, U)
<1>0. U # {}
  BY DEF Matches
<1>1. /\ Values(fw, S) /\ WeightedMeanOf(f, w, S) = Over(SumOf(fw, S), SumOf(w, S))
  BY WeightedMeanParts
<1>2. /\ Values(gv, U) /\ WeightedMeanOf(g, v, U) = Over(SumOf(gv, U), SumOf(v, U))
  BY <1>0, WeightedMeanParts
<1>3. \A x \in S : fw[x] = gv[pi[x]]
  BY DEF Products, Matches
<1> HIDE DEF fw, gv
<1>4. SumOf(fw, S) = SumOf(gv, U)
  BY <1>1, <1>2, <1>3, SumReindexed DEF Values, Matches
<1>5. SumOf(w, S) = SumOf(v, U)
  BY SumReindexed DEF Weighs, Matches
<1> QED
  BY <1>1, <1>2, <1>4, <1>5

\* So does a plain mean.
LEMMA MeanReindexed ==
  ASSUME NEW S, IsFiniteSet(S), NEW U, IsFiniteSet(U), S # {}, NEW pi, Matches(pi, S, U),
         NEW f, NEW g, Values(f, S), Values(g, U), \A x \in S : f[x] = g[pi[x]]
  PROVE  MeanOf(f, S) = MeanOf(g, U)
<1> DEFINE w == [x \in S |-> One]
           v == [u \in U |-> One]
<1>0. U # {}
  BY DEF Matches
<1>1. Weighs(w, S) /\ Weighs(v, U)
  BY OnesWeigh
<1>2. MeanOf(f, S) = WeightedMeanOf(f, w, S)
  BY PlainMean
<1>3. MeanOf(g, U) = WeightedMeanOf(g, v, U)
  BY <1>0, PlainMean
<1>4. \A x \in S : w[x] = v[pi[x]]
  BY DEF Matches
<1> HIDE DEF w, v
<1> QED
  BY <1>1, <1>2, <1>3, <1>4, WeightedMeanReindexed

\* The same entries in another order.
Reordered(pi, entries, other) ==
  /\ WellEntries(entries) /\ WellEntries(other)
  /\ Matches(pi, DOMAIN entries, DOMAIN other)
  /\ \A i \in DOMAIN entries : entries[i] = other[pi[i]]

\* Some of the entries, and the same ones in the other order.
SamePart(pi, entries, other, C, D) ==
  /\ C \subseteq DOMAIN entries /\ D \subseteq DOMAIN other
  /\ \A i \in DOMAIN entries : i \in C <=> pi[i] \in D

\* The same part of reordered entries is reordered.
LEMMA SamePartMatches ==
  ASSUME NEW pi, NEW entries, NEW other, Reordered(pi, entries, other), NEW C, NEW D,
         SamePart(pi, entries, other, C, D)
  PROVE  Matches(pi, C, D) /\ IsFiniteSet(C) /\ IsFiniteSet(D) /\ (C = {} <=> D = {})
<1>1. Matches(pi, C, D)
  BY DEF Reordered, SamePart, Matches
<1>2. IsFiniteSet(C) /\ IsFiniteSet(D)
  BY FS_Subset DEF Reordered, WellEntries, SamePart
<1> QED
  BY <1>1, <1>2 DEF Matches

\* The entries of C all have a weight.
AllWeigh(entries, C) == \A i \in C : entries[i].weight[1] > 0

\* The mean over it is the same.
LEMMA MeanScoreReordered ==
  ASSUME NEW pi, NEW entries, NEW other, Reordered(pi, entries, other), NEW C, NEW D,
         SamePart(pi, entries, other, C, D), AllWeigh(entries, C)
  PROVE  MeanScore(entries, C) = MeanScore(other, D)
<1> DEFINE S == DOMAIN entries
           U == DOMAIN other
           f == ScoresIn(entries)
           g == ScoresIn(other)
           w == [i \in C |-> entries[i].weight]
           v == [i \in D |-> other[i].weight]
<1>1. Matches(pi, C, D) /\ IsFiniteSet(C) /\ IsFiniteSet(D) /\ (C = {} <=> D = {})
  BY SamePartMatches
<1>2. /\ Matches(pi, S, U) /\ IsFiniteSet(S) /\ IsFiniteSet(U) /\ S # {}
      /\ C \subseteq S /\ D \subseteq U
  BY DEF Reordered, WellEntries, SamePart
<1>3. Values(f, S) /\ Values(g, U) /\ \A i \in S : f[i] = g[pi[i]]
  BY DEF Reordered, WellEntries, WellEntry, WellRated, WellScored, Unit, Values, ScoresIn,
         Matches
<1>4. \A i \in C : entries[i].weight \in Fractions /\ entries[i].weight[1] > 0
                   /\ other[pi[i]] = entries[i]
  BY <1>2 DEF Reordered, WellEntries, WellEntry, AllWeigh
<1>5. Weighs(w, C) /\ Weighs(v, D) /\ \A i \in C : w[i] = v[pi[i]]
  BY <1>1, <1>4 DEF Weighs, Matches
<1>6. /\ MeanScore(entries, C) = IF C = {} THEN MeanOf(f, S) ELSE WeightedMeanOf(f, w, C)
      /\ MeanScore(other, D) = IF D = {} THEN MeanOf(g, U) ELSE WeightedMeanOf(g, v, D)
  BY DEF MeanScore
<1>7. Values(f, C) /\ Values(g, D) /\ \A i \in C : f[i] = g[pi[i]]
  BY <1>2, <1>3 DEF Values
<1> HIDE DEF S, U, f, g, w, v
<1>8. CASE C = {}
  BY <1>1, <1>2, <1>3, <1>6, <1>8, MeanReindexed
<1>9. CASE C # {}
  BY <1>1, <1>5, <1>6, <1>7, <1>9, WeightedMeanReindexed
<1> QED
  BY <1>8, <1>9

\* Leaders and workforce diverge in any order, or in none.
LEMMA FlaggedReordered ==
  ASSUME NEW pi, NEW entries, NEW other, Reordered(pi, entries, other)
  PROVE  /\ MeanScore(entries, Clearing(entries)) = MeanScore(other, Clearing(other))
         /\ Flagged(entries, Clearing(entries)) <=> Flagged(other, Clearing(other))
<1> DEFINE C == Clearing(entries)
           D == Clearing(other)
           Of(group, e, c) == {i \in c : e[i].role \in group}
<1>1. SamePart(pi, entries, other, C, D)
  BY DEF SamePart, Clearing, Reordered, Matches
<1>2. AllWeigh(entries, C)
  BY Signs DEF AllWeigh, Clearing, Clears, Reordered, WellEntries, WellEntry
<1>3. ASSUME NEW group
      PROVE  /\ SamePart(pi, entries, other, Of(group, entries, C), Of(group, other, D))
             /\ AllWeigh(entries, Of(group, entries, C))
  <2> HIDE DEF C, D
  <2>1. \A i \in DOMAIN entries : i \in C => pi[i] \in DOMAIN other
    BY DEF Reordered, Matches
  <2>2. \A i \in DOMAIN entries : i \in Of(group, entries, C) <=> pi[i] \in Of(group, other, D)
    BY <1>1 DEF SamePart, Reordered
  <2>3. Of(group, entries, C) \subseteq C /\ Of(group, other, D) \subseteq D
    OBVIOUS
  <2> QED
    BY <1>1, <1>2, <2>2, <2>3 DEF SamePart, AllWeigh
<1>4. ASSUME NEW group
      PROVE  /\ MeanScore(entries, Of(group, entries, C)) = MeanScore(other, Of(group, other, D))
             /\ Of(group, entries, C) = {} <=> Of(group, other, D) = {}
  <2> DEFINE L == Of(group, entries, C)
             M == Of(group, other, D)
  <2>1. SamePart(pi, entries, other, L, M) /\ AllWeigh(entries, L)
    BY <1>3
  <2> HIDE DEF L, M
  <2>2. MeanScore(entries, L) = MeanScore(other, M) /\ (L = {} <=> M = {})
    BY <2>1, MeanScoreReordered, SamePartMatches
  <2> QED
    BY <2>2 DEF L, M
<1>5. /\ Flagged(entries, C)
           <=> Diverging(entries, Of(Leadership, entries, C), Of(Workforce, entries, C))
      /\ Flagged(other, D)
           <=> Diverging(other, Of(Leadership, other, D), Of(Workforce, other, D))
  BY DEF Flagged
<1>6. Diverging(entries, Of(Leadership, entries, C), Of(Workforce, entries, C))
        <=> Diverging(other, Of(Leadership, other, D), Of(Workforce, other, D))
  <2> DEFINE L == Of(Leadership, entries, C)
             M == Of(Leadership, other, D)
             W1 == Of(Workforce, entries, C)
             W2 == Of(Workforce, other, D)
  <2>1. /\ MeanScore(entries, L) = MeanScore(other, M) /\ (L = {} <=> M = {})
        /\ MeanScore(entries, W1) = MeanScore(other, W2) /\ (W1 = {} <=> W2 = {})
    BY <1>4
  <2> HIDE DEF L, M, W1, W2
  <2>2. Diverging(entries, L, W1) <=> Diverging(other, M, W2)
    BY <2>1 DEF Diverging
  <2> QED
    BY <2>2 DEF L, M, W1, W2
<1>7. MeanScore(entries, C) = MeanScore(other, D)
  BY <1>1, <1>2, MeanScoreReordered
<1> QED
  BY <1>5, <1>6, <1>7

\* So everything combined of an item is the same in any order.
LEMMA MergedReordered ==
  ASSUME NEW pi, NEW entries, NEW other, Reordered(pi, entries, other)
  PROVE  Merged(entries) = Merged(other)
<1> DEFINE S == DOMAIN entries
           U == DOMAIN other
           answered(e) == [i \in DOMAIN e |-> e[i].item.answered]
           dontKnow(e) == [i \in DOMAIN e |-> e[i].item.dontKnow]
           weight(e) == [i \in DOMAIN e |-> e[i].item.weight]
           expected(e) == {e[i].item.expected : i \in DOMAIN e}
           confidences(e) == {e[i].item.confidence : i \in DOMAIN e}
<1>1. /\ Matches(pi, S, U) /\ IsFiniteSet(S) /\ IsFiniteSet(U)
      /\ \A i \in S : entries[i] = other[pi[i]]
  BY DEF Reordered, WellEntries
<1>2. expected(entries) = expected(other) /\ confidences(entries) = confidences(other)
  BY <1>1 DEF Matches
<1>3. ASSUME NEW e \in {entries, other}, NEW i \in DOMAIN e
      PROVE  /\ e[i].item.answered \in Nat /\ e[i].item.dontKnow \in Nat
             /\ e[i].item.weight \in Fractions
  BY DEF Reordered, WellEntries, WellEntry, WellRated, WellScored
<1>4. SumFunction(answered(entries)) = SumFunction(answered(other))
  <2> DEFINE f == answered(entries)
             g == answered(other)
  <2>1. SumFunction(f) = SumFunctionOnSet(f, S) /\ SumFunction(g) = SumFunctionOnSet(g, U)
    BY DEF SumFunction
  <2>2. \A i \in S : f[i] \in Nat /\ f[i] = g[pi[i]]
    BY <1>1, <1>3 DEF Matches
  <2>3. \A u \in U : g[u] \in Nat
    BY <1>3
  <2> HIDE DEF f, g
  <2>4. SumFunctionOnSet(f, S) = SumFunctionOnSet(g, U)
    BY <1>1, <2>2, <2>3, TotalReindexed DEF Matches
  <2>5. SumFunction(f) = SumFunction(g)
    BY <2>1, <2>4
  <2> QED
    BY <2>5 DEF f, g
<1>5. SumFunction(dontKnow(entries)) = SumFunction(dontKnow(other))
  <2> DEFINE f == dontKnow(entries)
             g == dontKnow(other)
  <2>1. SumFunction(f) = SumFunctionOnSet(f, S) /\ SumFunction(g) = SumFunctionOnSet(g, U)
    BY DEF SumFunction
  <2>2. \A i \in S : f[i] \in Nat /\ f[i] = g[pi[i]]
    BY <1>1, <1>3 DEF Matches
  <2>3. \A u \in U : g[u] \in Nat
    BY <1>3
  <2> HIDE DEF f, g
  <2>4. SumFunctionOnSet(f, S) = SumFunctionOnSet(g, U)
    BY <1>1, <2>2, <2>3, TotalReindexed DEF Matches
  <2>5. SumFunction(f) = SumFunction(g)
    BY <2>1, <2>4
  <2> QED
    BY <2>5 DEF f, g
<1>6. SumOf(weight(entries), S) = SumOf(weight(other), U)
  <2> DEFINE f == weight(entries)
             g == weight(other)
  <2>2. \A i \in S : f[i] \in Fractions /\ f[i] = g[pi[i]]
    BY <1>1, <1>3 DEF Matches
  <2>3. \A u \in U : g[u] \in Fractions
    BY <1>3
  <2> HIDE DEF f, g
  <2>4. SumOf(f, S) = SumOf(g, U)
    BY <1>1, <2>2, <2>3, SumReindexed DEF Matches
  <2> QED
    BY <2>4 DEF f, g
<1>7. ASSUME NEW e
      PROVE  Merged(e) =
        [score      |-> MeanScore(e, Clearing(e)),
         answered   |-> SumFunction(answered(e)),
         expected   |-> Max(expected(e)),
         dontKnow   |-> SumFunction(dontKnow(e)),
         weight     |-> SumOf(weight(e), DOMAIN e),
         confidence |-> IF Flagged(e, Clearing(e)) THEN Penalise(Worst(confidences(e)))
                        ELSE Worst(confidences(e))]
  BY DEF Merged, Combined
<1> HIDE DEF answered, dontKnow, weight, expected, confidences
<1> QED
  BY <1>2, <1>4, <1>5, <1>6, <1>7, FlaggedReordered

Backwards(n) == [i \in 1 .. n |-> (n - i) + 1]

\* Counting backwards passes every place once.
LEMMA BackwardsMatches ==
  ASSUME NEW n \in Nat
  PROVE  Matches(Backwards(n), 1 .. n, 1 .. n)
<1>1. \A i \in 1 .. n : Backwards(n)[i] = (n - i) + 1 /\ (n - i) + 1 \in 1 .. n
  BY DEF Backwards
<1>2. \A u \in 1 .. n : (n - u) + 1 \in 1 .. n /\ u = (n - ((n - u) + 1)) + 1
  OBVIOUS
<1>3. \A u \in 1 .. n : \E i \in 1 .. n : u = Backwards(n)[i]
  BY <1>1, <1>2
<1>4. \A i, j \in 1 .. n : Backwards(n)[i] = Backwards(n)[j] => i = j
  BY <1>1
<1> QED
  BY <1>1, <1>3, <1>4 DEF Matches

\* A reversed sequence of results has the same results.
LEMMA ReverseIs ==
  ASSUME NEW parts, WellParts(parts)
  PROVE  LET back == Reverse(parts)
         IN  /\ WellParts(back) /\ Len(back) = Len(parts)
             /\ \A i \in DOMAIN back : Backwards(Len(parts))[i] \in DOMAIN parts
                                       /\ back[i] = parts[Backwards(Len(parts))[i]]
<1> DEFINE n == Len(parts)
           back == Reverse(parts)
<1>1. n \in Nat \ {0} /\ DOMAIN parts = 1 .. n
  BY DEF WellParts
<1>2. \A i \in 1 .. n : Backwards(n)[i] \in 1 .. n /\ Backwards(n)[i] = (n - i) + 1
  BY <1>1 DEF Backwards
<1>3. back = [i \in 1 .. n |-> parts[(n - i) + 1]]
  BY DEF Reverse
<1>4. \A i \in 1 .. n : back[i] = parts[Backwards(n)[i]]
  BY <1>2, <1>3
<1>5. back \in Seq({parts[i] : i \in 1 .. n})
  <2> DEFINE values == {parts[i] : i \in 1 .. n}
  <2> HIDE DEF n, back
  <2>1. \A j \in 1 .. n : parts[j] \in values
    OBVIOUS
  <2> HIDE DEF values
  <2>2. ASSUME NEW i \in 1 .. n
        PROVE  parts[(n - i) + 1] \in values
    <3>1. (n - i) + 1 \in 1 .. n
      <4>1. Backwards(n)[i] \in 1 .. n /\ Backwards(n)[i] = (n - i) + 1
        BY <1>2
      <4> QED
        BY <4>1, Zenon
    <3> QED
      BY <2>1, <3>1, Zenon
  <2>3. back \in [1 .. n -> values]
    BY <1>3, <2>2
  <2>4. n \in Nat
    BY <1>1
  <2>5. back \in Seq(values)
    BY <2>3, <2>4
  <2> QED
    BY <2>5 DEF values
<1>6. Len(back) = n /\ DOMAIN back = 1 .. n
  <2>1. DOMAIN back = 1 .. n
    BY <1>3
  <2>2. DOMAIN back = 1 .. Len(back) /\ Len(back) \in Nat
    BY <1>5
  <2> HIDE DEF back, n
  <2> QED
    BY <1>1, <2>1, <2>2
<1> HIDE DEF back, n
<1>7. \A i \in 1 .. n : /\ back[i].role \in All
                        /\ \A f \in FrameworkNames : WellResult(f, back[i].result[f])
  BY <1>1, <1>2, <1>4 DEF WellParts
<1>8. WellParts(back)
  BY <1>1, <1>6, <1>7 DEF WellParts
<1> QED
  BY <1>1, <1>2, <1>4, <1>6, <1>8 DEF back, n

\* What is merged of one item is the same, whoever comes first.
LEMMA EntriesReversed ==
  ASSUME NEW parts, WellParts(parts), NEW f \in FrameworkNames, NEW name, NEW items, NEW backItems,
         \A i \in DOMAIN parts : WellRated(items[i]),
         \A i \in DOMAIN parts : backItems[i] = items[Backwards(Len(parts))[i]]
  PROVE  Merged(EntriesFor(f, name, Reverse(parts), backItems))
           = Merged(EntriesFor(f, name, parts, items))
<1> DEFINE n == Len(parts)
           back == Reverse(parts)
           entries == EntriesFor(f, name, back, backItems)
           other == EntriesFor(f, name, parts, items)
<1>1. n \in Nat \ {0} /\ DOMAIN parts = 1 .. n
  BY DEF WellParts
<1>2. /\ WellParts(back) /\ Len(back) = n
      /\ \A i \in DOMAIN back : Backwards(n)[i] \in DOMAIN parts /\ back[i] = parts[Backwards(n)[i]]
  BY ReverseIs
<1>3. DOMAIN back = 1 .. n
  BY <1>2 DEF WellParts
<1> HIDE DEF back, n
<1>4. \A i \in DOMAIN back : WellRated(backItems[i])
  BY <1>1, <1>2, <1>3 DEF n
<1>5. /\ WellEntries(entries) /\ DOMAIN entries = DOMAIN back
      /\ \A i \in DOMAIN back : entries[i] = Entry(back[i].role, f, name, backItems[i])
  BY <1>2, <1>4, EntriesWell
<1>6. /\ WellEntries(other) /\ DOMAIN other = DOMAIN parts
      /\ \A i \in DOMAIN parts : other[i] = Entry(parts[i].role, f, name, items[i])
  BY EntriesWell
<1>7. Matches(Backwards(n), DOMAIN entries, DOMAIN other)
  BY <1>1, <1>3, <1>5, <1>6, BackwardsMatches
<1> HIDE DEF entries, other
<1>8. \A i \in DOMAIN entries : entries[i] = other[Backwards(n)[i]]
  <2> TAKE i \in DOMAIN entries
  <2>1. i \in DOMAIN parts /\ i \in DOMAIN back /\ Backwards(n)[i] \in DOMAIN parts
    BY <1>1, <1>2, <1>3, <1>5
  <2>2. back[i] = parts[Backwards(n)[i]] /\ backItems[i] = items[Backwards(n)[i]]
    BY <1>2, <2>1 DEF n
  <2> QED
    BY <1>5, <1>6, <2>1, <2>2
<1>9. Reordered(Backwards(n), entries, other)
  BY <1>5, <1>6, <1>7, <1>8 DEF Reordered
<1>10. Merged(entries) = Merged(other)
  BY <1>9, MergedReordered
<1> QED
  BY <1>10 DEF entries, other, back

\* A framework's combined result is the same of the reversed results ...
LEMMA ResultReversed ==
  ASSUME NEW parts, WellParts(parts), NEW f \in FrameworkNames
  PROVE  AggregateResult(f, Reverse(parts)) = AggregateResult(f, parts)
<1> DEFINE n == Len(parts)
           back == Reverse(parts)
<1>1. n \in Nat \ {0} /\ DOMAIN parts = 1 .. n
  BY DEF WellParts
<1>2. /\ WellParts(back) /\ Len(back) = n
      /\ \A i \in DOMAIN back : Backwards(n)[i] \in DOMAIN parts /\ back[i] = parts[Backwards(n)[i]]
  BY ReverseIs
<1>3. DOMAIN back = DOMAIN parts
  BY <1>1, <1>2 DEF WellParts
<1> HIDE DEF n, back
<1>4. ASSUME NEW d \in Dimensions
      PROVE  SubComponentsOf(d, back) = SubComponentsOf(d, parts)
  <2>1. "v1_audit" \in FrameworkNames
    BY DEF FrameworkNames
  <2>2. ASSUME NEW sub \in SubComponents(d)
        PROVE  SubComponentsOf(d, back)[sub] = SubComponentsOf(d, parts)[sub]
    <3>1. \A i \in DOMAIN parts : WellRated(SubsFor(parts, d, sub)[i])
      BY <2>1, PartsWell
    <3>2. \A i \in DOMAIN parts :
            SubsFor(back, d, sub)[i] = SubsFor(parts, d, sub)[Backwards(n)[i]]
      BY <1>2, <1>3 DEF SubsFor
    <3>3. Merged(EntriesFor("v1_audit", sub, back, SubsFor(back, d, sub)))
            = Merged(EntriesFor("v1_audit", sub, parts, SubsFor(parts, d, sub)))
      BY <2>1, <3>1, <3>2, EntriesReversed DEF n, back
    <3> QED
      BY <1>2, <3>3, SubComponentsOfIs
  <2>3. /\ SubComponentsOf(d, back) = [sub \in SubComponents(d) |-> SubComponentsOf(d, back)[sub]]
        /\ SubComponentsOf(d, parts) = [sub \in SubComponents(d) |-> SubComponentsOf(d, parts)[sub]]
    BY DEF SubComponentsOf
  <2> QED
    BY <2>2, <2>3
<1>5. ASSUME NEW name \in NamesOf(f)
      PROVE  AggregateItem(f, name, back) = AggregateItem(f, name, parts)
  <2>1. \A i \in DOMAIN parts : WellRated(ItemsFor(parts, f, name)[i])
    BY PartsWell
  <2>2. \A i \in DOMAIN parts : ItemsFor(back, f, name)[i] = ItemsFor(parts, f, name)[Backwards(n)[i]]
    BY <1>2, <1>3 DEF ItemsFor
  <2>3. Merged(EntriesFor(f, name, back, ItemsFor(back, f, name)))
          = Merged(EntriesFor(f, name, parts, ItemsFor(parts, f, name)))
    BY <2>1, <2>2, EntriesReversed DEF n, back
  <2>4. /\ EntriesOf(f, name, back) = EntriesFor(f, name, back, ItemsFor(back, f, name))
        /\ EntriesOf(f, name, parts) = EntriesFor(f, name, parts, ItemsFor(parts, f, name))
    BY DEF EntriesOf, ItemsFor
  <2>5. f = "v1_audit" => SubComponentsOf(name, back) = SubComponentsOf(name, parts)
    BY <1>4 DEF NamesOf
  <2> QED
    BY <2>3, <2>4, <2>5 DEF AggregateItem, Labelled, WithLabel
<1>6. AggregateItems(f, back) = AggregateItems(f, parts)
  <2>1. /\ DOMAIN back[1].result[f].items = NamesOf(f)
        /\ DOMAIN parts[1].result[f].items = NamesOf(f)
    BY <1>1, <1>2, <1>3 DEF WellParts, WellResult, WellItems
  <2>2. /\ AggregateItems(f, back) = [name \in NamesOf(f) |-> AggregateItem(f, name, back)]
        /\ AggregateItems(f, parts) = [name \in NamesOf(f) |-> AggregateItem(f, name, parts)]
    BY <2>1 DEF AggregateItems
  <2> QED
    BY <1>5, <2>2
<1>7. AggregateSignals(f, back) = AggregateSignals(f, parts)
  <2> DEFINE names == DOMAIN AggregateSignals(f, parts)
  <2>1. DOMAIN AggregateSignals(f, back) = names
    BY <1>2, AggregateSignalsIs
  <2>2. ASSUME NEW s \in names
        PROVE  AggregateSignals(f, back)[s] = AggregateSignals(f, parts)[s]
    <3>1. f = "v3_governance" /\ s \in DOMAIN SignalAssignments
      BY <2>2, AggregateSignalsIs
    <3>2. \A i \in DOMAIN parts : WellRated(SignalsFor(parts, f, s)[i])
      BY <3>1, PartsWell
    <3>3. \A i \in DOMAIN parts :
            SignalsFor(back, f, s)[i] = SignalsFor(parts, f, s)[Backwards(n)[i]]
      BY <1>2, <1>3 DEF SignalsFor
    <3>4. Merged(EntriesFor(f, s, back, SignalsFor(back, f, s)))
            = Merged(EntriesFor(f, s, parts, SignalsFor(parts, f, s)))
      BY <3>2, <3>3, EntriesReversed DEF n, back
    <3> QED
      BY <1>2, <2>1, <2>2, <3>4, AggregateSignalsIs
  <2>3. /\ AggregateSignals(f, back) = [s \in names |-> AggregateSignals(f, back)[s]]
        /\ AggregateSignals(f, parts) = [s \in names |-> AggregateSignals(f, parts)[s]]
    BY <2>1 DEF AggregateSignals
  <2> QED
    BY <2>2, <2>3
<1> QED
  BY <1>6, <1>7 DEF AggregateResult, back

\* ... and so is the engagement's.
LEMMA AggregateReversed ==
  ASSUME NEW parts, WellParts(parts)
  PROVE  Aggregate(Reverse(parts)) = Aggregate(parts)
<1> DEFINE back == Reverse(parts)
<1>1. /\ WellParts(back) /\ Len(back) = Len(parts)
      /\ \A i \in DOMAIN back : Backwards(Len(parts))[i] \in DOMAIN parts
                                /\ back[i] = parts[Backwards(Len(parts))[i]]
  BY ReverseIs
<1> HIDE DEF back
<1>2. CASE Len(parts) = 1
  <2>1. DOMAIN back = 1 .. 1 /\ DOMAIN parts = 1 .. 1
    BY <1>1, <1>2 DEF WellParts
  <2>2. back[1] = parts[1]
    BY <1>1, <1>2, <2>1
  <2> QED
    BY <1>1, <1>2, <2>2 DEF Aggregate, back
<1>3. CASE Len(parts) # 1
  <2>1. /\ Aggregate(back) = [f \in FrameworkNames |-> AggregateResult(f, back)]
        /\ Aggregate(parts) = [f \in FrameworkNames |-> AggregateResult(f, parts)]
    BY <1>1, <1>3 DEF Aggregate
  <2>2. \A f \in FrameworkNames : AggregateResult(f, back) = AggregateResult(f, parts)
    BY ResultReversed DEF back
  <2> QED
    BY <2>1, <2>2 DEF back
<1> QED
  BY <1>2, <1>3

\* Combining is fair: neither the order in which the respondents completed nor their
\* agreement makes any difference it should not (aggregation.py).
THEOREM CombiningIsAlwaysFair == Spec => []CombiningIsFair
<1>1. ReportsAnswers => OrderDoesNotMatter
  <2> SUFFICES ASSUME ReportsAnswers, Reported
               PROVE  Aggregate(Reverse(report.parts)) = report.scores
    BY DEF OrderDoesNotMatter
  <2>1. WellParts(report.parts) /\ report.scores = Aggregate(report.parts)
    BY PartsAreWell DEF ReportsAnswers, Reported
  <2> QED
    BY <2>1, AggregateReversed
<1>2. ReportsAnswers /\ CombiningNeverRaisesConfidence => CombiningIsFair
  BY <1>1 DEF CombiningIsFair
<1> QED
  BY <1>2, ReportsAreOfAnswers, CombiningRaisesNoConfidence, PTL

-----------------------------------------------------------------------------
(***************************************************************************)
(* Better answers.                                                         *)
(***************************************************************************)
\* An item of which as much was answered, and which scores no lower.
SameExtent(item, other) ==
  /\ item.answered = other.answered /\ item.expected = other.expected
  /\ item.weight = other.weight
Raised(item, other) == SameExtent(item, other) /\ AtMost(item.score, other.score)

\* The second answers are to the same questions as the first, and worth no less.
Better(given, other) ==
  /\ DOMAIN given = DOMAIN other
  /\ \A q \in Questions : q.id \in DOMAIN given =>
       AtMost(ScoreResponse(q, given[q.id]).value, ScoreResponse(q, other[q.id]).value)

OfRisk(q) == \E m \in q.maps : m.framework = "v1_audit" /\ DimensionOf(m) = "risk_exposure"

\* ... and those that count for risk_exposure are the same.
RiskStands(given, other) ==
  \A q \in Questions : q.id \in DOMAIN given /\ OfRisk(q) => given[q.id] = other[q.id]

\* Better answers raise an item and leave its extent.
LEMMA BetterItem ==
  ASSUME NEW assignments, Assignable(assignments), NEW given, Given(given),
         NEW other, Given(other), Better(given, other)
  PROVE  Raised(Item(assignments, given), Item(assignments, other))
<1> DEFINE C == CountingOf(assignments, given)
           f == ValuesOf(assignments, given)
           g == ValuesOf(assignments, other)
           w == WeightsIn(C)
           item == Item(assignments, given)
           better == Item(assignments, other)
<1>1. CountingOf(assignments, other) = C
  BY DEF CountingOf, Better
<1>2. /\ item.score = IF C = {} THEN Zero ELSE WeightedMeanOf(f, w, C)
      /\ item.answered = Cardinality(C) /\ item.expected = Cardinality(assignments)
      /\ item.weight = SumOf(w, C)
  BY ItemIs
<1>3. /\ better.score = IF C = {} THEN Zero ELSE WeightedMeanOf(g, w, C)
      /\ better.answered = Cardinality(C) /\ better.expected = Cardinality(assignments)
      /\ better.weight = SumOf(w, C)
  BY <1>1, ItemIs
<1>4. IsFiniteSet(C) /\ Weighs(w, C) /\ \A a \in C : f[a] \in Unit
  BY CountingWeighs
<1>5. \A a \in C : g[a] \in Unit
  BY <1>1, CountingWeighs
<1>6. ASSUME NEW a \in C
      PROVE  AtMost(f[a], g[a])
  <2>1. a.q \in Questions /\ a.q.id \in DOMAIN given
    BY DEF CountingOf, Assignable
  <2>2. f[a] = ScoreResponse(a.q, given[a.q.id]).value
    BY DEF ValuesOf
  <2>3. g[a] = ScoreResponse(a.q, other[a.q.id]).value
    BY <1>1 DEF ValuesOf
  <2> QED
    BY <2>1, <2>2, <2>3 DEF Better
<1> HIDE DEF C, f, g, w, item, better
<1>7. Values(f, C) /\ Values(g, C)
  BY <1>4, <1>5 DEF Values, Unit
<1>8. AtMost(item.score, better.score)
  <2>1. CASE C = {}
    BY <1>2, <1>3, <2>1 DEF AtMost, Zero
  <2>2. CASE C # {}
    BY <1>2, <1>3, <1>4, <1>6, <1>7, <2>2, WeightedMeanMonotone
  <2> QED
    BY <2>1, <2>2
<1>9. Raised(item, better)
  BY <1>2, <1>3, <1>8 DEF Raised, SameExtent
<1> QED
  BY <1>9 DEF item, better

\* A scored item is no lower than itself.
LEMMA RaisedOverItself ==
  ASSUME NEW item, WellScored(item)
  PROVE  Raised(item, item)
<1>1. item.score[1] \in Int /\ item.score[2] \in Nat
  BY FractionParts DEF WellScored, Unit
<1> QED
  BY <1>1 DEF Raised, SameExtent, AtMost

\* Where the answers to its questions stand, an item stands.
LEMMA SameItem ==
  ASSUME NEW assignments, Assignable(assignments), NEW given, NEW other,
         DOMAIN given = DOMAIN other,
         \A a \in assignments : a.q.id \in DOMAIN given => given[a.q.id] = other[a.q.id]
  PROVE  Item(assignments, given) = Item(assignments, other)
<1>1. Scores(assignments, given) = Scores(assignments, other)
  BY DEF Scores
<1> QED
  BY <1>1 DEF Item

\* An item with its confidence, and a labelled one, extends and scores as before.
LEMMA RaisedThroughout ==
  ASSUME NEW item, WellScored(item), NEW other, WellScored(other), Raised(item, other)
  PROVE  /\ Raised(WithConfidence(item), WithConfidence(other))
         /\ \A framework, subs, others :
              Raised(Assessed(framework, item, subs), Assessed(framework, other, others))
<1>1. Raised(WithConfidence(item), WithConfidence(other))
  BY DEF WithConfidence, Trusted, Raised, SameExtent
<1>2. ASSUME NEW framework, NEW subs, NEW others
      PROVE  Raised(Assessed(framework, item, subs), Assessed(framework, other, others))
  <2> DEFINE a == Assessed(framework, item, subs)
             b == Assessed(framework, other, others)
  <2>1. /\ a.score = item.score /\ a.answered = item.answered
        /\ a.weight = item.weight /\ a.expected = item.expected
    BY TrustedIs
  <2>2. /\ b.score = other.score /\ b.answered = other.answered
        /\ b.weight = other.weight /\ b.expected = other.expected
    BY TrustedIs
  <2> HIDE DEF a, b
  <2>3. Raised(a, b)
    BY <2>1, <2>2 DEF Raised, SameExtent
  <2> QED
    BY <2>3 DEF a, b
<1> QED
  BY <1>1, <1>2

\* A dimension that is not turned around rises with its sub-components.
LEMMA RaisedDimension ==
  ASSUME NEW d, d # "risk_exposure", NEW subs, IsFiniteSet(DOMAIN subs), NEW others,
         DOMAIN others = DOMAIN subs,
         \A s \in DOMAIN subs : /\ WellScored(subs[s]) /\ WellScored(others[s])
                                /\ Raised(subs[s], others[s])
  PROVE  /\ Answered(others) = Answered(subs)
         /\ Raised(AggregateDimension(d, subs, Answered(subs)),
                   AggregateDimension(d, others, Answered(subs)))
<1> DEFINE active == Answered(subs)
           score(x) == [s \in active |-> x[s].score]
           answered(x) == [s \in active |-> x[s].answered]
           expected(x) == [s \in DOMAIN x |-> x[s].expected]
           weight(x) == [s \in active |-> x[s].weight]
<1>1. Answered(others) = active
  BY DEF Answered, Raised, SameExtent
<1>2. active \subseteq DOMAIN subs /\ IsFiniteSet(active)
  <2>1. active \subseteq DOMAIN subs
    BY DEF Answered
  <2> HIDE DEF active
  <2> QED
    BY <2>1, FS_Subset
<1>3. ASSUME NEW x
      PROVE  LET item == AggregateDimension(d, x, active)
             IN  /\ item.score = IF active = {} THEN Zero ELSE MeanOf(score(x), active)
                 /\ item.answered = SumFunction(answered(x))
                 /\ item.expected = SumFunction(expected(x))
                 /\ item.weight = SumOf(weight(x), active)
  <2> DEFINE item == AggregateDimension(d, x, active)
  <2>1. /\ item.score = IF active = {} THEN Zero ELSE Turned(d, MeanOf(score(x), active))
        /\ item.answered = SumFunction(answered(x))
        /\ item.expected = SumFunction(expected(x))
        /\ item.weight = SumOf(weight(x), active)
    BY DEF AggregateDimension
  <2>2. \A raw : Turned(d, raw) = raw
    BY DEF Turned, InvertedDimensions
  <2>3. Turned(d, MeanOf(score(x), active)) = MeanOf(score(x), active)
    BY <2>2
  <2> QED
    BY <2>1, <2>3
<1>4. /\ answered(subs) = answered(others) /\ expected(subs) = expected(others)
      /\ weight(subs) = weight(others)
  BY <1>2 DEF Raised, SameExtent
<1>5. \A s \in active : /\ score(subs)[s] = subs[s].score
                        /\ score(others)[s] = others[s].score
  OBVIOUS
<1> DEFINE f == score(subs)
           g == score(others)
           item == AggregateDimension(d, subs, active)
           better == AggregateDimension(d, others, active)
<1>6. /\ item.score = IF active = {} THEN Zero ELSE MeanOf(f, active)
      /\ better.score = IF active = {} THEN Zero ELSE MeanOf(g, active)
  BY <1>3
<1>7. SameExtent(item, better)
  <2>1. /\ item.answered = SumFunction(answered(subs)) /\ item.expected = SumFunction(expected(subs))
        /\ item.weight = SumOf(weight(subs), active)
    BY <1>3
  <2>2. /\ better.answered = SumFunction(answered(others))
        /\ better.expected = SumFunction(expected(others))
        /\ better.weight = SumOf(weight(others), active)
    BY <1>3
  <2> HIDE DEF item, better, answered, expected, weight
  <2> QED
    BY <1>4, <2>1, <2>2 DEF SameExtent
<1> HIDE DEF active, f, g, item, better
<1>8. Values(f, active) /\ Values(g, active) /\ \A s \in active : AtMost(f[s], g[s])
  BY <1>2, <1>5 DEF f, g, Values, WellScored, Unit, Raised
<1>9. AtMost(item.score, better.score)
  <2>1. CASE active = {}
    BY <1>6, <2>1 DEF AtMost, Zero
  <2>2. CASE active # {}
    BY <1>2, <1>6, <1>8, <2>2, MeanMonotone
  <2> QED
    BY <2>1, <2>2
<1> QED
  BY <1>1, <1>7, <1>9 DEF Raised, item, better, active

\* A dimension that is not turned around rises with the answers.
LEMMA BetterDimension ==
  ASSUME NEW d \in Dimensions, NEW given, Given(given), NEW other, Given(other),
         Better(given, other), d = "risk_exposure" => RiskStands(given, other)
  PROVE  Raised(Dimension(d, given), Dimension(d, other))
<1> DEFINE subs == [sub \in SubComponents(d) |-> SubComponentScore(d, sub, given)]
           others == [sub \in SubComponents(d) |-> SubComponentScore(d, sub, other)]
           item == AggregateDimension(d, subs, Answered(subs))
           better == AggregateDimension(d, others, Answered(others))
<1>1. ASSUME NEW s \in SubComponents(d)
      PROVE  /\ WellScored(subs[s]) /\ WellScored(others[s]) /\ Raised(subs[s], others[s])
             /\ d = "risk_exposure" => subs[s] = others[s]
  <2> DEFINE assignments == DimensionAssignments[d][s]
             a == Item(assignments, given)
             b == Item(assignments, other)
  <2>1. subs[s] = WithConfidence(a) /\ others[s] = WithConfidence(b)
    BY DEF SubComponentScore
  <2>2. Assignable(assignments)
    BY DimensionsAssignable
  <2>3. WellScored(a) /\ WellScored(b) /\ Raised(a, b)
    <3> HIDE DEF assignments
    <3> QED
      BY <2>2, ItemWellScored, BetterItem
  <2>4. ASSUME d = "risk_exposure"
        PROVE  a = b
    <3>1. \A x \in assignments : \E q \in Questions : \E m \in q.maps :
            /\ x = Assignment(q, m.weight)
            /\ m.framework = "v1_audit" /\ DimensionOf(m) = d
      BY DEF DimensionAssignments, MappedBy
    <3>2. \A x \in assignments : x.q \in Questions /\ OfRisk(x.q)
      BY <2>4, <3>1 DEF OfRisk, Assignment
    <3>3. \A x \in assignments : x.q.id \in DOMAIN given => given[x.q.id] = other[x.q.id]
      BY <2>4, <3>2 DEF RiskStands
    <3> HIDE DEF assignments
    <3> QED
      BY <2>2, <3>3, SameItem DEF Better
  <2> HIDE DEF a, b, assignments, subs, others
  <2>5. /\ WellScored(WithConfidence(a)) /\ WellScored(WithConfidence(b))
        /\ Raised(WithConfidence(a), WithConfidence(b))
    BY <2>3, TrustedIs, RaisedThroughout DEF WellRated
  <2> QED
    BY <2>1, <2>4, <2>5
<1>2. DOMAIN subs = SubComponents(d) /\ DOMAIN others = SubComponents(d) /\ IsFiniteSet(SubComponents(d))
  BY NamesFinite
<1>3. /\ Dimension(d, given) = DimensionOfParts(d, subs)
      /\ Dimension(d, other) = DimensionOfParts(d, others)
  BY DEF Dimension
<1>4. d = "risk_exposure" => subs = others
  BY <1>1
<1> HIDE DEF subs, others
<1>5. Answered(subs) \subseteq DOMAIN subs /\ Answered(others) \subseteq DOMAIN others
  BY DEF Answered
<1>6. WellScored(item) /\ WellScored(better)
  BY <1>1, <1>2, <1>5, DimensionWellScored
<1>7. Raised(item, better)
  <2>1. CASE d = "risk_exposure"
    BY <1>4, <1>6, <2>1, RaisedOverItself
  <2>2. CASE d # "risk_exposure"
    BY <1>1, <1>2, <2>2, RaisedDimension
  <2> QED
    BY <2>1, <2>2
<1>8. /\ DimensionOfParts(d, subs) = Assessed("v1_audit", item, subs)
      /\ DimensionOfParts(d, others) = Assessed("v1_audit", better, others)
  BY DEF DimensionOfParts
<1> HIDE DEF item, better
<1> QED
  BY <1>3, <1>6, <1>7, <1>8, RaisedThroughout

\* One respondent's items rise with the answers, those of the audit while the answers
\* that count for risk_exposure stand.
LEMMA BetterItems ==
  ASSUME NEW f \in FrameworkNames, NEW given, Given(given), NEW other, Given(other),
         Better(given, other), f = "v1_audit" => RiskStands(given, other),
         NEW name \in NamesOf(f)
  PROVE  Raised(ItemsOf(f, given)[name], ItemsOf(f, other)[name])
<1>1. ASSUME NEW S, Assignable(S)
      PROVE  Raised(Assessed(f, Item(S, given), <<>>), Assessed(f, Item(S, other), <<>>))
  <2>1. /\ WellScored(Item(S, given)) /\ WellScored(Item(S, other))
        /\ Raised(Item(S, given), Item(S, other))
    BY <1>1, ItemWellScored, BetterItem
  <2> QED
    BY <2>1, RaisedThroughout
<1>2. CASE f = "v1_audit"
  <2>1. /\ \A x : ItemsOf(f, x) = [d \in Dimensions |-> Dimension(d, x)]
        /\ NamesOf(f) = Dimensions
    BY <1>2 DEF ItemsOf, NamesOf
  <2>2. Raised(Dimension(name, given), Dimension(name, other))
    BY <1>2, <2>1, BetterDimension
  <2> QED
    BY <2>1, <2>2
<1>3. CASE f = "v2_readiness"
  <2>1. /\ \A x : ItemsOf(f, x) = [m \in Modules |-> Assessed(f, Item(ModuleAssignments[m], x), <<>>)]
        /\ NamesOf(f) = Modules
    BY <1>3 DEF ItemsOf, NamesOf
  <2>2. Assignable(ModuleAssignments[name])
    BY <2>1, ModulesAssignable
  <2> QED
    BY <1>1, <2>1, <2>2
<1>4. CASE f = "v3_governance"
  <2>1. /\ \A x : ItemsOf(f, x) = [m \in Steps |-> Assessed(f, Item(StepAssignments[m], x), <<>>)]
        /\ NamesOf(f) = Steps
    BY <1>4 DEF ItemsOf, NamesOf
  <2>2. Assignable(StepAssignments[name])
    BY <2>1, StepsAssignable
  <2> QED
    BY <1>1, <2>1, <2>2
<1>5. CASE f = "efficiency"
  <2>1. /\ \A x : ItemsOf(f, x) = [m \in Components |-> Assessed(f, Item(ComponentAssignments[m], x), <<>>)]
        /\ NamesOf(f) = Components
    BY <1>5 DEF ItemsOf, NamesOf
  <2>2. Assignable(ComponentAssignments[name])
    BY <2>1, ComponentsAssignable
  <2> QED
    BY <1>1, <2>1, <2>2
<1> QED
  BY <1>2, <1>3, <1>4, <1>5 DEF FrameworkNames

\* An item of which as much was answered, and which scores no lower.
Climbs(item, other) == item.answered = other.answered /\ AtMost(item.score, other.score)

\* What the second entries say of an item is no lower, and counts as much.
EntriesRise(entries, others) ==
  /\ WellEntries(entries) /\ WellEntries(others) /\ DOMAIN entries = DOMAIN others
  /\ \A i \in DOMAIN entries : /\ entries[i].weight = others[i].weight
                               /\ Raised(entries[i].item, others[i].item)

\* The combined score rises with the respondents' scores.
LEMMA MeanScoreRises ==
  ASSUME NEW entries, NEW others, EntriesRise(entries, others)
  PROVE  AtMost(MeanScore(entries, Clearing(entries)), MeanScore(others, Clearing(others)))
<1> DEFINE I == DOMAIN entries
           C == Clearing(entries)
           f == ScoresIn(entries)
           g == ScoresIn(others)
           w == [i \in C |-> entries[i].weight]
<1>1. Clearing(others) = C
  BY DEF EntriesRise, Clearing, Clears, Raised, SameExtent
<1>2. [i \in C |-> others[i].weight] = w
  BY DEF EntriesRise, Clearing
<1>3. /\ MeanScore(entries, C) = IF C = {} THEN MeanOf(f, I) ELSE WeightedMeanOf(f, w, C)
      /\ MeanScore(others, C) = IF C = {} THEN MeanOf(g, I) ELSE WeightedMeanOf(g, w, C)
  BY <1>2 DEF MeanScore, EntriesRise
<1>4. \A i \in I : /\ f[i] = entries[i].item.score /\ g[i] = others[i].item.score
                   /\ f[i] \in Fractions /\ g[i] \in Fractions /\ AtMost(f[i], g[i])
  BY DEF ScoresIn, EntriesRise, Raised, WellEntries, WellEntry, WellRated, WellScored, Unit
<1>5. IsFiniteSet(C) /\ Weighs(w, C) /\ C \subseteq I
  BY ClearingIs DEF EntriesRise
<1>6. I # {} /\ IsFiniteSet(I)
  BY DEF EntriesRise, WellEntries
<1> HIDE DEF I, C, f, g, w
<1>7. Values(f, I) /\ Values(g, I) /\ Values(f, C) /\ Values(g, C)
  BY <1>4, <1>5 DEF Values
<1>8. AtMost(MeanScore(entries, C), MeanScore(others, C))
  <2>1. CASE C = {}
    BY <1>3, <1>4, <1>6, <1>7, <2>1, MeanMonotone
  <2>2. CASE C # {}
    BY <1>3, <1>4, <1>5, <1>7, <2>2, WeightedMeanMonotone
  <2> QED
    BY <2>1, <2>2
<1> QED
  BY <1>1, <1>8 DEF C

\* How much of an item was answered, of all respondents together.
LEMMA AnsweredTogether ==
  ASSUME NEW entries, NEW others, EntriesRise(entries, others)
  PROVE  Merged(entries).answered = Merged(others).answered
<1>1. [i \in DOMAIN entries |-> entries[i].item.answered]
        = [i \in DOMAIN others |-> others[i].item.answered]
  BY DEF EntriesRise, Raised, SameExtent
<1>2. \A e : Merged(e).answered = SumFunction([i \in DOMAIN e |-> e[i].item.answered])
  BY DEF Merged, Combined
<1> QED
  BY <1>1, <1>2

\* The composite rises with the items.
LEMMA CompositeRises ==
  ASSUME NEW f \in FrameworkNames, NEW items, WellItems(f, items), NEW others,
         WellItems(f, others), \A name \in NamesOf(f) : Climbs(items[name], others[name])
  PROVE  AtMost(Composite(f, items), Composite(f, others))
<1> DEFINE active == Answered(items)
           score == ScoreOf(items)
           better == ScoreOf(others)
           w == WeightsOfDimensions(active)
           from == IF f = "efficiency" THEN Components ELSE active
<1>1. Answered(others) = active
  BY DEF WellItems, Answered, Climbs
<1>2. active \subseteq NamesOf(f)
  BY DEF WellItems, Answered
<1>3. /\ f = "efficiency" => Components = NamesOf(f)
      /\ f = "v1_audit" => Dimensions = NamesOf(f)
      /\ Components # {}
  BY DEF NamesOf, Components
<1>4. IsFiniteSet(active) /\ IsFiniteSet(from) /\ from \subseteq NamesOf(f)
  <2> HIDE DEF active
  <2> QED
    BY <1>2, <1>3, NamesOfFinite, NamesFinite, FS_Subset
<1>5. \A i \in NamesOf(f) : /\ score[i] \in Fractions /\ better[i] \in Fractions
                            /\ AtMost(score[i], better[i])
  BY DEF WellItems, WellRated, WellScored, ScoreOf, Climbs, Unit
<1>6. /\ active = {} => Composite(f, items) = Zero
      /\ active # {} =>
           Composite(f, items) = IF f = "v1_audit" THEN WeightedMeanOf(score, w, active)
                                 ELSE MeanOf(score, from)
  BY CompositeIs
<1>7. /\ active = {} => Composite(f, others) = Zero
      /\ active # {} =>
           Composite(f, others) = IF f = "v1_audit" THEN WeightedMeanOf(better, w, active)
                                  ELSE MeanOf(better, from)
  BY <1>1, CompositeIs
<1>8. f = "v1_audit" => Weighs(w, active)
  BY <1>2, <1>3, DimensionsWeigh
<1>9. active # {} => from # {}
  BY <1>3
<1> HIDE DEF active, score, better, w, from
<1>10. /\ Values(score, active) /\ Values(better, active)
       /\ Values(score, from) /\ Values(better, from)
  BY <1>2, <1>4, <1>5 DEF Values
<1>11. CASE active = {}
  BY <1>6, <1>7, <1>11 DEF AtMost, Zero
<1>12. CASE active # {} /\ f = "v1_audit"
  BY <1>2, <1>4, <1>5, <1>6, <1>7, <1>8, <1>10, <1>12, WeightedMeanMonotone
<1>13. CASE active # {} /\ f # "v1_audit"
  BY <1>4, <1>5, <1>6, <1>7, <1>9, <1>10, <1>13, MeanMonotone
<1> QED
  BY <1>11, <1>12, <1>13

\* The second results are of the same respondents, and say of no item of f less.
PartsRise(f, parts, others) ==
  /\ WellParts(parts) /\ WellParts(others) /\ Len(parts) = Len(others)
  /\ \A i \in DOMAIN parts :
       /\ parts[i].role = others[i].role
       /\ \A name \in NamesOf(f) :
            Raised(parts[i].result[f].items[name], others[i].result[f].items[name])

\* So does the combined item.
LEMMA ItemRises ==
  ASSUME NEW f \in FrameworkNames, NEW parts, NEW others, PartsRise(f, parts, others),
         NEW name \in NamesOf(f)
  PROVE  Climbs(AggregateItem(f, name, parts), AggregateItem(f, name, others))
<1> DEFINE entries == EntriesOf(f, name, parts)
           better == EntriesOf(f, name, others)
<1>1. /\ WellEntries(entries) /\ DOMAIN entries = DOMAIN parts
      /\ \A i \in DOMAIN parts : /\ entries[i].item = parts[i].result[f].items[name]
                                 /\ entries[i] = Entry(parts[i].role, f, name, entries[i].item)
      /\ AggregateItem(f, name, parts).score = MeanScore(entries, Clearing(entries))
  BY AggregateItemIs DEF PartsRise
<1>2. /\ WellEntries(better) /\ DOMAIN better = DOMAIN others
      /\ \A i \in DOMAIN others : /\ better[i].item = others[i].result[f].items[name]
                                  /\ better[i] = Entry(others[i].role, f, name, better[i].item)
      /\ AggregateItem(f, name, others).score = MeanScore(better, Clearing(better))
  BY AggregateItemIs DEF PartsRise
<1>3. \A e, label, subs : Rated(e, label, subs).answered = e.answered
  BY DEF Rated
<1>4. \A x : AggregateItem(f, name, x).answered = Merged(EntriesOf(f, name, x)).answered
  BY <1>3 DEF AggregateItem, Labelled, WithLabel
<1>5. DOMAIN parts = DOMAIN others
  BY DEF PartsRise, WellParts
<1> HIDE DEF entries, better
<1>6. ASSUME NEW i \in DOMAIN parts
      PROVE  /\ Raised(entries[i].item, better[i].item)
             /\ entries[i].weight = better[i].weight
  <2>1. Raised(entries[i].item, better[i].item)
    BY <1>1, <1>2, <1>5 DEF PartsRise
  <2>2. \A role, item : Entry(role, f, name, item).weight = EntryWeight(role, f, name, item)
    BY DEF Entry
  <2>3. Cov(entries[i].item) = Cov(better[i].item)
    BY <2>1 DEF Cov, Raised, SameExtent
  <2>4. parts[i].role = others[i].role
    BY DEF PartsRise
  <2>5. EntryWeight(parts[i].role, f, name, entries[i].item)
          = EntryWeight(others[i].role, f, name, better[i].item)
    BY <2>3, <2>4 DEF EntryWeight
  <2>6. entries[i].weight = EntryWeight(parts[i].role, f, name, entries[i].item)
    BY <1>1, <2>2
  <2>7. better[i].weight = EntryWeight(others[i].role, f, name, better[i].item)
    BY <1>2, <1>5, <2>2
  <2> QED
    BY <2>1, <2>5, <2>6, <2>7
<1>7. EntriesRise(entries, better)
  BY <1>1, <1>2, <1>5, <1>6 DEF EntriesRise
<1>8. Merged(entries).answered = Merged(better).answered
  BY <1>7, AnsweredTogether
<1> QED
  BY <1>1, <1>2, <1>4, <1>7, <1>8, MeanScoreRises DEF Climbs, entries, better

\* And with the items the headline score, of one respondent or of several.
LEMMA HeadlineRises ==
  ASSUME NEW f \in FrameworkNames, NEW parts, NEW others, PartsRise(f, parts, others)
  PROVE  AtMost(Aggregate(parts)[f].composite, Aggregate(others)[f].composite)
<1>1. /\ DOMAIN parts = DOMAIN others /\ 1 \in DOMAIN parts
      /\ \A i \in DOMAIN parts : /\ WellResult(f, parts[i].result[f])
                                 /\ WellResult(f, others[i].result[f])
  BY DEF PartsRise, WellParts
<1>2. CASE Len(parts) = 1
  <2>1. Aggregate(parts) = parts[1].result /\ Aggregate(others) = others[1].result
    BY <1>2 DEF Aggregate, PartsRise
  <2>2. \A name \in NamesOf(f) :
          Climbs(parts[1].result[f].items[name], others[1].result[f].items[name])
    BY <1>1 DEF PartsRise, Raised, SameExtent, Climbs
  <2> QED
    BY <1>1, <2>1, <2>2, CompositeRises DEF WellResult
<1>3. CASE Len(parts) # 1
  <2> DEFINE a == AggregateResult(f, parts)
             b == AggregateResult(f, others)
  <2>1. Aggregate(parts)[f] = a /\ Aggregate(others)[f] = b
    BY <1>3 DEF Aggregate, PartsRise
  <2>2. /\ WellResult(f, a)
        /\ \A name \in NamesOf(f) : a.items[name] = AggregateItem(f, name, parts)
    BY AggregateResultIs DEF PartsRise
  <2>3. /\ WellResult(f, b)
        /\ \A name \in NamesOf(f) : b.items[name] = AggregateItem(f, name, others)
    BY AggregateResultIs DEF PartsRise
  <2> HIDE DEF a, b
  <2>4. \A name \in NamesOf(f) : Climbs(a.items[name], b.items[name])
    BY <2>2, <2>3, ItemRises
  <2> QED
    BY <2>1, <2>2, <2>3, <2>4, CompositeRises DEF WellResult
<1> QED
  BY <1>2, <1>3

\* A question is the only one of its id.
LEMMA QuestionsById == \A q \in Questions : QuestionOf(q.id) = q
<1>1. ASSUME NEW p \in Questions, NEW q \in Questions, p.id = q.id
      PROVE  p = q
  <2>1. PICK i \in DOMAIN Bank : p = Bank[i]
    BY QuestionsAssumption DEF Range, Bank
  <2>2. PICK j \in DOMAIN Bank : q = Bank[j]
    BY QuestionsAssumption DEF Range, Bank
  <2>3. i = j
    BY <1>1, <2>1, <2>2, BankFacts
  <2> QED
    BY <2>1, <2>2, <2>3
<1>2. ASSUME NEW q \in Questions
      PROVE  QuestionOf(q.id) = q
  <2>1. QuestionOf(q.id) \in Questions /\ QuestionOf(q.id).id = q.id
    BY DEF QuestionOf
  <2> QED
    BY <1>1, <2>1
<1> QED
  BY <1>2

\* No worse answers of the same respondents make no headline score fall.
LEMMA BetterReadings ==
  ASSUME NEW listed, NEW first, NEW second, Legal(listed, first), Legal(listed, second),
         SameQuestions(first, second), NoWorse(first, second), NEW f \in FrameworkNames,
         f = "v1_audit" => RiskAnswersStand(first, second)
  PROVE  AtMost(Aggregate(PartsOf(listed, first))[f].composite,
                Aggregate(PartsOf(listed, second))[f].composite)
<1> DEFINE parts == PartsOf(listed, first)
           others == PartsOf(listed, second)
<1>1. WellParts(parts) /\ WellParts(others)
  BY PartsAreWell
<1>2. /\ \A i \in DOMAIN first : /\ parts[i].role = RoleOf[listed[i]]
                                 /\ parts[i].result = RespondentResult(first[i])
      /\ \A i \in DOMAIN second : /\ others[i].role = RoleOf[listed[i]]
                                  /\ others[i].result = RespondentResult(second[i])
      /\ DOMAIN parts = DOMAIN first /\ DOMAIN others = DOMAIN second
  BY DEF PartsOf
<1> HIDE DEF parts, others
<1>3. DOMAIN parts = DOMAIN others /\ Len(parts) = Len(others)
  <2>1. DOMAIN parts = DOMAIN others
    BY <1>2 DEF SameQuestions
  <2>2. 1 .. Len(parts) = 1 .. Len(others) /\ Len(parts) \in Nat \ {0} /\ Len(others) \in Nat \ {0}
    BY <1>1, <2>1 DEF WellParts
  <2> QED
    BY <2>1, <2>2
<1>4. \A x, g : g \in FrameworkNames => RespondentResult(x)[g].items = ItemsOf(g, x)
  BY DEF RespondentResult, FrameworkResult, Result, Outcome
<1>5. ASSUME NEW i \in DOMAIN first
      PROVE  /\ Given(first[i]) /\ Given(second[i]) /\ Better(first[i], second[i])
             /\ f = "v1_audit" => RiskStands(first[i], second[i])
  <2>1. i \in DOMAIN second /\ DOMAIN first[i] = DOMAIN second[i]
    BY DEF SameQuestions
  <2>2. Given(first[i]) /\ Given(second[i])
    BY <2>1 DEF Legal
  <2>3. Better(first[i], second[i])
    BY <2>1, QuestionsById DEF NoWorse, ValueIn, Better
  <2>4. ASSUME f = "v1_audit"
        PROVE  RiskStands(first[i], second[i])
    BY <2>1, <2>4, QuestionsById DEF RiskAnswersStand, CountsForRisk, RiskStands, OfRisk
  <2> QED
    BY <2>2, <2>3, <2>4
<1>6. ASSUME NEW i \in DOMAIN parts
      PROVE  /\ parts[i].role = others[i].role
             /\ \A name \in NamesOf(f) :
                  Raised(parts[i].result[f].items[name], others[i].result[f].items[name])
  <2>1. i \in DOMAIN first /\ i \in DOMAIN second
    BY <1>2, <1>3
  <2>2. /\ parts[i].result[f].items = ItemsOf(f, first[i])
        /\ others[i].result[f].items = ItemsOf(f, second[i])
    BY <1>2, <1>4, <2>1
  <2>3. \A name \in NamesOf(f) : Raised(ItemsOf(f, first[i])[name], ItemsOf(f, second[i])[name])
    BY <1>5, <2>1, BetterItems
  <2> QED
    BY <1>2, <2>1, <2>2, <2>3
<1>7. PartsRise(f, parts, others)
  BY <1>1, <1>3, <1>6 DEF PartsRise
<1> QED
  BY <1>7, HeadlineRises DEF parts, others

\* When answers are changed for no worse ones and the report is made again, no headline
\* score falls, but the audit's may when answers that count for risk_exposure change.
THEOREM BetterAnswersNeverLower == Spec => BetterAnswersScoreBetter
<1>1. ASSUME ReportsAnswers, ReportsAnswers', IInv, Improves
      PROVE  /\ \A f \in FrameworkNames \ {"v1_audit"} : NoLower(f)
             /\ RiskAnswersStand(report.read, report'.read) => NoLower("v1_audit")
  <2>1. reports > 0 /\ reports' > 0
    BY <1>1 DEF Improves, IInv, RowsOK
  <2>2. /\ Legal(report.ids, report.read)
        /\ report.scores = Aggregate(PartsOf(report.ids, report.read))
    BY <1>1, <2>1 DEF ReportsAnswers
  <2>3. /\ Legal(report.ids, report'.read)
        /\ report'.scores = Aggregate(PartsOf(report.ids, report'.read))
    BY <1>1, <2>1 DEF ReportsAnswers, Improves
  <2>4. SameQuestions(report.read, report'.read) /\ NoWorse(report.read, report'.read)
    BY <1>1 DEF Improves
  <2>5. ASSUME NEW f \in FrameworkNames,
               f = "v1_audit" => RiskAnswersStand(report.read, report'.read)
        PROVE  NoLower(f)
    BY <2>2, <2>3, <2>4, <2>5, BetterReadings DEF NoLower
  <2> QED
    BY <2>5 DEF FrameworkNames
<1> DEFINE Rises == Improves =>
             /\ \A f \in FrameworkNames \ {"v1_audit"} : NoLower(f)
             /\ RiskAnswersStand(report.read, report'.read) => NoLower("v1_audit")
<1>2. ReportsAnswers /\ ReportsAnswers' /\ IInv /\ [Next]_vars => [Rises]_vars
  BY <1>1
<1>3. Spec => [][Rises]_vars
  <2> HIDE DEF Rises
  <2> QED
    BY <1>2, Invariance, ReportsAreOfAnswers, PTL DEF Spec
<1> QED
  BY <1>3 DEF BetterAnswersScoreBetter
=============================================================================
