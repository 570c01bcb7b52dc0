-------------------------- MODULE QuestionnaireProofs --------------------------
(***************************************************************************)
(* Proofs about Questionnaire, for any number of tabs, any role, audit and *)
(* slice of the banks, and any answers and edits.                          *)
(*                                                                         *)
(* Which questions a respondent may be asked at all is fixed (Askable);    *)
(* answers only hide some of those.  A tab comes to a question through the *)
(* questions before it (Reached), hence what a skip rule reads is answered *)
(* before the question is shown, and a question changes between shown and  *)
(* hidden after that only by an edit.                                      *)
(***************************************************************************)
EXTENDS Questionnaire, FiniteSetTheorems, TLAPS

-----------------------------------------------------------------------------
(***************************************************************************)
(* The bank.                                                               *)
(***************************************************************************)

\* The places that the audit and the role leave, before any answer.
Eligible == {i \in Places : Bank[i].active /\ Role \in Bank[i].roles}

\* ... and without those that a governance question of the respondent stands for.
StandsFor(i, j) ==
  \E pair \in OverlapTable : pair.security = Bank[i].id /\ pair.source = Bank[j].id

Askable ==
  {i \in Eligible : Instrument = "combined" => \A j \in Eligible : ~StandsFor(i, j)}

\* The bank is walked by its numbers, and it is made of the two audits.
LEMMA BankIsSequence ==
  /\ Len(Bank) \in Nat
  /\ DOMAIN Bank = 1 .. Len(Bank)
  /\ \A i \in DOMAIN Bank :
       \/ Instrument # "aiitsa" /\ Bank[i] \in ToSet(Tier1Questions)
       \/ Instrument # "tier_1" /\ Bank[i] \in ToSet(SecurityQuestions(Tier))
<1> DEFINE G == Tier1Questions
           S == SecurityQuestions(Tier)
           All2 == ToSet(G) \cup ToSet(S)
<1>1. G \in Seq(ToSet(G)) /\ S \in Seq(ToSet(S))
  BY BanksAreSequences, RespondentAssumption
<1>2. CASE Instrument = "tier_1"
  <2>1. Bank = G  BY <1>2 DEF Bank, BankFor
  <2> QED  BY <1>1, <1>2, <2>1
<1>3. CASE Instrument = "aiitsa"
  <2>1. Bank = S  BY <1>3 DEF Bank, BankFor
  <2> QED  BY <1>1, <1>3, <2>1
<1>4. CASE Instrument = "combined"
  <2>1. Bank = G \o S  BY <1>4 DEF Bank, BankFor
  <2> QED  BY <1>1, <1>4, <2>1
<1> QED  BY <1>2, <1>3, <1>4, RespondentAssumption DEF Instruments

\* An id is at one place.
LEMMA OnePlace ==
  ASSUME NEW i \in DOMAIN Bank, NEW j \in DOMAIN Bank, Bank[i].id = Bank[j].id
  PROVE  i = j
BY IdsAreUnique, RespondentAssumption DEF Bank

\* What a skip rule reads lies earlier in the slice, and is never skipped itself.
LEMMA RulesReadEarlier ==
  ASSUME NEW j \in Places, NEW c \in Bank[j].skip
  PROVE  \E i \in Places : i < j /\ Bank[i].id = c.on /\ Bank[i].skip = {}
<1>1. PICK i \in 1 .. (j - 1) : Bank[i].id = c.on /\ Bank[i].skip = {}
  BY RulesLookBack, RespondentAssumption DEF Bank, Places
<1>2. j \in 1 .. Len(Bank) /\ Len(Bank) \in Nat
  BY BankIsSequence DEF Places
<1>3. i \in DOMAIN Bank
  BY <1>1, <1>2, BankIsSequence
<1>4. c.on \in Slice
  BY SliceIsClosed
<1> QED  BY <1>1, <1>2, <1>3, <1>4 DEF Places

\* A governance question that stands for another is never skipped and not stood for.
LEMMA SourcesAreAsked ==
  ASSUME NEW i \in Eligible, NEW j \in Eligible, StandsFor(i, j), Instrument = "combined"
  PROVE  Bank[j].skip = {} /\ j \in Askable /\ Bank[j] \in ToSet(Tier1Questions)
<1>1. PICK pair \in OverlapTable : pair.security = Bank[i].id /\ pair.source = Bank[j].id
  BY DEF StandsFor
<1>2. j \in DOMAIN Bank
  BY DEF Eligible, Places
<1>3. Bank[j] \in ToSet(Tier1Questions)
  BY <1>1, <1>2, BankIsSequence, SecurityIsForAll, RespondentAssumption
<1>4. Bank[j].skip = {} /\ \A other \in OverlapTable : Bank[j].id # other.security
  BY <1>1, <1>3, SourcesTranslate
<1> QED  BY <1>3, <1>4 DEF Askable, StandsFor

\* The askable questions are visible, except for those that an answer hides.
LEMMA VisibleIs ==
  \A given : VisibleTo(Bank, Places, Instrument, Role, given) =
               {i \in Askable : ~Skipped(Bank[i], given)}
<1> SUFFICES ASSUME NEW given
             PROVE  VisibleTo(Bank, Places, Instrument, Role, given) =
                      {i \in Askable : ~Skipped(Bank[i], given)}
  OBVIOUS
<1> DEFINE shown == {i \in Eligible : ~Skipped(Bank[i], given)}
<1>1. FilterForSession(Bank, {i \in Places : Bank[i].active}, Role, given) = shown
  BY DEF FilterForSession, VisibleToRole, Eligible
<1>2. VisibleTo(Bank, Places, Instrument, Role, given) =
        IF Instrument # "combined" THEN shown
        ELSE {i \in shown : ~StoodFor(Bank[i], Bank, shown)}
  BY <1>1 DEF VisibleTo
<1>3. CASE Instrument # "combined"
  BY <1>2, <1>3 DEF Askable
<1>4. CASE Instrument = "combined"
  <2>1. ASSUME NEW i \in Eligible
        PROVE  StoodFor(Bank[i], Bank, shown) <=> \E j \in Eligible : StandsFor(i, j)
    <3>1. ASSUME StoodFor(Bank[i], Bank, shown)
          PROVE  \E j \in Eligible : StandsFor(i, j)
      BY <3>1 DEF StoodFor, StandsFor, Ids
    <3>2. ASSUME NEW j \in Eligible, StandsFor(i, j)
          PROVE  StoodFor(Bank[i], Bank, shown)
      <4>1. Bank[j].skip = {}
        BY <1>4, <3>2, SourcesAreAsked
      <4>2. j \in shown
        BY <4>1 DEF Skipped
      <4> QED  BY <3>2, <4>2 DEF StoodFor, StandsFor, Ids
    <3> QED  BY <3>1, <3>2
  <2> QED  BY <1>2, <1>4, <2>1 DEF Askable
<1> QED  BY <1>3, <1>4

\* Now, and after a step.
LEMMA VisibleNow ==
  /\ Visible = {i \in Askable : ~Skipped(Bank[i], answers)}
  /\ Visible' = {i \in Askable : ~Skipped(Bank[i], answers')}
BY VisibleIs DEF Visible

\* What hides a question, or shows it again, is a change of an answer its rule reads.
LEMMA OnlyItsRuleHides ==
  ASSUME NEW q, NEW before, NEW after, Skipped(q, before) # Skipped(q, after)
  PROVE  \E c \in q.skip :
           \/ c.on \in DOMAIN before /\ c.on \notin DOMAIN after
           \/ c.on \in DOMAIN after /\ c.on \notin DOMAIN before
           \/ /\ c.on \in DOMAIN before /\ c.on \in DOMAIN after
              /\ before[c.on] # after[c.on]
<1> SUFFICES ASSUME \A c \in q.skip :
                      /\ c.on \in DOMAIN before <=> c.on \in DOMAIN after
                      /\ c.on \in DOMAIN before => before[c.on] = after[c.on]
             PROVE  Skipped(q, before) <=> Skipped(q, after)
  BY DEF Skipped
<1>1. ASSUME NEW c \in q.skip
      PROVE  Evaluable(c, before) /\ ConditionMet(c, before) <=>
               Evaluable(c, after) /\ ConditionMet(c, after)
  BY DEF Evaluable, ConditionMet
<1> QED  BY <1>1 DEF Skipped

-----------------------------------------------------------------------------
(***************************************************************************)
(* The invariant: where the tabs can be.                                   *)
(***************************************************************************)
Answered(i) == Bank[i].id \in DOMAIN answers

\* A question that is answered, shown in a tab or the session's current one.
Touched(i) ==
  \/ Answered(i)
  \/ current = Bank[i].id
  \/ \E t \in Tabs : page[t].q = Bank[i].id

\* Everything before it that is never hidden is answered; and without edits, everything.
Reached(i) ==
  /\ \A h \in Askable : h < i /\ Bank[h].skip = {} => Answered(h)
  /\ edited = {} => \A h \in Visible : h < i => Answered(h)

TurnedByEdit(i) == \E c \in Bank[i].skip : c.on \in edited

OnlyAskableTouched ==
  /\ DOMAIN answers \subseteq Ids(Bank, Askable)
  /\ current \in Ids(Bank, Askable) \cup {NoQuestion}
  /\ \A t \in Tabs : page[t].q \in Ids(Bank, Askable) \cup {NoQuestion}

TouchedAreReached == \A i \in Askable : Touched(i) => Reached(i)

TouchedAreVisible ==
  \A i \in Askable : Touched(i) /\ Skipped(Bank[i], answers) => TurnedByEdit(i)

WalkInv == OnlyAskableTouched /\ TouchedAreReached /\ TouchedAreVisible

\* Where a step that saves no answer may take a tab: nowhere new, or to a visible
\* question that is reached.
Walks ==
  /\ UNCHANGED <<answers, edited>>
  /\ current' \in Ids(Bank, Askable) \cup {NoQuestion}
  /\ \A t \in Tabs : page'[t].q \in Ids(Bank, Askable) \cup {NoQuestion}
  /\ \A i \in Askable : Touched(i)' => Touched(i) \/ (i \in Visible /\ Reached(i))

\* An askable place is a place of the bank, and its id is nobody else's.
LEMMA AskableIds ==
  /\ Askable \subseteq Places /\ Places \subseteq DOMAIN Bank
  /\ \A i \in Places : Bank[i].id \in Slice /\ Bank[i].id # NoQuestion
  /\ \A i, j \in Places : Bank[i].id = Bank[j].id => i = j
  /\ Visible \subseteq Askable /\ Visible' \subseteq Askable
  /\ \A i \in Places : i \in Nat
<1>1. Askable \subseteq Places /\ Places \subseteq DOMAIN Bank
  BY DEF Askable, Eligible, Places
<1>2. \A i, j \in Places : Bank[i].id = Bank[j].id => i = j
  BY <1>1, OnePlace
<1> QED  BY <1>1, <1>2, SliceIsClosed, VisibleNow, BankIsSequence DEF Places

\* Whatever leaves the pages and the answers alone walks nowhere.
LEMMA StandingStill ==
  ASSUME OnlyAskableTouched, UNCHANGED <<answers, edited, current, page>>
  PROVE  Walks
BY DEF Walks, OnlyAskableTouched, Touched, Answered

\* A page without a question.
LEMMA LeavingThePage ==
  ASSUME OnlyAskableTouched, page \in [Tabs -> Pages], NEW t \in Tabs, NEW kind,
         page' = [page EXCEPT ![t] = Bare(kind)], UNCHANGED <<answers, edited, current>>
  PROVE  Walks
<1>1. \A u \in Tabs : page'[u] = IF u = t THEN Bare(kind) ELSE page[u]
  OBVIOUS
<1>2. \A i \in Askable : Bank[i].id # NoQuestion
  BY AskableIds
<1> QED  BY <1>1, <1>2 DEF Walks, OnlyAskableTouched, Touched, Answered, Bare

\* A page of a visible question that is reached, with the session's place or without.
LEMMA TurningThePage ==
  ASSUME OnlyAskableTouched, page \in [Tabs -> Pages], NEW t \in Tabs,
         NEW i \in Visible, Reached(i), NEW kind,
         page' = [page EXCEPT ![t] = [kind |-> kind, q |-> Bank[i].id]],
         current' \in {current, Bank[i].id}, UNCHANGED <<answers, edited>>
  PROVE  Walks
<1>1. \A u \in Tabs : page'[u].q = IF u = t THEN Bank[i].id ELSE page[u].q
  OBVIOUS
<1>2. i \in Askable /\ Bank[i].id \in Ids(Bank, Askable)
  BY AskableIds DEF Ids
<1>3. \A j \in Askable : Bank[j].id = Bank[i].id => j = i
  BY <1>2, AskableIds
<1> QED  BY <1>1, <1>2, <1>3 DEF Walks, OnlyAskableTouched, Touched, Answered

\* A question without an answer that comes first is reached.
LEMMA FirstIsReached ==
  ASSUME NEW i \in NextUnanswered(Bank, Visible, answers)
  PROVE  i \in Visible /\ Reached(i)
<1>1. i \in Visible /\ \A h \in Visible : h < i => Answered(h)
  BY DEF NextUnanswered, HasAnswer, Answered
<1>2. \A h \in Askable : Bank[h].skip = {} => h \in Visible
  BY VisibleNow DEF Skipped
<1> QED  BY <1>1, <1>2 DEF Reached

\* What comes before a reached question is reached.
LEMMA EarlierIsReached ==
  ASSUME NEW i \in Places, NEW j \in Places, i <= j, Reached(j)
  PROVE  Reached(i)
<1>1. i \in Nat /\ j \in Nat /\ \A h \in Places : h \in Nat
  BY AskableIds
<1>2. Askable \subseteq Places /\ Visible \subseteq Places
  BY AskableIds
<1> QED  BY <1>1, <1>2 DEF Reached

\* The furthest answer of all is one.
LEMMA LastIsAnswered ==
  ASSUME WalkInv, NEW last \in LastAnswered(Bank, Visible, answers)
  PROVE  last \in Visible /\ last \in Places /\ Reached(last)
BY AskableIds
   DEF LastAnswered, Furthest, AnsweredIn, HasAnswer, WalkInv, TouchedAreReached, Touched,
       Answered

\* Showing a visible, reached question walks.
LEMMA ShowWalks ==
  ASSUME WalkInv, page \in [Tabs -> Pages], NEW t \in Tabs, NEW i \in Visible, Reached(i),
         Show(t, i), UNCHANGED <<answers, edited>>
  PROVE  Walks
BY TurningThePage DEF Show, Form, WalkInv

\* The question that comes next, or a page without one.
LEMMA DispatchWalks ==
  ASSUME WalkInv, page \in [Tabs -> Pages], NEW t \in Tabs, Dispatch(t),
         UNCHANGED <<answers, edited>>
  PROVE  Walks
<1>1. ASSUME NEW i \in NextUnanswered(Bank, Visible, answers), Show(t, i)
      PROVE  Walks
  BY <1>1, FirstIsReached, ShowWalks
<1>2. ASSUME NEW kind, page' = [page EXCEPT ![t] = Bare(kind)], UNCHANGED current
      PROVE  Walks
  BY <1>2, LeavingThePage DEF WalkInv
<1> QED  BY <1>1, <1>2 DEF Dispatch

\* No button and no slider takes a tab beyond what is answered.
LEMMA BrowsingWalks ==
  ASSUME WalkInv, page \in [Tabs -> Pages], NEW t \in Tabs,
         ShowNext(t) \/ Forward(t) \/ Previous(t) \/ Jump(t) \/ Review(t) \/ Edit(t)
  PROVE  Walks
<1>1. UNCHANGED <<answers, edited>>
  BY DEF ShowNext, Forward, Previous, Jump, Review, Edit, Browses, server, history
<1>2. CASE ShowNext(t)
  BY <1>1, <1>2, DispatchWalks DEF ShowNext
<1>3. CASE Forward(t)
  <2>1. ASSUME NEW i \in NextUnanswered(Bank, Visible, answers), Show(t, i)
        PROVE  Walks
    BY <1>1, <2>1, FirstIsReached, ShowWalks
  <2>2. ASSUME NEW i \in CurrentPlace, NEW next \in First(After(i)),
               NEW last \in LastAnswered(Bank, Visible, answers), next <= last,
               Show(t, next)
        PROVE  Walks
    <3>1. next \in Visible /\ next \in Places
      BY AskableIds DEF First, After
    <3>2. Reached(next)
      BY <2>2, <3>1, LastIsAnswered, EarlierIsReached
    <3> QED  BY <1>1, <2>2, <3>1, <3>2, ShowWalks
  <2> QED  BY <1>3, <2>1, <2>2 DEF Forward
<1>4. CASE Previous(t)
  <2>1. ASSUME NEW i \in CurrentPlace, NEW previous \in Furthest(Before(i)),
               Show(t, previous)
        PROVE  Walks
    <3>1. previous \in Visible /\ previous \in Places /\ previous < i
      BY AskableIds DEF Furthest, Before
    <3>2. i \in Askable /\ i \in Places /\ Touched(i)
      BY AskableIds DEF CurrentPlace, Touched
    <3>3. Reached(i) /\ i \in Nat /\ previous \in Nat
      BY <3>1, <3>2, AskableIds DEF WalkInv, TouchedAreReached
    <3>4. Reached(previous)
      BY <3>1, <3>2, <3>3, EarlierIsReached
    <3> QED  BY <1>1, <2>1, <3>1, <3>4, ShowWalks
  <2>2. ASSUME NEW last \in LastAnswered(Bank, Visible, answers), Show(t, last)
        PROVE  Walks
    BY <1>1, <2>2, LastIsAnswered, ShowWalks
  <2> QED  BY <1>4, <2>1, <2>2 DEF Previous
<1>5. CASE Jump(t)
  <2>1. PICK last \in LastAnswered(Bank, Visible, answers) :
               \E i \in Visible : i <= last /\ Show(t, i)
    BY <1>5 DEF Jump
  <2>2. PICK i \in Visible : i <= last /\ Show(t, i)
    BY <2>1
  <2>3. Reached(i)
    BY <2>2, LastIsAnswered, EarlierIsReached, AskableIds
  <2> QED  BY <1>1, <2>2, <2>3, ShowWalks
<1>6. CASE Review(t)
  BY <1>1, <1>6, LeavingThePage DEF Review, WalkInv
<1>7. CASE Edit(t)
  <2>1. PICK id \in DOMAIN answers : page' = [page EXCEPT ![t] = EditForm(id)]
    BY <1>7 DEF Edit
  <2>2. PICK i \in Askable : Bank[i].id = id
    BY DEF WalkInv, OnlyAskableTouched, Ids
  <2>3. UNCHANGED current
    BY <1>7 DEF Edit
  <2>4. \A u \in Tabs : page'[u].q = IF u = t THEN id ELSE page[u].q
    BY <2>1 DEF EditForm
  <2>5. \A j \in Askable : Bank[j].id = id => Touched(j)
    BY DEF Touched, Answered
  <2> QED
    BY <1>1, <2>2, <2>3, <2>4, <2>5
       DEF Walks, WalkInv, OnlyAskableTouched, Touched, Answered, Ids
<1> QED  BY <1>2, <1>3, <1>4, <1>5, <1>6, <1>7

\* A walk keeps the invariant.
LEMMA WalkingKeepsTheWalk ==
  ASSUME WalkInv, Walks
  PROVE  WalkInv'
<1>1. answers' = answers /\ edited' = edited /\ Visible' = Visible
  BY VisibleNow DEF Walks
<1>2. \A i \in Askable : Reached(i)' <=> Reached(i)
  BY <1>1 DEF Reached, Answered
<1>3. OnlyAskableTouched'
  BY <1>1 DEF Walks, WalkInv, OnlyAskableTouched
<1>4. TouchedAreReached'
  BY <1>2 DEF Walks, WalkInv, TouchedAreReached
<1>5. TouchedAreVisible'
  <2> SUFFICES ASSUME NEW i \in Askable, Touched(i)', Skipped(Bank[i], answers')
               PROVE  TurnedByEdit(i)'
    BY DEF TouchedAreVisible
  <2>1. Skipped(Bank[i], answers) /\ i \notin Visible
    BY <1>1, VisibleNow
  <2>2. Touched(i)
    BY <2>1 DEF Walks
  <2> QED  BY <1>1, <2>1, <2>2 DEF WalkInv, TouchedAreVisible, TurnedByEdit
<1> QED  BY <1>3, <1>4, <1>5 DEF WalkInv

\* A tab that saves has the form of an askable question.
LEMMA SaverHasForm ==
  ASSUME TypeOK, WalkInv, NEW t \in Tabs, pc[t] # "idle"
  PROVE  /\ page[t].kind \in Forms /\ page[t].q \in Slice
         /\ \E i \in Askable : Bank[i].id = page[t].q /\ Touched(i)
<1>1. page[t].kind \in Forms /\ page[t] \in Pages
  BY DEF TypeOK
<1>2. page[t].q \in Slice
  BY <1>1 DEF Pages, Forms
<1>3. page[t].q # NoQuestion
  BY <1>2, SliceIsClosed
<1>4. page[t].q \in Ids(Bank, Askable)
  BY <1>3 DEF WalkInv, OnlyAskableTouched
<1> QED  BY <1>1, <1>2, <1>4 DEF Ids, Touched

\* What save_response leaves in the table.
LEMMA SavedAnswers ==
  ASSUME NEW t \in Tabs, Save(t)
  PROVE  /\ DOMAIN answers' = DOMAIN answers \cup {page[t].q}
         /\ answers'[page[t].q] = pending[t]
         /\ \A id \in DOMAIN answers : id # page[t].q => answers'[id] = answers[id]
         /\ edited \subseteq edited'
         /\ page[t].q \in DOMAIN answers /\ answers[page[t].q] # pending[t]
              => page[t].q \in edited'
         /\ page' = page /\ current' = current
BY DEF Save, WithAnswer

\* A new answer hides nothing that has been shown; a changed one is an edit.
LEMMA SavingTurns ==
  ASSUME TypeOK, WalkInv, NEW t \in Tabs, Save(t), NEW i \in Askable,
         Skipped(Bank[i], answers) # Skipped(Bank[i], answers')
  PROVE  \/ TurnedByEdit(i)'
         \/ /\ ~Touched(i) /\ Skipped(Bank[i], answers')
            /\ \E c \in Bank[i].skip : c.on = page[t].q /\ c.on \notin DOMAIN answers
<1>1. PICK c \in Bank[i].skip :
        \/ c.on \in DOMAIN answers /\ c.on \notin DOMAIN answers'
        \/ c.on \in DOMAIN answers' /\ c.on \notin DOMAIN answers
        \/ /\ c.on \in DOMAIN answers /\ c.on \in DOMAIN answers'
           /\ answers[c.on] # answers'[c.on]
  BY OnlyItsRuleHides
<1>2. c.on = page[t].q
  BY <1>1, SavedAnswers
<1>3. CASE c.on \in DOMAIN answers
  <2>1. c.on \in DOMAIN answers' /\ answers[c.on] # answers'[c.on]
    BY <1>1, <1>3, SavedAnswers
  <2>2. c.on \in edited'
    BY <1>2, <1>3, <2>1, SavedAnswers
  <2> QED  BY <2>2 DEF TurnedByEdit
<1>4. CASE c.on \notin DOMAIN answers
  <2>1. PICK h \in Places : h < i /\ Bank[h].id = c.on /\ Bank[h].skip = {}
    BY RulesReadEarlier, AskableIds
  <2>2. h \in Askable
    <3>1. PICK k \in Askable : Bank[k].id = page[t].q
      BY SaverHasForm DEF Save, Steps
    <3> QED  BY <1>2, <2>1, <3>1, AskableIds
  <2>3. ~Touched(i)
    BY <1>4, <2>1, <2>2 DEF WalkInv, TouchedAreReached, Reached, Answered
  <2>4. ASSUME ~Skipped(Bank[i], answers'), ~TurnedByEdit(i)'
        PROVE  FALSE
    <3>1. PICK d \in Bank[i].skip : Evaluable(d, answers) /\ ConditionMet(d, answers)
      BY <2>4 DEF Skipped
    <3>2. d.on \in DOMAIN answers /\ d.on # page[t].q
      BY <1>2, <1>4, <3>1 DEF Evaluable
    <3>3. Evaluable(d, answers') /\ ConditionMet(d, answers')
      BY <3>1, <3>2, SavedAnswers DEF Evaluable, ConditionMet
    <3> QED  BY <2>4, <3>3 DEF Skipped
  <2> QED  BY <1>2, <1>4, <2>3, <2>4
<1> QED  BY <1>3, <1>4

\* Saving an answer keeps the invariant.
LEMMA SavingKeepsTheWalk ==
  ASSUME TypeOK, WalkInv, NEW t \in Tabs, Save(t)
  PROVE  WalkInv'
<1>1. PICK k \in Askable : Bank[k].id = page[t].q /\ Touched(k)
  BY SaverHasForm DEF Save, Steps
<1>2. \A i \in Askable : Touched(i)' => Touched(i)
  <2>1. page' = page /\ current' = current /\ DOMAIN answers' = DOMAIN answers \cup {page[t].q}
    BY SavedAnswers
  <2> QED  BY <2>1 DEF Touched, Answered
<1>3. \A i \in Askable : Answered(i) => Answered(i)'
  BY SavedAnswers DEF Answered
<1>4. OnlyAskableTouched'
  BY <1>1, SavedAnswers DEF WalkInv, OnlyAskableTouched, Ids
<1>5. edited' = {} => Visible' \subseteq Visible
  <2> SUFFICES ASSUME edited' = {}, NEW i \in Askable, Skipped(Bank[i], answers)
               PROVE  Skipped(Bank[i], answers')
    BY VisibleNow
  <2> QED  BY SavingTurns DEF TurnedByEdit
<1>6. TouchedAreReached'
  <2> SUFFICES ASSUME NEW i \in Askable, Touched(i)'
               PROVE  Reached(i)'
    BY DEF TouchedAreReached
  <2>1. Reached(i)
    BY <1>2 DEF WalkInv, TouchedAreReached
  <2>2. edited' = {} => edited = {}
    BY SavedAnswers
  <2>3. \A h \in Askable : h < i /\ Bank[h].skip = {} => Answered(h)'
    BY <1>3, <2>1 DEF Reached
  <2>4. edited' = {} => \A h \in Visible' : h < i => Answered(h)'
    BY <1>3, <1>5, <2>1, <2>2, AskableIds DEF Reached
  <2> QED  BY <2>3, <2>4 DEF Reached
<1>7. TouchedAreVisible'
  <2> SUFFICES ASSUME NEW i \in Askable, Touched(i)', Skipped(Bank[i], answers')
               PROVE  TurnedByEdit(i)'
    BY DEF TouchedAreVisible
  <2>1. Touched(i)
    BY <1>2
  <2>2. CASE Skipped(Bank[i], answers)
    BY <2>1, <2>2, SavedAnswers DEF WalkInv, TouchedAreVisible, TurnedByEdit
  <2>3. CASE ~Skipped(Bank[i], answers)
    BY <2>1, <2>3, SavingTurns
  <2> QED  BY <2>2, <2>3
<1> QED  BY <1>4, <1>6, <1>7 DEF WalkInv

-----------------------------------------------------------------------------
(***************************************************************************)
(* The invariant: what is counted, and who completes.                      *)
(***************************************************************************)

\* What is answered of what is shown is a part of it.
LEMMA CountedIsProgress == Counted \in Progress /\ Counted.done <= Counted.total
<1>1. IsFiniteSet(Visible)
  <2>1. Visible \subseteq 1 .. Len(Bank) /\ Len(Bank) \in Nat
    BY AskableIds, BankIsSequence
  <2>2. 1 \in Int /\ Len(Bank) \in Int
    BY <2>1
  <2>3. IsFiniteSet(1 .. Len(Bank))
    BY <2>2, FS_Interval
  <2> QED  BY <2>1, <2>3, FS_Subset
<1>2. /\ Cardinality(Visible) \in Nat
      /\ Done(Bank, Visible, answers) \in Nat
      /\ Done(Bank, Visible, answers) <= Cardinality(Visible)
  <2>1. AnsweredIn(Bank, Visible, answers) \subseteq Visible
    BY DEF AnsweredIn
  <2> QED  BY <1>1, <2>1, FS_Subset, FS_CardinalityType DEF Done
<1>3. ASSUME NEW n \in Nat
      PROVE  Max({1, n}) \in Nat \ {0} /\ n <= Max({1, n})
  <2>1. \E x \in {1, n} : \A y \in {1, n} : x >= y
    <3>1. CASE n = 0
      BY <3>1
    <3>2. CASE n # 0
      <4>1. n >= 1 /\ n >= n
        BY <3>2
      <4> QED  BY <4>1
    <3> QED  BY <3>1, <3>2
  <2> DEFINE m == CHOOSE x \in {1, n} : \A y \in {1, n} : x >= y
  <2>2. m \in {1, n} /\ \A y \in {1, n} : m >= y
    BY <2>1
  <2> QED  BY <2>2 DEF Max
<1> QED  BY <1>2, <1>3 DEF Counted, Progress

\* What is counted depends on the answers alone.
LEMMA SameAnswers ==
  ASSUME answers' = answers
  PROVE  Visible' = Visible /\ Counted' = Counted /\ (AllAnswered' <=> AllAnswered)
<1>1. Visible' = Visible
  BY VisibleNow
<1> QED  BY <1>1 DEF Counted, Done, AnsweredIn, HasAnswer, AllAnswered, IsComplete

\* A submit that may have answered the last question is on its way to notice.
FinishIsNoticed ==
  DOMAIN answers # {} /\ AllAnswered /\ status # "completed"
    => \E t \in Tabs : pc[t] \in {"count", "record", "check", "mark"}

\* Who is completed, or about to be, owes only what an edit has reopened.
OnlyEditsReopen ==
  status = "completed" \/ (\E t \in Tabs : pc[t] = "mark")
    => \A i \in Visible : ~Answered(i) => TurnedByEdit(i)

\* Where the latest submit began alone, it is the only one in flight and writes what it
\* has counted; and what is written stands, unless that is what has failed.
OneWriter ==
  ~overlapped =>
    /\ \A t, u \in Tabs : ~Idle(t) /\ ~Idle(u) => t = u
    /\ \A t \in Tabs : pc[t] = "record" => seen[t] = Counted
    /\ DOMAIN answers # {} /\ ~unrecorded
       /\ (\A t \in Tabs : pc[t] \notin {"save", "count", "record"})
         => progress = Counted

IInv == TypeOK /\ WalkInv /\ FinishIsNoticed /\ OnlyEditsReopen /\ OneWriter

\* The first state.
LEMMA InitEstablishesIInv == Init => IInv
<1> SUFFICES ASSUME Init
             PROVE  IInv
  OBVIOUS
<1>1. DOMAIN answers = {} /\ current = NoQuestion
      /\ \A t \in Tabs : page[t] = Bare("none") /\ pc[t] = "idle"
  BY DEF Init
<1>2. TypeOK
  <2>1. Unread \in Progress /\ Unread.done <= Unread.total
    BY DEF Unread, Progress
  <2>2. seen \in [Tabs -> Progress] /\ \A t \in Tabs : seen[t].done <= seen[t].total
    BY <2>1 DEF Init
  <2>3. page \in [Tabs -> Pages]
    BY DEF Init, Pages, Bare
  <2>4. edits \in 0 .. MaxEdits
    BY BoundAssumption DEF Init
  <2> QED  BY <1>1, <2>1, <2>2, <2>3, <2>4 DEF Init, TypeOK
<1>3. WalkInv
  <2>1. \A i \in Askable : ~Touched(i)
    BY <1>1, AskableIds DEF Touched, Answered, Bare
  <2> QED
    BY <1>1, <2>1 DEF WalkInv, OnlyAskableTouched, TouchedAreReached, TouchedAreVisible, Bare
<1>4. FinishIsNoticed /\ OnlyEditsReopen /\ OneWriter
  <2>1. status # "completed" /\ \A t \in Tabs : pc[t] = "idle"
    BY DEF Init
  <2> QED  BY <1>1, <2>1 DEF FinishIsNoticed, OnlyEditsReopen, OneWriter, Idle
<1> QED  BY <1>2, <1>3, <1>4 DEF IInv

\* Steps that touch neither the answers nor a submit.
LEMMA OutsideSubmits ==
  ASSUME FinishIsNoticed, OnlyEditsReopen, OneWriter,
         UNCHANGED <<answers, edited, status, progress, pc, seen, overlapped, unrecorded>>
  PROVE  FinishIsNoticed' /\ OnlyEditsReopen' /\ OneWriter'
<1>1. Visible' = Visible /\ Counted' = Counted /\ (AllAnswered' <=> AllAnswered)
  BY SameAnswers
<1> QED
  BY <1>1 DEF FinishIsNoticed, OnlyEditsReopen, OneWriter, Answered, TurnedByEdit, Idle

\* A page of the slice.
LEMMA FormsArePages ==
  /\ \A i \in Places : \A kind \in Forms : [kind |-> kind, q |-> Bank[i].id] \in Pages
  /\ \A kind \in {"none", "complete", "review", "locked"} : Bare(kind) \in Pages
BY AskableIds DEF Pages, Bare, Forms

\* A step that turns the page of one tab, within the types.
TurnsOnly(t) ==
  /\ page' \in [Tabs -> Pages]
  /\ current' \in Slice \cup {NoQuestion}
  /\ \A u \in Tabs \ {t} : page'[u] = page[u]

\* Going on to the next question keeps the types.
LEMMA DispatchKeepsTypes ==
  ASSUME TypeOK, WalkInv, NEW t \in Tabs, Dispatch(t)
  PROVE  TurnsOnly(t)
<1>1. ASSUME NEW i \in Places, Show(t, i)
      PROVE  TurnsOnly(t)
  BY <1>1, FormsArePages, AskableIds DEF Show, Form, Forms, TypeOK, TurnsOnly
<1>2. ASSUME NEW kind \in {"complete", "locked"}, page' = [page EXCEPT ![t] = Bare(kind)],
             UNCHANGED current
      PROVE  TurnsOnly(t)
  BY <1>2, FormsArePages DEF TypeOK, TurnsOnly
<1> QED  BY <1>1, <1>2, FirstIsReached, AskableIds DEF Dispatch

\* A request that only reads.
LEMMA BrowsingKeepsIInv ==
  ASSUME IInv, NEW t \in Tabs,
         ShowNext(t) \/ Forward(t) \/ Previous(t) \/ Jump(t) \/ Review(t) \/ Edit(t)
  PROVE  IInv'
<1>1. Browses(t)
  BY DEF ShowNext, Forward, Previous, Jump, Review, Edit
<1>2. WalkInv'
  BY BrowsingWalks, WalkingKeepsTheWalk DEF IInv, TypeOK
<1>3. TurnsOnly(t)
  <2>1. ASSUME NEW i \in Places, Show(t, i)
        PROVE  TurnsOnly(t)
    BY <2>1, FormsArePages, AskableIds DEF Show, Form, Forms, TypeOK, IInv, TurnsOnly
  <2>2. CASE ShowNext(t)
    BY <2>2, DispatchKeepsTypes DEF ShowNext, IInv
  <2>3. CASE Forward(t)
    BY <2>1, <2>3, FirstIsReached, AskableIds DEF Forward, First, After
  <2>4. CASE Previous(t)
    BY <2>1, <2>4, LastIsAnswered, AskableIds DEF Previous, Furthest, Before, IInv
  <2>5. CASE Jump(t)
    BY <2>1, <2>5, AskableIds DEF Jump
  <2>6. CASE Review(t)
    BY <2>6, FormsArePages DEF Review, IInv, TypeOK, TurnsOnly
  <2>7. CASE Edit(t)
    <3>1. PICK id \in DOMAIN answers : page' = [page EXCEPT ![t] = EditForm(id)]
      BY <2>7 DEF Edit
    <3>2. EditForm(id) \in Pages
      BY DEF IInv, TypeOK, EditForm, Pages, Forms
    <3> QED  BY <2>7, <3>1, <3>2 DEF Edit, IInv, TypeOK, TurnsOnly
  <2> QED  BY <2>2, <2>3, <2>4, <2>5, <2>6, <2>7
<1>4. TypeOK'
  BY <1>1, <1>3 DEF TurnsOnly, IInv, TypeOK, Browses, Idle, server, history
<1>5. FinishIsNoticed' /\ OnlyEditsReopen' /\ OneWriter'
  BY <1>1, OutsideSubmits DEF IInv, Browses, server, history
<1> QED  BY <1>2, <1>4, <1>5 DEF IInv

\* A submit begins: another one may be in flight, and then they overlap.
LEMMA PostKeepsIInv ==
  ASSUME IInv, NEW t \in Tabs, Post(t)
  PROVE  IInv'
<1>1. UNCHANGED <<server, current, page, seen, edited, unrecorded>> /\ pc[t] = "idle"
      /\ pc' = [pc EXCEPT ![t] = "save"]
  BY DEF Post, Steps
<1>2. answers' = answers /\ edited' = edited /\ status' = status /\ progress' = progress
  BY <1>1 DEF server
<1>3. WalkInv'
  BY <1>1, <1>2, StandingStill, WalkingKeepsTheWalk DEF IInv, WalkInv
<1>4. \A u \in Tabs : pc'[u] = IF u = t THEN "save" ELSE pc[u]
  BY <1>1 DEF IInv, TypeOK
<1>5. TypeOK'
  <2>1. PICK selection \in Selections[page[t].q] :
               pending' = [pending EXCEPT ![t] = selection]
    BY DEF Post
  <2>2. edits' \in 0 .. MaxEdits
    BY BoundAssumption DEF Post, IInv, TypeOK
  <2>3. overlapped' \in BOOLEAN
    BY DEF Post
  <2>4. page[t].kind \in Forms
    BY DEF Post
  <2>5. \A u \in Tabs : pc'[u] = "save" => pending'[u] \in Selections[page[u].q]
    BY <1>4, <2>1 DEF IInv, TypeOK
  <2> QED
    BY <1>1, <1>2, <1>4, <2>1, <2>2, <2>3, <2>4, <2>5 DEF IInv, TypeOK, server
<1>6. Visible' = Visible /\ Counted' = Counted /\ (AllAnswered' <=> AllAnswered)
  BY <1>2, SameAnswers
<1>7. FinishIsNoticed'
  BY <1>1, <1>2, <1>4, <1>6 DEF IInv, FinishIsNoticed
<1>8. OnlyEditsReopen'
  BY <1>1, <1>2, <1>4, <1>6 DEF IInv, OnlyEditsReopen, Answered, TurnedByEdit
<1>9. OneWriter'
  <2> SUFFICES ASSUME ~overlapped'
               PROVE  OneWriter'
    BY DEF OneWriter
  <2>1. \A u \in Tabs \ {t} : pc[u] = "idle"
    BY DEF Post, Idle
  <2> QED  BY <1>1, <1>2, <1>4, <1>6, <2>1 DEF IInv, OneWriter, Idle
<1> QED  BY <1>3, <1>5, <1>7, <1>8, <1>9 DEF IInv

\* The answer is stored; what is complete now is noticed by this submit.
LEMMA SaveKeepsIInv ==
  ASSUME IInv, NEW t \in Tabs, Save(t)
  PROVE  IInv'
<1>1. UNCHANGED <<progress, status, locked, current, page, seen, edits, overlapped,
                    unrecorded>>
      /\ pc[t] = "save" /\ pc' = [pc EXCEPT ![t] = "count"]
      /\ pending' = [pending EXCEPT ![t] = {}]
  BY DEF Save, Steps
<1>2. WalkInv'
  BY SavingKeepsTheWalk DEF IInv
<1>3. \A u \in Tabs : pc'[u] = IF u = t THEN "count" ELSE pc[u]
  BY <1>1 DEF IInv, TypeOK
<1>4. TypeOK'
  <2>1. page[t].q \in Slice /\ pending[t] \in Selections[page[t].q]
    BY <1>1, SaverHasForm DEF IInv, TypeOK
  <2> DEFINE q == page[t].q
  <2>6. /\ DOMAIN answers' = DOMAIN answers \cup {q} /\ answers'[q] = pending[t]
        /\ \A id \in DOMAIN answers : id # q => answers'[id] = answers[id]
    BY SavedAnswers
  <2>2. DOMAIN answers' \subseteq Slice
    BY <2>1, <2>6 DEF IInv, TypeOK
  <2>3. \A id \in DOMAIN answers' : answers'[id] \in Selections[id]
    BY <2>1, <2>6 DEF IInv, TypeOK
  <2>4. edited' \subseteq Slice
    BY <2>1 DEF Save, IInv, TypeOK
  <2>5. \A u \in Tabs : pc'[u] = "save" => pending'[u] \in Selections[page[u].q]
    BY <1>1, <1>3 DEF IInv, TypeOK
  <2> QED  BY <1>1, <1>3, <2>2, <2>3, <2>4, <2>5 DEF IInv, TypeOK
<1>5. FinishIsNoticed'
  BY <1>3 DEF FinishIsNoticed
<1>6. OnlyEditsReopen'
  <2> SUFFICES ASSUME status' = "completed" \/ \E u \in Tabs : pc'[u] = "mark",
                      NEW i \in Visible', ~Answered(i)'
               PROVE  TurnedByEdit(i)'
    BY DEF OnlyEditsReopen
  <2>1. status = "completed" \/ \E u \in Tabs : pc[u] = "mark"
    BY <1>1, <1>3
  <2>2. ~Answered(i)
    BY SavedAnswers DEF Answered
  <2>3. CASE i \in Visible
    BY <2>1, <2>2, <2>3, SavedAnswers DEF IInv, OnlyEditsReopen, TurnedByEdit
  <2>4. CASE i \notin Visible
    <3>1. i \in Askable /\ Skipped(Bank[i], answers) /\ ~Skipped(Bank[i], answers')
      BY <2>4, VisibleNow
    <3> QED  BY <3>1, SavingTurns DEF IInv
  <2> QED  BY <2>3, <2>4
<1>7. OneWriter'
  BY <1>1, <1>3 DEF IInv, OneWriter, Idle
<1> QED  BY <1>2, <1>4, <1>5, <1>6, <1>7 DEF IInv

\* The steps of a submit after its answer is stored leave the answers and the pages.
LEMMA CountKeepsIInv ==
  ASSUME IInv, NEW t \in Tabs, Count(t)
  PROVE  IInv'
<1>1. UNCHANGED <<server, current, page, pending, history>> /\ pc[t] = "count"
      /\ pc' = [pc EXCEPT ![t] = "record"] /\ seen' = [seen EXCEPT ![t] = Counted]
  BY DEF Count, Steps
<1>2. UNCHANGED <<answers, progress, status, locked, edits, edited, overlapped,
                   unrecorded>>
  BY <1>1 DEF server, history
<1>3. WalkInv'
  BY <1>1, <1>2, StandingStill, WalkingKeepsTheWalk DEF IInv, WalkInv
<1>4. \A u \in Tabs : pc'[u] = IF u = t THEN "record" ELSE pc[u]
  BY <1>1 DEF IInv, TypeOK
<1>5. \A u \in Tabs : seen'[u] = IF u = t THEN Counted ELSE seen[u]
  BY <1>1 DEF IInv, TypeOK
<1>6. TypeOK'
  BY <1>1, <1>2, <1>4, <1>5, CountedIsProgress DEF IInv, TypeOK
<1>7. Visible' = Visible /\ Counted' = Counted /\ (AllAnswered' <=> AllAnswered)
  BY <1>2, SameAnswers
<1>8. FinishIsNoticed'
  BY <1>2, <1>4, <1>7 DEF IInv, FinishIsNoticed
<1>9. OnlyEditsReopen'
  BY <1>2, <1>4, <1>7 DEF IInv, OnlyEditsReopen, Answered, TurnedByEdit
<1>10. OneWriter'
  BY <1>1, <1>2, <1>4, <1>5, <1>7 DEF IInv, OneWriter, Idle
<1> QED  BY <1>3, <1>6, <1>8, <1>9, <1>10 DEF IInv

\* The figure is written.
LEMMA RecordKeepsIInv ==
  ASSUME IInv, NEW t \in Tabs, Record(t)
  PROVE  IInv'
<1>1. /\ UNCHANGED <<answers, locked, current, page, pending>> /\ pc[t] = "record"
      /\ pc' = [pc EXCEPT ![t] = "check"] /\ seen' = [seen EXCEPT ![t] = Unread]
      /\ progress' = seen[t] /\ unrecorded' = FALSE
  BY DEF Record, Steps
<1>2. UNCHANGED <<edits, edited, overlapped>>
  BY DEF Record
<1>3. status' = "completed" <=> status = "completed"
  BY DEF Record
<1>4. WalkInv'
  BY <1>1, <1>2, StandingStill, WalkingKeepsTheWalk DEF IInv, WalkInv
<1>5. \A u \in Tabs : pc'[u] = IF u = t THEN "check" ELSE pc[u]
  BY <1>1 DEF IInv, TypeOK
<1>6. \A u \in Tabs : seen'[u] = IF u = t THEN Unread ELSE seen[u]
  BY <1>1 DEF IInv, TypeOK
<1>7. TypeOK'
  <2>1. Unread \in Progress /\ Unread.done <= Unread.total
    BY DEF Unread, Progress
  <2>2. seen[t] \in Progress /\ seen[t].done <= seen[t].total
    BY DEF IInv, TypeOK
  <2>3. status' \in {"invited", "in_progress", "completed"}
    BY DEF Record, IInv, TypeOK
  <2> QED  BY <1>1, <1>2, <1>5, <1>6, <2>1, <2>2, <2>3 DEF IInv, TypeOK
<1>8. Visible' = Visible /\ Counted' = Counted /\ (AllAnswered' <=> AllAnswered)
  BY <1>1, SameAnswers
<1>9. FinishIsNoticed'
  BY <1>1, <1>3, <1>5, <1>8 DEF IInv, FinishIsNoticed
<1>10. OnlyEditsReopen'
  BY <1>1, <1>2, <1>3, <1>5, <1>8 DEF IInv, OnlyEditsReopen, Answered, TurnedByEdit
<1>11. OneWriter'
  <2> SUFFICES ASSUME ~overlapped'
               PROVE  OneWriter'
    BY DEF OneWriter
  <2>1. \A u \in Tabs \ {t} : pc[u] = "idle"
    BY <1>1, <1>2 DEF IInv, OneWriter, Idle
  <2>2. progress' = Counted'
    BY <1>1, <1>2, <1>8 DEF IInv, OneWriter
  <2> QED  BY <1>5, <2>1, <2>2 DEF OneWriter, Idle
<1> QED  BY <1>4, <1>7, <1>9, <1>10, <1>11 DEF IInv

\* The figure is not written, and the submit goes on.
LEMMA ProgressFailsKeepsIInv ==
  ASSUME IInv, NEW t \in Tabs, ProgressFails(t)
  PROVE  IInv'
<1>1. /\ UNCHANGED <<server, current, page, pending, edits, edited, overlapped>>
      /\ pc[t] \in {"count", "record"} /\ pc' = [pc EXCEPT ![t] = "check"]
      /\ seen' = [seen EXCEPT ![t] = Unread] /\ unrecorded' = TRUE
  BY DEF ProgressFails
<1>2. UNCHANGED <<answers, progress, status, locked>>
  BY <1>1 DEF server
<1>3. WalkInv'
  BY <1>1, <1>2, StandingStill, WalkingKeepsTheWalk DEF IInv, WalkInv
<1>4. \A u \in Tabs : pc'[u] = IF u = t THEN "check" ELSE pc[u]
  BY <1>1 DEF IInv, TypeOK
<1>5. \A u \in Tabs : seen'[u] = IF u = t THEN Unread ELSE seen[u]
  BY <1>1 DEF IInv, TypeOK
<1>6. TypeOK'
  <2>1. Unread \in Progress /\ Unread.done <= Unread.total
    BY DEF Unread, Progress
  <2>2. page[t].kind \in Forms
    BY <1>1 DEF IInv, TypeOK
  <2> QED  BY <1>1, <1>2, <1>4, <1>5, <2>1, <2>2 DEF IInv, TypeOK
<1>7. Visible' = Visible /\ Counted' = Counted /\ (AllAnswered' <=> AllAnswered)
  BY <1>2, SameAnswers
<1>8. FinishIsNoticed'
  BY <1>2, <1>4, <1>7 DEF IInv, FinishIsNoticed
<1>9. OnlyEditsReopen'
  BY <1>1, <1>2, <1>4, <1>7 DEF IInv, OnlyEditsReopen, Answered, TurnedByEdit
<1>10. OneWriter'
  <2> SUFFICES ASSUME ~overlapped'
               PROVE  OneWriter'
    BY DEF OneWriter
  <2>1. \A u \in Tabs \ {t} : pc[u] = "idle"
    BY <1>1 DEF IInv, OneWriter, Idle
  <2> QED  BY <1>1, <1>4, <2>1 DEF OneWriter, Idle
<1> QED  BY <1>3, <1>6, <1>8, <1>9, <1>10 DEF IInv

\* Complete or not is decided by what is answered then.
LEMMA CheckNextKeepsIInv ==
  ASSUME IInv, NEW t \in Tabs, CheckNext(t)
  PROVE  IInv'
<1> DEFINE to == IF AllAnswered THEN "mark" ELSE "reply"
<1>1. UNCHANGED <<server, current, page, pending, seen, history>> /\ pc[t] = "check"
      /\ pc' = [pc EXCEPT ![t] = to]
  BY DEF CheckNext, Steps
<1>2. UNCHANGED <<answers, progress, status, locked, edits, edited, overlapped,
                   unrecorded>>
  BY <1>1 DEF server, history
<1>3. WalkInv'
  BY <1>1, <1>2, StandingStill, WalkingKeepsTheWalk DEF IInv, WalkInv
<1>4. \A u \in Tabs : pc'[u] = IF u = t THEN to ELSE pc[u]
  BY <1>1 DEF IInv, TypeOK
<1>5. TypeOK'
  BY <1>1, <1>2, <1>4 DEF IInv, TypeOK
<1>6. Visible' = Visible /\ Counted' = Counted /\ (AllAnswered' <=> AllAnswered)
  BY <1>2, SameAnswers
<1>7. FinishIsNoticed'
  BY <1>2, <1>4, <1>6 DEF IInv, FinishIsNoticed
<1>8. OnlyEditsReopen'
  <2>1. AllAnswered => \A i \in Visible : Answered(i)
    BY DEF AllAnswered, IsComplete, HasAnswer, Answered
  <2> QED
    BY <1>2, <1>4, <1>6, <2>1 DEF IInv, OnlyEditsReopen, Answered, TurnedByEdit
<1>9. OneWriter'
  BY <1>1, <1>2, <1>4, <1>6 DEF IInv, OneWriter, Idle
<1> QED  BY <1>3, <1>5, <1>7, <1>8, <1>9 DEF IInv

\* Completed is completed.
LEMMA MarkCompleteKeepsIInv ==
  ASSUME IInv, NEW t \in Tabs, MarkComplete(t)
  PROVE  IInv'
<1>1. UNCHANGED <<answers, progress, locked, current, page, pending, seen, history>>
      /\ pc[t] = "mark" /\ pc' = [pc EXCEPT ![t] = "reply"] /\ status' = "completed"
  BY DEF MarkComplete, Steps
<1>2. UNCHANGED <<edits, edited, overlapped, unrecorded>>
  BY <1>1 DEF history
<1>3. WalkInv'
  BY <1>1, <1>2, StandingStill, WalkingKeepsTheWalk DEF IInv, WalkInv
<1>4. \A u \in Tabs : pc'[u] = IF u = t THEN "reply" ELSE pc[u]
  BY <1>1 DEF IInv, TypeOK
<1>5. TypeOK'
  BY <1>1, <1>2, <1>4 DEF IInv, TypeOK
<1>6. Visible' = Visible /\ Counted' = Counted
  BY <1>1, SameAnswers
<1>7. FinishIsNoticed'
  BY <1>1 DEF FinishIsNoticed
<1>8. OnlyEditsReopen'
  BY <1>1, <1>2, <1>6 DEF IInv, OnlyEditsReopen, Answered, TurnedByEdit
<1>9. OneWriter'
  BY <1>1, <1>2, <1>4, <1>6 DEF IInv, OneWriter, Idle
<1> QED  BY <1>3, <1>5, <1>7, <1>8, <1>9 DEF IInv

\* The submit ends with the next page.
LEMMA ReplyKeepsIInv ==
  ASSUME IInv, NEW t \in Tabs, Reply(t)
  PROVE  IInv'
<1>1. UNCHANGED <<server, pending, seen, history>> /\ pc[t] = "reply"
      /\ pc' = [pc EXCEPT ![t] = "idle"]
  BY DEF Reply, Steps
<1>2. UNCHANGED <<answers, progress, status, locked, edits, edited, overlapped,
                   unrecorded>>
  BY <1>1 DEF server, history
<1>3. Walks /\ TurnsOnly(t)
  <2>1. CASE page' = [page EXCEPT ![t] = Bare("review")] /\ UNCHANGED current
    <3>1. Walks
      BY <1>2, <2>1, LeavingThePage DEF IInv, WalkInv, TypeOK
    <3>2. TurnsOnly(t)
      BY <2>1, FormsArePages DEF IInv, TypeOK, TurnsOnly
    <3> QED  BY <3>1, <3>2
  <2>2. CASE Dispatch(t)
    BY <1>2, <2>2, DispatchWalks, DispatchKeepsTypes DEF IInv, TypeOK
  <2> QED  BY <2>1, <2>2 DEF Reply
<1>4. WalkInv'
  BY <1>3, WalkingKeepsTheWalk DEF IInv
<1>5. \A u \in Tabs : pc'[u] = IF u = t THEN "idle" ELSE pc[u]
  BY <1>1 DEF IInv, TypeOK
<1>6. TypeOK'
  BY <1>1, <1>2, <1>3, <1>5 DEF IInv, TypeOK, TurnsOnly
<1>7. Visible' = Visible /\ Counted' = Counted /\ (AllAnswered' <=> AllAnswered)
  BY <1>2, SameAnswers
<1>8. FinishIsNoticed'
  BY <1>1, <1>2, <1>5, <1>7 DEF IInv, FinishIsNoticed
<1>9. OnlyEditsReopen'
  BY <1>1, <1>2, <1>5, <1>7 DEF IInv, OnlyEditsReopen, Answered, TurnedByEdit
<1>10. OneWriter'
  BY <1>1, <1>2, <1>5, <1>7 DEF IInv, OneWriter, Idle
<1> QED  BY <1>4, <1>6, <1>8, <1>9, <1>10 DEF IInv

\* The window closes on what is answered.
LEMMA CloseWindowKeepsIInv ==
  ASSUME IInv, CloseWindow
  PROVE  IInv'
<1>1. locked' = TRUE
      /\ UNCHANGED <<answers, progress, status, current, page, pc, pending, seen, edits,
                     edited, overlapped, unrecorded>>
  BY DEF CloseWindow, history
<1>2. WalkInv'
  BY <1>1, StandingStill, WalkingKeepsTheWalk DEF IInv, WalkInv
<1>3. TypeOK'
  BY <1>1 DEF IInv, TypeOK
<1>4. FinishIsNoticed' /\ OnlyEditsReopen' /\ OneWriter'
  BY <1>1, OutsideSubmits DEF IInv
<1> QED  BY <1>2, <1>3, <1>4 DEF IInv

\* Every step keeps the invariant.
LEMMA NextKeepsIInv == IInv /\ [Next]_vars => IInv'
<1> SUFFICES ASSUME IInv, [Next]_vars
             PROVE  IInv'
  OBVIOUS
<1>1. CASE UNCHANGED vars
  <2>1. UNCHANGED <<answers, progress, status, locked, current, page, pc, pending, seen,
                    edits, edited, overlapped, unrecorded>>
    BY <1>1 DEF vars
  <2>2. WalkInv'
    BY <2>1, StandingStill, WalkingKeepsTheWalk DEF IInv, WalkInv
  <2>3. TypeOK'
    BY <2>1 DEF IInv, TypeOK
  <2> QED  BY <2>1, <2>2, <2>3, OutsideSubmits DEF IInv
<1>2. ASSUME NEW t \in Tabs,
             ShowNext(t) \/ Forward(t) \/ Previous(t) \/ Jump(t) \/ Review(t) \/ Edit(t)
               \/ Post(t) \/ Save(t) \/ Count(t) \/ Record(t) \/ ProgressFails(t)
               \/ CheckNext(t) \/ MarkComplete(t) \/ Reply(t)
      PROVE  IInv'
  BY <1>2, BrowsingKeepsIInv, PostKeepsIInv, SaveKeepsIInv, CountKeepsIInv,
     RecordKeepsIInv, ProgressFailsKeepsIInv, CheckNextKeepsIInv, MarkCompleteKeepsIInv,
     ReplyKeepsIInv
<1>3. CASE CloseWindow
  BY <1>3, CloseWindowKeepsIInv
<1> QED  BY <1>1, <1>2, <1>3 DEF Next

\* The invariant holds in every state of every behaviour.
LEMMA SpecKeepsIInv == Spec => []IInv
BY InitEstablishesIInv, NextKeepsIInv, PTL DEF Spec

-----------------------------------------------------------------------------
(***************************************************************************)
(* The properties.                                                         *)
(***************************************************************************)

\* Rows, pages and submits stay in their types, and no progress is more than the whole.
THEOREM TypesAreKept == Spec => []TypeOK
<1>1. IInv => TypeOK
  BY DEF IInv
<1> QED  BY <1>1, SpecKeepsIInv, PTL

\* However the submits interleave, the one that answers the last question is noticed.
THEOREM CompletionIsNoticed == Spec => []CompletionIsNotMissed
<1>1. IInv => CompletionIsNotMissed
  BY DEF IInv, FinishIsNoticed, CompletionIsNotMissed, Quiet, Idle
<1> QED  BY <1>1, SpecKeepsIInv, PTL

\* Who is completed owes an answer again only where a skip rule reads a changed answer.
THEOREM EditsAloneReopen == Spec => []ReopenedOnlyByAnEdit
<1>1. IInv => ReopenedOnlyByAnEdit
  BY DEF IInv, OnlyEditsReopen, ReopenedOnlyByAnEdit, TurnedByEdit, AnsweredNow, AnsweredIn,
         HasAnswer, Answered
<1> QED  BY <1>1, SpecKeepsIInv, PTL

\* The progress recorded is right again after one submit that ran alone and wrote it.
THEOREM OneSubmitRepairsProgress == Spec => []ProgressIsRepaired
<1>1. IInv => ProgressIsRepaired
  BY DEF IInv, OneWriter, ProgressIsRepaired, Quiet, Idle
<1> QED  BY <1>1, SpecKeepsIInv, PTL

\* Without an edit nothing that was answered is hidden and nothing is skipped.
THEOREM QuestionsComeInOrder == Spec => []AskedInOrder
<1>1. IInv => HiddenAnswersComeFromEdits
  <2> SUFFICES ASSUME IInv, NEW i \in Places, Answered(i), Skipped(Bank[i], answers)
               PROVE  TurnedByEdit(i)
    BY DEF HiddenAnswersComeFromEdits, AnsweredIn, HasAnswer, Answered, TurnedByEdit
  <2>1. PICK k \in Askable : Bank[k].id = Bank[i].id
    BY DEF IInv, WalkInv, OnlyAskableTouched, Ids, Answered
  <2>2. i \in Askable
    BY <2>1, AskableIds
  <2> QED  BY <2>2 DEF IInv, WalkInv, TouchedAreVisible, Touched
<1>2. IInv => NoSkippingAhead
  <2> SUFFICES ASSUME IInv, edited = {}, NEW t \in Tabs, NEW j \in Visible,
                      page[t] = Form(Bank[j].id)
               PROVE  \A h \in Visible : h < j => Answered(h)
    BY DEF NoSkippingAhead, Before, AnsweredNow, AnsweredIn, HasAnswer, Answered
  <2>1. j \in Askable /\ Touched(j)
    BY AskableIds DEF Touched, Form
  <2> QED  BY <2>1 DEF IInv, WalkInv, TouchedAreReached, Reached
<1> QED  BY <1>1, <1>2, SpecKeepsIInv, PTL DEF AskedInOrder

\* A security question in scope is asked, unless a governance question stands for it.
LEMMA SecurityIsEligible ==
  ASSUME NEW i \in Places, Bank[i] \in SecurityBank
  PROVE  i \in Eligible /\ Instrument # "tier_1"
<1>1. Bank[i].roles = All /\ Bank[i].active
      /\ \A p \in ToSet(Tier1Questions) : p.id # Bank[i].id
  BY SecurityIsForAll, RespondentAssumption DEF SecurityBank
<1>2. Instrument # "tier_1"
  BY <1>1, BankIsSequence DEF Places
<1> QED  BY <1>1, <1>2, RespondentAssumption DEF Eligible

\* With everything asked, a security question in scope is answered, or is stood for by an
\* answer that translates, and not both.
THEOREM SecurityAuditIsWhole == Spec => []SecurityAuditIsAnswered
<1> DEFINE Inherited(q) ==
             \E pair \in OverlapTable : \E i \in AnsweredIn(Bank, Places, answers) :
               /\ pair.security = q.id /\ pair.source = Bank[i].id
               /\ \E position \in answers[Bank[i].id] :
                    Translate(pair, Bank[i].opts, position) # {}
<1>1. ASSUME IInv, status = "completed", edited = {}, NEW i \in Places,
             Bank[i] \in SecurityBank, ~Skipped(Bank[i], answers)
      PROVE  Answered(i) # Inherited(Bank[i])
  <2>1. i \in Eligible /\ Instrument # "tier_1"
    BY <1>1, SecurityIsEligible
  <2>2. \A j \in Visible : Answered(j)
    BY <1>1 DEF IInv, OnlyEditsReopen, TurnedByEdit
  <2>3. \A j \in Places : Answered(j) => j \in Askable
    BY <1>1, AskableIds DEF IInv, WalkInv, OnlyAskableTouched, Answered, Ids
  <2>4. CASE i \in Askable
    <3>1. Answered(i)
      BY <1>1, <2>2, <2>4, VisibleNow
    <3>2. ASSUME Inherited(Bank[i])
          PROVE  FALSE
      <4>1. PICK j \in Places : Answered(j) /\ StandsFor(i, j)
        BY <3>2 DEF AnsweredIn, HasAnswer, Answered, StandsFor
      <4>2. j \in Eligible /\ Instrument # "combined"
        BY <2>3, <2>4, <4>1 DEF Askable
      <4>3. Bank[j] \in ToSet(SecurityQuestions(Tier))
        BY <2>1, <4>2, BankIsSequence, RespondentAssumption DEF Places, Instruments
      <4> QED  BY <4>1, <4>3, SecurityIsForAll, RespondentAssumption DEF StandsFor
    <3> QED  BY <3>1, <3>2
  <2>5. CASE i \notin Askable
    <3>1. Instrument = "combined" /\ ~Answered(i)
      BY <1>1, <2>1, <2>3, <2>5 DEF Askable
    <3>2. PICK j \in Eligible : StandsFor(i, j)
      BY <2>1, <2>5 DEF Askable
    <3>3. Bank[j].skip = {} /\ j \in Askable /\ Bank[j] \in ToSet(Tier1Questions)
      BY <2>1, <3>1, <3>2, SourcesAreAsked
    <3>4. Answered(j) /\ j \in Places
      BY <2>2, <3>3, VisibleNow, AskableIds DEF Skipped
    <3>5. PICK pair \in OverlapTable :
                 pair.security = Bank[i].id /\ pair.source = Bank[j].id
      BY <3>2 DEF StandsFor
    <3>6. /\ Bank[j].type \in OneChoice
          /\ \A position \in DOMAIN Bank[j].opts :
               Translate(pair, Bank[j].opts, position) # {}
      BY <3>3, <3>5, SourcesTranslate
    <3>7. answers[Bank[j].id] \in Selections[Bank[j].id]
      BY <1>1, <3>4 DEF IInv, TypeOK, Answered
    <3>8. PICK position \in DOMAIN Bank[j].opts : answers[Bank[j].id] = {position}
      BY <3>4, <3>6, <3>7, SelectionsAssumption
    <3>9. Inherited(Bank[i])
      BY <3>4, <3>5, <3>6, <3>8 DEF AnsweredIn, HasAnswer, Answered
    <3> QED  BY <3>1, <3>9
  <2> QED  BY <2>4, <2>5
<1>2. IInv => SecurityAuditIsAnswered
  BY <1>1 DEF SecurityAuditIsAnswered, Answered
<1> QED  BY <1>2, SpecKeepsIInv, PTL
=============================================================================
