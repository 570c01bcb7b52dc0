---------------------------- MODULE Questionnaire ----------------------------
(***************************************************************************)
(* One respondent filling the questionnaire in several browser tabs:       *)
(* src/questionnaire/views.py (submit, next, previous, forward, jump),     *)
(* src/questionnaire/services.py and src/questionnaire/review_views.py.    *)
(*                                                                         *)
(* The tabs share one session, hence one "current question", and one row   *)
(* per answer.  Every SQL statement commits by itself, so a submit is a    *)
(* chain of steps - save, count, record the progress, look for a next      *)
(* question, complete, reply - and two submits interleave at each of them. *)
(*                                                                         *)
(* One failure is swallowed inside a submit and modelled here: that of the *)
(* progress (ProgressFails).  What ends a submit half-way is not: a        *)
(* request that dies, and the exception that submit_response swallows      *)
(* around the completion (views.py, 501-505), are steps of Tier1Delivery.  *)
(*                                                                         *)
(* The model walks a slice of the real bank (QuestionFlow); the slice must *)
(* hold every question its skip rules and overlap pairs read, and the rest *)
(* of the bank is as if answered.                                          *)
(***************************************************************************)
EXTENDS QuestionFlow

CONSTANTS
    Tabs,
    Role,                       \* of the respondent
    Instrument, Tier,           \* of the engagement
    Slice,                      \* the ids of the questions walked
    Selections,                 \* [Slice -> sets of positions a person may select]
    MaxEdits                    \* how many answered questions are submitted again (bound)

ASSUME RespondentAssumption ==
  Role \in All /\ Instrument \in Instruments /\ Tier \in Tiers

ASSUME BoundAssumption == MaxEdits \in Nat

NoQuestion == <<"", 0>>

Bank == BankFor(Instrument, Tier)

\* The places of the questions walked.
Places == {i \in DOMAIN Bank : Bank[i].id \in Slice}

ASSUME SliceIsClosed ==
  /\ NoQuestion \notin Slice
  /\ \A i \in Places : \A c \in Bank[i].skip : c.on \in Slice

\* A single choice submits one of its options.
ASSUME SelectionsAssumption ==
  /\ Slice \subseteq DOMAIN Selections
  /\ \A i \in Places : Bank[i].type \in OneChoice =>
       \A selection \in Selections[Bank[i].id] :
         \E position \in DOMAIN Bank[i].opts : selection = {position}

Unread == [done |-> 0, total |-> 1]

VARIABLES
    answers,     \* the responses table: id -> selection
    progress,    \* completion_percentage, as what was answered of what was shown
    status,      \* respondents.status
    locked,      \* the edit window has closed
    current,     \* session["current_question_id"]
    page,        \* what each tab shows
    pc,          \* the next step of each tab's submit
    pending,     \* the selection each tab is submitting
    seen,        \* the progress each tab's submit has counted
    edits, edited,              \* history: resubmissions, ids changed
    overlapped,                 \* history: the latest submit began beside another one
    unrecorded                  \* history: the latest progress update has failed

server == <<answers, progress, status, locked>>
history == <<edits, edited, overlapped, unrecorded>>
vars == <<answers, progress, status, locked, current, page, pc, pending, seen,
          edits, edited, overlapped, unrecorded>>

Visible == VisibleTo(Bank, Places, Instrument, Role, answers)

AnsweredNow == AnsweredIn(Bank, Visible, answers)

AllAnswered == IsComplete(Bank, Visible, answers)

Form(q) == [kind |-> "form", q |-> q]
EditForm(q) == [kind |-> "edit", q |-> q]
Bare(kind) == [kind |-> kind, q |-> NoQuestion]
Forms == {"form", "edit"}

\* Altered: the answers of hidden questions count.
CountedWithHidden ==
  [done |-> Cardinality(DOMAIN answers), total |-> Max({1, Cardinality(Visible)})]

Counted == [done |-> Done(Bank, Visible, answers), total |-> Max({1, Cardinality(Visible)})]

Init ==
  /\ answers = [id \in {} |-> {}]
  /\ progress = Unread
  /\ status = "invited"
  /\ locked = FALSE
  /\ current = NoQuestion
  /\ page = [t \in Tabs |-> Bare("none")]
  /\ pc = [t \in Tabs |-> "idle"]
  /\ pending = [t \in Tabs |-> {}]
  /\ seen = [t \in Tabs |-> Unread]
  /\ edits = 0 /\ edited = {} /\ overlapped = FALSE /\ unrecorded = FALSE

-----------------------------------------------------------------------------
(***************************************************************************)
(* Pages.  A request that only reads shows a question and remembers it as  *)
(* the current one; where the code answers 404 nothing changes.            *)
(***************************************************************************)
Show(t, i) ==
  /\ page' = [page EXCEPT ![t] = Form(Bank[i].id)]
  /\ current' = Bank[i].id

\* _dispatch_by_state: the first question without an answer, or the closing page.
Dispatch(t) ==
  \/ /\ locked
     /\ page' = [page EXCEPT ![t] = Bare("locked")]
     /\ UNCHANGED current
  \/ /\ ~locked
     /\ \E i \in NextUnanswered(Bank, Visible, answers) : Show(t, i)
  \/ /\ ~locked /\ AllAnswered
     /\ page' = [page EXCEPT ![t] = Bare("complete")]
     /\ UNCHANGED current

Idle(t) == pc[t] = "idle"

Browses(t) == Idle(t) /\ UNCHANGED <<server, history, pc, pending, seen>>

ShowNext(t) == Browses(t) /\ Dispatch(t)

\* The place of the session's current question, if it is visible.
CurrentPlace == {i \in Visible : Bank[i].id = current}

Before(i) == {j \in Visible : j < i}
After(i) == {j \in Visible : i < j}

\* forward_question: one further, but never past the furthest answered question.
Forward(t) ==
  /\ Browses(t)
  /\ \/ /\ CurrentPlace = {}
        /\ \E i \in NextUnanswered(Bank, Visible, answers) : Show(t, i)
     \/ \E i \in CurrentPlace : \E next \in First(After(i)) :
          /\ \E last \in LastAnswered(Bank, Visible, answers) : next <= last
          /\ Show(t, next)

\* previous_question: one back; from the first question, or from one that is no longer
\* shown, the furthest answered one.
Previous(t) ==
  /\ Browses(t)
  /\ \/ \E i \in CurrentPlace : \E previous \in Furthest(Before(i)) : Show(t, previous)
     \/ /\ \A i \in CurrentPlace : Before(i) = {}
        /\ \E last \in LastAnswered(Bank, Visible, answers) : Show(t, last)

\* jump_to_position: the slider, within the answered territory.
Jump(t) ==
  /\ Browses(t)
  /\ \E last \in LastAnswered(Bank, Visible, answers) :
       \E i \in Visible : i <= last /\ Show(t, i)

\* review: the list of the governance answers; edit_question: one of their forms.
Review(t) ==
  /\ Browses(t)
  /\ page' = [page EXCEPT ![t] = Bare("review")]
  /\ UNCHANGED current

GovernanceIds == Ids(Tier1Questions, DOMAIN Tier1Questions)

Edit(t) ==
  /\ Browses(t)
  /\ page[t].kind = "review" /\ ~locked
  /\ \E id \in DOMAIN answers \cap GovernanceIds :
       page' = [page EXCEPT ![t] = EditForm(id)]
  /\ UNCHANGED current

-----------------------------------------------------------------------------
(***************************************************************************)
(* submit_response, statement by statement.                                *)
(***************************************************************************)
Steps(t, from, to) == pc[t] = from /\ pc' = [pc EXCEPT ![t] = to]

\* require_writable_state reads the engagement's state before the view runs.
Post(t) ==
  /\ Steps(t, "idle", "save")
  /\ page[t].kind \in Forms /\ ~locked
  /\ IF page[t].q \in DOMAIN answers
     THEN edits < MaxEdits /\ edits' = edits + 1
     ELSE UNCHANGED edits
  /\ \E selection \in Selections[page[t].q] : pending' = [pending EXCEPT ![t] = selection]
  /\ overlapped' = (\E other \in Tabs \ {t} : ~Idle(other))
  /\ UNCHANGED <<server, current, page, seen, edited, unrecorded>>

\* save_response: one row per respondent and question, the last submit wins.
Save(t) ==
  LET id == page[t].q
  IN  /\ Steps(t, "save", "count")
      /\ answers' = WithAnswer(answers, id, pending[t])
      /\ edited' = IF id \in DOMAIN answers /\ answers[id] # pending[t]
                   THEN edited \cup {id} ELSE edited
      /\ pending' = [pending EXCEPT ![t] = {}]
      /\ UNCHANGED <<progress, status, locked, current, page, seen, edits, overlapped,
                     unrecorded>>

\* _update_progress: the answers are read and counted ...
Count(t) ==
  /\ Steps(t, "count", "record")
  /\ seen' = [seen EXCEPT ![t] = Counted]
  /\ UNCHANGED <<server, current, page, pending, history>>

\* Altered: the progress is only written for questions answered in the walk.
RecordWalkOnly(t) ==
  /\ Steps(t, "record", "check")
  /\ progress' = IF page[t].kind = "form" THEN seen[t] ELSE progress
  /\ status' = IF status = "invited" THEN "in_progress" ELSE status
  /\ seen' = [seen EXCEPT ![t] = Unread]
  /\ unrecorded' = FALSE
  /\ UNCHANGED <<answers, locked, current, page, pending, edits, edited, overlapped>>

\* ... and the figure is written in a statement of its own.
Record(t) ==
  /\ Steps(t, "record", "check")
  /\ progress' = seen[t]
  /\ status' = IF status = "invited" THEN "in_progress" ELSE status
  /\ seen' = [seen EXCEPT ![t] = Unread]
  /\ unrecorded' = FALSE
  /\ UNCHANGED <<answers, locked, current, page, pending, edits, edited, overlapped>>

\* A read or the UPDATE fails: the exception is logged, the answer stays saved, the row
\* keeps its old figure and status, and the submit goes on.
ProgressFails(t) ==
  /\ pc[t] \in {"count", "record"}
  /\ pc' = [pc EXCEPT ![t] = "check"]
  /\ seen' = [seen EXCEPT ![t] = Unread]
  /\ unrecorded' = TRUE
  /\ UNCHANGED <<server, current, page, pending, edits, edited, overlapped>>

\* Altered: an edit from the review page never completes.
CheckNextOfForms(t) ==
  /\ Steps(t, "check",
           IF page[t].kind = "form" /\ AllAnswered THEN "mark" ELSE "reply")
  /\ UNCHANGED <<server, current, page, pending, seen, history>>

\* Altered: complete is with the last question still to answer.
CheckNextByNumber(t) ==
  /\ Steps(t, "check", IF Counted.done + 1 >= Cardinality(Visible) THEN "mark" ELSE "reply")
  /\ UNCHANGED <<server, current, page, pending, seen, history>>

CheckNext(t) ==
  /\ Steps(t, "check", IF AllAnswered THEN "mark" ELSE "reply")
  /\ UNCHANGED <<server, current, page, pending, seen, history>>

\* Altered: only a respondent still "invited" is completed.
MarkCompleteOfInvited(t) ==
  /\ Steps(t, "mark", "reply")
  /\ status' = IF status = "invited" THEN "completed" ELSE status
  /\ UNCHANGED <<answers, progress, locked, current, page, pending, seen, history>>

\* _mark_complete: the first caller stamps completed_at.
MarkComplete(t) ==
  /\ Steps(t, "mark", "reply")
  /\ status' = "completed"
  /\ UNCHANGED <<answers, progress, locked, current, page, pending, seen, history>>

\* An edit goes back to the review list, any other submit to the next question.
Reply(t) ==
  /\ Steps(t, "reply", "idle")
  /\ \/ /\ page[t].kind = "edit"
        /\ page' = [page EXCEPT ![t] = Bare("review")]
        /\ UNCHANGED current
     \/ /\ page[t].kind = "form"
        /\ Dispatch(t)
  /\ UNCHANGED <<server, pending, seen, history>>

\* Seven days after completion the answers are frozen (SnapshotLifecycle).
CloseWindow ==
  /\ status = "completed" /\ ~locked
  /\ locked' = TRUE
  /\ UNCHANGED <<answers, progress, status, current, page, pc, pending, seen, history>>

Submitting(t) ==
  \/ Save(t) \/ Count(t) \/ Record(t) \/ ProgressFails(t) \/ CheckNext(t)
  \/ MarkComplete(t) \/ Reply(t)

Next ==
  \/ \E t \in Tabs :
       \/ ShowNext(t) \/ Forward(t) \/ Previous(t) \/ Jump(t) \/ Review(t) \/ Edit(t)
       \/ Post(t) \/ Save(t) \/ Count(t) \/ Record(t) \/ ProgressFails(t) \/ CheckNext(t)
       \/ MarkComplete(t) \/ Reply(t)
  \/ CloseWindow

\* The server finishes the requests it has begun, and the respondent keeps coming back
\* to the next question and keeps answering a question that has no answer.
AnswerNew(t) == page[t].q \notin DOMAIN answers /\ Post(t)

Fairness ==
  \A t \in Tabs : WF_vars(Submitting(t)) /\ SF_vars(ShowNext(t)) /\ SF_vars(AnswerNew(t))

Spec == Init /\ [][Next]_vars /\ Fairness

-----------------------------------------------------------------------------
Progress == [done : Nat, total : Nat \ {0}]

Pages == [kind : Forms, q : Slice]
           \cup [kind : {"none", "complete", "review", "locked"}, q : {NoQuestion}]

\* Answers, pages and submits stay in their types, and the progress written down counts
\* only what was shown and answered, so that it is never more than the whole.
TypeOK ==
  /\ DOMAIN answers \subseteq Slice
  /\ \A id \in DOMAIN answers : answers[id] \in Selections[id]
  /\ progress \in Progress /\ progress.done <= progress.total
  /\ status \in {"invited", "in_progress", "completed"}
  /\ {locked, overlapped, unrecorded} \subseteq BOOLEAN
  /\ current \in Slice \cup {NoQuestion}
  /\ page \in [Tabs -> Pages]
  /\ pc \in [Tabs -> {"idle", "save", "count", "record", "check", "mark", "reply"}]
  /\ \A t \in Tabs : pc[t] # "idle" => page[t].kind \in Forms
  /\ DOMAIN pending = Tabs
  /\ \A t \in Tabs : pc[t] = "save" => pending[t] \in Selections[page[t].q]
  /\ seen \in [Tabs -> Progress]
  /\ \A t \in Tabs : seen[t].done <= seen[t].total
  /\ edits \in 0 .. MaxEdits /\ edited \subseteq Slice

Quiet == \A t \in Tabs : Idle(t)

\* However two submits interleave, the one that makes the questionnaire complete
\* notices: with no submit in flight and nothing left to ask, the respondent is marked
\* completed, and with that the report is on its way.  (Of submits that run to their end;
\* for those that die, or whose completion fails, see Tier1Delivery.)
CompletionIsNotMissed ==
  Quiet /\ DOMAIN answers # {} /\ AllAnswered => status = "completed"

\* A completed respondent can owe an answer again, for the answers stay editable for
\* seven days: but only to a question whose skip rule reads an answer that was changed.
ReopenedOnlyByAnEdit ==
  status = "completed" =>
    \A i \in Visible \ AnsweredNow : \E c \in Bank[i].skip : c.on \in edited

\* The answer of a question that is no longer asked stays stored (and the governance
\* score still counts it): only after an answer its skip rule reads was changed.
HiddenAnswersComeFromEdits ==
  \A i \in AnsweredIn(Bank, Places, answers) :
    Skipped(Bank[i], answers) => \E c \in Bank[i].skip : c.on \in edited

\* One submit that runs alone and whose progress update succeeds puts the progress right,
\* whatever earlier submits overlapped (each writes what it had counted, and the slower
\* one may write the older figure) or failed to write (_update_progress).
ProgressIsRepaired ==
  Quiet /\ ~overlapped /\ ~unrecorded /\ DOMAIN answers # {} => progress = Counted

\* Until an answer is changed no tab shows an unanswered question that lies beyond
\* another unanswered one: neither the buttons, which follow the session's position
\* and not the tab's own, nor the slider can skip ahead.
NoSkippingAhead ==
  edited = {} =>
    \A t \in Tabs : \A j \in Visible \ AnsweredNow :
      page[t] = Form(Bank[j].id) => Before(j) \subseteq AnsweredNow

\* A respondent who changes no answer is asked what the rules let through, and in the
\* order of the bank (services.get_next_question_context, the Forward button, the slider).
AskedInOrder == HiddenAnswersComeFromEdits /\ NoSkippingAhead

SecurityBank == ToSet(SecurityQuestions(Tier))

\* A respondent who has been asked everything has answered every security question in
\* scope, that is not behind a gate answered No, either directly or through the governance question it overlaps, whatever
\* option was chosen there; and never both.
SecurityAuditIsAnswered ==
  LET Inherited(q) ==
        \E pair \in OverlapTable : \E i \in AnsweredIn(Bank, Places, answers) :
          /\ pair.security = q.id /\ pair.source = Bank[i].id
          /\ \E position \in answers[Bank[i].id] :
               Translate(pair, Bank[i].opts, position) # {}
  IN  status = "completed" /\ edited = {} =>
        \A i \in Places :
          Bank[i] \in SecurityBank /\ ~Skipped(Bank[i], answers)
            => (Bank[i].id \in DOMAIN answers) # Inherited(Bank[i])

\* The questions that skip rules hide and reveal run out: whoever keeps answering the
\* question shown is told, once, that the questionnaire is complete.
KeepAnsweringAndFinish == <>(status = "completed")
=============================================================================
