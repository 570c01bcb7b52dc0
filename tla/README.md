# A verification project for the SRJ audit platform

The repository is a Django application that sells AI-governance audits. A buyer
fills in a start form, respondents answer a questionnaire, and the system scores
the answers and emails a PDF report. This directory holds TLA+ modules translated
from the code under `src/`, the configurations TLC checks, and theorems TLAPS
checks. `PROJECT.json` lists the runs, the lines every definition stands for, the
hazards, the findings and the theorems.

## 1. The system

The process model decides most of what can go wrong, so it comes first:

* gunicorn runs three worker processes with two threads each and a 90 second
  timeout. Several requests of one engagement can be open at once.
* The database is PostgreSQL at READ COMMITTED, in autocommit: **each SQL statement
  is a transaction of its own**, except inside `transaction.atomic()`, which is used
  by the start form, by the delivery thread and by the Tier 1 webhook.
* Reports are generated by daemon threads that the requests start. They die with
  the process, nothing records their progress in a form that is read again, and
  nothing retries them. `render.yaml` speaks of a queue; the code does not use one.
* The two sweeps are management commands. Nothing in the repository schedules
  them. A reminder run is triggered once a day from outside.

### Inventory

| component | state | operations | what is hard | what makes it correct |
|---|---|---|---|---|
| Snapshot lifecycle and sweeps (`engagements/lifecycle.py`, `sweeps.py`) | `engagements.snapshot_state`, window, lock and expiry timestamps | first generation, regeneration, lock, expire | a sweep commits while a generation is open | one-way states (not so, see section 3), a full edit window, terminal states settle |
| Report generation and delivery (`reports/services.py`, `auto_delivery.py`) | `reports`, report of record, generation count, `delivered_at`, mailboxes | read, render, insert, score, apply, commit, email, stamp | minutes-long transactions that overlap; deaths; swallowed database errors; Postmark answering late | the record is a committed row (the newest one is not guaranteed); a mailed PDF is on record |
| Completion and parts, Tier 1 (`questionnaire/views.py`, `auto_delivery.py`) | `responses`, `completed_at`, `queued` events, threads | submit, save, complete, deliver a part, regenerate | two tabs finish together; check then act on events; a crash between claim and thread | the completion is noticed, each document is started once and only when finished |
| Tier 2 coverage (`engagements/coverage.py`, `auto_delivery.py`) | `respondents` rows, attestation, percentage, `coverage_met_at` | invite, remove, open link, attest, save, complete, check, claim, start | the coverage rule is read over many rows that others change | one claim, after coverage is met; no completion is lost between two requests |
| Start form and access codes (`questionnaire/services.py`, `access_codes.py`) | companies, users, engagements, `access_codes`, redemptions | validate, find or insert, claim, commit, roll back | several submissions validate the last use of a code | uses are never oversold; comped engagements equal redemptions |
| Invitations and reminders (`engagements/invitations.py`, `reminders.py`) | status, `last_nudged_at`, `reminder_count` | invite, nudge, remind, remove | cooldown checked, mail sent, stamp written; removed people come back | one reminder a day, but for races and mails whose sender failed; a stale list sends nobody one more; every other mail is counted |
| Questionnaire pages (`questionnaire/views.py`, `services.py`, `review_views.py`) | `responses`, progress, the session's current question | next, previous, forward, slider, review, edit, submit | tabs share one position; a submit is six statements, one of which may fail unseen; answers stay editable after the completion | nothing is skipped, the completion is never missed, the progress is repaired, whoever keeps answering finishes |
| Question flow and skip logic (`questionnaire/flow.py`, `skip_logic.py`, `overlap.py`) | none (pure) | visibility, next question, translation | an answer hides and reveals others; one answer stands for a question of the other audit | every walk ends; what is hidden stays out; no audit has a hole |
| Billing (`billing/`) | `payment_status`, `price_cents`, Stripe's sessions, events | start form, two checkouts, webhook | redelivered and concurrent webhooks; a failure between two statements; a webhook that generates in the request; a price read from a row that other forms overwrite | paid once, one dashboard link, a declared price, every report entitled to, what is paid for comes |
| Scoring (`scoring/`) | score rows | value of an answer, four frameworks, confidence, aggregation, the engine | zero denominators; guards and their fallbacks; a scale that is turned around; reading while people edit | scores lie between what they combine; order decides nothing; better answers score better |
| Security scoring, gap actions, score rows (`scoring/aiitsa.py`, `gap_actions.py`, `persistence.py`) | score rows | score, look up texts, insert | – | – |
| Report content and storage (`reports/`) | PDFs, an object store | render, upload, download | a download during regeneration | the record is what is served |
| Bot protection and sessions (`questionnaire/bot_protection.py`, `session.py`) | a cache | rate limit, tokens | read then write of a counter | the limit holds |
| Content sync, dashboard, accounts, marketing | – | imports and read-only pages | – | – |

How they interact: the start form creates an engagement in Draft; requests of the
questionnaire read `snapshot_state` before they write an answer; the last answer
calls `on_respondent_complete`, which claims the completion (Tier 1) or the
coverage (Tier 2) with a conditional `UPDATE` and starts one thread per document;
a thread's transaction moves the engagement to Editable; the sweeps move it to
Locked or Expired. The buyer's payment opens the dashboard that invites people; the
webhook that records it mails the link to that dashboard. A generation scores the
stored answers of everyone who has completed. The shared state is the engagement row,
the `responses` table and the `events` table.

## 2. Modules

| module | models | state against code |
|---|---|---|
| `SnapshotLifecycle` | `engagements/lifecycle.py` (pure) | states, transitions, deadline decisions |
| `ReportGeneration` | `generate_and_lock`, `_worker`, the sweeps, the writable check | columns of `engagements` by name; `jobs` is the local state of each thread or direct call; `reports`, `delivered`, `inbox` are rows and mails; `current` is history: whose document shows today's answers |
| `Tier1Delivery` | `submit_response`, `_maybe_deliver_part`, `on_respondent_complete`, `_start_part`, `regenerate_after_edit` | `requests` is the local state of each request; `queued` counts the events of a part; `started` are the threads that run. Composes `ReportGeneration` as `Gen`, sharing its variables |
| `Coverage` | `REQUIREMENTS`, `evaluate` (pure) | `GreedyFilling` is the loop that spends respondents on role slots; `RolesAreFilled`, which the other modules use, counts them (`GreedyIsEnough` is the proof that this is the same) |
| `Tier2Coverage` | invitation, removal, `respondent_link`, attestation, saving, `_update_progress`, `on_respondent_complete` for Tier 2 | columns of `respondents` by name; one action per SQL statement |
| `CoverageGate` | what the completion trigger promises | abstract |
| `Reminders` | `due_respondents`, `run`, `nudge_respondent`, `nudge` | columns of `respondents` by name; `callers` is the local state of each click and run; `clock` serves Django's `timezone.now()` and PostgreSQL's `NOW()` alike; `mails`, `uncounted`, `raced`, `close` are history |
| `AccessCodes` | the start form's transaction, `validate_code`, `redeem_code` | committed rows as sets; open transactions by `pc`, with PostgreSQL's row and key locks |
| `CompLedger` | what access codes promise | abstract |
| `QuestionBank`, `AiitsaBank` | the two question banks, question by question: type, roles, classes of the options (yes, partly, no, don't know, other), skip rules, mappings to the frameworks | wording left out; ids are `<<letter, number>>` |
| `OptionWeights` | the curated weights of options, in hundredths | - |
| `QuestionFlow` | `skip_logic`, `flow`, `overlap` (pure) | `answers` is the `responses` table: id to the set of positions selected. A question is known by its place in its bank, and a list of questions in the bank's order is a set of places; `NextUnanswered` has at most one |
| `Questionnaire` | the pages of one respondent in several tabs | `current` is `session["current_question_id"]`; `page` is what a tab shows; `pc`, `pending`, `seen` are the local state of a submit; one action per SQL statement |
| `Rationals` | exact fractions, where the code has floats | - |
| `ResponseScoring` | `response_scoring`, `confidence` (pure) | - |
| `Frameworks` | `frameworks/v1_audit`, `v2_readiness`, `v3_governance`, `efficiency` (pure) | one respondent's result, from the scores of the answers (`Scores`) up: items, dimensions, the composite |
| `RoleWeights`, `Aggregation` | `tier_2_role_weights`, `aggregation` (pure) | the engagement's result; an `Entry` is one respondent's item with the weight of their role, `Clearing` those that pass the guard |
| `Scoring` | `engine` beside answering and editing | `ids` and `read` are the local state of a running job; `report` is its result |
| `Purchase` | the start form's price, `stripe_views`, `stripe_service`, `pricing`, the buyer's steps that wait for a payment | columns of `engagements` by name; `sessions` and `acknowledged` are Stripe's; `handlers` is the local state of each webhook request |
| `MC...` | the instances TLC checks | – |
| `...Proofs` | theorems | – |

An operator whose comment begins with "Altered:" is a wrong version of the action
that follows it. No specification uses it; it records which slip of the code the
property in question would catch.

### Conventions

An action is a SQL statement, or a whole transaction's last statement and its
commit, or a step outside the database that another process can observe. What a
request read it keeps in its record until it uses it. A row inserted by a
transaction appears when the transaction commits. A death is an action of its own
that leaves the database alone.

### Abstractions

* A report is its job's name; the document is reduced to whether it was rendered
  from the answers as they are now.
* In the modules about delivery (`Tier1Delivery`, `Tier2Coverage`) questions are model
  values, all of them visible. What answers hide and reveal is in `Questionnaire`, over
  the real bank; the completion it reaches is the one those two start from.
* `Questionnaire` and `Scoring` walk a slice of the bank that is closed under what its
  skip rules read (`SliceIsClosed`, `BankIsClosed`). A security question that a gate
  hides is not asked of anybody, and `SecurityAuditIsAnswered` speaks of the others. Scores are fractions of 1 and
  exact: where the code rounds a printed figure, the model does not.
* An answer is the set of positions selected. Free text, and what a catalogue offers,
  is one position.
* `Questionnaire` has the failed progress write, which `_update_progress` swallows, but
  neither requests that die nor the exception of `on_respondent_complete` that
  `submit_response` swallows (`views.py:501-505`): `Tier1Delivery` and `Tier2Coverage` have
  both, as `Die`.
* `Purchase` takes the Stripe prices that the environment may name
  (`STRIPE_TIER_2_PRICE_ID_...`, and `price_env` of an offer) to carry the cents that
  `pricing.py` and `OFFERS` compute. The code hands Stripe the one instead of the other
  and compares them nowhere.
* In `Purchase`, how coverage comes about is one step (`MeetCoverage`; `Tier2Coverage`
  has how), and all forms name one company, since companies meet only in their row.
* `completion_percentage` is the number of answered questions; `EnoughAnswered`
  compares it with 60 % exactly. The column is rounded to four decimals, which
  cannot lift a share over the line for fewer than 4,000 questions.
* The upload to the object store is left out: it is non-fatal and nothing modelled
  reads it.
* `Tier2Coverage` summarises the generating threads and the sweeps as `Lifecycle`:
  what they do to `snapshot_state`, the only thing of theirs its requests read.

## 3. Runs

Passing runs:

* `report_generation`: one thread, two direct calls, one edit, both sweeps,
  five ticks. Two direct calls and a thread are the least with which two overlapping
  first generations race a third job; five ticks hold a draft's life, a window of
  three, and the time after the lock. Deaths and rollbacks at every step.
* `access_codes`: three submissions, a single-use code and a two-use code that
  expires first, two companies and two emails. Three submissions are needed to have
  one more than the uses of the larger code; two names are enough to collide or not.
* `tier1_delivery`: an engagement with one governance question left, one of whose
  requests may die, or a combined one with one question left in each audit; two
  requests and two threads. Two questions answered by two requests are the least with
  which each request may see the other's answer or not; two threads are one per part,
  or one queued and one regenerated. It runs without symmetry because it checks a
  liveness property.
* `reminders`: one person, a click and two runs, a schedule of two steps, a cooldown
  of two ticks and runs of one. People touch each other only through a run's list,
  which a run works through within `RunTime` whatever else is on it, so one person
  shows every race over a row; the proofs cover any number. Three mails and four
  ticks hold both steps of the schedule, a cooldown and a mail too many.
* `tier2_coverage`: the bracket of up to 25 people and the three it requires. The
  buyer's own row, which the start form creates, is taken as finished (`Early`; alone
  it does not meet the coverage, `EarlyAssumption`); the other two are invited, open
  links and act in two requests. Each has two questions and counts only with both
  (60 %), so a request may find the questionnaire finished, stamp it and look while the
  other one's answer is saved and not yet counted. The count that is then written late
  meets the coverage and nobody looks again: the lapse `late_progress`, which
  `LastCompletionClaims` excepts as it does the others. `MaxLapses = 1` allows one
  removal, death or failed progress write in addition to lost and late counts and late
  attestations, which are not bounded.

* `questionnaire`: a board member who was sold both audits, in two tabs, over four
  questions of the real bank: T1-B-001 and T1-B-003, which it hides; T1-F-010, which
  stands for AIITSA-GOV-001; and that question itself. Of a gate, two options are all
  that the rules tell apart, one that hides and one that does not; of T1-F-010 the one
  taken is "don't know", the option whose translation is easiest to forget.
  One answered question is submitted again, which is enough to reveal, to hide and to
  reopen; two tabs overlap in every step of a submit, and any progress write may fail.
* `scoring`: a security officer and a manager, seven questions of the real bank chosen
  for what they exercise: skipping both ways (B-001, B-003, B-005), an item under the
  weight guard that only one of them is asked (A-014), risk (E-006, E-012), readiness
  and efficiency with three options (G-009). One edit and two results are enough to
  compare two results that differ in an answer.
* `purchase`: an engagement of one of three kinds (Tier 2 of both audits, comped,
  Tier 1), a second form of the same company that changes its size, two checkout
  sessions of any kind, two concurrent webhook requests, any number of redeliveries,
  and one failure anywhere. Two sessions and two requests let a payment be doubled,
  redelivered and raced; only the first engagement goes on (`Followed`), for what
  engagements share is the company's row, which the second form writes.

Runs that TLC refutes, each a finding that quotes the line it contradicts:

* `shortly_generated`: coverage met by anything but a completion is never acted on,
  although the dashboard promises the report.
* `states_are_one_way`: a generation that read Draft commits after the sweep has expired
  the draft, and the Expired snapshot is Editable again. `lifecycle.py` calls the states
  one-way, its table gives Expired no successor, and a test asserts that. What is true is
  `LockedIsFinal`, and `TerminalSnapshotsSettle`: once the generations that were open at
  the sweep are over, nothing of the snapshot changes any more.
* `best_answers_are_best`: an answer about risk that is changed to one with a better
  weight lowers the V1 audit. The weights already mean "1.0 = best signal (highest
  maturity / lowest risk)"; the framework turns the dimension around once more. For all
  other answers, and all other frameworks, better answers do score better
  (`BetterAnswersScoreBetter`).
* `tier2_reports_need_coverage`: the Tier 1 checkout of a Tier 2 engagement generates its
  report for 399 dollars. The paywall page offers it to a buyer who has answered
  everything and has not paid, but `create_checkout` asks nothing of the engagement: any
  session that names one of its respondents can post it, whoever has or has not paid,
  finished, or been comped. `ReportsAreEarned` says what remains true: a coverage report
  has its coverage and its Tier 2 payment or comp, a webhook report a paid Tier 1 session
  for that very engagement, and the buyer's last answer generates none.

Deadlock is not checked in these runs: the system legitimately stops when every
submission is decided, every job is done, or the bounded clock has run out.

Bounds: `MaxTime` (clock), `MaxMails` (Reminders), `MaxDeaths` and `Workers`
(Tier1Delivery), `Early` and `MaxLapses` (Tier2Coverage), `MaxEdits` (Questionnaire,
Scoring), `MaxReports` (Scoring), `MaxEngagements`, `Followed`, `MaxSessions` and
`MaxFailures` (Purchase). No proof depends on their values.

### Fairness

Three modules state fairness, each only over what the code or its surroundings give.

* `Tier1Delivery`: a request that was admitted keeps running (`WF` on each request's own
  steps, which the server's thread gives), unless it dies. Nobody has to submit, click
  or sweep, and threads may be killed at any time. `CompletionIsNoticed` says what the
  code gives: the completion queues every part unless a request died. That a death is
  never repaired is how the code is written and is listed as a hazard.
* `Questionnaire`: submits run on (`WF` on a tab's own steps), and the respondent keeps
  coming back to the next question and keeps answering a question that has no answer
  (`SF`, since between two such steps any other button may be pressed). Under this
  assumption about the person, `KeepAnsweringAndFinish` is about the program: hiding
  and revealing come to an end, and the end is noticed.
* `Purchase`: a webhook request runs on unless it fails, and Stripe, which repeats a
  webhook until it is answered with 200, repeats it (`SF` on a delivery that is not yet
  acknowledged). Nobody has to pay. Failures are bounded, as outages are.

## 4. Proofs

* `ReportGenerationProofs`: for any sets of threads, direct calls and requests, and
  any times with `2 * JobTime < EditWindow` (`TimingAssumption`; the window is seven
  days, a generation takes minutes; the code does not enforce the latter). The
  invariant `IInv` adds to the types and the checked properties: what an open
  transaction read is something the row once said; any two jobs that found Draft
  started within `JobTime` of each other, because all of them started before the
  first of them committed; the window in the row was opened by one of them. So the
  lock comes a window after that start, more than two generations later, and no
  Draft reader is still open: a Locked snapshot stays Locked. `TypeOK`,
  `RecordIsBacked` and the others are conjuncts of `IInv` or follow from it;
  `LockedIsFinal` and `TerminalSnapshotsSettle` are proved as action properties, the
  latter from two conjuncts: a job that generates is not open longer than `JobTime`, and
  it started before the sweep that made the snapshot terminal. So when more than that has
  passed no generation is left to commit (`NoneRunsOnASettled`), and the sweeps look for
  other states.
* `AccessCodesProofs`: for any finite set of submissions and any codes and limits.
  The invariant adds that at most one open transaction holds a code's row and that
  the use it will count is still there; the types are a part of it. `Refinement` maps
  `comped` and `times_used` to the ledger.
* `Tier1DeliveryProofs`: for any questions and any set of requests, a finite set of
  threads (`BoundsAssumption`) and the times of `ReportGeneration`
  (`GenerationAssumption`). What a request is about to queue is finished and stays so
  (`RequestsSawTheTruth`), from which `QueuedPartsAreFinished`; only the request that
  stamped the completion ever holds the last part, and it holds it until the event is
  written (`OneHolder`), from which `LastPartIsQueuedOnce`. `Refinement` takes each
  step of a request to a step of `ReportGeneration` (a thread starts, an answer is
  admitted or saved) or a stutter. `GenerationPromises` instantiates the theorems of
  `ReportGenerationProofs` with it: the generations that requests start keep all its
  promises.
* `Tier2CoverageProofs`: for any people, roles, brackets, questions, parts and
  requests. The invariant says that the token of a person's completion is in one place
  (unstamped, in the hands of one request, or spent on one notice) and the token of the
  claim likewise, with the number of documents started equal to the position of the
  request that holds it. `Refinement` maps the requests to `CoverageGate`.
  `GreedyIsEnough` is about `evaluate` alone: whatever order the slots are filled in and
  whoever is picked, the greedy loop leaves a gap exactly when some slot has too few
  people for it, since no bracket has two slots with a role in common
  (`NobodyFittingIsSpent`). The code's worry, that a CIO is spent on the wrong slot, is
  therefore void for the table as it stands; a bracket with overlapping slots would
  break this proof before it broke a customer.
  `LastClaims` adds `SomeoneLooks`: while coverage is met by people who have all
  completed and nobody has claimed it, a request is between its stamp and its claim
  (`Looking`), and what it will read can only say that coverage is met. Every statement
  that could bring this about with nobody looking is a lapse. The first attempt at this
  proof failed at `WriteProgress`: the property as it stood was false of people with
  few questions, and the instance hid it. That is where `late_progress` comes from.
* `QuestionnaireProofs`: for any role, instrument, tier, closed slice of the bank,
  selections and tabs. It uses of the banks only the facts that `QuestionFlow` states
  as assumptions and TLC evaluates over all the questions: besides that they are
  sequences (`BanksAreSequences`), no id is used twice (`IdsAreUnique`), skip rules read earlier questions that are never skipped themselves
  (`RulesLookBack`), the governance questions that stand for security questions are
  always asked and every option translates (`SourcesTranslate`), security questions go
  to every role (`SecurityIsForAll`). A question added to the bank that breaks one of
  them stops every run. The heart of the invariant is `WalkInv`: whatever is answered,
  shown in a tab or the session's current question has everything before it answered
  that is never skipped, and without edits everything visible, and is hidden itself
  only by an edited answer. `AskedInOrder` follows, and with it `SecurityAuditIsAnswered`.
  `FinishIsNoticed` (somebody who may have answered the last question is on the way to
  notice), `OnlyEditsReopen` and `OneWriter` carry the other three properties. `OneWriter`
  is about the latest submit: if it began while no other was under way, it writes what
  it counted of the answers as they are, and unless the write fails the progress is right
  from then on. Whatever went wrong before does not matter, hence
  `OneSubmitRepairsProgress` (`ProgressIsRepaired`).
* `ScoringProofs`: for any respondents, roles, closed part of the bank, selections and
  number of edits and results. An answer hides only later questions, which are not
  answered yet (`AnswerHidesLater`), so what a respondent without edits has answered is
  a beginning of what they see (`Walked`), all of it once they are completed; a job
  lists only the completed, and what it has read of them is whole however it
  interleaves with others (`ReadsWhatWasAsked`). From this `ScoresWhatWasAsked`.

  What scoring computes is proved in the same module, layer by layer. Fractions are
  kept in lowest terms, so two of them are equal when they compare as equal, and sums
  of them are folds; that such a fold does not depend on the order, lies between its
  bounds and grows with its parts are the lemmas everything rests on. The induction
  they need is done over sets and not over predicates: the smallest number (or
  smallest subset) for which a fact fails, which `WFMin` gives, contradicts the
  definition of the fold. On these stand the value of an answer, an item, each
  framework, the combination of respondents and the engine: `HeadlinesAreFractions`
  (`TypeOK`: every headline score lies between 0 and 1, whoever answered what),
  `ScoresAreMeansOfTheirParts` (`ScoresAreMeans`: a combined score lies between the
  scores it combines, whichever fallback computes it), `CombiningIsAlwaysFair`
  (`CombiningIsFair`: the order in which respondents completed decides no score, label
  or confidence, and, by `CombiningRaisesNoConfidence`, no item is trusted more than
  by a respondent who answered it), and `BetterAnswersNeverLower`
  (`BetterAnswersScoreBetter`). The last one is an action property: two results whose
  answers differ only by better ones are compared, so the proof follows one answer's
  weight up through every mean it enters, with the same questions counted and the same
  weights on both sides, and through the dimensions that are turned around.
  `ReportsAreOfAnswers` is the bridge: what a job has read, and what a result was made
  of, are selections the questions offer.

  Four assumptions on the data, all evaluated by TLC, are used: the questions scored
  belong to the bank (`QuestionsAssumption`); every mapping has a positive weight and a
  numeric range has two brackets or more (`BankIsWeighted`, true of
  `question_bank.py` line by line; `_score_nr` divides by the number of brackets less
  one); respondents have one of the roles (`RolesAssumption`); and a stored selection
  is finite, empty only for a text or an inventory, within the five places of a scale
  or the brackets of a range (`SelectionsAssumption`: `submit_response` answers 400 to an
  empty submit of any other type, `views.py:400-486`; the places are what the page's
  form offers).
* `RemindersProofs`: for any people, clicks, runs and schedule, and any times with
  `RunTime < NUDGE_COOLDOWN` (`TimesAssumption`: a cooldown is a day and a run sends
  one mail after the other; the code does not enforce it). The invariant has two
  halves. A person on a run's list is still due by the counter, or was stamped after
  the list was made, and the run ends before that stamp has cooled down
  (`ListsAreCurrent`, from which `StaleListIsHarmless`). Of a person nobody raced
  over and all of whose mails were stamped, there is one sender at most, and the last
  mail is in the row or that sender is about to write it there (`MailsInv`, from
  which `SpacedUnlessRaced`); the number of senders about to stamp is what
  `reminder_count` lags behind (`MailsAreCounted`).

* `PurchaseProofs`: for any forms, any number of engagements, sessions, webhook requests
  and failures, and any buyers that go on. The assumptions are `FormsAssumption` (the
  form's fields have their types and the size is required, as the view demands) and
  the bounds being natural numbers. The heart of the invariant is `OneSender`: an
  engagement's link is unsent and not lost until its payment is recorded; the request
  that finds it unpaid is from then on the only one that can send; when there is no
  such request any more, the link was sent once or a failure has lost it. From it
  `LinkIsSentOnce` follows for any number of redeliveries and concurrent requests.
  `FormsComeInOrder` (the company has the size of the latest form) is what
  `ChargedAsDeclared` needs, `InvitedHavePaid` what the coverage half of
  `ReportsAreEarned` needs; its other half rests on what a webhook request carries, a
  session that is paid and of the tier whose branch the request is in (`TypeOK`).

Only model-checked:

* the liveness properties `CompletionIsNoticed` (of `Tier1Delivery`),
  `KeepAnsweringAndFinish` and `PaymentsAreHonoured`, since liveness under fairness, and
  the ENABLED it needs, is beyond the prover;
* the facts about the data itself: that the two banks have the properties the
  assumptions name, and that the tables of weights are those of the code. TLC evaluates
  the assumptions over all the questions on every run.

All other properties of the passing runs are theorems.

## 5. What the code does, seen while modelling

### Beside a line that says otherwise

The modules have each of these as the code does it. The four refuted runs of section 3
are the ones TLC is asked about; of the others the trace is short and is told here.

* `lifecycle.py:4`, "four-state one-way state machine": the run `states_are_one_way`. A
  generation that was open while `sweep_editable_to_locked` ran likewise replaces the
  record of a Locked snapshot, whose page says "This snapshot is now a permanent record."
  (`templates/questionnaire/partials/_locked.html:9`). `TerminalSnapshotsSettle` says
  when that is over.
* `views.py:1079`, "This invitation has been withdrawn by the audit buyer.": whom the buyer
  has removed becomes `in_progress` again when `respondent_link` read the row before
  the removal, or `completed` from a session that is still open (`MarkOpened` and
  `MarkComplete` of `Tier2Coverage` do not look at the status), and then counts for
  coverage.
* `auto_delivery.py:277`, "once per engagement and part": two requests may both find the
  governance part of a combined engagement unqueued (`_part_queued` is a SELECT, the
  event a later INSERT), and it is generated twice.
* `invitations.py:240`, "rate-limited to one per 24h", and `reminders.py:4`, "at most three
  automatic reminders in total": a click and a run that both pass the cooldown send two
  mails, and a mail whose answer is lost is in no column and is sent again
  (`SpacedUnlessRaced` and `MailsAreCounted` except exactly these).
* `services.py:240`, "Next may not advance past the last-answered position", and `:318`,
  "Slider may only visit already-answered territory": after a changed answer a revealed
  question may lie before the last answered one, and both then reach it unanswered, or
  pass it. `AskedInOrder` excepts whoever has edited.
* `views.py:360`, "Returns 404 if the respondent is already on the first question", and
  `services.py:349`: the first question's Previous button shows the last answered
  question.

### Beside no such line

The first group is about races and failures, the second about the data.

* Two regenerations may commit out of order, and the older document is then the record.
  Regenerating a combined engagement (`auto_delivery.py:347`) mails a security report
  whose questions are open.
* A progress write that fails is logged and the submit goes on: percentage and status
  stay old until the next submit. If it was the last, they stay so
  (`ProgressIsRepaired` excepts it; in Tier 2 it is the lapse `progress_lost`).
* A failure between recording a payment and mailing the dashboard link loses the link:
  the redelivery finds the row paid (`linkless` in `Purchase`). The buyer's way out is
  the login page, which is not modelled.
* A Tier 1 payment is never written to `payment_status`: the page goes on offering the
  purchase and a second session can be paid. A session paid after the snapshot has
  closed is answered 200 with a warning and has no report. `on_respondent_complete`
  delivers a Tier 1 report whatever `payment_status` is.
* Any valid access code comps an engagement fully, whatever its kind or percentage.
* An exception while scoring inside `_render_content` is swallowed into a placeholder
  report (`reports/services.py:72-88`).
* The review page lists only the governance questions.

* A multiple-choice question with one box ticked is stored as a string and not as a
  list: it scores 0.5 whatever was ticked and is never "don't know". The two grids
  (T1-B-017, T1-D-001) always score 0.5.
* Efficiency's `process_optimization` has no question that six of the roles are asked
  (BOARD, CEO, CFO, CIO, CISO, HR), which halves their composite.
* In a result of several respondents an item that nobody answered loses its
  "Not assessed" and is labelled by its score of 0; V2's `data_readiness`, which has no
  question, is always "Ad hoc", and the confidence of V2 always "low".
* When nobody clears the guard, the plain mean of all takes in the zeros of those who
  did not answer.
* `applies_to_row` of T1-F-002 and the override key of T1-F-013 and T1-F-014 are read by
  nobody.

## 6. Not modelled, and the plan

Left for later, in order:

1. Two invitations of one email, and the life of a link: `respondent_link` counts its
   30 days from `invitation_sent_at`, which a reminder does not renew, and no code
   writes the `extension_count` that would prolong them. Also the buyer's login link
   as the way out of a lost dashboard link.
2. `scoring/aiitsa.py`: the security baseline, a mean per area over `AiitsaBank`.

Left out for good:

* Report content, prompts and layout; the texts of gap actions; the rows that
  `persistence.py` writes: no decision of the program reads them.
* Report storage and download: the object store is I/O, and a download reads one row.
* The rate limiter, signed tokens, and Django's own sessions and forms.
* Content sync and the loaders of questions: offline imports; the questionnaire reads
  the Python bank and not the table they fill.
* Catalogues of industries and tools: lists for select boxes.
* Dashboards, accounts, analytics and marketing pages: read-only.
