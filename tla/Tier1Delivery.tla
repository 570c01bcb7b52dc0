---------------------------- MODULE Tier1Delivery ----------------------------
(***************************************************************************)
(* A Tier 1 engagement from the respondent's answers to the PDF: the       *)
(* requests of questionnaire.views that save an answer and notice that a   *)
(* questionnaire is finished, reports.auto_delivery that claims the        *)
(* completion and starts one thread per document, and, as Gen, the threads *)
(* themselves and the sweeps.                                              *)
(*                                                                         *)
(* The respondent may have several requests open (two tabs, a double       *)
(* click).  A request runs each SQL statement in a transaction of its own  *)
(* and may die between any two.  Every question of the bank is taken as    *)
(* visible to the respondent; what answers hide and reveal is the subject  *)
(* of Questionnaire.                                                       *)
(***************************************************************************)
EXTENDS Integers, FiniteSets, Sequences

CONSTANTS
    Instruments,    \* what engagements.instrument may be
    Bank,           \* the questions of each audit still open, by instrument
    NoQuestion,
    Requests,       \* requests the respondent can have open at once
    Workers,        \* bound: the threads that can be started
    MaxDeaths,      \* bound: the requests that can die, by instrument
    NoReport, EditWindow, DraftLife, JobTime, MaxTime

Audits == {"tier_1", "aiitsa"}

ASSUME InstrumentAssumption == Instruments \subseteq Audits \cup {"combined"}

ASSUME BoundsAssumption ==
    /\ IsFiniteSet(Workers)
    /\ MaxDeaths \in [Instruments -> Nat]

\* What ReportGeneration assumes of the constants it shares.
ASSUME GenerationAssumption ==
    /\ EditWindow \in Nat /\ DraftLife \in Nat /\ JobTime \in Nat /\ MaxTime \in Nat
    /\ 2 * JobTime < EditWindow
    /\ NoReport \notin Workers

VARIABLES
    instrument,     \* engagements.instrument
    answered,       \* questions with a row in responses
    completed,      \* respondents.completed_at is set
    queued,         \* number of "queued" events, by part
    requests,
    started,        \* the threads that were started, each for one part
    deaths,         \* history: requests that have died
    \* of ReportGeneration
    clock, snapshot_state, window_end_timestamp, generation_count,
    report_of_record_id, lock_timestamp, expiry_timestamp,
    jobs, current, reports, delivered, inbox

delivery == <<instrument, answered, completed, queued, requests, started,
              deaths>>

engagement == <<snapshot_state, window_end_timestamp, generation_count,
                report_of_record_id, lock_timestamp, expiry_timestamp>>

generation == <<clock, engagement, jobs, current, reports, delivered, inbox>>

vars == <<delivery, generation>>

\* The webhook and the command that call generate_and_lock themselves are
\* in ReportGeneration, and are not part of this path.
Gen == INSTANCE ReportGeneration
         WITH edits <- {r \in Requests : requests[r].pc = "admitted"},
              DirectCalls <- {}

-----------------------------------------------------------------------------
\* parts_for, for tier_1.
PartsFor(what) ==
    IF what = "combined" THEN <<"tier_1", "aiitsa">> ELSE <<what>>

Parts == {PartsFor(instrument)[i] : i \in DOMAIN PartsFor(instrument)}

\* The questions the respondent walks.
Walk == UNION {Bank[instrument][p] : p \in Parts}

Finished(p) == Bank[instrument][p] \subseteq answered

AllAnswered == Walk \subseteq answered

RequestSteps == {"idle", "admitted", "saved", "one_part", "no_more",
                 "starting", "queueing", "spawning"}

Idle == [pc |-> "idle", question |-> NoQuestion, todo |-> <<>>]

\* Which threads they are does not matter.
StartThreads(n) ==
    /\ n <= Cardinality(Workers \ started)
    /\ started' = started \cup CHOOSE new \in SUBSET (Workers \ started) : Cardinality(new) = n

\* The request has nothing more to do, or goes on with the next part.
GoOn(r, parts) ==
    requests' = [requests EXCEPT
                   ![r] = IF parts = <<>> THEN Idle
                            ELSE [pc |-> "starting", question |-> NoQuestion,
                                  todo |-> parts]]

GoTo(r, step) == requests' = [requests EXCEPT ![r].pc = step]

\* The question just answered plays no part any more.
PassTo(r, step) == requests' = [requests EXCEPT ![r].pc = step, ![r].question = NoQuestion]

Init ==
    /\ instrument \in Instruments
    /\ answered = {}
    /\ completed = FALSE
    /\ queued = [p \in Parts |-> 0]
    /\ requests = [r \in Requests |-> Idle]
    /\ started = {}
    /\ deaths = 0
    /\ Gen!Init

-----------------------------------------------------------------------------
(* submit_response.                                                         *)

\* Altered: the view is not wrapped by require_writable_state.
SubmitUnchecked(r) ==
    /\ requests[r].pc = "idle"
    /\ \E q \in Walk :
         requests' = [requests EXCEPT ![r].pc = "admitted", ![r].question = q]
    /\ UNCHANGED <<instrument, answered, completed, queued, started, deaths,
                   generation>>

\* require_writable_state lets the request through, for any question.
Submit(r) ==
    /\ requests[r].pc = "idle"
    /\ Gen!IsWritable(snapshot_state)
    /\ \E q \in Walk :
         requests' = [requests EXCEPT ![r].pc = "admitted", ![r].question = q]
    /\ UNCHANGED <<instrument, answered, completed, queued, started, deaths,
                   generation>>

\* save_response: the documents rendered so far are out of date.
Save(r) ==
    /\ requests[r].pc = "admitted"
    /\ answered' = answered \cup {requests[r].question}
    /\ GoTo(r, "saved")
    /\ current' = {}
    /\ UNCHANGED <<instrument, completed, queued, started, deaths, clock,
                   engagement, jobs, reports, delivered, inbox>>

\* Altered: no question left in the audit of the one just answered is the end.
NextQuestionOfAudit(r) ==
    /\ requests[r].pc = "saved"
    /\ IF \E p \in Parts : /\ requests[r].question \in Bank[instrument][p]
                           /\ Finished(p)
         THEN PassTo(r, "no_more")
         ELSE GoOn(r, <<>>)
    /\ UNCHANGED <<instrument, answered, completed, queued, started, deaths,
                   generation>>

(***************************************************************************)
(* get_next_question_context reads the answers of all requests.  None left *)
(* means the respondent is done; otherwise a governance answer of a        *)
(* combined engagement may have finished the governance part.              *)
(***************************************************************************)
NextQuestion(r) ==
    /\ requests[r].pc = "saved"
    /\ IF AllAnswered
         THEN PassTo(r, "no_more")
         ELSE IF /\ instrument = "combined"
                 /\ requests[r].question \in Bank[instrument]["tier_1"]
           THEN PassTo(r, "one_part")
           ELSE GoOn(r, <<>>)
    /\ UNCHANGED <<instrument, answered, completed, queued, started, deaths,
                   generation>>

\* _maybe_deliver_part and on_part_complete.
MaybeDeliverPart(r) ==
    /\ requests[r].pc = "one_part"
    /\ GoOn(r, IF Finished("tier_1") THEN <<"tier_1">> ELSE <<>>)
    /\ UNCHANGED <<instrument, answered, completed, queued, started, deaths,
                   generation>>

-----------------------------------------------------------------------------
(* on_respondent_complete and _start_part.                                  *)

\* Altered: the UPDATE forgets WHERE completed_at IS NULL.
MarkCompleteAgain(r) ==
    /\ requests[r].pc = "no_more"
    /\ completed' = TRUE
    /\ GoOn(r, PartsFor(instrument))
    /\ UNCHANGED <<instrument, answered, queued, started, deaths, generation>>

\* Altered: the two outcomes of the claim are swapped.
MarkCompleteSwapped(r) ==
    /\ requests[r].pc = "no_more"
    /\ completed' = TRUE
    /\ GoOn(r, IF completed THEN PartsFor(instrument) ELSE <<>>)
    /\ UNCHANGED <<instrument, answered, queued, started, deaths, generation>>

\* _mark_complete: one UPDATE claims the completion.
MarkComplete(r) ==
    /\ requests[r].pc = "no_more"
    /\ completed' = TRUE
    /\ GoOn(r, IF completed THEN <<>> ELSE PartsFor(instrument))
    /\ UNCHANGED <<instrument, answered, queued, started, deaths, generation>>

\* _part_queued, a SELECT.
PartQueued(r) ==
    /\ requests[r].pc = "starting"
    /\ IF queued[Head(requests[r].todo)] > 0
         THEN GoOn(r, Tail(requests[r].todo))
         ELSE GoTo(r, "queueing")
    /\ UNCHANGED <<instrument, answered, completed, queued, started, deaths,
                   generation>>

\* _log_event of _start_part, an INSERT that looks at nothing.
QueuePart(r) ==
    /\ requests[r].pc = "queueing"
    /\ queued' = [queued EXCEPT ![Head(requests[r].todo)] = @ + 1]
    /\ GoTo(r, "spawning")
    /\ UNCHANGED <<instrument, answered, completed, started, deaths,
                   generation>>

\* The daemon thread of _start_part.
SpawnThread(r) ==
    /\ requests[r].pc = "spawning"
    /\ StartThreads(1)
    /\ GoOn(r, Tail(requests[r].todo))
    /\ UNCHANGED <<instrument, answered, completed, queued, deaths, generation>>

(***************************************************************************)
(* The request dies: the worker process is restarted or times out, or a    *)
(* statement fails and the view logs the exception.  Nothing is retried.   *)
(***************************************************************************)
Die(r) ==
    /\ requests[r].pc # "idle"
    /\ GoOn(r, <<>>)
    /\ deaths < MaxDeaths[instrument]
    /\ deaths' = deaths + 1
    /\ UNCHANGED <<instrument, answered, completed, queued, started,
                   generation>>

(***************************************************************************)
(* The Regenerate button of the review page: regenerate_after_edit starts  *)
(* a thread for every part of an Editable engagement.                      *)
(***************************************************************************)
Regenerate ==
    /\ snapshot_state = Gen!Editable
    /\ StartThreads(Cardinality(Parts))
    /\ UNCHANGED <<instrument, answered, completed, queued, requests, deaths,
                   generation>>

-----------------------------------------------------------------------------
\* A thread that was started, the clock, the sweeps.
Background ==
    /\ UNCHANGED delivery
    /\ \/ \E w \in started : Gen!JobStep(w)
       \/ Gen!Tick
       \/ Gen!SweepEditableToLocked
       \/ Gen!SweepDraftToExpired

RequestStep(r) ==
    \/ Save(r)
    \/ NextQuestion(r)
    \/ MaybeDeliverPart(r)
    \/ MarkComplete(r)
    \/ PartQueued(r)
    \/ QueuePart(r)
    \/ SpawnThread(r)

Next ==
    \/ \E r \in Requests : Submit(r) \/ RequestStep(r) \/ Die(r)
    \/ Regenerate
    \/ Background

(***************************************************************************)
(* A request that was admitted runs on; nobody has to submit, to click, to *)
(* sweep or to keep a thread alive.                                        *)
(***************************************************************************)
Fairness == \A r \in Requests : WF_vars(RequestStep(r))

Spec == Init /\ [][Next]_vars /\ Fairness

-----------------------------------------------------------------------------
(***************************************************************************)
(* Requests, threads and events stay in their types (auto_delivery).       *)
(***************************************************************************)
TypeOK ==
    /\ instrument \in Instruments
    /\ answered \subseteq Walk
    /\ completed \in BOOLEAN
    /\ queued \in [Parts -> Nat]
    /\ requests \in [Requests -> [pc       : RequestSteps,
                                 question : Walk \cup {NoQuestion},
                                 todo     : Seq(Parts)]]
    /\ started \subseteq Workers
    /\ deaths \in 0..MaxDeaths[instrument]

(***************************************************************************)
(* A part is queued only when its questions are answered, and completed_at *)
(* is set only when all are, in whatever order the respondent's requests   *)
(* save, look and claim.                                                   *)
(***************************************************************************)
QueuedPartsAreFinished ==
    /\ \A p \in Parts : queued[p] > 0 => Finished(p)
    /\ completed => AllAnswered

(***************************************************************************)
(* The last part has one way to be queued, the completion, and however     *)
(* many requests find nothing more to ask, one of them claims it: "a       *)
(* second call for the same respondent is a no-op" (auto_delivery).        *)
(***************************************************************************)
LastPartIsQueuedOnce ==
    queued[PartsFor(instrument)[Len(PartsFor(instrument))]] <= 1

(***************************************************************************)
(* Whichever request saves last, some request notices that the             *)
(* questionnaire is finished and queues every part, unless one has died.   *)
(***************************************************************************)
CompletionIsNoticed ==
    AllAnswered ~> (deaths > 0 \/ \A p \in Parts : queued[p] > 0)

(***************************************************************************)
(* The threads and the requests together are a ReportGeneration: what it   *)
(* promises for any jobs and edits holds of the ones started here.         *)
(***************************************************************************)
GenerationSpec == Gen!Spec

=============================================================================
