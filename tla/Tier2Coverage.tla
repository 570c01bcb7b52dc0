---------------------------- MODULE Tier2Coverage ----------------------------
(***************************************************************************)
(* A paid Tier 2 engagement from its first invitation to the moment its    *)
(* documents are started.  The buyer invites and removes people            *)
(* (engagements.invitations); each opens the link, attests and answers     *)
(* (questionnaire.views, questionnaire.services); each completion re-runs  *)
(* the coverage check, and the first that meets it claims coverage_met_at  *)
(* and starts the documents (reports.auto_delivery).                       *)
(*                                                                         *)
(* One statement, one transaction: every action is one SELECT or UPDATE,   *)
(* and what a request has read it keeps until its next statement.  The     *)
(* person's questions are those the role and the routing let it see; skip  *)
(* logic is left out.  The threads that generate are not here: what they   *)
(* and the sweeps do to snapshot_state is Lifecycle.                       *)
(***************************************************************************)
EXTENDS Integers, FiniteSets, Sequences, Coverage

CONSTANTS
    People,         \* rows the respondents table can come to hold
    NoPerson,
    role,           \* respondents.role
    Sees,           \* the questions each person walks
    size_bracket,   \* companies.size_bracket
    Parts,          \* parts_for(instrument, "tier_2")
    Requests,       \* requests that can be open at once
    Early,          \* bound: people who completed before the model begins,
                    \* as the buyer, whose row the start form inserts, may
    MaxLapses       \* bound: kinds of lapse that may be added to others

ASSUME PeopleAssumption == NoPerson \notin People /\ Early \subseteq People

ASSUME QuestionsAssumption == \A p \in People : IsFiniteSet(Sees[p])

ASSUME PartsAssumption == Parts \in Seq(STRING)

\* Had their completions met the coverage, they would have claimed it.
ASSUME EarlyAssumption ==
    ~ IsMet(size_bracket, Early,
            {p \in Early : EnoughAnswered(Cardinality(Sees[p]), Cardinality(Sees[p]))},
            role)

VARIABLES
    status,         \* respondents.status, "none" for no row
    answered,       \* questions of each person with a row in responses
    done,           \* completion_percentage, as a number of questions
    attested,       \* people with attestation_signed_at
    completed,      \* people with completed_at
    sessions,       \* people whose browser holds a session
    snapshot_state,
    coverage_met,   \* coverage_met_at is set
    queued,         \* number of "queued" events, by part
    notices,        \* progress notices sent to the buyer about each person
    requests,
    lapses          \* history: what has happened that can lose the trigger

people == <<status, answered, done, attested, completed, sessions>>

outcome == <<coverage_met, queued, notices>>

vars == <<people, snapshot_state, outcome, requests, lapses>>

States == INSTANCE SnapshotLifecycle WITH EditWindow <- 0, DraftLife <- 0

Gate == INSTANCE CoverageGate

-----------------------------------------------------------------------------
Statuses == {"none", "invited", "in_progress", "completed", "removed"}

Active == {p \in People : status[p] \notin {"none", "removed"}}

\* RespondentSummary.counts.
Counted == {p \in Active : /\ EnoughAnswered(done[p], Cardinality(Sees[p]))
                           /\ p \in attested}

\* check_coverage: one SELECT reads every respondent of the engagement.
CoverageIsMet == IsMet(size_bracket, Active, Counted, role)

Steps == {"idle", "opening", "attesting", "admitted", "saved", "progress",
          "asking", "no_more", "marked", "checking", "notifying", "claiming",
          "starting", "queueing"}

RequestRecord ==
    [pc     : Steps,
     person : People \cup {NoPerson},
     seen   : Nat,           \* the answers it has counted
     part   : Nat,           \* the document it is at
     met    : BOOLEAN]       \* coverage_met_at, as it read it

LapseKinds == {"request_died", "progress_lost", "late_progress", "removal",
               "late_attestation"}

Idle == [pc |-> "idle", person |-> NoPerson, seen |-> 0, part |-> 1, met |-> FALSE]

Finish(r) == requests' = [requests EXCEPT ![r] = Idle]

GoTo(r, step) == requests' = [requests EXCEPT ![r].pc = step]

Begin(r, p, step) ==
    /\ requests[r].pc = "idle"
    /\ requests' = [requests EXCEPT ![r].pc = step, ![r].person = p]

\* The early ones attested, answered everything and were announced.
Init ==
    /\ status = [p \in People |-> IF p \in Early THEN "completed" ELSE "none"]
    /\ answered = [p \in People |-> IF p \in Early THEN Sees[p] ELSE {}]
    /\ done = [p \in People |-> IF p \in Early THEN Cardinality(Sees[p]) ELSE 0]
    /\ attested = Early
    /\ completed = Early
    /\ sessions = Early
    /\ snapshot_state = States!Draft
    /\ coverage_met = FALSE
    /\ queued = [i \in DOMAIN Parts |-> 0]
    /\ notices = [p \in People |-> IF p \in Early THEN 1 ELSE 0]
    /\ requests = [r \in Requests |-> Idle]
    /\ lapses = {}

-----------------------------------------------------------------------------
(* The buyer's dashboard.                                                   *)

\* add_respondent and create_respondent: each row has an email of its own.
Invite(p) ==
    /\ status[p] = "none"
    /\ status' = [status EXCEPT ![p] = "invited"]
    /\ UNCHANGED <<answered, done, attested, completed, sessions,
                   snapshot_state, outcome, requests, lapses>>

\* remove_respondent, on any engagement, whatever its coverage.
Remove(p) ==
    /\ status[p] \notin {"none", "completed"}
    /\ status' = [status EXCEPT ![p] = "removed"]
    /\ Cardinality(lapses) < MaxLapses
    /\ lapses' = lapses \cup {"removal"}
    /\ UNCHANGED <<answered, done, attested, completed, sessions,
                   snapshot_state, outcome, requests>>

-----------------------------------------------------------------------------
(* respondent_link and attest.                                              *)

\* The SELECT of respondent_link; a link of someone removed is refused.
OpenLink(r, p) ==
    /\ status[p] \notin {"none", "removed"}
    /\ \/ /\ status[p] = "invited"
          /\ Begin(r, p, "opening")
          /\ UNCHANGED sessions
       \/ /\ status[p] # "invited"
          /\ requests[r].pc = "idle"
          /\ sessions' = sessions \cup {p}
          /\ UNCHANGED requests
    /\ UNCHANGED <<status, answered, done, attested, completed,
                   snapshot_state, outcome, lapses>>

\* Its UPDATE, by id alone, and the session.
MarkOpened(r) ==
    /\ requests[r].pc = "opening"
    /\ status' = [status EXCEPT ![requests[r].person] = "in_progress"]
    /\ sessions' = sessions \cup {requests[r].person}
    /\ Finish(r)
    /\ UNCHANGED <<answered, done, attested, completed, snapshot_state,
                   outcome, lapses>>

\* require_writable_state lets a POST through: an attestation or an answer.
Admit(r, p) ==
    /\ p \in sessions
    /\ States!IsWritable(snapshot_state)
    /\ \E step \in {"attesting", "admitted"} : Begin(r, p, step)
    /\ UNCHANGED <<people, snapshot_state, outcome, lapses>>

SignAttestation(r) ==
    /\ requests[r].pc = "attesting"
    /\ attested' = attested \cup {requests[r].person}
    /\ lapses' = IF requests[r].person \in completed \ attested
                   THEN lapses \cup {"late_attestation"} ELSE lapses
    /\ Finish(r)
    /\ UNCHANGED <<status, answered, done, completed, sessions,
                   snapshot_state, outcome>>

-----------------------------------------------------------------------------
(* submit_response and save_response.                                       *)

Save(r) ==
    /\ requests[r].pc = "admitted"
    /\ \E q \in Sees[requests[r].person] :
         answered' = [answered EXCEPT ![requests[r].person] = @ \cup {q}]
    /\ GoTo(r, "saved")
    /\ UNCHANGED <<status, done, attested, completed, sessions,
                   snapshot_state, outcome, lapses>>

\* _update_progress counts the answers ...
CountAnswers(r) ==
    /\ requests[r].pc = "saved"
    /\ requests' = [requests EXCEPT
                      ![r].pc = "progress",
                      ![r].seen = Cardinality(answered[requests[r].person])]
    /\ UNCHANGED <<people, snapshot_state, outcome, lapses>>

\* Altered: the count is taken from the column, one more than it says.
WriteProgressPlusOne(r) ==
    LET p == requests[r].person IN
    /\ requests[r].pc = "progress"
    /\ done' = [done EXCEPT ![p] = @ + 1]
    /\ status' = [status EXCEPT ![p] = IF @ = "invited" THEN "in_progress" ELSE @]
    /\ GoTo(r, "asking")
    /\ UNCHANGED <<answered, attested, completed, sessions, snapshot_state,
                   outcome, lapses>>

(***************************************************************************)
(* ... and writes what it counted, which may by now be too few; or enough  *)
(* at last, when another request has stamped the completion and looked.    *)
(***************************************************************************)
WriteProgress(r) ==
    LET p == requests[r].person IN
    /\ requests[r].pc = "progress"
    /\ done' = [done EXCEPT ![p] = requests[r].seen]
    /\ status' = [status EXCEPT ![p] = IF @ = "invited" THEN "in_progress" ELSE @]
    /\ lapses' = CASE requests[r].seen < done[p] -> lapses \cup {"progress_lost"}
                    [] requests[r].seen > done[p] /\ p \in completed ->
                         lapses \cup {"late_progress"}
                    [] OTHER -> lapses
    /\ GoTo(r, "asking")
    /\ UNCHANGED <<answered, attested, completed, sessions, snapshot_state,
                   outcome>>

\* An exception in _update_progress is logged and the save goes on.
ProgressFails(r) ==
    /\ requests[r].pc \in {"saved", "progress"}
    /\ Cardinality(lapses) < MaxLapses
    /\ lapses' = lapses \cup {"progress_lost"}
    /\ GoTo(r, "asking")
    /\ UNCHANGED <<people, snapshot_state, outcome>>

\* get_next_question_context: is there a question left?
NextQuestion(r) ==
    /\ requests[r].pc = "asking"
    /\ IF Sees[requests[r].person] \subseteq answered[requests[r].person]
         THEN GoTo(r, "no_more")
         ELSE Finish(r)
    /\ UNCHANGED <<people, snapshot_state, outcome, lapses>>

-----------------------------------------------------------------------------
(* on_respondent_complete.                                                  *)

\* Altered: the UPDATE forgets WHERE completed_at IS NULL.
MarkCompleteAgain(r) ==
    /\ requests[r].pc = "no_more"
    /\ completed' = completed \cup {requests[r].person}
    /\ status' = [status EXCEPT ![requests[r].person] = "completed"]
    /\ GoTo(r, "marked")
    /\ UNCHANGED <<answered, done, attested, sessions, snapshot_state,
                   outcome, lapses>>

\* _mark_complete: the UPDATE asks for completed_at, never for status.
MarkComplete(r) ==
    /\ requests[r].pc = "no_more"
    /\ \/ /\ requests[r].person \in completed
          /\ Finish(r)
          /\ UNCHANGED <<status, completed>>
       \/ /\ requests[r].person \notin completed
          /\ completed' = completed \cup {requests[r].person}
          /\ status' = [status EXCEPT ![requests[r].person] = "completed"]
          /\ GoTo(r, "marked")
    /\ UNCHANGED <<answered, done, attested, sessions, snapshot_state,
                   outcome, lapses>>

\* SELECT tier, coverage_met_at.
ReadEngagement(r) ==
    /\ requests[r].pc = "marked"
    /\ requests' = [requests EXCEPT ![r].pc = "checking", ![r].met = coverage_met]
    /\ UNCHANGED <<people, snapshot_state, outcome, lapses>>

\* Altered: the coverage is evaluated before the completion is stamped.
CheckWithoutSelf(r) ==
    /\ requests[r].pc = "checking"
    /\ IF /\ IsMet(size_bracket, Active \ {requests[r].person},
                   Counted \ {requests[r].person}, role)
          /\ ~ requests[r].met
         THEN GoTo(r, "claiming")
         ELSE GoTo(r, "notifying")
    /\ UNCHANGED <<people, snapshot_state, outcome, lapses>>

CheckCoverage(r) ==
    /\ requests[r].pc = "checking"
    /\ IF CoverageIsMet /\ ~ requests[r].met
         THEN GoTo(r, "claiming")
         ELSE GoTo(r, "notifying")
    /\ UNCHANGED <<people, snapshot_state, outcome, lapses>>

\* notify_buyer_progress; an exception in it is logged and changes nothing.
NotifyBuyer(r) ==
    /\ requests[r].pc = "notifying"
    /\ \/ notices' = [notices EXCEPT ![requests[r].person] = @ + 1]
       \/ UNCHANGED notices
    /\ Finish(r)
    /\ UNCHANGED <<people, snapshot_state, coverage_met, queued, lapses>>

\* Altered: the claim forgets WHERE coverage_met_at IS NULL.
ClaimUnchecked(r) ==
    /\ requests[r].pc = "claiming"
    /\ coverage_met' = TRUE
    /\ GoTo(r, "starting")
    /\ UNCHANGED <<people, snapshot_state, queued, notices, lapses>>

\* UPDATE coverage_met_at WHERE coverage_met_at IS NULL RETURNING id.
ClaimCoverage(r) ==
    /\ requests[r].pc = "claiming"
    /\ coverage_met' = TRUE
    /\ IF coverage_met THEN Finish(r) ELSE GoTo(r, "starting")
    /\ UNCHANGED <<people, snapshot_state, queued, notices, lapses>>

\* The loop over the parts: _part_queued ...
PartQueued(r) ==
    /\ requests[r].pc = "starting"
    /\ IF requests[r].part \notin DOMAIN Parts
         THEN Finish(r)
         ELSE IF queued[requests[r].part] > 0
           THEN requests' = [requests EXCEPT ![r].part = @ + 1]
           ELSE GoTo(r, "queueing")
    /\ UNCHANGED <<people, snapshot_state, outcome, lapses>>

\* ... and the rest of _start_part: the event, and the thread.
StartPart(r) ==
    /\ requests[r].pc = "queueing"
    /\ queued' = [queued EXCEPT ![requests[r].part] = @ + 1]
    /\ requests' = [requests EXCEPT ![r].pc = "starting", ![r].part = @ + 1]
    /\ UNCHANGED <<people, snapshot_state, coverage_met, notices, lapses>>

-----------------------------------------------------------------------------
\* The process is restarted or times out, or a statement fails.
Die(r) ==
    /\ requests[r].pc # "idle"
    /\ Cardinality(lapses) < MaxLapses
    /\ lapses' = lapses \cup {"request_died"}
    /\ Finish(r)
    /\ UNCHANGED <<people, snapshot_state, outcome>>

\* The threads that generate, and the two sweeps (see ReportGeneration).
Lifecycle ==
    /\ \/ /\ snapshot_state \in {States!Draft, States!Expired}
          /\ \E i \in DOMAIN Parts : queued[i] > 0
          /\ snapshot_state' = States!Editable
       \/ /\ snapshot_state = States!Draft
          /\ snapshot_state' = States!Expired
       \/ /\ snapshot_state = States!Editable
          /\ snapshot_state' = States!Locked
    /\ UNCHANGED <<people, outcome, requests, lapses>>

RequestStep(r) ==
    \/ MarkOpened(r)
    \/ SignAttestation(r)
    \/ Save(r)
    \/ CountAnswers(r)
    \/ WriteProgress(r)
    \/ ProgressFails(r)
    \/ NextQuestion(r)
    \/ MarkComplete(r)
    \/ ReadEngagement(r)
    \/ CheckCoverage(r)
    \/ NotifyBuyer(r)
    \/ ClaimCoverage(r)
    \/ PartQueued(r)
    \/ StartPart(r)
    \/ Die(r)

Next ==
    \/ \E p \in People : Invite(p) \/ Remove(p)
    \/ \E r \in Requests, p \in People : OpenLink(r, p) \/ Admit(r, p)
    \/ \E r \in Requests : RequestStep(r)
    \/ Lifecycle

Spec == Init /\ [][Next]_vars

-----------------------------------------------------------------------------
(***************************************************************************)
(* The rows, requests and counters stay in their types, and no column says *)
(* more answers than the respondent has given (_update_progress).          *)
(***************************************************************************)
TypeOK ==
    /\ status \in [People -> Statuses]
    /\ answered \in [People -> SUBSET UNION {Sees[p] : p \in People}]
    /\ done \in [People -> Nat]
    /\ \A p \in People : /\ answered[p] \subseteq Sees[p]
                         /\ done[p] <= Cardinality(answered[p])
    /\ attested \subseteq sessions
    /\ completed \subseteq sessions
    /\ sessions \subseteq People
    /\ snapshot_state \in States!SnapshotStates
    /\ coverage_met \in BOOLEAN
    /\ queued \in [DOMAIN Parts -> Nat]
    /\ notices \in [People -> Nat]
    /\ requests \in [Requests -> RequestRecord]
    /\ lapses \subseteq LapseKinds

(***************************************************************************)
(* A completion is announced to the buyer at most once, however often the  *)
(* respondent saves a last answer or edits one afterwards: completed_at is *)
(* claimed by one request (_mark_complete).                                *)
(***************************************************************************)
CompletionsAreAnnouncedOnce == \A p \in People : notices[p] <= 1

(***************************************************************************)
(* When nothing is running, everyone invited has completed and coverage is *)
(* met, then coverage was claimed, whichever completions ran at the same   *)
(* time: each stamps itself before it looks at the others.  The only ways  *)
(* to lose the trigger are the lapses: a request or a count that is lost,  *)
(* and what makes the coverage met after the last completion has looked, a *)
(* removal, an attestation, or a count written late.                       *)
(***************************************************************************)
LastCompletionClaims ==
    (/\ \A r \in Requests : requests[r].pc = "idle"
     /\ Active \subseteq completed
     /\ CoverageIsMet
     /\ lapses = {})
    => coverage_met

(***************************************************************************)
(* The requests implement the gate: coverage is claimed once, and each     *)
(* document is started once, after it, in order (on_respondent_complete).  *)
(***************************************************************************)
GateSpec == Gate!Spec

-----------------------------------------------------------------------------
(***************************************************************************)
(* "Coverage met ... Your report will be generated shortly"                *)
(* (templates/engagements/respondents.html, shown when coverage is met and *)
(* coverage_met_at is not set): some request is about to claim it.         *)
(***************************************************************************)
ShortlyGenerated ==
    (CoverageIsMet /\ ~ coverage_met)
    => \E r \in Requests : requests[r].pc # "idle"
=============================================================================
