-------------------------- MODULE ReportGeneration --------------------------
(***************************************************************************)
(* One engagement, the background jobs that generate its reports, and the  *)
(* two sweeps that close it.                                               *)
(*                                                                         *)
(* reports.services.generate_and_lock runs inside one database             *)
(* transaction that lasts minutes.  It reads the snapshot state first,     *)
(* without a row lock, renders, inserts the report, writes the scores, and *)
(* at the end updates the engagement row according to the state it READ.   *)
(* Between the two, other jobs and the sweeps commit.  Each job is         *)
(* therefore a small process, one action per step that another process can *)
(* observe or that can fail.  The upload of the PDF to R2, which is        *)
(* non-fatal and read by nothing here, is left out.                        *)
(*                                                                         *)
(* A job is a thread of auto_delivery._worker (it emails the PDF), or a    *)
(* call that only generates: the Stripe webhook of a Tier 1 checkout and   *)
(* the generate_report command.  A report is identified by its job.        *)
(***************************************************************************)
EXTENDS SnapshotLifecycle, FiniteSets

CONSTANTS
    Workers,        \* the threads of _worker for this engagement
    DirectCalls,    \* the webhooks and commands that only generate
    Requests,       \* requests that save an answer
    NoReport,       \* report_of_record_id IS NULL
    JobTime,        \* the longest a generating transaction stays open
    MaxTime         \* bound: the clock stops there

(***************************************************************************)
(* A generation takes minutes and the edit window is seven days.  The code *)
(* does not enforce the first half; it is an assumption on the deployment, *)
(* and the weakest one under which a Locked snapshot stays Locked.         *)
(***************************************************************************)
ASSUME TimingAssumption ==
    /\ JobTime \in Nat
    /\ 2 * JobTime < EditWindow

ASSUME BoundAssumption == MaxTime \in Nat

Jobs == Workers \cup DirectCalls

ASSUME NoReportAssumption == NoReport \notin Jobs

VARIABLES
    clock,
    \* columns of the engagements row
    snapshot_state,
    window_end_timestamp,
    generation_count,
    report_of_record_id,
    lock_timestamp,
    expiry_timestamp,
    edits,          \* requests the view has admitted, not yet saved
    jobs,           \* the jobs, each with what it has read
    current,        \* those whose document was rendered from today's answers
    reports,        \* committed rows of the reports table
    delivered,      \* those with delivered_at set
    inbox           \* PDFs Postmark has accepted

engagement == <<snapshot_state, window_end_timestamp, generation_count,
                report_of_record_id, lock_timestamp, expiry_timestamp>>

vars == <<clock, engagement, edits, jobs, current, reports, delivered, inbox>>

-----------------------------------------------------------------------------
(* The steps of a job.                                                      *)

\* Inside transaction.atomic(): nothing it wrote is visible to others yet.
InTransaction == {"read", "inserted", "poisoned"}

AfterCommit == {"committed", "mailed"}

Steps == {"idle", "done", "failed"} \cup InTransaction \cup AfterCommit

JobRecord ==
    [pc       : Steps,
     saw      : SnapshotStates,     \* snapshot_state as generate_and_lock read it
     start    : Nat]                \* its "now"

\* A job that holds nothing of what it read.
JobAt(step) == [pc |-> step, saw |-> Draft, start |-> 0]

Generating(j) == jobs[j].pc \in InTransaction

Goto(j, step) == jobs' = [jobs EXCEPT ![j].pc = step]

-----------------------------------------------------------------------------
Init ==
    /\ clock = 0
    /\ snapshot_state = Draft
    /\ window_end_timestamp = Never
    /\ generation_count = 0
    /\ report_of_record_id = NoReport
    /\ lock_timestamp = Never
    /\ expiry_timestamp = Never
    /\ edits = {}
    /\ jobs = [j \in Jobs |-> JobAt("idle")]
    /\ current = {}
    /\ reports = {}
    /\ delivered = {}
    /\ inbox = {}

(***************************************************************************)
(* Time passes, but no further than the oldest open transaction allows.    *)
(***************************************************************************)
Tick ==
    /\ clock < MaxTime
    /\ \A j \in Jobs : Generating(j) => clock < jobs[j].start + JobTime
    /\ clock' = clock + 1
    /\ UNCHANGED <<engagement, edits, jobs, current, reports, delivered, inbox>>

(***************************************************************************)
(* A respondent saves an answer.  require_writable_state reads the state,  *)
(* in a statement of its own, before the view does anything; the save does *)
(* not look again.  Every document rendered so far is then out of date.    *)
(***************************************************************************)
AdmitEdit(r) ==
    /\ r \notin edits
    /\ IsWritable(snapshot_state)
    /\ edits' = edits \cup {r}
    /\ UNCHANGED <<clock, engagement, jobs, current, reports, delivered, inbox>>

SaveAnswer(r) ==
    /\ r \in edits
    /\ edits' = edits \ {r}
    /\ current' = {}
    /\ UNCHANGED <<clock, engagement, jobs, reports, delivered, inbox>>

\* The request is refused as malformed, or dies.
DropEdit(r) ==
    /\ r \in edits
    /\ edits' = edits \ {r}
    /\ UNCHANGED <<clock, engagement, jobs, current, reports, delivered, inbox>>

(***************************************************************************)
(* generate_and_lock: take "now", read the state, refuse a terminal one.   *)
(* A refused call raises; the worker logs it, the webhook answers 200.     *)
(***************************************************************************)
ReadEngagement(j) ==
    /\ jobs[j].pc = "idle"
    /\ \/ /\ IsTerminal(snapshot_state)
          /\ Goto(j, "failed")
       \/ /\ ~ IsTerminal(snapshot_state)
          /\ jobs' = [jobs EXCEPT ![j] = [pc    |-> "read",
                                         saw   |-> snapshot_state,
                                         start |-> clock]]
    /\ UNCHANGED <<clock, engagement, edits, current, reports, delivered, inbox>>

(***************************************************************************)
(* Render the document from the answers as they are now, INSERT INTO       *)
(* reports, then write the scores in a try/except.  An exception raised in *)
(* Python leaves the transaction usable; an error of the database leaves   *)
(* it aborted: every later statement of the transaction fails, whatever    *)
(* the except clause swallowed.                                            *)
(***************************************************************************)
RenderAndInsert(j) ==
    /\ jobs[j].pc = "read"
    /\ \E step \in {"inserted", "poisoned"} : Goto(j, step)
    /\ current' = current \cup {j}
    /\ UNCHANGED <<clock, engagement, edits, reports, delivered, inbox>>

(***************************************************************************)
(* The last statement of the transaction, and its COMMIT.  The branch is   *)
(* chosen by the state the job read; the UPDATE names the row by id alone. *)
(***************************************************************************)
ApplyFirstGeneration(j) ==
    /\ snapshot_state' = Editable
    /\ window_end_timestamp' = WindowEnd(jobs[j].start)
    /\ generation_count' = 1
    /\ report_of_record_id' = j

ApplyRegeneration(j) ==
    /\ generation_count' = generation_count + 1
    /\ report_of_record_id' = j
    /\ UNCHANGED <<snapshot_state, window_end_timestamp>>

\* Altered: the engagement row is updated, the report row is lost.
CommitWithoutReport(j) ==
    /\ jobs[j].pc = "inserted"
    /\ IF jobs[j].saw = Draft THEN ApplyFirstGeneration(j) ELSE ApplyRegeneration(j)
    /\ Goto(j, IF j \in Workers THEN "committed" ELSE "done")
    /\ UNCHANGED <<clock, lock_timestamp, expiry_timestamp, edits, current,
                   reports, delivered, inbox>>

Commit(j) ==
    /\ jobs[j].pc = "inserted"
    /\ IF jobs[j].saw = Draft THEN ApplyFirstGeneration(j) ELSE ApplyRegeneration(j)
    /\ reports' = reports \cup {j}
    /\ Goto(j, IF j \in Workers THEN "committed" ELSE "done")
    /\ UNCHANGED <<clock, lock_timestamp, expiry_timestamp, edits, current,
                   delivered, inbox>>

(***************************************************************************)
(* An exception, or a restart of the web process, which kills its daemon   *)
(* threads.  An open transaction is rolled back and its document is gone.  *)
(* Nothing is retried.                                                     *)
(***************************************************************************)
Fail(j) ==
    /\ \/ /\ Generating(j)
          /\ jobs' = [jobs EXCEPT ![j] = JobAt("failed")]
          /\ current' = current \ {j}
       \/ /\ jobs[j].pc \in AfterCommit
          /\ Goto(j, "failed")
          /\ UNCHANGED current
    /\ UNCHANGED <<clock, engagement, edits, reports, delivered, inbox>>

\* Altered: the PDF is emailed before the transaction commits.
EmailBeforeCommit(j) ==
    /\ jobs[j].pc \in {"committed", "inserted"}
    /\ inbox' = inbox \cup {j}
    /\ IF jobs[j].pc = "committed" THEN Goto(j, "mailed") ELSE UNCHANGED jobs
    /\ UNCHANGED <<clock, engagement, edits, current, reports, delivered>>

(***************************************************************************)
(* _send_postmark: accepted; or refused, or timed out with the message     *)
(* accepted or not, which ends the job as generated_not_emailed.           *)
(***************************************************************************)
Email(j) ==
    /\ jobs[j].pc = "committed"
    /\ \/ /\ inbox' = inbox \cup {j}
          /\ Goto(j, "mailed")
       \/ /\ Goto(j, "done")
          /\ \E box \in {inbox, inbox \cup {j}} : inbox' = box
    /\ UNCHANGED <<clock, engagement, edits, current, reports, delivered>>

\* UPDATE reports SET delivered_at, in a statement of its own.
StampDelivered(j) ==
    /\ jobs[j].pc = "mailed"
    /\ delivered' = delivered \cup {j}
    /\ Goto(j, "done")
    /\ UNCHANGED <<clock, engagement, edits, current, reports, inbox>>

-----------------------------------------------------------------------------
(* The sweeps: one UPDATE statement each, run whenever someone runs them.   *)

\* Altered: the sweep writes a name that is not in the snapshot_state enum.
SweepLockMisspelt ==
    /\ WindowHasClosed(snapshot_state, window_end_timestamp, clock)
    /\ snapshot_state' = "locked"
    /\ lock_timestamp' = clock
    /\ UNCHANGED <<clock, window_end_timestamp, generation_count,
                   report_of_record_id, expiry_timestamp, edits, jobs, current,
                   reports, delivered, inbox>>

\* Altered: the sweep forgets the WHERE clause on window_end_timestamp.
SweepLockAnyEditable ==
    /\ snapshot_state = Editable
    /\ snapshot_state' = Locked
    /\ lock_timestamp' = clock
    /\ UNCHANGED <<clock, window_end_timestamp, generation_count,
                   report_of_record_id, expiry_timestamp, edits, jobs, current,
                   reports, delivered, inbox>>

\* Altered: the lock is dated from the end of the window, not from now.
SweepLockBackdated ==
    /\ WindowHasClosed(snapshot_state, window_end_timestamp, clock)
    /\ snapshot_state' = Locked
    /\ lock_timestamp' = window_end_timestamp
    /\ UNCHANGED <<clock, window_end_timestamp, generation_count,
                   report_of_record_id, expiry_timestamp, edits, jobs, current,
                   reports, delivered, inbox>>

SweepEditableToLocked ==
    /\ WindowHasClosed(snapshot_state, window_end_timestamp, clock)
    /\ snapshot_state' = Locked
    /\ lock_timestamp' = clock
    /\ UNCHANGED <<clock, window_end_timestamp, generation_count,
                   report_of_record_id, expiry_timestamp, edits, jobs, current,
                   reports, delivered, inbox>>

\* The row was created at tick 0.
SweepDraftToExpired ==
    /\ DraftHasExpired(snapshot_state, 0, clock)
    /\ snapshot_state' = Expired
    /\ expiry_timestamp' = clock
    /\ UNCHANGED <<clock, window_end_timestamp, generation_count,
                   report_of_record_id, lock_timestamp, edits, jobs, current,
                   reports, delivered, inbox>>

-----------------------------------------------------------------------------
JobStep(j) ==
    \/ ReadEngagement(j)
    \/ RenderAndInsert(j)
    \/ Commit(j)
    \/ Fail(j)
    \/ Email(j)
    \/ StampDelivered(j)

Next ==
    \/ Tick
    \/ \E r \in Requests : AdmitEdit(r) \/ SaveAnswer(r) \/ DropEdit(r)
    \/ \E j \in Jobs : JobStep(j)
    \/ SweepEditableToLocked
    \/ SweepDraftToExpired

Spec == Init /\ [][Next]_vars

-----------------------------------------------------------------------------
(* What the code gives.                                                     *)

(***************************************************************************)
(* Every column and every job stays in its type (engagements, reports).    *)
(***************************************************************************)
TypeOK ==
    /\ clock \in Nat
    /\ snapshot_state \in SnapshotStates
    /\ window_end_timestamp \in Nat \cup {Never}
    /\ generation_count \in Nat
    /\ report_of_record_id \in Jobs \cup {NoReport}
    /\ lock_timestamp \in Nat \cup {Never}
    /\ expiry_timestamp \in Nat \cup {Never}
    /\ edits \subseteq Requests
    /\ jobs \in [Jobs -> JobRecord]
    /\ current \subseteq Jobs
    /\ reports \subseteq Jobs
    /\ delivered \subseteq Jobs
    /\ inbox \subseteq Jobs

(***************************************************************************)
(* An engagement that is Editable or Locked has a report of record, and it *)
(* names a committed row; a Draft or Expired one has none.  The update of  *)
(* the engagement and the INSERT of the report stand or fall together,     *)
(* whichever job commits last and whichever jobs die.                      *)
(***************************************************************************)
RecordIsBacked ==
    IF snapshot_state \in {Editable, Locked}
      THEN report_of_record_id \in reports /\ generation_count > 0
      ELSE report_of_record_id = NoReport /\ generation_count = 0

(***************************************************************************)
(* A PDF in somebody's mailbox has its row in reports, and delivered_at is *)
(* set only on a PDF that was sent: _worker emails after the commit and    *)
(* stamps after the email, with a possible death in between.               *)
(***************************************************************************)
MailedReportsAreOnRecord == delivered \subseteq inbox /\ inbox \subseteq reports

(***************************************************************************)
(* However many jobs found the engagement in Draft and each restarted the  *)
(* edit window, the lock comes no earlier than a full window, less the     *)
(* length of one generation, after the start of any of them.               *)
(***************************************************************************)
WindowIsHonoured ==
    snapshot_state = Locked =>
        \A r \in reports :
            jobs[r].saw = Draft =>
                WindowEnd(jobs[r].start) <= lock_timestamp + JobTime

(***************************************************************************)
(* A Locked snapshot stays Locked: the update of a job that read Draft or  *)
(* Editable before the lock, and commits after it, does not reopen it.     *)
(***************************************************************************)
LockedIsFinal == [][snapshot_state = Locked => snapshot_state' = Locked]_vars

(***************************************************************************)
(* A terminal snapshot settles.  What the repository says of one from its  *)
(* first moment on (below) is true of it JobTime later, when every job     *)
(* that read the row before the sweep has come to its end: no generation   *)
(* touches the state, the window, the record or the count any more.        *)
(***************************************************************************)
Settled ==
    \/ snapshot_state = Locked /\ clock > lock_timestamp + JobTime
    \/ snapshot_state = Expired /\ clock > expiry_timestamp + JobTime

TerminalSnapshotsSettle == [][Settled => UNCHANGED engagement]_vars

-----------------------------------------------------------------------------
(* What the repository says and the code does not give.                     *)

(***************************************************************************)
(* "Implements the four-state one-way state machine" (lifecycle): the      *)
(* state changes as VALID_TRANSITIONS has it.  A generation that read      *)
(* Draft before the draft expired takes the snapshot back to Editable.     *)
(***************************************************************************)
StatesAreOneWay ==
    [][snapshot_state' # snapshot_state
         => snapshot_state' \in ValidTransitions[snapshot_state]]_vars
=============================================================================
