----------------------- MODULE ReportGenerationProofs -----------------------
(***************************************************************************)
(* Proofs about ReportGeneration, for any number of jobs and any values of *)
(* the time constants that satisfy TimingAssumption.                       *)
(*                                                                         *)
(* The argument for LockedIsFinal: every job that found the engagement in  *)
(* Draft started within JobTime of every other one (OpenersAreClose), so   *)
(* within JobTime of the one whose window is in the row.  The lock comes a *)
(* window after that start, and a window is longer than two generations:   *)
(* no such job is still running (NoOpenerAfterLock).                       *)
(***************************************************************************)
EXTENDS ReportGeneration, TLAPS

\* A running transaction is younger than JobTime.
JobsAreYoung ==
    \A j \in Jobs : Generating(j) =>
        /\ jobs[j].start <= clock
        /\ clock <= jobs[j].start + JobTime

\* What a running transaction read is something the row once said.
JobsSawTheRow ==
    \A j \in Jobs : Generating(j) =>
        /\ jobs[j].saw \in {Draft, Editable}
        /\ jobs[j].saw = Editable => snapshot_state \in {Editable, Locked}

\* Reports are written by jobs that are past their transaction.
ReportsAreCommitted ==
    /\ \A j \in Jobs : jobs[j].pc = "idle" \/ Generating(j) => j \notin reports
    /\ \A j \in Jobs : jobs[j].pc \in AfterCommit => j \in reports
    /\ snapshot_state \notin {Editable, Locked} => reports = {}

\* A job that read Draft and has committed, or still may.
Opener(j) == jobs[j].saw = Draft /\ (Generating(j) \/ j \in reports)

OpenersAreClose ==
    \A i, j \in Jobs :
        Opener(i) /\ Opener(j) => jobs[i].start <= jobs[j].start + JobTime

\* The window in the row was opened by a committed job that read Draft.
WindowHasAnOpener ==
    snapshot_state \in {Editable, Locked} =>
        \E r \in reports :
            /\ jobs[r].saw = Draft
            /\ window_end_timestamp = WindowEnd(jobs[r].start)

NoOpenerAfterLock ==
    snapshot_state = Locked =>
        \A j \in Jobs : Generating(j) => jobs[j].saw = Editable

\* No transaction starts on a terminal snapshot.
NoneStartsOnATerminal ==
    /\ snapshot_state = Locked =>
         /\ lock_timestamp \in Nat
         /\ \A j \in Jobs : Generating(j) => jobs[j].start <= lock_timestamp
    /\ snapshot_state = Expired =>
         /\ expiry_timestamp \in Nat
         /\ \A j \in Jobs : Generating(j) => jobs[j].start <= expiry_timestamp

\* A job that has emailed has its mail in the inbox.
MailHasLeft == \A j \in Jobs : jobs[j].pc = "mailed" => j \in inbox

IInv ==
    /\ TypeOK
    /\ RecordIsBacked
    /\ JobsAreYoung
    /\ JobsSawTheRow
    /\ ReportsAreCommitted
    /\ OpenersAreClose
    /\ WindowHasAnOpener
    /\ WindowIsHonoured
    /\ NoOpenerAfterLock
    /\ NoneStartsOnATerminal
    /\ MailHasLeft
    /\ MailedReportsAreOnRecord

-----------------------------------------------------------------------------
USE DEF Draft, Editable, Locked, Expired, SnapshotStates, Never

(***************************************************************************)
(* What the constants' assumptions amount to: the edit window is longer    *)
(* than two generations.                                                   *)
(***************************************************************************)
LEMMA Arithmetic ==
    /\ EditWindow \in Nat /\ DraftLife \in Nat /\ JobTime \in Nat
    /\ MaxTime \in Nat
    /\ 2 * JobTime < EditWindow
    /\ NoReport \notin Jobs
BY LifecycleAssumption, TimingAssumption, BoundAssumption, NoReportAssumption

(***************************************************************************)
(* Goto moves the program counter of one job and nothing else.             *)
(***************************************************************************)
LEMMA GotoMoves ==
    ASSUME jobs \in [Jobs -> JobRecord],
           NEW k \in Jobs, NEW step \in Steps, Goto(k, step)
    PROVE  /\ jobs' \in [Jobs -> JobRecord]
           /\ jobs'[k].pc = step
           /\ \A j \in Jobs \ {k} : jobs'[j] = jobs[j]
           /\ \A j \in Jobs : /\ jobs'[j].saw = jobs[j].saw
                             /\ jobs'[j].start = jobs[j].start
BY DEF Goto, JobRecord

(***************************************************************************)
(* The initial row is a Draft with no report and no job running.           *)
(***************************************************************************)
LEMMA InitIInv == Init => IInv
<1> SUFFICES ASSUME Init PROVE IInv
  OBVIOUS
<1> USE DEF Init, JobAt, Generating, InTransaction
<1>1. TypeOK
  BY Arithmetic DEF TypeOK, JobRecord, Steps, AfterCommit
<1>2. RecordIsBacked /\ JobsAreYoung /\ JobsSawTheRow
  BY DEF RecordIsBacked, JobsAreYoung, JobsSawTheRow
<1>3. ReportsAreCommitted /\ OpenersAreClose
  BY DEF ReportsAreCommitted, AfterCommit, OpenersAreClose, Opener
<1>4. WindowHasAnOpener /\ WindowIsHonoured /\ NoOpenerAfterLock
  BY DEF WindowHasAnOpener, WindowIsHonoured, NoOpenerAfterLock
<1>5. NoneStartsOnATerminal /\ MailHasLeft /\ MailedReportsAreOnRecord
  BY DEF NoneStartsOnATerminal, MailHasLeft, MailedReportsAreOnRecord
<1> QED
  BY <1>1, <1>2, <1>3, <1>4, <1>5 DEF IInv

(***************************************************************************)
(* Time passes no further than JobTime after the start of any transaction. *)
(***************************************************************************)
LEMMA TickIInv == IInv /\ Tick => IInv'
<1> SUFFICES ASSUME IInv, Tick PROVE IInv'
  OBVIOUS
<1> USE DEF IInv, Tick, engagement, Generating, InTransaction
<1>1. TypeOK'
  BY DEF TypeOK
<1>2. JobsAreYoung'
  BY Arithmetic DEF JobsAreYoung, TypeOK, JobRecord
<1>3. (RecordIsBacked /\ JobsSawTheRow /\ ReportsAreCommitted /\ OpenersAreClose)'
  BY DEF RecordIsBacked, JobsSawTheRow, ReportsAreCommitted, OpenersAreClose, Opener
<1>4. (WindowHasAnOpener /\ WindowIsHonoured /\ NoOpenerAfterLock)'
  BY DEF WindowHasAnOpener, WindowIsHonoured, NoOpenerAfterLock
<1>5. (NoneStartsOnATerminal /\ MailHasLeft /\ MailedReportsAreOnRecord)'
  BY DEF NoneStartsOnATerminal, MailHasLeft, MailedReportsAreOnRecord
<1> QED
  BY <1>1, <1>2, <1>3, <1>4, <1>5 DEF IInv

(***************************************************************************)
(* An edit never touches the row; saved, it makes documents out of date.   *)
(***************************************************************************)
LEMMA EditIInv ==
    ASSUME IInv, NEW r \in Requests, AdmitEdit(r) \/ SaveAnswer(r) \/ DropEdit(r)
    PROVE  IInv'
<1> USE DEF IInv, AdmitEdit, SaveAnswer, DropEdit, engagement, Generating, InTransaction
<1>1. TypeOK'
  BY DEF TypeOK
<1>2. (RecordIsBacked /\ JobsAreYoung /\ JobsSawTheRow)'
  BY DEF RecordIsBacked, JobsAreYoung, JobsSawTheRow
<1>3. (ReportsAreCommitted /\ OpenersAreClose)'
  BY DEF ReportsAreCommitted, OpenersAreClose, Opener
<1>4. (WindowHasAnOpener /\ WindowIsHonoured /\ NoOpenerAfterLock)'
  BY DEF WindowHasAnOpener, WindowIsHonoured, NoOpenerAfterLock
<1>5. (NoneStartsOnATerminal /\ MailHasLeft /\ MailedReportsAreOnRecord)'
  BY DEF NoneStartsOnATerminal, MailHasLeft, MailedReportsAreOnRecord
<1> QED
  BY <1>1, <1>2, <1>3, <1>4, <1>5 DEF IInv

(***************************************************************************)
(* A transaction starts only on a Draft or Editable row, and is young.     *)
(***************************************************************************)
LEMMA ReadEngagementIInv ==
    ASSUME IInv, NEW k \in Jobs, ReadEngagement(k) PROVE IInv'
<1> USE DEF IInv, ReadEngagement, engagement, Generating, InTransaction
<1>0. TypeOK
  OBVIOUS
<1>1. CASE IsTerminal(snapshot_state)
  <2>1. /\ Goto(k, "failed")
        /\ k \notin reports
        /\ UNCHANGED <<clock, engagement, current, reports, delivered, inbox>>
    BY <1>1 DEF ReportsAreCommitted
  <2>2. /\ jobs' \in [Jobs -> JobRecord]
        /\ jobs'[k].pc = "failed"
        /\ \A j \in Jobs \ {k} : jobs'[j] = jobs[j]
        /\ \A j \in Jobs : jobs'[j].saw = jobs[j].saw /\ jobs'[j].start = jobs[j].start
    BY <2>1, GotoMoves DEF TypeOK, Steps
  <2>3. TypeOK'
    BY <2>1, <2>2 DEF TypeOK
  <2>4. (RecordIsBacked /\ JobsAreYoung /\ JobsSawTheRow)'
    BY <2>1, <2>2 DEF RecordIsBacked, JobsAreYoung, JobsSawTheRow
  <2>5. (ReportsAreCommitted /\ OpenersAreClose)'
    BY <2>1, <2>2 DEF ReportsAreCommitted, AfterCommit, OpenersAreClose, Opener
  <2>6. (WindowHasAnOpener /\ WindowIsHonoured /\ NoOpenerAfterLock)'
    <3>1. (\A r \in reports : r \in Jobs) /\ reports' = reports
      BY <2>1 DEF TypeOK
    <3> QED
      BY <2>1, <2>2, <3>1 DEF WindowHasAnOpener, WindowIsHonoured, NoOpenerAfterLock, WindowEnd
  <2>7. (NoneStartsOnATerminal /\ MailHasLeft /\ MailedReportsAreOnRecord)'
    BY <2>1, <2>2 DEF NoneStartsOnATerminal, MailHasLeft, MailedReportsAreOnRecord
  <2> QED
    BY <2>3, <2>4, <2>5, <2>6, <2>7 DEF IInv
<1>2. CASE ~ IsTerminal(snapshot_state)
  <2>1. /\ jobs' = [jobs EXCEPT ![k] = [pc |-> "read", saw |-> snapshot_state,
                                         start |-> clock]]
        /\ k \notin reports
        /\ snapshot_state \in {Draft, Editable}
        /\ UNCHANGED <<clock, engagement, current, reports, delivered, inbox>>
    BY <1>2 DEF IsTerminal, ReportsAreCommitted, TypeOK
  <2>2. /\ \A j \in Jobs \ {k} : jobs'[j] = jobs[j]
        /\ jobs'[k].pc = "read"
        /\ jobs'[k].saw = snapshot_state
        /\ jobs'[k].start = clock
    BY <2>1 DEF TypeOK, JobRecord
  <2>3. TypeOK'
    BY <2>1 DEF TypeOK, JobRecord, Steps
  <2>4. (RecordIsBacked /\ JobsAreYoung /\ JobsSawTheRow)'
    BY <2>1, <2>2, Arithmetic DEF TypeOK, RecordIsBacked, JobsAreYoung, JobsSawTheRow
  <2>5. ReportsAreCommitted'
    BY <2>1, <2>2 DEF ReportsAreCommitted, AfterCommit
  <2>6. OpenersAreClose'
    <3>1. CASE snapshot_state = Draft
      <4>1. reports' = {}
        BY <3>1, <2>1 DEF ReportsAreCommitted
      <4>2. \A j \in Jobs : Generating(j)' =>
              /\ jobs'[j].start \in Nat
              /\ jobs'[j].start <= clock
              /\ clock <= jobs'[j].start + JobTime
        BY <2>2, Arithmetic DEF TypeOK, JobRecord, JobsAreYoung
      <4> QED
        BY <4>1, <4>2, Arithmetic DEF OpenersAreClose, Opener, TypeOK
    <3>2. CASE snapshot_state = Editable
      <4>1. ~ Opener(k)'
        BY <3>2, <2>1, <2>2 DEF Opener
      <4> QED
        BY <4>1, <2>1, <2>2 DEF OpenersAreClose, Opener
    <3> QED
      BY <3>1, <3>2, <2>1
  <2>7. (WindowHasAnOpener /\ WindowIsHonoured /\ NoOpenerAfterLock)'
    <3>1. (\A r \in reports : r \in Jobs /\ r # k) /\ reports' = reports
      BY <2>1 DEF TypeOK
    <3> QED
      BY <2>1, <2>2, <3>1 DEF WindowHasAnOpener, WindowIsHonoured, NoOpenerAfterLock, WindowEnd
  <2>8. (NoneStartsOnATerminal /\ MailHasLeft /\ MailedReportsAreOnRecord)'
    BY <2>1, <2>2 DEF NoneStartsOnATerminal, MailHasLeft, MailedReportsAreOnRecord
  <2> QED
    BY <2>3, <2>4, <2>5, <2>6, <2>7, <2>8 DEF IInv
<1> QED
  BY <1>1, <1>2

(***************************************************************************)
(* A step inside a job that leaves the engagement row and the reports      *)
(* alone and does not start a transaction, email or stamp: the parts of    *)
(* IInv about the row and the window are kept.                             *)
(***************************************************************************)
LEMMA QuietStep ==
    ASSUME IInv, NEW k \in Jobs, NEW step \in Steps, Goto(k, step),
           UNCHANGED <<clock, engagement, reports>>,
           step # "idle", step \in InTransaction => Generating(k),
           step \in AfterCommit => k \in reports
    PROVE  /\ jobs' \in [Jobs -> JobRecord]
           /\ RecordIsBacked' /\ JobsAreYoung' /\ JobsSawTheRow'
           /\ ReportsAreCommitted' /\ OpenersAreClose'
           /\ WindowHasAnOpener' /\ WindowIsHonoured'
           /\ NoOpenerAfterLock' /\ NoneStartsOnATerminal'
<1> USE DEF IInv, engagement, Generating, InTransaction
<1>1. /\ jobs' \in [Jobs -> JobRecord]
      /\ jobs'[k].pc = step
      /\ \A j \in Jobs \ {k} : jobs'[j] = jobs[j]
      /\ \A j \in Jobs : jobs'[j].saw = jobs[j].saw /\ jobs'[j].start = jobs[j].start
  BY GotoMoves DEF TypeOK
<1>2. \A j \in Jobs : Generating(j)' => Generating(j)
  BY <1>1
<1>3. (RecordIsBacked /\ JobsAreYoung /\ JobsSawTheRow)'
  BY <1>1, <1>2 DEF RecordIsBacked, JobsAreYoung, JobsSawTheRow
<1>4. ReportsAreCommitted'
  BY <1>1 DEF ReportsAreCommitted, AfterCommit
<1>5. OpenersAreClose'
  BY <1>1, <1>2 DEF OpenersAreClose, Opener
<1>6. (WindowHasAnOpener /\ WindowIsHonoured /\ NoOpenerAfterLock)'
  <2>1. \A r \in reports : r \in Jobs
    BY DEF TypeOK
  <2> QED
    BY <1>1, <1>2, <2>1 DEF WindowHasAnOpener, WindowIsHonoured, NoOpenerAfterLock, WindowEnd
<1>7. NoneStartsOnATerminal'
  BY <1>1, <1>2 DEF NoneStartsOnATerminal
<1> QED
  BY <1>1, <1>3, <1>4, <1>5, <1>6, <1>7

(***************************************************************************)
(* Rendering and inserting happen inside the transaction.                  *)
(***************************************************************************)
LEMMA RenderAndInsertIInv ==
    ASSUME IInv, NEW k \in Jobs, RenderAndInsert(k) PROVE IInv'
<1> USE DEF IInv, RenderAndInsert, Generating, InTransaction
<1>1. PICK step \in {"inserted", "poisoned"} : Goto(k, step)
  OBVIOUS
<1>2. step \in Steps /\ step \notin AfterCommit
  BY DEF Steps, AfterCommit
<1>3. /\ jobs' \in [Jobs -> JobRecord]
      /\ RecordIsBacked' /\ JobsAreYoung' /\ JobsSawTheRow'
      /\ ReportsAreCommitted' /\ OpenersAreClose'
      /\ WindowHasAnOpener' /\ WindowIsHonoured'
      /\ NoOpenerAfterLock' /\ NoneStartsOnATerminal'
  BY <1>1, <1>2, QuietStep
<1>4. TypeOK'
  BY <1>3 DEF TypeOK, engagement
<1>5. (MailHasLeft /\ MailedReportsAreOnRecord)'
  BY <1>1, <1>2, GotoMoves DEF TypeOK, MailHasLeft, MailedReportsAreOnRecord
<1> QED
  BY <1>3, <1>4, <1>5 DEF IInv

(***************************************************************************)
(* The email of a committed report.                                        *)
(***************************************************************************)
LEMMA EmailIInv == ASSUME IInv, NEW k \in Jobs, Email(k) PROVE IInv'
<1> USE DEF IInv, Email, Generating, InTransaction
<1>1. PICK step \in {"mailed", "done"} :
        /\ Goto(k, step)
        /\ step = "mailed" => inbox' = inbox \cup {k}
        /\ inbox' \in {inbox, inbox \cup {k}}
  OBVIOUS
<1>2. step \in Steps /\ k \in reports
  BY DEF Steps, AfterCommit, ReportsAreCommitted
<1>3. /\ jobs' \in [Jobs -> JobRecord]
      /\ RecordIsBacked' /\ JobsAreYoung' /\ JobsSawTheRow'
      /\ ReportsAreCommitted' /\ OpenersAreClose'
      /\ WindowHasAnOpener' /\ WindowIsHonoured'
      /\ NoOpenerAfterLock' /\ NoneStartsOnATerminal'
  BY <1>1, <1>2, QuietStep
<1>4. TypeOK'
  BY <1>1, <1>3 DEF TypeOK, engagement
<1>5. (MailHasLeft /\ MailedReportsAreOnRecord)'
  BY <1>1, <1>2, GotoMoves DEF TypeOK, MailHasLeft, MailedReportsAreOnRecord
<1> QED
  BY <1>3, <1>4, <1>5 DEF IInv

(***************************************************************************)
(* The stamp on an emailed report.                                         *)
(***************************************************************************)
LEMMA StampDeliveredIInv ==
    ASSUME IInv, NEW k \in Jobs, StampDelivered(k) PROVE IInv'
<1> USE DEF IInv, StampDelivered, Generating, InTransaction
<1>1. "done" \in Steps /\ "done" \notin AfterCommit /\ k \in inbox
  BY DEF Steps, AfterCommit, MailHasLeft
<1>2. /\ jobs' \in [Jobs -> JobRecord]
      /\ RecordIsBacked' /\ JobsAreYoung' /\ JobsSawTheRow'
      /\ ReportsAreCommitted' /\ OpenersAreClose'
      /\ WindowHasAnOpener' /\ WindowIsHonoured'
      /\ NoOpenerAfterLock' /\ NoneStartsOnATerminal'
  BY <1>1, QuietStep
<1>3. TypeOK'
  BY <1>2 DEF TypeOK, engagement
<1>4. (MailHasLeft /\ MailedReportsAreOnRecord)'
  BY <1>1, GotoMoves DEF TypeOK, MailHasLeft, MailedReportsAreOnRecord
<1> QED
  BY <1>2, <1>3, <1>4 DEF IInv

(***************************************************************************)
(* The end of a transaction, the step everything else leads up to.  A job  *)
(* that read Draft restarts the window; OpenersAreClose and the length of  *)
(* the window forbid it to find a Locked row.                              *)
(***************************************************************************)
LEMMA CommitIInv == ASSUME IInv, NEW k \in Jobs, Commit(k) PROVE IInv'
<1> USE DEF IInv, Commit, Generating, InTransaction
<1> DEFINE next == IF k \in Workers THEN "committed" ELSE "done"
<1>1. /\ Goto(k, next)
      /\ jobs[k].pc = "inserted"
      /\ reports' = reports \cup {k}
      /\ UNCHANGED <<clock, lock_timestamp, expiry_timestamp, delivered, inbox>>
      /\ next \in Steps
  BY DEF Steps, AfterCommit
<1>2. /\ jobs' \in [Jobs -> JobRecord]
      /\ jobs'[k].pc \in {"committed", "done"}
      /\ \A j \in Jobs \ {k} : jobs'[j] = jobs[j]
      /\ \A j \in Jobs : jobs'[j].saw = jobs[j].saw /\ jobs'[j].start = jobs[j].start
  BY <1>1, GotoMoves DEF TypeOK
<1>3. \A j \in Jobs : jobs[j].start \in Nat /\ jobs'[j].start = jobs[j].start
  BY <1>2 DEF TypeOK, JobRecord
<1>4. \A j \in Jobs : Generating(j)' => Generating(j) /\ j # k
  BY <1>2
<1>5. jobs[k].saw = Draft \/ jobs[k].saw = Editable
  BY <1>1 DEF JobsSawTheRow
<1>6. /\ snapshot_state' \in {Editable, Locked}
      /\ snapshot_state' = Locked => snapshot_state = Locked /\ jobs[k].saw = Editable
      /\ report_of_record_id' = k
      /\ generation_count' \in Nat /\ generation_count' > 0
      /\ window_end_timestamp' \in Nat \cup {Never}
  <2>1. CASE jobs[k].saw = Draft
    BY <2>1, <1>3, Arithmetic DEF ApplyFirstGeneration, WindowEnd
  <2>2. CASE jobs[k].saw = Editable
    BY <2>2, <1>1 DEF ApplyRegeneration, JobsSawTheRow, TypeOK
  <2> QED
    BY <1>5, <2>1, <2>2
<1>7. TypeOK'
  BY <1>1, <1>2, <1>6 DEF TypeOK
<1>8. (RecordIsBacked /\ JobsAreYoung /\ JobsSawTheRow)'
  BY <1>1, <1>2, <1>4, <1>6 DEF RecordIsBacked, JobsAreYoung, JobsSawTheRow
<1>9. ReportsAreCommitted'
  BY <1>1, <1>2, <1>6 DEF ReportsAreCommitted, AfterCommit
<1>10. OpenersAreClose'
  <2>1. \A j \in Jobs : Opener(j)' => Opener(j)
    BY <1>1, <1>2, <1>4 DEF Opener
  <2> QED
    BY <2>1, <1>3 DEF OpenersAreClose
<1>11. WindowHasAnOpener'
  <2>1. CASE jobs[k].saw = Draft
    BY <2>1, <1>1, <1>2 DEF WindowHasAnOpener, ApplyFirstGeneration, WindowEnd
  <2>2. CASE jobs[k].saw = Editable
    <3>1. snapshot_state \in {Editable, Locked} /\ UNCHANGED window_end_timestamp
      BY <2>2, <1>1 DEF JobsSawTheRow, ApplyRegeneration
    <3>2. PICK r \in reports : /\ jobs[r].saw = Draft
                              /\ window_end_timestamp = WindowEnd(jobs[r].start)
      BY <3>1 DEF WindowHasAnOpener
    <3>3. r \in Jobs /\ r \in reports'
      BY <1>1 DEF TypeOK
    <3> QED
      BY <3>1, <3>2, <3>3, <1>2 DEF WindowHasAnOpener, WindowEnd
  <2> QED
    BY <1>5, <2>1, <2>2
<1>12. WindowIsHonoured'
  <2>1. \A r \in reports' : r \in reports \/ r = k
    BY <1>1
  <2>2. \A r \in reports : r \in Jobs
    BY DEF TypeOK
  <2> QED
    BY <2>1, <2>2, <1>1, <1>2, <1>6 DEF WindowIsHonoured, WindowEnd
<1>13. (NoOpenerAfterLock /\ NoneStartsOnATerminal)'
  BY <1>1, <1>2, <1>4, <1>6 DEF NoOpenerAfterLock, NoneStartsOnATerminal
<1>14. (MailHasLeft /\ MailedReportsAreOnRecord)'
  BY <1>1, <1>2 DEF MailHasLeft, MailedReportsAreOnRecord
<1> QED
  BY <1>7, <1>8, <1>9, <1>10, <1>11, <1>12, <1>13, <1>14 DEF IInv

(***************************************************************************)
(* A failed transaction leaves nothing; a failure after it keeps the row.  *)
(***************************************************************************)
LEMMA FailIInv == ASSUME IInv, NEW k \in Jobs, Fail(k) PROVE IInv'
<1> USE DEF IInv, Fail, engagement, Generating, InTransaction
<1>1. CASE /\ Generating(k)
           /\ jobs' = [jobs EXCEPT ![k] = JobAt("failed")]
           /\ current' = current \ {k}
  <2>1. /\ jobs' \in [Jobs -> JobRecord]
        /\ jobs'[k].pc = "failed"
        /\ k \notin reports
        /\ \A j \in Jobs \ {k} : jobs'[j] = jobs[j]
    BY <1>1, Arithmetic DEF TypeOK, JobRecord, JobAt, Steps, ReportsAreCommitted
  <2>2. TypeOK'
    BY <1>1, <2>1 DEF TypeOK
  <2>3. \A j \in Jobs : Generating(j)' => Generating(j) /\ j # k
    BY <2>1
  <2>4. \A r \in reports : r \in Jobs \ {k}
    BY <2>1 DEF TypeOK
  <2>5. (RecordIsBacked /\ JobsAreYoung /\ JobsSawTheRow)'
    BY <2>1, <2>3 DEF RecordIsBacked, JobsAreYoung, JobsSawTheRow
  <2>6. (ReportsAreCommitted /\ OpenersAreClose)'
    BY <2>1, <2>3 DEF ReportsAreCommitted, AfterCommit, OpenersAreClose, Opener
  <2>7. (WindowHasAnOpener /\ WindowIsHonoured /\ NoOpenerAfterLock)'
    BY <2>1, <2>3, <2>4 DEF WindowHasAnOpener, WindowIsHonoured, NoOpenerAfterLock, WindowEnd
  <2>8. (NoneStartsOnATerminal /\ MailHasLeft /\ MailedReportsAreOnRecord)'
    BY <2>1, <2>3 DEF NoneStartsOnATerminal, MailHasLeft, MailedReportsAreOnRecord
  <2> QED
    BY <2>2, <2>5, <2>6, <2>7, <2>8 DEF IInv
<1>2. CASE jobs[k].pc \in AfterCommit /\ Goto(k, "failed") /\ UNCHANGED current
  <2>1. "failed" \in Steps /\ "failed" \notin AfterCommit
    BY DEF Steps, AfterCommit
  <2>2. /\ jobs' \in [Jobs -> JobRecord]
        /\ RecordIsBacked' /\ JobsAreYoung' /\ JobsSawTheRow'
        /\ ReportsAreCommitted' /\ OpenersAreClose'
        /\ WindowHasAnOpener' /\ WindowIsHonoured'
        /\ NoOpenerAfterLock' /\ NoneStartsOnATerminal'
    BY <1>2, <2>1, QuietStep
  <2>3. TypeOK'
    BY <1>2, <2>2 DEF TypeOK
  <2>4. (MailHasLeft /\ MailedReportsAreOnRecord)'
    BY <1>2, <2>1, GotoMoves DEF TypeOK, MailHasLeft, MailedReportsAreOnRecord
  <2> QED
    BY <2>2, <2>3, <2>4 DEF IInv
<1> QED
  BY <1>1, <1>2

(***************************************************************************)
(* The lock.  Let r be the report whose generation opened the window in    *)
(* the row.  Any other generation that read Draft started at most JobTime  *)
(* after r's, and ran for at most JobTime; the window is longer than both. *)
(***************************************************************************)
LEMMA SweepEditableToLockedIInv == IInv /\ SweepEditableToLocked => IInv'
<1> SUFFICES ASSUME IInv, SweepEditableToLocked PROVE IInv'
  OBVIOUS
<1> USE DEF IInv, SweepEditableToLocked, WindowHasClosed, Generating, InTransaction
<1>1. PICK r \in reports : /\ jobs[r].saw = Draft
                          /\ WindowEnd(jobs[r].start) <= clock
  BY DEF WindowHasAnOpener
<1>2. /\ r \in Jobs /\ Opener(r) /\ clock \in Nat
      /\ \A j \in Jobs : jobs[j].start \in Nat
  BY <1>1 DEF TypeOK, JobRecord, Opener
<1>3. TypeOK'
  BY DEF TypeOK
<1>4. (RecordIsBacked /\ JobsAreYoung /\ JobsSawTheRow)'
  BY DEF RecordIsBacked, JobsAreYoung, JobsSawTheRow
<1>5. (ReportsAreCommitted /\ OpenersAreClose /\ WindowHasAnOpener)'
  BY DEF ReportsAreCommitted, OpenersAreClose, Opener, WindowHasAnOpener
<1>6. WindowIsHonoured'
  <2>1. \A q \in reports : jobs[q].saw = Draft =>
            q \in Jobs /\ jobs[q].start <= jobs[r].start + JobTime
    BY <1>2 DEF TypeOK, Opener, OpenersAreClose
  <2> QED
    BY <1>1, <1>2, <2>1, Arithmetic DEF WindowIsHonoured, WindowEnd
<1>7. NoOpenerAfterLock'
  <2> SUFFICES ASSUME NEW j \in Jobs, Generating(j), jobs[j].saw # Editable
               PROVE  FALSE
    BY DEF NoOpenerAfterLock
  <2>1. Opener(j)
    BY DEF JobsSawTheRow, Opener
  <2>2. /\ jobs[j].start <= jobs[r].start + JobTime
        /\ clock <= jobs[j].start + JobTime
    BY <1>2, <2>1 DEF OpenersAreClose, JobsAreYoung
  <2> QED
    BY <1>1, <1>2, <2>2, Arithmetic DEF WindowEnd
<1>8. NoneStartsOnATerminal'
  BY <1>2 DEF NoneStartsOnATerminal, JobsAreYoung
<1>9. (MailHasLeft /\ MailedReportsAreOnRecord)'
  BY DEF MailHasLeft, MailedReportsAreOnRecord
<1> QED
  BY <1>3, <1>4, <1>5, <1>6, <1>7, <1>8, <1>9 DEF IInv

(***************************************************************************)
(* The expiry of a Draft, which has no report.                             *)
(***************************************************************************)
LEMMA SweepDraftToExpiredIInv == IInv /\ SweepDraftToExpired => IInv'
<1> SUFFICES ASSUME IInv, SweepDraftToExpired PROVE IInv'
  OBVIOUS
<1> USE DEF IInv, SweepDraftToExpired, DraftHasExpired, Generating, InTransaction
<1>1. TypeOK'
  BY DEF TypeOK
<1>2. (RecordIsBacked /\ JobsAreYoung /\ JobsSawTheRow)'
  BY DEF RecordIsBacked, JobsAreYoung, JobsSawTheRow
<1>3. (ReportsAreCommitted /\ OpenersAreClose)'
  BY DEF ReportsAreCommitted, OpenersAreClose, Opener
<1>4. (WindowHasAnOpener /\ WindowIsHonoured /\ NoOpenerAfterLock)'
  BY DEF WindowHasAnOpener, WindowIsHonoured, NoOpenerAfterLock
<1>5. NoneStartsOnATerminal'
  BY DEF NoneStartsOnATerminal, JobsAreYoung, TypeOK
<1>6. (MailHasLeft /\ MailedReportsAreOnRecord)'
  BY DEF MailHasLeft, MailedReportsAreOnRecord
<1> QED
  BY <1>1, <1>2, <1>3, <1>4, <1>5, <1>6 DEF IInv

(***************************************************************************)
(* Steps that leave every variable alone leave IInv alone.                 *)
(***************************************************************************)
LEMMA StutterIInv == IInv /\ UNCHANGED vars => IInv'
<1> SUFFICES ASSUME IInv, UNCHANGED vars PROVE IInv'
  OBVIOUS
<1> USE DEF IInv, vars, engagement, Generating, InTransaction
<1>1. TypeOK'
  BY DEF TypeOK
<1>2. (RecordIsBacked /\ JobsAreYoung /\ JobsSawTheRow)'
  BY DEF RecordIsBacked, JobsAreYoung, JobsSawTheRow
<1>3. (ReportsAreCommitted /\ OpenersAreClose)'
  BY DEF ReportsAreCommitted, OpenersAreClose, Opener
<1>4. (WindowHasAnOpener /\ WindowIsHonoured /\ NoOpenerAfterLock)'
  BY DEF WindowHasAnOpener, WindowIsHonoured, NoOpenerAfterLock
<1>5. (NoneStartsOnATerminal /\ MailHasLeft /\ MailedReportsAreOnRecord)'
  BY DEF NoneStartsOnATerminal, MailHasLeft, MailedReportsAreOnRecord
<1> QED
  BY <1>1, <1>2, <1>3, <1>4, <1>5 DEF IInv

(***************************************************************************)
(* One case per action of Next.                                            *)
(***************************************************************************)
LEMMA NextIInv == IInv /\ [Next]_vars => IInv'
<1> SUFFICES ASSUME IInv, [Next]_vars PROVE IInv'
  OBVIOUS
<1>1. CASE Tick
  BY <1>1, TickIInv
<1>2. ASSUME NEW r \in Requests, AdmitEdit(r) \/ SaveAnswer(r) \/ DropEdit(r)
      PROVE  IInv'
  BY <1>2, EditIInv
<1>3. ASSUME NEW j \in Jobs, JobStep(j) PROVE IInv'
  BY <1>3, ReadEngagementIInv, RenderAndInsertIInv, CommitIInv, FailIInv,
     EmailIInv, StampDeliveredIInv DEF JobStep
<1>4. CASE SweepEditableToLocked
  BY <1>4, SweepEditableToLockedIInv
<1>5. CASE SweepDraftToExpired
  BY <1>5, SweepDraftToExpiredIInv
<1>6. CASE UNCHANGED vars
  BY <1>6, StutterIInv
<1> QED
  BY <1>1, <1>2, <1>3, <1>4, <1>5, <1>6 DEF Next

(***************************************************************************)
(* IInv holds in every reachable state.                                    *)
(***************************************************************************)
THEOREM Invariance == Spec => []IInv
BY InitIInv, NextIInv, PTL DEF Spec

(***************************************************************************)
(* Every column and every job keeps its type.                              *)
(***************************************************************************)
THEOREM TypeCorrect == Spec => []TypeOK
<1>1. IInv => TypeOK
  BY DEF IInv
<1> QED
  BY <1>1, Invariance, PTL

(***************************************************************************)
(* The report of record exists exactly when the snapshot says it does,     *)
(* with any number of overlapping and failing jobs.                        *)
(***************************************************************************)
THEOREM RecordBacked == Spec => []RecordIsBacked
<1>1. IInv => RecordIsBacked
  BY DEF IInv
<1> QED
  BY <1>1, Invariance, PTL

(***************************************************************************)
(* Nothing is mailed that is not a committed report, and nothing is        *)
(* stamped that was not mailed.                                            *)
(***************************************************************************)
THEOREM MailOnRecord == Spec => []MailedReportsAreOnRecord
<1>1. IInv => MailedReportsAreOnRecord
  BY DEF IInv
<1> QED
  BY <1>1, Invariance, PTL

(***************************************************************************)
(* The buyer of any first generation has a full edit window, less the      *)
(* length of one generation, before the snapshot locks.                    *)
(***************************************************************************)
THEOREM WindowHonoured == Spec => []WindowIsHonoured
<1>1. IInv => WindowIsHonoured
  BY DEF IInv
<1> QED
  BY <1>1, Invariance, PTL

-----------------------------------------------------------------------------
(***************************************************************************)
(* No step takes a snapshot out of Locked: the only action that could is   *)
(* the commit of a job that read Draft, and none is running.               *)
(***************************************************************************)
LEMMA LockedStays ==
    ASSUME IInv, [Next]_vars, snapshot_state = Locked
    PROVE  snapshot_state' = Locked
<1>1. CASE UNCHANGED vars
  BY <1>1 DEF vars, engagement
<1>2. CASE Tick \/ \E r \in Requests : AdmitEdit(r) \/ SaveAnswer(r) \/ DropEdit(r)
  BY <1>2 DEF Tick, AdmitEdit, SaveAnswer, DropEdit, engagement
<1>3. ASSUME NEW j \in Jobs, JobStep(j) PROVE snapshot_state' = Locked
  <2>1. CASE Commit(j)
    <3>1. jobs[j].saw = Editable
      BY <2>1 DEF IInv, NoOpenerAfterLock, Commit, Generating, InTransaction
    <3> QED
      BY <2>1, <3>1 DEF Commit, ApplyRegeneration
  <2>2. CASE ReadEngagement(j) \/ RenderAndInsert(j) \/ Fail(j)
    BY <2>2 DEF ReadEngagement, RenderAndInsert, Fail, engagement
  <2>3. CASE Email(j) \/ StampDelivered(j)
    BY <2>3 DEF Email, StampDelivered, engagement
  <2> QED
    BY <1>3, <2>1, <2>2, <2>3 DEF JobStep
<1>4. CASE SweepEditableToLocked \/ SweepDraftToExpired
  BY <1>4 DEF SweepEditableToLocked, SweepDraftToExpired, WindowHasClosed,
              DraftHasExpired
<1> QED
  BY <1>1, <1>2, <1>3, <1>4 DEF Next

(***************************************************************************)
(* A Locked snapshot is never reopened.                                    *)
(***************************************************************************)
THEOREM LockIsFinal == Spec => LockedIsFinal
<1>1. IInv /\ [Next]_vars => (snapshot_state = Locked => snapshot_state' = Locked)
  BY LockedStays
<1> QED
  BY <1>1, Invariance, PTL DEF Spec, LockedIsFinal

(***************************************************************************)
(* A job that has not committed started before the sweep, hence no more    *)
(* than JobTime before now, and JobTime has passed since the sweep.        *)
(***************************************************************************)
LEMMA NoneRunsOnASettled ==
    ASSUME IInv, Settled, NEW j \in Jobs
    PROVE  ~ Generating(j)
<1> SUFFICES ASSUME Generating(j) PROVE FALSE
  OBVIOUS
<1>1. /\ clock <= jobs[j].start + JobTime
      /\ clock \in Nat /\ jobs[j].start \in Nat
  BY DEF IInv, JobsAreYoung, TypeOK, JobRecord
<1>2. /\ snapshot_state = Locked => /\ lock_timestamp \in Nat
                                   /\ jobs[j].start <= lock_timestamp
      /\ snapshot_state = Expired => /\ expiry_timestamp \in Nat
                                    /\ jobs[j].start <= expiry_timestamp
  BY DEF IInv, NoneStartsOnATerminal
<1> QED
  BY <1>1, <1>2, Arithmetic DEF Settled

(***************************************************************************)
(* Only a commit and the sweeps write the row, and the sweeps write that   *)
(* of a Draft or an Editable snapshot.                                     *)
(***************************************************************************)
LEMMA StepSettles ==
    ASSUME IInv, [Next]_vars, Settled
    PROVE  UNCHANGED engagement
<1>1. CASE UNCHANGED vars
  BY <1>1 DEF vars
<1>2. CASE Tick \/ \E r \in Requests : AdmitEdit(r) \/ SaveAnswer(r) \/ DropEdit(r)
  BY <1>2 DEF Tick, AdmitEdit, SaveAnswer, DropEdit
<1>3. ASSUME NEW j \in Jobs, JobStep(j) PROVE UNCHANGED engagement
  <2>1. ~ Commit(j)
    BY NoneRunsOnASettled DEF Commit, Generating, InTransaction
  <2>2. CASE ReadEngagement(j) \/ RenderAndInsert(j) \/ Fail(j)
    BY <2>2 DEF ReadEngagement, RenderAndInsert, Fail
  <2>3. CASE Email(j) \/ StampDelivered(j)
    BY <2>3 DEF Email, StampDelivered
  <2> QED
    BY <1>3, <2>1, <2>2, <2>3 DEF JobStep
<1>4. snapshot_state \in {Locked, Expired} /\ Editable \notin {Locked, Expired}
      /\ Draft \notin {Locked, Expired}
  BY DEF Settled, Editable, Draft, Locked, Expired
<1>5. ~ SweepEditableToLocked /\ ~ SweepDraftToExpired
  BY <1>4 DEF SweepEditableToLocked, SweepDraftToExpired, WindowHasClosed,
              DraftHasExpired
<1> QED
  BY <1>1, <1>2, <1>3, <1>5 DEF Next

(***************************************************************************)
(* Once a snapshot has been terminal for longer than one generation, its   *)
(* row does not change any more.                                           *)
(***************************************************************************)
THEOREM TerminalSettles == Spec => TerminalSnapshotsSettle
<1>1. IInv /\ [Next]_vars => (Settled => UNCHANGED engagement)
  BY StepSettles
<1> QED
  BY <1>1, Invariance, PTL DEF Spec, TerminalSnapshotsSettle
=============================================================================
