------------------------------ MODULE Reminders ------------------------------
(***************************************************************************)
(* The reminders of a multi-respondent engagement.  The buyer nudges a     *)
(* straggler from the dashboard (engagements.buyer_views), and a run that  *)
(* an outside clock requests once a day nudges everyone who is due         *)
(* (engagements.reminders).  Both go through invitations.nudge, which      *)
(* reads the row, sends the mail, and stamps the row, each a step of its   *)
(* own; a run works through a list it read at its beginning.               *)
(*                                                                         *)
(* engagements.status and reminders_disabled are read by the run and       *)
(* written by nothing in the repository: they are left out.                *)
(***************************************************************************)
EXTENDS Integers, FiniteSets, Sequences

CONSTANTS
    People,         \* rows the respondents table can come to hold
    NoPerson,
    Buyers,         \* clicks on Nudge that can be open at once
    Runs,           \* reminder runs that can be open at once
    SCHEDULE,       \* minimum age of the row, by number of the reminder
    NUDGE_COOLDOWN,
    RunTime,        \* the longest a run takes
    Never,
    MaxTime,        \* bound: the clock stops there
    MaxMails        \* bound: reminders to one person

MAX_AUTOMATIC == Len(SCHEDULE)

Callers == Buyers \cup Runs

ASSUME NamesAssumption ==
    /\ NoPerson \notin People
    /\ Buyers \cap Runs = {}
    /\ IsFiniteSet(Buyers) /\ IsFiniteSet(Runs)
    /\ Never \notin Int

(***************************************************************************)
(* A run is over before anyone it reminded may be reminded again.  The     *)
(* code does not enforce it; a run sends one mail after the other, and     *)
(* waits at most 30 seconds for each.                                      *)
(***************************************************************************)
ASSUME TimesAssumption ==
    /\ SCHEDULE \in Seq(Nat)
    /\ RunTime \in Nat
    /\ NUDGE_COOLDOWN \in Nat
    /\ RunTime < NUDGE_COOLDOWN

ASSUME BoundAssumption == MaxTime \in Nat /\ MaxMails \in Nat

VARIABLES
    clock,
    status,         \* "open" for both invited and in_progress, "none" for no row
    created,
    last_nudged,
    reminder_count,
    coverage_met,   \* coverage_met_at is set
    callers,        \* each click or run, with what it has read
    \* history
    mails,          \* reminders Postmark has accepted
    mailed_at,      \* the last of them
    uncounted,      \* those whose sender did not come to stamp the row
    raced,          \* people two callers were writing to at once
    close           \* people who got two reminders within the cooldown

rows == <<status, created, last_nudged, reminder_count, coverage_met>>

history == <<mails, mailed_at, uncounted, raced, close>>

vars == <<clock, rows, callers, history>>

-----------------------------------------------------------------------------
CallerRecord ==
    [pc     : {"idle", "running", "checking", "sending", "stamping"},
     person : People \cup {NoPerson},
     todo   : SUBSET People,     \* a run: who is left of its list
     listed : Nat]               \* a run: when it made the list

Idle == [pc |-> "idle", person |-> NoPerson, todo |-> {}, listed |-> 0]

Goto(c, step) == callers' = [callers EXCEPT ![c].pc = step]

\* nudge returns: to the dashboard, or to the loop of the run.
Return(c) == Goto(c, IF c \in Runs THEN "running" ELSE "idle")

\* Past the check of nudge, and not yet back.
WritingTo(p) == {c \in Callers : /\ callers[c].pc \in {"sending", "stamping"}
                                 /\ callers[c].person = p}

\* The highest step of the schedule a row of this age has passed.
Reached(age) == Cardinality({n \in DOMAIN SCHEDULE :
                               \E m \in DOMAIN SCHEDULE : m >= n /\ age >= SCHEDULE[m]})

\* due_respondents.
Due == {p \in People : /\ status[p] = "open"
                       /\ ~ coverage_met
                       /\ reminder_count[p] < MAX_AUTOMATIC
                       /\ Reached(clock - created[p]) > reminder_count[p]}

Cooling(p) == last_nudged[p] # Never /\ clock - last_nudged[p] < NUDGE_COOLDOWN

-----------------------------------------------------------------------------
Init ==
    /\ clock = 0
    /\ status = [p \in People |-> "none"]
    /\ created = [p \in People |-> 0]
    /\ last_nudged = [p \in People |-> Never]
    /\ reminder_count = [p \in People |-> 0]
    /\ coverage_met = FALSE
    /\ callers = [c \in Callers |-> Idle]
    /\ mails = [p \in People |-> 0]
    /\ mailed_at = [p \in People |-> Never]
    /\ uncounted = [p \in People |-> 0]
    /\ raced = {}
    /\ close = {}

Tick ==
    /\ clock < MaxTime
    /\ \A c \in Runs : callers[c].pc # "idle" => clock < callers[c].listed + RunTime
    /\ clock' = clock + 1
    /\ UNCHANGED <<rows, callers, history>>

\* create_respondent.
Invite(p) ==
    /\ status[p] = "none"
    /\ status' = [status EXCEPT ![p] = "open"]
    /\ created' = [created EXCEPT ![p] = clock]
    /\ UNCHANGED <<clock, last_nudged, reminder_count, coverage_met, callers, history>>

\* What Tier2Coverage does to a row and to the engagement.
Respond(p) ==
    /\ status[p] # "none"
    /\ \E new \in {"open", "completed", "removed"} : status' = [status EXCEPT ![p] = new]
    /\ \E met \in {coverage_met, TRUE} : coverage_met' = met
    /\ UNCHANGED <<clock, created, last_nudged, reminder_count, callers, history>>

-----------------------------------------------------------------------------
(* Who calls nudge.                                                         *)

\* nudge_respondent, after it has seen that the row is there.
ClickNudge(c, p) ==
    /\ c \in Buyers
    /\ callers[c].pc = "idle"
    /\ status[p] # "none"
    /\ callers' = [callers EXCEPT ![c].pc = "checking", ![c].person = p]
    /\ UNCHANGED <<clock, rows, history>>

\* run: the list of who is due, read once.
ListDue(c) ==
    /\ c \in Runs
    /\ callers[c].pc = "idle"
    /\ callers' = [callers EXCEPT ![c].pc = "running",
                                  ![c].todo = Due,
                                  ![c].listed = clock]
    /\ UNCHANGED <<clock, rows, history>>

\* The loop of the run, in the order the database returned.
NextDue(c) ==
    /\ c \in Runs
    /\ callers[c].pc = "running"
    /\ \/ \E p \in callers[c].todo :
            callers' = [callers EXCEPT ![c].pc = "checking",
                                       ![c].person = p,
                                       ![c].todo = @ \ {p}]
       \/ /\ callers[c].todo = {}
          /\ callers' = [callers EXCEPT ![c] = Idle]
    /\ UNCHANGED <<clock, rows, history>>

-----------------------------------------------------------------------------
(* nudge.                                                                   *)

\* Altered: only the buyer's clicks are held to the cooldown.
ReadForClicksOnly(c) ==
    LET p == callers[c].person IN
    /\ callers[c].pc = "checking"
    /\ IF status[p] \in {"completed", "removed"} \/ (c \in Buyers /\ Cooling(p))
         THEN /\ Return(c)
              /\ UNCHANGED raced
         ELSE /\ Goto(c, "sending")
              /\ raced' = IF WritingTo(p) = {} THEN raced ELSE raced \cup {p}
    /\ UNCHANGED <<clock, rows, mails, mailed_at, uncounted, close>>

ReadRespondent(c) ==
    LET p == callers[c].person IN
    /\ callers[c].pc = "checking"
    /\ IF status[p] \in {"completed", "removed"} \/ Cooling(p)
         THEN /\ Return(c)
              /\ UNCHANGED raced
         ELSE /\ Goto(c, "sending")
              /\ raced' = IF WritingTo(p) = {} THEN raced ELSE raced \cup {p}
    /\ UNCHANGED <<clock, rows, mails, mailed_at, uncounted, close>>

Accepted(p) ==
    /\ mails[p] < MaxMails
    /\ mails' = [mails EXCEPT ![p] = @ + 1]
    /\ mailed_at' = [mailed_at EXCEPT ![p] = clock]
    /\ close' = IF mailed_at[p] # Never /\ clock - mailed_at[p] < NUDGE_COOLDOWN
                  THEN close \cup {p} ELSE close

\* Altered: the row is stamped whatever Postmark answered.
SendAndStampAnyway(c) ==
    LET p == callers[c].person IN
    /\ callers[c].pc = "sending"
    /\ Goto(c, "stamping")
    /\ Accepted(p) \/ UNCHANGED <<mails, mailed_at, close>>
    /\ UNCHANGED <<clock, rows, uncounted, raced>>

(***************************************************************************)
(* _postmark: accepted; refused; or accepted, with the answer lost in a    *)
(* timeout, which nudge takes for a refusal.                               *)
(***************************************************************************)
Send(c) ==
    LET p == callers[c].person IN
    /\ callers[c].pc = "sending"
    /\ \/ /\ Accepted(p)
          /\ Goto(c, "stamping")
          /\ UNCHANGED uncounted
       \/ /\ Return(c)
          /\ UNCHANGED <<mails, mailed_at, uncounted, close>>
       \/ /\ Accepted(p)
          /\ Return(c)
          /\ uncounted' = [uncounted EXCEPT ![p] = @ + 1]
    /\ UNCHANGED <<clock, rows, raced>>

\* Altered: the column gets the end of the cooldown.
StampEndOfCooldown(c) ==
    LET p == callers[c].person IN
    /\ callers[c].pc = "stamping"
    /\ last_nudged' = [last_nudged EXCEPT ![p] = clock + NUDGE_COOLDOWN]
    /\ reminder_count' = [reminder_count EXCEPT ![p] = @ + 1]
    /\ Return(c)
    /\ UNCHANGED <<clock, status, created, coverage_met, history>>

Stamp(c) ==
    LET p == callers[c].person IN
    /\ callers[c].pc = "stamping"
    /\ last_nudged' = [last_nudged EXCEPT ![p] = clock]
    /\ reminder_count' = [reminder_count EXCEPT ![p] = @ + 1]
    /\ Return(c)
    /\ UNCHANGED <<clock, status, created, coverage_met, history>>

\* A caller that will not stamp the row any more.
Uncount(c) ==
    uncounted' = IF callers[c].pc = "stamping"
                   THEN [uncounted EXCEPT ![callers[c].person] = @ + 1]
                   ELSE uncounted

\* A statement fails: the exception ends a click, and a run goes on.
Fail(c) ==
    /\ callers[c].pc \in {"checking", "sending", "stamping"}
    /\ Return(c)
    /\ Uncount(c)
    /\ UNCHANGED <<clock, rows, mails, mailed_at, raced, close>>

\* The process is restarted.
Die(c) ==
    /\ callers[c].pc # "idle"
    /\ callers' = [callers EXCEPT ![c] = Idle]
    /\ Uncount(c)
    /\ UNCHANGED <<clock, rows, mails, mailed_at, raced, close>>

Next ==
    \/ Tick
    \/ \E p \in People : Invite(p) \/ Respond(p)
    \/ \E c \in Callers :
         \/ \E p \in People : ClickNudge(c, p)
         \/ ListDue(c)
         \/ NextDue(c)
         \/ ReadRespondent(c)
         \/ Send(c)
         \/ Stamp(c)
         \/ Fail(c)
         \/ Die(c)

Spec == Init /\ [][Next]_vars

-----------------------------------------------------------------------------
(***************************************************************************)
(* Rows and callers stay in their types, and no column holds a time that   *)
(* is still to come (invitations, reminders).                              *)
(***************************************************************************)
TypeOK ==
    /\ clock \in Nat
    /\ status \in [People -> {"none", "open", "completed", "removed"}]
    /\ created \in [People -> 0..clock]
    /\ last_nudged \in [People -> 0..clock \cup {Never}]
    /\ reminder_count \in [People -> Nat]
    /\ coverage_met \in BOOLEAN
    /\ callers \in [Callers -> CallerRecord]
    /\ mails \in [People -> Nat]
    /\ mailed_at \in [People -> 0..clock \cup {Never}]
    /\ uncounted \in [People -> Nat]
    /\ raced \subseteq People
    /\ close \subseteq People

(***************************************************************************)
(* reminder_count counts the mails: the runs and the clicks share it, and  *)
(* however they overlap, what it misses is exactly the mails that were     *)
(* accepted and whose sender failed before its UPDATE (nudge).             *)
(***************************************************************************)
MailsAreCounted ==
    \A p \in People :
        mails[p] = reminder_count[p] + uncounted[p]
                     + Cardinality({c \in WritingTo(p) : callers[c].pc = "stamping"})

(***************************************************************************)
(* One reminder per cooldown (nudge), from the dashboard and the runs      *)
(* together, unless two callers were writing to the same person at once,   *)
(* or a mail was sent that the row does not show.                          *)
(***************************************************************************)
SpacedUnlessRaced ==
    \A p \in close : p \in raced \/ uncounted[p] > 0

(***************************************************************************)
(* A run reads its list once and works on it while buyers nudge and other  *)
(* runs go on.  A person it goes on to write to is, by then still, due the *)
(* reminder: the count is what the list said, or the cooldown is running.  *)
(* "a buyer who has already chased someone does not cause a fourth email"  *)
(* (reminders).                                                            *)
(***************************************************************************)
StaleListIsHarmless ==
    [][\A c \in Runs :
         callers[c].pc = "checking" /\ callers'[c].pc = "sending" =>
           LET p == callers[c].person IN
           /\ reminder_count[p] < MAX_AUTOMATIC
           /\ reminder_count[p] < Reached(clock - created[p])]_vars
=============================================================================
