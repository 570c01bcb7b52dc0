--------------------------- MODULE RemindersProofs ---------------------------
(***************************************************************************)
(* Proofs about Reminders, for any people, clicks and runs, any schedule,  *)
(* and any times that satisfy TimesAssumption.                             *)
(*                                                                         *)
(* StaleListIsHarmless rests on ListsAreCurrent: a person on the list of a *)
(* run is still due, as far as the counter goes, or was stamped after the  *)
(* list was made; and the run is over before that stamp has cooled down.   *)
(* SpacedUnlessRaced rests on the row: of a person nobody raced over, the  *)
(* last mail is in the row, or its one sender is about to write it there.  *)
(***************************************************************************)
EXTENDS Reminders, FiniteSetTheorems, TLAPS

\* A caller past its first step has a person with a row.
CallersHaveAPerson ==
    \A c \in Callers :
        /\ callers[c].pc \in {"checking", "sending", "stamping"} =>
             callers[c].person \in People /\ status[callers[c].person] # "none"
        /\ callers[c].pc = "running" => c \in Runs
        /\ \A p \in callers[c].todo : status[p] # "none"

\* The people a run may still write to.
OnTheList(c, p) ==
    \/ p \in callers[c].todo
    \/ callers[c].pc = "checking" /\ callers[c].person = p

StillDue(p) ==
    /\ reminder_count[p] < MAX_AUTOMATIC
    /\ reminder_count[p] < Reached(clock - created[p])

ListsAreCurrent ==
    \A c \in Runs : callers[c].pc # "idle" =>
        /\ callers[c].listed <= clock
        /\ clock <= callers[c].listed + RunTime
        /\ \A p \in People : OnTheList(c, p) =>
             StillDue(p) \/ (last_nudged[p] \in Nat /\ last_nudged[p] >= callers[c].listed)

\* Of a person that was not raced over, and all of whose mails were stamped.
Orderly(p) == p \notin raced /\ uncounted[p] = 0

Stamping(p) == {c \in WritingTo(p) : callers[c].pc = "stamping"}

RowShowsTheMail(p) ==
    \/ mailed_at[p] = Never
    \/ last_nudged[p] \in Nat /\ last_nudged[p] >= mailed_at[p]
    \/ Stamping(p) # {}

\* Who is between the check and Postmark's answer may send.
SenderWaited(p) ==
    WritingTo(p) # Stamping(p) =>
        mailed_at[p] = Never \/ clock - mailed_at[p] >= NUDGE_COOLDOWN

MailsInv(p) ==
    /\ mails[p] = reminder_count[p] + uncounted[p] + Cardinality(Stamping(p))
    /\ p \in close => p \in raced \/ uncounted[p] > 0
    /\ Orderly(p) =>
         /\ \A c, d \in WritingTo(p) : c = d
         /\ RowShowsTheMail(p)
         /\ SenderWaited(p)

IInv ==
    /\ TypeOK
    /\ CallersHaveAPerson
    /\ ListsAreCurrent
    /\ \A p \in People : MailsInv(p)

-----------------------------------------------------------------------------
(* About the schedule.                                                      *)

LEMMA ReachedGrows ==
  ASSUME NEW a \in Int, NEW b \in Int, a <= b
  PROVE  Reached(a) \in Nat /\ Reached(b) \in Nat /\ Reached(a) <= Reached(b)
<1> DEFINE Steps(age) == {n \in DOMAIN SCHEDULE :
                            \E m \in DOMAIN SCHEDULE : m >= n /\ age >= SCHEDULE[m]}
<1>1. Len(SCHEDULE) \in Nat /\ DOMAIN SCHEDULE = 1..Len(SCHEDULE)
  BY TimesAssumption
<1>2. IsFiniteSet(DOMAIN SCHEDULE)
  BY <1>1, FS_Interval
<1>3. \A m \in DOMAIN SCHEDULE : SCHEDULE[m] \in Nat
  BY TimesAssumption
<1>4. Steps(a) \subseteq Steps(b) /\ Steps(a) \subseteq DOMAIN SCHEDULE
        /\ Steps(b) \subseteq DOMAIN SCHEDULE
  BY <1>3
<1>5. IsFiniteSet(Steps(a)) /\ IsFiniteSet(Steps(b))
  BY <1>2, <1>4, FS_Subset
<1> HIDE DEF Steps
<1>6. /\ Cardinality(Steps(a)) \in Nat
      /\ Cardinality(Steps(b)) \in Nat
      /\ Cardinality(Steps(a)) <= Cardinality(Steps(b))
  BY <1>4, <1>5, FS_Subset, FS_CardinalityType
<1> QED
  BY <1>6 DEF Steps, Reached

LEMMA SendersAreFinite ==
  ASSUME NEW S, S \subseteq Callers
  PROVE  IsFiniteSet(S) /\ Cardinality(S) \in Nat
<1>1. IsFiniteSet(Callers)
  BY NamesAssumption, FS_Union DEF Callers
<1> QED
  BY <1>1, FS_Subset, FS_CardinalityType

-----------------------------------------------------------------------------
LEMMA InitIInv == Init => IInv
<1> SUFFICES ASSUME Init PROVE IInv
  OBVIOUS
<1>1. TypeOK
  <2>1. callers \in [Callers -> CallerRecord]
    BY DEF Init, CallerRecord, Idle
  <2>2. created \in [People -> 0..clock] /\ clock \in Nat
    BY DEF Init
  <2>3. last_nudged \in [People -> 0..clock \cup {Never}]
    BY DEF Init
  <2>4. mailed_at \in [People -> 0..clock \cup {Never}]
    BY DEF Init
  <2> QED
    BY <2>1, <2>2, <2>3, <2>4 DEF Init, TypeOK
<1>2. \A p \in People : WritingTo(p) = {} /\ Stamping(p) = {}
  BY DEF Init, WritingTo, Stamping, Idle
<1>3. \A p \in People : MailsInv(p)
  BY <1>2, FS_EmptySet DEF Init, MailsInv, RowShowsTheMail, SenderWaited
<1>4. CallersHaveAPerson /\ ListsAreCurrent
  BY DEF Init, CallersHaveAPerson, ListsAreCurrent, Idle, Callers
<1> QED
  BY <1>1, <1>3, <1>4 DEF IInv

-----------------------------------------------------------------------------
(* What a step of one caller leaves alone.                                  *)

OnlyMoves(c) ==
    /\ callers' \in [Callers -> CallerRecord]
    /\ \A d \in Callers \ {c} : callers'[d] = callers[d]

LEMMA GotoMoves ==
  ASSUME TypeOK, NEW c \in Callers,
         NEW step \in {"idle", "running", "checking", "sending", "stamping"},
         Goto(c, step)
  PROVE  /\ OnlyMoves(c)
         /\ callers'[c].pc = step
         /\ callers'[c].person = callers[c].person
         /\ callers'[c].todo = callers[c].todo
         /\ callers'[c].listed = callers[c].listed
BY DEF TypeOK, Goto, OnlyMoves, CallerRecord

LEMMA ReturnMoves ==
  ASSUME TypeOK, NEW c \in Callers, Return(c)
  PROVE  /\ OnlyMoves(c)
         /\ callers'[c].pc = IF c \in Runs THEN "running" ELSE "idle"
         /\ callers'[c].person = callers[c].person
         /\ callers'[c].todo = callers[c].todo
         /\ callers'[c].listed = callers[c].listed
BY GotoMoves DEF Return

\* A step that leaves the mails to a person alone, and who is writing to them.
LEMMA MailsInvKept ==
  ASSUME TypeOK, NEW p \in People, MailsInv(p),
         WritingTo(p)' = WritingTo(p), Stamping(p)' = Stamping(p),
         clock' \in Nat, clock <= clock',
         last_nudged'[p] = last_nudged[p], reminder_count'[p] = reminder_count[p],
         mails'[p] = mails[p], mailed_at'[p] = mailed_at[p], uncounted'[p] = uncounted[p],
         p \in raced' <=> p \in raced, p \in close' <=> p \in close
  PROVE  MailsInv(p)'
<1>1. Orderly(p)' <=> Orderly(p)
  BY DEF Orderly
<1>2. RowShowsTheMail(p)' <=> RowShowsTheMail(p)
  BY DEF RowShowsTheMail
<1>3. mailed_at[p] = Never \/ mailed_at[p] \in Nat
  BY DEF TypeOK
<1>4. SenderWaited(p) => SenderWaited(p)'
  BY <1>3, TimesAssumption DEF SenderWaited, TypeOK
<1> QED
  BY <1>1, <1>2, <1>4 DEF MailsInv

\* A caller that writes to at most one person, before and after.
LEMMA OthersKept ==
  ASSUME NEW c \in Callers, OnlyMoves(c), NEW p, NEW q, q # p,
         callers[c].pc \in {"sending", "stamping"} => callers[c].person = p,
         callers'[c].pc \in {"sending", "stamping"} => callers'[c].person = p
  PROVE  WritingTo(q)' = WritingTo(q) /\ Stamping(q)' = Stamping(q)
<1>1. \A d \in Callers : d \in WritingTo(q)' <=> d \in WritingTo(q)
  BY DEF WritingTo, OnlyMoves
<1>2. \A d \in WritingTo(q) : callers'[d] = callers[d]
  BY DEF WritingTo, OnlyMoves
<1>3. WritingTo(q)' = WritingTo(q)
  BY <1>1 DEF WritingTo
<1> QED
  BY <1>2, <1>3 DEF Stamping

\* A caller that writes to nobody, before and after.
LEMMA MailKept ==
  ASSUME TypeOK, \A p \in People : MailsInv(p), NEW c \in Callers, OnlyMoves(c),
         callers[c].pc \notin {"sending", "stamping"},
         callers'[c].pc \notin {"sending", "stamping"},
         UNCHANGED <<clock, last_nudged, reminder_count, history>>
  PROVE  \A p \in People : MailsInv(p)'
<1> SUFFICES ASSUME NEW p \in People PROVE MailsInv(p)'
  OBVIOUS
<1>1. WritingTo(p)' = WritingTo(p) /\ Stamping(p)' = Stamping(p)
  <2>1. WritingTo(p)' = WritingTo(p)
    BY DEF WritingTo, OnlyMoves
  <2>2. \A d \in WritingTo(p) : callers'[d] = callers[d]
    BY DEF WritingTo, OnlyMoves
  <2> QED
    BY <2>1, <2>2 DEF Stamping
<1> QED
  BY <1>1, MailsInvKept DEF TypeOK, history

\* A caller that goes through its list, or leaves it.
LEMMA ListsKept ==
  ASSUME TypeOK, ListsAreCurrent, NEW c \in Callers, OnlyMoves(c),
         UNCHANGED <<clock, created, last_nudged, reminder_count>>,
         c \in Runs /\ callers'[c].pc # "idle" =>
           /\ callers[c].pc # "idle"
           /\ callers'[c].listed = callers[c].listed
           /\ \A p \in People : OnTheList(c, p)' => OnTheList(c, p)
  PROVE  ListsAreCurrent'
<1> SUFFICES ASSUME NEW d \in Runs, callers'[d].pc # "idle"
             PROVE  /\ callers'[d].listed <= clock'
                    /\ clock' <= callers'[d].listed + RunTime
                    /\ \A p \in People : OnTheList(d, p)' =>
                         StillDue(p)' \/ (/\ last_nudged'[p] \in Nat
                                          /\ last_nudged'[p] >= callers'[d].listed)
  BY DEF ListsAreCurrent
<1>1. \A p \in People : StillDue(p)' <=> StillDue(p)
  BY DEF StillDue, Reached
<1>2. /\ callers[d].pc # "idle"
      /\ callers'[d].listed = callers[d].listed
      /\ \A p \in People : OnTheList(d, p)' => OnTheList(d, p)
  <2>1. CASE d = c
    BY <2>1
  <2>2. CASE d # c
    BY <2>2 DEF OnlyMoves, OnTheList, Callers
  <2> QED
    BY <2>1, <2>2
<1> QED
  BY <1>1, <1>2 DEF ListsAreCurrent

-----------------------------------------------------------------------------
(* The clock and the rows.                                                  *)

LEMMA TickStep ==
  ASSUME IInv, Tick
  PROVE  IInv'
<1> USE DEF IInv
<1>1. TypeOK'
  <2>1. clock' \in Nat /\ 0..clock \subseteq 0..clock'
    BY DEF TypeOK, Tick
  <2>2. created' \in [People -> 0..clock']
    BY <2>1 DEF TypeOK, Tick, rows
  <2>3. last_nudged' \in [People -> 0..clock' \cup {Never}]
    BY <2>1 DEF TypeOK, Tick, rows
  <2>4. mailed_at' \in [People -> 0..clock' \cup {Never}]
    BY <2>1 DEF TypeOK, Tick, history
  <2> QED
    BY <2>1, <2>2, <2>3, <2>4 DEF TypeOK, Tick, rows, history
<1>2. CallersHaveAPerson'
  BY DEF CallersHaveAPerson, Tick, rows
<1>3. ListsAreCurrent'
  <2>1. \A p \in People : StillDue(p) => StillDue(p)'
    <3> SUFFICES ASSUME NEW p \in People, StillDue(p) PROVE StillDue(p)'
      OBVIOUS
    <3>1. /\ clock - created[p] \in Int
          /\ clock' - created[p] \in Int
          /\ clock - created[p] <= clock' - created[p]
          /\ created' = created /\ reminder_count' = reminder_count
          /\ reminder_count[p] \in Nat
      BY DEF TypeOK, Tick, rows
    <3>2. /\ Reached(clock - created[p]) \in Nat
          /\ Reached(clock' - created[p]) \in Nat
          /\ Reached(clock - created[p]) <= Reached(clock' - created[p])
      BY <3>1, ReachedGrows
    <3> QED
      BY <3>1, <3>2 DEF StillDue, Reached
  <2>2. \A c \in Runs : callers[c].listed \in Nat
    BY DEF TypeOK, CallerRecord, Callers
  <2> QED
    BY <2>1, <2>2, TimesAssumption DEF ListsAreCurrent, Tick, rows, OnTheList, TypeOK
<1>4. \A p \in People : MailsInv(p)'
  <2>1. \A p \in People : WritingTo(p)' = WritingTo(p) /\ Stamping(p)' = Stamping(p)
    BY DEF Tick, WritingTo, Stamping
  <2> QED
    BY <2>1, MailsInvKept DEF Tick, rows, history, TypeOK
<1> QED
  BY <1>1, <1>2, <1>3, <1>4

LEMMA RowSteps ==
  ASSUME IInv, NEW p \in People, Invite(p) \/ Respond(p)
  PROVE  IInv'
<1> USE DEF IInv
<1>1. UNCHANGED <<clock, last_nudged, reminder_count, callers, history>>
  BY DEF Invite, Respond
<1>2. TypeOK'
  <2>1. /\ clock \in 0..clock /\ coverage_met \in BOOLEAN
        /\ created \in [People -> 0..clock]
        /\ status \in [People -> {"none", "open", "completed", "removed"}]
    BY DEF TypeOK
  <2>2. CASE Invite(p)
    BY <1>1, <2>1, <2>2 DEF TypeOK, Invite, history
  <2>3. CASE Respond(p)
    <3>1. /\ status' \in [People -> {"none", "open", "completed", "removed"}]
          /\ coverage_met' \in BOOLEAN
          /\ created' = created
      BY <2>1, <2>3 DEF Respond
    <3> QED
      BY <1>1, <3>1 DEF TypeOK, history
  <2> QED
    BY <2>2, <2>3
<1>3. \A q \in People : status[q] # "none" => status'[q] # "none" /\ created'[q] = created[q]
  BY DEF Invite, Respond, TypeOK
<1>4. CallersHaveAPerson'
  <2>1. \A c \in Callers : callers[c].todo \subseteq People
    BY DEF TypeOK, CallerRecord
  <2> QED
    BY <1>1, <1>3, <2>1 DEF CallersHaveAPerson
<1>5. ListsAreCurrent'
  <2>1. \A c \in Runs, q \in People : OnTheList(c, q) => status[q] # "none"
    BY DEF OnTheList, CallersHaveAPerson, Callers
  <2>2. \A c \in Runs, q \in People : OnTheList(c, q) /\ StillDue(q) => StillDue(q)'
    BY <1>1, <1>3, <2>1 DEF StillDue, Reached
  <2>3. \A c \in Runs, q \in People : OnTheList(c, q)' <=> OnTheList(c, q)
    BY <1>1 DEF OnTheList
  <2> QED
    BY <1>1, <2>2, <2>3 DEF ListsAreCurrent
<1>6. \A q \in People : MailsInv(q)'
  <2>1. \A q \in People : WritingTo(q)' = WritingTo(q) /\ Stamping(q)' = Stamping(q)
    BY <1>1 DEF WritingTo, Stamping
  <2> QED
    BY <1>1, <2>1, MailsInvKept DEF history, TypeOK
<1> QED
  BY <1>2, <1>4, <1>5, <1>6

-----------------------------------------------------------------------------
(* Who calls nudge.                                                         *)

\* What a step that touches only its caller has to show.
LEMMA CallerStep ==
  ASSUME IInv, NEW c \in Callers, OnlyMoves(c),
         UNCHANGED <<clock, rows, history>>,
         callers[c].pc \notin {"sending", "stamping"},
         callers'[c].pc \notin {"sending", "stamping"},
         callers'[c].pc = "checking" =>
           callers'[c].person \in People /\ status[callers'[c].person] # "none",
         callers'[c].pc = "running" => c \in Runs,
         \A p \in callers'[c].todo : status[p] # "none",
         ListsAreCurrent'
  PROVE  IInv'
<1>1. TypeOK'
  BY DEF IInv, TypeOK, OnlyMoves, rows, history
<1>2. CallersHaveAPerson'
  BY DEF IInv, CallersHaveAPerson, OnlyMoves, rows
<1>3. \A p \in People : MailsInv(p)'
  BY MailKept DEF IInv, rows
<1> QED
  BY <1>1, <1>2, <1>3 DEF IInv

LEMMA ClickNudgeStep ==
  ASSUME IInv, NEW c \in Callers, NEW p \in People, ClickNudge(c, p)
  PROVE  IInv'
<1>1. /\ OnlyMoves(c)
      /\ callers'[c].pc = "checking"
      /\ callers'[c].person = p
      /\ callers'[c].todo = callers[c].todo
  BY DEF IInv, TypeOK, ClickNudge, OnlyMoves, CallerRecord
<1>2. c \notin Runs
  BY NamesAssumption DEF ClickNudge
<1>3. ListsAreCurrent'
  BY <1>1, <1>2, ListsKept DEF IInv, ClickNudge, rows
<1>4. \A q \in callers[c].todo : status[q] # "none"
  BY DEF IInv, CallersHaveAPerson
<1> QED
  BY <1>1, <1>3, <1>4, CallerStep DEF ClickNudge

LEMMA ListDueStep ==
  ASSUME IInv, NEW c \in Callers, ListDue(c)
  PROVE  IInv'
<1>1. callers[c] \in CallerRecord /\ clock \in Nat /\ Due \subseteq People
  BY DEF IInv, TypeOK, Due
<1>2. /\ OnlyMoves(c)
      /\ callers'[c].pc = "running"
      /\ callers'[c].todo = Due
      /\ callers'[c].listed = clock
  BY <1>1 DEF IInv, TypeOK, ListDue, OnlyMoves, CallerRecord
<1>3. \A p \in Due : StillDue(p)
  <2>1. \A p \in People : /\ Reached(clock - created[p]) \in Nat
                          /\ reminder_count[p] \in Nat
    BY ReachedGrows DEF IInv, TypeOK
  <2> QED
    BY <2>1 DEF Due, StillDue
<1>4. ListsAreCurrent'
  <2> SUFFICES ASSUME NEW d \in Runs, callers'[d].pc # "idle"
               PROVE  /\ callers'[d].listed <= clock'
                      /\ clock' <= callers'[d].listed + RunTime
                      /\ \A p \in People : OnTheList(d, p)' =>
                           StillDue(p)' \/ (/\ last_nudged'[p] \in Nat
                                            /\ last_nudged'[p] >= callers'[d].listed)
    BY DEF ListsAreCurrent
  <2>1. \A p \in People : StillDue(p)' <=> StillDue(p)
    BY DEF StillDue, Reached, ListDue, rows
  <2>2. CASE d = c
    <3>1. clock' = clock /\ RunTime \in Nat
      BY TimesAssumption DEF ListDue
    <3>2. \A p \in People : OnTheList(c, p)' => p \in Due
      BY <1>2 DEF OnTheList
    <3> QED
      BY <1>1, <1>2, <1>3, <2>1, <2>2, <3>1, <3>2
  <2>3. CASE d # c
    <3>1. callers'[d] = callers[d]
      BY <1>2, <2>3 DEF OnlyMoves, Callers
    <3>2. \A p \in People : OnTheList(d, p)' <=> OnTheList(d, p)
      BY <3>1 DEF OnTheList
    <3> QED
      BY <3>1, <3>2, <2>1 DEF IInv, ListsAreCurrent, ListDue, rows
  <2> QED
    BY <2>2, <2>3
<1>5. c \in Runs /\ \A p \in Due : status[p] # "none"
  BY DEF ListDue, Due
<1> QED
  BY <1>2, <1>4, <1>5, CallerStep DEF ListDue

LEMMA NextDueStep ==
  ASSUME IInv, NEW c \in Callers, NextDue(c)
  PROVE  IInv'
<1>1. callers[c] \in CallerRecord /\ c \in Runs
  BY DEF IInv, TypeOK, NextDue
<1>2. CASE \E p \in callers[c].todo :
             callers' = [callers EXCEPT ![c].pc = "checking",
                                        ![c].person = p,
                                        ![c].todo = @ \ {p}]
  <2> PICK p \in callers[c].todo :
             callers' = [callers EXCEPT ![c].pc = "checking",
                                        ![c].person = p,
                                        ![c].todo = @ \ {p}]
    BY <1>2
  <2>1. p \in People /\ status[p] # "none"
    BY <1>1 DEF CallerRecord, IInv, CallersHaveAPerson
  <2>2. /\ OnlyMoves(c)
        /\ callers'[c].pc = "checking"
        /\ callers'[c].person = p
        /\ callers'[c].todo = callers[c].todo \ {p}
        /\ callers'[c].listed = callers[c].listed
    BY <1>1, <2>1 DEF IInv, TypeOK, OnlyMoves, CallerRecord
  <2>3. ListsAreCurrent'
    BY <2>2, ListsKept DEF IInv, NextDue, rows, OnTheList
  <2>4. \A q \in callers[c].todo : status[q] # "none"
    BY DEF IInv, CallersHaveAPerson
  <2> QED
    BY <2>1, <2>2, <2>3, <2>4, CallerStep DEF NextDue
<1>3. CASE callers' = [callers EXCEPT ![c] = Idle]
  <2>1. /\ Idle \in CallerRecord
        /\ Idle.pc = "idle" /\ Idle.todo = {}
    BY DEF CallerRecord, Idle
  <2>2. /\ OnlyMoves(c)
        /\ callers'[c] = Idle
    BY <1>3, <2>1 DEF IInv, TypeOK, OnlyMoves
  <2>3. /\ UNCHANGED <<clock, rows, history>>
        /\ callers[c].pc \notin {"sending", "stamping"}
    BY DEF NextDue
  <2>4. ListsAreCurrent'
    BY <2>1, <2>2, <2>3, ListsKept DEF IInv, rows
  <2> QED
    BY <2>1, <2>2, <2>3, <2>4, CallerStep
<1> QED
  BY <1>2, <1>3 DEF NextDue

-----------------------------------------------------------------------------
(* nudge.                                                                   *)

\* A caller that goes on in nudge, or returns from it.
NudgeMove(c) ==
    /\ OnlyMoves(c)
    /\ callers[c].pc \in {"checking", "sending", "stamping"}
    /\ \/ callers'[c].pc \in {"sending", "stamping"}
       \/ callers'[c].pc = IF c \in Runs THEN "running" ELSE "idle"
    /\ callers'[c].person = callers[c].person
    /\ callers'[c].todo = callers[c].todo
    /\ callers'[c].listed = callers[c].listed

LEMMA NudgeMoveKeeps ==
  ASSUME IInv, NEW c \in Callers, NudgeMove(c),
         UNCHANGED <<clock, status, created>>
  PROVE  /\ callers[c].person \in People
         /\ CallersHaveAPerson'
         /\ UNCHANGED <<last_nudged, reminder_count>> => ListsAreCurrent'
<1>1. callers[c].person \in People /\ status[callers[c].person] # "none"
  BY DEF IInv, CallersHaveAPerson, NudgeMove
<1>2. CallersHaveAPerson'
  BY <1>1 DEF IInv, CallersHaveAPerson, NudgeMove, OnlyMoves
<1>3. ASSUME UNCHANGED <<last_nudged, reminder_count>> PROVE ListsAreCurrent'
  <2>1. callers[c].pc # "idle" /\ \A p \in People : OnTheList(c, p)' => OnTheList(c, p)
    BY DEF OnTheList, NudgeMove
  <2> QED
    BY <1>3, <2>1, ListsKept DEF IInv, NudgeMove
<1> QED
  BY <1>1, <1>2, <1>3

\* The mails to people other than the caller's.
LEMMA NudgeMoveSparesOthers ==
  ASSUME IInv, NEW c \in Callers, NudgeMove(c), NEW q \in People, q # callers[c].person,
         clock' = clock,
         last_nudged'[q] = last_nudged[q], reminder_count'[q] = reminder_count[q],
         mails'[q] = mails[q], mailed_at'[q] = mailed_at[q], uncounted'[q] = uncounted[q],
         q \in raced' <=> q \in raced, q \in close' <=> q \in close
  PROVE  MailsInv(q)'
<1>1. WritingTo(q)' = WritingTo(q) /\ Stamping(q)' = Stamping(q)
  BY OthersKept DEF NudgeMove
<1> QED
  BY <1>1, MailsInvKept DEF IInv, TypeOK

LEMMA ReadRespondentStep ==
  ASSUME IInv, NEW c \in Callers, ReadRespondent(c)
  PROVE  IInv'
<1> PICK p \in People : p = callers[c].person
  BY DEF IInv, CallersHaveAPerson, ReadRespondent
<1>1. UNCHANGED <<clock, rows, mails, mailed_at, uncounted, close>>
  BY DEF ReadRespondent
<1>2. CASE Return(c) /\ UNCHANGED raced
  <2>1. NudgeMove(c)
    BY <1>2, ReturnMoves DEF IInv, NudgeMove, ReadRespondent
  <2>2. CallersHaveAPerson' /\ ListsAreCurrent'
    BY <1>1, <2>1, NudgeMoveKeeps DEF rows
  <2>3. callers'[c].pc \notin {"sending", "stamping"}
    BY <1>2, ReturnMoves DEF IInv
  <2>4. \A q \in People : MailsInv(q)'
    BY <1>1, <1>2, <2>1, <2>3, MailKept DEF IInv, NudgeMove, ReadRespondent, rows, history
  <2>5. TypeOK'
    BY <1>1, <1>2, <2>1 DEF IInv, TypeOK, NudgeMove, OnlyMoves, rows
  <2> QED
    BY <2>2, <2>4, <2>5 DEF IInv
<1>3. CASE /\ ~ Cooling(p)
           /\ Goto(c, "sending")
           /\ raced' = IF WritingTo(p) = {} THEN raced ELSE raced \cup {p}
  <2>1. NudgeMove(c) /\ callers'[c].pc = "sending" /\ callers[c].pc = "checking"
    BY <1>3, GotoMoves DEF IInv, NudgeMove, ReadRespondent
  <2>2. CallersHaveAPerson' /\ ListsAreCurrent'
    BY <1>1, <2>1, NudgeMoveKeeps DEF rows
  <2>3. TypeOK'
    BY <1>1, <1>3, <2>1 DEF IInv, TypeOK, NudgeMove, OnlyMoves, rows
  <2>4. \A q \in People \ {p} : MailsInv(q)'
    BY <1>1, <1>3, <2>1, NudgeMoveSparesOthers DEF rows
  <2>5. MailsInv(p)'
    <3>1. WritingTo(p)' = WritingTo(p) \cup {c}
      BY <2>1 DEF WritingTo, NudgeMove, OnlyMoves
    <3>2. Stamping(p)' = Stamping(p)
      BY <2>1 DEF WritingTo, Stamping, NudgeMove, OnlyMoves
    <3>3. MailsInv(p)
      BY DEF IInv
    <3>4. mails'[p] = reminder_count'[p] + uncounted'[p] + Cardinality(Stamping(p)')
      BY <1>1, <3>2, <3>3 DEF MailsInv, rows
    <3>5. p \in close' => p \in raced' \/ uncounted'[p] > 0
      BY <1>1, <1>3, <3>3 DEF MailsInv
    <3>6. ASSUME Orderly(p)'
          PROVE  /\ \A d, e \in WritingTo(p)' : d = e
                 /\ RowShowsTheMail(p)'
                 /\ SenderWaited(p)'
      <4>1. WritingTo(p) = {} /\ Orderly(p)
        BY <1>1, <1>3, <3>6 DEF Orderly
      <4>2. RowShowsTheMail(p) /\ Stamping(p) = {}
        BY <3>3, <4>1 DEF MailsInv, Stamping
      <4>3. RowShowsTheMail(p)'
        BY <1>1, <3>2, <4>2 DEF RowShowsTheMail, rows
      <4>4. /\ mailed_at[p] \in Nat \cup {Never}
            /\ last_nudged[p] \in Nat \cup {Never}
            /\ clock \in Nat
            /\ NUDGE_COOLDOWN \in Nat
            /\ Never \notin Int
        BY TimesAssumption, NamesAssumption DEF IInv, TypeOK
      <4>5. mailed_at[p] = Never \/ clock - mailed_at[p] >= NUDGE_COOLDOWN
        BY <1>3, <4>2, <4>4 DEF RowShowsTheMail, Cooling
      <4>6. SenderWaited(p)'
        BY <1>1, <4>5 DEF SenderWaited
      <4> QED
        BY <3>1, <4>1, <4>3, <4>6
    <3> QED
      BY <3>4, <3>5, <3>6 DEF MailsInv
  <2> QED
    BY <2>2, <2>3, <2>4, <2>5 DEF IInv
<1> QED
  BY <1>2, <1>3 DEF ReadRespondent

LEMMA AcceptedFacts ==
  ASSUME TypeOK, NEW p \in People, Accepted(p)
  PROVE  /\ mails' \in [People -> Nat]
         /\ mailed_at' \in [People -> 0..clock \cup {Never}]
         /\ close' \subseteq People
         /\ mails'[p] = mails[p] + 1 /\ mailed_at'[p] = clock
         /\ p \in close' => \/ p \in close
                            \/ mailed_at[p] # Never /\ clock - mailed_at[p] < NUDGE_COOLDOWN
         /\ \A q \in People \ {p} : /\ mails'[q] = mails[q]
                                    /\ mailed_at'[q] = mailed_at[q]
                                    /\ q \in close' <=> q \in close
<1>1. clock \in 0..clock
  BY DEF TypeOK
<1>2. /\ mailed_at' \in [People -> 0..clock \cup {Never}]
      /\ mailed_at'[p] = clock
      /\ \A q \in People \ {p} : mailed_at'[q] = mailed_at[q]
  BY <1>1 DEF TypeOK, Accepted
<1>3. /\ mails' \in [People -> Nat]
      /\ mails'[p] = mails[p] + 1
      /\ \A q \in People \ {p} : mails'[q] = mails[q]
  BY DEF TypeOK, Accepted
<1>4. /\ close' \subseteq People
      /\ p \in close' => \/ p \in close
                         \/ mailed_at[p] # Never /\ clock - mailed_at[p] < NUDGE_COOLDOWN
      /\ \A q \in People \ {p} : q \in close' <=> q \in close
  BY DEF TypeOK, Accepted
<1> QED
  BY <1>2, <1>3, <1>4

\* The third conjunct of MailsInv, before a mail: it will not be a close one.
LEMMA SenderIsNotClose ==
  ASSUME IInv, NEW c \in Callers, NEW p \in People, p = callers[c].person,
         callers[c].pc = "sending", Orderly(p)
  PROVE  /\ mailed_at[p] = Never \/ clock - mailed_at[p] >= NUDGE_COOLDOWN
         /\ WritingTo(p) = {c} /\ Stamping(p) = {}
         /\ RowShowsTheMail(p)
<1>1. c \in WritingTo(p) /\ c \notin Stamping(p)
  BY DEF WritingTo, Stamping
<1>2. /\ \A d, e \in WritingTo(p) : d = e
      /\ SenderWaited(p) /\ RowShowsTheMail(p)
  BY DEF IInv, MailsInv
<1>3. WritingTo(p) = {c}
  BY <1>1, <1>2
<1>4. Stamping(p) = {}
  BY <1>1, <1>3 DEF Stamping
<1> QED
  BY <1>2, <1>3, <1>4 DEF SenderWaited

LEMMA SendStep ==
  ASSUME IInv, NEW c \in Callers, Send(c)
  PROVE  IInv'
<1> PICK p \in People : p = callers[c].person
  BY DEF IInv, CallersHaveAPerson, Send
<1>1. UNCHANGED <<clock, rows, raced>> /\ callers[c].pc = "sending"
  BY DEF Send
<1>2. CASE Accepted(p) /\ Goto(c, "stamping") /\ UNCHANGED uncounted
  <2>1. NudgeMove(c) /\ callers'[c].pc = "stamping"
    BY <1>1, <1>2, GotoMoves DEF IInv, NudgeMove
  <2>2. CallersHaveAPerson' /\ ListsAreCurrent'
    BY <1>1, <2>1, NudgeMoveKeeps DEF rows
  <2>3. TypeOK'
    BY <1>1, <1>2, <2>1, AcceptedFacts DEF IInv, TypeOK, NudgeMove, OnlyMoves, rows
  <2>4. \A q \in People \ {p} : MailsInv(q)'
    BY <1>1, <1>2, <2>1, AcceptedFacts, NudgeMoveSparesOthers DEF IInv, rows
  <2>5. MailsInv(p)'
    <3>1. WritingTo(p)' = WritingTo(p)
      BY <1>1, <2>1 DEF WritingTo, NudgeMove, OnlyMoves
    <3>2. Stamping(p)' = Stamping(p) \cup {c} /\ c \notin Stamping(p)
      BY <1>1, <2>1 DEF WritingTo, Stamping, NudgeMove, OnlyMoves
    <3>3. Cardinality(Stamping(p)') = Cardinality(Stamping(p)) + 1
      <4>1. IsFiniteSet(Stamping(p)) /\ Cardinality(Stamping(p)) \in Nat
        BY SendersAreFinite DEF Stamping, WritingTo
      <4> QED
        BY <3>2, <4>1, FS_AddElement
    <3>4. MailsInv(p)
      BY DEF IInv
    <3>5. mails'[p] = reminder_count'[p] + uncounted'[p] + Cardinality(Stamping(p)')
      <4>1. reminder_count[p] \in Nat /\ uncounted[p] \in Nat /\ Cardinality(Stamping(p)) \in Nat
        BY SendersAreFinite DEF IInv, TypeOK, Stamping, WritingTo
      <4>2. mails'[p] = mails[p] + 1
        BY <1>2, AcceptedFacts DEF IInv
      <4>3. reminder_count' = reminder_count /\ uncounted' = uncounted
        BY <1>1, <1>2 DEF rows
      <4> QED
        BY <3>3, <3>4, <4>1, <4>2, <4>3 DEF MailsInv
    <3>6. Orderly(p)' <=> Orderly(p)
      BY <1>1, <1>2 DEF Orderly
    <3>7. p \in close' => p \in raced' \/ uncounted'[p] > 0
      <4>1. clock \in Nat /\ uncounted[p] \in Nat /\ mailed_at[p] \in Nat \cup {Never}
        BY DEF IInv, TypeOK
      <4>2. mailed_at[p] # Never /\ clock - mailed_at[p] < NUDGE_COOLDOWN => ~ Orderly(p)
        BY <1>1, <4>1, SenderIsNotClose, TimesAssumption
      <4>3. p \in close' => p \in close \/ ~ Orderly(p)
        BY <1>2, <4>2, AcceptedFacts DEF IInv
      <4> QED
        BY <1>1, <1>2, <3>4, <4>1, <4>3 DEF MailsInv, Orderly
    <3>8. ASSUME Orderly(p)'
          PROVE  /\ \A d, e \in WritingTo(p)' : d = e
                 /\ RowShowsTheMail(p)'
                 /\ SenderWaited(p)'
      <4>1. WritingTo(p)' = {c} /\ Stamping(p)' = {c}
        BY <1>1, <3>1, <3>2, <3>6, <3>8, SenderIsNotClose
      <4> QED
        BY <4>1 DEF RowShowsTheMail, SenderWaited
    <3> QED
      BY <3>5, <3>7, <3>8 DEF MailsInv
  <2> QED
    BY <2>2, <2>3, <2>4, <2>5 DEF IInv
<1>3. CASE Return(c) /\ UNCHANGED <<mails, mailed_at, uncounted, close>>
  <2>1. NudgeMove(c) /\ callers'[c].pc \notin {"sending", "stamping"}
    BY <1>1, <1>3, ReturnMoves DEF IInv, NudgeMove
  <2>2. CallersHaveAPerson' /\ ListsAreCurrent'
    BY <1>1, <2>1, NudgeMoveKeeps DEF rows
  <2>3. TypeOK'
    BY <1>1, <1>3, <2>1 DEF IInv, TypeOK, NudgeMove, OnlyMoves, rows
  <2>4. \A q \in People \ {p} : MailsInv(q)'
    BY <1>1, <1>3, <2>1, NudgeMoveSparesOthers DEF rows
  <2>5. MailsInv(p)'
    <3>1. WritingTo(p)' = WritingTo(p) \ {c}
      BY <1>1, <2>1 DEF WritingTo, NudgeMove, OnlyMoves
    <3>2. Stamping(p)' = Stamping(p)
      BY <1>1, <2>1 DEF WritingTo, Stamping, NudgeMove, OnlyMoves
    <3>3. MailsInv(p)
      BY DEF IInv
    <3>4. Orderly(p)' <=> Orderly(p)
      BY <1>1, <1>3 DEF Orderly
    <3>5. ASSUME Orderly(p)'
          PROVE  /\ \A d, e \in WritingTo(p)' : d = e
                 /\ RowShowsTheMail(p)'
                 /\ SenderWaited(p)'
      <4>1. WritingTo(p)' = {} /\ Stamping(p)' = {} /\ Stamping(p) = {} /\ RowShowsTheMail(p)
        BY <1>1, <3>1, <3>2, <3>4, <3>5, SenderIsNotClose
      <4> QED
        BY <1>1, <1>3, <4>1 DEF RowShowsTheMail, SenderWaited, rows
    <3> QED
      BY <1>1, <1>3, <3>2, <3>3, <3>5 DEF MailsInv, rows
  <2> QED
    BY <2>2, <2>3, <2>4, <2>5 DEF IInv
<1>4. CASE /\ Accepted(p)
           /\ Return(c)
           /\ uncounted' = [uncounted EXCEPT ![p] = @ + 1]
  <2>1. NudgeMove(c) /\ callers'[c].pc \notin {"sending", "stamping"}
    BY <1>1, <1>4, ReturnMoves DEF IInv, NudgeMove
  <2>2. CallersHaveAPerson' /\ ListsAreCurrent'
    BY <1>1, <2>1, NudgeMoveKeeps DEF rows
  <2>3. /\ uncounted' \in [People -> Nat]
        /\ uncounted'[p] = uncounted[p] + 1
        /\ \A q \in People \ {p} : uncounted'[q] = uncounted[q]
    BY <1>4 DEF IInv, TypeOK
  <2>4. TypeOK'
    BY <1>1, <1>4, <2>1, <2>3, AcceptedFacts DEF IInv, TypeOK, NudgeMove, OnlyMoves, rows
  <2>5. \A q \in People \ {p} : MailsInv(q)'
    BY <1>1, <1>4, <2>1, <2>3, AcceptedFacts, NudgeMoveSparesOthers DEF IInv, rows
  <2>6. MailsInv(p)'
    <3>1. Stamping(p)' = Stamping(p)
      BY <1>1, <2>1 DEF WritingTo, Stamping, NudgeMove, OnlyMoves
    <3>2. reminder_count[p] \in Nat /\ uncounted[p] \in Nat /\ Cardinality(Stamping(p)) \in Nat
      BY SendersAreFinite DEF IInv, TypeOK, Stamping, WritingTo
    <3>3. mails'[p] = mails[p] + 1
      BY <1>4, AcceptedFacts DEF IInv
    <3>4. uncounted'[p] > 0 /\ ~ Orderly(p)'
      BY <2>3, <3>2 DEF Orderly
    <3> QED
      BY <1>1, <2>3, <3>1, <3>2, <3>3, <3>4 DEF IInv, MailsInv, rows
  <2> QED
    BY <2>2, <2>4, <2>5, <2>6 DEF IInv
<1> QED
  BY <1>2, <1>3, <1>4 DEF Send

LEMMA StampStep ==
  ASSUME IInv, NEW c \in Callers, Stamp(c)
  PROVE  IInv'
<1> PICK p \in People : p = callers[c].person
  BY DEF IInv, CallersHaveAPerson, Stamp
<1>1. /\ UNCHANGED <<clock, status, created, coverage_met, history>>
      /\ callers[c].pc = "stamping"
  BY DEF Stamp
<1>2. clock \in Nat /\ clock \in 0..clock
  BY DEF IInv, TypeOK
<1>3. /\ last_nudged' \in [People -> 0..clock \cup {Never}]
      /\ last_nudged'[p] = clock
      /\ \A q \in People \ {p} : last_nudged'[q] = last_nudged[q]
  BY <1>2 DEF Stamp, IInv, TypeOK
<1>4. /\ reminder_count' \in [People -> Nat]
      /\ reminder_count'[p] = reminder_count[p] + 1
      /\ \A q \in People \ {p} : reminder_count'[q] = reminder_count[q]
  BY DEF Stamp, IInv, TypeOK
<1>5. NudgeMove(c) /\ callers'[c].pc \notin {"sending", "stamping"}
  BY <1>1, ReturnMoves DEF IInv, NudgeMove, Stamp
<1>6. CallersHaveAPerson'
  BY <1>1, <1>5, NudgeMoveKeeps
<1>7. ListsAreCurrent'
  <2> SUFFICES ASSUME NEW d \in Runs, callers'[d].pc # "idle"
               PROVE  /\ callers'[d].listed <= clock'
                      /\ clock' <= callers'[d].listed + RunTime
                      /\ \A q \in People : OnTheList(d, q)' =>
                           StillDue(q)' \/ (/\ last_nudged'[q] \in Nat
                                            /\ last_nudged'[q] >= callers'[d].listed)
    BY DEF ListsAreCurrent
  <2>1. /\ callers[d].pc # "idle"
        /\ callers'[d].listed = callers[d].listed
        /\ \A q \in People : OnTheList(d, q)' => OnTheList(d, q)
    BY <1>1, <1>5 DEF NudgeMove, OnlyMoves, OnTheList, Callers
  <2>2. callers[d].listed <= clock /\ clock <= callers[d].listed + RunTime
    BY <2>1 DEF IInv, ListsAreCurrent
  <2>3. \A q \in People \ {p} : StillDue(q) => StillDue(q)'
    BY <1>1, <1>4 DEF StillDue, Reached
  <2>4. \A q \in People \ {p} : OnTheList(d, q)' =>
          StillDue(q)' \/ (last_nudged'[q] \in Nat /\ last_nudged'[q] >= callers'[d].listed)
    BY <1>3, <2>1, <2>3 DEF IInv, ListsAreCurrent
  <2>5. last_nudged'[p] \in Nat /\ last_nudged'[p] >= callers'[d].listed
    BY <1>2, <1>3, <2>1, <2>2
  <2> QED
    BY <1>1, <2>1, <2>2, <2>4, <2>5
<1>8. TypeOK'
  BY <1>1, <1>3, <1>4, <1>5 DEF IInv, TypeOK, NudgeMove, OnlyMoves, history
<1>9. \A q \in People \ {p} : MailsInv(q)'
  BY <1>1, <1>3, <1>4, <1>5, NudgeMoveSparesOthers DEF history
<1>10. MailsInv(p)'
  <2>1. WritingTo(p)' = WritingTo(p) \ {c} /\ c \in WritingTo(p)
    BY <1>1, <1>5 DEF WritingTo, NudgeMove, OnlyMoves
  <2>2. Stamping(p)' = Stamping(p) \ {c} /\ c \in Stamping(p)
    BY <1>1, <1>5 DEF WritingTo, Stamping, NudgeMove, OnlyMoves
  <2>3. /\ Cardinality(Stamping(p)') = Cardinality(Stamping(p)) - 1
        /\ Cardinality(Stamping(p)) \in Nat
    <3>1. IsFiniteSet(Stamping(p)) /\ Cardinality(Stamping(p)) \in Nat
      BY SendersAreFinite DEF Stamping, WritingTo
    <3> QED
      BY <2>2, <3>1, FS_RemoveElement
  <2>4. MailsInv(p)
    BY DEF IInv
  <2>5. mails'[p] = reminder_count'[p] + uncounted'[p] + Cardinality(Stamping(p)')
    <3>1. reminder_count[p] \in Nat /\ uncounted[p] \in Nat
      BY DEF IInv, TypeOK
    <3> QED
      BY <1>1, <1>4, <2>3, <2>4, <3>1 DEF MailsInv, history
  <2>6. RowShowsTheMail(p)'
    <3>1. mailed_at[p] = Never \/ mailed_at[p] \in 0..clock
      BY DEF IInv, TypeOK
    <3> QED
      BY <1>1, <1>2, <1>3, <3>1 DEF RowShowsTheMail, history
  <2>7. ASSUME Orderly(p)'
        PROVE  /\ \A d, e \in WritingTo(p)' : d = e
               /\ SenderWaited(p)'
    <3>1. \A d, e \in WritingTo(p) : d = e
      BY <1>1, <2>4, <2>7 DEF MailsInv, Orderly, history
    <3>2. WritingTo(p)' = {} /\ Stamping(p)' = {}
      BY <2>1, <3>1 DEF Stamping
    <3> QED
      BY <3>2 DEF SenderWaited
  <2> QED
    BY <1>1, <2>4, <2>5, <2>6, <2>7 DEF MailsInv, history
<1> QED
  BY <1>6, <1>7, <1>8, <1>9, <1>10 DEF IInv

\* A caller that is stopped, wherever it was.
LEMMA Stopped ==
  ASSUME IInv, NEW c \in Callers, OnlyMoves(c), Uncount(c),
         UNCHANGED <<clock, rows, mails, mailed_at, raced, close>>,
         callers'[c].pc \notin {"sending", "stamping"},
         CallersHaveAPerson', ListsAreCurrent'
  PROVE  IInv'
<1>1. CASE callers[c].pc \notin {"sending", "stamping"}
  <2>1. UNCHANGED history
    BY <1>1 DEF Uncount, history
  <2>2. TypeOK'
    BY <2>1 DEF IInv, TypeOK, OnlyMoves, rows, history
  <2>3. \A p \in People : MailsInv(p)'
    BY <1>1, <2>1, MailKept DEF IInv, rows
  <2> QED
    BY <2>2, <2>3 DEF IInv
<1>2. CASE callers[c].pc \in {"sending", "stamping"}
  <2> PICK p \in People : p = callers[c].person
    BY <1>2 DEF IInv, CallersHaveAPerson
  <2>1. /\ uncounted' \in [People -> Nat]
        /\ uncounted'[p] = IF callers[c].pc = "stamping" THEN uncounted[p] + 1 ELSE uncounted[p]
        /\ \A q \in People \ {p} : uncounted'[q] = uncounted[q]
    BY DEF Uncount, IInv, TypeOK
  <2>2. TypeOK'
    BY <2>1 DEF IInv, TypeOK, OnlyMoves, rows
  <2>3. \A q \in People \ {p} : MailsInv(q)'
    <3> SUFFICES ASSUME NEW q \in People \ {p} PROVE MailsInv(q)'
      OBVIOUS
    <3>1. WritingTo(q)' = WritingTo(q) /\ Stamping(q)' = Stamping(q)
      BY OthersKept
    <3> QED
      BY <2>1, <3>1, MailsInvKept DEF IInv, TypeOK, rows
  <2>4. MailsInv(p)'
    <3>1. WritingTo(p)' = WritingTo(p) \ {c} /\ c \in WritingTo(p)
      BY <1>2 DEF WritingTo, OnlyMoves
    <3>2. Stamping(p)' = Stamping(p) \ {c}
      BY DEF WritingTo, Stamping, OnlyMoves
    <3>3. MailsInv(p) /\ reminder_count[p] \in Nat /\ uncounted[p] \in Nat
      BY DEF IInv, TypeOK
    <3>4. IsFiniteSet(Stamping(p)) /\ Cardinality(Stamping(p)) \in Nat
      BY SendersAreFinite DEF Stamping, WritingTo
    <3>5. mails'[p] = reminder_count'[p] + uncounted'[p] + Cardinality(Stamping(p)')
      <4>1. CASE callers[c].pc = "stamping"
        <5>1. c \in Stamping(p)
          BY <3>1, <4>1 DEF Stamping
        <5>2. Cardinality(Stamping(p)') = Cardinality(Stamping(p)) - 1
          BY <3>2, <3>4, <5>1, FS_RemoveElement
        <5> QED
          BY <2>1, <3>3, <3>4, <4>1, <5>2 DEF MailsInv, rows
      <4>2. CASE callers[c].pc = "sending"
        <5>1. Stamping(p)' = Stamping(p)
          BY <3>2, <4>2 DEF Stamping
        <5> QED
          BY <2>1, <3>3, <4>2, <5>1 DEF MailsInv, rows
      <4> QED
        BY <1>2, <4>1, <4>2
    <3>6. p \in close' => p \in raced' \/ uncounted'[p] > 0
      BY <2>1, <3>3 DEF MailsInv
    <3>7. ASSUME Orderly(p)'
          PROVE  /\ \A d, e \in WritingTo(p)' : d = e
                 /\ RowShowsTheMail(p)'
                 /\ SenderWaited(p)'
      <4>1. callers[c].pc = "sending" /\ Orderly(p)
        BY <1>2, <2>1, <3>3, <3>7 DEF Orderly
      <4>2. WritingTo(p) = {c} /\ Stamping(p) = {} /\ RowShowsTheMail(p)
        BY <4>1, SenderIsNotClose
      <4>3. WritingTo(p)' = {} /\ Stamping(p)' = {}
        BY <3>1, <3>2, <4>2
      <4> QED
        BY <4>2, <4>3 DEF RowShowsTheMail, SenderWaited, rows
    <3> QED
      BY <3>5, <3>6, <3>7 DEF MailsInv
  <2> QED
    BY <2>2, <2>3, <2>4 DEF IInv
<1> QED
  BY <1>1, <1>2

LEMMA FailStep ==
  ASSUME IInv, NEW c \in Callers, Fail(c)
  PROVE  IInv'
<1>1. /\ UNCHANGED <<clock, rows, mails, mailed_at, raced, close>>
      /\ Uncount(c) /\ Return(c)
      /\ callers[c].pc \in {"checking", "sending", "stamping"}
  BY DEF Fail
<1>2. NudgeMove(c) /\ callers'[c].pc \notin {"sending", "stamping"}
  BY <1>1, ReturnMoves DEF IInv, NudgeMove
<1>3. CallersHaveAPerson' /\ ListsAreCurrent'
  BY <1>1, <1>2, NudgeMoveKeeps DEF rows
<1> QED
  BY <1>1, <1>2, <1>3, Stopped DEF NudgeMove

LEMMA DieStep ==
  ASSUME IInv, NEW c \in Callers, Die(c)
  PROVE  IInv'
<1>1. /\ UNCHANGED <<clock, rows, mails, mailed_at, raced, close>>
      /\ Uncount(c)
      /\ callers' = [callers EXCEPT ![c] = Idle]
  BY DEF Die
<1>2. Idle \in CallerRecord /\ Idle.pc = "idle" /\ Idle.todo = {}
  BY DEF CallerRecord, Idle
<1>3. OnlyMoves(c) /\ callers'[c] = Idle
  BY <1>1, <1>2 DEF IInv, TypeOK, OnlyMoves
<1>4. ListsAreCurrent'
  BY <1>1, <1>2, <1>3, ListsKept DEF IInv, rows
<1>5. CallersHaveAPerson'
  BY <1>1, <1>2, <1>3 DEF IInv, CallersHaveAPerson, OnlyMoves, rows
<1> QED
  BY <1>1, <1>2, <1>3, <1>4, <1>5, Stopped

-----------------------------------------------------------------------------
LEMMA StutterStep == IInv /\ UNCHANGED vars => IInv'
<1> SUFFICES ASSUME IInv, UNCHANGED vars PROVE IInv'
  OBVIOUS
<1>1. TypeOK' /\ CallersHaveAPerson'
  BY DEF IInv, TypeOK, CallersHaveAPerson, vars, rows, history
<1>2. ListsAreCurrent'
  BY DEF IInv, ListsAreCurrent, StillDue, OnTheList, Reached, vars, rows
<1>3. \A p \in People : MailsInv(p)'
  BY DEF IInv, MailsInv, Orderly, RowShowsTheMail, SenderWaited, Stamping, WritingTo,
         vars, rows, history
<1> QED
  BY <1>1, <1>2, <1>3 DEF IInv

LEMMA NextIInv == IInv /\ [Next]_vars => IInv'
<1> SUFFICES ASSUME IInv, [Next]_vars PROVE IInv'
  OBVIOUS
<1>1. CASE Tick
  BY <1>1, TickStep
<1>2. ASSUME NEW p \in People, Invite(p) \/ Respond(p) PROVE IInv'
  BY <1>2, RowSteps
<1>3. ASSUME NEW c \in Callers, NEW p \in People, ClickNudge(c, p) PROVE IInv'
  BY <1>3, ClickNudgeStep
<1>4. ASSUME NEW c \in Callers, ListDue(c) \/ NextDue(c) PROVE IInv'
  BY <1>4, ListDueStep, NextDueStep
<1>5. ASSUME NEW c \in Callers, ReadRespondent(c) \/ Send(c) \/ Stamp(c) \/ Fail(c) \/ Die(c)
      PROVE  IInv'
  BY <1>5, ReadRespondentStep, SendStep, StampStep, FailStep, DieStep
<1>6. CASE UNCHANGED vars
  BY <1>6, StutterStep
<1> QED
  BY <1>1, <1>2, <1>3, <1>4, <1>5, <1>6 DEF Next

(***************************************************************************)
(* IInv is inductive.                                                      *)
(***************************************************************************)
THEOREM Invariance == Spec => []IInv
BY InitIInv, NextIInv, PTL DEF Spec

(***************************************************************************)
(* The types, and that no column holds a time still to come.               *)
(***************************************************************************)
THEOREM TypeCorrect == Spec => []TypeOK
<1>1. IInv => TypeOK
  BY DEF IInv
<1> QED
  BY <1>1, Invariance, PTL

(***************************************************************************)
(* nudge: reminder_count misses exactly the mails whose sender failed      *)
(* before its UPDATE, for any number of clicks and runs.                   *)
(***************************************************************************)
THEOREM MailsCounted == Spec => []MailsAreCounted
<1>1. IInv => MailsAreCounted
  BY DEF IInv, MailsInv, MailsAreCounted, Stamping
<1> QED
  BY <1>1, Invariance, PTL

(***************************************************************************)
(* nudge: two reminders within the cooldown take two callers at once, or a *)
(* mail that the row does not show.                                        *)
(***************************************************************************)
THEOREM Spaced == Spec => []SpacedUnlessRaced
<1>1. IInv => SpacedUnlessRaced
  BY DEF IInv, MailsInv, SpacedUnlessRaced, TypeOK
<1> QED
  BY <1>1, Invariance, PTL

(***************************************************************************)
(* reminders.run: whom a run goes on to write to is still due, however old *)
(* its list, since the run is over before a stamp it missed has cooled     *)
(* down (TimesAssumption).                                                 *)
(***************************************************************************)
THEOREM StaleList == Spec => StaleListIsHarmless
<1> DEFINE Harmless ==
      \A c \in Runs :
         callers[c].pc = "checking" /\ callers'[c].pc = "sending" =>
           LET p == callers[c].person IN
           /\ reminder_count[p] < MAX_AUTOMATIC
           /\ reminder_count[p] < Reached(clock - created[p])
<1>1. IInv /\ [Next]_vars => [Harmless]_vars
  <2> SUFFICES ASSUME IInv, Next, NEW c \in Runs,
                      callers[c].pc = "checking", callers'[c].pc = "sending"
               PROVE  StillDue(callers[c].person)
    BY DEF StillDue, vars
  <2>1. c \in Callers /\ callers[c] \in CallerRecord
    BY DEF Callers, IInv, TypeOK
  <2>2. ReadRespondent(c)
    <3>1. CASE Tick \/ \E p \in People : Invite(p) \/ Respond(p)
      BY <3>1 DEF Tick, Invite, Respond
    <3>2. ASSUME NEW d \in Callers, d # c,
                 \/ \E p \in People : ClickNudge(d, p)
                 \/ ListDue(d) \/ NextDue(d) \/ ReadRespondent(d) \/ Send(d) \/ Stamp(d)
                 \/ Fail(d) \/ Die(d)
          PROVE  callers'[c] = callers[c]
      BY <2>1, <3>2 DEF ClickNudge, ListDue, NextDue, ReadRespondent, Send, Stamp, Fail, Die,
                        Return, Goto, IInv, TypeOK
    <3>3. CASE \/ \E p \in People : ClickNudge(c, p)
               \/ ListDue(c) \/ NextDue(c) \/ Send(c) \/ Stamp(c)
      BY <3>3 DEF ClickNudge, ListDue, NextDue, Send, Stamp
    <3>4. CASE Die(c)
      BY <2>1, <3>4 DEF Die, Idle, IInv, TypeOK
    <3>5. CASE Fail(c)
      BY <2>1, <3>5, ReturnMoves DEF Fail, IInv
    <3> QED
      BY <3>1, <3>2, <3>3, <3>4, <3>5 DEF Next
  <2>3. ~ Cooling(callers[c].person)
    BY <2>1, <2>2, ReturnMoves DEF ReadRespondent, IInv
  <2>4. callers[c].person \in People
    BY <2>1 DEF IInv, CallersHaveAPerson
  <2>5. \/ StillDue(callers[c].person)
        \/ /\ last_nudged[callers[c].person] \in Nat
           /\ last_nudged[callers[c].person] >= callers[c].listed
           /\ clock <= callers[c].listed + RunTime
    BY <2>4 DEF IInv, ListsAreCurrent, OnTheList
  <2>6. callers[c].listed \in Nat /\ clock \in Nat
    BY <2>1 DEF CallerRecord, IInv, TypeOK
  <2> QED
    BY <2>3, <2>5, <2>6, TimesAssumption, NamesAssumption DEF Cooling
<1> QED
  BY <1>1, Invariance, PTL DEF Spec, StaleListIsHarmless
=============================================================================
