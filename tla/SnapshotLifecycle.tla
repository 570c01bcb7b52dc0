------------------------- MODULE SnapshotLifecycle -------------------------
(***************************************************************************)
(* The pure functions of engagements/lifecycle.py: the four states of an   *)
(* engagement's snapshot, the transitions the design allows, and the two   *)
(* deadlines.  Every other module that touches an engagement row takes its *)
(* states and its arithmetic on time from here.                            *)
(*                                                                         *)
(* Time is counted in ticks of an arbitrary length; a timestamp that was   *)
(* never written (NULL) is the value Never, which no clock reaches.        *)
(***************************************************************************)
EXTENDS Integers

CONSTANTS
    EditWindow,     \* EDIT_WINDOW_HOURS, the life of an Editable snapshot
    DraftLife       \* DRAFT_EXPIRY_DAYS, the life of a Draft never generated

ASSUME LifecycleAssumption == EditWindow \in Nat /\ DraftLife \in Nat

Draft    == "Draft"
Editable == "Editable"
Locked   == "Locked"
Expired  == "Expired"

SnapshotStates == {Draft, Editable, Locked, Expired}

Never == -1

ValidTransitions ==
    [s \in SnapshotStates |->
        CASE s = Draft    -> {Editable, Expired}
          [] s = Editable -> {Locked}
          [] OTHER        -> {}]

IsWritable(s) == s \in {Draft, Editable}

IsTerminal(s) == s \in {Locked, Expired}

\* compute_window_end: counted from the start of the first generation.
WindowEnd(firstGeneration) == firstGeneration + EditWindow

\* compute_expiry: counted from the purchase, the creation of the row.
Expiry(purchase) == purchase + DraftLife

\* decide_window_expiry_transition and the WHERE clause of the lock sweep.
WindowHasClosed(s, windowEnd, now) == s = Editable /\ windowEnd <= now

\* decide_draft_expiry_transition and the WHERE clause of the expiry sweep.
DraftHasExpired(s, purchase, now) == s = Draft /\ Expiry(purchase) <= now
=============================================================================
