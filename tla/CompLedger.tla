----------------------------- MODULE CompLedger ------------------------------
(***************************************************************************)
(* What access codes promise: a ledger of comped engagements, in which     *)
(* every engagement takes one use of one code, at once, while the code has *)
(* uses left.  No submission ever sees the ledger half written.            *)
(***************************************************************************)
EXTENDS Integers

CONSTANTS
    Submissions,
    Codes,
    MaxUses

VARIABLES
    comped,
    times_used

Init ==
    /\ comped = {}
    /\ times_used = [c \in Codes |-> 0]

Redeem(s, c) ==
    /\ s \notin comped
    /\ times_used[c] < MaxUses[c]
    /\ comped' = comped \cup {s}
    /\ times_used' = [times_used EXCEPT ![c] = times_used[c] + 1]

Next == \E s \in Submissions, c \in Codes : Redeem(s, c)

Spec == Init /\ [][Next]_<<comped, times_used>>
=============================================================================
