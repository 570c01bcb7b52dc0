---------------------------- MODULE CoverageGate -----------------------------
(***************************************************************************)
(* What the completion trigger of a multi-respondent engagement promises:  *)
(* coverage is declared met once, and from then on every document is       *)
(* started at most once, in the order of Parts and none before it.         *)
(***************************************************************************)
EXTENDS Integers, Sequences

CONSTANT
    Parts           \* the documents of the engagement, in order

VARIABLES
    coverage_met,
    queued          \* how often each document was started

Init ==
    /\ coverage_met = FALSE
    /\ queued = [i \in DOMAIN Parts |-> 0]

Declare ==
    /\ ~ coverage_met
    /\ coverage_met' = TRUE
    /\ UNCHANGED queued

Start(i) ==
    /\ coverage_met
    /\ \A k \in DOMAIN Parts : queued[k] = IF k < i THEN 1 ELSE 0
    /\ queued' = [queued EXCEPT ![i] = 1]
    /\ UNCHANGED coverage_met

Next == Declare \/ \E i \in DOMAIN Parts : Start(i)

Spec == Init /\ [][Next]_<<coverage_met, queued>>
=============================================================================
