----------------------------- MODULE MCReminders -----------------------------
(***************************************************************************)
(* The instance of Reminders that TLC checks: one person, a buyer's click  *)
(* and two runs, and a schedule of two reminders.                          *)
(***************************************************************************)
EXTENDS Reminders, TLC

MCSchedule == <<1, 2>>

RunSymmetry == Permutations(Runs)
=============================================================================
