----------------------------- MODULE MCPurchase -----------------------------
(***************************************************************************)
(* The instance of Purchase that TLC checks: an engagement of any of three *)
(* kinds, two checkout sessions for it, and another form for its company.  *)
(***************************************************************************)
EXTENDS Purchase

Form(t, i, b, c) == [tier |-> t, instrument |-> i, bracket |-> b, coded |-> c]

MCForms == {Form("tier_2", "combined", "1-25",   FALSE),
            Form("tier_2", "tier_1",   "26-100", TRUE),
            Form("tier_1", "aiitsa",   "1-25",   FALSE)}
=============================================================================
