-------------------------- MODULE AccessCodesProofs --------------------------
(***************************************************************************)
(* Proofs about AccessCodes, for any number of submissions and codes.      *)
(*                                                                         *)
(* The argument: the row lock makes a claim exclusive (ClaimIsExclusive),  *)
(* so the use a claim has found is still there when it commits             *)
(* (ClaimHasAUse), and the commit counts exactly one new redemption row.   *)
(***************************************************************************)
EXTENDS AccessCodes, FiniteSetTheorems, TLAPS

\* The holder of a code's row lock.
ClaimIsExclusive ==
    \A s, t \in Submissions :
        /\ pc[s] = "claimed"
        /\ pc[t] = "claimed"
        /\ form[s].code = form[t].code
        => s = t

ClaimHasAUse ==
    \A s \in Submissions : pc[s] = "claimed" =>
        /\ form[s].code \in Codes
        /\ times_used[form[s].code] < MaxUses[form[s].code]

\* Every committed submission has its engagement, and no other has one.
EngagementsAreCommitted ==
    \A s \in Submissions : s \in engagements <=> pc[s] = "committed"

\* What a transaction has found or inserted so far will be there at its end.
CompanyWillBeThere ==
    \A s \in Submissions : Open(s) =>
        uses_company[s] = s \/ uses_company[s] \in companies

UserWillBeThere ==
    \A s \in Submissions : pc[s] \in {"user", "claimed"} =>
        inserts_user[s] \/ HasAccount(form[s].email)

IInv ==
    /\ TypeOK
    /\ CodesAreAccounted
    /\ CompedIsRedeemed
    /\ ClaimIsExclusive
    /\ ClaimHasAUse
    /\ EngagementsAreCommitted
    /\ CompanyWillBeThere
    /\ UserWillBeThere

-----------------------------------------------------------------------------
(***************************************************************************)
(* The start: nothing is in any table.                                     *)
(***************************************************************************)
LEMMA InitIInv == Init => IInv
<1> SUFFICES ASSUME Init PROVE IInv
  OBVIOUS
<1> USE DEF Init
<1>1. TypeOK
  BY DEF TypeOK, Steps
<1>2. CodesAreAccounted
  <2> SUFFICES ASSUME NEW c \in Codes
               PROVE  /\ times_used[c] = Cardinality(RedemptionsOf(c))
                      /\ times_used[c] <= MaxUses[c]
    BY DEF CodesAreAccounted
  <2>1. RedemptionsOf(c) = {} /\ times_used[c] = 0
    BY DEF RedemptionsOf
  <2>2. Cardinality({}) = 0
    BY FS_EmptySet
  <2>3. MaxUses[c] \in Nat
    BY CodesAssumption
  <2> QED
    BY <2>1, <2>2, <2>3
<1>3. CompedIsRedeemed
  BY DEF CompedIsRedeemed
<1>4. ClaimIsExclusive /\ ClaimHasAUse /\ EngagementsAreCommitted
  BY DEF ClaimIsExclusive, ClaimHasAUse, EngagementsAreCommitted
<1>5. CompanyWillBeThere /\ UserWillBeThere
  BY DEF CompanyWillBeThere, UserWillBeThere, Open, InTransaction
<1> QED
  BY <1>1, <1>2, <1>3, <1>4, <1>5 DEF IInv

(***************************************************************************)
(* A step that commits nothing and claims nothing.                         *)
(***************************************************************************)
LEMMA QuietIInv ==
    ASSUME IInv, TypeOK', UNCHANGED <<form, database>>,
           \A s \in Submissions :
               /\ pc'[s] = "claimed" <=> pc[s] = "claimed"
               /\ pc'[s] = "committed" <=> pc[s] = "committed",
           CompanyWillBeThere', UserWillBeThere',
           \A s \in engagements : uses_company'[s] = uses_company[s]
    PROVE  IInv'
<1> USE DEF IInv, database
<1>1. CodesAreAccounted'
  BY DEF CodesAreAccounted, RedemptionsOf
<1>2. CompedIsRedeemed'
  BY DEF CompedIsRedeemed, HasAccount
<1>3. (ClaimIsExclusive /\ ClaimHasAUse /\ EngagementsAreCommitted)'
  BY DEF ClaimIsExclusive, ClaimHasAUse, EngagementsAreCommitted
<1> QED
  BY <1>1, <1>2, <1>3

(***************************************************************************)
(* Everything before the claim, and a rollback, is such a step.            *)
(***************************************************************************)
LEMMA TickIInv == IInv /\ Tick => IInv'
<1> SUFFICES ASSUME IInv, Tick PROVE IInv'
  OBVIOUS
<1>1. TypeOK'
  BY DEF IInv, Tick, TypeOK, transactions, database
<1>2. CompanyWillBeThere' /\ UserWillBeThere'
  BY DEF IInv, Tick, transactions, database, CompanyWillBeThere,
         UserWillBeThere, Open, HasAccount
<1> QED
  BY <1>1, <1>2, QuietIInv DEF Tick, transactions

(***************************************************************************)
(* No variable changes.                                                    *)
(***************************************************************************)
LEMMA StutterIInv == IInv /\ UNCHANGED vars => IInv'
<1> SUFFICES ASSUME IInv, UNCHANGED vars PROVE IInv'
  OBVIOUS
<1>1. TypeOK'
  BY DEF IInv, vars, TypeOK, transactions, database
<1>2. CompanyWillBeThere' /\ UserWillBeThere'
  BY DEF IInv, vars, transactions, database, CompanyWillBeThere,
         UserWillBeThere, Open, HasAccount
<1> QED
  BY <1>1, <1>2, QuietIInv DEF vars, transactions

(***************************************************************************)
(* The validation happens outside the transaction and holds nothing.       *)
(***************************************************************************)
LEMMA SubmitIInv == ASSUME IInv, NEW s \in Submissions, Submit(s) PROVE IInv'
<1>1. TypeOK'
  BY DEF IInv, Submit, TypeOK, Steps, database
<1>2. CompanyWillBeThere' /\ UserWillBeThere'
  BY DEF IInv, TypeOK, Submit, database, CompanyWillBeThere,
         UserWillBeThere, Open, InTransaction, HasAccount
<1> QED
  BY <1>1, <1>2, QuietIInv DEF Submit, IInv, TypeOK

(***************************************************************************)
(* The company row is a committed one, or the submission's own.            *)
(***************************************************************************)
LEMMA FindCompanyIInv ==
    ASSUME IInv, NEW s \in Submissions, FindCompany(s) PROVE IInv'
<1>1. PICK row \in Submissions :
        /\ row = s \/ row \in companies
        /\ uses_company' = [uses_company EXCEPT ![s] = row]
  BY DEF FindCompany, IInv, TypeOK, Named
<1>2. TypeOK'
  BY <1>1 DEF IInv, FindCompany, TypeOK, Steps, InTransaction, database
<1>3. CompanyWillBeThere' /\ UserWillBeThere'
  BY <1>1 DEF IInv, TypeOK, FindCompany, database, CompanyWillBeThere,
         UserWillBeThere, Open, InTransaction, HasAccount
<1>4. s \notin engagements
  BY DEF FindCompany, IInv, EngagementsAreCommitted
<1>5. \A t \in engagements : uses_company'[t] = uses_company[t]
  BY <1>1, <1>4 DEF IInv, TypeOK
<1> QED
  BY <1>2, <1>3, <1>5, QuietIInv DEF FindCompany, IInv, TypeOK

(***************************************************************************)
(* A user that is found has an account.                                    *)
(***************************************************************************)
LEMMA FindUserIInv == ASSUME IInv, NEW s \in Submissions, FindUser(s) PROVE IInv'
<1>1. TypeOK'
  BY DEF IInv, FindUser, TypeOK, Steps, InTransaction, database
<1>2. CompanyWillBeThere' /\ UserWillBeThere'
  BY DEF IInv, TypeOK, FindUser, database, CompanyWillBeThere,
         UserWillBeThere, Open, InTransaction, HasAccount
<1> QED
  BY <1>1, <1>2, QuietIInv DEF FindUser, IInv, TypeOK

(***************************************************************************)
(* A user that is not found is inserted.                                   *)
(***************************************************************************)
LEMMA InsertUserIInv ==
    ASSUME IInv, NEW s \in Submissions, InsertUser(s) PROVE IInv'
<1>1. TypeOK'
  BY DEF IInv, InsertUser, TypeOK, Steps, InTransaction, database
<1>2. CompanyWillBeThere' /\ UserWillBeThere'
  BY DEF IInv, TypeOK, InsertUser, database, CompanyWillBeThere,
         UserWillBeThere, Open, InTransaction, HasAccount
<1> QED
  BY <1>1, <1>2, QuietIInv DEF InsertUser, IInv, TypeOK

(***************************************************************************)
(* A rollback leaves no row and frees every lock.                          *)
(***************************************************************************)
LEMMA RollBackIInv == ASSUME IInv, NEW s \in Submissions, RollBack(s) PROVE IInv'
<1> USE DEF IInv, RollBack, Open, InTransaction
<1>1. TypeOK'
  BY DEF TypeOK, Steps, database
<1>2. (CompanyWillBeThere /\ UserWillBeThere)'
  BY DEF TypeOK, database, CompanyWillBeThere, UserWillBeThere, HasAccount
<1>3. \A t \in Submissions \ {s} : pc'[t] = pc[t]
  BY DEF TypeOK
<1>4. pc'[s] = "rolled_back"
  BY DEF TypeOK
<1>5. CodesAreAccounted' /\ CompedIsRedeemed'
  BY DEF database, CodesAreAccounted, RedemptionsOf, CompedIsRedeemed, HasAccount
<1>6. (ClaimIsExclusive /\ ClaimHasAUse /\ EngagementsAreCommitted)'
  BY <1>3, <1>4 DEF database, ClaimIsExclusive, ClaimHasAUse, EngagementsAreCommitted
<1> QED
  BY <1>1, <1>2, <1>5, <1>6

(***************************************************************************)
(* A claim finds the row of its code unlocked and a use left.              *)
(***************************************************************************)
LEMMA ClaimIInv == ASSUME IInv, NEW s \in Submissions, Claim(s) PROVE IInv'
<1> USE DEF IInv, Claim, database
<1>1. TypeOK'
  BY DEF TypeOK, Steps, InTransaction
<1>2. /\ \A t \in Submissions \ {s} : pc'[t] = pc[t]
      /\ pc'[s] = "claimed" /\ pc[s] = "user"
  BY DEF TypeOK
<1>3. (CodesAreAccounted /\ CompedIsRedeemed)'
  BY DEF CodesAreAccounted, RedemptionsOf, CompedIsRedeemed, HasAccount
<1>4. ClaimIsExclusive'
  BY <1>2 DEF ClaimIsExclusive, Others, LocksCode
<1>5. form[s].code \in Codes
  BY DEF TypeOK, Forms
<1>6. ClaimHasAUse'
  BY <1>2, <1>5 DEF ClaimHasAUse, Redeemable
<1>7. (EngagementsAreCommitted /\ UserWillBeThere)'
  BY <1>2 DEF EngagementsAreCommitted, UserWillBeThere, HasAccount
<1>8. CompanyWillBeThere'
  BY <1>2 DEF CompanyWillBeThere, Open, InTransaction
<1> QED
  BY <1>1, <1>3, <1>4, <1>6, <1>7, <1>8

(***************************************************************************)
(* A commit without a code counts nothing; one with a code counts one use  *)
(* and writes one redemption row, which was not there.                     *)
(***************************************************************************)
LEMMA CommitCounts ==
    ASSUME IInv, NEW s \in Submissions, Commit(s) PROVE CodesAreAccounted'
<1> USE DEF IInv, Commit
<1> SUFFICES ASSUME NEW c \in Codes
             PROVE  /\ times_used'[c] = Cardinality(RedemptionsOf(c)')
                    /\ times_used'[c] <= MaxUses[c]
  BY DEF CodesAreAccounted
<1>1. /\ times_used[c] = Cardinality(RedemptionsOf(c))
      /\ times_used[c] \in Nat /\ times_used[c] <= MaxUses[c]
      /\ MaxUses[c] \in Nat
      /\ form' = form /\ redemptions' = redemptions \cup Claimed(s)
  BY CodesAssumption DEF CodesAreAccounted, TypeOK
<1>2. s \notin redemptions
  BY DEF CompedIsRedeemed, EngagementsAreCommitted, InTransaction
<1>3. IsFiniteSet(RedemptionsOf(c)) /\ s \notin RedemptionsOf(c)
  <2>1. RedemptionsOf(c) \subseteq Submissions
    BY DEF RedemptionsOf, TypeOK
  <2> QED
    BY <2>1, <1>2, FS_Subset, SubmissionsAssumption DEF RedemptionsOf
<1>4. CASE pc[s] = "claimed" /\ form[s].code = c
  <2>1. RedemptionsOf(c)' = RedemptionsOf(c) \cup {s}
    BY <1>1, <1>4 DEF RedemptionsOf, Claimed
  <2>2. Cardinality(RedemptionsOf(c)') = Cardinality(RedemptionsOf(c)) + 1
    BY <2>1, <1>3, FS_AddElement
  <2>3. times_used'[c] = times_used[c] + 1
    BY <1>4 DEF CountUse
  <2>4. times_used[c] < MaxUses[c]
    BY <1>4 DEF ClaimHasAUse
  <2> QED
    BY <1>1, <2>2, <2>3, <2>4
<1>5. CASE ~ (pc[s] = "claimed" /\ form[s].code = c)
  <2>1. RedemptionsOf(c)' = RedemptionsOf(c)
    BY <1>1, <1>5 DEF RedemptionsOf, Claimed
  <2>2. times_used'[c] = times_used[c]
    BY <1>5 DEF CountUse
  <2> QED
    BY <1>1, <2>1, <2>2
<1> QED
  BY <1>4, <1>5

(***************************************************************************)
(* A commit makes every row of the submission visible at once.             *)
(***************************************************************************)
LEMMA CommitIInv == ASSUME IInv, NEW s \in Submissions, Commit(s) PROVE IInv'
<1> USE DEF IInv, Commit
<1>1. TypeOK'
  <2>1. times_used' \in [Codes -> Nat]
    BY DEF TypeOK, CountUse
  <2> QED
    BY <2>1 DEF TypeOK, Steps, Claimed
<1>2. CodesAreAccounted'
  BY CommitCounts
<1>3. /\ pc' = [pc EXCEPT ![s] = "committed"]
      /\ \A t \in Submissions \ {s} : pc'[t] = pc[t]
      /\ pc'[s] = "committed" /\ pc[s] \in {"user", "claimed"}
      /\ form' = form /\ engagements' = engagements \cup {s}
  BY DEF TypeOK
<1>4. CompedIsRedeemed'
  <2>1. comped' = redemptions'
    BY CodesAssumption DEF CompedIsRedeemed, Claimed
  <2>2. comped' = {t \in engagements' : form'[t].code # NoCode}
    BY <1>3 DEF CompedIsRedeemed
  <2>3. \A t \in engagements : uses_company[t] \in companies' /\ HasAccount(form[t].email)'
    BY DEF CompedIsRedeemed, HasAccount
  <2>4. uses_company[s] \in companies'
    BY <1>3 DEF CompanyWillBeThere, Open, InTransaction
  <2>5. HasAccount(form[s].email)'
    BY <1>3 DEF UserWillBeThere, HasAccount
  <2> QED
    BY <1>3, <2>1, <2>2, <2>3, <2>4, <2>5 DEF CompedIsRedeemed, HasAccount
<1>5. ClaimIsExclusive'
  BY <1>3 DEF ClaimIsExclusive
<1>6. ClaimHasAUse'
  <2> SUFFICES ASSUME NEW t \in Submissions, t # s, pc[t] = "claimed"
               PROVE  /\ form[t].code \in Codes
                      /\ times_used'[form[t].code] < MaxUses[form[t].code]
    BY <1>3 DEF ClaimHasAUse
  <2>1. ~ (pc[s] = "claimed" /\ form[s].code = form[t].code)
    BY DEF ClaimIsExclusive
  <2> QED
    BY <2>1 DEF ClaimHasAUse, CountUse
<1>7. EngagementsAreCommitted'
  BY <1>3 DEF EngagementsAreCommitted
<1>8. (CompanyWillBeThere /\ UserWillBeThere)'
  BY <1>3 DEF CompanyWillBeThere, UserWillBeThere, HasAccount, Open, InTransaction
<1> QED
  BY <1>1, <1>2, <1>4, <1>5, <1>6, <1>7, <1>8

(***************************************************************************)
(* One case per action of Next.                                            *)
(***************************************************************************)
LEMMA NextIInv == IInv /\ [Next]_vars => IInv'
<1> SUFFICES ASSUME IInv, [Next]_vars PROVE IInv'
  OBVIOUS
<1>1. CASE UNCHANGED vars
  BY <1>1, StutterIInv
<1>2. CASE Tick
  BY <1>2, TickIInv
<1>3. ASSUME NEW s \in Submissions,
             Submit(s) \/ FindCompany(s) \/ FindUser(s) \/ InsertUser(s)
      PROVE  IInv'
  BY <1>3, SubmitIInv, FindCompanyIInv, FindUserIInv, InsertUserIInv
<1>4. ASSUME NEW s \in Submissions, Claim(s) \/ Commit(s) \/ RollBack(s)
      PROVE  IInv'
  BY <1>4, ClaimIInv, CommitIInv, RollBackIInv
<1> QED
  BY <1>1, <1>2, <1>3, <1>4 DEF Next

-----------------------------------------------------------------------------
(***************************************************************************)
(* IInv holds in every reachable state.                                    *)
(***************************************************************************)
THEOREM Invariance == Spec => []IInv
BY InitIInv, NextIInv, PTL DEF Spec

(***************************************************************************)
(* Rows and transactions stay in their types, for any submissions, codes   *)
(* and bound on the clock.                                                 *)
(***************************************************************************)
THEOREM TypesAreKept == Spec => []TypeOK
<1>1. IInv => TypeOK
  BY DEF IInv
<1> QED
  BY <1>1, Invariance, PTL

(***************************************************************************)
(* A code is never redeemed more often than max_uses, and its counter      *)
(* agrees with its redemption rows.                                        *)
(***************************************************************************)
THEOREM CodesAccounted == Spec => []CodesAreAccounted
<1>1. IInv => CodesAreAccounted
  BY DEF IInv
<1> QED
  BY <1>1, Invariance, PTL

(***************************************************************************)
(* Comped engagements are exactly the redeemed ones.                       *)
(***************************************************************************)
THEOREM CompedRedeemed == Spec => []CompedIsRedeemed
<1>1. IInv => CompedIsRedeemed
  BY DEF IInv
<1> QED
  BY <1>1, Invariance, PTL

(***************************************************************************)
(* Every step is a step of the ledger or changes nothing it shows.         *)
(***************************************************************************)
LEMMA StepRefines ==
    ASSUME IInv, [Next]_vars PROVE [Ledger!Next]_<<comped, times_used>>
<1>1. CASE UNCHANGED vars
  BY <1>1 DEF vars, database
<1>2. CASE Tick
  BY <1>2 DEF Tick, database
<1>3. ASSUME NEW s \in Submissions, Commit(s)
      PROVE  [Ledger!Next]_<<comped, times_used>>
  <2> USE DEF IInv, Commit
  <2>1. CASE form[s].code = NoCode
    <3>1. pc[s] = "user" /\ comped' = comped
      BY <1>3, <2>1
    <3>2. times_used' = [c \in Codes |-> times_used[c]]
      BY <1>3, <3>1 DEF CountUse
    <3> QED
      BY <3>1, <3>2 DEF TypeOK
  <2>2. CASE form[s].code # NoCode
    <3> DEFINE c == form[s].code
    <3>1. pc[s] = "claimed" /\ comped' = comped \cup {s}
      BY <1>3, <2>2
    <3>2. c \in Codes /\ times_used[c] < MaxUses[c]
      BY <3>1 DEF ClaimHasAUse
    <3>3. times_used' = [times_used EXCEPT ![c] = times_used[c] + 1]
      BY <1>3, <3>1, <3>2 DEF CountUse, TypeOK
    <3>4. s \notin comped
      BY <3>1 DEF CompedIsRedeemed, EngagementsAreCommitted
    <3>5. Ledger!Redeem(s, c)
      BY <3>1, <3>2, <3>3, <3>4 DEF Ledger!Redeem
    <3> QED
      BY <3>2, <3>5 DEF Ledger!Next
  <2> QED
    BY <2>1, <2>2
<1>4. ASSUME NEW s \in Submissions,
             Submit(s) \/ FindCompany(s) \/ FindUser(s) \/ InsertUser(s)
             \/ Claim(s) \/ RollBack(s)
      PROVE  UNCHANGED <<comped, times_used>>
  BY <1>4 DEF Submit, FindCompany, FindUser, InsertUser, Claim, RollBack, database
<1> QED
  BY <1>1, <1>2, <1>3, <1>4 DEF Next

(***************************************************************************)
(* The transactions implement the ledger of comped engagements.            *)
(***************************************************************************)
THEOREM Refinement == Spec => LedgerSpec
<1>1. Init => Ledger!Init
  BY DEF Init, Ledger!Init
<1>2. IInv /\ [Next]_vars => [Ledger!Next]_<<comped, times_used>>
  BY StepRefines
<1> QED
  BY <1>1, <1>2, Invariance, PTL DEF Spec, LedgerSpec, Ledger!Spec
=============================================================================
