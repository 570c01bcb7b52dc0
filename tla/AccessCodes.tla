----------------------------- MODULE AccessCodes -----------------------------
(***************************************************************************)
(* The start form: concurrent submissions that create a company, a user,   *)
(* an engagement and a respondent, and redeem an access code, each in one  *)
(* transaction (questionnaire.views.start).                                *)
(*                                                                         *)
(* The code is validated before the transaction begins and claimed at its  *)
(* end, by an UPDATE that repeats the validation in its WHERE clause.      *)
(* PostgreSQL runs the transactions at READ COMMITTED: an UPDATE waits for *)
(* the transaction that holds its row and then evaluates WHERE again; an   *)
(* INSERT of a duplicate key waits for the transaction that inserted it    *)
(* first.  now() is the time the transaction began.                        *)
(*                                                                         *)
(* A row is identified by the submission that inserted it, and becomes     *)
(* visible when that submission commits.                                   *)
(***************************************************************************)
EXTENDS Integers, FiniteSets

CONSTANTS
    Submissions,    \* POSTs of the start form
    Codes,          \* the rows of access_codes the operator has issued
    NoCode,         \* the form's code field left empty
    MaxUses,        \* access_codes.max_uses
    ExpiresAt,      \* access_codes.expires_at
    Companies,      \* company names
    Emails,
    MaxTime         \* bound: the clock stops there

\* issue_access_code refuses --max-uses and --expires-days below 1.
ASSUME CodesAssumption ==
    /\ MaxUses \in [Codes -> Nat \ {0}]
    /\ ExpiresAt \in [Codes -> Nat \ {0}]
    /\ NoCode \notin Codes

ASSUME SubmissionsAssumption == IsFiniteSet(Submissions)

ASSUME TimeAssumption == MaxTime \in Nat

VARIABLES
    clock,
    form,           \* what each submission asked for
    pc,             \* how far its transaction is
    began,          \* now() inside it
    uses_company,   \* the company row it found, or inserted
    inserts_user,   \* whether it inserted a row of users
    \* committed rows
    companies,
    users,
    engagements,
    comped,         \* engagements with payment_status = 'comped'
    times_used,
    redemptions

transactions == <<form, pc, began, uses_company, inserts_user>>

database == <<companies, users, engagements, comped, times_used, redemptions>>

vars == <<clock, transactions, database>>

Forms == [code : Codes \cup {NoCode}, company : Companies, email : Emails]

InTransaction == {"company", "no_user", "user", "claimed"}

Steps == {"idle", "validated", "committed", "rolled_back"} \cup InTransaction

Open(s) == pc[s] \in InTransaction

-----------------------------------------------------------------------------
(* Locks, held until the transaction ends.                                  *)

\* The row of companies it has updated; nobody else can see one it inserted.
LocksCompany(s, row) == Open(s) /\ uses_company[s] = row

\* The key of users it has inserted.
LocksEmail(s, email) == Open(s) /\ inserts_user[s] /\ form[s].email = email

\* The row of access_codes it has updated.
LocksCode(s, code) == pc[s] = "claimed" /\ form[s].code = code

Others(s) == Submissions \ {s}

-----------------------------------------------------------------------------
Init ==
    /\ clock = 0
    /\ form \in [Submissions -> Forms]
    /\ pc = [s \in Submissions |-> "idle"]
    /\ began = [s \in Submissions |-> 0]
    /\ uses_company = [s \in Submissions |-> s]
    /\ inserts_user = [s \in Submissions |-> FALSE]
    /\ companies = {}
    /\ users = {}
    /\ engagements = {}
    /\ comped = {}
    /\ times_used = [c \in Codes |-> 0]
    /\ redemptions = {}

Tick ==
    /\ clock < MaxTime
    /\ clock' = clock + 1
    /\ UNCHANGED <<transactions, database>>

Redeemable(code, now) == times_used[code] < MaxUses[code] /\ now < ExpiresAt[code]

(***************************************************************************)
(* validate_code, outside the transaction.  A form with a code that is not *)
(* redeemable is shown again and creates nothing.                          *)
(***************************************************************************)
Submit(s) ==
    /\ pc[s] = "idle"
    /\ form[s].code # NoCode => Redeemable(form[s].code, clock)
    /\ pc' = [pc EXCEPT ![s] = "validated"]
    /\ UNCHANGED <<clock, form, began, uses_company, inserts_user, database>>

(***************************************************************************)
(* The first statements of the transaction: update the company's row, or   *)
(* insert one when none of that name is visible.  Nothing makes the name   *)
(* unique, so LIMIT 1 may return any of several rows.                      *)
(***************************************************************************)
Named(name) == {row \in companies : form[row].company = name}

FindCompany(s) ==
    /\ pc[s] = "validated"
    /\ \/ /\ Named(form[s].company) = {}
          /\ uses_company' = [uses_company EXCEPT ![s] = s]
       \/ \E row \in Named(form[s].company) :
            /\ \A t \in Others(s) : ~ LocksCompany(t, row)
            /\ uses_company' = [uses_company EXCEPT ![s] = row]
    /\ pc' = [pc EXCEPT ![s] = "company"]
    /\ began' = [began EXCEPT ![s] = clock]
    /\ UNCHANGED <<clock, form, inserts_user, database>>

HasAccount(email) == \E row \in users : form[row].email = email

FindUser(s) ==
    /\ pc[s] = "company"
    /\ pc' = [pc EXCEPT ![s] = IF HasAccount(form[s].email) THEN "user" ELSE "no_user"]
    /\ UNCHANGED <<clock, form, began, uses_company, inserts_user, database>>

\* users.email is unique: the second INSERT waits for the first, then fails.
InsertUser(s) ==
    /\ pc[s] = "no_user"
    /\ \A t \in Others(s) : ~ LocksEmail(t, form[s].email)
    /\ ~ HasAccount(form[s].email)
    /\ pc' = [pc EXCEPT ![s] = "user"]
    /\ inserts_user' = [inserts_user EXCEPT ![s] = TRUE]
    /\ UNCHANGED <<clock, form, began, uses_company, database>>

\* Altered: the UPDATE of redeem_code trusts the earlier validation.
ClaimUnchecked(s) ==
    /\ pc[s] = "user"
    /\ form[s].code # NoCode
    /\ \A t \in Others(s) : ~ LocksCode(t, form[s].code)
    /\ pc' = [pc EXCEPT ![s] = "claimed"]
    /\ UNCHANGED <<clock, form, began, uses_company, inserts_user, database>>

(***************************************************************************)
(* Insert the engagement and the respondent; then redeem_code: take the    *)
(* row of the code, and a use of it if one is left.                        *)
(***************************************************************************)
Claim(s) ==
    /\ pc[s] = "user"
    /\ form[s].code # NoCode
    /\ \A t \in Others(s) : ~ LocksCode(t, form[s].code)
    /\ Redeemable(form[s].code, began[s])
    /\ pc' = [pc EXCEPT ![s] = "claimed"]
    /\ UNCHANGED <<clock, form, began, uses_company, inserts_user, database>>

Claimed(s) == IF pc[s] = "claimed" THEN {s} ELSE {}

CountUse(s) ==
    times_used' = [c \in Codes |-> IF pc[s] = "claimed" /\ c = form[s].code
                                     THEN times_used[c] + 1
                                     ELSE times_used[c]]

\* Altered: a submission whose code ran out keeps its comped engagement.
CommitUnclaimed(s) ==
    /\ pc[s] \in {"user", "claimed"}
    /\ pc' = [pc EXCEPT ![s] = "committed"]
    /\ companies' = companies \cup (IF uses_company[s] = s THEN {s} ELSE {})
    /\ users' = users \cup (IF inserts_user[s] THEN {s} ELSE {})
    /\ engagements' = engagements \cup {s}
    /\ comped' = comped \cup (IF form[s].code = NoCode THEN {} ELSE {s})
    /\ redemptions' = redemptions \cup Claimed(s)
    /\ CountUse(s)
    /\ UNCHANGED <<clock, form, began, uses_company, inserts_user>>

Commit(s) ==
    /\ pc[s] = IF form[s].code = NoCode THEN "user" ELSE "claimed"
    /\ pc' = [pc EXCEPT ![s] = "committed"]
    /\ companies' = companies \cup (IF uses_company[s] = s THEN {s} ELSE {})
    /\ users' = users \cup (IF inserts_user[s] THEN {s} ELSE {})
    /\ engagements' = engagements \cup {s}
    /\ comped' = comped \cup (IF form[s].code = NoCode THEN {} ELSE {s})
    /\ redemptions' = redemptions \cup Claimed(s)
    /\ CountUse(s)
    /\ UNCHANGED <<clock, form, began, uses_company, inserts_user>>

\* Altered: a rollback also gives the use back, as if it had been counted.
RollBackTwice(s) ==
    /\ Open(s)
    /\ pc' = [pc EXCEPT ![s] = "rolled_back"]
    /\ times_used' = [c \in Codes |-> IF c = form[s].code THEN times_used[c] - 1
                                                          ELSE times_used[c]]
    /\ UNCHANGED <<clock, form, began, uses_company, inserts_user, companies,
                   users, engagements, comped, redemptions>>

(***************************************************************************)
(* The code ran out or expired before the claim (409), the email got its   *)
(* account in between, or anything at all failed.                          *)
(***************************************************************************)
RollBack(s) ==
    /\ Open(s)
    /\ pc' = [pc EXCEPT ![s] = "rolled_back"]
    /\ UNCHANGED <<clock, form, began, uses_company, inserts_user, database>>

Next ==
    \/ Tick
    \/ \E s \in Submissions :
         \/ Submit(s)
         \/ FindCompany(s)
         \/ FindUser(s)
         \/ InsertUser(s)
         \/ Claim(s)
         \/ Commit(s)
         \/ RollBack(s)

Spec == Init /\ [][Next]_vars

-----------------------------------------------------------------------------
(***************************************************************************)
(* Rows and transactions stay in their types (access_codes, services).     *)
(***************************************************************************)
TypeOK ==
    /\ clock \in Nat
    /\ form \in [Submissions -> Forms]
    /\ pc \in [Submissions -> Steps]
    /\ began \in [Submissions -> Nat]
    /\ uses_company \in [Submissions -> Submissions]
    /\ inserts_user \in [Submissions -> BOOLEAN]
    /\ companies \subseteq Submissions
    /\ users \subseteq Submissions
    /\ engagements \subseteq Submissions
    /\ comped \subseteq Submissions
    /\ times_used \in [Codes -> Nat]
    /\ redemptions \subseteq Submissions

RedemptionsOf(c) == {s \in redemptions : form[s].code = c}

(***************************************************************************)
(* times_used of a code counts its redemption rows and never passes        *)
(* max_uses, whichever submissions validated it at the same moment.        *)
(***************************************************************************)
CodesAreAccounted ==
    \A c \in Codes :
        /\ times_used[c] = Cardinality(RedemptionsOf(c))
        /\ times_used[c] <= MaxUses[c]

(***************************************************************************)
(* An engagement is comped exactly when it has a redemption row: a lost    *)
(* race for the last use takes the engagement with it, and leaves no row   *)
(* that names a company or a user that was rolled back.                    *)
(***************************************************************************)
CompedIsRedeemed ==
    /\ comped = redemptions
    /\ comped = {s \in engagements : form[s].code # NoCode}
    /\ \A s \in engagements :
         uses_company[s] \in companies /\ HasAccount(form[s].email)

(***************************************************************************)
(* The transactions implement the ledger: although a code is read, then    *)
(* claimed, then committed, each comped engagement takes its use at once.  *)
(***************************************************************************)
Ledger == INSTANCE CompLedger

LedgerSpec == Ledger!Spec
=============================================================================
