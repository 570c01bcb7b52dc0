------------------------------- MODULE Purchase -------------------------------
(***************************************************************************)
(* What an engagement costs, who pays for it and what the payment sets     *)
(* off: the start form (questionnaire.services), the two checkouts and     *)
(* the webhook (billing.stripe_views), the buyer's dashboard that waits    *)
(* for the payment (engagements.buyer_views).                              *)
(*                                                                         *)
(* All forms name the same company, whose row keeps the size the latest of *)
(* them declared.  Stripe is outside: it takes the money, calls the        *)
(* webhook once or more, from any number of its machines, and again until  *)
(* the webhook answers 200.  A webhook request runs one statement at a     *)
(* time and may fail or die between two.                                   *)
(***************************************************************************)
EXTENDS Integers, FiniteSets

CONSTANTS
    MaxEngagements, \* bound: forms that are sent
    Followed,       \* bound: engagements whose buyer goes on after the form
    Forms,          \* what the start form may be sent with
    NoForm,
    MaxSessions,    \* bound: checkout sessions Stripe is asked for
    Handlers,       \* webhook requests that can run at once
    MaxFailures     \* bound: the webhook requests that can fail

Instruments == {"tier_1", "aiitsa", "combined"}

FormRecord == [tier       : {"tier_1", "tier_2"},
               instrument : Instruments,
               bracket    : STRING,     \* company_size_bracket, required
               coded      : BOOLEAN]    \* with an access code that is good

ASSUME FormsAssumption ==
    /\ Forms \subseteq FormRecord /\ NoForm \notin Forms
    /\ \A f \in Forms : f.bracket # ""

ASSUME BoundsAssumption ==
    MaxEngagements \in Nat /\ MaxSessions \in Nat /\ MaxFailures \in Nat

\* Rows and sessions in the order they come to be; 0 is none of them.
Engagements == 1..MaxEngagements

Sessions == 1..MaxSessions

ASSUME FollowedAssumption == Followed \subseteq Engagements

VARIABLES
    size_bracket,   \* companies.size_bracket, "none" before there is a row
    forms,          \* the form behind each engagement
    payment_status, \* engagements.payment_status
    price_cents,    \* engagements.price_cents
    finished,       \* engagements whose buyer has answered everything
    invited,        \* that have invited respondents
    coverage_met,   \* with coverage_met_at
    closed,         \* Locked or Expired
    generated,      \* what has had a report generated, by engagement
    sessions,       \* Stripe's
    acknowledged,   \* sessions whose webhook was answered with 200
    logged,         \* sessions with a tier2_payment event
    links,          \* dashboard links mailed by the webhook, by engagement
    handlers,
    failures,       \* history: webhook requests that failed
    linkless        \* history: engagements whose link a failure has lost

engagement == <<size_bracket, forms, payment_status, price_cents>>

progress == <<finished, invited, coverage_met, closed>>

stripe == <<sessions, acknowledged>>

webhooks == <<logged, links, handlers, failures, linkless>>

vars == <<engagement, progress, generated, stripe, webhooks>>

-----------------------------------------------------------------------------
(* Prices, in cents.                                                        *)

TIER_2_PRICE_BRACKETS_CENTS ==
    [b \in {"1-25", "26-100", "101-500", "501-2000", "2001-5000", "5000+"} |->
       CASE b = "1-25"      -> 250000
         [] b = "26-100"    -> 350000
         [] b = "101-500"   -> 450000
         [] b = "501-2000"  -> 550000
         [] b = "2001-5000" -> 650000
         [] b = "5000+"     -> 750000]

BracketCents(bracket) ==
    IF bracket \in DOMAIN TIER_2_PRICE_BRACKETS_CENTS
      THEN TIER_2_PRICE_BRACKETS_CENTS[bracket]
      ELSE 750000

\* The second audit is a quarter off; every bracket price is a multiple of 4.
Tier2PriceCents(bracket, instrument) ==
    IF instrument = "combined"
      THEN BracketCents(bracket) + (BracketCents(bracket) * 3) \div 4
      ELSE BracketCents(bracket)

OfferCents == [i \in Instruments |-> IF i = "combined" THEN 69900 ELSE 39900]

-----------------------------------------------------------------------------
Submitted == {e \in Engagements : forms[e] # NoForm}

IsTier(e, tier) == e \in Submitted /\ forms[e].tier = tier

Unused == [engagement |-> 0, tier |-> "tier_1", cents |-> 0,
           status |-> "none"]

Idle == [pc |-> "idle", session |-> 0, first_time |-> FALSE]

Paid(s) == sessions[s].status = "paid"

PaidFor(s, e, tier) ==
    /\ Paid(s)
    /\ sessions[s].engagement = e
    /\ sessions[s].tier = tier

\* The engagement a webhook request is about.
About(h) == sessions[handlers[h].session].engagement

GoTo(h, step) == handlers' = [handlers EXCEPT ![h].pc = step]

Init ==
    /\ size_bracket = "none"
    /\ forms = [e \in Engagements |-> NoForm]
    /\ payment_status = [e \in Engagements |-> "none"]
    /\ price_cents = [e \in Engagements |-> 0]
    /\ finished = {} /\ invited = {} /\ coverage_met = {} /\ closed = {}
    /\ generated = [e \in Engagements |-> {}]
    /\ sessions = [s \in Sessions |-> Unused]
    /\ acknowledged = {} /\ logged = {}
    /\ links = [e \in Engagements |-> 0]
    /\ handlers = [h \in Handlers |-> Idle]
    /\ failures = 0
    /\ linkless = {}

-----------------------------------------------------------------------------
(***************************************************************************)
(* The start form, one transaction.  The company's row is found by name    *)
(* and takes the new size, for the engagements it already has too.  A code *)
(* comps the engagement; without one Tier 2 waits for its payment.         *)
(***************************************************************************)
Submit(e, f) ==
    /\ e \notin Submitted /\ 1..(e - 1) \subseteq Submitted
    /\ size_bracket' = f.bracket
    /\ forms' = [forms EXCEPT ![e] = f]
    /\ payment_status' = [payment_status EXCEPT
                            ![e] = IF f.coded THEN "comped"
                                   ELSE IF f.tier = "tier_2" THEN "unpaid"
                                   ELSE "free"]
    /\ price_cents' = [price_cents EXCEPT
                         ![e] = IF ~ f.coded /\ f.tier = "tier_2"
                                  THEN Tier2PriceCents(f.bracket, f.instrument)
                                  ELSE 0]
    /\ UNCHANGED <<progress, generated, stripe, webhooks>>

\* The buyer has no question left: the page confirms, or shows the paywall
\* to whoever is on record as neither paid nor comped.
Finish(e) ==
    /\ e \in Submitted \ (finished \cup closed)
    /\ finished' = finished \cup {e}
    /\ generated' = IF forms[e].tier = "tier_1"
                      THEN [generated EXCEPT ![e] = @ \cup {"completion"}]
                      ELSE generated
    /\ UNCHANGED <<engagement, invited, coverage_met, closed, stripe, webhooks>>

\* add_respondent.
Invite(e) ==
    /\ e \in Submitted
    /\ payment_status[e] \in {"paid", "comped", "free"}
    /\ invited' = invited \cup {e}
    /\ UNCHANGED <<engagement, finished, coverage_met, closed,
                   generated, stripe, webhooks>>

\* Enough of those invited complete; Tier2Coverage has how.
MeetCoverage(e) ==
    /\ IsTier(e, "tier_2") /\ e \in invited \ (coverage_met \cup closed)
    /\ coverage_met' = coverage_met \cup {e}
    /\ generated' = [generated EXCEPT ![e] = @ \cup {"coverage"}]
    /\ UNCHANGED <<engagement, finished, invited, closed, stripe,
                   webhooks>>

\* The sweeps: the edit window has closed, or the draft has lived its 180 days.
Close(e) ==
    /\ e \in Submitted
    /\ closed' = closed \cup {e}
    /\ UNCHANGED <<engagement, finished, invited, coverage_met,
                   generated, stripe, webhooks>>

-----------------------------------------------------------------------------
(* Checkout.  A Stripe price that the environment names for an offer or a   *)
(* size replaces the amount computed here; it is taken to be the same.      *)

\* create_checkout_session: Stripe returns a session that can be paid.
OpenSession(e, tier, cents) ==
    \E s \in Sessions :
      /\ sessions[s].status = "none"
      /\ \A t \in 1..(s - 1) : sessions[t].status # "none"
      /\ sessions' = [sessions EXCEPT
                        ![s] = [engagement |-> e, tier |-> tier,
                                cents |-> cents, status |-> "open"]]

\* The button of the paywall page, or whatever else posts from a session
\* that names a respondent: the view asks nothing of the engagement.
CreateCheckout(e) ==
    /\ e \in Submitted
    /\ OpenSession(e, "tier_1", OfferCents[forms[e].instrument])
    /\ UNCHANGED <<engagement, progress, generated, acknowledged, webhooks>>

\* Altered: the price is asked for without the instrument.
CreateTier2CheckoutForOneAudit(e) ==
    /\ IsTier(e, "tier_2")
    /\ payment_status[e] \notin {"paid", "comped"}
    /\ OpenSession(e, "tier_2", Tier2PriceCents(size_bracket, "tier_1"))
    /\ UNCHANGED <<engagement, progress, generated, acknowledged, webhooks>>

\* The button of the buyer's dashboard: the price of the company's size now.
CreateTier2Checkout(e) ==
    /\ IsTier(e, "tier_2")
    /\ payment_status[e] \notin {"paid", "comped"}
    /\ OpenSession(e, "tier_2",
                   Tier2PriceCents(size_bracket, forms[e].instrument))
    /\ UNCHANGED <<engagement, progress, generated, acknowledged, webhooks>>

Pay(s) ==
    /\ sessions[s].status = "open"
    /\ sessions' = [sessions EXCEPT ![s].status = "paid"]
    /\ UNCHANGED <<engagement, progress, generated, acknowledged, webhooks>>

-----------------------------------------------------------------------------
(* The webhook.                                                             *)

\* Altered: the tier in the session's metadata is not looked at.
DeliverAsTier1(h, s) ==
    /\ handlers[h].pc = "idle"
    /\ Paid(s)
    /\ handlers' = [handlers EXCEPT ![h] = [pc |-> "generate", session |-> s,
                                            first_time |-> FALSE]]
    /\ UNCHANGED <<engagement, progress, generated, stripe, logged, links,
                   failures, linkless>>

\* Stripe calls, for the first time or again, and the metadata is read.
Deliver(h, s) ==
    /\ handlers[h].pc = "idle"
    /\ Paid(s)
    /\ handlers' = [handlers EXCEPT
                      ![h] = [pc |-> IF sessions[s].tier = "tier_2"
                                       THEN "claim" ELSE "generate",
                              session |-> s, first_time |-> FALSE]]
    /\ UNCHANGED <<engagement, progress, generated, stripe, logged, links,
                   failures, linkless>>

\* Altered: the UPDATE forgets payment_status <> 'paid'.
RecordPaymentAgain(h) ==
    /\ handlers[h].pc = "claim"
    /\ payment_status' = [payment_status EXCEPT ![About(h)] = "paid"]
    /\ price_cents' = [price_cents EXCEPT
                         ![About(h)] = sessions[handlers[h].session].cents]
    /\ handlers' = [handlers EXCEPT ![h].pc = "log", ![h].first_time = TRUE]
    /\ UNCHANGED <<size_bracket, forms, progress, generated, stripe,
                   logged, links, failures, linkless>>

\* One UPDATE records the payment, unless one is on record.
RecordPayment(h) ==
    /\ handlers[h].pc = "claim"
    /\ \/ /\ payment_status[About(h)] # "paid"
          /\ price_cents' = [price_cents EXCEPT
                               ![About(h)] = sessions[handlers[h].session].cents]
          /\ handlers' = [handlers EXCEPT ![h].pc = "log", ![h].first_time = TRUE]
       \/ /\ payment_status[About(h)] = "paid"
          /\ handlers' = [handlers EXCEPT ![h].pc = "log", ![h].first_time = FALSE]
          /\ UNCHANGED price_cents
    /\ payment_status' = [payment_status EXCEPT ![About(h)] = "paid"]
    /\ UNCHANGED <<size_bracket, forms, progress, generated, stripe,
                   logged, links, failures, linkless>>

\* Altered: only the first payment of an engagement leaves an event.
LogFirstPayment(h) ==
    /\ handlers[h].pc = "log"
    /\ logged' = IF handlers[h].first_time
                   THEN logged \cup {handlers[h].session} ELSE logged
    /\ GoTo(h, IF handlers[h].first_time THEN "link" ELSE "answer")
    /\ UNCHANGED <<engagement, progress, generated, stripe, links, failures,
                   linkless>>

\* Every payment leaves an event.
LogPayment(h) ==
    /\ handlers[h].pc = "log"
    /\ logged' = logged \cup {handlers[h].session}
    /\ GoTo(h, IF handlers[h].first_time THEN "link" ELSE "answer")
    /\ UNCHANGED <<engagement, progress, generated, stripe, links, failures,
                   linkless>>

\* send_buyer_dashboard_link: Postmark takes the mail or does not, and a
\* mail that fails is not sent again.
SendLink(h) ==
    /\ handlers[h].pc = "link"
    /\ \/ /\ links' = [links EXCEPT ![About(h)] = @ + 1]
          /\ UNCHANGED linkless
       \/ /\ linkless' = linkless \cup {About(h)}
          /\ UNCHANGED links
    /\ GoTo(h, "answer")
    /\ UNCHANGED <<engagement, progress, generated, stripe, logged, failures>>

\* The Tier 1 branch, one transaction; a closed snapshot has no report, and
\* the webhook answers with a warning.
Generate(h) ==
    /\ handlers[h].pc = "generate"
    /\ generated' = IF About(h) \in closed THEN generated
                    ELSE [generated EXCEPT ![About(h)] = @ \cup {"webhook"}]
    /\ GoTo(h, "answer")
    /\ UNCHANGED <<engagement, progress, stripe, logged, links, failures,
                   linkless>>

\* 200, and Stripe is content.
Answer(h) ==
    /\ handlers[h].pc = "answer"
    /\ acknowledged' = acknowledged \cup {handlers[h].session}
    /\ handlers' = [handlers EXCEPT ![h] = Idle]
    /\ UNCHANGED <<engagement, progress, generated, sessions, logged, links,
                   failures, linkless>>

\* Altered: any exception is answered with 200.
FailQuietly(h) ==
    /\ handlers[h].pc # "idle"
    /\ failures < MaxFailures
    /\ failures' = failures + 1
    /\ linkless' = IF handlers[h].pc \in {"log", "link"} /\ handlers[h].first_time
                     THEN linkless \cup {About(h)} ELSE linkless
    /\ acknowledged' = acknowledged \cup {handlers[h].session}
    /\ handlers' = [handlers EXCEPT ![h] = Idle]
    /\ UNCHANGED <<engagement, progress, generated, sessions, logged, links>>

\* A statement or the process fails: no 200.
Fail(h) ==
    /\ handlers[h].pc # "idle"
    /\ failures < MaxFailures
    /\ failures' = failures + 1
    /\ linkless' = IF handlers[h].pc \in {"log", "link"} /\ handlers[h].first_time
                     THEN linkless \cup {About(h)} ELSE linkless
    /\ handlers' = [handlers EXCEPT ![h] = Idle]
    /\ UNCHANGED <<engagement, progress, generated, stripe, logged, links>>

HandlerStep(h) ==
    \/ RecordPayment(h)
    \/ LogPayment(h)
    \/ SendLink(h)
    \/ Generate(h)
    \/ Answer(h)

-----------------------------------------------------------------------------
Next ==
    \/ \E e \in Engagements, f \in Forms : Submit(e, f)
    \/ \E e \in Followed :
         \/ Finish(e)
         \/ Invite(e)
         \/ MeetCoverage(e)
         \/ Close(e)
         \/ CreateCheckout(e)
         \/ CreateTier2Checkout(e)
    \/ \E s \in Sessions : Pay(s)
    \/ \E h \in Handlers :
         \/ \E s \in Sessions : Deliver(h, s)
         \/ HandlerStep(h)
         \/ Fail(h)

\* Stripe tries again until it has its 200.
Redeliver(s) == s \notin acknowledged /\ \E h \in Handlers : Deliver(h, s)

(***************************************************************************)
(* Nobody has to fill in a form, to answer or to pay; what is paid for is  *)
(* delivered, and a request that runs goes on.                             *)
(***************************************************************************)
Fairness ==
    /\ \A h \in Handlers : WF_vars(HandlerStep(h))
    /\ \A s \in Sessions : SF_vars(Redeliver(s))

Spec == Init /\ [][Next]_vars /\ Fairness

-----------------------------------------------------------------------------
HandlerSteps == {"idle", "claim", "log", "link", "generate", "answer"}

(***************************************************************************)
(* Rows, sessions and webhook requests stay in their types, a row has a    *)
(* status from its form on, and a request carries a session that is paid   *)
(* and of the tier whose branch it is in.                                  *)
(***************************************************************************)
TypeOK ==
    /\ size_bracket \in {"none"} \cup {f.bracket : f \in Forms}
    /\ forms \in [Engagements -> Forms \cup {NoForm}]
    /\ payment_status \in
         [Engagements -> {"none", "free", "unpaid", "comped", "paid"}]
    /\ \A e \in Engagements : payment_status[e] = "none" <=> e \notin Submitted
    /\ price_cents \in [Engagements -> Nat]
    /\ UNION {finished, invited, coverage_met, closed} \subseteq
         Submitted
    /\ generated \in
         [Engagements -> SUBSET {"completion", "coverage", "webhook"}]
    /\ sessions \in [Sessions ->
         [engagement : Engagements \cup {0},
          tier : {"tier_1", "tier_2"}, cents : Nat,
          status : {"none", "open", "paid"}]]
    /\ \A s \in Sessions :
         sessions[s].status # "none" => sessions[s].engagement \in Submitted
    /\ acknowledged \subseteq Sessions /\ logged \subseteq Sessions
    /\ links \in [Engagements -> Nat]
    /\ handlers \in [Handlers -> [pc : HandlerSteps,
                                  session : Sessions \cup {0},
                                  first_time : BOOLEAN]]
    /\ \A h \in Handlers : handlers[h].pc # "idle" =>
         /\ handlers[h].session \in Sessions
         /\ Paid(handlers[h].session)
         /\ handlers[h].pc \in {"claim", "log", "link"} =>
              sessions[handlers[h].session].tier = "tier_2"
         /\ handlers[h].pc = "generate" =>
              sessions[handlers[h].session].tier = "tier_1"
    /\ failures \in 0..MaxFailures
    /\ linkless \subseteq Engagements

(***************************************************************************)
(* The engagement's row and Stripe agree.  Who is on record as paid has    *)
(* paid a Tier 2 session, at the price on record; and a Tier 2 payment     *)
(* that Stripe need not report again is on record and has its event, the   *)
(* second payment of an engagement too (webhook).                          *)
(***************************************************************************)
PaymentsAreOnRecord ==
    /\ \A e \in Engagements : payment_status[e] = "paid" =>
         \E s \in Sessions : /\ PaidFor(s, e, "tier_2")
                             /\ sessions[s].cents = price_cents[e]
    /\ \A s \in acknowledged : sessions[s].tier = "tier_2" =>
         /\ s \in logged
         /\ payment_status[sessions[s].engagement] = "paid"

(***************************************************************************)
(* A buyer who pays is mailed one link, however often Stripe calls and     *)
(* however many sessions are paid; none only when the request that         *)
(* recorded the payment has not come to it, or has failed (webhook).       *)
(***************************************************************************)
Linking(e) == \E h \in Handlers : /\ handlers[h].pc \in {"log", "link"}
                                  /\ handlers[h].first_time
                                  /\ About(h) = e

LinkIsSentOnce ==
    \A e \in Engagements :
      /\ links[e] <= 1
      /\ payment_status[e] = "paid" /\ ~ Linking(e) =>
           (links[e] = 1 <=> e \notin linkless)

(***************************************************************************)
(* A Tier 2 buyer is asked for the price of the size the form declared,    *)
(* unless a later form for the same company declared another size: the     *)
(* checkout reads companies.size_bracket, which the form overwrites.       *)
(***************************************************************************)
ChargedAsDeclared ==
    \A s \in Sessions :
      sessions[s].status # "none" /\ sessions[s].tier = "tier_2" =>
        \E e \in Submitted :
          /\ sessions[s].cents =
               Tier2PriceCents(forms[e].bracket,
                               forms[sessions[s].engagement].instrument)
          /\ e >= sessions[s].engagement

(***************************************************************************)
(* What has generated a report of a Tier 2 engagement was entitled to: its *)
(* coverage, met by people who could be invited only once it was paid for  *)
(* or comped; or a Tier 1 session for it that is paid (webhook), which any *)
(* respondent of it can ask for (create_checkout).  The buyer's own last   *)
(* answer generates none.                                                  *)
(***************************************************************************)
ReportsAreEarned ==
    \A e \in Engagements : IsTier(e, "tier_2") =>
      /\ "coverage" \in generated[e] =>
           e \in coverage_met /\ payment_status[e] \in {"paid", "comped"}
      /\ "webhook" \in generated[e] =>
           \E s \in Sessions : PaidFor(s, e, "tier_1")
      /\ "completion" \notin generated[e]

(***************************************************************************)
(* What was paid for comes: a Tier 2 payment is recorded, a Tier 1 payment *)
(* has its report, or was too late for one.                                *)
(***************************************************************************)
Owed(s) ==
    \E e \in Engagements :
      \/ PaidFor(s, e, "tier_2") /\ payment_status[e] # "paid"
      \/ PaidFor(s, e, "tier_1") /\ e \notin closed /\ "webhook" \notin generated[e]

PaymentsAreHonoured == \A s \in Sessions : Owed(s) ~> ~ Owed(s)

-----------------------------------------------------------------------------
(* What the repository says and the code does not give.                     *)

(***************************************************************************)
(* "Tier 2 is paid up front: record the payment, tell the buyer where to   *)
(* invite people, and do NOT generate. The report comes when coverage is   *)
(* met" (webhook).                                                         *)
(***************************************************************************)
Tier2ReportsNeedCoverage ==
    \A e \in Engagements :
      IsTier(e, "tier_2") /\ generated[e] # {} => e \in coverage_met
=============================================================================
