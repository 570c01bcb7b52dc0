--------------------------- MODULE PurchaseProofs ---------------------------
(***************************************************************************)
(* Proofs about Purchase, for any forms, any number of engagements,        *)
(* sessions, webhook requests and failures.                                *)
(*                                                                         *)
(* The argument about the link: an engagement's payment is recorded by one *)
(* request, the one that finds it unpaid, and that request alone can send  *)
(* the link (OneSender); until it has, no link is sent and none is lost.   *)
(***************************************************************************)
EXTENDS Purchase, TLAPS

\* The engagements are numbered as their forms came, and the company has the
\* size of the last of them.
FormsComeInOrder ==
    /\ \A e \in Submitted : 1..e \subseteq Submitted
    /\ \A e \in Submitted : \E f \in Submitted :
         f >= e /\ size_bracket = forms[f].bracket

\* A Tier 2 engagement is never free, so who has invited has paid.
InvitedHavePaid ==
    /\ \A e \in Submitted : forms[e].tier = "tier_2" => payment_status[e] # "free"
    /\ \A e \in invited : payment_status[e] \in {"paid", "comped", "free"}
    /\ \A e \in coverage_met : e \in invited /\ IsTier(e, "tier_2")

\* Nothing is generated before there is an engagement.
ReportsHaveForms == \A e \in Engagements : generated[e] # {} => e \in Submitted

\* Stripe hears 200 about what is paid.
AnsweredArePaid == \A s \in acknowledged : Paid(s)

\* What a webhook request has done when it is at a step.
StepsAreTaken ==
    \A h \in Handlers :
      /\ handlers[h].pc \in {"log", "link"} => payment_status[About(h)] = "paid"
      /\ handlers[h].pc = "link" =>
           handlers[h].first_time /\ handlers[h].session \in logged
      /\ /\ handlers[h].pc = "answer"
         /\ sessions[handlers[h].session].tier = "tier_2"
         => /\ payment_status[About(h)] = "paid"
            /\ handlers[h].session \in logged

\* The request that is about to send the link of e.
Sends(h, e) ==
    /\ handlers[h].pc \in {"log", "link"}
    /\ handlers[h].first_time
    /\ About(h) = e

OneSenderOf(e) ==
    /\ links[e] \in {0, 1}
    /\ payment_status[e] # "paid" =>
         /\ links[e] = 0 /\ e \notin linkless
         /\ \A h \in Handlers : ~ Sends(h, e)
    /\ \A h \in Handlers : Sends(h, e) => links[e] = 0 /\ e \notin linkless
    /\ \A g, h \in Handlers : Sends(g, e) /\ Sends(h, e) => g = h
    /\ payment_status[e] = "paid" /\ (\A h \in Handlers : ~ Sends(h, e)) =>
         (links[e] = 1 <=> e \notin linkless)

OneSender == \A e \in Engagements : OneSenderOf(e)

IInv ==
    /\ TypeOK
    /\ FormsComeInOrder
    /\ InvitedHavePaid
    /\ ReportsHaveForms
    /\ AnsweredArePaid
    /\ StepsAreTaken
    /\ OneSender
    /\ PaymentsAreOnRecord
    /\ ChargedAsDeclared
    /\ ReportsAreEarned

-----------------------------------------------------------------------------
\* Every price is a number of cents (pricing.get_tier_2_price_cents).
LEMMA PriceIsNat == ASSUME NEW b, NEW i PROVE Tier2PriceCents(b, i) \in Nat
<1>1. BracketCents(b) \in Nat
  BY DEF BracketCents, TIER_2_PRICE_BRACKETS_CENTS
<1> QED
  BY <1>1 DEF Tier2PriceCents

\* A step that changes neither the payments nor who sends which link.
LEMMA SendersStay ==
    ASSUME OneSender, UNCHANGED <<links, linkless>>,
           \A e \in Engagements :
             payment_status'[e] = "paid" <=> payment_status[e] = "paid",
           \A h \in Handlers, e \in Engagements : Sends(h, e)' <=> Sends(h, e)
    PROVE  OneSender'
  BY DEF OneSender, OneSenderOf

\* The request that could send a link has sent it, or has lost it.
LEMMA SenderStops ==
    ASSUME TypeOK, OneSender, NEW h \in Handlers, About(h) \in Engagements,
           Sends(h, About(h)), payment_status' = payment_status,
           \A g \in Handlers \ {h}, e \in Engagements :
             Sends(g, e)' <=> Sends(g, e),
           \A e \in Engagements : ~ Sends(h, e)',
           \/ links' = [links EXCEPT ![About(h)] = @ + 1] /\ linkless' = linkless
           \/ linkless' = linkless \cup {About(h)} /\ links' = links
    PROVE  OneSender'
<1>1. \A e \in Engagements : Sends(h, e) => e = About(h)
  BY DEF Sends
<1>2. /\ links[About(h)] = 0 /\ About(h) \notin linkless
      /\ payment_status[About(h)] = "paid"
  BY DEF OneSender, OneSenderOf
<1>3. ASSUME NEW e \in Engagements, e = About(h) PROVE OneSenderOf(e)'
  <2>1. \A g \in Handlers : ~ Sends(g, e)'
    <3>1. Sends(h, e)
      BY <1>3
    <3>2. \A g \in Handlers : Sends(g, e) => g = h
      BY <3>1 DEF OneSender, OneSenderOf
    <3> QED
      BY <3>2
  <2>2. /\ payment_status'[e] = "paid"
        /\ \/ links'[e] = 1 /\ e \notin linkless'
           \/ links'[e] = 0 /\ e \in linkless'
    BY <1>2, <1>3 DEF TypeOK
  <2> QED
    BY <2>1, <2>2 DEF OneSenderOf
<1>4. ASSUME NEW e \in Engagements, e # About(h) PROVE OneSenderOf(e)'
  <2>1. links'[e] = links[e] /\ (e \in linkless' <=> e \in linkless)
    BY <1>4 DEF TypeOK
  <2>2. \A g \in Handlers : Sends(g, e)' <=> Sends(g, e)
    BY <1>1, <1>4
  <2> QED
    BY <2>1, <2>2 DEF OneSender, OneSenderOf
<1> QED
  BY <1>3, <1>4 DEF OneSender

\* A form adds its engagement and leaves the others alone.
LEMMA SubmittedGrows ==
    ASSUME IInv, NEW e \in Engagements, NEW f \in Forms, Submit(e, f)
    PROVE  /\ Submitted' = Submitted \cup {e} /\ e \notin Submitted
           /\ forms'[e] = f
           /\ \A d \in Engagements \ {e} : forms'[d] = forms[d]
<1>1. f # NoForm
  BY FormsAssumption
<1>2. \A d \in Engagements : forms'[d] = IF d = e THEN f ELSE forms[d]
  BY DEF IInv, TypeOK, Submit
<1>3. Submitted' = Submitted \cup {e}
  BY <1>1, <1>2 DEF Submitted
<1> QED
  BY <1>2, <1>3 DEF Submit

\* A form sent: nobody has linked, paid or reported for the new engagement.
LEMMA SubmitIInv ==
    ASSUME IInv, NEW e \in Engagements, NEW f \in Forms, Submit(e, f)
    PROVE IInv'
<1>1. TypeOK'
  <2>1. Submitted' = Submitted \cup {e}
    BY SubmittedGrows
  <2>2. /\ size_bracket' \in {"none"} \cup {g.bracket : g \in Forms}
        /\ forms' \in [Engagements -> Forms \cup {NoForm}]
    BY DEF IInv, TypeOK, Submit
  <2>3. /\ payment_status' \in
             [Engagements -> {"none", "free", "unpaid", "comped", "paid"}]
        /\ \A d \in Engagements : payment_status'[d] = "none" <=> d \notin Submitted'
    BY <2>1 DEF IInv, TypeOK, Submit
  <2>4. price_cents' \in [Engagements -> Nat]
    BY PriceIsNat DEF IInv, TypeOK, Submit
  <2> QED
    BY <2>1, <2>2, <2>3, <2>4
       DEF IInv, TypeOK, Submit, progress, stripe, webhooks, Paid
<1>2. FormsComeInOrder'
  <2>1. Submitted' = Submitted \cup {e}
    BY SubmittedGrows
  <2>2. \A d \in Submitted' : d \in Nat /\ d <= e
    <3>1. \A d \in Submitted : d \in Nat /\ ~ e \in 1..d
      BY BoundsAssumption DEF IInv, FormsComeInOrder, Submit, Submitted, Engagements
    <3> QED
      BY <2>1, <3>1, BoundsAssumption DEF Engagements
  <2>3. e \in Submitted' /\ size_bracket' = forms'[e].bracket
    BY <2>1 DEF IInv, TypeOK, Submit
  <2>4. 1..e \subseteq Submitted'
    BY <2>1, BoundsAssumption DEF Submit, Engagements
  <2> QED
    BY <2>1, <2>2, <2>3, <2>4 DEF IInv, FormsComeInOrder, Engagements
<1>3. InvitedHavePaid'
  BY DEF IInv, Submit, InvitedHavePaid, IsTier, Submitted, progress, TypeOK
<1>4. ReportsHaveForms'
  BY DEF IInv, Submit, ReportsHaveForms, Submitted
<1>5. AnsweredArePaid'
  BY DEF IInv, Submit, AnsweredArePaid, Paid, progress, stripe
<1>6. StepsAreTaken'
  BY DEF IInv, Submit, StepsAreTaken, About, stripe, webhooks, TypeOK
<1>7. OneSender'
  BY DEF IInv, Submit, OneSender, OneSenderOf, Sends, About, stripe, webhooks, TypeOK
<1>8. PaymentsAreOnRecord'
  BY DEF IInv, Submit, PaymentsAreOnRecord, PaidFor, Paid, stripe, webhooks, TypeOK
<1>9. ChargedAsDeclared'
  BY DEF IInv, Submit, ChargedAsDeclared, Submitted, stripe, TypeOK
<1>10. ReportsAreEarned'
  <2>1. Submitted' = Submitted \cup {e} /\ e \notin Submitted
    BY SubmittedGrows
  <2>2. generated[e] = {}
    BY <2>1 DEF IInv, ReportsHaveForms
  <2>3. \A d \in Submitted :
          forms'[d] = forms[d] /\ payment_status'[d] = payment_status[d]
    BY <2>1 DEF IInv, TypeOK, Submit, Submitted
  <2> QED
    BY <2>1, <2>2, <2>3
       DEF IInv, ReportsAreEarned, Submit, progress, stripe, IsTier, PaidFor, Paid
<1> QED
  BY <1>1, <1>2, <1>3, <1>4, <1>5, <1>6, <1>7, <1>8, <1>9, <1>10 DEF IInv

\* A completion starts the reports of Tier 1, and touches no payment.
LEMMA FinishIInv ==
    ASSUME IInv, NEW e \in Engagements, Finish(e)
    PROVE IInv'
<1>1. TypeOK'
  BY DEF IInv, Finish, TypeOK, engagement, Submitted, Paid, stripe, webhooks
<1>2. FormsComeInOrder'
  BY DEF IInv, Finish, FormsComeInOrder, Submitted, engagement
<1>3. InvitedHavePaid'
  BY DEF IInv, Finish, InvitedHavePaid, IsTier, Submitted, engagement
<1>4. ReportsHaveForms'
  BY DEF IInv, Finish, ReportsHaveForms, Submitted, engagement
<1>5. AnsweredArePaid'
  BY DEF IInv, Finish, AnsweredArePaid, Paid, stripe
<1>6. StepsAreTaken'
  BY DEF IInv, Finish, StepsAreTaken, About, engagement, stripe, webhooks
<1>7. OneSender'
  <2>1. \A g \in Handlers, d \in Engagements : Sends(g, d)' <=> Sends(g, d)
    BY DEF Finish, stripe, webhooks, Sends, About
  <2> QED
    BY <2>1, SendersStay DEF IInv, Finish, engagement, webhooks
<1>8. PaymentsAreOnRecord'
  BY DEF IInv, Finish, PaymentsAreOnRecord, engagement, PaidFor, Paid, stripe,
         webhooks
<1>9. ChargedAsDeclared'
  BY DEF IInv, Finish, ChargedAsDeclared, engagement, Submitted, stripe
<1>10. ReportsAreEarned'
  BY DEF IInv, Finish, ReportsAreEarned, PaidFor, IsTier, Submitted, engagement, Paid,
         stripe
<1> QED
  BY <1>1, <1>2, <1>3, <1>4, <1>5, <1>6, <1>7, <1>8, <1>9, <1>10 DEF IInv

\* Nobody is invited to a Tier 2 engagement that is not paid or comped.
LEMMA InviteIInv ==
    ASSUME IInv, NEW e \in Engagements, Invite(e)
    PROVE IInv'
<1>1. TypeOK'
  BY DEF IInv, Invite, TypeOK, engagement, Submitted, Paid, stripe, webhooks
<1>2. FormsComeInOrder'
  BY DEF IInv, Invite, FormsComeInOrder, Submitted, engagement
<1>3. InvitedHavePaid'
  BY DEF IInv, Invite, InvitedHavePaid, IsTier, Submitted, engagement
<1>4. ReportsHaveForms'
  BY DEF IInv, Invite, ReportsHaveForms, Submitted, engagement
<1>5. AnsweredArePaid'
  BY DEF IInv, Invite, AnsweredArePaid, Paid, stripe
<1>6. StepsAreTaken'
  BY DEF IInv, Invite, StepsAreTaken, About, engagement, stripe, webhooks
<1>7. OneSender'
  <2>1. \A g \in Handlers, d \in Engagements : Sends(g, d)' <=> Sends(g, d)
    BY DEF Invite, stripe, webhooks, Sends, About
  <2> QED
    BY <2>1, SendersStay DEF IInv, Invite, engagement, webhooks
<1>8. PaymentsAreOnRecord'
  BY DEF IInv, Invite, PaymentsAreOnRecord, engagement, PaidFor, Paid, stripe,
         webhooks
<1>9. ChargedAsDeclared'
  BY DEF IInv, Invite, ChargedAsDeclared, engagement, Submitted, stripe
<1>10. ReportsAreEarned'
  BY DEF IInv, Invite, ReportsAreEarned, PaidFor, IsTier, Submitted, engagement, Paid,
         stripe
<1> QED
  BY <1>1, <1>2, <1>3, <1>4, <1>5, <1>6, <1>7, <1>8, <1>9, <1>10 DEF IInv

\* Who meets coverage was invited, so the engagement was paid or comped.
LEMMA MeetCoverageIInv ==
    ASSUME IInv, NEW e \in Engagements, MeetCoverage(e)
    PROVE IInv'
<1>1. TypeOK'
  BY DEF IInv, MeetCoverage, TypeOK, engagement, Submitted, Paid, stripe, webhooks
<1>2. FormsComeInOrder'
  BY DEF IInv, MeetCoverage, FormsComeInOrder, Submitted, engagement
<1>3. InvitedHavePaid'
  BY DEF IInv, MeetCoverage, InvitedHavePaid, IsTier, Submitted, engagement
<1>4. ReportsHaveForms'
  BY DEF IInv, MeetCoverage, ReportsHaveForms, Submitted, engagement, IsTier
<1>5. AnsweredArePaid'
  BY DEF IInv, MeetCoverage, AnsweredArePaid, Paid, stripe
<1>6. StepsAreTaken'
  BY DEF IInv, MeetCoverage, StepsAreTaken, About, engagement, stripe, webhooks
<1>7. OneSender'
  <2>1. \A g \in Handlers, d \in Engagements : Sends(g, d)' <=> Sends(g, d)
    BY DEF MeetCoverage, stripe, webhooks, Sends, About
  <2> QED
    BY <2>1, SendersStay DEF IInv, MeetCoverage, engagement, webhooks
<1>8. PaymentsAreOnRecord'
  BY DEF IInv, MeetCoverage, PaymentsAreOnRecord, engagement, PaidFor, Paid, stripe,
         webhooks
<1>9. ChargedAsDeclared'
  BY DEF IInv, MeetCoverage, ChargedAsDeclared, engagement, Submitted, stripe
<1>10. ReportsAreEarned'
  BY DEF IInv, MeetCoverage, ReportsAreEarned, PaidFor, IsTier, Submitted, engagement,
         Paid, stripe, InvitedHavePaid
<1> QED
  BY <1>1, <1>2, <1>3, <1>4, <1>5, <1>6, <1>7, <1>8, <1>9, <1>10 DEF IInv

\* The sweeps close a snapshot and leave the money alone.
LEMMA CloseIInv ==
    ASSUME IInv, NEW e \in Engagements, Close(e)
    PROVE IInv'
<1>1. TypeOK'
  BY DEF IInv, Close, TypeOK, engagement, Submitted, Paid, stripe, webhooks
<1>2. FormsComeInOrder'
  BY DEF IInv, Close, FormsComeInOrder, Submitted, engagement
<1>3. InvitedHavePaid'
  BY DEF IInv, Close, InvitedHavePaid, IsTier, Submitted, engagement
<1>4. ReportsHaveForms'
  BY DEF IInv, Close, ReportsHaveForms, Submitted, engagement
<1>5. AnsweredArePaid'
  BY DEF IInv, Close, AnsweredArePaid, Paid, stripe
<1>6. StepsAreTaken'
  BY DEF IInv, Close, StepsAreTaken, About, engagement, stripe, webhooks
<1>7. OneSender'
  <2>1. \A g \in Handlers, d \in Engagements : Sends(g, d)' <=> Sends(g, d)
    BY DEF Close, stripe, webhooks, Sends, About
  <2> QED
    BY <2>1, SendersStay DEF IInv, Close, engagement, webhooks
<1>8. PaymentsAreOnRecord'
  BY DEF IInv, Close, PaymentsAreOnRecord, engagement, PaidFor, Paid, stripe, webhooks
<1>9. ChargedAsDeclared'
  BY DEF IInv, Close, ChargedAsDeclared, engagement, Submitted, stripe
<1>10. ReportsAreEarned'
  BY DEF IInv, Close, ReportsAreEarned, PaidFor, IsTier, Submitted, engagement, Paid,
         stripe
<1> QED
  BY <1>1, <1>2, <1>3, <1>4, <1>5, <1>6, <1>7, <1>8, <1>9, <1>10 DEF IInv

\* The new session charges what the offer says.
LEMMA CreateCheckoutIInv ==
    ASSUME IInv, NEW e \in Engagements, CreateCheckout(e)
    PROVE IInv'
<1>1. TypeOK'
  <2>1. PICK t \in Sessions :
          sessions' = [sessions EXCEPT
                         ![t] = [engagement |-> e, tier |-> "tier_1",
                                 cents |-> OfferCents[forms[e].instrument],
                                 status |-> "open"]]
          /\ sessions[t].status = "none"
    BY DEF CreateCheckout, OpenSession
  <2>2. OfferCents[forms[e].instrument] \in Nat
    <3>1. e \in Submitted
      BY DEF CreateCheckout
    <3>2. forms[e] \in Forms
      BY <3>1 DEF IInv, TypeOK, Submitted
    <3>3. forms[e].instrument \in Instruments
      BY <3>2, FormsAssumption DEF FormRecord
    <3> QED
      BY <3>3 DEF OfferCents
  <2> QED
    BY <2>1, <2>2
       DEF IInv, TypeOK, CreateCheckout, engagement, progress, webhooks, Submitted,
           Paid
<1>2. FormsComeInOrder'
  BY DEF IInv, CreateCheckout, FormsComeInOrder, Submitted, engagement
<1>3. InvitedHavePaid'
  BY DEF IInv, CreateCheckout, InvitedHavePaid, IsTier, Submitted, engagement,
         progress
<1>4. ReportsHaveForms'
  BY DEF IInv, CreateCheckout, ReportsHaveForms, Submitted, engagement
<1>5. AnsweredArePaid'
  BY DEF IInv, CreateCheckout, AnsweredArePaid, Paid, OpenSession, progress
<1>6. StepsAreTaken'
  BY DEF IInv, CreateCheckout, StepsAreTaken, About, engagement, OpenSession, webhooks,
         TypeOK, Paid
<1>7. OneSender'
  <2>1. PICK t \in Sessions :
          /\ sessions[t].status = "none"
          /\ \A s \in Sessions \ {t} : sessions'[s] = sessions[s]
    BY DEF IInv, TypeOK, CreateCheckout, OpenSession
  <2>2. \A g \in Handlers : handlers[g].pc \in {"log", "link"} => handlers[g].session # t
    BY <2>1 DEF IInv, TypeOK, Paid
  <2>3. \A g \in Handlers : handlers[g].pc \in {"log", "link"} =>
          handlers[g].session \in Sessions
    BY DEF IInv, TypeOK
  <2>4. \A g \in Handlers, d \in Engagements : Sends(g, d)' <=> Sends(g, d)
    BY <2>1, <2>2, <2>3 DEF CreateCheckout, webhooks, Sends, About
  <2> QED
    BY <2>4, SendersStay DEF IInv, CreateCheckout, engagement, webhooks
<1>8. PaymentsAreOnRecord'
  BY DEF IInv, CreateCheckout, PaymentsAreOnRecord, engagement, PaidFor, Paid,
         OpenSession, webhooks
<1>9. ChargedAsDeclared'
  BY DEF IInv, CreateCheckout, ChargedAsDeclared, engagement, Submitted, OpenSession
<1>10. ReportsAreEarned'
  BY DEF IInv, CreateCheckout, ReportsAreEarned, PaidFor, IsTier, Submitted,
         engagement, Paid, OpenSession, progress
<1> QED
  BY <1>1, <1>2, <1>3, <1>4, <1>5, <1>6, <1>7, <1>8, <1>9, <1>10 DEF IInv

\* The new session charges what was declared at that moment.
LEMMA CreateTier2CheckoutIInv ==
    ASSUME IInv, NEW e \in Engagements, CreateTier2Checkout(e)
    PROVE IInv'
<1>1. TypeOK'
  <2>1. PICK t \in Sessions :
          sessions' = [sessions EXCEPT
                         ![t] = [engagement |-> e, tier |-> "tier_2",
                                 cents |-> Tier2PriceCents(size_bracket,
                                                           forms[e].instrument),
                                 status |-> "open"]]
          /\ sessions[t].status = "none"
    BY DEF CreateTier2Checkout, OpenSession
  <2>2. Tier2PriceCents(size_bracket, forms[e].instrument) \in Nat
    BY PriceIsNat
  <2> QED
    BY <2>1, <2>2
       DEF IInv, TypeOK, CreateTier2Checkout, engagement, progress, webhooks,
           IsTier, Submitted, Paid
<1>2. FormsComeInOrder'
  BY DEF IInv, CreateTier2Checkout, FormsComeInOrder, Submitted, engagement
<1>3. InvitedHavePaid'
  BY DEF IInv, CreateTier2Checkout, InvitedHavePaid, IsTier, Submitted, engagement,
         progress
<1>4. ReportsHaveForms'
  BY DEF IInv, CreateTier2Checkout, ReportsHaveForms, Submitted, engagement
<1>5. AnsweredArePaid'
  BY DEF IInv, CreateTier2Checkout, AnsweredArePaid, Paid, OpenSession, progress
<1>6. StepsAreTaken'
  BY DEF IInv, CreateTier2Checkout, StepsAreTaken, About, engagement, OpenSession,
         webhooks, TypeOK, Paid
<1>7. OneSender'
  BY DEF IInv, CreateTier2Checkout, OneSender, OneSenderOf, Sends, About, engagement,
         OpenSession, progress, webhooks, TypeOK, Paid
<1>8. PaymentsAreOnRecord'
  BY DEF IInv, CreateTier2Checkout, PaymentsAreOnRecord, engagement, PaidFor, Paid,
         OpenSession, webhooks, AnsweredArePaid
<1>9. ChargedAsDeclared'
  BY DEF IInv, CreateTier2Checkout, ChargedAsDeclared, engagement, Submitted,
         OpenSession, IsTier, FormsComeInOrder
<1>10. ReportsAreEarned'
  BY DEF IInv, CreateTier2Checkout, ReportsAreEarned, PaidFor, IsTier, Submitted,
         engagement, Paid, OpenSession, progress
<1> QED
  BY <1>1, <1>2, <1>3, <1>4, <1>5, <1>6, <1>7, <1>8, <1>9, <1>10 DEF IInv

\* A payment at Stripe changes no row.
LEMMA PayIInv ==
    ASSUME IInv, NEW s \in Sessions, Pay(s)
    PROVE IInv'
<1>1. TypeOK'
  BY DEF IInv, Pay, TypeOK, engagement, Submitted, Paid, progress, webhooks
<1>2. FormsComeInOrder'
  BY DEF IInv, Pay, FormsComeInOrder, Submitted, engagement
<1>3. InvitedHavePaid'
  BY DEF IInv, Pay, InvitedHavePaid, IsTier, Submitted, engagement, progress
<1>4. ReportsHaveForms'
  BY DEF IInv, Pay, ReportsHaveForms, Submitted, engagement
<1>5. AnsweredArePaid'
  BY DEF IInv, Pay, AnsweredArePaid, Paid, progress
<1>6. StepsAreTaken'
  BY DEF IInv, Pay, StepsAreTaken, About, engagement, webhooks
<1>7. OneSender'
  BY DEF IInv, Pay, OneSender, OneSenderOf, Sends, About, engagement, webhooks
<1>8. PaymentsAreOnRecord'
  BY DEF IInv, Pay, PaymentsAreOnRecord, engagement, PaidFor, Paid, webhooks
<1>9. ChargedAsDeclared'
  BY DEF IInv, Pay, ChargedAsDeclared, engagement, Submitted
<1>10. ReportsAreEarned'
  BY DEF IInv, Pay, ReportsAreEarned, PaidFor, IsTier, Submitted, engagement, Paid,
         progress
<1> QED
  BY <1>1, <1>2, <1>3, <1>4, <1>5, <1>6, <1>7, <1>8, <1>9, <1>10 DEF IInv

\* A webhook takes up a payment that has been made.
LEMMA DeliverIInv ==
    ASSUME IInv, NEW h \in Handlers, NEW s \in Sessions, Deliver(h, s)
    PROVE IInv'
<1>1. TypeOK'
  BY DEF IInv, Deliver, TypeOK, engagement, Submitted, Paid, HandlerSteps, progress,
         stripe
<1>2. FormsComeInOrder'
  BY DEF IInv, Deliver, FormsComeInOrder, Submitted, engagement
<1>3. InvitedHavePaid'
  BY DEF IInv, Deliver, InvitedHavePaid, IsTier, Submitted, engagement, progress
<1>4. ReportsHaveForms'
  BY DEF IInv, Deliver, ReportsHaveForms, Submitted, engagement
<1>5. AnsweredArePaid'
  BY DEF IInv, Deliver, AnsweredArePaid, Paid, progress, stripe
<1>6. StepsAreTaken'
  BY DEF IInv, Deliver, StepsAreTaken, About, engagement, stripe
<1>7. OneSender'
  <2>1. \A g \in Handlers, e \in Engagements : Sends(g, e)' <=> Sends(g, e)
    BY DEF IInv, TypeOK, Deliver, stripe, Sends, About
  <2> QED
    BY <2>1, SendersStay DEF IInv, Deliver, engagement
<1>8. PaymentsAreOnRecord'
  BY DEF IInv, Deliver, PaymentsAreOnRecord, engagement, PaidFor, Paid, stripe
<1>9. ChargedAsDeclared'
  BY DEF IInv, Deliver, ChargedAsDeclared, engagement, Submitted, stripe
<1>10. ReportsAreEarned'
  BY DEF IInv, Deliver, ReportsAreEarned, PaidFor, IsTier, Submitted, engagement, Paid,
         progress, stripe
<1> QED
  BY <1>1, <1>2, <1>3, <1>4, <1>5, <1>6, <1>7, <1>8, <1>9, <1>10 DEF IInv

\* The first UPDATE of an engagement makes its sender; any other finds
\* the row paid.
LEMMA RecordPaymentIInv ==
    ASSUME IInv, NEW h \in Handlers, RecordPayment(h)
    PROVE IInv'
<1>1. TypeOK'
  <2>1. About(h) \in Engagements /\ sessions[handlers[h].session].cents \in Nat
    BY DEF IInv, TypeOK, RecordPayment, About, Paid, Submitted
  <2>2. price_cents' \in [Engagements -> Nat]
    BY <2>1 DEF IInv, TypeOK, RecordPayment
  <2>3. /\ payment_status' \in
             [Engagements -> {"none", "free", "unpaid", "comped", "paid"}]
        /\ \A e \in Engagements : payment_status'[e] = "none" <=> e \notin Submitted'
    BY <2>1 DEF IInv, TypeOK, RecordPayment, About, Paid, Submitted
  <2>4. \A g \in Handlers : handlers'[g].session = handlers[g].session
    BY DEF IInv, TypeOK, RecordPayment
  <2>5. handlers' \in [Handlers -> [pc : HandlerSteps, session : Sessions \cup {0},
                                    first_time : BOOLEAN]]
    BY DEF IInv, TypeOK, RecordPayment, HandlerSteps
  <2>6. \A g \in Handlers : handlers'[g].pc =
                                IF g = h THEN "log" ELSE handlers[g].pc
    BY DEF IInv, TypeOK, RecordPayment
  <2>7. \A g \in Handlers : handlers'[g].pc # "idle" =>
          /\ handlers'[g].session \in Sessions
          /\ sessions[handlers'[g].session].status = "paid"
          /\ handlers'[g].pc \in {"claim", "log", "link"} =>
               sessions[handlers'[g].session].tier = "tier_2"
          /\ handlers'[g].pc = "generate" =>
               sessions[handlers'[g].session].tier = "tier_1"
    BY <2>4, <2>6 DEF IInv, TypeOK, RecordPayment, Paid
  <2>8. Submitted' = Submitted
    BY DEF RecordPayment, Submitted
  <2> QED
    BY <2>2, <2>3, <2>5, <2>7, <2>8
       DEF IInv, TypeOK, RecordPayment, progress, stripe, Paid
<1>2. FormsComeInOrder'
  BY DEF IInv, RecordPayment, FormsComeInOrder, Submitted
<1>3. InvitedHavePaid'
  BY DEF IInv, RecordPayment, InvitedHavePaid, IsTier, Submitted, progress
<1>4. ReportsHaveForms'
  BY DEF IInv, RecordPayment, ReportsHaveForms, Submitted
<1>5. AnsweredArePaid'
  BY DEF IInv, RecordPayment, AnsweredArePaid, Paid, progress, stripe
<1>6. StepsAreTaken'
  <2>1. \A g \in Handlers \ {h} : handlers'[g] = handlers[g]
    BY DEF IInv, TypeOK, RecordPayment
  <2>2. handlers'[h].pc = "log" /\ handlers'[h].session = handlers[h].session
    BY DEF IInv, TypeOK, RecordPayment
  <2>3. About(h) \in Engagements
    BY DEF IInv, TypeOK, RecordPayment, About, Paid, Submitted
  <2>4. /\ payment_status'[About(h)] = "paid"
        /\ \A e \in Engagements : payment_status[e] = "paid" => payment_status'[e] = "paid"
    BY <2>3 DEF IInv, TypeOK, RecordPayment
  <2>5. \A g \in Handlers : handlers[g].pc # "idle" => About(g) \in Engagements
    BY DEF IInv, TypeOK, About, Paid, Submitted
  <2>6. UNCHANGED <<sessions, logged>>
    BY DEF RecordPayment, stripe
  <2> QED
    BY <2>1, <2>2, <2>4, <2>5, <2>6 DEF IInv, StepsAreTaken, About
<1>7. OneSender'
  <2>1. About(h) \in Engagements
    BY DEF IInv, TypeOK, RecordPayment, About, Paid, Submitted
  <2>2. \A g \in Handlers \ {h} : handlers'[g] = handlers[g]
    BY DEF IInv, TypeOK, RecordPayment
  <2>3. /\ handlers'[h].pc = "log"
        /\ handlers'[h].session = handlers[h].session
        /\ handlers'[h].first_time <=> payment_status[About(h)] # "paid"
    BY DEF IInv, TypeOK, RecordPayment
  <2>4. \A g \in Handlers \ {h}, e \in Engagements : Sends(g, e)' <=> Sends(g, e)
    BY <2>2 DEF RecordPayment, stripe, Sends, About
  <2>5. \A e \in Engagements :
          /\ ~ Sends(h, e)
          /\ Sends(h, e)' <=> e = About(h) /\ payment_status[e] # "paid"
    BY <2>3 DEF RecordPayment, stripe, Sends, About
  <2>6. \A e \in Engagements :
          payment_status'[e] = IF e = About(h) THEN "paid" ELSE payment_status[e]
    BY DEF IInv, TypeOK, RecordPayment
  <2>7. UNCHANGED <<links, linkless>>
    BY DEF RecordPayment
  <2> QED
    BY <2>4, <2>5, <2>6, <2>7 DEF IInv, OneSender, OneSenderOf
<1>8. PaymentsAreOnRecord'
  BY DEF IInv, RecordPayment, PaymentsAreOnRecord, PaidFor, Paid, stripe, About,
         TypeOK
<1>9. ChargedAsDeclared'
  BY DEF IInv, RecordPayment, ChargedAsDeclared, Submitted, stripe
<1>10. ReportsAreEarned'
  BY DEF IInv, RecordPayment, ReportsAreEarned, PaidFor, IsTier, Submitted, Paid,
         progress, stripe
<1> QED
  BY <1>1, <1>2, <1>3, <1>4, <1>5, <1>6, <1>7, <1>8, <1>9, <1>10 DEF IInv

\* The event is written after the row.
LEMMA LogPaymentIInv ==
    ASSUME IInv, NEW h \in Handlers, LogPayment(h)
    PROVE IInv'
<1>1. TypeOK'
  BY DEF IInv, LogPayment, TypeOK, engagement, Submitted, Paid, HandlerSteps, GoTo,
         progress, stripe
<1>2. FormsComeInOrder'
  BY DEF IInv, LogPayment, FormsComeInOrder, Submitted, engagement
<1>3. InvitedHavePaid'
  BY DEF IInv, LogPayment, InvitedHavePaid, IsTier, Submitted, engagement, progress
<1>4. ReportsHaveForms'
  BY DEF IInv, LogPayment, ReportsHaveForms, Submitted, engagement
<1>5. AnsweredArePaid'
  BY DEF IInv, LogPayment, AnsweredArePaid, Paid, progress, stripe
<1>6. StepsAreTaken'
  BY DEF IInv, LogPayment, StepsAreTaken, About, engagement, GoTo, stripe
<1>7. OneSender'
  <2>1. \A g \in Handlers, e \in Engagements : Sends(g, e)' <=> Sends(g, e)
    BY DEF IInv, TypeOK, LogPayment, GoTo, stripe, Sends, About
  <2> QED
    BY <2>1, SendersStay DEF IInv, LogPayment, engagement
<1>8. PaymentsAreOnRecord'
  BY DEF IInv, LogPayment, PaymentsAreOnRecord, engagement, PaidFor, Paid, stripe
<1>9. ChargedAsDeclared'
  BY DEF IInv, LogPayment, ChargedAsDeclared, engagement, Submitted, stripe
<1>10. ReportsAreEarned'
  BY DEF IInv, LogPayment, ReportsAreEarned, PaidFor, IsTier, Submitted, engagement,
         Paid, progress, stripe
<1> QED
  BY <1>1, <1>2, <1>3, <1>4, <1>5, <1>6, <1>7, <1>8, <1>9, <1>10 DEF IInv

\* The sender is done, so the link of this engagement is never sent
\* again.
LEMMA SendLinkIInv ==
    ASSUME IInv, NEW h \in Handlers, SendLink(h)
    PROVE IInv'
<1>1. TypeOK'
  <2>1. About(h) \in Engagements
    BY DEF IInv, TypeOK, SendLink, About, Paid, Submitted
  <2>2. links' \in [Engagements -> Nat] /\ linkless' \subseteq Engagements
    BY <2>1 DEF IInv, TypeOK, SendLink
  <2> QED
    BY <2>2 DEF IInv, TypeOK, SendLink, GoTo, engagement, progress, stripe,
                HandlerSteps, Paid, Submitted
<1>2. FormsComeInOrder'
  BY DEF IInv, SendLink, FormsComeInOrder, Submitted, engagement
<1>3. InvitedHavePaid'
  BY DEF IInv, SendLink, InvitedHavePaid, IsTier, Submitted, engagement, progress
<1>4. ReportsHaveForms'
  BY DEF IInv, SendLink, ReportsHaveForms, Submitted, engagement
<1>5. AnsweredArePaid'
  BY DEF IInv, SendLink, AnsweredArePaid, Paid, progress, stripe
<1>6. StepsAreTaken'
  BY DEF IInv, SendLink, StepsAreTaken, About, engagement, GoTo, stripe
<1>7. OneSender'
  <2>1. About(h) \in Engagements
    BY DEF IInv, TypeOK, SendLink, About, Paid, Submitted
  <2>2. \A g \in Handlers \ {h}, e \in Engagements : Sends(g, e)' <=> Sends(g, e)
    BY DEF IInv, TypeOK, SendLink, GoTo, stripe, Sends, About
  <2>3. \A e \in Engagements : ~ Sends(h, e)'
    BY DEF IInv, TypeOK, SendLink, GoTo, Sends
  <2>4. \A e \in Engagements : Sends(h, e) <=> e = About(h)
    BY DEF IInv, StepsAreTaken, SendLink, Sends
  <2>5. payment_status' = payment_status
    BY DEF SendLink, engagement
  <2>6. Sends(h, About(h))
    BY <2>1, <2>4
  <2> QED
    BY <2>1, <2>2, <2>3, <2>5, <2>6, SenderStops DEF IInv, SendLink
<1>8. PaymentsAreOnRecord'
  BY DEF IInv, SendLink, PaymentsAreOnRecord, engagement, PaidFor, Paid, stripe
<1>9. ChargedAsDeclared'
  BY DEF IInv, SendLink, ChargedAsDeclared, engagement, Submitted, stripe
<1>10. ReportsAreEarned'
  BY DEF IInv, SendLink, ReportsAreEarned, PaidFor, IsTier, Submitted, engagement,
         Paid, progress, stripe
<1> QED
  BY <1>1, <1>2, <1>3, <1>4, <1>5, <1>6, <1>7, <1>8, <1>9, <1>10 DEF IInv

\* A report of the webhook: the session that the request carries is a Tier 1
\* session of the engagement, and it is paid.
LEMMA GenerateIInv ==
    ASSUME IInv, NEW h \in Handlers, Generate(h)
    PROVE IInv'
<1>1. TypeOK'
  BY DEF IInv, Generate, TypeOK, engagement, Submitted, Paid, HandlerSteps, GoTo,
         progress, stripe, About
<1>2. FormsComeInOrder'
  BY DEF IInv, Generate, FormsComeInOrder, Submitted, engagement
<1>3. InvitedHavePaid'
  BY DEF IInv, Generate, InvitedHavePaid, IsTier, Submitted, engagement, progress
<1>4. ReportsHaveForms'
  BY DEF IInv, Generate, ReportsHaveForms, Submitted, engagement, About, TypeOK, Paid
<1>5. AnsweredArePaid'
  BY DEF IInv, Generate, AnsweredArePaid, Paid, progress, stripe
<1>6. StepsAreTaken'
  BY DEF IInv, Generate, StepsAreTaken, About, engagement, GoTo, stripe, TypeOK
<1>7. OneSender'
  <2>1. \A g \in Handlers, e \in Engagements : Sends(g, e)' <=> Sends(g, e)
    BY DEF IInv, TypeOK, Generate, GoTo, stripe, Sends, About
  <2> QED
    BY <2>1, SendersStay DEF IInv, Generate, engagement
<1>8. PaymentsAreOnRecord'
  BY DEF IInv, Generate, PaymentsAreOnRecord, engagement, PaidFor, Paid, stripe
<1>9. ChargedAsDeclared'
  BY DEF IInv, Generate, ChargedAsDeclared, engagement, Submitted, stripe
<1>10. ReportsAreEarned'
  <2>1. PaidFor(handlers[h].session, About(h), "tier_1")
        /\ handlers[h].session \in Sessions
    BY DEF IInv, TypeOK, Generate, PaidFor, About, Paid
  <2>2. \A e \in Engagements :
          /\ "coverage" \in generated'[e] <=> "coverage" \in generated[e]
          /\ "completion" \in generated'[e] <=> "completion" \in generated[e]
          /\ "webhook" \in generated'[e] =>
               "webhook" \in generated[e] \/ e = About(h)
    BY DEF IInv, TypeOK, Generate
  <2>3. /\ \A e \in Engagements : IsTier(e, "tier_2")' <=> IsTier(e, "tier_2")
        /\ \A s \in Sessions, e \in Engagements :
             PaidFor(s, e, "tier_1")' <=> PaidFor(s, e, "tier_1")
        /\ UNCHANGED <<coverage_met, payment_status>>
    BY DEF Generate, IsTier, Submitted, PaidFor, Paid, engagement, progress, stripe
  <2> QED
    BY <2>1, <2>2, <2>3 DEF IInv, ReportsAreEarned
<1> QED
  BY <1>1, <1>2, <1>3, <1>4, <1>5, <1>6, <1>7, <1>8, <1>9, <1>10 DEF IInv

\* A handler that answers is done with its link.
LEMMA AnswerIInv ==
    ASSUME IInv, NEW h \in Handlers, Answer(h)
    PROVE IInv'
<1>1. TypeOK'
  BY DEF IInv, Answer, TypeOK, engagement, Submitted, Paid, HandlerSteps, progress,
         Idle
<1>2. FormsComeInOrder'
  BY DEF IInv, Answer, FormsComeInOrder, Submitted, engagement
<1>3. InvitedHavePaid'
  BY DEF IInv, Answer, InvitedHavePaid, IsTier, Submitted, engagement, progress
<1>4. ReportsHaveForms'
  BY DEF IInv, Answer, ReportsHaveForms, Submitted, engagement
<1>5. AnsweredArePaid'
  BY DEF IInv, Answer, AnsweredArePaid, Paid, progress, TypeOK
<1>6. StepsAreTaken'
  BY DEF IInv, Answer, StepsAreTaken, About, engagement, Idle
<1>7. OneSender'
  <2>1. \A g \in Handlers, e \in Engagements : Sends(g, e)' <=> Sends(g, e)
    BY DEF IInv, TypeOK, Answer, Idle, Sends, About
  <2> QED
    BY <2>1, SendersStay DEF IInv, Answer, engagement
<1>8. PaymentsAreOnRecord'
  BY DEF IInv, Answer, PaymentsAreOnRecord, engagement, PaidFor, Paid, StepsAreTaken,
         About
<1>9. ChargedAsDeclared'
  BY DEF IInv, Answer, ChargedAsDeclared, engagement, Submitted
<1>10. ReportsAreEarned'
  BY DEF IInv, Answer, ReportsAreEarned, PaidFor, IsTier, Submitted, engagement, Paid,
         progress
<1> QED
  BY <1>1, <1>2, <1>3, <1>4, <1>5, <1>6, <1>7, <1>8, <1>9, <1>10 DEF IInv

\* A failure leaves the payment for the redelivery, or the link unsent.
LEMMA FailIInv ==
    ASSUME IInv, NEW h \in Handlers, Fail(h)
    PROVE IInv'
<1>1. TypeOK'
  <2>1. About(h) \in Engagements
    BY DEF IInv, TypeOK, Fail, About, Paid, Submitted
  <2>2. linkless' \subseteq Engagements /\ failures' \in 0..MaxFailures
    BY <2>1, BoundsAssumption DEF IInv, TypeOK, Fail
  <2> QED
    BY <2>2 DEF IInv, TypeOK, Fail, engagement, progress, stripe, Idle,
                HandlerSteps, Paid, Submitted
<1>2. FormsComeInOrder'
  BY DEF IInv, Fail, FormsComeInOrder, Submitted, engagement
<1>3. InvitedHavePaid'
  BY DEF IInv, Fail, InvitedHavePaid, IsTier, Submitted, engagement, progress
<1>4. ReportsHaveForms'
  BY DEF IInv, Fail, ReportsHaveForms, Submitted, engagement
<1>5. AnsweredArePaid'
  BY DEF IInv, Fail, AnsweredArePaid, Paid, progress, stripe
<1>6. StepsAreTaken'
  BY DEF IInv, Fail, StepsAreTaken, About, engagement, stripe, Idle
<1>7. OneSender'
  <2>1. About(h) \in Engagements
    BY DEF IInv, TypeOK, Fail, About, Paid, Submitted
  <2>2. \A g \in Handlers \ {h}, e \in Engagements : Sends(g, e)' <=> Sends(g, e)
    BY DEF IInv, TypeOK, Fail, stripe, Sends, About
  <2>3. \A e \in Engagements : ~ Sends(h, e)'
    BY DEF IInv, TypeOK, Fail, Idle, Sends
  <2>4. payment_status' = payment_status /\ links' = links
    BY DEF Fail, engagement
  <2>5. CASE handlers[h].pc \in {"log", "link"} /\ handlers[h].first_time
    <3>1. Sends(h, About(h))
      BY <2>5 DEF Sends
    <3>2. linkless' = linkless \cup {About(h)}
      BY <2>5 DEF Fail
    <3> QED
      BY <2>1, <2>2, <2>3, <2>4, <3>1, <3>2, SenderStops DEF IInv
  <2>6. CASE ~ (handlers[h].pc \in {"log", "link"} /\ handlers[h].first_time)
    <3>1. linkless' = linkless
      BY <2>6 DEF Fail
    <3>2. \A g \in Handlers, e \in Engagements : Sends(g, e)' <=> Sends(g, e)
      BY <2>2, <2>3, <2>6 DEF Sends
    <3> QED
      BY <2>4, <3>1, <3>2, SendersStay DEF IInv
  <2> QED
    BY <2>5, <2>6
<1>8. PaymentsAreOnRecord'
  BY DEF IInv, Fail, PaymentsAreOnRecord, engagement, PaidFor, Paid, stripe
<1>9. ChargedAsDeclared'
  BY DEF IInv, Fail, ChargedAsDeclared, engagement, Submitted, stripe
<1>10. ReportsAreEarned'
  BY DEF IInv, Fail, ReportsAreEarned, PaidFor, IsTier, Submitted, engagement, Paid,
         progress, stripe
<1> QED
  BY <1>1, <1>2, <1>3, <1>4, <1>5, <1>6, <1>7, <1>8, <1>9, <1>10 DEF IInv

-----------------------------------------------------------------------------
\* The start: no form, no session, no webhook.
LEMMA InitIInv == ASSUME Init PROVE IInv
<1>1. Submitted = {}
  BY DEF Init, Submitted
<1>2. TypeOK
  <2>1. Idle \in [pc : HandlerSteps, session : Sessions \cup {0}, first_time : BOOLEAN]
    BY DEF Idle, HandlerSteps
  <2>2. Unused \in [engagement : Engagements \cup {0}, tier : {"tier_1", "tier_2"},
                    cents : Nat, status : {"none", "open", "paid"}]
    BY DEF Unused
  <2>3. failures \in 0..MaxFailures
    <3>1. failures = 0
      BY DEF Init
    <3> QED
      BY <3>1, BoundsAssumption
  <2>4. UNION {finished, invited, coverage_met, closed} \subseteq Submitted
    BY DEF Init
  <2>5. /\ \A s \in Sessions : sessions[s].status = "none"
        /\ \A h \in Handlers : handlers[h].pc = "idle"
    BY DEF Init, Unused, Idle
  <2>6. /\ size_bracket = "none"
        /\ forms \in [Engagements -> Forms \cup {NoForm}]
        /\ price_cents \in [Engagements -> Nat]
        /\ generated \in [Engagements -> SUBSET {"completion", "coverage", "webhook"}]
        /\ links \in [Engagements -> Nat]
    BY DEF Init
  <2>7. /\ payment_status \in
             [Engagements -> {"none", "free", "unpaid", "comped", "paid"}]
        /\ \A e \in Engagements : payment_status[e] = "none" <=> e \notin Submitted
    BY <1>1 DEF Init
  <2>8. /\ sessions = [s \in Sessions |-> Unused] /\ handlers = [h \in Handlers |-> Idle]
        /\ acknowledged = {} /\ logged = {} /\ linkless = {}
    BY DEF Init
  <2> QED
    BY <2>1, <2>2, <2>3, <2>4, <2>5, <2>6, <2>7, <2>8 DEF TypeOK
<1>3. FormsComeInOrder /\ InvitedHavePaid /\ ReportsHaveForms
  BY <1>1 DEF Init, FormsComeInOrder, InvitedHavePaid, ReportsHaveForms
<1>4. AnsweredArePaid /\ StepsAreTaken
  BY DEF Init, AnsweredArePaid, StepsAreTaken, Unused, Idle
<1>5. OneSender
  BY DEF Init, OneSender, OneSenderOf, Sends, Idle
<1>6. PaymentsAreOnRecord /\ ChargedAsDeclared /\ ReportsAreEarned
  BY <1>1 DEF Init, PaymentsAreOnRecord, ChargedAsDeclared, ReportsAreEarned, Unused, IsTier
<1> QED
  BY <1>2, <1>3, <1>4, <1>5, <1>6 DEF IInv

\* A step that changes nothing.
LEMMA StutterIInv ==
    ASSUME IInv, UNCHANGED vars
    PROVE IInv'
<1> USE DEF vars, engagement, progress, stripe, webhooks
<1>1. TypeOK'
  BY DEF IInv, TypeOK, Submitted, Paid
<1>2. FormsComeInOrder' /\ InvitedHavePaid' /\ ReportsHaveForms'
  BY DEF IInv, FormsComeInOrder, InvitedHavePaid, ReportsHaveForms, Submitted, IsTier
<1>3. AnsweredArePaid' /\ StepsAreTaken'
  BY DEF IInv, AnsweredArePaid, StepsAreTaken, Paid, About
<1>4. OneSender'
  BY DEF IInv, OneSender, OneSenderOf, Sends, About
<1>5. PaymentsAreOnRecord' /\ ChargedAsDeclared' /\ ReportsAreEarned'
  BY DEF IInv, PaymentsAreOnRecord, ChargedAsDeclared, ReportsAreEarned, PaidFor, Paid,
         Submitted, IsTier
<1> QED
  BY <1>1, <1>2, <1>3, <1>4, <1>5 DEF IInv

\* One lemma for each action.
LEMMA NextIInv ==
    ASSUME IInv, [Next]_vars
    PROVE IInv'
<1>1. CASE UNCHANGED vars
  BY <1>1, StutterIInv
<1>2. ASSUME NEW e \in Engagements, NEW f \in Forms, Submit(e, f) PROVE IInv'
  BY <1>2, SubmitIInv
<1>3. ASSUME NEW e \in Followed,
             Finish(e) \/ Invite(e) \/ MeetCoverage(e) \/ Close(e)
      PROVE  IInv'
  <2>1. e \in Engagements
    BY FollowedAssumption
  <2> QED
    BY <1>3, <2>1, FinishIInv, InviteIInv, MeetCoverageIInv, CloseIInv
<1>4. ASSUME NEW e \in Followed, CreateCheckout(e) \/ CreateTier2Checkout(e)
      PROVE  IInv'
  <2>1. e \in Engagements
    BY FollowedAssumption
  <2> QED
    BY <1>4, <2>1, CreateCheckoutIInv, CreateTier2CheckoutIInv
<1>5. ASSUME NEW s \in Sessions, Pay(s) PROVE IInv'
  BY <1>5, PayIInv
<1>6. ASSUME NEW h \in Handlers, NEW s \in Sessions, Deliver(h, s) PROVE IInv'
  BY <1>6, DeliverIInv
<1>7. ASSUME NEW h \in Handlers, HandlerStep(h) \/ Fail(h) PROVE IInv'
  BY <1>7, RecordPaymentIInv, LogPaymentIInv, SendLinkIInv, GenerateIInv, AnswerIInv,
     FailIInv DEF HandlerStep
<1> QED
  BY <1>1, <1>2, <1>3, <1>4, <1>5, <1>6, <1>7 DEF Next

-----------------------------------------------------------------------------
(***************************************************************************)
(* Every state of start forms, checkouts and webhook requests satisfies    *)
(* the inductive invariant.                                                *)
(***************************************************************************)
THEOREM Invariance == Spec => []IInv
<1>1. Init => IInv
  BY InitIInv
<1>2. IInv /\ [Next]_vars => IInv'
  BY NextIInv
<1> QED
  BY <1>1, <1>2, PTL DEF Spec

(***************************************************************************)
(* Rows, sessions and webhook requests stay in their types.                *)
(***************************************************************************)
THEOREM TypeCorrect == Spec => []TypeOK
<1>1. IInv => TypeOK
  BY DEF IInv
<1> QED
  BY <1>1, Invariance, PTL

(***************************************************************************)
(* Who is on record as paid has paid at the price on record, and what      *)
(* Stripe need not report again is on record (billing.stripe_views).       *)
(***************************************************************************)
THEOREM PaymentsRecorded == Spec => []PaymentsAreOnRecord
<1>1. IInv => PaymentsAreOnRecord
  BY DEF IInv
<1> QED
  BY <1>1, Invariance, PTL

(***************************************************************************)
(* However often Stripe calls, and however many sessions are paid, one     *)
(* dashboard link is mailed, unless a failure has lost it (webhook).       *)
(***************************************************************************)
THEOREM LinkSentOnce == Spec => []LinkIsSentOnce
<1>1. IInv => LinkIsSentOnce
  <2> SUFFICES ASSUME IInv, NEW e \in Engagements
               PROVE  /\ links[e] <= 1
                      /\ payment_status[e] = "paid" /\ ~ Linking(e) =>
                           (links[e] = 1 <=> e \notin linkless)
    BY DEF LinkIsSentOnce
  <2>1. OneSenderOf(e)
    BY DEF IInv, OneSender
  <2>2. Linking(e) <=> \E h \in Handlers : Sends(h, e)
    BY DEF Linking, Sends
  <2> QED
    BY <2>1, <2>2 DEF OneSenderOf
<1> QED
  BY <1>1, Invariance, PTL

(***************************************************************************)
(* A Tier 2 buyer is asked for the price of a size that this form or a     *)
(* later one declared (create_tier2_checkout).                             *)
(***************************************************************************)
THEOREM ChargedDeclared == Spec => []ChargedAsDeclared
<1>1. IInv => ChargedAsDeclared
  BY DEF IInv
<1> QED
  BY <1>1, Invariance, PTL

(***************************************************************************)
(* A Tier 2 report was generated by coverage that was met and paid for, or *)
(* by a webhook about a paid Tier 1 session of that engagement (webhook).  *)
(***************************************************************************)
THEOREM ReportsEarned == Spec => []ReportsAreEarned
<1>1. IInv => ReportsAreEarned
  BY DEF IInv
<1> QED
  BY <1>1, Invariance, PTL
=============================================================================
