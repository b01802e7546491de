--------------------------- MODULE PaystackProofs ---------------------------
(***************************************************************************)
(* Theorems of Billing: the scheduler and the Paystack webhook on the same *)
(* tables, for any number of loops, checkouts and invoices.                *)
(***************************************************************************)
EXTENDS Billing, BillingProofs, FiniteSetTheorems

\* What a checkout and a webhook request hold: an invoice of the table, and the
\* event of a transaction that was paid.
InHand ==
  /\ BillInHand
  /\ \A c \in Checkout : stage[c] # "none" => invoice[c] \in Invoice
  /\ \A h \in Handler :
       step[h] # "idle" => event[h] \in Checkout /\ stage[event[h]] = "paid"

PaystackTypeInv == BillingTypeOK /\ InHand

LEMMA PaystackTypeInit == BillingInit => PaystackTypeInv
BY TypeInit, BillingAssumption
DEF BillingInit, PaystackTypeInv, InHand, BillingTypeOK, TypeInv, NoDay, NoInvoice

\* The checkout's and the webhook's steps write the tables of the scheduler
\* inside their types too.
LEMMA PaystackTypeStep ==
  PaystackTypeInv /\ [BillingNext]_allVars => PaystackTypeInv'
<1> SUFFICES ASSUME PaystackTypeInv, [BillingNext]_allVars PROVE PaystackTypeInv'
  OBVIOUS
<1> USE BillingStoreAssumption, BillingSchedulerAssumption, BillingAssumption
<1>1. CASE Next /\ UNCHANGED <<checkoutVars, webhookVars>>
  BY <1>1, TypeStep
  DEF PaystackTypeInv, InHand, BillingTypeOK, TypeInv, checkoutVars, webhookVars, historyVars
<1> USE DEF PaystackTypeInv, InHand, BillingTypeOK, TypeOK, StoreTypeOK, BillInHand, vars,
            storeVars, schedVars, auxVars, checkoutVars, webhookVars, historyVars, Fault, HandlerGoto,
            Slip
<1>2. today \in Day /\ today + Month \in Day
  BY DEF Day
<1>3. ASSUME NEW c \in Checkout, NEW i \in Invoice, OpenCheckout(c, i)
      PROVE  PaystackTypeInv'
  <2>1. [status |-> "open", start |-> today, end |-> today + Month, zero |-> FALSE]
          \in InvoiceRow
    BY <1>2 DEF InvoiceRow, Day
  <2>2. inv' \in [Invoice -> InvoiceRow]
    BY <1>3, <2>1 DEF OpenCheckout, CreateInvoice
  <2>3. sub' \in Row
    BY <1>2, <1>3 DEF OpenCheckout, UpsertSubscription, Row
  <2> QED
    BY <1>3, <2>2, <2>3 DEF OpenCheckout
<1>4. ASSUME NEW c \in Checkout, NEW answer \in {"initialised", "dropped"},
             InitTransaction(c, answer)
      PROVE  PaystackTypeInv'
  BY <1>4 DEF InitTransaction
<1>5. ASSUME NEW c \in Checkout, StampReference(c)
      PROVE  PaystackTypeInv'
  <2>1. inv' \in [Invoice -> InvoiceRow]
    BY <1>5 DEF StampReference, InvoiceRow
  <2> QED
    BY <1>5, <2>1 DEF StampReference
<1>6. ASSUME NEW c \in Checkout, Pay(c)
      PROVE  PaystackTypeInv'
  BY <1>6 DEF Pay
<1>7. ASSUME NEW h \in Handler, NEW c \in Checkout, Deliver(h, c)
      PROVE  PaystackTypeInv'
  BY <1>7 DEF Deliver
<1>8. ASSUME NEW h \in Handler, CheckEvent(h)
      PROVE  PaystackTypeInv'
  BY <1>8 DEF CheckEvent
<1>9. ASSUME NEW h \in Handler, RecordEvent(h)
      PROVE  PaystackTypeInv'
  BY <1>9 DEF RecordEvent
<1>10. ASSUME NEW h \in Handler, ApplyCharge(h)
       PROVE  PaystackTypeInv'
  <2>0. inv' = inv \/ \E i \in Invoice : inv' = [inv EXCEPT ![i].status = "paid"]
    BY <1>10 DEF ApplyCharge, MarkInvoicePaid
  <2>1. inv' \in [Invoice -> InvoiceRow]
    BY <2>0 DEF InvoiceRow
  <2>2. sub' \in Row
    BY <1>2, <1>10 DEF ApplyCharge, UpsertSubscription, Row
  <2>3. payments' \in [Checkout -> Nat] /\ paidOn' \in Day \cup {NoDay}
    BY <1>2, <1>10 DEF ApplyCharge
  <2> QED
    BY <1>10, <2>1, <2>2, <2>3 DEF ApplyCharge
<1>11. ASSUME NEW h \in Handler, Answer(h)
       PROVE  PaystackTypeInv'
  BY <1>11 DEF Answer
<1>12. ASSUME NEW h \in Handler, HandlerCrash(h)
       PROVE  PaystackTypeInv'
  BY <1>12 DEF HandlerCrash
<1>13. CASE UNCHANGED allVars
  BY <1>13 DEF allVars
<1> QED
  BY <1>1, <1>3, <1>4, <1>5, <1>6, <1>7, <1>8, <1>9, <1>10, <1>11, <1>12, <1>13
  DEF BillingNext

\* The type invariant with the checkout and the webhook on the same tables.
THEOREM BillingTypeCorrect == BillingSpec => []BillingTypeOK
<1>1. BillingSpec => []PaystackTypeInv
  BY PaystackTypeInit, PaystackTypeStep, PTL DEF BillingSpec
<1> QED
  BY <1>1, PTL DEF PaystackTypeInv

-----------------------------------------------------------------------------
(* No invoice is paid without its money *)

\* A loop about to mark an invoice paid has been told that its money moved.
BackedInv ==
  /\ PaystackTypeInv
  /\ PaidIsBacked
  /\ \A s \in Sched : pc[s] \in {"settle", "resettle"} => bill[s] \in charged

LEMMA BackedInit == BillingInit => BackedInv
<1> SUFFICES ASSUME BillingInit PROVE BackedInv
  OBVIOUS
<1>1. /\ charged = {i \in Invoice : inv[i].status = "paid"}
      /\ pc = [s \in Sched |-> "idle"]
  BY DEF BillingInit, Init
<1> QED
  BY <1>1, PaystackTypeInit DEF BackedInv, PaidIsBacked

\* Charges only add to what was charged, and a checkout that was paid stays so
\* with its invoice.
LEMMA BackedStep == BackedInv /\ [BillingNext]_allVars => BackedInv'
<1> SUFFICES ASSUME BackedInv, [BillingNext]_allVars
             PROVE  /\ PaidIsBacked'
                    /\ \A s \in Sched : (pc[s] \in {"settle", "resettle"} => bill[s] \in charged)'
  BY PaystackTypeStep DEF BackedInv
<1> DEFINE Told == \A s \in Sched : pc[s] \in {"settle", "resettle"} => bill[s] \in charged
<1> USE DEF BackedInv, PaystackTypeInv, InHand, BillingTypeOK, TypeOK, StoreTypeOK,
            BillInHand, vars, storeVars, schedVars, auxVars, checkoutVars, webhookVars
<1>1. CASE Next /\ UNCHANGED <<checkoutVars, webhookVars>>
  <2> SUFFICES ASSUME UNCHANGED <<stage, invoice>>, Next PROVE PaidIsBacked' /\ Told'
    BY <1>1
  <2> USE DEF PaidIsBacked, At, Goto, Step
  <2>1. ASSUME NEW s \in Sched, NEW i \in Invoice, NEW zero \in BOOLEAN,
               GenerateInvoice(s, i, zero)
        PROVE  PaidIsBacked' /\ Told'
    <3>1. /\ inv' = [inv EXCEPT ![i] = [status |-> "open", start |-> Start(s),
                                        end |-> End(s), zero |-> zero]]
          /\ UNCHANGED charged
      BY <2>1 DEF GenerateInvoice, CreateInvoice
    <3>2. Told'
      BY <2>1 DEF GenerateInvoice, Take
    <3> QED
      BY <3>1, <3>2
  <2>2. ASSUME NEW s \in Sched, Settle(s) \/ SettleLate(s)
        PROVE  PaidIsBacked' /\ Told'
    <3>1. /\ pc[s] \in {"settle", "resettle"} /\ bill[s] \in charged
          /\ inv' = [inv EXCEPT ![bill[s]].status = "paid"]
          /\ UNCHANGED <<charged, bill>>
          /\ pc' \in {[pc EXCEPT ![s] = "rescan"], [pc EXCEPT ![s] = "done"]}
      BY <2>2 DEF Settle, SettleLate, SettleFrom, MarkInvoicePaid
    <3>2. \A i \in Invoice :
            inv'[i].status = IF i = bill[s] THEN "paid" ELSE inv[i].status
      BY <3>1 DEF InvoiceRow
    <3> QED
      BY <3>1, <3>2
  <2>3. ASSUME NEW s \in Sched, ChargeNew(s) \/ ChargeAgain(s)
        PROVE  PaidIsBacked' /\ Told'
    BY <2>3 DEF ChargeNew, ChargeAgain, Charge
  <2>4. ASSUME NEW s \in Sched, LoadOpenInvoice(s) \/ LoadOverdueInvoice(s)
        PROVE  PaidIsBacked' /\ Told'
    BY <2>4 DEF LoadOpenInvoice, LoadOverdueInvoice, Take
  <2>5. ASSUME NEW s \in Sched, ScanBilling(s) \/ CheckInvoice(s) \/ ScanDunning(s)
        PROVE  PaidIsBacked' /\ Told'
    BY <2>5 DEF ScanBilling, CheckInvoice, ScanDunning
  <2>6. ASSUME NEW s \in Sched,
               GenerateRejected(s) \/ AdvancePeriodOnly(s) \/ Recover(s) \/ EnterDunning(s)
        PROVE  PaidIsBacked' /\ Told'
    BY <2>6 DEF GenerateRejected, AdvancePeriodOnly, Recover, AdvanceFrom, EnterDunning
  <2>7. ASSUME NEW s \in Sched, CancelAndPurge(s) \/ Escalate(s)
        PROVE  PaidIsBacked' /\ Told'
    BY <2>7 DEF CancelAndPurge, Escalate
  <2>8. ASSUME NEW s \in Sched, EndSweep(s) \/ StatementFails(s) \/ Crash(s)
        PROVE  PaidIsBacked' /\ Told'
    BY <2>8 DEF EndSweep, StatementFails, Crash, Forget
  <2>9. CASE NextDay
    BY <2>9 DEF NextDay
  <2> QED
    BY <2>1, <2>2, <2>3, <2>4, <2>5, <2>6, <2>7, <2>8, <2>9 DEF Next, BillingCycle, DunningRun
<1>2. ASSUME UNCHANGED <<pc, bill, charged>> PROVE Told'
  BY <1>2
<1>3. ASSUME NEW c \in Checkout, NEW i \in Invoice, OpenCheckout(c, i)
      PROVE  PaidIsBacked' /\ Told'
  <2>1. /\ stage[c] = "none"
        /\ inv' = [inv EXCEPT ![i] = [status |-> "open", start |-> today,
                                      end |-> today + Month, zero |-> FALSE]]
        /\ stage' = [stage EXCEPT ![c] = "opened"]
        /\ invoice' = [invoice EXCEPT ![c] = i]
        /\ UNCHANGED charged
    BY <1>3 DEF OpenCheckout, CreateInvoice
  <2> QED
    BY <1>2, <1>3, <2>1 DEF OpenCheckout, PaidIsBacked
<1>4. ASSUME NEW c \in Checkout,
             (\E answer \in {"initialised", "dropped"} : InitTransaction(c, answer)) \/ Pay(c)
      PROVE  PaidIsBacked' /\ Told'
  BY <1>2, <1>4 DEF InitTransaction, Pay, PaidIsBacked
<1>5. ASSUME NEW c \in Checkout, StampReference(c)
      PROVE  PaidIsBacked' /\ Told'
  <2>1. /\ stage[c] = "initialised" /\ stage' = [stage EXCEPT ![c] = "offered"]
        /\ inv' = [inv EXCEPT ![invoice[c]].status = "open"] \/ UNCHANGED inv
        /\ UNCHANGED <<charged, invoice>>
    BY <1>5 DEF StampReference
  <2>2. \A i \in Invoice : inv'[i].status = "paid" => inv[i].status = "paid"
    BY <2>1 DEF InvoiceRow
  <2> QED
    BY <1>2, <1>5, <2>1, <2>2 DEF StampReference, PaidIsBacked
<1>6. ASSUME NEW h \in Handler, ApplyCharge(h)
      PROVE  PaidIsBacked' /\ Told'
  <2>1. /\ event[h] \in Checkout /\ stage[event[h]] = "paid"
        /\ UNCHANGED <<stage, invoice, charged>>
        /\ inv' = [inv EXCEPT ![invoice[event[h]]].status = "paid"] \/ UNCHANGED inv
    BY <1>6 DEF ApplyCharge, HandlerGoto, MarkInvoicePaid
  <2>2. \A i \in Invoice :
          inv'[i].status = "paid" => inv[i].status = "paid" \/ i = invoice[event[h]]
    BY <2>1 DEF InvoiceRow
  <2> QED
    BY <1>2, <1>6, <2>1, <2>2 DEF ApplyCharge, PaidIsBacked
<1>7. ASSUME UNCHANGED <<inv, pc, bill, charged, stage, invoice>>
      PROVE  PaidIsBacked' /\ Told'
  BY <1>7 DEF PaidIsBacked
<1> QED
  BY <1>1, <1>3, <1>4, <1>5, <1>6, <1>7
  DEF BillingNext, allVars, Deliver, CheckEvent, RecordEvent, Answer, HandlerCrash

\* However the sweeps of any number of loops and the deliveries of any number of
\* checkouts interleave, no invoice is paid unless the Charger or an owner paid it.
THEOREM PaidHasMoney == BillingSpec => []PaidIsBacked
<1>1. BillingSpec => []BackedInv
  BY BackedInit, BackedStep, PTL DEF BillingSpec
<1> QED
  BY <1>1, PTL DEF BackedInv

-----------------------------------------------------------------------------
(* A payment is recorded once, and once more for each request that slipped through *)

\* The requests that will record a payment of c if nothing fails: past the check,
\* or about to find nothing recorded.
Through(c) ==
  {h \in Handler : /\ event[h] = c
                   /\ step[h] \in {"record", "apply"} \/ (step[h] = "check" /\ c \notin events)}

Applying(c) == \E h \in Handler : step[h] = "apply" /\ event[h] = c

\* What became of an event that is recorded.
DoneWith(c) == payments[c] >= 1 \/ c \in lost \/ Applying(c)

\* The payments that are and those still to come, against the slips; an event that
\* is not recorded allows one only while a request is about to record it.
OnceOf(c) ==
  /\ payments[c] + Cardinality(Through(c)) <= 1 + slips[c]
  /\ c \notin events /\ ~ InFlight(c) => payments[c] + Cardinality(Through(c)) <= slips[c]

OnceInv ==
  /\ PaystackTypeInv
  /\ \A c \in Checkout : OnceOf(c)

AppliedInv ==
  /\ \A c \in events \cup answered : DoneWith(c)
  /\ \A h \in Handler : step[h] = "answer" => DoneWith(event[h])

LEMMA ThroughAre ==
  ASSUME NEW c
  PROVE  IsFiniteSet(Through(c)) /\ Cardinality(Through(c)) \in Nat
BY BillingAssumption, FS_Subset, FS_CardinalityType DEF Through

LEMMA Fewer ==
  ASSUME NEW c, Through(c)' \subseteq Through(c)
  PROVE  /\ Cardinality(Through(c)') \in Nat
         /\ Cardinality(Through(c)') <= Cardinality(Through(c))
         /\ \A h \in Through(c) \ Through(c)' : Cardinality(Through(c)') + 1 <= Cardinality(Through(c))
<1> DEFINE old == Through(c)
           new == Through(c)'
<1>1. IsFiniteSet(old) /\ Cardinality(old) \in Nat
  BY ThroughAre
<1>2. new \subseteq old
  OBVIOUS
<1> HIDE DEF old, new
<1>3. IsFiniteSet(new) /\ Cardinality(new) \in Nat /\ Cardinality(new) <= Cardinality(old)
  BY <1>1, <1>2, FS_Subset, FS_CardinalityType
<1>4. ASSUME NEW h \in old \ new PROVE Cardinality(new) + 1 <= Cardinality(old)
  <2>1. new \subseteq old \ {h}
    BY <1>2, <1>4
  <2>2. /\ IsFiniteSet(old \ {h})
        /\ Cardinality(old \ {h}) = Cardinality(old) - 1
    BY <1>1, <1>4, FS_RemoveElement
  <2>3. Cardinality(new) <= Cardinality(old \ {h})
    BY <2>1, <2>2, FS_Subset
  <2> QED
    BY <1>1, <1>3, <2>2, <2>3
<1> QED
  BY <1>3, <1>4 DEF old, new

LEMMA OneMore ==
  ASSUME NEW c, NEW h \in Handler, Through(c)' \subseteq Through(c) \cup {h}
  PROVE  /\ Cardinality(Through(c)') \in Nat
         /\ Cardinality(Through(c)') <= Cardinality(Through(c)) + 1
<1> DEFINE old == Through(c)
           new == Through(c)'
<1>1. IsFiniteSet(old) /\ Cardinality(old) \in Nat
  BY ThroughAre
<1>2. new \subseteq old \cup {h}
  OBVIOUS
<1> HIDE DEF old, new
<1>3. /\ IsFiniteSet(old \cup {h})
      /\ Cardinality(old \cup {h}) \in Nat
      /\ Cardinality(old \cup {h}) <= Cardinality(old) + 1
  BY <1>1, FS_AddElement, FS_CardinalityType
<1>4. /\ Cardinality(new) \in Nat
      /\ Cardinality(new) <= Cardinality(old \cup {h})
  BY <1>2, <1>3, FS_Subset, FS_CardinalityType
<1> QED
  BY <1>1, <1>3, <1>4 DEF old, new

LEMMA OnceInit == BillingInit => OnceInv /\ AppliedInv
<1> SUFFICES ASSUME BillingInit PROVE OnceInv /\ AppliedInv
  OBVIOUS
<1>1. \A c \in Checkout : Through(c) = {} /\ payments[c] = 0 /\ slips[c] = 0
  BY DEF BillingInit, Through
<1> QED
  BY <1>1, PaystackTypeInit, FS_EmptySet DEF BillingInit, OnceInv, OnceOf, AppliedInv

\* A step that is no step of the webhook.
LEMMA Elsewhere ==
  ASSUME OnceInv, AppliedInv, PaystackTypeInv',
         UNCHANGED <<answered, events, payments, step, event, slips, lost>>
  PROVE  OnceInv' /\ AppliedInv'
BY DEF OnceInv, OnceOf, AppliedInv, DoneWith, Applying, Through, InFlight

\* What is recorded stays recorded, and what was done with stays so, as long as the
\* requests that apply go on or leave something behind.
LEMMA OnceStep == OnceInv /\ AppliedInv /\ [BillingNext]_allVars => OnceInv' /\ AppliedInv'
<1> SUFFICES ASSUME OnceInv, AppliedInv, [BillingNext]_allVars
             PROVE  OnceInv' /\ AppliedInv'
  OBVIOUS
<1>a. PaystackTypeInv' /\ PaystackTypeInv
  BY PaystackTypeStep DEF OnceInv
<1>b. /\ payments \in [Checkout -> Nat] /\ slips \in [Checkout -> Nat]
      /\ events \subseteq Checkout /\ lost \subseteq Checkout /\ answered \subseteq Checkout
      /\ step \in [Handler -> {"idle", "check", "record", "apply", "answer"}]
      /\ event \in [Handler -> Checkout \cup {NoCheckout}] /\ NoCheckout \notin Checkout
      /\ \A h \in Handler : step[h] # "idle" => event[h] \in Checkout
  BY <1>a, BillingAssumption
  DEF PaystackTypeInv, InHand, BillingTypeOK, TypeOK
<1>c. \A c : Cardinality(Through(c)) \in Nat
  BY ThroughAre
<1>d. ASSUME \A c \in Checkout : DoneWith(c) => DoneWith(c)',
             events' = events, answered' = answered,
             \A h \in Handler : step'[h] = "answer" => step[h] = "answer" /\ event'[h] = event[h]
      PROVE  AppliedInv'
  BY <1>b, <1>d DEF AppliedInv
<1>1. CASE Next /\ UNCHANGED <<checkoutVars, webhookVars>>
  BY <1>1, <1>a, Elsewhere DEF webhookVars, historyVars
<1>2. ASSUME NEW c \in Checkout,
             \/ \E i \in Invoice : OpenCheckout(c, i)
             \/ \E answer \in {"initialised", "dropped"} : InitTransaction(c, answer)
             \/ StampReference(c) \/ Pay(c)
      PROVE  OnceInv' /\ AppliedInv'
  BY <1>2, <1>a, Elsewhere DEF OpenCheckout, InitTransaction, StampReference, Pay,
                               webhookVars, historyVars
<1>3. CASE UNCHANGED allVars
  BY <1>3, <1>a, Elsewhere DEF allVars, webhookVars, historyVars
<1>4. ASSUME NEW h \in Handler, NEW e \in Checkout, Deliver(h, e)
      PROVE  OnceInv' /\ AppliedInv'
  <2>1. /\ step[h] = "idle" /\ UNCHANGED <<events, payments, answered, lost>>
        /\ step' = [step EXCEPT ![h] = "check"] /\ event' = [event EXCEPT ![h] = e]
        /\ slips' = [slips EXCEPT ![e] = IF InFlight(e) THEN @ + 1 ELSE @]
    BY <1>4 DEF Deliver, Slip
  <2>2. ASSUME NEW c \in Checkout PROVE OnceOf(c)'
    <3>1. CASE c \in events \/ c # e
      <4>1. Through(c)' \subseteq Through(c)
        BY <1>b, <2>1, <3>1 DEF Through
      <4>2. c \notin events => (InFlight(c)' <=> InFlight(c))
        BY <1>b, <2>1, <3>1 DEF InFlight
      <4>3. slips'[c] \in Nat /\ slips[c] <= slips'[c] /\ payments[c] \in Nat /\ slips[c] \in Nat
        BY <1>b, <2>1
      <4> QED
        BY <1>c, <2>1, <4>1, <4>2, <4>3, Fewer DEF OnceInv, OnceOf
    <3>2. CASE c \notin events /\ c = e
      <4>1. Through(c)' \subseteq Through(c) \cup {h}
        BY <1>b, <2>1 DEF Through
      <4>2. InFlight(c)'
        BY <1>b, <2>1, <3>2 DEF InFlight
      <4>3. /\ payments[c] \in Nat /\ slips[c] \in Nat
            /\ slips'[c] = IF InFlight(c) THEN slips[c] + 1 ELSE slips[c]
        BY <1>b, <2>1, <3>2
      <4> QED
        BY <1>c, <2>1, <3>2, <4>1, <4>2, <4>3, OneMore DEF OnceInv, OnceOf
    <3> QED
      BY <3>1, <3>2
  <2>3. AppliedInv'
    BY <1>b, <1>d, <2>1 DEF DoneWith, Applying
  <2> QED
    BY <1>a, <2>2, <2>3 DEF OnceInv
<1>5. ASSUME NEW h \in Handler, CheckEvent(h)
      PROVE  OnceInv' /\ AppliedInv'
  <2> DEFINE e == event[h]
  <2>1. /\ step[h] = "check" /\ e \in Checkout
        /\ UNCHANGED <<events, payments, event, answered, lost>>
    BY <1>b, <1>5 DEF CheckEvent, HandlerGoto
  <2>2. \/ /\ slips' = slips
           /\ step' = [step EXCEPT ![h] = IF e \in events THEN "answer" ELSE "record"]
        \/ /\ slips' = [slips EXCEPT ![e] = IF e \in events THEN @ + 1 ELSE @]
           /\ step' = [step EXCEPT ![h] = "record"]
    BY <1>5 DEF CheckEvent, HandlerGoto, Slip
  <2>3. ASSUME NEW c \in Checkout PROVE OnceOf(c)'
    <3>1. c \notin events => (InFlight(c)' <=> InFlight(c))
      BY <1>b, <2>1, <2>2 DEF InFlight
    <3>2. payments[c] \in Nat /\ slips[c] \in Nat /\ slips'[c] \in Nat /\ slips[c] <= slips'[c]
      BY <1>b, <2>2
    <3>3. CASE Through(c)' \subseteq Through(c)
      BY <1>c, <2>1, <3>1, <3>2, <3>3, Fewer DEF OnceInv, OnceOf
    <3>4. CASE c = e /\ c \in events /\ slips'[c] = slips[c] + 1
      <4>1. Through(c)' \subseteq Through(c) \cup {h}
        BY <1>b, <2>1, <2>2 DEF Through
      <4> QED
        BY <1>c, <2>1, <3>2, <3>4, <4>1, OneMore DEF OnceInv, OnceOf
    <3>5. Through(c)' \subseteq Through(c) \/ (c = e /\ c \in events /\ slips'[c] = slips[c] + 1)
      BY <1>b, <2>1, <2>2 DEF Through
    <3> QED
      BY <3>3, <3>4, <3>5
  <2>4. \A c \in Checkout : DoneWith(c) => DoneWith(c)'
    BY <1>b, <2>1, <2>2 DEF DoneWith, Applying
  <2>5. \A g \in Handler : step'[g] = "answer" =>
            event'[g] = event[g] /\ (step[g] = "answer" \/ event[g] \in events)
    BY <1>b, <2>1, <2>2
  <2>6. AppliedInv'
    BY <1>b, <2>1, <2>4, <2>5 DEF AppliedInv
  <2> QED
    BY <1>a, <2>3, <2>6 DEF OnceInv
<1>6. ASSUME NEW h \in Handler, RecordEvent(h)
      PROVE  OnceInv' /\ AppliedInv'
  <2> DEFINE e == event[h]
  <2>1. /\ step[h] = "record" /\ e \in Checkout
        /\ step' = [step EXCEPT ![h] = "apply"]
        /\ UNCHANGED <<payments, event, answered, lost>>
    BY <1>b, <1>6 DEF RecordEvent, HandlerGoto
  <2>2. \/ events' = events \cup {e} /\ slips' = slips
        \/ events' = events /\ slips' = [slips EXCEPT ![e] = IF e \notin events THEN @ + 1 ELSE @]
    BY <1>6 DEF RecordEvent, Slip
  <2>3. ASSUME NEW c \in Checkout PROVE OnceOf(c)'
    <3>1. Through(c)' \subseteq Through(c)
      BY <1>b, <2>1, <2>2 DEF Through
    <3>2. payments[c] \in Nat /\ slips[c] \in Nat /\ slips'[c] \in Nat /\ slips[c] <= slips'[c]
      BY <1>b, <2>2
    <3>3. c \notin events' => \/ InFlight(c)' <=> InFlight(c)
                              \/ slips'[c] = slips[c] + 1
      BY <1>b, <2>1, <2>2 DEF InFlight
    <3>4. c \notin events' => c \notin events
      BY <2>2
    <3> QED
      BY <1>c, <2>1, <3>1, <3>2, <3>3, <3>4, Fewer DEF OnceInv, OnceOf
  <2>4. \A c \in Checkout : DoneWith(c) => DoneWith(c)'
    BY <1>b, <2>1 DEF DoneWith, Applying
  <2>5. DoneWith(e)'
    BY <1>b, <2>1 DEF DoneWith, Applying
  <2>6. \A g \in Handler : step'[g] = "answer" => step[g] = "answer" /\ event'[g] = event[g]
    BY <1>b, <2>1
  <2>7. events' \subseteq events \cup {e}
    BY <2>2
  <2>8. AppliedInv'
    BY <1>b, <2>1, <2>4, <2>5, <2>6, <2>7 DEF AppliedInv
  <2> QED
    BY <1>a, <2>3, <2>8 DEF OnceInv
<1>7. ASSUME NEW h \in Handler, ApplyCharge(h)
      PROVE  OnceInv' /\ AppliedInv'
  <2> DEFINE e == event[h]
  <2>1. /\ step[h] = "apply" /\ e \in Checkout
        /\ step' = [step EXCEPT ![h] = "answer"]
        /\ UNCHANGED <<events, event, answered, slips>>
    BY <1>b, <1>7 DEF ApplyCharge, HandlerGoto
  <2>2. \/ payments' = [payments EXCEPT ![e] = @ + 1] /\ lost' = lost
        \/ payments' = payments /\ lost' = lost \cup {e}
    BY <1>7 DEF ApplyCharge
  <2>3. ASSUME NEW c \in Checkout PROVE OnceOf(c)'
    <3>1. Through(c)' \subseteq Through(c) /\ (c = e => h \in Through(c) \ Through(c)')
      BY <1>b, <2>1 DEF Through
    <3>2. /\ payments[c] \in Nat /\ slips[c] \in Nat
          /\ payments'[c] = payments[c] \/ (c = e /\ payments'[c] = payments[c] + 1)
      BY <1>b, <2>2
    <3>3. InFlight(c)' <=> InFlight(c)
      BY <1>b, <2>1 DEF InFlight
    <3> QED
      BY <1>c, <2>1, <3>1, <3>2, <3>3, Fewer DEF OnceInv, OnceOf
  <2>4. \A c \in Checkout : DoneWith(c) => DoneWith(c)'
    BY <1>b, <2>1, <2>2 DEF DoneWith, Applying
  <2>5. DoneWith(e)'
    BY <1>b, <2>1, <2>2 DEF DoneWith
  <2>6. AppliedInv'
    BY <1>b, <2>1, <2>4, <2>5 DEF AppliedInv
  <2> QED
    BY <1>a, <2>3, <2>6 DEF OnceInv
<1>8. ASSUME NEW h \in Handler, Answer(h) \/ HandlerCrash(h)
      PROVE  OnceInv' /\ AppliedInv'
  <2> DEFINE e == event[h]
  <2>1. /\ step[h] # "idle" /\ e \in Checkout
        /\ step' = [step EXCEPT ![h] = "idle"]
        /\ event' = [event EXCEPT ![h] = NoCheckout]
        /\ UNCHANGED <<events, payments, slips>>
        /\ answered' = answered \/ (step[h] = "answer" /\ answered' = answered \cup {e})
        /\ lost' = IF step[h] = "apply" THEN lost \cup {e} ELSE lost
    BY <1>b, <1>8 DEF Answer, HandlerCrash, HandlerGoto, historyVars
  <2>2. ASSUME NEW c \in Checkout PROVE OnceOf(c)'
    <3>1. Through(c)' \subseteq Through(c)
      BY <1>b, <2>1 DEF Through
    <3>2. payments[c] \in Nat /\ slips[c] \in Nat
      BY <1>b
    <3>3. c \notin events => \/ InFlight(c)' <=> InFlight(c)
                             \/ h \in Through(c) \ Through(c)'
      BY <1>b, <2>1 DEF InFlight, Through
    <3> QED
      BY <1>c, <2>1, <3>1, <3>2, <3>3, Fewer DEF OnceInv, OnceOf
  <2>3. \A c \in Checkout : DoneWith(c) => DoneWith(c)'
    BY <1>b, <2>1 DEF DoneWith, Applying
  <2>4. step[h] = "answer" => DoneWith(e)
    BY DEF AppliedInv
  <2>5. \A g \in Handler : step'[g] = "answer" => step[g] = "answer" /\ event'[g] = event[g]
    BY <1>b, <2>1
  <2>6. AppliedInv'
    BY <1>b, <2>1, <2>3, <2>4, <2>5 DEF AppliedInv
  <2> QED
    BY <1>a, <2>2, <2>6 DEF OnceInv
<1> QED
  BY <1>1, <1>2, <1>3, <1>4, <1>5, <1>6, <1>7, <1>8 DEF BillingNext

\* However many requests deliver an event at a time, and whatever fails or crashes
\* between the check, the record and the payment, there is one payment and at most
\* one more for each that slipped through; and what was answered has its payment,
\* unless it was lost after the record, or it is about to come.
THEOREM PaidOnce == BillingSpec => []AppliedOnce
<1>1. OnceInv /\ AppliedInv => AppliedOnce
  <2> SUFFICES ASSUME OnceInv, AppliedInv, NEW c \in Checkout
               PROVE  payments[c] <= 1 + slips[c] /\ (c \in answered => DoneWith(c))
    BY DEF AppliedOnce, DoneWith, Applying
  <2>1. payments[c] \in Nat /\ slips[c] \in Nat /\ Cardinality(Through(c)) \in Nat
    BY ThroughAre DEF OnceInv, PaystackTypeInv, BillingTypeOK
  <2> QED
    BY <2>1 DEF OnceInv, OnceOf, AppliedInv
<1> QED
  BY <1>1, OnceInit, OnceStep, PTL DEF BillingSpec
=============================================================================
