------------------------------ MODULE Billing ------------------------------
(***************************************************************************)
(* The billing of an org: the scheduler of BillingScheduler and, on the    *)
(* same tables, the checkout and the webhook of ee/billing/paystack.go.    *)
(*                                                                         *)
(* A member of Checkout is one transaction at Paystack: an owner opens it, *)
(* may pay it at any later time, and Paystack then delivers charge.success *)
(* until it is answered, possibly more than once.  A member of Handler is  *)
(* a webhook request in the server.                                        *)
(*                                                                         *)
(* Left out: signature and parsing (a delivery here is genuine), amounts   *)
(* and exchange rates, wallet top-ups, the verify route.                   *)
(***************************************************************************)
EXTENDS BillingScheduler

CONSTANTS
  Checkout,       \* Paystack transactions
  Handler,        \* webhook requests
  NoCheckout,     \* the event of an idle handler
  MaxDeliveries,  \* bound: deliveries of one event
  FaultKinds      \* faults of the webhook: "crash", "statement", "answer"

ASSUME BillingAssumption ==
  /\ NoCheckout \notin Checkout
  /\ MaxDeliveries \in Nat
  /\ FaultKinds \subseteq {"crash", "statement", "answer"}
  /\ IsFiniteSet(Handler)

VARIABLES
  stage,       \* of a checkout
  invoice,     \* the invoice a checkout created
  deliveries,  \* how often Paystack sent the checkout's event
  answered,    \* the events Paystack has an answer to
  events,      \* the rows of paystack_events
  payments,    \* payments rows per checkout
  paidOn,      \* the day of the last payments row
  step, event, \* progress of a webhook request, and its event
  slips,       \* history: requests that could pass a check another should have failed
  lost         \* history: events that were recorded and then not processed

checkoutVars == <<stage, invoice>>
historyVars  == <<slips, lost>>
webhookVars  == <<deliveries, answered, events, payments, paidOn, step, event, historyVars>>
allVars      == <<vars, checkoutVars, webhookVars>>

BillingTypeOK ==
  /\ TypeOK
  /\ stage \in [Checkout -> {"none", "opened", "initialised", "offered", "dropped", "paid"}]
  /\ invoice \in [Checkout -> Invoice \cup {NoInvoice}]
  /\ deliveries \in [Checkout -> 0..MaxDeliveries]
  /\ answered \subseteq Checkout
  /\ events \subseteq Checkout
  /\ payments \in [Checkout -> Nat]
  /\ paidOn \in Day \cup {NoDay}
  /\ step \in [Handler -> {"idle", "check", "record", "apply", "answer"}]
  /\ event \in [Handler -> Checkout \cup {NoCheckout}]
  /\ slips \in [Checkout -> Nat]
  /\ lost \subseteq Checkout

BillingInit ==
  /\ Init
  /\ stage = [c \in Checkout |-> "none"]
  /\ invoice = [c \in Checkout |-> NoInvoice]
  /\ deliveries = [c \in Checkout |-> 0]
  /\ answered = {}
  /\ events = {}
  /\ payments = [c \in Checkout |-> 0]
  /\ paidOn = NoDay
  /\ step = [h \in Handler |-> "idle"]
  /\ event = [h \in Handler |-> NoCheckout]
  /\ slips = [c \in Checkout |-> 0]
  /\ lost = {}

\* UpsertSubscription on a row that exists: billing_status, dunning_attempts,
\* next_retry_at and current_period_start are not in its SET list.
UpsertSubscription(end) == sub' = [sub EXCEPT !.end = end]

-----------------------------------------------------------------------------
(* handleCheckout *)

\* The first transaction.  A second invoice of the period is rejected by the
\* index, and the transaction changes nothing.
OpenCheckout(c, i) ==
  /\ stage[c] = "none"
  /\ CreateInvoice(i, today, today + Month, FALSE)
  /\ UpsertSubscription(today + Month)
  /\ stage' = [stage EXCEPT ![c] = "opened"]
  /\ invoice' = [invoice EXCEPT ![c] = i]
  /\ UNCHANGED <<workProduct, schedVars, auxVars, webhookVars>>

\* POST /transaction/initialize; if it fails the request ends there.
InitTransaction(c, answer) ==
  /\ stage[c] = "opened"
  /\ stage' = [stage EXCEPT ![c] = answer]
  /\ UNCHANGED <<vars, invoice, webhookVars>>

\* SetInvoiceCharge with the reference: the status becomes open whatever it was.
\* Its error is ignored, and the owner gets the authorization URL.
StampReference(c) ==
  /\ stage[c] = "initialised"
  /\ \/ inv' = [inv EXCEPT ![invoice[c]].status = "open"] /\ UNCHANGED faults
     \/ "statement" \in FaultKinds /\ Fault /\ UNCHANGED inv
  /\ stage' = [stage EXCEPT ![c] = "offered"]
  /\ UNCHANGED <<sub, workProduct, schedVars, today, charged, unpaidSince, owed,
                 lastSweep, invoice, webhookVars>>

\* External: the owner pays at Paystack.
Pay(c) ==
  /\ stage[c] = "offered"
  /\ stage' = [stage EXCEPT ![c] = "paid"]
  /\ UNCHANGED <<vars, invoice, webhookVars>>

-----------------------------------------------------------------------------
(* handleWebhook *)

\* Of the event of c, nothing is recorded yet although a request has it in hand.
InFlight(c) ==
  c \notin events /\ \E h \in Handler : event[h] = c /\ step[h] \in {"check", "record"}

\* The table of events lets one more request of c through than it should, or will.
Slip(c, really) == slips' = [slips EXCEPT ![c] = IF really THEN @ + 1 ELSE @]

\* External: Paystack delivers charge.success until it has an answer.
Deliver(h, c) ==
  /\ stage[c] = "paid"
  /\ step[h] = "idle"
  /\ c \notin answered
  /\ deliveries[c] < MaxDeliveries
  /\ deliveries' = [deliveries EXCEPT ![c] = @ + 1]
  /\ step' = [step EXCEPT ![h] = "check"]
  /\ event' = [event EXCEPT ![h] = c]
  /\ Slip(c, InFlight(c))
  /\ UNCHANGED <<vars, checkoutVars, answered, events, payments, paidOn, lost>>

HandlerGoto(h, from, to) == step[h] = from /\ step' = [step EXCEPT ![h] = to]

\* Mutant: the duplicate check is gone.
CheckEventNever(h) ==
  /\ HandlerGoto(h, "check", "record")
  /\ UNCHANGED <<vars, checkoutVars, deliveries, answered, events, payments, paidOn,
                 event, historyVars>>

\* IsPaystackEventProcessed; when the check fails the handler proceeds.
CheckEvent(h) ==
  /\ \/ HandlerGoto(h, "check", IF event[h] \in events THEN "answer" ELSE "record")
        /\ UNCHANGED <<faults, slips>>
     \/ /\ HandlerGoto(h, "check", "record")
        /\ "statement" \in FaultKinds /\ Fault
        /\ Slip(event[h], event[h] \in events)
  /\ UNCHANGED <<storeVars, schedVars, today, charged, unpaidSince, owed, lastSweep,
                 checkoutVars, deliveries, answered, events, payments, paidOn, event, lost>>

\* RecordPaystackEvent, before the event is processed; its error is logged.
RecordEvent(h) ==
  /\ HandlerGoto(h, "record", "apply")
  /\ \/ events' = events \cup {event[h]} /\ UNCHANGED <<faults, slips>>
     \/ /\ "statement" \in FaultKinds /\ Fault
        /\ Slip(event[h], event[h] \notin events)
        /\ UNCHANGED events
  /\ UNCHANGED <<storeVars, schedVars, today, charged, unpaidSince, owed, lastSweep,
                 checkoutVars, deliveries, answered, payments, paidOn, event, lost>>

\* handleChargeSuccess: one transaction, whose error is logged.
ApplyCharge(h) ==
  LET c == event[h] IN
  /\ HandlerGoto(h, "apply", "answer")
  /\ \/ /\ MarkInvoicePaid(invoice[c])
        /\ UpsertSubscription(today + Month)
        /\ payments' = [payments EXCEPT ![c] = @ + 1]
        /\ paidOn' = today
        /\ UNCHANGED <<faults, lost>>
     \/ /\ "statement" \in FaultKinds
        /\ Fault
        /\ lost' = lost \cup {c}
        /\ UNCHANGED <<sub, inv, payments, paidOn>>
  /\ UNCHANGED <<workProduct, schedVars, today, charged, unpaidSince, owed, lastSweep,
                 checkoutVars, deliveries, answered, events, event, slips>>

\* 200 in every case; it may not reach Paystack.
Answer(h) ==
  /\ HandlerGoto(h, "answer", "idle")
  /\ event' = [event EXCEPT ![h] = NoCheckout]
  /\ \/ answered' = answered \cup {event[h]} /\ UNCHANGED faults
     \/ "answer" \in FaultKinds /\ Fault /\ UNCHANGED answered
  /\ UNCHANGED <<storeVars, schedVars, today, charged, unpaidSince, owed, lastSweep,
                 checkoutVars, deliveries, events, payments, paidOn, historyVars>>

\* The process that serves the request ends.
HandlerCrash(h) ==
  /\ step[h] # "idle"
  /\ "crash" \in FaultKinds
  /\ Fault
  /\ step' = [step EXCEPT ![h] = "idle"]
  /\ event' = [event EXCEPT ![h] = NoCheckout]
  /\ lost' = IF step[h] = "apply" THEN lost \cup {event[h]} ELSE lost
  /\ UNCHANGED <<storeVars, schedVars, today, charged, unpaidSince, owed, lastSweep,
                 checkoutVars, deliveries, answered, events, payments, paidOn, slips>>

-----------------------------------------------------------------------------

BillingNext ==
  \/ Next /\ UNCHANGED <<checkoutVars, webhookVars>>
  \/ \E c \in Checkout, i \in Invoice : OpenCheckout(c, i)
  \/ \E c \in Checkout, answer \in {"initialised", "dropped"} : InitTransaction(c, answer)
  \/ \E c \in Checkout : StampReference(c) \/ Pay(c)
  \/ \E h \in Handler, c \in Checkout : Deliver(h, c)
  \/ \E h \in Handler :
       CheckEvent(h) \/ RecordEvent(h) \/ ApplyCharge(h) \/ Answer(h) \/ HandlerCrash(h)

BillingSpec == BillingInit /\ [][BillingNext]_allVars

-----------------------------------------------------------------------------
(* Properties *)

\* An invoice is paid only if its money has moved, by the Charger or by an owner
\* at Paystack, whichever of them the other one interrupts (Settle,
\* handleChargeSuccess, SetInvoiceCharge).
PaidIsBacked ==
  \A i \in Invoice :
    inv[i].status = "paid" =>
      i \in charged \/ \E c \in Checkout : invoice[c] = i /\ stage[c] = "paid"

\* A payment is recorded once although its event is delivered again, and once more
\* only for each delivery that came while another had read that nothing is recorded
\* and had not recorded it, for each check of a recorded event that failed, and for
\* each record that failed.  What was answered has its payment, unless what was to
\* record it, after the event was, failed or ended (handleWebhook).
AppliedOnce ==
  \A c \in Checkout :
    /\ payments[c] <= 1 + slips[c]
    /\ c \in answered =>
         \/ payments[c] >= 1
         \/ c \in lost
         \/ \E h \in Handler : step[h] = "apply" /\ event[h] = c

-----------------------------------------------------------------------------
(* What the comments say, and the code does not do *)

\* scheduler.go, DunningCancelDay: "the day-offset at which a still-unpaid org is
\* canceled and its work-product data is PURGED".  dunOrg cancels at that day
\* before it looks for a payment.
CancelOnlyUnpaid == [][Canceling => paidOn <= unpaidSince]_allVars

\* scheduler.go, dunOrg: "No outstanding invoice (already paid out-of-band) ->
\* recover".  A checkout that is only opened moves current_period_end, and the
\* retry looks for an invoice of a period that never was.
RecoveredIsPaid ==
  [][sub.status \in Dunning /\ sub'.status = "active" =>
       inv'[owed].status = "paid" \/ paidOn >= unpaidSince]_allVars

\* paystack.go, handleWebhook: "Record event before processing (at-least-once
\* delivery; handlers are idempotent)".  An event that was recorded and not
\* processed is skipped when it is delivered again.
AnsweredIsApplied == \A c \in answered : payments[c] >= 1
=============================================================================
