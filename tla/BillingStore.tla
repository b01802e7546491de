---------------------------- MODULE BillingStore ----------------------------
(***************************************************************************)
(* The billing tables of one org and the statements of                     *)
(* internal/store/lifecycle.go and internal/store/billing.go on them.  The *)
(* tables are org-scoped (row level security), so orgs do not interact.    *)
(*                                                                         *)
(* Time is counted in days: invoices.period_start and period_end are DATE  *)
(* columns, and the dunning offsets are days.  A calendar month is Month   *)
(* days, whichever month it is.                                            *)
(*                                                                         *)
(* sub is the subscriptions row: billing_status, dunning_attempts,         *)
(* next_retry_at, current_period_start and current_period_end.  Left out:  *)
(* suspended_at, canceled_at and the legacy status column, which no code   *)
(* of the lifecycle reads, the plan, and amounts beyond being zero.        *)
(***************************************************************************)
EXTENDS Integers, FiniteSets

CONSTANTS
  Month,       \* days of a billing period
  MaxInvoices  \* bound: rows of the invoices table

ASSUME BillingStoreAssumption == Month \in Nat \ {0} /\ MaxInvoices \in Nat

VARIABLES
  sub,       \* the org's subscriptions row
  inv,       \* the org's invoices rows
  workProduct  \* are the rows of purgeTables there

storeVars == <<sub, inv, workProduct>>

NoDay == -1          \* NULL in a timestamp column
Day   == Nat
Invoice   == 1..MaxInvoices  \* rows, in the order of their insertion
NoInvoice == 0               \* no invoice in hand
Dunning == {"past_due", "suspended"}

Row ==
  [status: {"active", "canceled"} \cup Dunning, attempts: Nat,
   retry: Day \cup {NoDay}, start: Day \cup {NoDay}, end: Day]

\* "open" stands for the statuses draft and open, which every query of the
\* lifecycle treats alike; "none" is a row that was not inserted yet.
InvoiceRow ==
  [status: {"none", "open", "paid"}, start: Int, end: Int, zero: BOOLEAN]

StoreTypeOK ==
  /\ sub \in Row
  /\ inv \in [Invoice -> InvoiceRow]
  /\ workProduct \in BOOLEAN

-----------------------------------------------------------------------------
(* Reads *)

\* The billing period of a subscription row; a NULL current_period_start falls
\* back to a month before the end.
PeriodStart(r) == IF r.start = NoDay THEN r.end - Month ELSE r.start

Covers(i, start, end) == inv[i].start = start /\ inv[i].end = end

InvoiceExistsForPeriod(start, end) ==
  \E i \in Invoice : inv[i].status # "none" /\ Covers(i, start, end)

\* The rows GetOpenInvoiceForPeriod may return.
OpenInvoices(start, end) ==
  {i \in Invoice : inv[i].status = "open" /\ Covers(i, start, end)}

\* The next row to insert.
Fresh(i) ==
  inv[i].status = "none" /\ \A j \in 1..(i - 1) : inv[j].status # "none"

DueForBilling(now) == sub.status = "active" /\ sub.end <= now

DueForRetry(now) ==
  sub.status \in Dunning /\ sub.retry # NoDay /\ sub.retry <= now

-----------------------------------------------------------------------------
(* Writes *)

\* Mutant: the table without invoices_org_period_uniq.
CreateInvoiceNoIndex(i, start, end, zero) ==
  /\ Fresh(i)
  /\ inv' = [inv EXCEPT ![i] =
               [status |-> "open", start |-> start, end |-> end, zero |-> zero]]

\* INSERT INTO invoices.  invoices_org_period_uniq rejects a second row of the
\* period (the void status is left out with ReverseInvoice, which nothing calls).
CreateInvoice(i, start, end, zero) ==
  /\ Fresh(i)
  /\ ~ InvoiceExistsForPeriod(start, end)
  /\ inv' = [inv EXCEPT ![i] =
               [status |-> "open", start |-> start, end |-> end, zero |-> zero]]

MarkInvoicePaid(i) == inv' = [inv EXCEPT ![i].status = "paid"]

\* Mutant: a success does not clear the dunning state.
MarkBillingSuccessStale(start, end) ==
  sub' = [sub EXCEPT !.start = start, !.end = end]

\* Whatever the row says: the UPDATE's only condition is the org.
MarkBillingSuccess(start, end) ==
  sub' = [status |-> "active", attempts |-> 0, retry |-> NoDay,
          start |-> start, end |-> end]

EnterPastDue(attempts, retry) ==
  sub' = [sub EXCEPT !.status = "past_due", !.attempts = attempts, !.retry = retry]

ScheduleNextRetry(attempts, retry) ==
  sub' = [sub EXCEPT !.attempts = attempts, !.retry = retry]

\* Mutant: next_retry_at is cleared by the suspension.
SuspendUnscheduled(attempts, retry) ==
  sub' = [sub EXCEPT !.status = "suspended", !.attempts = attempts, !.retry = NoDay]

Suspend(attempts, retry) ==
  sub' = [sub EXCEPT !.status = "suspended", !.attempts = attempts, !.retry = retry]

Cancel == sub' = [sub EXCEPT !.status = "canceled", !.retry = NoDay]

PurgeOrgData == workProduct' = FALSE
=============================================================================
