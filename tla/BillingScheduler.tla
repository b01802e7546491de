-------------------------- MODULE BillingScheduler --------------------------
(***************************************************************************)
(* The billing lifecycle engine of internal/billing/scheduler.go.  A       *)
(* member of Sched is the loop of one server process (StartLoop); every    *)
(* process that is up has one, and nothing keeps two of them apart but the *)
(* statements of BillingStore.                                             *)
(*                                                                         *)
(* A sweep (Run) captures now, scans for an active org whose period ended  *)
(* and bills it (billOrg), then scans for an org whose retry is due and    *)
(* duns it (dunOrg).  The scan copies the subscriptions row, and the org   *)
(* is processed from that copy, one transaction or charge at a time.       *)
(*                                                                         *)
(* The Charger is external (main.go passes nil, tests pass a fake): it is  *)
(* modelled by its contract, a charge that moves the money of an invoice   *)
(* once and may still answer with an error.                                *)
(***************************************************************************)
EXTENDS BillingStore

CONSTANTS
  Sched,      \* scheduler loops
  MaxDay,     \* bound: the last day
  MaxGap,     \* bound: days from one sweep that went through to the next
  MaxSweep,   \* bound: days from the start of a sweep to its end
  MaxFaults   \* bound: failed statements and crashes

ASSUME BillingSchedulerAssumption ==
  /\ MaxDay \in Nat
  /\ MaxGap \in Nat \ {0}
  /\ MaxSweep \in Nat
  /\ MaxFaults \in Nat

VARIABLES
  today,
  pc, now, row, bill, clean,  \* progress and locals of each loop
  charged,                    \* invoices the Charger moved money for
  unpaidSince, owed,          \* first failed charge of the last dunning: day, invoice
  lastSweep,                  \* now of the last sweep with no error
  faults

schedVars == <<pc, now, row, bill, clean>>
auxVars   == <<today, charged, unpaidSince, owed, lastSweep, faults>>
vars      == <<storeVars, schedVars, auxVars>>

-----------------------------------------------------------------------------
(* The dunning schedule *)

SuspendDay == 7
CancelDay  == 14

\* currentDunningDay: the day, from the first failure, of an attempt.
DunningDay(n) ==
  CASE n <= 0 -> 0 [] n = 1 -> 1 [] n = 2 -> 3 [] n = 3 -> 5 [] n = 4 -> 7
    [] OTHER -> CancelDay

-----------------------------------------------------------------------------

NoRow == [status |-> "active", attempts |-> 0, retry |-> NoDay,
          start |-> NoDay, end |-> 0]

Steps ==
  {"idle", "check", "load", "generate", "charge", "settle", "refused",
   "advance", "rescan", "overdue", "recharge", "recover", "resettle",
   "escalate", "done"}

TypeOK ==
  /\ StoreTypeOK
  /\ today \in 0..MaxDay
  /\ pc \in [Sched -> Steps]
  /\ now \in [Sched -> Day]
  /\ row \in [Sched -> Row]
  /\ bill \in [Sched -> Invoice \cup {NoInvoice}]
  /\ clean \in [Sched -> BOOLEAN]
  /\ charged \subseteq Invoice
  /\ unpaidSince \in Day
  /\ owed \in Invoice \cup {NoInvoice}
  /\ lastSweep \in Day
  /\ faults \in 0..MaxFaults

\* An org on its first period, whose start is recorded or not, with or without
\* the invoice a checkout created, paid or abandoned.
Init ==
  /\ sub \in {[NoRow EXCEPT !.start = s, !.end = Month] : s \in {NoDay, 0}}
  /\ \E st \in {"none", "open", "paid"} :
       inv = [i \in Invoice |->
                IF i = 1 THEN [status |-> st, start |-> 0, end |-> Month, zero |-> FALSE]
                         ELSE [status |-> "none", start |-> 0, end |-> 0, zero |-> FALSE]]
  /\ workProduct = TRUE
  /\ today = 0
  /\ pc = [s \in Sched |-> "idle"]
  /\ now = [s \in Sched |-> 0]
  /\ row = [s \in Sched |-> NoRow]
  /\ bill = [s \in Sched |-> NoInvoice]
  /\ clean = [s \in Sched |-> TRUE]
  /\ charged = {i \in Invoice : inv[i].status = "paid"}
  /\ unpaidSince = 0
  /\ owed = NoInvoice
  /\ lastSweep = 0
  /\ faults = 0

At(s, step)   == pc[s] = step
Goto(s, step) == pc' = [pc EXCEPT ![s] = step]

Start(s) == PeriodStart(row[s])
End(s)   == row[s].end

Step(s, from, to) == At(s, from) /\ Goto(s, to)

Fault == faults < MaxFaults /\ faults' = faults + 1

-----------------------------------------------------------------------------
(* RunBillingCycle *)

\* Run and the scan of RunBillingCycle; an error of the scan is logged.
ScanBilling(s) ==
  /\ At(s, "idle")
  /\ now' = [now EXCEPT ![s] = today]
  /\ \/ /\ IF DueForBilling(today)
           THEN Goto(s, "check") /\ row' = [row EXCEPT ![s] = sub]
           ELSE Goto(s, "rescan") /\ UNCHANGED row
        /\ UNCHANGED <<clean, faults>>
     \/ /\ Fault
        /\ Goto(s, "rescan")
        /\ clean' = [clean EXCEPT ![s] = FALSE]
        /\ UNCHANGED row
  /\ UNCHANGED <<storeVars, bill, today, charged, unpaidSince, owed, lastSweep>>

CheckInvoice(s) ==
  /\ At(s, "check")
  /\ Goto(s, IF InvoiceExistsForPeriod(Start(s), End(s)) THEN "load" ELSE "generate")
  /\ UNCHANGED <<storeVars, now, row, bill, clean, auxVars>>

\* With the invoice in hand: a $0 invoice needs no charge.
Take(s, i, zero) ==
  /\ bill' = [bill EXCEPT ![s] = i]
  /\ Goto(s, IF zero THEN "advance" ELSE "charge")

\* GetOpenInvoiceForPeriod of billOrg; none outstanding means it was paid.
LoadOpenInvoice(s) ==
  /\ At(s, "load")
  /\ \/ \E i \in OpenInvoices(Start(s), End(s)) : Take(s, i, inv[i].zero)
     \/ OpenInvoices(Start(s), End(s)) = {} /\ Goto(s, "advance") /\ UNCHANGED bill
  /\ UNCHANGED <<storeVars, now, row, clean, auxVars>>

GenerateInvoice(s, i, zero) ==
  /\ At(s, "generate")
  /\ CreateInvoice(i, Start(s), End(s), zero)
  /\ Take(s, i, zero)
  /\ UNCHANGED <<sub, workProduct, now, row, clean, auxVars>>

\* The unique index rejects the insert: another loop was faster.  The error is
\* logged and the org is left for the next sweep.
GenerateRejected(s) ==
  /\ At(s, "generate")
  /\ InvoiceExistsForPeriod(Start(s), End(s))
  /\ Goto(s, "rescan")
  /\ clean' = [clean EXCEPT ![s] = FALSE]
  /\ UNCHANGED <<storeVars, now, row, bill, auxVars>>

\* Mutant: the error of the charge is not looked at.
ChargeErrorIgnored(s, from, ok, failed) ==
  /\ At(s, from)
  /\ charged' \in {charged, charged \cup {bill[s]}}
  /\ Goto(s, ok)
  /\ UNCHANGED <<storeVars, now, row, bill, clean, today, unpaidSince, owed, lastSweep,
                 faults>>

\* Charger.Charge: the money moves or not, and the answer is nil or an error.  A
\* replay for a charged invoice moves nothing; nil says that money has moved.
Charge(s, from, ok, failed) ==
  /\ At(s, from)
  /\ charged' \in {charged, charged \cup {bill[s]}}
  /\ \/ bill[s] \in charged' /\ Goto(s, ok)
     \/ Goto(s, failed)
  /\ UNCHANGED <<storeVars, now, row, bill, clean, today, unpaidSince, owed, lastSweep,
                 faults>>

ChargeNew(s) == Charge(s, "charge", "settle", "refused")

\* Mutant: the period moves on but the invoice is left open.
SettleUnmarked(s, from, to) ==
  /\ Step(s, from, to)
  /\ MarkBillingSuccess(End(s), End(s) + Month)
  /\ UNCHANGED <<inv, workProduct, now, row, bill, clean, auxVars>>

\* One transaction: the invoice is paid and the period moves on.
SettleFrom(s, from, to) ==
  /\ Step(s, from, to)
  /\ MarkInvoicePaid(bill[s])
  /\ MarkBillingSuccess(End(s), End(s) + Month)
  /\ UNCHANGED <<workProduct, now, row, bill, clean, auxVars>>

Settle(s) == SettleFrom(s, "settle", "rescan")

\* advancePeriodOnly, and recover of dunOrg.
AdvanceFrom(s, from, to) ==
  /\ Step(s, from, to)
  /\ MarkBillingSuccess(End(s), End(s) + Month)
  /\ UNCHANGED <<inv, workProduct, now, row, bill, clean, auxVars>>

AdvancePeriodOnly(s) == AdvanceFrom(s, "advance", "rescan")

EnterDunning(s) ==
  /\ Step(s, "refused", "rescan")
  /\ EnterPastDue(1, now[s] + DunningDay(1))
  /\ IF sub.status \in Dunning
     THEN UNCHANGED <<unpaidSince, owed>>
     ELSE unpaidSince' = now[s] /\ owed' = bill[s]
  /\ UNCHANGED <<inv, workProduct, now, row, bill, clean, today, charged, lastSweep,
                 faults>>

-----------------------------------------------------------------------------
(* RunDunning *)

ScanDunning(s) ==
  /\ At(s, "rescan")
  /\ IF DueForRetry(now[s])
     THEN Goto(s, "overdue") /\ row' = [row EXCEPT ![s] = sub]
     ELSE Goto(s, "done") /\ UNCHANGED row
  /\ bill' = [bill EXCEPT ![s] = NoInvoice]
  /\ UNCHANGED <<storeVars, now, clean, auxVars>>

Elapsed(s) == DunningDay(row[s].attempts)

\* cancelAndPurge, in one transaction, before the invoice is looked at.
CancelAndPurge(s) ==
  /\ At(s, "overdue")
  /\ Elapsed(s) >= CancelDay
  /\ Cancel
  /\ PurgeOrgData
  /\ Goto(s, "done")
  /\ UNCHANGED <<inv, now, row, bill, clean, auxVars>>

\* GetOpenInvoiceForPeriod of dunOrg; with none outstanding the org recovers.
LoadOverdueInvoice(s) ==
  /\ At(s, "overdue")
  /\ Elapsed(s) < CancelDay
  /\ \/ \E i \in OpenInvoices(Start(s), End(s)) :
          bill' = [bill EXCEPT ![s] = i] /\ Goto(s, "recharge")
     \/ /\ OpenInvoices(Start(s), End(s)) = {}
        /\ Goto(s, "recover")
        /\ UNCHANGED bill
  /\ UNCHANGED <<storeVars, now, row, clean, auxVars>>

Recover(s)     == AdvanceFrom(s, "recover", "done")
ChargeAgain(s) == Charge(s, "recharge", "resettle", "escalate")
SettleLate(s)  == SettleFrom(s, "resettle", "done")

\* Mutant: the offset of the attempt to come is taken.
FirstFailureNext(s) == now[s] - DunningDay(row[s].attempts + 1)

\* The day of the first failure, rebuilt from now and the attempt that was due.
FirstFailure(s) == now[s] - Elapsed(s)

\* Mutants: attempts goes down; the offsets are counted from now instead of
\* from the first failure.
EscalateDown(s) ==
  /\ Step(s, "escalate", "done")
  /\ ScheduleNextRetry(row[s].attempts - 1, now[s])
  /\ UNCHANGED <<inv, workProduct, now, row, bill, clean, auxVars>>

EscalateFromNow(s) ==
  LET attempts == row[s].attempts + 1 IN
  /\ Step(s, "escalate", "done")
  /\ IF Elapsed(s) >= SuspendDay /\ row[s].status # "suspended"
     THEN Suspend(attempts, now[s] + CancelDay)
     ELSE ScheduleNextRetry(attempts, now[s] + DunningDay(attempts))
  /\ UNCHANGED <<inv, workProduct, now, row, bill, clean, auxVars>>

\* The charge failed again.  From SuspendDay on the next retry is the
\* cancellation; so it is once the offsets are used up.
Escalate(s) ==
  LET attempts == row[s].attempts + 1
      last     == row[s].status = "suspended" \/ Elapsed(s) >= SuspendDay
                    \/ DunningDay(attempts) <= Elapsed(s)
      retry    == FirstFailure(s) + IF last THEN CancelDay ELSE DunningDay(attempts)
  IN
  /\ Step(s, "escalate", "done")
  /\ IF Elapsed(s) >= SuspendDay /\ row[s].status # "suspended"
     THEN Suspend(attempts, retry)
     ELSE ScheduleNextRetry(attempts, retry)
  /\ UNCHANGED <<inv, workProduct, now, row, bill, clean, auxVars>>

-----------------------------------------------------------------------------
(* The loop, failures and time *)

Forget(s) ==
  /\ Goto(s, "idle")
  /\ now' = [now EXCEPT ![s] = 0]
  /\ row' = [row EXCEPT ![s] = NoRow]
  /\ bill' = [bill EXCEPT ![s] = NoInvoice]
  /\ clean' = [clean EXCEPT ![s] = TRUE]

EndSweep(s) ==
  /\ At(s, "done")
  /\ Forget(s)
  /\ lastSweep' = IF clean[s] /\ now[s] > lastSweep THEN now[s] ELSE lastSweep
  /\ UNCHANGED <<storeVars, today, charged, unpaidSince, owed, faults>>

\* A statement fails: the org's error is logged and the sweep goes on.
StatementFails(s) ==
  /\ pc[s] \notin {"idle", "charge", "recharge", "done"}
  /\ Fault
  /\ Goto(s, IF pc[s] \in {"check", "load", "generate", "settle", "refused", "advance"}
             THEN "rescan" ELSE "done")
  /\ clean' = [clean EXCEPT ![s] = FALSE]
  /\ UNCHANGED <<storeVars, now, row, bill, today, charged, unpaidSince, owed, lastSweep>>

\* The process ends; its successor sweeps as soon as it is up.
Crash(s) ==
  /\ ~ At(s, "idle")
  /\ Fault
  /\ Forget(s)
  /\ UNCHANGED <<storeVars, today, charged, unpaidSince, owed, lastSweep>>

NextDay ==
  /\ today < MaxDay
  /\ today - lastSweep < MaxGap
  /\ \A s \in Sched : At(s, "idle") \/ today - now[s] < MaxSweep
  /\ today' = today + 1
  /\ UNCHANGED <<storeVars, schedVars, charged, unpaidSince, owed, lastSweep, faults>>

BillingCycle(s) ==
  \/ ScanBilling(s) \/ CheckInvoice(s) \/ LoadOpenInvoice(s)
  \/ \E i \in Invoice, zero \in BOOLEAN : GenerateInvoice(s, i, zero)
  \/ GenerateRejected(s) \/ ChargeNew(s) \/ Settle(s)
  \/ AdvancePeriodOnly(s) \/ EnterDunning(s)

DunningRun(s) ==
  \/ ScanDunning(s) \/ CancelAndPurge(s) \/ LoadOverdueInvoice(s)
  \/ Recover(s) \/ ChargeAgain(s) \/ SettleLate(s) \/ Escalate(s)

Next ==
  \/ \E s \in Sched :
       BillingCycle(s) \/ DunningRun(s) \/ EndSweep(s) \/ StatementFails(s) \/ Crash(s)
  \/ NextDay

Spec == Init /\ [][Next]_vars

-----------------------------------------------------------------------------
(* Properties *)

Canceling == sub.status # "canceled" /\ sub'.status = "canceled"

\* However late the sweeps run, an org is canceled, and its work product purged,
\* no earlier than 14 days after the first failed charge (dunOrg rebuilds that
\* day from the attempt count; DunningCancelDay).
CancelNotEarly == [][Canceling => today >= unpaidSince + CancelDay]_vars

\* An org that is dunned, suspended or canceled still owes the invoice whose
\* charge failed first, and it is its current period's, whatever failed or
\* crashed between the charge and the bookkeeping (billOrg, dunOrg).  It needs a single loop.
DunnedOrgOwes ==
  sub.status # "active" => owed \in OpenInvoices(PeriodStart(sub), sub.end)

\* The period moves on only once its invoice is paid or is for nothing: no
\* period goes unbilled (billOrg, dunOrg, recover).  It needs a single loop.
AdvanceOnlySettled ==
  [][sub'.end # sub.end =>
       \E i \in Invoice :
         /\ inv[i].status # "none"
         /\ Covers(i, PeriodStart(sub), sub.end)
         /\ inv'[i].status = "paid" \/ inv[i].zero]_vars

\* Dunning ends.  Each of the five attempts (days 1, 3, 5, 7, 14) is late by at
\* most MaxGap - 1 days, and each delay shifts the ones after it (Escalate).
DunningDeadline ==
  sub.status \in Dunning => today <= unpaidSince + CancelDay + 5 * (MaxGap - 1)

\* No sequence of writes of any number of loops leaves an org that is not
\* canceled out of both scans for ever (EnterPastDue, Suspend, the scans).
AlwaysScheduled ==
  sub.status \in Dunning => sub.retry # NoDay

\* Any number of loops that race on a period take its money at most once
\* (InvoiceExistsForPeriod is a check before the act; invoices_org_period_uniq
\* and the Charger's idempotence per invoice are what holds).
NoDoubleCharge ==
  \A i, j \in charged :
    inv[i].start = inv[j].start /\ inv[i].end = inv[j].end => i = j
=============================================================================
