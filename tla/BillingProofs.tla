--------------------------- MODULE BillingProofs ---------------------------
(***************************************************************************)
(* Theorems of BillingScheduler: for any number of loops, the types, the   *)
(* scheduling and the charges; for a single loop, the bookkeeping of       *)
(* dunning.                                                                *)
(***************************************************************************)
EXTENDS BillingScheduler, TLAPS

(* The dunning schedule *)

\* The offsets never go back and end at the cancel day: whatever attempt comes
\* next, its retry is not before the one that was due (currentDunningDay).
LEMMA ScheduleMonotone ==
  ASSUME NEW n \in Nat
  PROVE  /\ DunningDay(n) \in 0..CancelDay
         /\ DunningDay(n + 1) \in DunningDay(n)..CancelDay
BY SMTT(30) DEF DunningDay, CancelDay

-----------------------------------------------------------------------------
(* Any number of loops *)

\* A loop past the load or the generation of its invoice has that invoice.
BillInHand ==
  \A s \in Sched :
    pc[s] \in {"charge", "settle", "refused", "recharge", "resettle", "escalate"}
      => bill[s] \in Invoice

TypeInv == TypeOK /\ BillInHand

\* The next retry Escalate schedules is a day, and not before the sweep's own.
LEMMA RetryIsDay ==
  ASSUME TypeOK, NEW s \in Sched, NEW d \in {CancelDay, DunningDay(row[s].attempts + 1)}
  PROVE  FirstFailure(s) + d \in Day /\ FirstFailure(s) + d >= now[s]
<1>1. row[s].attempts \in Nat /\ now[s] \in Nat
  BY DEF TypeOK, Row, Day
<1>2. /\ DunningDay(row[s].attempts) \in 0..CancelDay
      /\ DunningDay(row[s].attempts + 1) \in DunningDay(row[s].attempts)..CancelDay
  BY <1>1, ScheduleMonotone
<1> QED
  BY <1>1, <1>2 DEF FirstFailure, Elapsed, Day, CancelDay

\* Every variable stays in its type; in particular no sequence of escalations
\* leaves the schedule (the columns of subscriptions and invoices).
LEMMA TypeStep == TypeInv /\ [Next]_vars => TypeInv'
<1> SUFFICES ASSUME TypeInv, [Next]_vars PROVE TypeInv'
  OBVIOUS
<1> USE BillingStoreAssumption, BillingSchedulerAssumption
    DEF TypeInv, TypeOK, StoreTypeOK, BillInHand, At, Goto, Step, Steps, Fault,
        storeVars, schedVars, auxVars
<1>1. ASSUME NEW s \in Sched, BillingCycle(s) PROVE TypeInv'
  <2>1. CASE ScanBilling(s)
    <3>1. today \in Day
      BY DEF Day
    <3>2. CASE UNCHANGED <<clean, faults>>
      BY <2>1, <3>1, <3>2 DEF ScanBilling
    <3>3. CASE Fault /\ Goto(s, "rescan") /\ clean' = [clean EXCEPT ![s] = FALSE]
               /\ UNCHANGED row
      BY <2>1, <3>1, <3>3 DEF ScanBilling
    <3> QED
      BY <2>1, <3>2, <3>3 DEF ScanBilling
  <2>2. CASE CheckInvoice(s)
    BY <2>2 DEF CheckInvoice
  <2>3. CASE LoadOpenInvoice(s)
    BY <2>3 DEF LoadOpenInvoice, Take, OpenInvoices
  <2>4. ASSUME NEW i \in Invoice, NEW zero \in BOOLEAN, GenerateInvoice(s, i, zero)
        PROVE  TypeInv'
    <3>1. Start(s) \in Int /\ End(s) \in Int
      BY DEF Start, End, PeriodStart, Row, Day, NoDay
    <3>2. inv' \in [Invoice -> InvoiceRow]
      BY <2>4, <3>1 DEF GenerateInvoice, CreateInvoice, InvoiceRow
    <3> QED
      BY <2>4, <3>2 DEF GenerateInvoice, Take
  <2>5. CASE GenerateRejected(s)
    BY <2>5 DEF GenerateRejected
  <2>6. CASE ChargeNew(s)
    BY <2>6 DEF ChargeNew, Charge
  <2>7. CASE Settle(s)
    BY <2>7 DEF Settle, SettleFrom, MarkInvoicePaid, MarkBillingSuccess, InvoiceRow,
                Row, Day, Dunning, End
  <2>8. CASE AdvancePeriodOnly(s)
    BY <2>8 DEF AdvancePeriodOnly, AdvanceFrom, MarkBillingSuccess, Row, Day, Dunning, End
  <2>9. CASE EnterDunning(s)
    <3>1. now[s] \in Nat /\ DunningDay(1) = 1
      BY DEF DunningDay, Day
    <3>2. sub' = [sub EXCEPT !.status = "past_due", !.attempts = 1, !.retry = now[s] + 1]
      BY <2>9, <3>1 DEF EnterDunning, EnterPastDue
    <3>3. now[s] + 1 \in Day
      BY <3>1 DEF Day
    <3>4. 1 \in Nat /\ sub' \in Row
      BY <3>2, <3>3 DEF Row, Dunning
    <3> QED
      BY <2>9, <3>4 DEF EnterDunning
  <2> QED
    BY <1>1, <2>1, <2>2, <2>3, <2>4, <2>5, <2>6, <2>7, <2>8, <2>9 DEF BillingCycle
<1>2. ASSUME NEW s \in Sched, DunningRun(s) PROVE TypeInv'
  <2>1. CASE ScanDunning(s)
    BY <2>1 DEF ScanDunning
  <2>2. CASE CancelAndPurge(s)
    BY <2>2 DEF CancelAndPurge, Cancel, PurgeOrgData, Row
  <2>3. CASE LoadOverdueInvoice(s)
    BY <2>3 DEF LoadOverdueInvoice, OpenInvoices
  <2>4. CASE Recover(s)
    BY <2>4 DEF Recover, AdvanceFrom, MarkBillingSuccess, Row, Day, Dunning, End
  <2>5. CASE ChargeAgain(s)
    BY <2>5 DEF ChargeAgain, Charge
  <2>6. CASE SettleLate(s)
    BY <2>6 DEF SettleLate, SettleFrom, MarkInvoicePaid, MarkBillingSuccess, InvoiceRow,
                Row, Day, Dunning, End
  <2>7. CASE Escalate(s)
    <3>1. row[s].attempts + 1 \in Nat
      BY DEF Row
    <3>2. PICK d \in {CancelDay, DunningDay(row[s].attempts + 1)} :
            \/ Suspend(row[s].attempts + 1, FirstFailure(s) + d)
            \/ ScheduleNextRetry(row[s].attempts + 1, FirstFailure(s) + d)
      BY <2>7 DEF Escalate
    <3>3. FirstFailure(s) + d \in Day
      BY RetryIsDay
    <3>4. sub' \in Row
      BY <3>1, <3>2, <3>3 DEF Suspend, ScheduleNextRetry, Row, Dunning
    <3> QED
      BY <2>7, <3>4 DEF Escalate
  <2> QED
    BY <1>2, <2>1, <2>2, <2>3, <2>4, <2>5, <2>6, <2>7 DEF DunningRun
<1>3. ASSUME NEW s \in Sched, EndSweep(s) PROVE TypeInv'
  BY <1>3 DEF EndSweep, Forget, NoRow, Row, Day, NoDay, Dunning, Invoice, NoInvoice
<1>4. ASSUME NEW s \in Sched, StatementFails(s) PROVE TypeInv'
  BY <1>4 DEF StatementFails
<1>5. ASSUME NEW s \in Sched, Crash(s) PROVE TypeInv'
  BY <1>5 DEF Crash, Forget, NoRow, Row, Day, NoDay, Dunning, Invoice, NoInvoice
<1>6. CASE NextDay
  BY <1>6 DEF NextDay
<1>7. CASE UNCHANGED vars
  BY <1>7 DEF vars
<1> QED
  BY <1>1, <1>2, <1>3, <1>4, <1>5, <1>6, <1>7 DEF Next

LEMMA TypeInit == Init => TypeInv
<1> SUFFICES ASSUME Init PROVE TypeInv
  OBVIOUS
<1> USE BillingStoreAssumption, BillingSchedulerAssumption
<1>1. sub \in Row
  <2>1. PICK s \in {NoDay, 0} : sub = [NoRow EXCEPT !.start = s, !.end = Month]
    BY DEF Init
  <2>2. Month \in Day /\ s \in Day \cup {NoDay}
    BY DEF Day
  <2> QED
    BY <2>1, <2>2 DEF NoRow, Row, Day, Dunning
<1>2. inv \in [Invoice -> InvoiceRow] /\ charged \subseteq Invoice
  <2>1. PICK st \in {"none", "open", "paid"} :
          inv = [i \in Invoice |->
                   IF i = 1
                   THEN [status |-> st, start |-> 0, end |-> Month, zero |-> FALSE]
                   ELSE [status |-> "none", start |-> 0, end |-> 0, zero |-> FALSE]]
    BY DEF Init
  <2> QED
    BY <2>1 DEF Init, InvoiceRow
<1>3. NoRow \in Row
  BY DEF NoRow, Row, Day, NoDay, Dunning
<1>4. /\ today \in 0..MaxDay /\ unpaidSince \in Day /\ lastSweep \in Day
      /\ faults \in 0..MaxFaults /\ workProduct \in BOOLEAN
      /\ owed \in Invoice \cup {NoInvoice}
  BY DEF Init, Day
<1>5. /\ pc \in [Sched -> Steps] /\ now \in [Sched -> Day] /\ row \in [Sched -> Row]
      /\ bill \in [Sched -> Invoice \cup {NoInvoice}] /\ clean \in [Sched -> BOOLEAN]
  BY <1>3 DEF Init, Day, Steps
<1>6. BillInHand
  BY DEF Init, BillInHand
<1> QED
  BY <1>1, <1>2, <1>4, <1>5, <1>6 DEF TypeInv, TypeOK, StoreTypeOK

\* The type invariant, for any number of loops: in particular the offsets never
\* schedule a retry outside the days (Escalate).
THEOREM TypeCorrect == Spec => []TypeOK
<1>1. Spec => []TypeInv
  BY TypeInit, TypeStep, PTL DEF Spec
<1> QED
  BY <1>1, PTL DEF TypeInv

-----------------------------------------------------------------------------
(* Scheduling, for any number of loops *)

\* No write of any loop, however stale its copy of the row, leaves an org in
\* dunning without a next retry (EnterPastDue, ScheduleNextRetry, Suspend).
THEOREM StaysScheduled == Spec => []AlwaysScheduled
<1>1. Init => AlwaysScheduled
  BY DEF Init, AlwaysScheduled, NoRow, Dunning
<1>2. TypeInv /\ AlwaysScheduled /\ [Next]_vars => AlwaysScheduled'
  <2> SUFFICES ASSUME TypeInv, AlwaysScheduled, [Next]_vars PROVE AlwaysScheduled'
    OBVIOUS
  <2> USE DEF AlwaysScheduled, storeVars, TypeInv
  <2>1. ASSUME NEW s \in Sched, Settle(s) \/ SettleLate(s)
        PROVE  AlwaysScheduled'
    BY <2>1 DEF Settle, SettleLate, SettleFrom, MarkBillingSuccess, Dunning
  <2>2. ASSUME NEW s \in Sched, AdvancePeriodOnly(s) \/ Recover(s)
        PROVE  AlwaysScheduled'
    BY <2>2 DEF AdvancePeriodOnly, Recover, AdvanceFrom, MarkBillingSuccess, Dunning
  <2>3. ASSUME NEW s \in Sched, EnterDunning(s)
        PROVE  AlwaysScheduled'
    <3>1. now[s] \in Nat /\ DunningDay(1) = 1
      BY DEF DunningDay, TypeOK, Day
    <3> QED
      BY <2>3, <3>1 DEF EnterDunning, EnterPastDue, NoDay, TypeOK, StoreTypeOK, Row
  <2>4. ASSUME NEW s \in Sched, CancelAndPurge(s)
        PROVE  AlwaysScheduled'
    BY <2>4 DEF CancelAndPurge, Cancel, Dunning, TypeOK, StoreTypeOK, Row
  <2>5. ASSUME NEW s \in Sched, Escalate(s)
        PROVE  AlwaysScheduled'
    <3>1. PICK d \in {CancelDay, DunningDay(row[s].attempts + 1)} :
            \/ Suspend(row[s].attempts + 1, FirstFailure(s) + d)
            \/ ScheduleNextRetry(row[s].attempts + 1, FirstFailure(s) + d)
      BY <2>5 DEF Escalate
    <3>2. FirstFailure(s) + d # NoDay
      BY RetryIsDay DEF Day, NoDay
    <3> QED
      BY <3>1, <3>2 DEF Suspend, ScheduleNextRetry, TypeOK, StoreTypeOK, Row
  <2>6. ASSUME UNCHANGED sub
        PROVE  AlwaysScheduled'
    BY <2>6
  <2> QED
    BY <2>1, <2>2, <2>3, <2>4, <2>5, <2>6
    DEF Next, vars, BillingCycle, DunningRun, ScanBilling, CheckInvoice, LoadOpenInvoice,
        GenerateInvoice, GenerateRejected, ChargeNew, ChargeAgain, Charge, ScanDunning,
        LoadOverdueInvoice, EndSweep, StatementFails, Crash, NextDay
<1> QED
  BY <1>1, <1>2, TypeInit, TypeStep, PTL DEF Spec

-----------------------------------------------------------------------------
(* One charge per period, for any number of loops *)

\* Two rows of the invoices table never have the same period; what was charged
\* and what a loop has in hand is a row of the table.
InvoiceInv ==
  /\ \A i, j \in Invoice :
       inv[i].status # "none" /\ inv[j].status # "none"
         /\ inv[i].start = inv[j].start /\ inv[i].end = inv[j].end => i = j
  /\ \A i \in charged : inv[i].status # "none"
  /\ \A s \in Sched : bill[s] \in Invoice => inv[bill[s]].status # "none"

LEMMA InvoiceStep == TypeInv /\ InvoiceInv /\ [Next]_vars => InvoiceInv'
<1> SUFFICES ASSUME TypeInv, InvoiceInv, [Next]_vars PROVE InvoiceInv'
  OBVIOUS
<1> USE DEF InvoiceInv, TypeInv, TypeOK, StoreTypeOK, storeVars, schedVars, auxVars
<1>1. ASSUME NEW s \in Sched, LoadOpenInvoice(s) \/ LoadOverdueInvoice(s)
      PROVE  InvoiceInv'
  BY <1>1 DEF LoadOpenInvoice, LoadOverdueInvoice, Take, OpenInvoices
<1>2. ASSUME NEW s \in Sched, NEW i \in Invoice, NEW zero \in BOOLEAN,
             GenerateInvoice(s, i, zero)
      PROVE  InvoiceInv'
  <2>1. /\ \A j \in Invoice : inv[j].status # "none" => ~ Covers(j, Start(s), End(s))
        /\ inv[i].status = "none"
        /\ inv' = [inv EXCEPT ![i] = [status |-> "open", start |-> Start(s),
                                      end |-> End(s), zero |-> zero]]
        /\ charged' = charged
        /\ bill' = [bill EXCEPT ![s] = i]
    BY <1>2 DEF GenerateInvoice, CreateInvoice, InvoiceExistsForPeriod, Fresh, Take
  <2> QED
    BY <2>1 DEF Covers
<1>3. ASSUME NEW s \in Sched, Settle(s) \/ SettleLate(s)
      PROVE  InvoiceInv'
  <2>1. /\ inv' = [inv EXCEPT ![bill[s]].status = "paid"]
        /\ charged' = charged /\ bill' = bill
    BY <1>3 DEF Settle, SettleLate, SettleFrom, MarkInvoicePaid
  <2>2. \A i \in Invoice : /\ inv'[i].start = inv[i].start /\ inv'[i].end = inv[i].end
                           /\ inv'[i].status = IF i = bill[s] THEN "paid" ELSE inv[i].status
    BY <2>1 DEF InvoiceRow
  <2> QED
    BY <2>1, <2>2
<1>4. ASSUME NEW s \in Sched, ChargeNew(s) \/ ChargeAgain(s)
      PROVE  InvoiceInv'
  <2>1. bill[s] \in Invoice
    BY <1>4 DEF ChargeNew, ChargeAgain, Charge, At, BillInHand
  <2> QED
    BY <1>4, <2>1 DEF ChargeNew, ChargeAgain, Charge
<1>5. ASSUME NEW s \in Sched, ScanDunning(s) \/ EndSweep(s) \/ Crash(s)
      PROVE  InvoiceInv'
  <2>1. inv' = inv /\ charged' = charged /\ bill' = [bill EXCEPT ![s] = NoInvoice]
    BY <1>5 DEF ScanDunning, EndSweep, Crash, Forget
  <2>2. NoInvoice \notin Invoice
    BY DEF NoInvoice, Invoice
  <2> QED
    BY <2>1, <2>2
<1>6. ASSUME UNCHANGED <<inv, charged, bill>>
      PROVE  InvoiceInv'
  BY <1>6
<1> QED
  BY <1>1, <1>2, <1>3, <1>4, <1>5, <1>6
  DEF Next, vars, BillingCycle, DunningRun, ScanBilling, CheckInvoice, GenerateRejected,
      AdvancePeriodOnly, Recover, AdvanceFrom, EnterDunning, CancelAndPurge, Escalate,
      StatementFails, NextDay

LEMMA InvoiceInit == Init => InvoiceInv
<1> SUFFICES ASSUME Init PROVE InvoiceInv
  OBVIOUS
<1>1. PICK st \in {"none", "open", "paid"} :
        inv = [i \in Invoice |->
                 IF i = 1
                 THEN [status |-> st, start |-> 0, end |-> Month, zero |-> FALSE]
                 ELSE [status |-> "none", start |-> 0, end |-> 0, zero |-> FALSE]]
  BY DEF Init
<1> QED
  BY <1>1 DEF Init, InvoiceInv, Invoice, NoInvoice

\* However many loops race on a period, its money is taken at most once: the
\* unique index holds what InvoiceExistsForPeriod cannot.
THEOREM ChargedOnce == Spec => []NoDoubleCharge
<1>1. TypeInv /\ InvoiceInv => NoDoubleCharge
  BY DEF TypeInv, TypeOK, InvoiceInv, NoDoubleCharge
<1> QED
  BY <1>1, TypeInit, TypeStep, InvoiceInit, InvoiceStep, PTL DEF Spec

-----------------------------------------------------------------------------
(* The bookkeeping of dunning, for a single loop *)

SingleLoop == \A r, s \in Sched : r = s

\* Dunning counts from the first failed charge, and its invoice is the open one
\* of the period.
DunningInv ==
  /\ DunnedOrgOwes
  /\ sub.status \in Dunning => /\ sub.attempts >= 1
                               /\ sub.retry >= unpaidSince + DunningDay(sub.attempts)

Billed == {"check", "load", "generate", "charge", "settle", "refused", "advance"}
Dunned == {"overdue", "recharge", "resettle", "escalate"}

\* The invoice of the period was paid or is for nothing.
PeriodSettled ==
  \E i \in Invoice : /\ inv[i].status # "none"
                     /\ Covers(i, PeriodStart(sub), sub.end)
                     /\ inv[i].status = "paid" \/ inv[i].zero

\* What a loop has read is what the tables still say.
LoopInv(s) ==
  /\ now[s] <= today
  /\ pc[s] \in Billed => row[s] = sub /\ sub.status = "active"
  /\ pc[s] \in Dunned => row[s] = sub /\ sub.status \in Dunning /\ sub.retry <= now[s]
  /\ pc[s] = "load" => InvoiceExistsForPeriod(PeriodStart(sub), sub.end)
  /\ pc[s] = "advance" => PeriodSettled
  /\ pc[s] \in {"charge", "settle", "refused", "recharge", "resettle", "escalate"}
       => bill[s] \in OpenInvoices(PeriodStart(sub), sub.end)
  /\ pc[s] # "recover"

CycleInv == TypeInv /\ DunningInv /\ \A s \in Sched : LoopInv(s)

LEMMA CycleInit == Init => CycleInv
<1> SUFFICES ASSUME Init PROVE CycleInv
  OBVIOUS
<1>1. sub.status = "active"
  BY DEF Init, NoRow
<1>2. ASSUME NEW s \in Sched PROVE LoopInv(s)
  BY DEF Init, LoopInv, Billed, Dunned
<1> QED
  BY <1>1, <1>2, TypeInit DEF CycleInv, DunningInv, DunnedOrgOwes, Dunning

\* With one loop nothing comes between its scan and its writes, so each of its
\* steps finds the org as it read it.
LEMMA CycleStep ==
  ASSUME SingleLoop PROVE CycleInv /\ [Next]_vars => CycleInv'
<1> SUFFICES ASSUME CycleInv, [Next]_vars PROVE DunningInv' /\ \A s \in Sched : LoopInv(s)'
  BY TypeStep DEF CycleInv
<1> USE DEF CycleInv
<1>a. /\ sub \in Row /\ inv \in [Invoice -> InvoiceRow] /\ pc \in [Sched -> Steps]
      /\ now \in [Sched -> Nat] /\ row \in [Sched -> Row] /\ today \in Nat
      /\ bill \in [Sched -> Invoice \cup {NoInvoice}]
  BY BillingSchedulerAssumption DEF TypeInv, TypeOK, StoreTypeOK, Day
<1>b. "canceled" \notin Dunning /\ "active" \notin Dunning
  BY DEF Dunning
<1>c. ASSUME UNCHANGED <<sub, inv, unpaidSince, owed>> PROVE DunningInv'
  BY <1>c DEF DunningInv, DunnedOrgOwes, OpenInvoices, Covers, PeriodStart
<1>1. ASSUME NEW s \in Sched, BillingCycle(s)
      PROVE  DunningInv' /\ LoopInv(s)'
  <2> USE <1>a, <1>b DEF At, Goto, Step, Start, End, storeVars, auxVars
  <2>1. LoopInv(s) /\ DunningInv
    OBVIOUS
  <2>2. CASE ScanBilling(s)
    BY <1>c, <2>2 DEF ScanBilling, DueForBilling, LoopInv, Billed, Dunned
  <2>3. CASE CheckInvoice(s)
    BY <1>c, <2>1, <2>3 DEF CheckInvoice, LoopInv, Billed, Dunned, InvoiceExistsForPeriod, Covers
  <2>4. CASE LoadOpenInvoice(s)
    <3>1. /\ pc[s] = "load" /\ UNCHANGED <<sub, inv, unpaidSince, owed, now, row, today>>
          /\ row[s] = sub
      BY <2>1, <2>4 DEF LoadOpenInvoice, LoopInv, Billed
    <3>2. CASE \E i \in OpenInvoices(Start(s), End(s)) : Take(s, i, inv[i].zero)
      BY <1>c, <2>1, <3>1, <3>2
      DEF LoopInv, Billed, Dunned, Take, PeriodSettled, OpenInvoices, Covers
    <3>3. CASE OpenInvoices(Start(s), End(s)) = {} /\ Goto(s, "advance") /\ UNCHANGED bill
      BY <1>c, <2>1, <3>1, <3>3
      DEF LoopInv, Billed, Dunned, PeriodSettled, OpenInvoices, InvoiceExistsForPeriod,
          Covers, InvoiceRow
    <3> QED
      BY <2>4, <3>2, <3>3 DEF LoadOpenInvoice
  <2>5. ASSUME NEW i \in Invoice, NEW zero \in BOOLEAN, GenerateInvoice(s, i, zero)
        PROVE  DunningInv' /\ LoopInv(s)'
    <3>1. /\ UNCHANGED <<sub, now, row, today>> /\ row[s] = sub /\ sub.status = "active"
          /\ inv' = [inv EXCEPT ![i] = [status |-> "open", start |-> PeriodStart(sub),
                                        end |-> sub.end, zero |-> zero]]
          /\ Take(s, i, zero)
      BY <2>1, <2>5 DEF GenerateInvoice, CreateInvoice, LoopInv, Billed
    <3> QED
      BY <2>1, <3>1
      DEF DunningInv, DunnedOrgOwes, LoopInv, Billed, Dunned, Take, PeriodSettled,
          OpenInvoices, Covers, PeriodStart
  <2>6. CASE GenerateRejected(s)
    BY <1>c, <2>1, <2>6 DEF GenerateRejected, LoopInv, Billed, Dunned
  <2>7. CASE ChargeNew(s)
    BY <1>c, <2>1, <2>7 DEF ChargeNew, Charge, LoopInv, Billed, Dunned, OpenInvoices, Covers
  <2>8. CASE Settle(s)
    BY <2>1, <2>8
    DEF Settle, SettleFrom, MarkBillingSuccess, DunningInv, DunnedOrgOwes, LoopInv,
        Billed, Dunned
  <2>9. CASE AdvancePeriodOnly(s)
    BY <2>1, <2>9
    DEF AdvancePeriodOnly, AdvanceFrom, MarkBillingSuccess, DunningInv, DunnedOrgOwes,
        LoopInv, Billed, Dunned
  <2>10. CASE EnterDunning(s)
    <3>1. DunningDay(1) = 1
      BY DEF DunningDay
    <3>2. /\ pc' = [pc EXCEPT ![s] = "rescan"] /\ UNCHANGED <<inv, now, row, bill, today>>
          /\ sub' = [sub EXCEPT !.status = "past_due", !.attempts = 1, !.retry = now[s] + 1]
          /\ unpaidSince' = now[s] /\ owed' = bill[s]
          /\ bill[s] \in OpenInvoices(PeriodStart(sub), sub.end)
      BY <2>1, <2>10, <3>1 DEF EnterDunning, EnterPastDue, LoopInv, Billed
    <3>3. /\ sub'.status = "past_due" /\ sub'.attempts = 1 /\ sub'.retry = now[s] + 1
          /\ sub'.start = sub.start /\ sub'.end = sub.end
      BY <3>2 DEF Row
    <3>4. DunningInv'
      BY <3>1, <3>2, <3>3 DEF DunningInv, DunnedOrgOwes, OpenInvoices, Covers, PeriodStart
    <3> QED
      BY <2>1, <3>2, <3>4 DEF LoopInv, Billed, Dunned
  <2> QED
    BY <1>1, <2>2, <2>3, <2>4, <2>5, <2>6, <2>7, <2>8, <2>9, <2>10 DEF BillingCycle
<1>2. ASSUME NEW s \in Sched, DunningRun(s)
      PROVE  DunningInv' /\ LoopInv(s)'
  <2> USE <1>a, <1>b DEF At, Goto, Step, Start, End, storeVars, auxVars
  <2>1. LoopInv(s) /\ DunningInv
    OBVIOUS
  <2>2. CASE ScanDunning(s)
    BY <1>c, <2>1, <2>2 DEF ScanDunning, DueForRetry, LoopInv, Billed, Dunned
  <2>3. CASE CancelAndPurge(s)
    <3>1. /\ pc' = [pc EXCEPT ![s] = "done"]
          /\ UNCHANGED <<inv, now, row, bill, today, unpaidSince, owed>>
          /\ sub'.status = "canceled" /\ sub'.start = sub.start /\ sub'.end = sub.end
          /\ sub.status # "active"
      BY <2>1, <2>3 DEF CancelAndPurge, Cancel, Row, LoopInv, Dunned
    <3> QED
      BY <2>1, <3>1
      DEF DunningInv, DunnedOrgOwes, OpenInvoices, Covers, PeriodStart, LoopInv, Billed, Dunned
  <2>4. CASE LoadOverdueInvoice(s)
    <3>1. sub.status # "active" /\ row[s] = sub
      BY <2>1, <2>4 DEF LoadOverdueInvoice, LoopInv, Dunned
    <3>2. OpenInvoices(Start(s), End(s)) # {}
      BY <2>1, <3>1 DEF DunningInv, DunnedOrgOwes
    <3> QED
      BY <1>c, <2>1, <2>4, <3>1, <3>2
      DEF LoadOverdueInvoice, LoopInv, Billed, Dunned, OpenInvoices, Covers
  <2>5. ~ Recover(s)
    BY <2>1 DEF Recover, AdvanceFrom, LoopInv
  <2>6. CASE ChargeAgain(s)
    BY <1>c, <2>1, <2>6 DEF ChargeAgain, Charge, LoopInv, Billed, Dunned, OpenInvoices, Covers
  <2>7. CASE SettleLate(s)
    BY <2>1, <2>7
    DEF SettleLate, SettleFrom, MarkBillingSuccess, DunningInv, DunnedOrgOwes, LoopInv,
        Billed, Dunned
  <2>8. CASE Escalate(s)
    <3>1. /\ row[s] = sub /\ sub.status # "active" /\ sub.retry <= now[s]
          /\ sub.attempts \in Nat /\ sub.attempts >= 1
          /\ sub.retry >= unpaidSince + DunningDay(sub.attempts)
      BY <2>1, <2>8 DEF Escalate, LoopInv, Dunned, DunningInv, Row
    <3>2. /\ DunningDay(sub.attempts) \in 0..CancelDay
          /\ DunningDay(sub.attempts + 1) \in DunningDay(sub.attempts)..CancelDay
      BY <3>1, ScheduleMonotone
    <3>3. PICK d \in {CancelDay, DunningDay(sub.attempts + 1)} :
            \/ Suspend(sub.attempts + 1, FirstFailure(s) + d)
            \/ ScheduleNextRetry(sub.attempts + 1, FirstFailure(s) + d)
      BY <2>8, <3>1 DEF Escalate
    <3>4. FirstFailure(s) + d >= unpaidSince + DunningDay(sub.attempts + 1)
      <4>1. FirstFailure(s) = now[s] - DunningDay(sub.attempts)
        BY <3>1 DEF FirstFailure, Elapsed
      <4>2. now[s] \in Int /\ unpaidSince \in Int /\ sub.retry \in Int
        BY DEF TypeInv, TypeOK, Row, Day, NoDay
      <4> QED
        BY <3>1, <3>2, <4>1, <4>2 DEF CancelDay
    <3>5. /\ sub'.status \in {"suspended", sub.status} /\ sub'.attempts = sub.attempts + 1
          /\ sub'.retry = FirstFailure(s) + d
          /\ sub'.start = sub.start /\ sub'.end = sub.end
      BY <3>3 DEF Suspend, ScheduleNextRetry, Row
    <3>6. /\ pc' = [pc EXCEPT ![s] = "done"]
          /\ UNCHANGED <<inv, now, row, bill, today, unpaidSince, owed>>
      BY <2>8 DEF Escalate
    <3>7. DunningInv'
      BY <2>1, <3>1, <3>4, <3>5, <3>6
      DEF DunningInv, DunnedOrgOwes, OpenInvoices, Covers, PeriodStart
    <3> QED
      BY <2>1, <3>6, <3>7 DEF LoopInv, Billed, Dunned
  <2> QED
    BY <1>2, <2>2, <2>3, <2>4, <2>5, <2>6, <2>7, <2>8 DEF DunningRun
<1>3. ASSUME NEW s \in Sched, EndSweep(s) \/ StatementFails(s) \/ Crash(s)
      PROVE  DunningInv' /\ LoopInv(s)'
  <2>1. UNCHANGED <<sub, inv, unpaidSince, owed, today>>
    BY <1>3 DEF EndSweep, StatementFails, Crash, storeVars
  <2>2. CASE pc'[s] = "idle" /\ now'[s] = 0
    BY <1>a, <1>c, <2>1, <2>2 DEF LoopInv, Billed, Dunned
  <2>3. CASE StatementFails(s)
    BY <1>a, <1>c, <2>1, <2>3 DEF StatementFails, Goto, LoopInv, Billed, Dunned
  <2> QED
    BY <1>3, <1>a, <2>2, <2>3 DEF EndSweep, Crash, Forget, Goto
<1>4. CASE NextDay
  <2>1. /\ UNCHANGED <<sub, inv, unpaidSince, owed, pc, now, row, bill>>
        /\ today' = today + 1
    BY <1>4 DEF NextDay, storeVars, schedVars
  <2>2. ASSUME NEW s \in Sched PROVE LoopInv(s)'
    BY <1>a, <2>1
    DEF LoopInv, Billed, Dunned, PeriodSettled, InvoiceExistsForPeriod, OpenInvoices, Covers
  <2> QED
    BY <1>c, <2>1, <2>2
<1>5. CASE UNCHANGED vars
  <2>1. UNCHANGED <<sub, inv, unpaidSince, owed, pc, now, row, bill, today>>
    BY <1>5 DEF vars, storeVars, schedVars, auxVars
  <2>2. ASSUME NEW s \in Sched PROVE LoopInv(s)'
    BY <2>1
    DEF LoopInv, Billed, Dunned, PeriodSettled, InvoiceExistsForPeriod, OpenInvoices, Covers
  <2> QED
    BY <1>c, <2>1, <2>2
<1> QED
  BY <1>1, <1>2, <1>3, <1>4, <1>5 DEF Next, SingleLoop

\* An org in dunning, suspended or canceled owes the open invoice of its period
\* whose charge failed first, whatever failed or crashed since (dunOrg).
THEOREM OwesThroughout == ASSUME SingleLoop PROVE Spec => []DunnedOrgOwes
<1>1. CycleInv => DunnedOrgOwes
  BY DEF CycleInv, DunningInv
<1> QED
  BY <1>1, CycleInit, CycleStep, PTL DEF Spec

\* No cancellation, and no purge, before 14 days from the first failed charge:
\* the retry of an attempt is never before its offset from that day, however
\* late the sweeps were (dunOrg, cancelAndPurge).
THEOREM CanceledLate == ASSUME SingleLoop PROVE Spec => CancelNotEarly
<1>1. CycleInv /\ [Next]_vars => [Canceling => today >= unpaidSince + CancelDay]_vars
  <2> SUFFICES ASSUME CycleInv, Next, Canceling
               PROVE  today >= unpaidSince + CancelDay
    OBVIOUS
  <2> USE DEF Canceling, CycleInv, TypeInv, TypeOK, StoreTypeOK
  <2>1. PICK s \in Sched : CancelAndPurge(s)
    <3>1. sub' # sub
      OBVIOUS
    <3>2. ASSUME NEW s \in Sched
          PROVE  ~ (Settle(s) \/ SettleLate(s) \/ AdvancePeriodOnly(s) \/ Recover(s))
      BY DEF Settle, SettleLate, SettleFrom, AdvancePeriodOnly, Recover, AdvanceFrom,
             MarkBillingSuccess
    <3>3. ASSUME NEW s \in Sched
          PROVE  ~ (EnterDunning(s) \/ Escalate(s))
      BY DEF EnterDunning, EnterPastDue, Escalate, Suspend, ScheduleNextRetry, Row
    <3> QED
      BY <3>1, <3>2, <3>3
      DEF Next, BillingCycle, DunningRun, ScanBilling, CheckInvoice, LoadOpenInvoice,
          GenerateInvoice, GenerateRejected, ChargeNew, ChargeAgain, Charge, ScanDunning,
          LoadOverdueInvoice, EndSweep, StatementFails, Crash, NextDay, storeVars
  <2>2. /\ row[s] = sub /\ sub.status \in Dunning /\ sub.retry <= now[s] /\ now[s] <= today
        /\ DunningDay(sub.attempts) >= CancelDay
    BY <2>1 DEF CancelAndPurge, At, LoopInv, Dunned, Elapsed
  <2>3. sub.attempts \in Nat /\ sub.retry >= unpaidSince + DunningDay(sub.attempts)
    BY <2>2 DEF DunningInv, Row
  <2>4. /\ today \in Int /\ now[s] \in Int /\ unpaidSince \in Int /\ sub.retry \in Int
        /\ DunningDay(sub.attempts) \in 0..CancelDay
    BY <2>3, ScheduleMonotone, BillingSchedulerAssumption DEF Row, Day, NoDay
  <2> QED
    BY <2>2, <2>3, <2>4 DEF CancelDay
<1> QED
  BY <1>1, CycleInit, CycleStep, PTL DEF Spec, CancelNotEarly

\* No period is left unbilled: it moves on in the transaction that marks its
\* invoice paid, or after the invoice was found paid or for nothing.
THEOREM NothingUnbilled == ASSUME SingleLoop PROVE Spec => AdvanceOnlySettled
<1>1. ASSUME CycleInv, Next, sub'.end # sub.end
      PROVE  \E i \in Invoice :
               /\ inv[i].status # "none"
               /\ Covers(i, PeriodStart(sub), sub.end)
               /\ inv'[i].status = "paid" \/ inv[i].zero
  <2> USE <1>1 DEF CycleInv, TypeInv, TypeOK, StoreTypeOK
  <2>1. PICK s \in Sched : Settle(s) \/ SettleLate(s) \/ AdvancePeriodOnly(s) \/ Recover(s)
    <3>1. sub' # sub
      OBVIOUS
    <3>2. ASSUME NEW s \in Sched
          PROVE  ~ (EnterDunning(s) \/ CancelAndPurge(s) \/ Escalate(s))
      BY DEF EnterDunning, EnterPastDue, CancelAndPurge, Cancel, Escalate, Suspend,
             ScheduleNextRetry, Row
    <3> QED
      BY <3>1, <3>2
      DEF Next, BillingCycle, DunningRun, ScanBilling, CheckInvoice, LoadOpenInvoice,
          GenerateInvoice, GenerateRejected, ChargeNew, ChargeAgain, Charge, ScanDunning,
          LoadOverdueInvoice, EndSweep, StatementFails, Crash, NextDay, storeVars
  <2>2. LoopInv(s)
    OBVIOUS
  <2>3. CASE Settle(s) \/ SettleLate(s)
    <3>1. /\ bill[s] \in OpenInvoices(PeriodStart(sub), sub.end)
          /\ inv' = [inv EXCEPT ![bill[s]].status = "paid"]
      BY <2>2, <2>3
      DEF Settle, SettleLate, SettleFrom, MarkInvoicePaid, Step, At, LoopInv
    <3> QED
      BY <3>1 DEF OpenInvoices, InvoiceRow
  <2>4. CASE AdvancePeriodOnly(s)
    BY <2>2, <2>4 DEF AdvancePeriodOnly, AdvanceFrom, Step, At, LoopInv, PeriodSettled
  <2>5. ~ Recover(s)
    BY <2>2 DEF Recover, AdvanceFrom, Step, At, LoopInv
  <2> QED
    BY <2>1, <2>3, <2>4, <2>5
<1>2. CycleInv /\ [Next]_vars
        => [sub'.end # sub.end =>
              \E i \in Invoice :
                /\ inv[i].status # "none"
                /\ Covers(i, PeriodStart(sub), sub.end)
                /\ inv'[i].status = "paid" \/ inv[i].zero]_vars
  BY <1>1
<1> QED
  BY <1>2, CycleInit, CycleStep, PTL DEF Spec, AdvanceOnlySettled

-----------------------------------------------------------------------------
(* The end of dunning, for a single loop *)

\* The latest day, from the first failure, that the retry of an attempt can be for:
\* each attempt before it was late by at most MaxGap - 1 days.
LateDay(n) == DunningDay(n) + (n - 1) * (MaxGap - 1)

\* A sweep that went through left no retry that was due.
SweepInv(s) ==
  /\ pc[s] # "idle" => lastSweep <= now[s]
  /\ pc[s] \in {"recharge", "resettle", "escalate"} => Elapsed(s) < CancelDay
  /\ pc[s] = "done" /\ clean[s] /\ sub.status \in Dunning => now[s] < sub.retry

GapInv == lastSweep <= today /\ today <= lastSweep + MaxGap

RetryInv ==
  sub.status \in Dunning =>
    /\ sub.attempts \in 1..5
    /\ sub.status = "suspended" => sub.attempts = 5
    /\ lastSweep < sub.retry
    /\ sub.retry <= unpaidSince + LateDay(sub.attempts)

DeadlineInv == GapInv /\ RetryInv /\ \A s \in Sched : SweepInv(s)

LEMMA Offsets ==
  /\ DunningDay(1) = 1 /\ DunningDay(2) = 3 /\ DunningDay(3) = 5
  /\ DunningDay(4) = 7 /\ DunningDay(5) = 14
BY DEF DunningDay, CancelDay

LEMMA LateDays ==
  ASSUME NEW n \in 1..5
  PROVE  /\ DunningDay(n) \in Nat
         /\ LateDay(n) \in Int
         /\ LateDay(n) <= CancelDay + 4 * (MaxGap - 1)
         /\ n < 5 => /\ DunningDay(n) < CancelDay
                     /\ DunningDay(n) < DunningDay(n + 1)
                     /\ LateDay(n + 1) = LateDay(n) - DunningDay(n) + DunningDay(n + 1) + (MaxGap - 1)
<1>1. PICK g \in Nat : g = MaxGap - 1
  BY BillingSchedulerAssumption
<1>2. /\ LateDay(1) = 1 /\ LateDay(2) = 3 + g /\ LateDay(3) = 5 + 2 * g
      /\ LateDay(4) = 7 + 3 * g /\ LateDay(5) = 14 + 4 * g
  BY <1>1, Offsets DEF LateDay
<1>3. n = 1 \/ n = 2 \/ n = 3 \/ n = 4 \/ n = 5
  OBVIOUS
<1> QED
  BY <1>1, <1>2, <1>3, Offsets DEF CancelDay

\* The next attempt is the one the schedule has, and the last of them is the
\* cancellation, on whichever side of the suspension.
LEMMA NextAttempt ==
  ASSUME CycleInv, DeadlineInv, NEW s \in Sched, Escalate(s)
  PROVE  /\ sub.attempts \in 1..4 /\ sub.status \in Dunning
         /\ sub'.attempts = sub.attempts + 1
         /\ sub'.status \in Dunning /\ (sub'.status = "suspended" => sub.attempts = 4)
         /\ sub'.retry = now[s] - DunningDay(sub.attempts) + DunningDay(sub.attempts + 1)
<1>1. /\ row[s] = sub /\ sub.status \in Dunning /\ sub \in Row /\ now[s] \in Nat
      /\ DunningDay(sub.attempts) < CancelDay
  BY DEF CycleInv, LoopInv, Dunned, TypeInv, TypeOK, StoreTypeOK, Day, Escalate, Step, At,
         DeadlineInv, SweepInv, Elapsed
<1>2. sub.attempts \in 1..4 /\ sub.status = "past_due"
  BY <1>1, Offsets DEF DeadlineInv, RetryInv, CancelDay, Dunning
<1>3. PICK n \in 1..4 : n = sub.attempts
  BY <1>2
<1>4. PICK m \in 2..5 : m = n + 1
  BY <1>3
<1>5. sub' = IF DunningDay(n) >= SuspendDay
             THEN [sub EXCEPT !.status = "suspended", !.attempts = m,
                              !.retry = now[s] - DunningDay(n) + CancelDay]
             ELSE [sub EXCEPT !.attempts = m,
                     !.retry = now[s] - DunningDay(n)
                                 + (IF DunningDay(m) <= DunningDay(n) THEN CancelDay
                                                                      ELSE DunningDay(m))]
  BY <1>1, <1>2, <1>3, <1>4
  DEF Escalate, Suspend, ScheduleNextRetry, FirstFailure, Elapsed
<1>6. /\ n \in 1..3 => DunningDay(n) < SuspendDay /\ DunningDay(n) < DunningDay(m)
      /\ n = 4 => DunningDay(n) = SuspendDay /\ DunningDay(m) = CancelDay
  BY <1>4, Offsets DEF SuspendDay, CancelDay
<1>7. CASE n = 4
  BY <1>1, <1>2, <1>3, <1>4, <1>5, <1>6, <1>7 DEF Row, Dunning
<1>8. CASE n \in 1..3
  <2>1. DunningDay(n) \in Nat /\ DunningDay(m) \in Nat
    BY <1>4, LateDays
  <2>2. DunningDay(n) < SuspendDay /\ DunningDay(n) < DunningDay(m)
    BY <1>6, <1>8
  <2>3. sub' = [sub EXCEPT !.attempts = m, !.retry = now[s] - DunningDay(n) + DunningDay(m)]
    <3>1. ~ (DunningDay(n) >= SuspendDay) /\ ~ (DunningDay(m) <= DunningDay(n))
      BY <2>1, <2>2 DEF SuspendDay
    <3> QED
      BY <1>5, <3>1
  <2>4. sub'.status = sub.status /\ sub'.attempts = m
        /\ sub'.retry = now[s] - DunningDay(n) + DunningDay(m)
    BY <1>1, <2>3 DEF Row
  <2> QED
    BY <1>2, <1>3, <1>4, <1>8, <2>4 DEF Dunning
<1> QED
  BY <1>3, <1>7, <1>8

LEMMA DeadlineInit == Init => DeadlineInv
<1> SUFFICES ASSUME Init PROVE DeadlineInv
  OBVIOUS
<1>1. sub.status = "active"
  BY DEF Init, NoRow
<1>2. GapInv
  <2>1. today = 0 /\ lastSweep = 0
    BY DEF Init
  <2> QED
    BY <2>1, BillingSchedulerAssumption DEF GapInv
<1>3. ASSUME NEW s \in Sched PROVE SweepInv(s)
  <2>1. pc[s] = "idle"
    BY DEF Init
  <2> QED
    BY <2>1 DEF SweepInv
<1> QED
  BY <1>1, <1>2, <1>3 DEF DeadlineInv, RetryInv, Dunning

LEMMA DeadlineStep ==
  ASSUME SingleLoop PROVE CycleInv /\ DeadlineInv /\ [Next]_vars => DeadlineInv'
<1> SUFFICES ASSUME CycleInv, DeadlineInv, [Next]_vars PROVE DeadlineInv'
  OBVIOUS
<1>a. /\ sub \in Row /\ pc \in [Sched -> Steps] /\ now \in [Sched -> Nat]
      /\ row \in [Sched -> Row] /\ clean \in [Sched -> BOOLEAN]
      /\ today \in Nat /\ lastSweep \in Nat /\ unpaidSince \in Nat
  BY BillingSchedulerAssumption DEF CycleInv, TypeInv, TypeOK, StoreTypeOK, Day
<1>b. "canceled" \notin Dunning /\ "active" \notin Dunning
  BY DEF Dunning
<1>c. GapInv /\ RetryInv /\ \A s \in Sched : SweepInv(s) /\ LoopInv(s)
  BY DEF DeadlineInv, CycleInv
<1>d. UNCHANGED <<today, lastSweep>> => GapInv'
  BY <1>c DEF GapInv
<1>e. UNCHANGED <<sub, unpaidSince, lastSweep>> => RetryInv'
  BY <1>c DEF RetryInv, LateDay
<1>1. ASSUME NEW s \in Sched, BillingCycle(s) \/ DunningRun(s)
      PROVE  GapInv' /\ RetryInv' /\ SweepInv(s)'
  <2> USE <1>a, <1>b DEF At, Goto, Step, auxVars, storeVars
  <2>1. SweepInv(s) /\ LoopInv(s)
    BY <1>c
  <2>2. UNCHANGED <<today, lastSweep>>
    BY <1>1
    DEF BillingCycle, DunningRun, ScanBilling, CheckInvoice, LoadOpenInvoice, GenerateInvoice,
        GenerateRejected, ChargeNew, ChargeAgain, Charge, Settle, SettleLate, SettleFrom,
        AdvancePeriodOnly, Recover, AdvanceFrom, EnterDunning, ScanDunning, CancelAndPurge,
        LoadOverdueInvoice, Escalate
  <2>3. CASE ScanBilling(s)
    <3>1. now'[s] = today /\ pc'[s] \in {"check", "rescan"} /\ UNCHANGED <<sub, unpaidSince>>
      BY <2>3 DEF ScanBilling
    <3> QED
      BY <1>c, <1>d, <1>e, <2>2, <3>1 DEF SweepInv, GapInv
  <2>4. CASE CheckInvoice(s) \/ LoadOpenInvoice(s) \/ ChargeNew(s) \/ ChargeAgain(s)
             \/ \E i \in Invoice, zero \in BOOLEAN : GenerateInvoice(s, i, zero)
    <3>1. /\ UNCHANGED <<sub, unpaidSince, now, row, clean>> /\ pc[s] # "idle" /\ pc'[s] # "done"
          /\ pc'[s] \in {"recharge", "resettle", "escalate"}
               => pc[s] \in {"recharge", "resettle", "escalate"}
      BY <2>4 DEF CheckInvoice, LoadOpenInvoice, ChargeNew, ChargeAgain, Charge, GenerateInvoice, Take
    <3> QED
      BY <1>d, <1>e, <2>1, <2>2, <3>1 DEF SweepInv, Elapsed
  <2>5. CASE GenerateRejected(s)
    BY <1>d, <1>e, <2>1, <2>2, <2>5 DEF GenerateRejected, SweepInv, Elapsed
  <2>6. CASE Settle(s) \/ SettleLate(s) \/ AdvancePeriodOnly(s)
    <3>1. /\ sub'.status = "active" /\ UNCHANGED now /\ pc[s] # "idle"
          /\ pc'[s] \in {"rescan", "done"}
      BY <2>6 DEF Settle, SettleLate, SettleFrom, AdvancePeriodOnly, AdvanceFrom, MarkBillingSuccess
    <3> QED
      BY <1>d, <2>1, <2>2, <3>1 DEF RetryInv, SweepInv
  <2>7. ~ Recover(s)
    BY <2>1 DEF Recover, AdvanceFrom, LoopInv
  <2>8. CASE EnterDunning(s)
    <3>1. /\ sub'.status = "past_due" /\ sub'.attempts = 1 /\ sub'.retry = now[s] + 1
          /\ unpaidSince' = now[s] /\ now' = now /\ pc[s] = "refused" /\ pc'[s] = "rescan"
      BY <2>1, <2>8, Offsets DEF EnterDunning, EnterPastDue, LoopInv, Billed, Row
    <3>2. LateDay(1) = 1
      BY Offsets, BillingSchedulerAssumption DEF LateDay
    <3>3. lastSweep < now[s] + 1
      BY <2>1, <3>1 DEF SweepInv
    <3>4. sub'.retry <= unpaidSince' + LateDay(sub'.attempts)
      BY <3>1, <3>2
    <3>5. RetryInv'
      BY <2>2, <3>1, <3>3, <3>4 DEF RetryInv, LateDay
    <3> QED
      BY <1>d, <2>1, <2>2, <3>1, <3>5 DEF SweepInv
  <2>9. CASE ScanDunning(s)
    <3>1. /\ UNCHANGED <<sub, unpaidSince, now, clean>> /\ pc[s] # "idle"
          /\ pc'[s] \in {"overdue", "done"} /\ (pc'[s] = "done" => ~ DueForRetry(now[s]))
      BY <2>9 DEF ScanDunning
    <3>2. sub.status \in Dunning => sub.retry # NoDay
      BY <1>c DEF RetryInv, NoDay
    <3>3. sub.status \in Dunning /\ ~ DueForRetry(now[s]) => now[s] < sub.retry
      BY <3>2 DEF DueForRetry, Row, Day
    <3> QED
      BY <1>d, <1>e, <2>1, <2>2, <3>1, <3>3 DEF SweepInv
  <2>10. CASE CancelAndPurge(s)
    <3>1. sub'.status = "canceled" /\ UNCHANGED now /\ pc[s] # "idle" /\ pc'[s] = "done"
      BY <2>10 DEF CancelAndPurge, Cancel, Row
    <3> QED
      BY <1>d, <2>1, <2>2, <3>1 DEF RetryInv, SweepInv
  <2>11. CASE LoadOverdueInvoice(s)
    <3>1. /\ UNCHANGED <<sub, unpaidSince, now, row, clean>> /\ pc[s] # "idle"
          /\ pc'[s] # "done" /\ Elapsed(s) < CancelDay
      BY <2>11 DEF LoadOverdueInvoice
    <3> QED
      BY <1>d, <1>e, <2>1, <2>2, <3>1 DEF SweepInv, Elapsed
  <2>12. CASE Escalate(s)
    <3>1. PICK n \in 1..4 : n = sub.attempts
      BY <2>12, NextAttempt
    <3>2. PICK m \in 2..5 : m = n + 1
      BY <3>1
    <3>3. /\ sub.status \in Dunning /\ sub'.status \in Dunning /\ sub'.attempts = m
          /\ sub'.status = "suspended" => m = 5
          /\ sub'.retry = now[s] - DunningDay(n) + DunningDay(m)
      BY <2>12, <3>1, <3>2, NextAttempt
    <3>4. /\ UNCHANGED <<unpaidSince, now>> /\ pc[s] # "idle" /\ pc'[s] = "done"
      BY <2>12 DEF Escalate
    <3>5. /\ DunningDay(n) \in Nat /\ DunningDay(m) \in Nat /\ DunningDay(n) < DunningDay(m)
          /\ LateDay(n) \in Int /\ LateDay(m) \in Int
          /\ LateDay(m) = LateDay(n) - DunningDay(n) + DunningDay(m) + (MaxGap - 1)
      BY <3>2, LateDays
    <3>6. now[s] < sub'.retry
      BY <3>3, <3>5
    <3>7. lastSweep < sub'.retry
      BY <2>1, <3>3, <3>4, <3>5, <3>6 DEF SweepInv
    <3>8. /\ lastSweep < sub.retry /\ sub.retry <= unpaidSince + LateDay(n) /\ sub.retry \in Int
      BY <1>c, <3>1, <3>3 DEF RetryInv, Row, Day, NoDay
    <3>9. now[s] <= sub.retry + (MaxGap - 1)
      BY <1>c, <2>1, <3>8, BillingSchedulerAssumption DEF GapInv, LoopInv
    <3>10. sub'.retry <= unpaidSince + LateDay(m)
      BY <3>3, <3>5, <3>8, <3>9, BillingSchedulerAssumption
    <3>11. RetryInv'
      BY <2>2, <3>2, <3>3, <3>4, <3>7, <3>10 DEF RetryInv, LateDay
    <3> QED
      BY <1>d, <2>1, <2>2, <3>4, <3>6, <3>11 DEF SweepInv
  <2> QED
    BY <1>1, <2>3, <2>4, <2>5, <2>6, <2>7, <2>8, <2>9, <2>10, <2>11, <2>12
    DEF BillingCycle, DunningRun
<1>2. ASSUME NEW s \in Sched, EndSweep(s)
      PROVE  GapInv' /\ RetryInv' /\ SweepInv(s)'
  <2>1. /\ pc[s] = "done" /\ pc'[s] = "idle" /\ UNCHANGED <<sub, unpaidSince, today>>
        /\ lastSweep' = IF clean[s] /\ now[s] > lastSweep THEN now[s] ELSE lastSweep
    BY <1>2, <1>a DEF EndSweep, At, Forget, Goto, storeVars
  <2>2. SweepInv(s) /\ now[s] <= today
    BY <1>c DEF LoopInv
  <2>3. GapInv'
    BY <1>a, <1>c, <2>1, <2>2, BillingSchedulerAssumption DEF GapInv
  <2>4. RetryInv'
    BY <1>c, <2>1, <2>2 DEF RetryInv, LateDay, SweepInv
  <2> QED
    BY <2>1, <2>3, <2>4 DEF SweepInv
<1>3. ASSUME NEW s \in Sched, StatementFails(s) \/ Crash(s)
      PROVE  GapInv' /\ RetryInv' /\ SweepInv(s)'
  <2>1. UNCHANGED <<sub, unpaidSince, today, lastSweep>>
    BY <1>3 DEF StatementFails, Crash, storeVars
  <2>2. \/ pc'[s] = "idle"
        \/ pc[s] # "idle" /\ now' = now /\ pc'[s] \in {"rescan", "done"} /\ ~ clean'[s]
    BY <1>3, <1>a DEF StatementFails, Crash, Forget, Goto
  <2>3. SweepInv(s)'
    BY <1>c, <2>1, <2>2 DEF SweepInv
  <2> QED
    BY <1>d, <1>e, <2>1, <2>3
<1>4. CASE NextDay
  <2>1. /\ UNCHANGED <<sub, pc, now, row, clean, unpaidSince, lastSweep>>
        /\ today' = today + 1 /\ today - lastSweep < MaxGap
    BY <1>4 DEF NextDay, storeVars, schedVars
  <2>2. GapInv'
    BY <1>a, <1>c, <2>1, BillingSchedulerAssumption DEF GapInv
  <2>3. ASSUME NEW s \in Sched PROVE SweepInv(s)'
    BY <1>c, <2>1 DEF SweepInv, Elapsed
  <2> QED
    BY <1>e, <2>1, <2>2, <2>3 DEF DeadlineInv
<1>5. CASE UNCHANGED vars
  <2>1. UNCHANGED <<sub, pc, now, row, clean, unpaidSince, today, lastSweep>>
    BY <1>5 DEF vars, storeVars, schedVars, auxVars
  <2>2. ASSUME NEW s \in Sched PROVE SweepInv(s)'
    BY <1>c, <2>1 DEF SweepInv, Elapsed
  <2> QED
    BY <1>d, <1>e, <2>1, <2>2 DEF DeadlineInv
<1>6. ASSUME NEW s \in Sched, GapInv' /\ RetryInv' /\ SweepInv(s)'
      PROVE  DeadlineInv'
  <2>1. \A r \in Sched : SweepInv(r)'
    BY <1>6 DEF SingleLoop
  <2> QED
    BY <1>6, <2>1 DEF DeadlineInv
<1> QED
  BY <1>1, <1>2, <1>3, <1>4, <1>5, <1>6 DEF Next

\* Dunning ends: an org is settled or canceled no later than 14 days after the first
\* failed charge plus what the sweeps were late, at most MaxGap - 1 days for each of
\* the five attempts, and whatever failed or crashed on the way (dunOrg, Escalate).
THEOREM DunningEnds == ASSUME SingleLoop PROVE Spec => []DunningDeadline
<1>1. CycleInv /\ DeadlineInv => DunningDeadline
  <2> SUFFICES ASSUME CycleInv, DeadlineInv, sub.status \in Dunning
               PROVE  today <= unpaidSince + CancelDay + 5 * (MaxGap - 1)
    BY DEF DunningDeadline
  <2>1. /\ today \in Nat /\ lastSweep \in Nat /\ unpaidSince \in Nat /\ sub.retry \in Int
        /\ MaxGap \in Nat
    BY BillingSchedulerAssumption DEF CycleInv, TypeInv, TypeOK, StoreTypeOK, Row, Day, NoDay
  <2>2. /\ today <= lastSweep + MaxGap /\ lastSweep < sub.retry
        /\ sub.retry <= unpaidSince + LateDay(sub.attempts) /\ sub.attempts \in 1..5
    BY DEF DeadlineInv, GapInv, RetryInv
  <2>3. LateDay(sub.attempts) \in Int /\ LateDay(sub.attempts) <= CancelDay + 4 * (MaxGap - 1)
    BY <2>2, LateDays
  <2> QED
    BY <2>1, <2>2, <2>3 DEF CancelDay
<1> QED
  BY <1>1, CycleInit, CycleStep, DeadlineInit, DeadlineStep, PTL DEF Spec
=============================================================================
