---------------------------- MODULE InvoicePatch ----------------------------
(***************************************************************************)
(* One invoice to a client and the requests that patch it: patchInvoice    *)
(* of internal/api/invoices.go, and the statements of internal/store/      *)
(* invoicing.go it runs in one transaction.                                *)
(*                                                                         *)
(* A patch may set the status and any of discount, tax and tax rate.  It   *)
(* reads the row and writes what follows from it; under READ COMMITTED     *)
(* another patch may write the row in between.  A patch that mints the     *)
(* share token writes it before it reads the amounts, and the row is its   *)
(* own from then on.                                                       *)
(***************************************************************************)
EXTENDS Integers

CONSTANTS
  Patcher,   \* bound: patches in flight at a time
  Subtotal,  \* sum of the lines, in cents
  Discounts, \* bound: discounts an invoice is created with
  Ask        \* bound: the patches that are asked for

Status == {"draft", "sent", "paid", "void"}

\* A field of a patch is a set: empty when it is left out.
ASSUME InvoicePatchAssumption ==
  /\ Subtotal \in Nat
  /\ Discounts \subseteq Int
  /\ \A a \in Ask : a.status \subseteq Status /\ a.discount \subseteq Int
                    /\ a.tax \subseteq Int /\ a.rate \subseteq Nat

Given(field, or) == IF field = {} THEN or ELSE CHOOSE x \in field : TRUE

VARIABLES
  status,
  money,    \* discount_cents, tax_cents, tax_rate and total_cents
  minted,   \* share tokens the row has had; it has the last one
  stamped,  \* how often issued_at was set
  patch     \* what each patch asks for, and what it has read

patchVars == <<status, money, minted, stamped, patch>>

Money == [discount : Int, tax : Nat, rate : Nat, total : Nat]

IdlePatch == [at |-> "idle"]
ReadPatch == [at : {"write"}, ask : Ask, shared : BOOLEAN, money : Money]

PatchTypeOK ==
  /\ status \in Status
  /\ money \in Money
  /\ minted \in Nat
  /\ stamped \in Nat
  /\ patch \in [Patcher -> {IdlePatch} \cup ReadPatch]

AtLeast0(n) == IF n < 0 THEN 0 ELSE n

\* computeInvoiceTotals: a tax of 0 stands for the one the rate gives.
Base(discount) == AtLeast0(Subtotal - AtLeast0(discount))

Tax(discount, tax, rate) ==
  AtLeast0(IF tax = 0 /\ rate > 0 THEN (Base(discount) * rate + 50) \div 100 ELSE tax)

Totals(discount, tax, rate) ==
  [discount |-> discount,
   tax      |-> Tax(discount, tax, rate),
   rate     |-> rate,
   total    |-> Base(discount) + Tax(discount, tax, rate)]

\* CreateClientInvoice takes no negative discount.
PatchInit ==
  /\ status = "draft"
  /\ \E d \in Discounts : money = Totals(AtLeast0(d), 0, 0)
  /\ minted = 0
  /\ stamped = 0
  /\ patch = [q \in Patcher |-> IdlePatch]

-----------------------------------------------------------------------------

\* The row as the patch reads it.
Read(q, ask) ==
  /\ patch[q] = IdlePatch
  /\ patch' = [patch EXCEPT ![q] =
       [at |-> "write", ask |-> ask, shared |-> minted > 0, money |-> money]]
  /\ UNCHANGED <<status, money, minted, stamped>>

\* UpdateClientInvoice: the amounts that are not asked for are those that were
\* read.  A tax is kept unless it or the rate is asked for; a discount is not
\* clamped.
\* Mutant: a discount that is not asked for is left as the row has it.
MutantAmounts(ask, cur) ==
  IF ask.discount = {} /\ ask.tax = {} /\ ask.rate = {} THEN money
  ELSE [Totals(Given(ask.discount, cur.discount),
               Given(ask.tax, IF ask.rate = {} THEN cur.tax ELSE 0),
               Given(ask.rate, cur.rate))
          EXCEPT !.discount = Given(ask.discount, money.discount)]
Amounts(ask, cur) ==
  IF ask.discount = {} /\ ask.tax = {} /\ ask.rate = {} THEN money
  ELSE Totals(Given(ask.discount, cur.discount),
              Given(ask.tax, IF ask.rate = {} THEN cur.tax ELSE 0),
              Given(ask.rate, cur.rate))

Mints(q) == patch[q].ask.status = {"sent"} /\ ~patch[q].shared

Write(q) ==
  /\ patch[q].at = "write"
  /\ LET ask == patch[q].ask
     IN  /\ money' = Amounts(ask, IF Mints(q) THEN money ELSE patch[q].money)
         /\ status' = Given(ask.status, status)
         /\ minted' = IF Mints(q) THEN minted + 1 ELSE minted
         /\ stamped' = IF ask.status = {"sent"} /\ stamped = 0 THEN 1 ELSE stamped
  /\ patch' = [patch EXCEPT ![q] = IdlePatch]

Roll(q) ==
  /\ patch[q].at = "write"
  /\ patch' = [patch EXCEPT ![q] = IdlePatch]
  /\ UNCHANGED <<status, money, minted, stamped>>

PatchNext ==
  \E q \in Patcher :
    \/ \E ask \in Ask : Read(q, ask)
    \/ Write(q)
    \/ Roll(q)

PatchSpec == PatchInit /\ [][PatchNext]_patchVars

-----------------------------------------------------------------------------
(* Properties *)

\* The total follows from the discount and the tax that stand beside it,
\* however patches of different amounts overlap.
MoneyCoherent ==
  money.total = Base(money.discount) + money.tax

\* An invoice that shows as sent has a link to share and a date of issue.
SentIsShared == status = "sent" => minted > 0 /\ stamped > 0
=============================================================================
