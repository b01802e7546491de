------------------------------- MODULE Wallet -------------------------------
(***************************************************************************)
(* The prepaid wallet of one org: the append-only wallet_ledger            *)
(* (internal/store/billing.go) and the transactions that write it, a       *)
(* top-up (CreditWalletTopup of internal/billing/service.go) or the debit  *)
(* of an estimate (EstimateForPR of internal/metrics/compute.go).          *)
(*                                                                         *)
(* Every row carries the balance after it.  A writer selects the newest    *)
(* row FOR UPDATE and adds its amount.  Under READ COMMITTED the statement *)
(* finds the newest row as it starts; if that row is locked it waits and   *)
(* then returns the same row, which the other writer did not change: it    *)
(* added a newer one.  An empty ledger has no row to lock.  seq is drawn   *)
(* when a row is inserted, so rows need not become visible in its order.   *)
(***************************************************************************)
EXTENDS Integers, FiniteSets, Sequences, FiniteSetsExt

CONSTANTS
  Writer,       \* bound: transactions at a time
  Ref,          \* Paystack references
  TopupCents,   \* amount of a top-up
  UsageCents,   \* amount of a debit
  MaxRows       \* bound: values of seq

ASSUME WalletAssumption ==
  /\ TopupCents \in Nat \ {0}
  /\ UsageCents \in Nat \ {0}
  /\ MaxRows \in Nat

VARIABLES
  ledger,  \* wallet_ledger, by seq
  writer,  \* the transaction of each writer
  moved    \* history: what the transactions that committed added, less what they took

walletVars == <<ledger, writer, moved>>

NoRef == "none"      \* a debit has no reference of a payment
Seqno == 1..MaxRows
NoRow == 0           \* the newest row of an empty ledger

\* base is the row the balance was read from.
LedgerRow == [ref : Ref \cup {NoRef}, base : Seqno \cup {NoRow}, after : Int,
              state : {"open", "committed", "rolled_back"}]

At == {"idle", "read", "lock", "insert", "commit"}

WalletTypeOK ==
  /\ ledger \in Seq(LedgerRow)
  /\ Len(ledger) <= MaxRows
  /\ writer \in [Writer -> [at : At, ref : Ref \cup {NoRef},
                            base : Seqno \cup {NoRow}, row : Seqno \cup {NoRow}]]
  /\ moved \in Int

IdleWriter == [at |-> "idle", ref |-> NoRef, base |-> NoRow, row |-> NoRow]

WalletInit ==
  /\ ledger = <<>>
  /\ writer = [w \in Writer |-> IdleWriter]
  /\ moved = 0

Rows(state) == {n \in DOMAIN ledger : ledger[n].state = state}

Amount(ref) == IF ref = NoRef THEN -UsageCents ELSE TopupCents

\* ORDER BY seq DESC LIMIT 1
\* Mutant: the oldest row.
MutantNewest == IF Rows("committed") = {} THEN NoRow ELSE Min(Rows("committed"))
Newest == Max(Rows("committed") \cup {NoRow})

\* balance_after_cents of a row; an empty ledger has none.
Balance(n) == IF n = NoRow THEN 0 ELSE ledger[n].after

-----------------------------------------------------------------------------
(* A transaction *)

\* WalletTopupExists: a reference that was credited is not credited again.
BeginTopup(w, ref) ==
  /\ writer[w].at = "idle"
  /\ \A n \in Rows("committed") : ledger[n].ref # ref
  /\ writer' = [writer EXCEPT ![w].at = "read", ![w].ref = ref]
  /\ UNCHANGED <<ledger, moved>>

BeginDebit(w) ==
  /\ writer[w].at = "idle"
  /\ writer' = [writer EXCEPT ![w].at = "read"]
  /\ UNCHANGED <<ledger, moved>>

\* The locking select starts: it sees what is committed now.
Select(w) ==
  /\ writer[w].at = "read"
  /\ writer' = [writer EXCEPT ![w].at = IF Newest = NoRow THEN "insert" ELSE "lock",
                              ![w].base = Newest]
  /\ UNCHANGED <<ledger, moved>>

Locked(n) == \E w \in Writer : writer[w].at \in {"insert", "commit"} /\ writer[w].base = n

\* The row is locked until the transaction ends.
Lock(w) ==
  /\ writer[w].at = "lock"
  /\ ~Locked(writer[w].base)
  /\ writer' = [writer EXCEPT ![w].at = "insert"]
  /\ UNCHANGED <<ledger, moved>>

\* The unique index on (org_id, ref) of top-ups: an insert waits for one under
\* way to end, and fails if that one has committed.
Unique(ref) == ref # NoRef => \A n \in Rows("open") \cup Rows("committed") : ledger[n].ref # ref

WalletAppend(w) ==
  /\ writer[w].at = "insert"
  /\ Len(ledger) < MaxRows
  /\ Unique(writer[w].ref)
  /\ ledger' = Append(ledger, [ref   |-> writer[w].ref,
                               base  |-> writer[w].base,
                               after |-> Balance(writer[w].base) + Amount(writer[w].ref),
                               state |-> "open"])
  /\ writer' = [writer EXCEPT ![w].at = "commit", ![w].row = Len(ledger) + 1]
  /\ UNCHANGED moved

Finish(w, state) ==
  /\ writer' = [writer EXCEPT ![w] = IdleWriter]
  /\ ledger' = IF writer[w].row = NoRow THEN ledger
               ELSE [ledger EXCEPT ![writer[w].row].state = state]

Commit(w) ==
  /\ writer[w].at = "commit"
  /\ Finish(w, "committed")
  /\ moved' = moved + Amount(writer[w].ref)

\* A statement fails, which rolls the transaction back even where the code goes
\* on after it, or the process dies.
Rollback(w) ==
  /\ writer[w].at # "idle"
  /\ Finish(w, "rolled_back")
  /\ UNCHANGED moved

WalletNext ==
  \E w \in Writer :
    \/ \E ref \in Ref : BeginTopup(w, ref)
    \/ BeginDebit(w) \/ Select(w) \/ Lock(w) \/ WalletAppend(w) \/ Commit(w) \/ Rollback(w)

WalletSpec == WalletInit /\ [][WalletNext]_walletVars

-----------------------------------------------------------------------------
(* Properties *)

\* A payment is credited once, though the webhook that reports it may be
\* handled twice at a time.
TopupOnce ==
  \A m, n \in Rows("committed") : m # n /\ ledger[m].ref = ledger[n].ref => ledger[m].ref = NoRef

\* A row whose writer read the balance before a row between was committed.
Stale(n) == \E m \in Rows("committed") : ledger[n].base < m /\ m < n

\* The balance is the sum of what committed, unless two writers overlapped.
BalanceUnlessStale == (\E n \in Rows("committed") : Stale(n)) \/ Balance(Newest) = moved

\* Both: through top-ups reported twice, debits, failures and rollbacks the ledger
\* of an organisation counts each payment once and every debit.
BalanceSound == TopupOnce /\ BalanceUnlessStale

\* "so concurrent writers serialise correctly": the balance is the sum of the
\* amounts.
WritersSerialise == Balance(Newest) = moved
=============================================================================
