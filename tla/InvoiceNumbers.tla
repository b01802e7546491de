--------------------------- MODULE InvoiceNumbers ---------------------------
(***************************************************************************)
(* The numbers of the invoices an org sends its clients in one year.  A    *)
(* request that creates an invoice (createInvoice, generate and fromGit of *)
(* internal/api/invoices.go) takes the number after the highest there is,  *)
(* and inserts the invoice under it; both in a transaction, which does not *)
(* keep another one from taking the same number.  UNIQUE (org_id, number)  *)
(* fails the second, and the request runs its transaction again.           *)
(***************************************************************************)
EXTENDS Integers, FiniteSets

CONSTANTS
  Creator,      \* bound: requests in flight at a time
  MaxAttempts,  \* maxAttempts of withInvoiceNumberRetry
  MaxNumber     \* bound: the highest number

ASSUME InvoiceNumbersAssumption == MaxAttempts \in Nat \ {0} /\ MaxNumber \in Nat

VARIABLES
  used,     \* the numbers of the client_invoices rows
  creator,  \* where each request is
  beaten    \* history: invoices others created since the request began, up to MaxAttempts

numberVars == <<used, creator, beaten>>

Number == 1..MaxNumber

NumberTypeOK ==
  /\ used \subseteq Number
  /\ creator \in [Creator -> [at : {"idle", "next", "insert", "failed"},
                              number : {0} \cup Number, attempt : 0..MaxAttempts]]
  /\ beaten \in [Creator -> 0..MaxAttempts]

NumberInit ==
  /\ used = {}
  /\ creator = [c \in Creator |-> [at |-> "idle", number |-> 0, attempt |-> 0]]
  /\ beaten = [c \in Creator |-> 0]

-----------------------------------------------------------------------------

CreateInvoice(c) ==
  /\ creator[c].at \in {"idle", "failed"}
  /\ creator' = [creator EXCEPT ![c] = [at |-> "next", number |-> 0, attempt |-> 1]]
  /\ beaten' = [beaten EXCEPT ![c] = 0]
  /\ UNCHANGED used

\* NextClientInvoiceNumber: one above the highest.
\* Mutant: the invoices are counted.
MutantIsNext(n) == n = Cardinality(used) + 1
IsNext(n) ==
  /\ \A m \in used : m < n
  /\ n = 1 \/ n - 1 \in used

TakeNumber(c, n) ==
  /\ creator[c].at = "next"
  /\ IsNext(n)
  /\ creator' = [creator EXCEPT ![c].at = "insert", ![c].number = n]
  /\ UNCHANGED <<used, beaten>>

\* An insert under the number of one that is not committed waits for its end.
CreateClientInvoice(c) ==
  /\ creator[c].at = "insert"
  /\ creator[c].number \notin used
  /\ used' = used \cup {creator[c].number}
  /\ creator' = [creator EXCEPT ![c] = [at |-> "idle", number |-> 0, attempt |-> 0]]
  /\ beaten' = [d \in Creator |->
       IF d # c /\ creator[d].at \in {"next", "insert"} /\ beaten[d] < MaxAttempts
         THEN beaten[d] + 1 ELSE beaten[d]]

\* A unique violation: withInvoiceNumberRetry begins again, up to a limit.
Conflict(c) ==
  /\ creator[c].at = "insert"
  /\ creator[c].number \in used
  /\ creator' = [creator EXCEPT ![c] =
       IF @.attempt < MaxAttempts
         THEN [at |-> "next", number |-> 0, attempt |-> @.attempt + 1]
         ELSE [at |-> "failed", number |-> 0, attempt |-> 0]]
  /\ UNCHANGED <<used, beaten>>

DeleteClientInvoice(n) ==
  /\ n \in used
  /\ used' = used \ {n}
  /\ UNCHANGED <<creator, beaten>>

NumberNext ==
  \/ \E c \in Creator : CreateInvoice(c) \/ CreateClientInvoice(c) \/ Conflict(c)
  \/ \E c \in Creator, n \in Number : TakeNumber(c, n)
  \/ \E n \in used : DeleteClientInvoice(n)

NumberSpec == NumberInit /\ [][NumberNext]_numberVars

-----------------------------------------------------------------------------
(* Properties *)

\* A request gives up only when others created as many invoices as it made
\* attempts since it began, whatever was deleted in between: on its own, a
\* creation succeeds.
GivesUpOnlyBeaten ==
  \A c \in Creator : creator[c].at = "failed" => beaten[c] >= MaxAttempts
=============================================================================
