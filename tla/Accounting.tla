---------------------------- MODULE Accounting ----------------------------
(***************************************************************************)
(* The connection of an organisation to an accounting system, and the      *)
(* push of its invoices there (src/internal/api/accounting.go,             *)
(* src/internal/store/accounting.go, src/internal/accounting).             *)
(*                                                                         *)
(* A consent is a grant, of one company.  Its access tokens expire; a      *)
(* refresh token buys the next pair, and some providers rotate it: then    *)
(* only the latest of a grant buys another.  A push reads the invoice and  *)
(* the connection in one transaction; the calls, the write of refreshed    *)
(* tokens and the write of the reference follow, each on its own.          *)
(***************************************************************************)
EXTENDS Integers, FiniteSets

CONSTANTS
  Company,     \* companies of the accounting system
  ClientInvoice,
  Push,        \* requests to push an invoice
  MaxGrants,   \* consents (bound)
  MaxRotations,\* rotations of a grant's refresh token (bound)
  MaxExternal  \* invoices created in the accounting system (bound)

ASSUME AccountingAssumption ==
  /\ {} \notin Company  \* the company of a grant before its consent
  /\ MaxGrants \in Nat /\ MaxRotations \in Nat /\ MaxExternal \in Nat

VARIABLES
  rotation,    \* when the provider rotates a refresh token it is shown
  grantOf,     \* [grant -> its company, or the set of none before the consent]
  newest,      \* [grant -> which of its refresh tokens the provider takes]
  connection,  \* the accounting_connections row, or NoConnection
  external,    \* [1 .. how many -> the invoice of the organisation it was made for]
  externalRef, \* [ClientInvoice -> client_invoices.external_id, 0 is NULL]
  push,        \* [Push -> where it stands]
  spent,       \* grants whose newest token was lost with an answer or a write
  overtaken,   \* grants of which a push stored an older token than the newest
  unlinked     \* external invoices whose reference was lost likewise

accountingVars ==
  <<rotation, grantOf, newest, connection, external, externalRef, push, spent, overtaken,
    unlinked>>

Grant == 1 .. MaxGrants
NoCompany == {}
NoConnection == [company |-> NoCompany]
NoToken == [grant |-> 0, nth |-> 0]
RefreshToken == [grant : Grant, nth : 0 .. MaxRotations] \cup {NoToken}

\* The access token is known by its grant.
Connection == [company : Company, access : Grant, valid : BOOLEAN, refresh : RefreshToken]

PushStep ==
  [step : {"idle"}]
    \cup [step : {"loaded"}, of : ClientInvoice, conn : Connection]
    \cup [step : {"refreshed"}, of : ClientInvoice, conn : Connection]
    \cup [step : {"ready"}, of : ClientInvoice, conn : Connection]
    \cup [step : {"created"}, of : ClientInvoice, id : 1 .. MaxExternal]

AccountingTypeOK ==
  /\ rotation \in {"always", "never", "now and then"}
  /\ grantOf \in [Grant -> Company \cup {NoCompany}]
  /\ newest \in [Grant -> 0 .. MaxRotations]
  /\ connection = NoConnection \/ connection \in Connection
  /\ \A i \in DOMAIN external : i \in 1 .. MaxExternal /\ external[i] \in ClientInvoice
  /\ externalRef \in [ClientInvoice -> 0 .. MaxExternal]
  /\ push \in [Push -> PushStep]
  /\ spent \subseteq Grant /\ overtaken \subseteq Grant
  /\ unlinked \subseteq 1 .. MaxExternal

AccountingInit ==
  /\ rotation \in {"always", "never", "now and then"}
  /\ grantOf = [g \in Grant |-> NoCompany]
  /\ newest = [g \in Grant |-> 0]
  /\ connection = NoConnection
  /\ external = <<>>
  /\ externalRef = [i \in ClientInvoice |-> 0]
  /\ push = [q \in Push |-> [step |-> "idle"]]
  /\ spent = {} /\ overtaken = {}
  /\ unlinked = {}

-----------------------------------------------------------------------------
\* UpsertAccountingConnection: the tokens replace those of the row; a refresh
\* token that did not come leaves the one there.
UpsertAccountingConnection(c, g, refresh) ==
  connection' = [company |-> c, access |-> g, valid |-> TRUE,
                 refresh |-> IF refresh = NoToken /\ connection # NoConnection
                             THEN connection.refresh ELSE refresh]

\* The callback of a consent.  Without a company, or when the row cannot be
\* written, the grant is of no use to anyone.
Callback(c) ==
  /\ \E g \in Grant :
       /\ grantOf[g] = NoCompany
       /\ \A h \in Grant : h < g => grantOf[h] # NoCompany
       /\ grantOf' = [grantOf EXCEPT ![g] = c]
       /\ \/ UpsertAccountingConnection(c, g, [grant |-> g, nth |-> 0])
          \/ UpsertAccountingConnection(c, g, NoToken)
          \/ UNCHANGED connection
  /\ UNCHANGED <<rotation, newest, external, externalRef, push, spent, overtaken,
                 unlinked>>

Disconnect ==
  /\ connection # NoConnection
  /\ connection' = NoConnection
  /\ UNCHANGED <<rotation, grantOf, newest, external, externalRef, push, spent, overtaken,
                 unlinked>>

\* Time passes the access token's expiry.
AccessExpires ==
  /\ connection # NoConnection
  /\ connection.valid
  /\ connection' = [connection EXCEPT !.valid = FALSE]
  /\ UNCHANGED <<rotation, grantOf, newest, external, externalRef, push, spent, overtaken,
                 unlinked>>

-----------------------------------------------------------------------------
To(q, s) == push' = [push EXCEPT ![q] = s]
End(q) == To(q, [step |-> "idle"])

\* One transaction reads the invoice and the connection.
LoadPush(q, i) ==
  /\ push[q].step = "idle"
  /\ connection # NoConnection
  /\ To(q, [step |-> IF connection.valid THEN "ready" ELSE "loaded",
            of |-> i, conn |-> connection])
  /\ UNCHANGED <<rotation, grantOf, newest, connection, external, externalRef, spent,
                 overtaken, unlinked>>

\* What the one presented may be followed by: the next, or itself carried forward.
Rotations(nth) ==
  {n \in {nth, nth + 1} : /\ rotation = "always" => n = nth + 1
                          /\ rotation = "never" => n = nth
                          /\ n <= MaxRotations}

\* The provider takes the newest refresh token of a grant.
Refresh(q) ==
  LET t == push[q].conn.refresh
  IN /\ push[q].step = "loaded"
     /\ t # NoToken
     /\ newest[t.grant] = t.nth
     /\ \E next \in Rotations(t.nth) :
          /\ newest' = [newest EXCEPT ![t.grant] = next]
          /\ \/ /\ To(q, [push[q] EXCEPT !.step = "refreshed",
                            !.conn = [@ EXCEPT !.access = t.grant, !.valid = TRUE,
                                               !.refresh = [t EXCEPT !.nth = next]]])
                /\ UNCHANGED spent
             \/ /\ End(q)  \* the answer is lost
                /\ spent' = IF next = t.nth THEN spent ELSE spent \cup {t.grant}
     /\ UNCHANGED <<rotation, grantOf, connection, external, externalRef, overtaken, unlinked>>

\* No refresh token, one the provider no longer takes, or a call that fails.
RefreshFails(q) ==
  /\ push[q].step = "loaded"
  /\ End(q)
  /\ UNCHANGED <<rotation, grantOf, newest, connection, external, externalRef, spent,
                 overtaken, unlinked>>

\* The rotated refresh token is not among what is written: a plausible slip.
MutantUpdateAccountingTokens(t) ==
  connection' = IF connection = NoConnection THEN connection
                ELSE [connection EXCEPT !.access = t.grant, !.valid = TRUE]

\* UpdateAccountingTokens: whatever the row of the provider now is, if there is one.
UpdateAccountingTokens(t) ==
  connection' = IF connection = NoConnection THEN connection
                ELSE [connection EXCEPT !.access = t.grant, !.valid = TRUE, !.refresh = t]

IsNewest(t) == t.nth = newest[t.grant]
IsStored(t) == connection # NoConnection /\ connection.refresh = t

\* Best effort: the push goes on when the write fails.
PersistTokens(q) ==
  LET t == push[q].conn.refresh
  IN /\ push[q].step = "refreshed"
     /\ To(q, [push[q] EXCEPT !.step = "ready"])
     /\ \/ /\ UpdateAccountingTokens(t)
           /\ overtaken' = IF connection = NoConnection \/ IsNewest(t) THEN overtaken
                           ELSE overtaken \cup {t.grant}
           /\ UNCHANGED spent
        \/ /\ spent' = IF IsNewest(t) /\ ~IsStored(t) THEN spent \cup {t.grant} ELSE spent
           /\ UNCHANGED <<connection, overtaken>>
     /\ UNCHANGED <<rotation, grantOf, newest, external, externalRef, unlinked>>

\* The provider creates the invoice, in the company the token is for; the answer
\* may be lost.
CreateInvoice(q) ==
  LET id == Cardinality(DOMAIN external) + 1
  IN /\ push[q].step = "ready"
     /\ id <= MaxExternal
     /\ grantOf[push[q].conn.access] = push[q].conn.company
     /\ external' = [i \in 1 .. id |-> IF i = id THEN push[q].of ELSE external[i]]
     /\ \/ To(q, [step |-> "created", of |-> push[q].of, id |-> id]) /\ UNCHANGED unlinked
        \/ End(q) /\ unlinked' = unlinked \cup {id}
     /\ UNCHANGED <<rotation, grantOf, newest, connection, externalRef, spent,
                    overtaken>>

\* It refuses a token of another company, or the invoice, or is not reached.
CreateFails(q) ==
  /\ push[q].step = "ready"
  /\ End(q)
  /\ UNCHANGED <<rotation, grantOf, newest, connection, external, externalRef, spent,
                 overtaken, unlinked>>

\* SetInvoiceExternalRef; a failure is logged and the push answered all the same.
SetInvoiceExternalRef(q) ==
  /\ push[q].step = "created"
  /\ End(q)
  /\ \/ externalRef' = [externalRef EXCEPT ![push[q].of] = push[q].id] /\ UNCHANGED unlinked
     \/ UNCHANGED externalRef /\ unlinked' = unlinked \cup {push[q].id}
  /\ UNCHANGED <<rotation, grantOf, newest, connection, external, spent, overtaken>>

AccountingNext ==
  \/ \E c \in Company : Callback(c)
  \/ Disconnect
  \/ AccessExpires
  \/ \E q \in Push :
       \/ \E i \in ClientInvoice : LoadPush(q, i)
       \/ Refresh(q)
       \/ RefreshFails(q)
       \/ PersistTokens(q)
       \/ CreateInvoice(q)
       \/ CreateFails(q)
       \/ SetInvoiceExternalRef(q)

AccountingSpec == AccountingInit /\ [][AccountingNext]_accountingVars

-----------------------------------------------------------------------------
\* The refresh token a connection keeps is the one the provider takes, or a push has
\* that one and is about to store it, or it was lost with an answer or a write that
\* failed, or an older one was stored in its place.
NewestKept ==
  \/ connection = NoConnection
  \/ connection.refresh = NoToken
  \/ LET t == connection.refresh
     IN \/ IsNewest(t)
        \/ t.grant \in spent \cup overtaken
        \/ \E q \in Push : /\ push[q].step = "refreshed"
                           /\ push[q].conn.refresh = [t EXCEPT !.nth = newest[t.grant]]

\* Pushes that refresh at a time, and pushes that outlive the connection they read, store
\* the refresh token the provider takes; an older one is stored in its place only with a
\* provider that rotates now and then.  There, two pushes of one token may get it back
\* (the carry-forward of xero.go:89) and its successor, and nothing orders their writes.
\* Whose company the tokens are of is another matter: see TokensOfCompany.
StoredTokenLives ==
  /\ NewestKept
  /\ overtaken # {} => rotation = "now and then"

\* An invoice made in the accounting system is the one the organisation's invoice
\* refers to, unless another push of it was later, or its answer or the write of
\* the reference was lost; and a reference is to an invoice made for it.
PushedIsReferenced ==
  /\ \A i \in DOMAIN external :
       \/ externalRef[external[i]] = i
       \/ i \in unlinked
       \/ \E q \in Push : push[q].step = "created" /\ push[q].id = i
       \/ \E j \in DOMAIN external \ {i} :
            external[j] = external[i] /\ externalRef[external[i]] = j
  /\ \A v \in ClientInvoice : externalRef[v] # 0 => external[externalRef[v]] = v

\* False of the code: a push that outlives a reconnection to another company writes
\* its tokens into the new row, and every later push is refused.
TokensOfCompany ==
  connection # NoConnection => grantOf[connection.access] = connection.company
=============================================================================
