---------------------------- MODULE AccountsProofs ----------------------------
(***************************************************************************)
(* Theorems of RefreshTokens, InvoiceNumbers, InvoicePatch, Wallet, Leave, *)
(* GitConnection, Listing, Seed and Notifications: what holds of a login's *)
(* tokens and an organisation's invoices, wallet, leave and connection for *)
(* any number of requests that overlap, of what it reads from a provider,  *)
(* page by page, for any number of items, of the demo rows that any number *)
(* of runs of the seed commands leave, and of the digests it sends while   *)
(* its channels are edited.                                                *)
(***************************************************************************)
EXTENDS RefreshTokens, InvoiceNumbers, InvoicePatch, Wallet, Leave, GitConnection, Listing, Seed,
        Notifications, FiniteSetTheorems, WellFoundedInduction, TLAPS

(* Numbers *)

\* A set of numbers that is not empty has a least one.
LEMMA LeastNatural ==
  ASSUME NEW S \in SUBSET Nat, S # {}
  PROVE  \E m \in S : \A n \in S : m <= n
<1> DEFINE R == {ss \in Nat \X Nat : ss[1] < ss[2]}
<1>1. IsWellFoundedOn(R, Nat)
  BY NatLessThanWellFounded DEF OpToRel
<1> HIDE DEF R
<1>2. PICK m \in S : \A n \in S : ~(<<n, m>> \in R)
  BY <1>1, WFMin
<1>3. ASSUME NEW n \in S, n < m PROVE FALSE
  <2>1. <<n, m>> \in Nat \X Nat /\ <<n, m>>[1] < <<n, m>>[2]
    BY <1>3
  <2> QED
    BY <1>2, <2>1 DEF R
<1> QED
  BY <1>3, <1>2

\* Max of a bounded set that is not empty is in it, and nothing in it is above.
LEMMA MaxIsGreatest ==
  ASSUME NEW N \in Nat, NEW S \in SUBSET (0 .. N), S # {}
  PROVE  Max(S) \in S /\ \A n \in S : n <= Max(S)
<1> DEFINE T == {N - n : n \in S}
<1>1. PICK m \in T : \A n \in T : m <= n
  <2>1. ASSUME NEW n \in S PROVE N - n \in Nat
    OBVIOUS
  <2>2. T \in SUBSET Nat
    BY <2>1
  <2>3. T # {}
    <3>1. PICK n \in S : TRUE
      OBVIOUS
    <3> QED
      BY <3>1
  <2> HIDE DEF T
  <2> QED
    BY <2>2, <2>3, LeastNatural
<1>2. PICK x \in S : m = N - x
  OBVIOUS
<1>3. \A y \in S : x >= y
  BY <1>1, <1>2
<1> QED
  BY <1>3 DEF Max

-----------------------------------------------------------------------------
(* Refresh tokens *)

\* Every variable stays in its type (refresh_tokens and the requests on it).
THEOREM TokenTypeCorrect == TokenSpec => []TokenTypeOK
<1>1. TokenInit => TokenTypeOK
  BY DEF TokenInit, TokenTypeOK
<1>2. TokenTypeOK /\ [TokenNext]_tokenVars => TokenTypeOK'
  <2> SUFFICES ASSUME TokenTypeOK, [TokenNext]_tokenVars PROVE TokenTypeOK'
    OBVIOUS
  <2> USE DEF TokenTypeOK, Found
  <2>1. ASSUME NEW t \in Token, Expire(t) PROVE TokenTypeOK'
    BY <2>1 DEF Expire
  <2>2. ASSUME NEW t \in Token, NEW f \in Family, LogIn(t, f) PROVE TokenTypeOK'
    BY <2>2 DEF LogIn, Insert
  <2>3. ASSUME NEW q \in Request, NEW t \in Token, NEW f \in Family,
               NEW then \in {"rotate", "revoke"}, Find(q, t, f, then)
        PROVE  TokenTypeOK'
    BY <2>3 DEF Find
  <2>4. ASSUME NEW q \in Request, NEW t \in Token, RotateRefresh(q, t) PROVE TokenTypeOK'
    <3>1. request[q] \in Found
      BY <2>4 DEF RotateRefresh, Idle
    <3> QED
      BY <2>4, <3>1 DEF RotateRefresh, Insert
  <2>5. ASSUME NEW q \in Request, RevokeFamily(q) PROVE TokenTypeOK'
    <3>1. request[q] \in Found
      BY <2>5 DEF RevokeFamily, Idle
    <3> QED
      BY <2>5, <3>1 DEF RevokeFamily
  <2>6. ASSUME NEW q \in Request, Drop(q) PROVE TokenTypeOK'
    BY <2>6 DEF Drop
  <2>7. CASE UNCHANGED tokenVars
    BY <2>7 DEF tokenVars
  <2> QED
    BY <2>1, <2>2, <2>3, <2>4, <2>5, <2>6, <2>7 DEF TokenNext, Refresh, LogOut
<1> QED
  BY <1>1, <1>2, PTL DEF TokenSpec

-----------------------------------------------------------------------------
(* One live token per login *)

\* A rotation works on a token of its family, which is what makes room for the
\* one it inserts.
FoundInFamily ==
  \A q \in Request : request[q] # Idle => request[q].token \in tokens[request[q].family]

LiveInv == TokenTypeOK /\ FoundInFamily /\ OneLiveToken

\* The live tokens of a family are finitely many.
LEMMA LiveFinite ==
  ASSUME TokenTypeOK, NEW f \in Family
  PROVE  IsFiniteSet(Live(f)) /\ Cardinality(Live(f)) \in Nat
BY RefreshTokensAssumption, FS_Subset, FS_CardinalityType DEF TokenTypeOK, Live

\* No action but a login and a rotation adds a live token (the UPDATEs of
\* refresh_tokens.go only ever set replaced_by and revoked_at).
LEMMA LiveOnlyShrinks ==
  ASSUME LiveInv, NEW f \in Family,
         Live(f)' \subseteq Live(f), raced'[f] = raced[f]
  PROVE  Cardinality(Live(f)') <= 1 + raced'[f]
<1>1. Cardinality(Live(f)') <= Cardinality(Live(f)) /\ Cardinality(Live(f)') \in Nat
  BY LiveFinite, FS_Subset, FS_CardinalityType DEF LiveInv
<1>2. Cardinality(Live(f)) <= 1 + raced[f] /\ raced[f] \in Nat
  BY DEF LiveInv, OneLiveToken, TokenTypeOK
<1> QED
  BY <1>1, <1>2, LiveFinite DEF LiveInv

LEMMA LiveStep == LiveInv /\ TokenTypeOK' /\ [TokenNext]_tokenVars => LiveInv'
<1> SUFFICES ASSUME LiveInv, TokenTypeOK', [TokenNext]_tokenVars PROVE LiveInv'
  OBVIOUS
<1>0. TokenTypeOK
  BY DEF LiveInv
<1>a. ASSUME \A f \in Family : Live(f)' \subseteq Live(f) /\ raced'[f] = raced[f]
      PROVE  OneLiveToken'
  BY <1>a, LiveOnlyShrinks DEF OneLiveToken
<1>1. ASSUME NEW t \in Token, Expire(t) PROVE LiveInv'
  BY <1>a, <1>1 DEF Expire, LiveInv, FoundInFamily, Live
<1>2. ASSUME NEW t \in Token, NEW f \in Family, LogIn(t, f) PROVE LiveInv'
  <2>1. FoundInFamily'
    BY <1>2, <1>0 DEF LogIn, Insert, LiveInv, FoundInFamily, TokenTypeOK, Found, Idle
  <2>2. Live(f)' \subseteq {t} /\ raced'[f] \in Nat
    BY <1>2, <1>0 DEF LogIn, Insert, Live, TokenTypeOK
  <2>3. Cardinality(Live(f)') <= 1
    <3>1. IsFiniteSet({t}) /\ Cardinality({t}) = 1
      BY FS_Singleton
    <3> QED
      BY <2>2, <3>1, FS_Subset
  <2>4. Cardinality(Live(f)') \in Nat
    BY <2>2, FS_Singleton, FS_Subset, FS_CardinalityType
  <2>5. ASSUME NEW g \in Family, g # f PROVE Cardinality(Live(g)') <= 1 + raced'[g]
    <3>1. Live(g)' \subseteq Live(g) /\ raced'[g] = raced[g]
      BY <1>2, <2>5, <1>0 DEF LogIn, Insert, Live, TokenTypeOK
    <3> QED
      BY <3>1, LiveOnlyShrinks
  <2>6. \A g \in Family : Cardinality(Live(g)') <= 1 + raced'[g]
    BY <2>2, <2>3, <2>4, <2>5
  <2> QED
    BY <2>1, <2>6 DEF LiveInv, OneLiveToken
<1>3. ASSUME NEW q \in Request, NEW t \in Token, NEW f \in Family,
             NEW then \in {"rotate", "revoke"}, Find(q, t, f, then)
      PROVE  LiveInv'
  <2>1. FoundInFamily'
    BY <1>3, <1>0 DEF Find, LiveInv, FoundInFamily, TokenTypeOK, Found, Idle
  <2> QED
    BY <1>a, <1>3, <2>1 DEF Find, LiveInv, Live
<1>4. ASSUME NEW q \in Request, NEW t \in Token, RotateRefresh(q, t) PROVE LiveInv'
  <2>0. /\ request[q] \in Found
        /\ request[q].token \in tokens[request[q].family]
    BY <1>4, <1>0 DEF RotateRefresh, Idle, TokenTypeOK, LiveInv, FoundInFamily, Found
  <2>1. PICK f \in Family, old \in Token :
          /\ request[q].token = old /\ request[q].family = f
          /\ old \in tokens[f]
    BY <2>0 DEF Found
  <2>2. FoundInFamily'
    <3> SUFFICES ASSUME NEW p \in Request, request'[p] # Idle
                 PROVE  request'[p].token \in tokens'[request'[p].family]
      BY DEF FoundInFamily
    <3>1. request'[p] = request[p] /\ request[p] # Idle
      BY <1>4, <1>0 DEF RotateRefresh, TokenTypeOK
    <3>2. request[p] \in Found /\ request[p].token \in tokens[request[p].family]
      BY <3>1, <1>0 DEF LiveInv, FoundInFamily, TokenTypeOK
    <3>3. \A g \in Family : tokens[g] \subseteq tokens'[g]
      BY <1>4, <1>0 DEF RotateRefresh, Insert, TokenTypeOK
    <3>4. request[p].family \in Family
      BY <3>2 DEF Found
    <3> QED
      BY <3>1, <3>2, <3>3, <3>4
  <2>3. /\ Live(f)' \subseteq (Live(f) \ {old}) \cup {t}
        /\ raced'[f] = IF old \in Live(f) THEN raced[f] ELSE raced[f] + 1
        /\ raced[f] \in Nat
    BY <1>4, <1>0, <2>1 DEF RotateRefresh, Insert, Live, TokenTypeOK
  <2>4. /\ Cardinality(Live(f)) <= 1 + raced[f] /\ Cardinality(Live(f)) \in Nat
        /\ IsFiniteSet(Live(f))
    BY <1>0, <2>1, LiveFinite DEF LiveInv, OneLiveToken
  <2>5. /\ IsFiniteSet(Live(f) \ {old})
        /\ Cardinality(Live(f) \ {old})
             = IF old \in Live(f) THEN Cardinality(Live(f)) - 1 ELSE Cardinality(Live(f))
        /\ Cardinality(Live(f) \ {old}) \in Nat
    <3>1. IsFiniteSet(Live(f) \ {old})
      BY <2>4, FS_RemoveElement
    <3> QED
      BY <2>4, <3>1, FS_RemoveElement, FS_CardinalityType
  <2>6. /\ IsFiniteSet((Live(f) \ {old}) \cup {t})
        /\ Cardinality((Live(f) \ {old}) \cup {t}) <= Cardinality(Live(f) \ {old}) + 1
        /\ Cardinality((Live(f) \ {old}) \cup {t}) \in Nat
    <3>1. /\ IsFiniteSet((Live(f) \ {old}) \cup {t})
          /\ Cardinality((Live(f) \ {old}) \cup {t})
               = IF t \in Live(f) \ {old} THEN Cardinality(Live(f) \ {old})
                 ELSE Cardinality(Live(f) \ {old}) + 1
      BY <2>5, FS_AddElement
    <3> QED
      BY <2>5, <3>1, FS_CardinalityType
  <2>7. /\ Cardinality(Live(f)') <= Cardinality((Live(f) \ {old}) \cup {t})
        /\ Cardinality(Live(f)') \in Nat
    BY <2>3, <2>6, FS_Subset, FS_CardinalityType
  <2>8. Cardinality(Live(f)') <= 1 + raced'[f]
    BY <2>3, <2>4, <2>5, <2>6, <2>7
  <2>9. ASSUME NEW g \in Family, g # f PROVE Cardinality(Live(g)') <= 1 + raced'[g]
    <3>1. Live(g)' \subseteq Live(g) /\ raced'[g] = raced[g]
      BY <1>4, <2>1, <2>9, <1>0 DEF RotateRefresh, Insert, Live, TokenTypeOK
    <3> QED
      BY <3>1, LiveOnlyShrinks
  <2>10. ASSUME NEW g \in Family PROVE Cardinality(Live(g)') <= 1 + raced'[g]
    <3>1. CASE g = f
      BY <2>8, <3>1
    <3>2. CASE g # f
      BY <2>9, <3>2
    <3> QED
      BY <3>1, <3>2
  <2> QED
    BY <2>2, <2>10 DEF LiveInv, OneLiveToken
<1>5. ASSUME NEW q \in Request, RevokeFamily(q) PROVE LiveInv'
  <2>1. FoundInFamily'
    BY <1>5, <1>0 DEF RevokeFamily, LiveInv, FoundInFamily, TokenTypeOK, Found, Idle
  <2> QED
    BY <1>a, <1>5, <2>1 DEF RevokeFamily, LiveInv, Live
<1>6. ASSUME NEW q \in Request, Drop(q) PROVE LiveInv'
  <2>1. FoundInFamily'
    BY <1>6, <1>0 DEF Drop, LiveInv, FoundInFamily, TokenTypeOK, Found, Idle
  <2> QED
    BY <1>a, <1>6, <2>1 DEF Drop, LiveInv, Live
<1>7. CASE UNCHANGED tokenVars
  BY <1>a, <1>7 DEF tokenVars, LiveInv, FoundInFamily, Live
<1> QED
  BY <1>1, <1>2, <1>3, <1>4, <1>5, <1>6, <1>7 DEF TokenNext, Refresh, LogOut

\* A login has one live token at a time, and one more for each rotation of a
\* token that had been traded or revoked since the request looked it up
\* (RotateRefresh does not look again).
THEOREM OneLiveTokenPerLogin == TokenSpec => []OneLiveToken
<1>1. TokenInit => LiveInv
  <2> SUFFICES ASSUME TokenInit PROVE LiveInv
    OBVIOUS
  <2>1. TokenTypeOK /\ FoundInFamily
    BY DEF TokenInit, TokenTypeOK, FoundInFamily
  <2>2. \A f \in Family : Live(f) = {} /\ raced[f] = 0
    BY DEF TokenInit, Live
  <2>3. OneLiveToken
    BY <2>2, FS_EmptySet DEF OneLiveToken
  <2> QED
    BY <2>1, <2>3 DEF LiveInv
<1>2. LiveInv => OneLiveToken
  BY DEF LiveInv
<1> QED
  BY <1>1, <1>2, LiveStep, TokenTypeCorrect, PTL DEF TokenSpec

-----------------------------------------------------------------------------
(* The end of a login *)

\* Once a login has no live token and no rotation under way, nothing revives it:
\* a rotation begins only from a live token (refresh of auth.go).
THEOREM EndedForGood == TokenSpec => EndedStaysEnded
<1>1. TokenTypeOK /\ [TokenNext]_tokenVars => \A f \in Family : Ended(f) => Ended(f)'
  <2> SUFFICES ASSUME TokenTypeOK, [TokenNext]_tokenVars, NEW f \in Family, Ended(f)
               PROVE  Ended(f)'
    OBVIOUS
  <2> USE DEF TokenTypeOK, Ended, Rotating, Live, Found, Idle
  <2>1. ASSUME NEW t \in Token, Expire(t) PROVE Ended(f)'
    BY <2>1 DEF Expire
  <2>2. ASSUME NEW t \in Token, NEW g \in Family, LogIn(t, g) PROVE Ended(f)'
    BY <2>2 DEF LogIn, Insert
  <2>3. ASSUME NEW q \in Request, NEW t \in Token, NEW g \in Family, Refresh(q, t, g)
        PROVE  Ended(f)'
    BY <2>3 DEF Refresh, Find
  <2>4. ASSUME NEW q \in Request, NEW t \in Token, NEW g \in Family, LogOut(q, t, g)
        PROVE  Ended(f)'
    BY <2>4 DEF LogOut, Find
  <2>5. ASSUME NEW q \in Request, NEW t \in Token, RotateRefresh(q, t) PROVE Ended(f)'
    <3>1. request[q].family # f /\ request[q].family \in Family
      BY <2>5 DEF RotateRefresh
    <3> QED
      BY <2>5, <3>1 DEF RotateRefresh, Insert
  <2>6. ASSUME NEW q \in Request, RevokeFamily(q) PROVE Ended(f)'
    BY <2>6 DEF RevokeFamily
  <2>7. ASSUME NEW q \in Request, Drop(q) PROVE Ended(f)'
    BY <2>7 DEF Drop
  <2>8. CASE UNCHANGED tokenVars
    BY <2>8 DEF tokenVars
  <2> QED
    BY <2>1, <2>2, <2>3, <2>4, <2>5, <2>6, <2>7, <2>8 DEF TokenNext
<1>2. TokenTypeOK /\ [TokenNext]_tokenVars
        => [\A f \in Family : Ended(f) => Ended(f)']_tokenVars
  BY <1>1
<1> QED
  BY <1>2, TokenTypeCorrect, PTL DEF TokenSpec, EndedStaysEnded

-----------------------------------------------------------------------------
(* Invoice numbers *)

\* Attempt k of a request follows k - 1 conflicts, each with an invoice created
\* since; and so does a number that is taken when it comes to be inserted.
Contended(c) ==
  /\ creator[c].at \in {"next", "insert"} =>
       creator[c].attempt >= 1 /\ beaten[c] >= creator[c].attempt - 1
  /\ creator[c].at = "insert" => creator[c].number \in Number
  /\ creator[c].at = "insert" /\ creator[c].number \in used =>
       beaten[c] >= creator[c].attempt

NumberInv == NumberTypeOK /\ (\A c \in Creator : Contended(c)) /\ GivesUpOnlyBeaten

LEMMA NumberInitially == NumberInit => NumberInv
BY InvoiceNumbersAssumption
   DEF NumberInit, NumberInv, NumberTypeOK, Contended, GivesUpOnlyBeaten

LEMMA NumberStep == NumberInv /\ [NumberNext]_numberVars => NumberInv'
<1> SUFFICES ASSUME NumberInv, [NumberNext]_numberVars PROVE NumberInv'
  OBVIOUS
<1> USE InvoiceNumbersAssumption
<1>1. ASSUME NEW c \in Creator, CreateInvoice(c) PROVE NumberInv'
  BY <1>1 DEF CreateInvoice, NumberInv, NumberTypeOK, Contended, GivesUpOnlyBeaten
<1>2. ASSUME NEW c \in Creator, NEW n \in Number, TakeNumber(c, n) PROVE NumberInv'
  <2>1. n \notin used
    BY <1>2 DEF TakeNumber, IsNext, NumberInv, NumberTypeOK, Number
  <2> QED
    BY <1>2, <2>1 DEF TakeNumber, NumberInv, NumberTypeOK, Contended, GivesUpOnlyBeaten
<1>3. ASSUME NEW c \in Creator, CreateClientInvoice(c) PROVE NumberInv'
  <2>1. NumberTypeOK'
    BY <1>3 DEF CreateClientInvoice, NumberInv, NumberTypeOK, Contended
  <2>2. ASSUME NEW d \in Creator PROVE Contended(d)'
    BY <1>3 DEF CreateClientInvoice, NumberInv, NumberTypeOK, Contended
  <2>3. GivesUpOnlyBeaten'
    BY <1>3 DEF CreateClientInvoice, NumberInv, NumberTypeOK, GivesUpOnlyBeaten
  <2> QED
    BY <2>1, <2>2, <2>3 DEF NumberInv
<1>4. ASSUME NEW c \in Creator, Conflict(c) PROVE NumberInv'
  BY <1>4 DEF Conflict, NumberInv, NumberTypeOK, Contended, GivesUpOnlyBeaten
<1>5. ASSUME NEW n \in used, DeleteClientInvoice(n) PROVE NumberInv'
  BY <1>5 DEF DeleteClientInvoice, NumberInv, NumberTypeOK, Contended, GivesUpOnlyBeaten
<1>6. ASSUME UNCHANGED numberVars PROVE NumberInv'
  BY <1>6 DEF numberVars, NumberInv, NumberTypeOK, Contended, GivesUpOnlyBeaten
<1> QED
  BY <1>1, <1>2, <1>3, <1>4, <1>5, <1>6 DEF NumberNext

\* A request to create an invoice gives up only after others created as many as it
\* made attempts, whatever was deleted in between (withInvoiceNumberRetry).
THEOREM OnlyBeatenGiveUp == NumberSpec => []GivesUpOnlyBeaten
<1>1. NumberInv => GivesUpOnlyBeaten
  BY DEF NumberInv
<1> QED
  BY NumberInitially, NumberStep, <1>1, PTL DEF NumberSpec

-----------------------------------------------------------------------------
(* Invoice amounts *)

LEMMA GivenIsGiven ==
  ASSUME NEW S, NEW or \in S, NEW field \in SUBSET S
  PROVE  Given(field, or) \in S
BY DEF Given

\* The total of what computeInvoiceTotals returns follows from the rest of it, and
\* the tax and the total are not negative.
LEMMA TotalsCohere ==
  ASSUME NEW d \in Int, NEW t \in Int, NEW r \in Nat
  PROVE  /\ Totals(d, t, r) \in Money
         /\ Totals(d, t, r).total = Base(Totals(d, t, r).discount) + Totals(d, t, r).tax
<1>1. Base(d) \in Nat
  BY InvoicePatchAssumption DEF Base, AtLeast0
<1>2. Tax(d, t, r) \in Nat
  <2>1. Base(d) * r \in Nat
    BY <1>1
  <2>2. (Base(d) * r + 50) \div 100 \in Int
    BY <2>1
  <2> QED
    BY <2>2 DEF Tax, AtLeast0
<1> QED
  BY <1>1, <1>2 DEF Totals, Money

AmountsInv == PatchTypeOK /\ MoneyCoherent

LEMMA AmountsCohere ==
  ASSUME AmountsInv, NEW ask \in Ask, NEW cur \in Money
  PROVE  /\ Amounts(ask, cur) \in Money
         /\ Amounts(ask, cur).total = Base(Amounts(ask, cur).discount) + Amounts(ask, cur).tax
<1> DEFINE d == Given(ask.discount, cur.discount)
           t == Given(ask.tax, IF ask.rate = {} THEN cur.tax ELSE 0)
           r == Given(ask.rate, cur.rate)
<1>1. /\ ask.discount \in SUBSET Int /\ ask.tax \in SUBSET Int /\ ask.rate \in SUBSET Nat
      /\ cur.discount \in Int /\ cur.tax \in Int /\ cur.rate \in Nat
  BY InvoicePatchAssumption DEF Money
<1>2. d \in Int /\ t \in Int /\ r \in Nat
  BY <1>1 DEF Given
<1>3. Amounts(ask, cur) = money \/ Amounts(ask, cur) = Totals(d, t, r)
  BY DEF Amounts
<1> HIDE DEF d, t, r
<1> QED
  BY <1>2, <1>3, TotalsCohere DEF AmountsInv, PatchTypeOK, MoneyCoherent

LEMMA AmountsInitially == PatchInit => AmountsInv
<1> SUFFICES ASSUME PatchInit PROVE AmountsInv
  OBVIOUS
<1>1. PICK d \in Discounts : money = Totals(AtLeast0(d), 0, 0)
  BY DEF PatchInit
<1>2. AtLeast0(d) \in Int
  BY InvoicePatchAssumption DEF AtLeast0
<1> QED
  BY <1>1, <1>2, TotalsCohere
     DEF PatchInit, AmountsInv, PatchTypeOK, MoneyCoherent, Status

LEMMA AmountsStep == AmountsInv /\ [PatchNext]_patchVars => AmountsInv'
<1> SUFFICES ASSUME AmountsInv, [PatchNext]_patchVars PROVE AmountsInv'
  OBVIOUS
<1>1. ASSUME NEW q \in Patcher, NEW ask \in Ask, Read(q, ask) PROVE AmountsInv'
  BY <1>1 DEF Read, AmountsInv, PatchTypeOK, MoneyCoherent, ReadPatch
<1>2. ASSUME NEW q \in Patcher, Write(q) PROVE AmountsInv'
  <2> DEFINE ask == patch[q].ask
             cur == IF Mints(q) THEN money ELSE patch[q].money
  <2>1. patch[q] \in ReadPatch
    BY <1>2 DEF Write, AmountsInv, PatchTypeOK, IdlePatch
  <2>2. ask \in Ask /\ cur \in Money
    BY <2>1 DEF ReadPatch, AmountsInv, PatchTypeOK
  <2>3. money' = Amounts(ask, cur)
    BY <1>2 DEF Write
  <2>4. money' \in Money /\ MoneyCoherent'
    <3> HIDE DEF ask, cur
    <3> QED
      BY <2>2, <2>3, AmountsCohere DEF MoneyCoherent, Base
  <2>5. status' \in Status
    <3>1. ask.status \in SUBSET Status
      BY <2>2, InvoicePatchAssumption
    <3> QED
      BY <1>2, <3>1, GivenIsGiven DEF Write, AmountsInv, PatchTypeOK
  <2>6. minted' \in Nat /\ stamped' \in Nat
    BY <1>2 DEF Write, AmountsInv, PatchTypeOK
  <2>7. patch' \in [Patcher -> {IdlePatch} \cup ReadPatch]
    BY <1>2 DEF Write, AmountsInv, PatchTypeOK
  <2> QED
    BY <2>4, <2>5, <2>6, <2>7 DEF AmountsInv, PatchTypeOK
<1>3. ASSUME NEW q \in Patcher, Roll(q) PROVE AmountsInv'
  BY <1>3 DEF Roll, AmountsInv, PatchTypeOK, MoneyCoherent
<1>4. ASSUME UNCHANGED patchVars PROVE AmountsInv'
  BY <1>4 DEF patchVars, AmountsInv, PatchTypeOK, MoneyCoherent
<1> QED
  BY <1>1, <1>2, <1>3, <1>4 DEF PatchNext

\* The amounts of an invoice are of their types throughout: whatever discount and
\* tax are asked for, neither the tax nor the total is ever negative.
THEOREM AmountsTypeCorrect == PatchSpec => []PatchTypeOK
<1>1. AmountsInv => PatchTypeOK
  BY DEF AmountsInv
<1> QED
  BY AmountsInitially, AmountsStep, <1>1, PTL DEF PatchSpec

\* The total follows from the discount and the tax beside it, however patches of
\* different amounts overlap (UpdateClientInvoice).
THEOREM TotalFollows == PatchSpec => []MoneyCoherent
<1>1. AmountsInv => MoneyCoherent
  BY DEF AmountsInv
<1> QED
  BY AmountsInitially, AmountsStep, <1>1, PTL DEF PatchSpec

-----------------------------------------------------------------------------
(* The wallet *)

Indexed == Rows("open") \cup Rows("committed")

\* A transaction has a row of its own in its last step, which is open till then.
RowsOwned ==
  \A w \in Writer :
    /\ writer[w].at = "commit" <=> writer[w].row # NoRow
    /\ writer[w].row # NoRow => writer[w].row \in Rows("open")
    /\ \A v \in Writer \ {w} : writer[w].row # NoRow => writer[v].row # writer[w].row

\* The row under way was made from the balance and for the payment its writer has.
RowsMade ==
  \A w \in Writer :
    writer[w].row # NoRow => /\ ledger[writer[w].row].ref = writer[w].ref
                             /\ ledger[writer[w].row].base = writer[w].base

\* The index holds no reference twice.
RefsUnique == \A m, n \in Indexed : m # n /\ ledger[m].ref = ledger[n].ref => ledger[m].ref = NoRef

\* What a balance was read from had committed, and is older than what was made of it.
Follows(n) ==
  /\ ledger[n].base \in Rows("committed") \cup {NoRow}
  /\ ledger[n].base < n
  /\ ledger[n].after = Balance(ledger[n].base) + Amount(ledger[n].ref)

BasesCommitted ==
  /\ \A w \in Writer : writer[w].base \in Rows("committed") \cup {NoRow}
  /\ \A n \in DOMAIN ledger : Follows(n)

WalletInv ==
  /\ WalletTypeOK
  /\ RowsOwned
  /\ RowsMade
  /\ RefsUnique
  /\ BasesCommitted
  /\ BalanceUnlessStale

LEMMA NewestIsLast ==
  ASSUME WalletTypeOK
  PROVE  /\ Newest \in Rows("committed") \cup {NoRow}
         /\ \A n \in Rows("committed") : n <= Newest
<1> DEFINE S == Rows("committed") \cup {NoRow}
<1>1. S \in SUBSET (0 .. MaxRows) /\ S # {}
  BY WalletAssumption DEF WalletTypeOK, Rows, NoRow
<1>2. Newest = Max(S)
  BY DEF Newest
<1> HIDE DEF S
<1>3. Newest \in S /\ \A n \in S : n <= Newest
  BY <1>1, <1>2, MaxIsGreatest, WalletAssumption
<1> QED
  BY <1>3 DEF S

LEMMA WalletInitially == WalletInit => WalletInv
<1> SUFFICES ASSUME WalletInit PROVE WalletInv
  OBVIOUS
<1>1. WalletTypeOK
  BY WalletAssumption
     DEF WalletInit, WalletTypeOK, IdleWriter, At, NoRow, NoRef, Seqno
<1>2. Rows("open") = {} /\ Rows("committed") = {}
  BY DEF WalletInit, Rows
<1>3. RowsOwned /\ RowsMade /\ RefsUnique /\ BasesCommitted
  BY <1>2 DEF WalletInit, RowsOwned, RowsMade, RefsUnique, BasesCommitted, Indexed,
              IdleWriter, NoRow
<1>4. Newest = NoRow
  BY <1>1, <1>2, NewestIsLast
<1>5. BalanceUnlessStale
  BY <1>4 DEF WalletInit, BalanceUnlessStale, Balance
<1> QED
  BY <1>1, <1>3, <1>5 DEF WalletInv

\* A step of a transaction that leaves the ledger as it is.
LEMMA WalletFrame ==
  ASSUME WalletInv, WalletTypeOK', UNCHANGED <<ledger, moved>>,
         \A w \in Writer :
           \/ writer'[w] = writer[w]
           \/ /\ writer[w].row = NoRow /\ writer'[w].row = NoRow
              /\ writer'[w].at # "commit"
              /\ writer'[w].base \in Rows("committed") \cup {NoRow}
  PROVE  WalletInv'
<1>1. /\ Rows("open")' = Rows("open") /\ Rows("committed")' = Rows("committed")
      /\ Indexed' = Indexed
  BY DEF Rows, Indexed
<1>2. RowsOwned' /\ RowsMade'
  BY <1>1 DEF WalletInv, RowsOwned, RowsMade
<1>3. RefsUnique'
  BY <1>1 DEF WalletInv, RefsUnique
<1>4. BasesCommitted'
  BY <1>1 DEF WalletInv, BasesCommitted, Follows, Balance
<1>5. BalanceUnlessStale'
  BY <1>1 DEF WalletInv, BalanceUnlessStale, Balance, Newest, Stale
<1> QED
  BY <1>2, <1>3, <1>4, <1>5 DEF WalletInv

LEMMA WalletBegins ==
  ASSUME WalletInv, NEW w \in Writer,
         \/ \E ref \in Ref : BeginTopup(w, ref)
         \/ BeginDebit(w) \/ Select(w) \/ Lock(w)
  PROVE  WalletInv'
<1>1. WalletTypeOK
  BY DEF WalletInv
<1>2. Newest \in Rows("committed") \cup {NoRow} /\ Newest \in Seqno \cup {NoRow}
  BY <1>1, NewestIsLast, WalletAssumption DEF WalletTypeOK, Rows, Seqno
<1>3. writer[w].row = NoRow
  BY DEF BeginTopup, BeginDebit, Select, Lock, WalletInv, RowsOwned
<1>4. writer[w].base \in Rows("committed") \cup {NoRow}
  BY DEF WalletInv, BasesCommitted
<1>5. UNCHANGED <<ledger, moved>>
  BY DEF BeginTopup, BeginDebit, Select, Lock
<1> DEFINE Moved == /\ WalletTypeOK'
                    /\ \A v \in Writer : v # w => writer'[v] = writer[v]
                    /\ writer'[w].row = NoRow /\ writer'[w].at # "commit"
                    /\ writer'[w].base \in Rows("committed") \cup {NoRow}
<1>6. ASSUME NEW ref \in Ref, BeginTopup(w, ref) PROVE Moved
  BY <1>1, <1>3, <1>4, <1>5, <1>6, ZenonT(60) DEF BeginTopup, WalletTypeOK, At
<1>7. ASSUME BeginDebit(w) PROVE Moved
  BY <1>1, <1>3, <1>4, <1>5, <1>7 DEF BeginDebit, WalletTypeOK, At
<1>8. ASSUME Select(w) PROVE Moved
  <2> DEFINE next == IF Newest = NoRow THEN "insert" ELSE "lock"
             base == Newest
  <2>1. next \in At \ {"commit"} /\ base \in (Rows("committed") \cup {NoRow})
        /\ base \in Seqno \cup {NoRow}
    BY <1>2 DEF At
  <2>2. writer' = [writer EXCEPT ![w].at = next, ![w].base = base]
    BY <1>8 DEF Select
  <2> HIDE DEF next, base
  <2> QED
    BY <1>1, <1>3, <1>5, <2>1, <2>2 DEF WalletTypeOK
<1>9. ASSUME Lock(w) PROVE Moved
  BY <1>1, <1>3, <1>4, <1>5, <1>9 DEF Lock, WalletTypeOK, At
<1> HIDE DEF Moved
<1>10. Moved
  BY <1>6, <1>7, <1>8, <1>9
<1> QED
  BY <1>3, <1>5, <1>10, WalletFrame DEF Moved

\* A transaction inserts its row.
LEMMA WalletAppends ==
  ASSUME WalletInv, NEW w \in Writer, WalletAppend(w)
  PROVE  WalletInv'
<1> DEFINE n   == Len(ledger) + 1
           row == [ref   |-> writer[w].ref,
                   base  |-> writer[w].base,
                   after |-> Balance(writer[w].base) + Amount(writer[w].ref),
                   state |-> "open"]
<1>1. WalletTypeOK /\ RowsOwned /\ RowsMade /\ RefsUnique /\ BasesCommitted
  BY DEF WalletInv
<1>2. /\ n \in Seqno /\ n \notin DOMAIN ledger
      /\ DOMAIN ledger \subseteq Seqno /\ \A m \in DOMAIN ledger : m < n
      /\ n > 0
  BY <1>1, WalletAssumption DEF WalletAppend, WalletTypeOK, Seqno
<1>3. writer[w].base \in Rows("committed") \cup {NoRow} /\ writer[w].row = NoRow
  BY <1>1 DEF BasesCommitted, RowsOwned, WalletAppend
<1>4. row \in LedgerRow
  <2>1. Balance(writer[w].base) \in Int
    <3>1. \A m \in DOMAIN ledger : ledger[m] \in LedgerRow
      BY <1>1 DEF WalletTypeOK
    <3>2. \A m \in DOMAIN ledger : ledger[m].after \in Int
      BY <3>1 DEF LedgerRow
    <3> QED
      BY <1>3, <3>2 DEF Balance, Rows
  <2>2. Amount(writer[w].ref) \in Int
    BY WalletAssumption DEF Amount
  <2>3. /\ writer[w].ref \in Ref \cup {NoRef}
        /\ writer[w].base \in Seqno \cup {NoRow}
    BY <1>1 DEF WalletTypeOK
  <2> QED
    BY <2>1, <2>2, <2>3 DEF LedgerRow
<1>5. /\ ledger' = Append(ledger, row)
      /\ writer' = [writer EXCEPT ![w].at = "commit", ![w].row = n]
      /\ moved' = moved
  BY DEF WalletAppend
<1> HIDE DEF row
<1>6. /\ ledger' \in Seq(LedgerRow) /\ Len(ledger') = n
      /\ DOMAIN ledger' = DOMAIN ledger \cup {n}
      /\ \A m \in DOMAIN ledger : ledger'[m] = ledger[m]
      /\ ledger'[n] = row
  BY <1>1, <1>4, <1>5 DEF WalletTypeOK
<1>7. /\ row.ref = writer[w].ref /\ row.base = writer[w].base /\ row.state = "open"
      /\ row.after = Balance(writer[w].base) + Amount(writer[w].ref)
  BY DEF row
<1> HIDE DEF n
<1>8. WalletTypeOK'
  <2>1. writer' \in [Writer -> [at : At, ref : Ref \cup {NoRef},
                                base : Seqno \cup {NoRow}, row : Seqno \cup {NoRow}]]
    BY <1>1, <1>2, <1>5 DEF WalletTypeOK, At
  <2> QED
    BY <1>1, <1>2, <1>5, <1>6, <2>1, WalletAssumption DEF WalletTypeOK, Seqno
<1>9. /\ Rows("open")' = Rows("open") \cup {n}
      /\ Rows("committed")' = Rows("committed")
      /\ Indexed' = Indexed \cup {n}
      /\ n \notin Indexed
  BY <1>2, <1>6, <1>7 DEF Rows, Indexed
<1>10. /\ writer'[w].at = "commit" /\ writer'[w].row = n
       /\ writer'[w].ref = writer[w].ref /\ writer'[w].base = writer[w].base
       /\ \A v \in Writer : v # w => writer'[v] = writer[v]
  BY <1>1, <1>5 DEF WalletTypeOK
<1>11. RowsOwned'
  <2>1. \A v \in Writer : writer[v].row # n
    BY <1>1, <1>2 DEF RowsOwned, Rows, NoRow
  <2> QED
    BY <1>1, <1>2, <1>9, <1>10, <2>1 DEF RowsOwned, NoRow
<1>12. RowsMade'
  <2>1. \A v \in Writer : writer[v].row # NoRow => writer[v].row \in DOMAIN ledger
    BY <1>1 DEF RowsOwned, Rows
  <2> QED
    BY <1>1, <1>6, <1>7, <1>10, <2>1 DEF RowsMade
<1>13. RefsUnique'
  <2>1. \A m \in Indexed : m \in DOMAIN ledger /\ ledger'[m] = ledger[m]
    BY <1>6 DEF Indexed, Rows
  <2>2. \A m \in Indexed : ledger[m].ref = row.ref => row.ref = NoRef
    BY <1>7 DEF WalletAppend, Unique, Indexed
  <2>3. ASSUME NEW i \in Indexed', NEW j \in Indexed', i # j, ledger'[i].ref = ledger'[j].ref
        PROVE ledger'[i].ref = NoRef
    <3>1. CASE i = n
      BY <1>6, <1>9, <2>1, <2>2, <2>3, <3>1
    <3>2. CASE j = n
      BY <1>6, <1>9, <2>1, <2>2, <2>3, <3>2
    <3>3. CASE i # n /\ j # n
      BY <1>1, <1>9, <2>1, <2>3, <3>3 DEF RefsUnique
    <3> QED
      BY <3>1, <3>2, <3>3
  <2> QED
    BY <2>3 DEF RefsUnique
<1>14. \A m \in Rows("committed") \cup {NoRow} : Balance(m)' = Balance(m)
  BY <1>6 DEF Balance, Rows
<1>15. BasesCommitted'
  <2>1. ASSUME NEW v \in Writer PROVE writer'[v].base \in Rows("committed")' \cup {NoRow}
    BY <1>1, <1>9, <1>10 DEF BasesCommitted
  <2>2. ASSUME NEW m \in DOMAIN ledger PROVE Follows(m)'
    <3>1. Follows(m) /\ ledger'[m] = ledger[m]
      BY <1>1, <1>6 DEF BasesCommitted
    <3>2. Balance(ledger[m].base)' = Balance(ledger[m].base)
      BY <1>6, <3>1 DEF Balance, Rows, Follows
    <3> QED
      BY <1>9, <3>1, <3>2 DEF Follows, Amount
  <2>3. ASSUME NEW m, m = n PROVE Follows(m)'
    <3>1. ledger'[m].base = writer[w].base /\ ledger'[m].ref = writer[w].ref
      BY <1>6, <1>7, <2>3
    <3>2. writer[w].base < m
      BY <1>2, <1>3, <2>3 DEF Rows, NoRow
    <3>3. Balance(ledger[m].base)' = Balance(writer[w].base)
      BY <1>3, <1>6, <3>1 DEF Balance, Rows
    <3> QED
      BY <1>3, <1>6, <1>7, <1>9, <2>3, <3>1, <3>2, <3>3 DEF Follows, Amount
  <2> QED
    BY <1>6, <2>1, <2>2, <2>3 DEF BasesCommitted
<1>16. BalanceUnlessStale'
  <2>1. Newest' = Newest /\ Newest \in Rows("committed") \cup {NoRow}
    BY <1>1, <1>9, NewestIsLast DEF Newest
  <2>2. \A m \in Rows("committed") : Stale(m)' = Stale(m)
    <3>1. \A m \in Rows("committed") : ledger'[m] = ledger[m]
      BY <1>6 DEF Rows
    <3> QED
      BY <1>9, <3>1 DEF Stale
  <2>3. BalanceUnlessStale
    BY DEF WalletInv
  <2> QED
    BY <1>5, <1>9, <1>14, <2>1, <2>2, <2>3 DEF BalanceUnlessStale
<1> QED
  BY <1>8, <1>11, <1>12, <1>13, <1>15, <1>16 DEF WalletInv

\* What remains of a transaction that inserted a row when it ends.
LEMMA WalletFinishes ==
  ASSUME WalletInv, NEW w \in Writer, writer[w].row # NoRow,
         NEW state \in {"committed", "rolled_back"}, Finish(w, state), moved' \in Int
  PROVE  /\ WalletTypeOK' /\ RowsOwned' /\ RowsMade' /\ RefsUnique' /\ BasesCommitted'
         /\ DOMAIN ledger' = DOMAIN ledger
         /\ \A m \in DOMAIN ledger : /\ ledger'[m].ref = ledger[m].ref
                                     /\ ledger'[m].base = ledger[m].base
                                     /\ ledger'[m].after = ledger[m].after
         /\ writer[w].row \in Rows("open")
         /\ Rows("committed")' = IF state = "committed"
                                 THEN Rows("committed") \cup {writer[w].row}
                                 ELSE Rows("committed")
<1> DEFINE r == writer[w].row
<1>1. WalletTypeOK /\ RowsOwned /\ RowsMade /\ RefsUnique /\ BasesCommitted
  BY DEF WalletInv
<1>2. r \in Rows("open") /\ r \in DOMAIN ledger /\ ledger[r].state = "open"
  BY <1>1 DEF RowsOwned, Rows
<1>3. ledger' = [ledger EXCEPT ![r].state = state] /\ writer' = [writer EXCEPT ![w] = IdleWriter]
  BY DEF Finish
<1> HIDE DEF r
<1>4. /\ ledger' \in Seq(LedgerRow) /\ Len(ledger') = Len(ledger)
      /\ DOMAIN ledger' = DOMAIN ledger
      /\ \A m \in DOMAIN ledger : m # r => ledger'[m] = ledger[m]
      /\ ledger'[r] = [ledger[r] EXCEPT !.state = state]
  <2>1. ledger \in Seq(LedgerRow) /\ ledger[r] \in LedgerRow
    BY <1>1, <1>2 DEF WalletTypeOK
  <2>2. [ledger[r] EXCEPT !.state = state] \in LedgerRow
    BY <2>1 DEF LedgerRow
  <2> QED
    BY <1>2, <1>3, <2>1, <2>2
<1>5. /\ ledger'[r].ref = ledger[r].ref /\ ledger'[r].base = ledger[r].base
      /\ ledger'[r].after = ledger[r].after /\ ledger'[r].state = state
  <2>1. ledger[r] \in LedgerRow
    BY <1>1, <1>2 DEF WalletTypeOK
  <2> QED
    BY <1>4, <2>1 DEF LedgerRow
<1>6. /\ Rows("open")' = Rows("open") \ {r}
      /\ Rows("committed")' = IF state = "committed" THEN Rows("committed") \cup {r}
                                                     ELSE Rows("committed")
      /\ Indexed' \subseteq Indexed
      /\ r \notin Rows("committed")
  <2>1. Rows("open")' = Rows("open") \ {r}
    BY <1>2, <1>4, <1>5 DEF Rows
  <2>2. Rows("committed")' = IF state = "committed" THEN Rows("committed") \cup {r}
                                                    ELSE Rows("committed")
    BY <1>2, <1>4, <1>5 DEF Rows
  <2>3. r \notin Rows("committed") /\ r \in Rows("open")
    BY <1>2 DEF Rows
  <2> QED
    BY <2>1, <2>2, <2>3 DEF Indexed
<1>7. /\ writer'[w] = IdleWriter /\ \A v \in Writer : v # w => writer'[v] = writer[v]
      /\ IdleWriter.row = NoRow /\ IdleWriter.at = "idle" /\ IdleWriter.base = NoRow
  BY <1>1, <1>3 DEF WalletTypeOK, IdleWriter
<1>8. WalletTypeOK'
  <2>1. IdleWriter \in [at : At, ref : Ref \cup {NoRef},
                        base : Seqno \cup {NoRow}, row : Seqno \cup {NoRow}]
    BY DEF IdleWriter, At
  <2> QED
    BY <1>1, <1>3, <1>4, <2>1 DEF WalletTypeOK
<1>9. RowsOwned'
  <2>1. ASSUME NEW v \in Writer, v # w
        PROVE  writer[v].row # NoRow => writer[v].row \in Rows("open")'
    BY <1>1, <1>6, <2>1 DEF RowsOwned, r
  <2> QED
    BY <1>1, <1>7, <2>1 DEF RowsOwned
<1>10. \A m \in DOMAIN ledger : /\ ledger'[m].ref = ledger[m].ref
                                /\ ledger'[m].base = ledger[m].base
                                /\ ledger'[m].after = ledger[m].after
  BY <1>4, <1>5
<1>11. RowsMade'
  <2>1. \A v \in Writer : writer[v].row # NoRow => writer[v].row \in DOMAIN ledger
    BY <1>1 DEF RowsOwned, Rows
  <2> QED
    BY <1>1, <1>7, <1>10, <2>1 DEF RowsMade
<1>12. RefsUnique'
  BY <1>1, <1>6, <1>10 DEF RefsUnique, Indexed, Rows
<1>13. BasesCommitted'
  <2>1. Rows("committed") \subseteq Rows("committed")'
    BY <1>6
  <2>2. ASSUME NEW v \in Writer PROVE writer'[v].base \in Rows("committed")' \cup {NoRow}
    BY <1>1, <1>7, <2>1 DEF BasesCommitted
  <2>3. ASSUME NEW m \in DOMAIN ledger PROVE Follows(m)'
    <3>1. Follows(m)
      BY <1>1 DEF BasesCommitted
    <3>2. Balance(ledger[m].base)' = Balance(ledger[m].base)
      BY <1>10, <3>1 DEF Balance, Follows, Rows
    <3> QED
      BY <1>10, <2>1, <3>1, <3>2 DEF Follows, Amount
  <2> QED
    BY <1>4, <2>2, <2>3 DEF BasesCommitted
<1> QED
  BY <1>2, <1>4, <1>6, <1>8, <1>9, <1>10, <1>11, <1>12, <1>13 DEF r

LEMMA WalletCommits ==
  ASSUME WalletInv, NEW w \in Writer, Commit(w)
  PROVE  WalletInv'
<1> DEFINE r == writer[w].row
<1>1. WalletTypeOK /\ RowsOwned /\ RowsMade /\ BasesCommitted
  BY DEF WalletInv
<1>2. r # NoRow /\ Finish(w, "committed") /\ moved' = moved + Amount(writer[w].ref)
  BY <1>1 DEF Commit, RowsOwned
<1>3. moved \in Int /\ Amount(writer[w].ref) \in Int /\ moved' \in Int
  BY <1>1, <1>2, WalletAssumption DEF WalletTypeOK, Amount
<1>4. /\ WalletTypeOK' /\ RowsOwned' /\ RowsMade' /\ RefsUnique' /\ BasesCommitted'
      /\ DOMAIN ledger' = DOMAIN ledger
      /\ \A m \in DOMAIN ledger : /\ ledger'[m].base = ledger[m].base
                                  /\ ledger'[m].after = ledger[m].after
      /\ r \in Rows("open")
      /\ Rows("committed")' = Rows("committed") \cup {r}
  BY <1>2, <1>3, WalletFinishes
<1>5. /\ DOMAIN ledger \subseteq Nat \ {0}
      /\ r \in DOMAIN ledger /\ r \notin Rows("committed")
      /\ Rows("committed") \subseteq DOMAIN ledger
  BY <1>1, <1>4 DEF WalletTypeOK, Rows
<1>6. /\ ledger[r].base = writer[w].base
      /\ ledger[r].ref = writer[w].ref
      /\ Follows(r)
  BY <1>1, <1>2, <1>5 DEF RowsMade, BasesCommitted
<1> HIDE DEF r
<1>7. SUFFICES ASSUME \A n \in Rows("committed")' : ~Stale(n)'
               PROVE  Balance(Newest)' = moved'
  BY <1>4 DEF WalletInv, BalanceUnlessStale
<1>8. \A n, m \in Rows("committed") \cup {r} : ~(ledger[n].base < m /\ m < n)
  BY <1>4, <1>5, <1>7 DEF Stale
<1>9. Balance(Newest) = moved
  <2>1. \A n \in Rows("committed") : ~Stale(n)
    BY <1>8 DEF Stale
  <2> QED
    BY <2>1 DEF WalletInv, BalanceUnlessStale
<1>10. /\ Newest \in Rows("committed") \cup {NoRow}
       /\ \A n \in Rows("committed") : n <= Newest
       /\ Newest' \in Rows("committed") \cup {r, NoRow}
       /\ \A n \in Rows("committed") \cup {r} : n <= Newest'
  <2>1. /\ Newest' \in Rows("committed")' \cup {NoRow}
        /\ \A n \in Rows("committed")' : n <= Newest'
    <3> DEFINE S == Rows("committed") \cup {r, NoRow}
    <3>1. S \in SUBSET (0 .. MaxRows) /\ S # {}
      BY <1>1, <1>5, WalletAssumption DEF WalletTypeOK, NoRow
    <3>2. Newest' = Max(S) /\ S = Rows("committed")' \cup {NoRow}
      BY <1>4 DEF Newest
    <3> HIDE DEF S
    <3>3. Max(S) \in S /\ \A n \in S : n <= Max(S)
      BY <3>1, WalletAssumption, MaxIsGreatest
    <3> QED
      BY <3>2, <3>3
  <2> QED
    BY <1>1, <1>4, <2>1, NewestIsLast
<1>11. ASSUME NEW k \in Rows("committed") PROVE ~(r < k)
  <2> SUFFICES ASSUME r < k PROVE FALSE
    OBVIOUS
  <2> DEFINE S == {n \in Rows("committed") : r < n}
  <2>1. S \in SUBSET Nat /\ S # {}
    BY <1>5, <1>11
  <2> HIDE DEF S
  <2>2. PICK m \in S : \A n \in S : m <= n
    BY <2>1, LeastNatural
  <2>3. m \in Rows("committed") /\ r < m
    BY DEF S
  <2>4. Follows(m)
    BY <1>1, <1>5, <2>3 DEF BasesCommitted
  <2>5. ~(ledger[m].base < r)
    BY <1>8, <2>3
  <2>6. ledger[m].base # r /\ ledger[m].base \in Rows("committed") \cup {NoRow}
    BY <1>5, <2>4 DEF Follows, NoRow
  <2>7. ledger[m].base \in Nat /\ r \in Nat \ {0} /\ m \in Nat
    BY <1>5, <2>3, <2>6 DEF NoRow
  <2>8. r < ledger[m].base
    BY <2>5, <2>6, <2>7
  <2>9. ledger[m].base \in S
    BY <2>6, <2>7, <2>8 DEF S, NoRow
  <2> QED
    BY <2>2, <2>4, <2>7, <2>9 DEF Follows
<1>12. Newest' = r
  BY <1>5, <1>10, <1>11 DEF NoRow
<1>13. ledger[r].base = Newest
  <2>1. ledger[r].base \in Rows("committed") \cup {NoRow} /\ ledger[r].base < r
    BY <1>6 DEF Follows
  <2>2. Newest \in Nat /\ r \in Nat /\ ledger[r].base \in Nat
    BY <1>5, <1>10, <2>1 DEF NoRow
  <2>3. ledger[r].base <= Newest
    BY <1>10, <2>1, <2>2 DEF NoRow
  <2>4. CASE Newest = NoRow
    BY <2>2, <2>3, <2>4 DEF NoRow
  <2>5. CASE Newest \in Rows("committed")
    BY <1>5, <1>8, <1>10, <1>11, <2>2, <2>3, <2>5
  <2> QED
    BY <1>10, <2>4, <2>5
<1>14. ledger'[r].after = moved'
  BY <1>2, <1>4, <1>5, <1>6, <1>9, <1>13 DEF Follows
<1> QED
  BY <1>5, <1>12, <1>14 DEF Balance, NoRow

LEMMA WalletRolls ==
  ASSUME WalletInv, NEW w \in Writer, Rollback(w)
  PROVE  WalletInv'
<1>1. WalletTypeOK /\ RowsOwned /\ BasesCommitted
  BY DEF WalletInv
<1>2. Finish(w, "rolled_back") /\ moved' = moved
  BY DEF Rollback
<1>3. CASE writer[w].row = NoRow
  <2>1. UNCHANGED <<ledger, moved>> /\ writer' = [writer EXCEPT ![w] = IdleWriter]
    BY <1>2, <1>3 DEF Finish
  <2>2. IdleWriter \in [at : At, ref : Ref \cup {NoRef},
                        base : Seqno \cup {NoRow}, row : Seqno \cup {NoRow}]
    BY DEF IdleWriter, At
  <2>3. WalletTypeOK'
    BY <1>1, <2>1, <2>2 DEF WalletTypeOK
  <2>4. /\ writer'[w].row = NoRow /\ writer'[w].at = "idle" /\ writer'[w].base = NoRow
        /\ \A v \in Writer : v # w => writer'[v] = writer[v]
    BY <1>1, <2>1 DEF WalletTypeOK, IdleWriter
  <2> QED
    BY <1>3, <2>1, <2>3, <2>4, WalletFrame
<1>4. CASE writer[w].row # NoRow
  <2>1. /\ WalletTypeOK' /\ RowsOwned' /\ RowsMade' /\ RefsUnique' /\ BasesCommitted'
        /\ \A m \in DOMAIN ledger : /\ ledger'[m].base = ledger[m].base
                                    /\ ledger'[m].after = ledger[m].after
        /\ Rows("committed")' = Rows("committed")
    <3>1. moved' \in Int
      BY <1>1, <1>2 DEF WalletTypeOK
    <3> QED
      BY <1>2, <1>4, <3>1, WalletFinishes
  <2>2. Newest' = Newest /\ Newest \in Rows("committed") \cup {NoRow}
    BY <1>1, <2>1, NewestIsLast DEF Newest
  <2>3. Balance(Newest)' = Balance(Newest)
    BY <2>1, <2>2 DEF Balance, Rows
  <2>4. \A n \in Rows("committed") : Stale(n)' = Stale(n)
    BY <2>1 DEF Stale, Rows
  <2>5. BalanceUnlessStale'
    BY <1>2, <2>1, <2>3, <2>4 DEF WalletInv, BalanceUnlessStale
  <2> QED
    BY <2>1, <2>5 DEF WalletInv
<1> QED
  BY <1>3, <1>4

LEMMA WalletStep == WalletInv /\ [WalletNext]_walletVars => WalletInv'
<1> SUFFICES ASSUME WalletInv, [WalletNext]_walletVars PROVE WalletInv'
  OBVIOUS
<1>1. ASSUME NEW w \in Writer,
             \/ \E ref \in Ref : BeginTopup(w, ref)
             \/ BeginDebit(w) \/ Select(w) \/ Lock(w)
      PROVE  WalletInv'
  BY <1>1, WalletBegins
<1>2. ASSUME NEW w \in Writer, WalletAppend(w) PROVE WalletInv'
  BY <1>2, WalletAppends
<1>3. ASSUME NEW w \in Writer, Commit(w) PROVE WalletInv'
  BY <1>3, WalletCommits
<1>4. ASSUME NEW w \in Writer, Rollback(w) PROVE WalletInv'
  BY <1>4, WalletRolls
<1>5. ASSUME UNCHANGED walletVars PROVE WalletInv'
  BY <1>5 DEF walletVars, WalletInv, WalletTypeOK, RowsOwned, RowsMade, RefsUnique, Indexed,
              BasesCommitted, Follows, BalanceUnlessStale, Stale, Rows, Newest, Balance
<1> QED
  BY <1>1, <1>2, <1>3, <1>4, <1>5 DEF WalletNext

\* A payment is credited once, and the balance is the sum of what committed unless
\* an entry was computed from a balance that another had replaced, for any number of
\* top-ups and debits at a time (walletAppend).
THEOREM BalanceIsSound == WalletSpec => []BalanceSound
<1>1. WalletInv => BalanceSound
  BY DEF WalletInv, BalanceSound, TopupOnce, RefsUnique, Indexed
<1> QED
  BY WalletInitially, WalletStep, <1>1, PTL DEF WalletSpec

-----------------------------------------------------------------------------
(* Leave *)

\* An event of an entry that was inserted at some time, and what a link may hold.
Inserted(v, e) == v.id \in 1 .. inserted /\ v.of = e
Linkable(v, e) == v = NoEvent \/ Inserted(v, e)

\* The shape of a decision at every step of it.
DecisionShape(d) ==
  \/ d.step = "none"
  \/ d.step = "decided" /\ d.of \in Entry
  \/ /\ d.step = "counted" /\ d.of \in Entry /\ d.past \in SUBSET Entry
     /\ d = [step |-> "counted", of |-> d.of, to |-> d.to, days |-> d.days, past |-> d.past]
  \/ d.step = "committed" /\ d.of \in Entry
  \/ d.step = "push" /\ d.of \in Entry /\ Linkable(d.prev, d.of)
  \/ d.step = "pushed" /\ d.of \in Entry /\ Linkable(d.prev, d.of) /\ Inserted(d.got, d.of)

LeaveShape ==
  /\ entry = [e \in Entry |-> entry[e]]
  /\ taken = [y \in Year |-> taken[y]]
  /\ unseen \in [Year -> SUBSET Entry]
  /\ decision = [a \in Approver |-> decision[a]]
  /\ link = [e \in Entry |-> link[e]]
  /\ inserted \in Nat
  /\ \A v \in event : v.of \in Entry /\ Inserted(v, v.of)
  /\ \A a \in Approver : DecisionShape(decision[a])
  /\ \A e \in Entry : Linkable(link[e], e)

\* A count that no decision committed since has outrun is what the balance will be.
CountExact(d) ==
  d.step = "counted" /\ d.past = {} => d.days = CountApproved(Seen(d), StartYear[d.of])

\* An event that was not updated in place had vanished.
Replaced(d) ==
  d.step = "pushed" /\ d.prev # NoEvent /\ d.prev.at = d.got.at /\ d.got # d.prev =>
    d.prev \notin event

LeaveInv ==
  /\ LeaveShape
  /\ \A a \in Approver : CountExact(decision[a]) /\ Replaced(decision[a])
  /\ UsedDaysExact
  /\ EventsTracked

\* No days are counted of no entries.
LEMMA NoDays == ASSUME NEW y PROVE SumDays({}, y) = 0
BY DEF SumDays, MapThenSumSet, MapThenFoldSet

LEMMA LeaveInitially == LeaveInit => LeaveInv
<1> SUFFICES ASSUME LeaveInit PROVE LeaveInv
  OBVIOUS
<1>1. LeaveShape
  BY DEF LeaveInit, LeaveShape, DecisionShape, Linkable, Waiting
<1>2. \A a \in Approver : CountExact(decision[a]) /\ Replaced(decision[a])
  BY DEF LeaveInit, CountExact, Replaced, Waiting
<1>3. ASSUME NEW y \in Year PROVE taken[y] = CountApproved(entry, y)
  <2>1. ApprovedIn(entry, y) = {}
    BY DEF LeaveInit, ApprovedIn
  <2> QED
    BY <2>1, NoDays DEF LeaveInit, CountApproved
<1>4. EventsTracked
  BY DEF LeaveInit, EventsTracked
<1> QED
  BY <1>1, <1>2, <1>3, <1>4 DEF LeaveInv, UsedDaysExact

\* A step that neither decides on an entry nor counts days leaves the balances exact.
LEMMA BalanceKept ==
  ASSUME LeaveInv, UNCHANGED <<entry, taken, unseen>>,
         NEW a \in Approver, NEW d, d.step # "counted",
         decision' = [decision EXCEPT ![a] = d]
  PROVE  UsedDaysExact' /\ \A b \in Approver : CountExact(decision[b])'
<1>1. UsedDaysExact'
  BY DEF LeaveInv, UsedDaysExact, CountApproved, ApprovedIn
<1>2. ASSUME NEW b \in Approver PROVE CountExact(decision[b])'
  <2>1. decision'[b] = IF b = a THEN d ELSE decision[b]
    BY DEF LeaveInv, LeaveShape
  <2>2. CountExact(decision[b])
    BY DEF LeaveInv
  <2> QED
    BY <2>1, <2>2 DEF CountExact, Seen, CountApproved, ApprovedIn
<1> QED
  BY <1>1, <1>2

\* A step of a decision that touches nothing but the decision.
LEMMA LeaveDecides ==
  ASSUME LeaveInv, UNCHANGED <<entry, taken, unseen, event, inserted, link, loose>>,
         NEW a \in Approver, NEW d, decision[a].step # "pushed",
         decision' = [decision EXCEPT ![a] = d],
         DecisionShape(d), CountExact(d), Replaced(d)
  PROVE  LeaveInv'
<1>1. \A b \in Approver : decision'[b] = IF b = a THEN d ELSE decision[b]
  BY DEF LeaveInv, LeaveShape
<1>2. LeaveShape'
  <2>1. ASSUME NEW b \in Approver PROVE DecisionShape(decision[b])'
    BY <1>1 DEF LeaveInv, LeaveShape, DecisionShape, Linkable, Inserted
  <2> QED
    BY <2>1 DEF LeaveInv, LeaveShape, Linkable, Inserted
<1>3. ASSUME NEW b \in Approver PROVE CountExact(decision[b])' /\ Replaced(decision[b])'
  <2>1. CountExact(decision'[b]) /\ Replaced(decision'[b])
    BY <1>1 DEF LeaveInv
  <2> QED
    BY <2>1 DEF CountExact, Seen, CountApproved, ApprovedIn, Replaced
<1>4. UsedDaysExact'
  BY DEF LeaveInv, UsedDaysExact, CountApproved, ApprovedIn
<1>5. EventsTracked'
  BY <1>1 DEF LeaveInv, EventsTracked
<1> QED
  BY <1>2, <1>3, <1>4, <1>5 DEF LeaveInv

LEMMA DecideStep ==
  ASSUME LeaveInv, NEW a \in Approver,
         \/ \E e \in Entry, to \in Verdict : Decide(a, e, to)
         \/ Count(a) \/ Abort(a) \/ Load(a)
  PROVE  LeaveInv'
<1>1. DecisionShape(decision[a])
  BY DEF LeaveInv, LeaveShape
<1>2. DecisionShape(Waiting) /\ CountExact(Waiting) /\ Replaced(Waiting)
  BY DEF DecisionShape, CountExact, Replaced, Waiting
<1>3. ASSUME NEW e \in Entry, NEW to \in Verdict, Decide(a, e, to) PROVE LeaveInv'
  <2> DEFINE d == [step |-> "decided", of |-> e, to |-> to]
  <2>1. /\ decision' = [decision EXCEPT ![a] = d]
        /\ UNCHANGED <<entry, taken, unseen, event, inserted, link, loose>>
        /\ decision[a].step # "pushed"
    BY <1>3 DEF Decide, Decided, Waiting
  <2>2. DecisionShape(d) /\ CountExact(d) /\ Replaced(d)
    BY DEF DecisionShape, CountExact, Replaced
  <2> HIDE DEF d
  <2> QED
    BY <2>1, <2>2, LeaveDecides
<1>4. CASE Count(a)
  <2> DEFINE of   == decision[a].of
             to   == decision[a].to
             days == CountApproved(Seen(decision[a]), StartYear[of])
             d    == [step |-> "counted", of |-> of, to |-> to, past |-> {}, days |-> days]
  <2>1. /\ decision' = [decision EXCEPT ![a] = d]
        /\ UNCHANGED <<entry, taken, unseen, event, inserted, link, loose>>
        /\ decision[a].step = "decided"
    BY <1>4 DEF Count, Decided
  <2>2. of \in Entry
    BY <1>1, <2>1 DEF DecisionShape
  <2>3. Seen(d) = Seen(decision[a])
    BY DEF Seen
  <2>4. d.step = "counted" /\ d.of = of /\ d.to = to /\ d.days = days /\ d.past = {}
    OBVIOUS
  <2>5. DecisionShape(d)
    <3> HIDE DEF of, to, days
    <3> QED
      BY <2>2 DEF DecisionShape
  <2>6. CountExact(d) /\ Replaced(d)
    BY <2>3, <2>4 DEF CountExact, Replaced
  <2> HIDE DEF d
  <2> QED
    BY <2>1, <2>5, <2>6, LeaveDecides
<1>5. CASE Abort(a)
  <2>1. /\ decision' = [decision EXCEPT ![a] = Waiting]
        /\ UNCHANGED <<entry, taken, unseen, event, inserted, link, loose>>
        /\ decision[a].step # "pushed"
    BY <1>5 DEF Abort, Decided
  <2> QED
    BY <1>2, <2>1, LeaveDecides
<1>6. CASE Load(a)
  <2> DEFINE e == decision[a].of
             d == [step |-> "push", of |-> e, prev |-> link[e], todo |-> PushTo]
  <2>1. /\ decision' = [decision EXCEPT ![a] = d] \/ decision' = [decision EXCEPT ![a] = Waiting]
        /\ UNCHANGED <<entry, taken, unseen, event, inserted, link, loose>>
        /\ decision[a].step = "committed"
    BY <1>6 DEF Load, Decided
  <2>2. e \in Entry /\ Linkable(link[e], e)
    BY <1>1, <2>1 DEF DecisionShape, LeaveInv, LeaveShape
  <2>3. DecisionShape(d) /\ CountExact(d) /\ Replaced(d)
    BY <2>2 DEF DecisionShape, CountExact, Replaced
  <2> HIDE DEF d
  <2> QED
    BY <1>2, <2>1, <2>3, LeaveDecides
<1> QED
  BY <1>3, <1>4, <1>5, <1>6

LEMMA SubmitStep ==
  ASSUME LeaveInv, NEW e \in Entry, Submit(e)
  PROVE  LeaveInv'
<1>1. /\ entry' = [entry EXCEPT ![e] = "pending"] /\ entry[e] = "none"
      /\ UNCHANGED <<taken, unseen, decision, event, inserted, link, loose>>
  BY DEF Submit
<1>2. entry = [f \in Entry |-> entry[f]]
  BY DEF LeaveInv, LeaveShape
<1>3. LeaveShape'
  BY <1>1 DEF LeaveInv, LeaveShape, DecisionShape, Linkable, Inserted
<1>4. ASSUME NEW y PROVE CountApproved(entry, y)' = CountApproved(entry, y)
  <2>1. ApprovedIn(entry, y)' = ApprovedIn(entry, y)
    BY <1>1, <1>2 DEF ApprovedIn
  <2> QED
    BY <2>1 DEF CountApproved
<1>5. UsedDaysExact'
  BY <1>1, <1>4 DEF LeaveInv, UsedDaysExact
<1>6. ASSUME NEW b \in Approver PROVE CountExact(decision[b])'
  <2> DEFINE d == decision[b]
             y == StartYear[d.of]
  <2>1. ApprovedIn(Seen(d), y)' = ApprovedIn(Seen(d), y)
    BY <1>1, <1>2 DEF ApprovedIn, Seen
  <2>2. CountApproved(Seen(d), y)' = CountApproved(Seen(d), y)
    BY <1>1, <2>1 DEF CountApproved
  <2>3. CountExact(d)
    BY DEF LeaveInv
  <2> QED
    BY <1>1, <2>2, <2>3 DEF CountExact
<1>7. \A b \in Approver : Replaced(decision[b])'
  BY <1>1 DEF LeaveInv, Replaced
<1>8. EventsTracked'
  BY <1>1 DEF LeaveInv, EventsTracked
<1> QED
  BY <1>3, <1>5, <1>6, <1>7, <1>8 DEF LeaveInv

LEMMA CommitStep ==
  ASSUME LeaveInv, NEW a \in Approver, CommitDecision(a)
  PROVE  LeaveInv'
<1> DEFINE d  == decision[a]
           sy == StartYear[d.of]
           next(b) == CASE b = a -> IF d.to = "approved" THEN [step |-> "committed", of |-> d.of]
                                                         ELSE Waiting
                        [] b # a /\ decision[b].step = "counted" ->
                             [decision[b] EXCEPT !.past = @ \cup {d.of}]
                        [] b # a /\ decision[b].step # "counted" -> decision[b]
<1>1. /\ d.step = "counted" /\ d.of \in Entry /\ d.past \in SUBSET Entry /\ sy \in Year
  <2>1. d.step = "counted" /\ DecisionShape(d)
    BY DEF CommitDecision, LeaveInv, LeaveShape
  <2> QED
    BY <2>1, LeaveAssumption DEF DecisionShape
<1>2. /\ entry' = Seen(d)
      /\ entry' = [entry EXCEPT ![d.of] = d.to]
      /\ taken' = [taken EXCEPT ![sy] = d.days]
      /\ unseen' = [y \in Year |->
                      IF y = sy THEN d.past
                      ELSE IF Days[d.of][y] > 0 THEN unseen[y] \cup {d.of} ELSE unseen[y]]
      /\ decision' = [b \in Approver |-> next(b)]
      /\ UNCHANGED <<event, inserted, link, loose>>
  BY DEF CommitDecision, Recompute, Seen
<1>3. CountExact(d)
  BY DEF LeaveInv
<1>4. ASSUME NEW b \in Approver
      PROVE  /\ DecisionShape(decision[b])'
             /\ decision'[b].step = "pushed" <=> decision[b].step = "pushed"
             /\ decision'[b].step = "pushed" => decision'[b] = decision[b]
             /\ decision'[b].step = "counted" => decision'[b].past # {}
  <2>1. decision'[b] = next(b) /\ DecisionShape(decision[b])
    BY <1>2 DEF LeaveInv, LeaveShape
  <2>2. CASE b = a
    <3>1. decision'[b] = IF d.to = "approved" THEN [step |-> "committed", of |-> d.of]
                                              ELSE Waiting
      BY <2>1, <2>2
    <3> QED
      BY <1>1, <2>2, <3>1 DEF DecisionShape, Waiting
  <2>3. CASE b # a /\ decision[b].step = "counted"
    <3> DEFINE e == d.of
               r == decision[b]
    <3>1. decision'[b] = [r EXCEPT !.past = r.past \cup {e}]
      BY <2>1, <2>3
    <3>2. /\ r.of \in Entry /\ r.past \in SUBSET Entry
          /\ r = [step |-> "counted", of |-> r.of, to |-> r.to, days |-> r.days,
                  past |-> r.past]
      BY <2>1, <2>3 DEF DecisionShape
    <3>3. e \in Entry
      BY <1>1
    <3> HIDE DEF e, r
    <3>4. decision'[b] = [step |-> "counted", of |-> r.of, to |-> r.to, days |-> r.days,
                          past |-> r.past \cup {e}]
      BY <3>1, <3>2
    <3>5. r.step = "counted"
      BY <3>2
    <3>6. decision'[b].past # {} /\ decision'[b].step = "counted"
      BY <3>4
    <3>7. DecisionShape(decision[b])'
      BY <3>2, <3>3, <3>4 DEF DecisionShape
    <3> QED
      BY <3>5, <3>6, <3>7 DEF r
  <2>4. CASE b # a /\ decision[b].step # "counted"
    <3>1. decision'[b] = decision[b]
      BY <2>1, <2>4
    <3> QED
      BY <1>2, <2>1, <2>4, <3>1 DEF DecisionShape, Linkable, Inserted
  <2> QED
    BY <2>2, <2>3, <2>4
<1> HIDE DEF next
<1>5. LeaveShape'
  <2>1. /\ entry' = [e \in Entry |-> entry'[e]]
        /\ taken' = [y \in Year |-> taken'[y]]
    BY <1>2 DEF LeaveInv, LeaveShape
  <2>2. unseen' \in [Year -> SUBSET Entry]
    BY <1>1, <1>2 DEF LeaveInv, LeaveShape
  <2>3. decision' = [b \in Approver |-> decision'[b]]
    BY <1>2
  <2> QED
    BY <1>2, <1>4, <2>1, <2>2, <2>3 DEF LeaveInv, LeaveShape, Linkable, Inserted
<1>6. UsedDaysExact'
  <2> SUFFICES ASSUME NEW y \in Year, unseen'[y] = {} PROVE (taken[y] = CountApproved(entry, y))'
    BY DEF UsedDaysExact
  <2>1. CASE y = sy
    <3>1. d.past = {}
      BY <1>2, <2>1
    <3>2. d.days = CountApproved(entry', sy)
      BY <1>1, <1>2, <1>3, <3>1 DEF CountExact
    <3>3. taken'[y] = d.days
      BY <1>2, <2>1 DEF LeaveInv, LeaveShape
    <3> QED
      BY <2>1, <3>2, <3>3 DEF CountApproved, ApprovedIn
  <2>2. CASE y # sy
    <3>1. unseen[y] = {} /\ ~(Days[d.of][y] > 0)
      BY <1>2, <2>2
    <3>2. taken'[y] = taken[y]
      BY <1>2, <2>2 DEF LeaveInv, LeaveShape
    <3>3. ApprovedIn(entry, y)' = ApprovedIn(entry, y)
      <4>1. entry = [e \in Entry |-> entry[e]]
        BY DEF LeaveInv, LeaveShape
      <4> HIDE DEF d
      <4> QED
        BY <1>1, <1>2, <3>1, <4>1 DEF ApprovedIn
    <3> QED
      BY <3>1, <3>2, <3>3 DEF LeaveInv, UsedDaysExact, CountApproved
  <2> QED
    BY <2>1, <2>2
<1>7. ASSUME NEW b \in Approver PROVE CountExact(decision[b])' /\ Replaced(decision[b])'
  <2>1. CountExact(decision[b])'
    BY <1>4 DEF CountExact
  <2>2. Replaced(decision[b])'
    BY <1>2, <1>4 DEF Replaced, LeaveInv
  <2> QED
    BY <2>1, <2>2
<1>8. EventsTracked'
  BY <1>2, <1>4 DEF LeaveInv, EventsTracked
<1> QED
  BY <1>5, <1>6, <1>7, <1>8 DEF LeaveInv

LEMMA OnwardShape ==
  ASSUME NEW a \in Approver, decision[a].of \in Entry,
         Linkable(decision[a].prev, decision[a].of), NEW todo
  PROVE  LET d == Onward(a, todo)
         IN  /\ d.step \in {"none", "push"}
             /\ d.step = "push" => /\ d.of = decision[a].of
                                   /\ Linkable(d.prev, d.of)
BY DEF Onward, Waiting

\* A step of a push, by which an event may be inserted.
LEMMA LeavePushes ==
  ASSUME LeaveInv, UNCHANGED <<entry, taken, unseen>>, NEW a \in Approver, NEW d,
         decision' = [decision EXCEPT ![a] = d], d.step # "counted",
         DecisionShape(d)', Replaced(d)',
         inserted' \in {inserted, inserted + 1},
         \A v \in event' : v \in event \/ (v.id = inserted + 1 /\ inserted' = v.id /\ v.of \in Entry),
         link' = [e \in Entry |-> link'[e]],
         \A e \in Entry : link'[e] = link[e] \/ Inserted(link[e], e)',
         EventsTracked'
  PROVE  LeaveInv'
<1>1. \A b \in Approver : decision'[b] = IF b = a THEN d ELSE decision[b]
  BY DEF LeaveInv, LeaveShape
<1>2. inserted \in Nat /\ inserted' \in Nat /\ inserted <= inserted'
  BY DEF LeaveInv, LeaveShape
<1>3. ASSUME NEW v, NEW e, Inserted(v, e) PROVE Inserted(v, e)'
  BY <1>2, <1>3 DEF Inserted
<1>4. LeaveShape'
  <2>1. ASSUME NEW b \in Approver PROVE DecisionShape(decision[b])'
    <3>1. CASE b = a
      <4>1. DecisionShape(d)' /\ decision'[b] = d
        BY <1>1, <3>1
      <4> QED
        BY <4>1 DEF DecisionShape, Linkable, Inserted
    <3>2. CASE b # a
      <4>1. decision'[b] = decision[b] /\ DecisionShape(decision[b])
        BY <1>1, <3>2 DEF LeaveInv, LeaveShape
      <4> QED
        BY <1>3, <4>1 DEF DecisionShape, Linkable
    <3> QED
      BY <3>1, <3>2
  <2>2. ASSUME NEW v \in event' PROVE v.of \in Entry /\ Inserted(v, v.of)'
    <3>1. CASE v \in event
      BY <1>3, <3>1 DEF LeaveInv, LeaveShape
    <3>2. CASE v.id = inserted + 1 /\ inserted' = v.id /\ v.of \in Entry
      BY <1>2, <3>2 DEF Inserted
    <3> QED
      BY <3>1, <3>2
  <2>3. ASSUME NEW e \in Entry PROVE Linkable(link[e], e)'
    <3>1. CASE Inserted(link[e], e)'
      BY <3>1 DEF Linkable, Inserted
    <3>2. CASE link'[e] = link[e]
      <4>1. Linkable(link[e], e)
        BY DEF LeaveInv, LeaveShape
      <4> QED
        BY <1>2, <3>2, <4>1 DEF Linkable, Inserted
    <3> QED
      BY <3>1, <3>2
  <2>4. /\ entry' = [e \in Entry |-> entry'[e]]
        /\ taken' = [y \in Year |-> taken'[y]]
        /\ unseen' \in [Year -> SUBSET Entry]
        /\ decision' = [b \in Approver |-> decision'[b]]
    BY <1>1 DEF LeaveInv, LeaveShape
  <2> QED
    BY <1>2, <2>1, <2>2, <2>3, <2>4 DEF LeaveShape
<1>5. UsedDaysExact' /\ \A b \in Approver : CountExact(decision[b])'
  BY BalanceKept
<1>6. ASSUME NEW b \in Approver PROVE Replaced(decision[b])'
  <2>1. CASE b = a
    <3>1. Replaced(d)' /\ decision'[b] = d
      BY <1>1, <2>1
    <3> QED
      BY <3>1 DEF Replaced
  <2>2. CASE b # a
    <3>1. /\ decision'[b] = decision[b] /\ Replaced(decision[b])
          /\ DecisionShape(decision[b])
      BY <1>1, <2>2 DEF LeaveInv, LeaveShape
    <3>2. ASSUME decision[b].step = "pushed", decision[b].prev # NoEvent
          PROVE  ~(decision[b].prev.id = inserted + 1)
      <4>1. decision[b].prev.id \in 1 .. inserted
        BY <3>1, <3>2 DEF DecisionShape, Linkable, Inserted
      <4> QED
        BY <1>2, <4>1
    <3> QED
      BY <3>1, <3>2 DEF Replaced
  <2> QED
    BY <2>1, <2>2
<1> QED
  BY <1>4, <1>5, <1>6 DEF LeaveInv

LEMMA PushStep ==
  ASSUME LeaveInv, NEW a \in Approver, Push(a)
  PROVE  LeaveInv'
<1>1. PICK d, c, old, new : /\ d = decision[a] /\ c = Turn(d.todo)
                            /\ old = Existing(d, c) /\ new = NewEvent(a, c)
  OBVIOUS
<1>2. d.step = "push" /\ d.of \in Entry /\ Linkable(d.prev, d.of)
  BY <1>1 DEF Push, LeaveInv, LeaveShape, DecisionShape
<1>3. /\ UNCHANGED <<entry, taken, unseen, link, loose>>
      /\ \A b \in Approver : b # a => decision'[b] = decision[b]
  BY DEF Push, Decided, LeaveInv, LeaveShape
<1>4. /\ link' = [e \in Entry |-> link'[e]]
      /\ \A e \in Entry : link'[e] = link[e]
      /\ inserted \in Nat
  BY <1>3 DEF LeaveInv, LeaveShape
<1>5. CASE old \in event /\ Decided(a, PushedTo(d, c, old)) /\ UNCHANGED <<event, inserted>>
  <2>1. old = d.prev /\ old # NoEvent
    <3>1. NoEvent \notin event
      BY DEF LeaveInv, LeaveShape, Inserted, NoEvent
    <3> QED
      BY <1>1, <1>5, <3>1 DEF Existing
  <2>2. PICK p : p = PushedTo(d, c, old) 
    OBVIOUS
  <2>2a. p.step = "pushed" /\ p.of = d.of /\ p.prev = d.prev /\ p.got = old
    BY <2>2 DEF PushedTo
  <2>3. DecisionShape(p)' /\ Replaced(p)'
    BY <1>2, <1>5, <2>1, <2>2, <2>2a DEF DecisionShape, Replaced, Linkable, Inserted
  <2>4. decision' = [decision EXCEPT ![a] = p]
    BY <1>5, <2>2, <2>2a DEF Decided
  <2>5. EventsTracked'
    <3>1. decision[a].step # "pushed"
      BY <1>1, <1>2
    <3> QED
      BY <1>3, <1>5, <3>1 DEF LeaveInv, EventsTracked
  <2> QED
    BY <1>3, <1>4, <1>5, <2>2, <2>2a, <2>3, <2>4, <2>5, LeavePushes
<1>6. CASE /\ old \notin event /\ inserted' = inserted + 1
           /\ event' = event \cup {new} /\ Decided(a, PushedTo(d, c, new))
  <2>1. new.id = inserted + 1 /\ new.of = d.of /\ new.at = c
    BY <1>1 DEF NewEvent
  <2>2. PICK p : p = PushedTo(d, c, new) 
    OBVIOUS
  <2>2a. p.step = "pushed" /\ p.of = d.of /\ p.prev = d.prev /\ p.got = new
    BY <2>2 DEF PushedTo
  <2>3. DecisionShape(p)'
    <3>1. Linkable(d.prev, d.of)' /\ Inserted(new, d.of)'
      BY <1>2, <1>4, <1>6, <2>1 DEF Linkable, Inserted
    <3> QED
      BY <1>2, <2>2, <2>2a, <3>1 DEF DecisionShape
  <2>4. Replaced(p)'
    <3>1. d.prev # NoEvent => d.prev # new
      BY <1>2, <1>4, <2>1 DEF Linkable, Inserted
    <3>2. d.prev # NoEvent /\ d.prev.at = c => d.prev \notin event
      BY <1>1, <1>6 DEF Existing
    <3> QED
      BY <1>6, <2>1, <2>2, <2>2a, <3>1, <3>2 DEF Replaced
  <2>5. decision' = [decision EXCEPT ![a] = p]
    BY <1>6, <2>2, <2>2a DEF Decided
  <2>6. EventsTracked'
    <3>1. decision[a].step # "pushed"
      BY <1>1, <1>2
    <3>2. decision'[a] = p
      BY <2>5 DEF LeaveInv, LeaveShape
    <3> QED
      BY <1>3, <1>6, <2>2, <2>2a, <3>1, <3>2 DEF LeaveInv, EventsTracked
  <2> QED
    BY <1>2, <1>3, <1>4, <1>6, <2>1, <2>2, <2>2a, <2>3, <2>4, <2>5, <2>6, LeavePushes
<1> QED
  BY <1>1, <1>5, <1>6 DEF Push

LEMMA PushFailsStep ==
  ASSUME LeaveInv, NEW a \in Approver, PushFails(a)
  PROVE  LeaveInv'
<1>1. PICK d, c, new, p : /\ d = decision[a] /\ c = Turn(d.todo) /\ new = NewEvent(a, c)
                          /\ p = Onward(a, d.todo \ {c})
  OBVIOUS
<1>2. d.step = "push" /\ d.of \in Entry /\ Linkable(d.prev, d.of)
  BY <1>1 DEF PushFails, LeaveInv, LeaveShape, DecisionShape
<1>3. /\ UNCHANGED <<entry, taken, unseen, link>>
      /\ decision' = [decision EXCEPT ![a] = p]
      /\ \A b \in Approver : b # a => decision'[b] = decision[b]
  BY <1>1 DEF PushFails, Decided, LeaveInv, LeaveShape
<1>4. /\ link' = [e \in Entry |-> link'[e]]
      /\ \A e \in Entry : link'[e] = link[e]
      /\ inserted \in Nat
  BY <1>3 DEF LeaveInv, LeaveShape
<1>5. /\ p.step \in {"none", "push"}
      /\ p.step = "push" => p.of = d.of /\ Linkable(p.prev, p.of)
  BY <1>1, <1>2, OnwardShape
<1>6. new.id = inserted + 1 /\ new.of = d.of
  BY <1>1 DEF NewEvent
<1>7. \/ UNCHANGED <<event, inserted, loose>>
      \/ inserted' = inserted + 1 /\ event' = event \cup {new} /\ loose' = loose \cup {new}
  BY <1>1 DEF PushFails
<1>8. DecisionShape(p)'
  <2>1. p.step = "push" => Linkable(p.prev, p.of)'
    BY <1>4, <1>5, <1>7 DEF Linkable, Inserted
  <2> QED
    BY <1>2, <1>5, <2>1 DEF DecisionShape
<1>9. Replaced(p)' /\ p.step # "counted"
  BY <1>5 DEF Replaced
<1>10. EventsTracked'
  BY <1>1, <1>2, <1>3, <1>7 DEF LeaveInv, EventsTracked
<1> QED
  BY <1>2, <1>3, <1>4, <1>6, <1>7, <1>8, <1>9, <1>10, LeavePushes

LEMMA RecordStep ==
  ASSUME LeaveInv, NEW a \in Approver, Record(a)
  PROVE  LeaveInv'
<1>1. PICK d, p, was : /\ d = decision[a] /\ p = Onward(a, d.todo) /\ was = link[d.of]
  OBVIOUS
<1>2. /\ d.step = "pushed" /\ d.of \in Entry /\ Linkable(d.prev, d.of)
      /\ Inserted(d.got, d.of) /\ Replaced(d)
  BY <1>1 DEF Record, LeaveInv, LeaveShape, DecisionShape
<1>3. /\ UNCHANGED <<entry, taken, unseen, event, inserted>>
      /\ decision' = [decision EXCEPT ![a] = p]
      /\ \A b \in Approver : b # a => decision'[b] = decision[b]
      /\ link' = [link EXCEPT ![d.of] = d.got]
      /\ loose' = IF was # NoEvent /\ (was # d.prev \/ was.at # d.got.at)
                  THEN loose \cup {was} ELSE loose
  BY <1>1 DEF Record, Decided, LeaveInv, LeaveShape
<1>4. link = [e \in Entry |-> link[e]]
  BY DEF LeaveInv, LeaveShape
<1>5. /\ link' = [e \in Entry |-> link'[e]]
      /\ \A e \in Entry : e # d.of => link'[e] = link[e]
      /\ link'[d.of] = d.got
  BY <1>2, <1>3, <1>4
<1>6. \A e \in Entry : link'[e] = link[e] \/ Inserted(link[e], e)'
  BY <1>2, <1>3, <1>5 DEF Inserted
<1>7. /\ p.step \in {"none", "push"}
      /\ p.step = "push" => p.of = d.of /\ Linkable(p.prev, p.of)
  BY <1>1, <1>2, OnwardShape
<1>8. DecisionShape(p)' /\ Replaced(p)' /\ p.step # "counted"
  BY <1>2, <1>3, <1>7 DEF DecisionShape, Linkable, Inserted, Replaced
<1>9. EventsTracked'
  <2> SUFFICES ASSUME NEW v \in event
               PROVE  \/ v \in loose' \/ link'[v.of] = v
                      \/ \E b \in Approver : decision'[b].step = "pushed" /\ decision'[b].got = v
    BY <1>3 DEF EventsTracked
  <2>1. v.of \in Entry /\ v # NoEvent
    BY DEF LeaveInv, LeaveShape, Inserted, NoEvent
  <2>2. CASE v \in loose
    BY <1>3, <2>2
  <2>3. CASE link[v.of] = v
    <3>1. CASE v.of # d.of
      BY <1>5, <2>1, <2>3, <3>1
    <3>2. CASE v.of = d.of /\ v = d.got
      BY <1>5, <3>2
    <3>3. CASE v.of = d.of /\ v # d.got
      <4>1. was = v
        BY <1>1, <2>3, <3>3
      <4>2. v # d.prev \/ v.at # d.got.at
        BY <1>2, <2>1, <3>3 DEF Replaced
      <4> QED
        BY <1>3, <2>1, <4>1, <4>2
    <3> QED
      BY <3>1, <3>2, <3>3
  <2>4. ASSUME NEW b \in Approver, decision[b].step = "pushed", decision[b].got = v
        PROVE  \/ link'[v.of] = v
               \/ \E e \in Approver : decision'[e].step = "pushed" /\ decision'[e].got = v
    <3>1. CASE b = a
      BY <1>1, <1>2, <1>5, <2>4, <3>1 DEF Inserted
    <3>2. CASE b # a
      BY <1>3, <2>4, <3>2
    <3> QED
      BY <3>1, <3>2
  <2> QED
    BY <2>2, <2>3, <2>4 DEF LeaveInv, EventsTracked
<1> QED
  BY <1>3, <1>5, <1>6, <1>8, <1>9, LeavePushes

LEMMA RecordFailsStep ==
  ASSUME LeaveInv, NEW a \in Approver, RecordFails(a)
  PROVE  LeaveInv'
<1>1. PICK d, p : d = decision[a] /\ p = Onward(a, d.todo)
  OBVIOUS
<1>2. /\ d.step = "pushed" /\ d.of \in Entry /\ Linkable(d.prev, d.of)
      /\ Inserted(d.got, d.of)
  BY <1>1 DEF RecordFails, LeaveInv, LeaveShape, DecisionShape
<1>3. /\ UNCHANGED <<entry, taken, unseen, event, inserted, link>>
      /\ decision' = [decision EXCEPT ![a] = p]
      /\ \A b \in Approver : b # a => decision'[b] = decision[b]
      /\ loose' = IF link[d.of] = d.got THEN loose ELSE loose \cup {d.got}
  BY <1>1 DEF RecordFails, Decided, LeaveInv, LeaveShape
<1>4. link' = [e \in Entry |-> link'[e]] /\ \A e \in Entry : link'[e] = link[e]
  BY <1>3 DEF LeaveInv, LeaveShape
<1>5. /\ p.step \in {"none", "push"}
      /\ p.step = "push" => p.of = d.of /\ Linkable(p.prev, p.of)
  BY <1>1, <1>2, OnwardShape
<1>6. DecisionShape(p)' /\ Replaced(p)' /\ p.step # "counted"
  BY <1>2, <1>3, <1>5 DEF DecisionShape, Linkable, Inserted, Replaced
<1>7. EventsTracked'
  BY <1>1, <1>2, <1>3 DEF LeaveInv, EventsTracked, Inserted
<1> QED
  BY <1>3, <1>4, <1>6, <1>7, LeavePushes

LEMMA LeaveStep == LeaveInv /\ [LeaveNext]_leaveVars => LeaveInv'
<1> SUFFICES ASSUME LeaveInv, [LeaveNext]_leaveVars PROVE LeaveInv'
  OBVIOUS
<1>1. ASSUME NEW e \in Entry, Submit(e) PROVE LeaveInv'
  BY <1>1, SubmitStep
<1>2. ASSUME NEW a \in Approver,
             \/ \E e \in Entry, to \in Verdict : Decide(a, e, to)
             \/ Count(a) \/ Abort(a) \/ Load(a)
      PROVE  LeaveInv'
  BY <1>2, DecideStep
<1>3. ASSUME NEW a \in Approver, CommitDecision(a) PROVE LeaveInv'
  BY <1>3, CommitStep
<1>4. ASSUME NEW a \in Approver, Push(a) PROVE LeaveInv'
  BY <1>4, PushStep
<1>5. ASSUME NEW a \in Approver, PushFails(a) PROVE LeaveInv'
  BY <1>5, PushFailsStep
<1>6. ASSUME NEW a \in Approver, Record(a) PROVE LeaveInv'
  BY <1>6, RecordStep
<1>7. ASSUME NEW a \in Approver, RecordFails(a) PROVE LeaveInv'
  BY <1>7, RecordFailsStep
<1>8. ASSUME NEW v \in event, Vanish(v) PROVE LeaveInv'
  <2>1. LeaveShape'
    BY <1>8 DEF Vanish, LeaveInv, LeaveShape, DecisionShape, Linkable, Inserted
  <2>2. \A a \in Approver : CountExact(decision[a])' /\ Replaced(decision[a])'
    BY <1>8 DEF Vanish, LeaveInv, CountExact, Seen, CountApproved, ApprovedIn, Replaced
  <2>3. UsedDaysExact' /\ EventsTracked'
    BY <1>8 DEF Vanish, LeaveInv, UsedDaysExact, CountApproved, ApprovedIn, EventsTracked
  <2> QED
    BY <2>1, <2>2, <2>3 DEF LeaveInv
<1>9. ASSUME UNCHANGED leaveVars PROVE LeaveInv'
  <2>1. LeaveShape'
    BY <1>9 DEF leaveVars, LeaveInv, LeaveShape, DecisionShape, Linkable, Inserted
  <2>2. \A a \in Approver : CountExact(decision[a])' /\ Replaced(decision[a])'
    BY <1>9 DEF leaveVars, LeaveInv, CountExact, Seen, CountApproved, ApprovedIn, Replaced
  <2>3. UsedDaysExact' /\ EventsTracked'
    BY <1>9 DEF leaveVars, LeaveInv, UsedDaysExact, CountApproved, ApprovedIn, EventsTracked
  <2> QED
    BY <2>1, <2>2, <2>3 DEF LeaveInv
<1> QED
  BY <1>1, <1>2, <1>3, <1>4, <1>5, <1>6, <1>7, <1>8, <1>9 DEF LeaveNext

\* Once a decision on leave is made the balance of the year is the approved days in
\* it, unless another outran its count, and every event on a calendar is the one its
\* entry links to or is known to be lost: for any number of members' entries,
\* deciders, calendars and failures (approveLeave, PushApprovedLeave).
THEOREM LeaveIsSettled == LeaveSpec => []LeaveSettled
<1>1. LeaveInv => LeaveSettled
  BY DEF LeaveInv, LeaveSettled
<1> QED
  BY LeaveInitially, LeaveStep, <1>1, PTL DEF LeaveSpec

-----------------------------------------------------------------------------
(* The connection to GitHub *)

\* A row has no token, or one of the account or installation it is for.
RowAgrees(row) == row.token = None \/ row.token = row.of

\* The rows that are stored, and about to be written back, agree.
RowsAgree ==
  /\ conn # NoConn => RowAgrees(conn)
  /\ \A c \in Caller : caller[c].at = "mint" => RowAgrees(caller[c].row)

\* Callers about to create a hook of a repository.
Creating(r) == {c \in Caller : caller[c].at = "create" /\ caller[c].repo = r}

\* Once there is a hook, what may still be created beside it is accounted for.
HooksCounted ==
  /\ \A c \in Caller : caller[c].at = "edit" => hooks[caller[c].repo] # << >>
  /\ \A r \in Hooked : hooks[r] # << >> =>
       Len(hooks[r]) + Cardinality(Creating(r)) <= 1 + beside[r]

\* Of the secrets written since somebody was told, one is a hook's, whatever was rotated.
LatestHooked ==
  \A r \in Hooked : written[r] # {} => \E k \in 1 .. Len(hooks[r]) : hooks[r][k] \in written[r]

GitShape == GitTypeOK /\ caller = [c \in Caller |-> caller[c]]

GitInv == GitShape /\ RowsAgree /\ HooksCounted /\ LatestHooked

LEMMA CreatingCounts ==
  ASSUME NEW r
  PROVE  IsFiniteSet(Creating(r)) /\ Cardinality(Creating(r)) \in Nat
<1>1. Creating(r) \subseteq Caller
  BY DEF Creating
<1> QED
  BY <1>1, GitAssumption, FS_Subset, FS_CardinalityType

LEMMA GitInitially == GitInit => GitInv
<1> SUFFICES ASSUME GitInit PROVE GitInv
  OBVIOUS
<1>1. GitTypeOK
  BY GitAssumption DEF GitInit, GitTypeOK
<1> QED
  BY <1>1 DEF GitInit, GitInv, GitShape, RowsAgree, HooksCounted, LatestHooked, Away, NoConn

\* The row is written, by who is not a caller or by one who is done.
LEMMA ConnectionStep ==
  ASSUME GitInv, UNCHANGED <<hookVars, caller>>, conn' = NoConn \/ (conn' \in Conns /\ RowAgrees(conn'))
  PROVE  GitInv'
<1>1. GitShape' /\ RowsAgree'
  BY DEF GitInv, GitShape, GitTypeOK, RowsAgree, hookVars, RowAgrees
<1>2. HooksCounted' /\ LatestHooked'
  BY DEF GitInv, HooksCounted, LatestHooked, Creating, hookVars
<1> QED
  BY <1>1, <1>2 DEF GitInv

\* A caller goes on without touching a hook.
LEMMA CallerStep ==
  ASSUME GitInv, UNCHANGED <<hooks, beside, written>>,
         conn' = conn \/ (conn' \in Conns /\ RowAgrees(conn')),
         secret' \in 0 .. MaxSecrets, secrets' \in 0 .. MaxSecrets,
         NEW c \in Caller, NEW p, Moves(c, p),
         p = Away \/ p \in Callers,
         p.at = "mint" => RowAgrees(p.row),
         p.at = "edit" => hooks[p.repo] # << >>,
         p.at = "create" => hooks[p.repo] = << >>
  PROVE  GitInv'
<1>1. /\ \A d \in Caller : caller'[d] = IF d = c THEN p ELSE caller[d]
      /\ caller' = [d \in Caller |-> caller'[d]]
  BY DEF Moves, GitInv, GitShape
<1>2. GitShape'
  BY <1>1 DEF GitInv, GitShape, GitTypeOK
<1>3. RowsAgree'
  BY <1>1 DEF GitInv, RowsAgree, RowAgrees
<1>4. ASSUME NEW r \in Hooked, hooks[r] # << >>
      PROVE  Len(hooks[r]) + Cardinality(Creating(r)') <= 1 + beside[r]
  <2>1. Creating(r)' \subseteq Creating(r)
    BY <1>1, <1>4 DEF Creating
  <2>2. /\ Cardinality(Creating(r)') \in Nat /\ Cardinality(Creating(r)) \in Nat
        /\ Cardinality(Creating(r)') <= Cardinality(Creating(r))
    BY <2>1, CreatingCounts, FS_Subset, FS_CardinalityType
  <2>3. Len(hooks[r]) \in Nat /\ beside[r] \in Nat
    BY DEF GitInv, GitShape, GitTypeOK
  <2>4. Len(hooks[r]) + Cardinality(Creating(r)) <= 1 + beside[r]
    BY <1>4 DEF GitInv, HooksCounted
  <2> QED
    BY <2>2, <2>3, <2>4
<1>5. HooksCounted'
  BY <1>1, <1>4 DEF GitInv, HooksCounted
<1>6. LatestHooked'
  BY DEF GitInv, LatestHooked
<1> QED
  BY <1>2, <1>3, <1>5, <1>6 DEF GitInv

LEMMA RowStep ==
  ASSUME GitInv,
         \/ Connect \/ Disconnect \/ TokenAges
         \/ \E i \in Installation : Install(i)
  PROVE  GitInv'
<1>1. conn = NoConn \/ (conn \in Conns /\ RowAgrees(conn))
  BY DEF GitInv, GitShape, GitTypeOK, RowsAgree
<1>2. CASE Connect
  BY <1>2, ConnectionStep DEF Connect, UpsertConnection, Conns, RowAgrees
<1>3. CASE Disconnect
  BY <1>3, ConnectionStep DEF Disconnect
<1>4. CASE TokenAges
  <2>1. conn' \in Conns /\ RowAgrees(conn')
    BY <1>1, <1>4 DEF TokenAges, Conns, RowAgrees
  <2> QED
    BY <1>4, <2>1, ConnectionStep DEF TokenAges
<1>5. ASSUME NEW i \in Installation, Install(i) PROVE GitInv'
  BY <1>5, ConnectionStep DEF Install, Installed, UpsertConnection, Conns, RowAgrees
<1> QED
  BY <1>2, <1>3, <1>4, <1>5

LEMMA CallersStep ==
  ASSUME GitInv, NEW c \in Caller,
         \/ StatusPage(c) \/ Resolve(c) \/ Mint(c)
         \/ \E i \in Installation : Adopt(c, i)
         \/ \E r \in Hooked : Register(c, r)
         \/ ReadSecret(c) \/ Generate(c) \/ ListHooks(c) \/ Fail(c)
  PROVE  GitInv'
<1>1. /\ caller[c] = Away \/ caller[c] \in Callers
      /\ secret \in 0 .. MaxSecrets /\ secrets \in 0 .. MaxSecrets
      /\ conn \in {NoConn} \cup Conns
      /\ conn # NoConn => RowAgrees(conn)
  BY DEF GitInv, GitShape, GitTypeOK, RowsAgree
<1> USE DEF hookVars
<1>2. CASE StatusPage(c)
  BY <1>1, <1>2, CallerStep DEF StatusPage, Callers
<1>3. CASE Resolve(c)
  BY <1>1, <1>3, CallerStep DEF Resolve, Callers, NoConn, None
<1>4. CASE Mint(c)
  <2>1. PICK row : row = caller[c].row
    OBVIOUS
  <2>2. row \in Conns /\ RowAgrees(row)
    BY <1>1, <1>4, <2>1 DEF Mint, Away, Callers, GitInv, RowsAgree
  <2>3. conn' = [row EXCEPT !.token = row.of, !.fresh = TRUE]
    BY <1>4, <2>1 DEF Mint, UpsertConnection
  <2>4. conn' \in Conns /\ RowAgrees(conn')
    BY <2>2, <2>3 DEF Conns, RowAgrees
  <2> QED
    BY <1>1, <1>4, <2>4, CallerStep DEF Mint, Away
<1>5. ASSUME NEW i \in Installation, Adopt(c, i) PROVE GitInv'
  <2>1. conn' \in Conns /\ RowAgrees(conn')
    BY <1>5 DEF Adopt, Installed, UpsertConnection, Conns, RowAgrees
  <2> QED
    BY <1>1, <1>5, <2>1, CallerStep DEF Adopt, Away
<1>6. ASSUME NEW r \in Hooked, Register(c, r) PROVE GitInv'
  BY <1>1, <1>6, CallerStep DEF Register, Callers
<1>7. CASE ReadSecret(c)
  <2>1. caller[c] \in [at : {"secret"}, repo : Hooked]
    BY <1>1, <1>7 DEF ReadSecret, Away, Callers
  <2>2. CASE secret # 0
    <3>1. PICK p : p = [at |-> "list", repo |-> caller[c].repo, secret |-> secret]
      OBVIOUS
    <3>2. p \in Callers /\ p.at = "list"
      BY <1>1, <2>1, <2>2, <3>1 DEF Callers
    <3>3. Moves(c, p)
      BY <1>7, <2>2, <3>1 DEF ReadSecret, WithSecret
    <3> QED
      BY <1>1, <1>7, <3>2, <3>3, CallerStep DEF ReadSecret
  <2>3. CASE secret = 0
    <3>1. PICK p : p = [caller[c] EXCEPT !.at = "generate"]
      OBVIOUS
    <3>2. p \in Callers /\ p.at = "generate"
      BY <2>1, <3>1 DEF Callers
    <3>3. Moves(c, p)
      BY <1>7, <2>3, <3>1 DEF ReadSecret
    <3> QED
      BY <1>1, <1>7, <3>2, <3>3, CallerStep DEF ReadSecret
  <2> QED
    BY <2>2, <2>3
<1>8. CASE Generate(c)
  <2>1. caller[c] \in [at : {"generate"}, repo : Hooked]
    BY <1>1, <1>8 DEF Generate, Away, Callers
  <2>2. secrets + 1 \in 1 .. MaxSecrets
    BY <1>1, <1>8, GitAssumption DEF Generate, NewSecret
  <2>3. PICK p : p = [at |-> "list", repo |-> caller[c].repo, secret |-> secrets + 1]
    OBVIOUS
  <2>4. p \in Callers /\ p.at = "list"
    BY <2>1, <2>2, <2>3 DEF Callers
  <2>5. Moves(c, p) /\ secret' = secrets + 1 /\ secrets' = secrets + 1
    BY <1>8, <2>3 DEF Generate, NewSecret, WithSecret
  <2> QED
    BY <1>8, <2>2, <2>4, <2>5, CallerStep DEF Generate
<1>9. CASE ListHooks(c)
  <2>1. caller[c] \in [at : {"list"}, repo : Hooked, secret : 1 .. MaxSecrets]
    BY <1>1, <1>9 DEF ListHooks, Away, Callers
  <2>2. PICK next : next = HookStep(caller[c].repo)
    OBVIOUS
  <2>3. PICK p : p = [caller[c] EXCEPT !.at = next]
    OBVIOUS
  <2>4. next \in {"create", "edit"} /\ (next = "create" <=> hooks[caller[c].repo] = << >>)
    BY <2>2 DEF HookStep
  <2>5. p \in Callers /\ p.at = next /\ p.repo = caller[c].repo
    BY <2>1, <2>3, <2>4 DEF Callers
  <2>6. Moves(c, p)
    BY <1>9, <2>2, <2>3 DEF ListHooks
  <2> QED
    BY <1>1, <1>9, <2>4, <2>5, <2>6, CallerStep DEF ListHooks
<1>10. CASE Fail(c)
  BY <1>1, <1>10, CallerStep DEF Fail, Away
<1> QED
  BY <1>2, <1>3, <1>4, <1>5, <1>6, <1>7, <1>8, <1>9, <1>10

LEMMA EditStep ==
  ASSUME GitInv, NEW c \in Caller, NEW told \in BOOLEAN, EditHook(c, told)
  PROVE  GitInv'
<1>1. PICK r, s : r = caller[c].repo /\ s = caller[c].secret
  OBVIOUS
<1>2. caller[c] \in [at : {"edit"}, repo : Hooked, secret : 1 .. MaxSecrets]
  <2>1. caller[c] = Away \/ caller[c] \in Callers
    BY DEF GitInv, GitShape, GitTypeOK
  <2>2. caller[c].at = "edit"
    BY DEF EditHook
  <2> QED
    BY <2>1, <2>2 DEF Away, Callers
<1>3. r \in Hooked /\ s \in 1 .. MaxSecrets /\ hooks[r] # << >>
  BY <1>1, <1>2 DEF GitInv, HooksCounted
<1>4. hooks \in [Hooked -> Seq(1 .. MaxSecrets)] /\ written \in [Hooked -> SUBSET (1 .. MaxSecrets)]
  BY DEF GitInv, GitShape, GitTypeOK
<1>5. /\ hooks' = [hooks EXCEPT ![r][1] = s]
      /\ written' = [written EXCEPT ![r] = IF told THEN {s} ELSE written[r] \cup {s}]
      /\ caller' = [caller EXCEPT ![c] = Away]
      /\ UNCHANGED <<conn, secret, secrets, beside>>
  BY <1>1 DEF EditHook, Registered, Moves
<1>6. /\ Len(hooks[r]) >= 1 /\ 1 \in DOMAIN hooks[r]
  BY <1>3, <1>4
<1>7. /\ hooks'[r] = [hooks[r] EXCEPT ![1] = s]
      /\ \A q \in Hooked : q # r => hooks'[q] = hooks[q]
  BY <1>3, <1>4, <1>5
<1>8. /\ hooks'[r] \in Seq(1 .. MaxSecrets) /\ Len(hooks'[r]) = Len(hooks[r])
      /\ hooks'[r][1] = s
  BY <1>3, <1>4, <1>6, <1>7
<1>9. /\ caller'[c] = Away
      /\ \A d \in Caller : d # c => caller'[d] = caller[d]
  BY <1>5 DEF GitInv, GitShape
<1>10. GitShape'
  <2>1. hooks' \in [Hooked -> Seq(1 .. MaxSecrets)]
    BY <1>4, <1>5, <1>7, <1>8
  <2>2. written' \in [Hooked -> SUBSET (1 .. MaxSecrets)]
    BY <1>3, <1>4, <1>5
  <2>3. caller' = [d \in Caller |-> caller'[d]]
    BY <1>5 DEF GitInv, GitShape
  <2> QED
    BY <1>5, <1>9, <2>1, <2>2, <2>3 DEF GitInv, GitShape, GitTypeOK
<1>11. RowsAgree'
  BY <1>5, <1>9 DEF GitInv, RowsAgree, RowAgrees, Away
<1>12. ASSUME NEW q \in Hooked
       PROVE  /\ Creating(q)' = Creating(q)
              /\ Len(hooks'[q]) = Len(hooks[q])
              /\ hooks'[q] # << >> <=> hooks[q] # << >>
  <2>1. Creating(q)' = Creating(q)
    BY <1>2, <1>9 DEF Creating, Away
  <2>2. CASE q = r
    BY <1>3, <1>4, <1>6, <1>8, <2>1, <2>2
  <2>3. CASE q # r
    BY <1>7, <2>1, <2>3
  <2> QED
    BY <2>2, <2>3
<1>13. HooksCounted'
  <2>1. ASSUME NEW d \in Caller, caller'[d].at = "edit" PROVE hooks'[caller'[d].repo] # << >>
    <3>1. caller'[d] = caller[d]
      BY <1>9, <2>1 DEF Away
    <3>2. caller[d] \in [at : {"edit"}, repo : Hooked, secret : 1 .. MaxSecrets]
      BY <2>1, <3>1 DEF GitInv, GitShape, GitTypeOK, Away, Callers
    <3>3. caller[d].repo \in Hooked /\ hooks[caller[d].repo] # << >>
      BY <3>2 DEF GitInv, HooksCounted
    <3> QED
      BY <1>12, <3>1, <3>3
  <2>2. ASSUME NEW q \in Hooked, hooks'[q] # << >>
        PROVE  Len(hooks'[q]) + Cardinality(Creating(q)') <= 1 + beside'[q]
    BY <1>5, <1>12, <2>2 DEF GitInv, HooksCounted
  <2> QED
    BY <2>1, <2>2 DEF HooksCounted
<1>14. LatestHooked'
  <2>1. ASSUME NEW q \in Hooked, q # r, written'[q] # {}
        PROVE  \E k \in 1 .. Len(hooks'[q]) : hooks'[q][k] \in written'[q]
    BY <1>4, <1>5, <1>7, <2>1 DEF GitInv, LatestHooked
  <2>2. \E k \in 1 .. Len(hooks'[r]) : hooks'[r][k] \in written'[r]
    BY <1>3, <1>4, <1>5, <1>6, <1>8
  <2> QED
    BY <2>1, <2>2 DEF LatestHooked
<1> QED
  BY <1>10, <1>11, <1>13, <1>14 DEF GitInv

LEMMA CreateStep ==
  ASSUME GitInv, NEW c \in Caller, NEW told \in BOOLEAN, CreateHook(c, told)
  PROVE  GitInv'
<1>1. PICK r, s : r = caller[c].repo /\ s = caller[c].secret
  OBVIOUS
<1>2. caller[c] \in [at : {"create"}, repo : Hooked, secret : 1 .. MaxSecrets]
  <2>1. caller[c] = Away \/ caller[c] \in Callers
    BY DEF GitInv, GitShape, GitTypeOK
  <2>2. caller[c].at = "create"
    BY DEF CreateHook
  <2> QED
    BY <2>1, <2>2 DEF Away, Callers
<1>3. r \in Hooked /\ s \in 1 .. MaxSecrets /\ c \in Creating(r)
  BY <1>1, <1>2 DEF Creating
<1>4. /\ hooks \in [Hooked -> Seq(1 .. MaxSecrets)] /\ written \in [Hooked -> SUBSET (1 .. MaxSecrets)]
      /\ beside \in [Hooked -> Nat]
  BY DEF GitInv, GitShape, GitTypeOK
<1>5. {d \in Caller \ {c} : caller[d].at = "create" /\ caller[d].repo = r} = Creating(r) \ {c}
  BY DEF Creating
<1>6. /\ hooks' = [hooks EXCEPT ![r] = Append(hooks[r], s)]
      /\ beside' = [beside EXCEPT ![r] = beside[r] + Cardinality(Creating(r) \ {c})]
      /\ written' = [written EXCEPT ![r] = IF told THEN {s} ELSE written[r] \cup {s}]
      /\ caller' = [caller EXCEPT ![c] = Away]
      /\ UNCHANGED <<conn, secret, secrets>>
  BY <1>1, <1>5 DEF CreateHook, Registered, Moves
<1>7. /\ Cardinality(Creating(r)) \in Nat
      /\ Cardinality(Creating(r) \ {c}) \in Nat
      /\ Cardinality(Creating(r) \ {c}) = Cardinality(Creating(r)) - 1
  BY <1>3, CreatingCounts, FS_RemoveElement, FS_CardinalityType
<1>8. /\ hooks'[r] = Append(hooks[r], s)
      /\ \A q \in Hooked : q # r => hooks'[q] = hooks[q]
      /\ beside'[r] = beside[r] + Cardinality(Creating(r) \ {c})
      /\ \A q \in Hooked : q # r => beside'[q] = beside[q]
  BY <1>3, <1>4, <1>6
<1>9. /\ hooks'[r] \in Seq(1 .. MaxSecrets) /\ Len(hooks'[r]) = Len(hooks[r]) + 1
      /\ hooks'[r] # << >>
      /\ hooks'[r][Len(hooks'[r])] = s /\ Len(hooks[r]) \in Nat
  <2>1. PICK h : h = hooks[r]
    OBVIOUS
  <2>2. h \in Seq(1 .. MaxSecrets)
    BY <1>3, <1>4, <2>1
  <2>3. /\ Append(h, s) \in Seq(1 .. MaxSecrets) /\ Len(Append(h, s)) = Len(h) + 1
        /\ Append(h, s)[Len(h) + 1] = s /\ Len(h) \in Nat
    BY <1>3, <2>2
  <2>4. Append(h, s) # << >>
    BY <2>3
  <2> QED
    BY <1>8, <2>1, <2>3, <2>4
<1>10. /\ caller'[c] = Away
       /\ \A d \in Caller : d # c => caller'[d] = caller[d]
  BY <1>6 DEF GitInv, GitShape
<1>11. GitShape'
  <2>1. hooks' \in [Hooked -> Seq(1 .. MaxSecrets)]
    BY <1>4, <1>6, <1>8, <1>9
  <2>2. written' \in [Hooked -> SUBSET (1 .. MaxSecrets)]
    <3>1. (IF told THEN {s} ELSE written[r] \cup {s}) \in SUBSET (1 .. MaxSecrets)
      BY <1>3, <1>4
    <3> QED
      BY <1>4, <1>6, <3>1
  <2>3. beside' \in [Hooked -> Nat]
    BY <1>3, <1>4, <1>6, <1>7
  <2>4. caller' = [d \in Caller |-> caller'[d]]
    BY <1>6 DEF GitInv, GitShape
  <2> QED
    BY <1>6, <1>10, <2>1, <2>2, <2>3, <2>4 DEF GitInv, GitShape, GitTypeOK
<1>12. RowsAgree'
  BY <1>6, <1>10 DEF GitInv, RowsAgree, RowAgrees, Away
<1>13. /\ Creating(r)' = Creating(r) \ {c}
       /\ \A q \in Hooked : q # r => Creating(q)' = Creating(q)
  BY <1>1, <1>10 DEF Creating, Away
<1>14. HooksCounted'
  <2>1. ASSUME NEW d \in Caller, caller'[d].at = "edit" PROVE hooks'[caller'[d].repo] # << >>
    <3>1. caller'[d] = caller[d]
      BY <1>10, <2>1 DEF Away
    <3>2. caller[d] \in [at : {"edit"}, repo : Hooked, secret : 1 .. MaxSecrets]
      BY <2>1, <3>1 DEF GitInv, GitShape, GitTypeOK, Away, Callers
    <3>3. caller[d].repo \in Hooked /\ hooks[caller[d].repo] # << >>
      BY <3>2 DEF GitInv, HooksCounted
    <3> QED
      BY <1>8, <1>9, <3>1, <3>3
  <2>2. Len(hooks'[r]) + Cardinality(Creating(r)') <= 1 + beside'[r]
    <3>1. CASE hooks[r] = << >>
      <4>1. Len(hooks[r]) = 0 /\ beside[r] \in Nat
        BY <1>3, <1>4, <3>1
      <4> QED
        BY <1>7, <1>8, <1>9, <1>13, <4>1
    <3>2. CASE hooks[r] # << >>
      <4>1. Len(hooks[r]) + Cardinality(Creating(r)) <= 1 + beside[r] /\ beside[r] \in Nat
        BY <1>3, <1>4, <3>2 DEF GitInv, HooksCounted
      <4> QED
        BY <1>7, <1>8, <1>9, <1>13, <4>1
    <3> QED
      BY <3>1, <3>2
  <2>3. ASSUME NEW q \in Hooked, q # r, hooks'[q] # << >>
        PROVE  Len(hooks'[q]) + Cardinality(Creating(q)') <= 1 + beside'[q]
    BY <1>8, <1>13, <2>3 DEF GitInv, HooksCounted
  <2> QED
    BY <2>1, <2>2, <2>3 DEF HooksCounted
<1>15. LatestHooked'
  <2>1. ASSUME NEW q \in Hooked, q # r, written'[q] # {}
        PROVE  \E k \in 1 .. Len(hooks'[q]) : hooks'[q][k] \in written'[q]
    BY <1>4, <1>6, <1>8, <2>1 DEF GitInv, LatestHooked
  <2>2. \E k \in 1 .. Len(hooks'[r]) : hooks'[r][k] \in written'[r]
    <3>1. s \in written'[r]
      BY <1>3, <1>4, <1>6
    <3>2. Len(hooks'[r]) \in 1 .. Len(hooks'[r])
      BY <1>9
    <3> QED
      BY <1>9, <3>1, <3>2
  <2> QED
    BY <2>1, <2>2 DEF LatestHooked
<1> QED
  BY <1>11, <1>12, <1>14, <1>15 DEF GitInv

LEMMA GitStep == GitInv /\ [GitNext]_gitVars => GitInv'
<1> SUFFICES ASSUME GitInv, [GitNext]_gitVars PROVE GitInv'
  OBVIOUS
<1>1. ASSUME \/ Connect \/ Disconnect \/ TokenAges
             \/ \E i \in Installation : Install(i)
      PROVE  GitInv'
  BY <1>1, RowStep
<1>2. CASE Rotate
  <2>1. /\ secret' \in 0 .. MaxSecrets /\ secrets' \in 0 .. MaxSecrets
        /\ UNCHANGED <<conn, hooks, beside, written, caller>>
    BY <1>2, GitAssumption DEF Rotate, NewSecret, GitInv, GitShape, GitTypeOK
  <2>2. GitShape' /\ RowsAgree'
    BY <2>1 DEF GitInv, GitShape, GitTypeOK, RowsAgree, RowAgrees
  <2>3. HooksCounted' /\ LatestHooked'
    BY <2>1 DEF GitInv, HooksCounted, LatestHooked, Creating
  <2> QED
    BY <2>2, <2>3 DEF GitInv
<1>3. ASSUME NEW c \in Caller,
             \/ StatusPage(c) \/ Resolve(c) \/ Mint(c)
             \/ \E i \in Installation : Adopt(c, i)
             \/ \E r \in Hooked : Register(c, r)
             \/ ReadSecret(c) \/ Generate(c) \/ ListHooks(c) \/ Fail(c)
      PROVE  GitInv'
  BY <1>3, CallersStep
<1>4. ASSUME NEW c \in Caller, NEW told \in BOOLEAN, EditHook(c, told) PROVE GitInv'
  BY <1>4, EditStep
<1>5. ASSUME NEW c \in Caller, NEW told \in BOOLEAN, CreateHook(c, told) PROVE GitInv'
  BY <1>5, CreateStep
<1>6. ASSUME UNCHANGED gitVars PROVE GitInv'
  <2>1. GitShape' /\ RowsAgree'
    BY <1>6 DEF gitVars, GitInv, GitShape, GitTypeOK, RowsAgree, RowAgrees
  <2>2. HooksCounted' /\ LatestHooked'
    BY <1>6 DEF gitVars, GitInv, HooksCounted, LatestHooked, Creating
  <2> QED
    BY <2>1, <2>2 DEF GitInv
<1> QED
  BY <1>1, <1>2, <1>3, <1>4, <1>5, <1>6 DEF GitNext

\* A token is stored only with the account or installation it is of; a repository
\* has one hook, and at most one more for each registration that had found none when
\* the first was created; and where all that was written since a registration was told
\* it went through is the stored secret, a hook has it: for any number of callers,
\* repositories, rotations and lost answers (autoRegisterRepoWebhook, resolveAppToken).
THEOREM PlatformWillAgree == GitSpec => []PlatformAgrees
<1>1. GitInv => PlatformAgrees
  <2> SUFFICES ASSUME GitInv PROVE PlatformAgrees
    OBVIOUS
  <2>1. TokenOfInstallation
    BY DEF GitInv, RowsAgree, RowAgrees, TokenOfInstallation
  <2>2. ASSUME NEW r \in Hooked PROVE Len(hooks[r]) <= 1 + beside[r]
    <3>1. Len(hooks[r]) \in Nat /\ beside[r] \in Nat
      BY DEF GitInv, GitShape, GitTypeOK
    <3>2. CASE hooks[r] = << >>
      BY <3>1, <3>2
    <3>3. CASE hooks[r] # << >>
      BY <3>1, <3>3, CreatingCounts DEF GitInv, HooksCounted
    <3> QED
      BY <3>2, <3>3
  <2>3. HooksVerify
    BY <2>2 DEF GitInv, LatestHooked, HooksVerify
  <2> QED
    BY <2>1, <2>3 DEF PlatformAgrees
<1> QED
  BY GitInitially, GitStep, <1>1, PTL DEF GitSpec


-----------------------------------------------------------------------------
(* Listings *)

\* What the leg before has listed in full when its own list goes on with leg l.
Covered(legs, l) == IF l > 1 /\ legs[l - 1].then = "next" THEN legs[l - 1].of ELSE {}

LegIsSound(legs, l) ==
  LET leg == legs[l]
  IN /\ leg.by \in {"cursor", "page", "whole"} /\ leg.first \in {"oldest", "newest"}
     /\ leg.of \subseteq Item
     /\ leg.fails \in {"lose", "keep", "skip", "next", "guess"}
     /\ leg.then \in {"stop", "next"}
     /\ leg.then = "next" \/ leg.fails \in {"skip", "next", "guess"} => l + 1 \in DOMAIN legs
     /\ leg.fails \in {"next", "guess"} => leg.then = "stop"
     /\ leg.then = "stop" => Item \subseteq Covered(legs, l) \cup leg.of

\* What is behind the place the listing has reached.
IsBehind(i) ==
  \/ i \in Covered(Legs[listing.kind], listing.leg)
  \/ i \in ThisLeg.of /\ i \notin Rest(ThisLeg, listing.at)

ListingInv ==
  /\ ListingTypeOK
  /\ alive \subseteq 1 .. made
  /\ listing.kind # "none" =>
       /\ listing.there \subseteq 1 .. made
       /\ listing.leg \in DOMAIN Legs[listing.kind]
       /\ Running /\ ~listing.short =>
            \A i \in listing.there \cap alive : IsBehind(i) => i \in listing.got
  /\ ListingComplete

First == {"oldest", "newest"}

LEMMA EveryLegIsSound ==
  \A k \in Kind : \A l \in DOMAIN Legs[k] : l \in 1 .. 3 /\ LegIsSound(Legs[k], l)
<1> DEFINE Sound(legs) == \A l \in DOMAIN legs : l \in 1 .. 3 /\ LegIsSound(legs, l)
<1> USE DEF LegIsSound, Covered, Leg, Near
<1>1. Sound(ListIssues) /\ Sound(ListPRs) /\ Sound(ListMRs)
  BY DEF ListIssues, ListPRs, ListMRs, ByGraph, ByREST
<1>2. Sound(ListCommits) /\ Sound(ListReviews) /\ Sound(ListProjectDeployments)
  BY DEF ListCommits, ListReviews, ListProjectDeployments
<1>3. /\ Sound(ListDeployments) /\ Sound(ListProjects) /\ Sound(ListProjectIssues)
      /\ Sound(ListHistory)
  BY DEF ListDeployments, ListProjects, ListProjectIssues, ListHistory, ByREST
<1>4. Sound(ListRepos)
  <2>1. /\ DOMAIN ListRepos = {1, 2, 3}
        /\ ListRepos[1] = Leg("page", "oldest", Item, "guess", "stop")
        /\ ListRepos[2] = Leg("page", "oldest", Near, "lose", "next")
        /\ ListRepos[3] = Leg("page", "oldest", Apart, "keep", "stop")
    BY DEF ListRepos
  <2>2. LegIsSound(ListRepos, 1) /\ LegIsSound(ListRepos, 2) /\ LegIsSound(ListRepos, 3)
    BY <2>1, ListingAssumption DEF ListingAssumption, Item
  <2> QED
    BY <2>1, <2>2
<1>5. Sound(ListMRReviews)
  <2>1. /\ DOMAIN ListMRReviews = {1, 2}
        /\ ListMRReviews[1] = Leg("whole", "oldest", Near, "skip", "next")
        /\ ListMRReviews[2] = Leg("page", "oldest", Apart, "keep", "stop")
    BY DEF ListMRReviews
  <2>2. LegIsSound(ListMRReviews, 1) /\ LegIsSound(ListMRReviews, 2)
    BY <2>1, ListingAssumption DEF ListingAssumption, Item
  <2> QED
    BY <2>1, <2>2
<1> HIDE DEF Sound, LegIsSound, Covered, Leg, Near
<1>6. \A k \in Kind : Sound(Legs[k])
  BY <1>1, <1>2, <1>3, <1>4, <1>5 DEF Kind, Legs
<1> QED
  BY <1>6 DEF Sound

-----------------------------------------------------------------------------
(* Places *)

LEMMA BeforeIsOrder ==
  ASSUME NEW first \in First, NEW i \in Item, NEW j \in Item
  PROVE  /\ ~Before(first, i, i)
         /\ i = j \/ Before(first, i, j) \/ Before(first, j, i)
         /\ ~(Before(first, i, j) /\ Before(first, j, i))
         /\ \A k \in Item : Before(first, i, j) /\ Before(first, j, k) => Before(first, i, k)
BY ListingAssumption DEF Before, First, Item, ListingAssumption

\* A set of items that is not empty has a first one.
LEMMA FirstOfItems ==
  ASSUME NEW first \in First, NEW S \in SUBSET Item, S # {}
  PROVE  \E m \in S : \A n \in S \ {m} : Before(first, m, n)
<1>0. MaxItem \in Nat /\ S \in SUBSET Nat /\ S \in SUBSET (0 .. MaxItem)
  BY ListingAssumption DEF ListingAssumption, Item
<1>1. CASE first = "oldest"
  <2>1. PICK m \in S : \A n \in S : m <= n
    BY <1>0, LeastNatural
  <2> QED
    BY <1>0, <1>1, <2>1 DEF Before
<1>2. CASE first = "newest"
  <2>1. PICK m \in S : \A n \in S : n <= m
    BY <1>0, MaxIsGreatest
  <2> QED
    BY <1>0, <1>2, <2>1 DEF Before
<1> QED
  BY <1>1, <1>2 DEF First

\* And a last one.
LEMMA LastOfItems ==
  ASSUME NEW first \in First, NEW S \in SUBSET Item, S # {}
  PROVE  \E m \in S : \A n \in S \ {m} : Before(first, n, m)
<1>1. PICK other \in First : \A i, j \in Item : Before(other, i, j) <=> Before(first, j, i)
  <2>1. CASE first = "oldest"
    <3>1. \A i, j \in Item : Before("newest", i, j) <=> Before(first, j, i)
      BY <2>1, ListingAssumption DEF Before, Item, ListingAssumption
    <3> QED
      BY <3>1 DEF First
  <2>2. CASE first = "newest"
    <3>1. \A i, j \in Item : Before("oldest", i, j) <=> Before(first, j, i)
      BY <2>2, ListingAssumption DEF Before, Item, ListingAssumption
    <3> QED
      BY <3>1 DEF First
  <2> QED
    BY <2>1, <2>2 DEF First
<1>2. PICK m \in S : \A n \in S \ {m} : Before(other, m, n)
  BY FirstOfItems
<1> QED
  BY <1>1, <1>2

\* Places are numbers, more for more items, and in the order of the items.
LEMMA PlaceIsNatural ==
  ASSUME NEW first \in First, NEW S \in SUBSET Item, NEW i \in Item
  PROVE  /\ Place(first, S, i) \in 0 .. MaxItem
         /\ i \in S => Place(first, S, i) < MaxItem
<1>1. IsFiniteSet(Item) /\ Cardinality(Item) = MaxItem /\ MaxItem \in Nat
  BY FS_Interval, ListingAssumption DEF Item, ListingAssumption
<1>2. PICK B : B = {j \in S : Before(first, j, i)}
  OBVIOUS
<1>3. B \in SUBSET Item
  BY <1>2
<1>4. IsFiniteSet(B) /\ Cardinality(B) \in Nat /\ Cardinality(B) <= MaxItem
      /\ (Cardinality(Item) = Cardinality(B) => Item = B)
  BY <1>1, <1>3, FS_Subset, FS_CardinalityType
<1>5. i \notin B
  BY <1>2, BeforeIsOrder
<1>6. Cardinality(B) < MaxItem
  BY <1>1, <1>4, <1>5
<1> QED
  BY <1>1, <1>2, <1>4, <1>6 DEF Place

LEMMA PlaceGrows ==
  ASSUME NEW first \in First, NEW S \in SUBSET Item, NEW T \in SUBSET Item,
         NEW i \in Item, NEW k \in Item,
         \A j \in S : Before(first, j, i) => j \in T /\ Before(first, j, k)
  PROVE  Place(first, S, i) <= Place(first, T, k)
<1>1. IsFiniteSet(Item)
  BY FS_Interval, ListingAssumption DEF Item, ListingAssumption
<1>2. PICK B, C : B = {j \in S : Before(first, j, i)} /\ C = {j \in T : Before(first, j, k)}
  OBVIOUS
<1>3. B \in SUBSET C /\ C \in SUBSET Item
  BY <1>2
<1>4. IsFiniteSet(C)
  BY <1>1, <1>3, FS_Subset
<1>5. Cardinality(B) <= Cardinality(C)
  BY <1>3, <1>4, FS_Subset
<1> QED
  BY <1>2, <1>5 DEF Place

\* Of the items from place n on, the one at place p is at place n + p of them all.
LEMMA PlaceAfter ==
  ASSUME NEW first \in First, NEW S \in SUBSET Item, NEW n \in Nat, NEW i \in S,
         Place(first, S, i) >= n
  PROVE  LET R == {j \in S : Place(first, S, j) >= n}
         IN Place(first, S, i) >= n + Place(first, R, i)
<1> DEFINE R == {j \in S : Place(first, S, j) >= n}
<1>1. IsFiniteSet(Item)
  BY FS_Interval, ListingAssumption DEF Item, ListingAssumption
<1>2. R \in SUBSET Item /\ i \in R /\ R # {}
  OBVIOUS
<1> HIDE DEF R
<1>3. PICK m \in R : \A j \in R \ {m} : Before(first, m, j)
  BY <1>2, FirstOfItems
<1>4. m \in S /\ m \in Item /\ Place(first, S, m) >= n
  BY <1>3 DEF R
<1>5. PICK A, B, C : /\ A = {j \in S : Before(first, j, m)}
                     /\ B = {j \in R : Before(first, j, i)}
                     /\ C = {j \in S : Before(first, j, i)}
  OBVIOUS
<1>6. A \in SUBSET Item /\ B \in SUBSET Item /\ C \in SUBSET Item
  BY <1>2, <1>5
<1>7. \A j \in A : j \notin R
  <2> SUFFICES ASSUME NEW j \in A, j \in R PROVE FALSE
    OBVIOUS
  <2>1. Before(first, j, m) /\ j \in Item
    BY <1>5
  <2>2. j # m
    BY <1>4, <2>1, BeforeIsOrder
  <2>3. Before(first, m, j)
    BY <1>3, <2>2
  <2> QED
    BY <1>4, <2>1, <2>3, BeforeIsOrder
<1>8. A \cap B = {}
  BY <1>5, <1>7
<1>9. \A j \in A : Before(first, j, i)
  <2>1. CASE i = m
    BY <1>5, <2>1
  <2>2. CASE i # m
    <3>1. Before(first, m, i)
      BY <1>2, <1>3, <2>2
    <3> QED
      BY <1>4, <1>5, <3>1, BeforeIsOrder
  <2> QED
    BY <2>1, <2>2
<1>10. A \cup B \in SUBSET C
  BY <1>5, <1>9 DEF R
<1>11. /\ IsFiniteSet(A) /\ IsFiniteSet(B) /\ IsFiniteSet(C)
       /\ Cardinality(A) \in Nat /\ Cardinality(B) \in Nat /\ Cardinality(C) \in Nat
  BY <1>1, <1>6, FS_Subset, FS_CardinalityType
<1>12. Cardinality(A \cup B) = Cardinality(A) + Cardinality(B) - Cardinality(A \cap B)
  BY <1>11, FS_Union
<1>13. Cardinality(A \cap B) = 0
  BY <1>8, FS_EmptySet
<1>14. Cardinality(A \cup B) <= Cardinality(C)
  BY <1>10, <1>11, FS_Subset
<1>15. Cardinality(A) >= n
  BY <1>4, <1>5 DEF Place
<1>16. Cardinality(C) >= n + Cardinality(B)
  BY <1>11, <1>12, <1>13, <1>14, <1>15
<1> QED
  BY <1>5, <1>16 DEF Place, R

-----------------------------------------------------------------------------
(* What is left of a leg, by what is there to list *)

RestOf(S, leg, pos) ==
  CASE leg.by = "cursor" -> {i \in S : pos = 0 \/ Before(leg.first, pos, i)}
    [] leg.by = "page"   -> {i \in S : Place(leg.first, S, i) >= pos}
    [] leg.by = "whole"  -> S

IsLeg(leg) == leg.by \in {"cursor", "page", "whole"} /\ leg.first \in First /\ leg.of \subseteq Item

LEMMA RestIsOf ==
  ASSUME NEW leg, NEW pos
  PROVE  /\ Rest(leg, pos) = RestOf(leg.of \cap alive, leg, pos)
         /\ Rest(leg, pos)' = RestOf(leg.of \cap alive', leg, pos)
BY DEF Rest, RestOf

LEMMA RestByKind ==
  ASSUME NEW leg, IsLeg(leg), NEW S, NEW pos
  PROVE  /\ leg.by = "cursor" =>
              RestOf(S, leg, pos) = {i \in S : pos = 0 \/ Before(leg.first, pos, i)}
         /\ leg.by = "page" => RestOf(S, leg, pos) = {i \in S : Place(leg.first, S, i) >= pos}
         /\ leg.by = "whole" => RestOf(S, leg, pos) = S
BY DEF RestOf

LEMMA RestIsPart ==
  ASSUME NEW leg, IsLeg(leg), NEW S, NEW pos
  PROVE  RestOf(S, leg, pos) \subseteq S
<1>1. CASE leg.by = "cursor"
  BY <1>1, RestByKind
<1>2. CASE leg.by = "page"
  BY <1>2, RestByKind
<1>3. CASE leg.by = "whole"
  BY <1>3, RestByKind
<1> QED
  BY <1>1, <1>2, <1>3 DEF IsLeg

\* What is made meanwhile takes nothing out of the rest.
LEMMA RestGrows ==
  ASSUME NEW leg, IsLeg(leg), NEW S \in SUBSET Item, NEW T \in SUBSET Item, S \subseteq T,
         NEW pos \in 0 .. MaxItem, NEW i \in RestOf(S, leg, pos)
  PROVE  i \in RestOf(T, leg, pos)
<1>1. i \in S /\ i \in T
  BY RestIsPart
<1>2. CASE leg.by = "cursor"
  BY <1>1, <1>2, RestByKind
<1>3. CASE leg.by = "page"
  <2>1. Place(leg.first, S, i) >= pos
    BY <1>3, RestByKind
  <2>2. Place(leg.first, S, i) <= Place(leg.first, T, i)
    BY <1>1, PlaceGrows DEF IsLeg
  <2>3. Place(leg.first, S, i) \in Int /\ Place(leg.first, T, i) \in Int /\ pos \in Int
    BY <1>1, PlaceIsNatural, ListingAssumption DEF IsLeg, ListingAssumption
  <2>4. Place(leg.first, T, i) >= pos
    BY <2>1, <2>2, <2>3
  <2> QED
    BY <1>1, <1>3, <2>4, RestByKind
<1>4. CASE leg.by = "whole"
  BY <1>1, <1>4, RestByKind
<1> QED
  BY <1>2, <1>3, <1>4 DEF IsLeg

\* Nor does what goes, unless it stood on a page already read.
LEMMA RestShrinks ==
  ASSUME NEW leg, IsLeg(leg), NEW S \in SUBSET Item, NEW pos \in 0 .. MaxItem,
         NEW x \in Item, ~(leg.by = "page" /\ x \in S /\ Place(leg.first, S, x) < pos),
         NEW i \in RestOf(S, leg, pos), i # x
  PROVE  i \in RestOf(S \ {x}, leg, pos)
<1>1. i \in S /\ i \in S \ {x} /\ S \ {x} \in SUBSET Item
  BY RestIsPart
<1>2. CASE leg.by = "cursor"
  BY <1>1, <1>2, RestByKind
<1>3. CASE leg.by = "page"
  <2>1. Place(leg.first, S, i) >= pos
    BY <1>3, RestByKind
  <2>2. /\ Place(leg.first, S, i) \in Int /\ Place(leg.first, S \ {x}, i) \in Int
        /\ Place(leg.first, S, x) \in Int /\ pos \in Int
    BY <1>1, PlaceIsNatural, ListingAssumption DEF IsLeg, ListingAssumption
  <2>3. CASE x \in S /\ Before(leg.first, x, i)
    <3>1. ASSUME NEW j \in S, Before(leg.first, j, x)
          PROVE  j \in S \ {x} /\ Before(leg.first, j, i)
      BY <1>1, <2>3, <3>1, BeforeIsOrder DEF IsLeg
    <3>2. Place(leg.first, S, x) <= Place(leg.first, S \ {x}, i)
      BY <1>1, <3>1, PlaceGrows DEF IsLeg
    <3>3. Place(leg.first, S, x) >= pos
      BY <1>3, <2>2, <2>3
    <3> QED
      BY <1>1, <1>3, <2>2, <3>2, <3>3, RestByKind
  <2>4. CASE ~(x \in S /\ Before(leg.first, x, i))
    <3>1. Place(leg.first, S, i) <= Place(leg.first, S \ {x}, i)
      BY <1>1, <2>4, PlaceGrows DEF IsLeg
    <3> QED
      BY <1>1, <1>3, <2>1, <2>2, <3>1, RestByKind
  <2> QED
    BY <2>3, <2>4
<1>4. CASE leg.by = "whole"
  BY <1>1, <1>4, RestByKind
<1> QED
  BY <1>2, <1>3, <1>4 DEF IsLeg

\* After a page that is not the last, what is behind was behind or is on the page.
LEMMA RestTurns ==
  ASSUME NEW leg, IsLeg(leg), alive \subseteq Item, NEW pos \in 0 .. MaxItem,
         NEW page, page = PageOf(leg, pos), page # Rest(leg, pos),
         NEW to, to = After(leg, pos, page)
  PROVE  /\ to \in 0 .. MaxItem
         /\ \A i \in Rest(leg, pos) \ page : i \in Rest(leg, to)
<1>1. PICK S, R : S = leg.of \cap alive /\ R = RestOf(S, leg, pos)
  OBVIOUS
<1>2. /\ S \in SUBSET Item /\ R \in SUBSET S
      /\ Rest(leg, pos) = R /\ Rest(leg, to) = RestOf(S, leg, to)
  BY <1>1, RestIsOf, RestIsPart DEF IsLeg
<1>3. leg.by # "whole" /\ page = {i \in R : Place(leg.first, R, i) < PageSize}
  BY <1>2 DEF PageOf
<1>4. PageSize \in Nat /\ PageSize > 0 /\ MaxItem \in Nat
  BY ListingAssumption DEF ListingAssumption
<1>5. PICK k \in R : k \notin page
  BY <1>2, <1>3
<1>6. ASSUME NEW i \in R PROVE i \in Item /\ Place(leg.first, R, i) \in Int
                               /\ Place(leg.first, S, i) \in Int /\ Place(leg.first, S, i) <= MaxItem
  BY <1>2, <1>4, PlaceIsNatural DEF IsLeg
<1>7. CASE leg.by = "cursor"
  <2>1. PICK m \in R : \A n \in R \ {m} : Before(leg.first, m, n)
    BY <1>2, <1>5, FirstOfItems DEF IsLeg
  <2>2. {j \in R : Before(leg.first, j, m)} = {}
    <3> SUFFICES ASSUME NEW j \in R, Before(leg.first, j, m) PROVE FALSE
      OBVIOUS
    <3>1. j \in Item /\ m \in Item
      BY <1>6
    <3>2. j = m \/ Before(leg.first, m, j)
      BY <2>1
    <3> QED
      BY <3>1, <3>2, BeforeIsOrder DEF IsLeg
  <2>3. Place(leg.first, R, m) = 0
    BY <2>2, FS_EmptySet DEF Place
  <2>4. m \in page
    BY <1>3, <1>4, <2>3
  <2>5. \E i \in page : \A j \in page \ {i} : Before(leg.first, j, i)
    <3>1. page \in SUBSET Item /\ page # {}
      BY <1>2, <1>3, <2>4
    <3> QED
      BY <3>1, LastOfItems DEF IsLeg
  <2>6. to \in page /\ \A j \in page \ {to} : Before(leg.first, j, to)
    <3>1. to = CHOOSE i \in page : \A j \in page \ {i} : Before(leg.first, j, i)
      BY <1>7 DEF After
    <3> QED
      BY <2>5, <3>1
  <2>7. to \in R /\ to \in Item /\ to \in 0 .. MaxItem
    BY <1>3, <1>4, <1>6, <2>6 DEF Item
  <2>8. ASSUME NEW i \in R \ page PROVE Before(leg.first, to, i)
    <3>1. i # to /\ i \in Item
      BY <1>6, <2>6
    <3>2. CASE Before(leg.first, i, to)
      <4>1. \A j \in R : Before(leg.first, j, i) => j \in R /\ Before(leg.first, j, to)
        BY <1>6, <2>7, <3>1, <3>2, BeforeIsOrder DEF IsLeg
      <4>2. R \in SUBSET Item
        BY <1>2
      <4>3. Place(leg.first, R, i) <= Place(leg.first, R, to)
        BY <2>7, <3>1, <4>1, <4>2, PlaceGrows DEF IsLeg
      <4>4. Place(leg.first, R, to) < PageSize
        BY <1>3, <2>6
      <4>5. Place(leg.first, R, i) < PageSize
        BY <1>4, <1>6, <2>7, <4>3, <4>4
      <4> QED
        BY <1>3, <4>5
    <3> QED
      BY <2>7, <3>1, <3>2, BeforeIsOrder DEF IsLeg
  <2>9. RestOf(S, leg, to) = {i \in S : to = 0 \/ Before(leg.first, to, i)}
    BY <1>7, RestByKind
  <2> QED
    BY <1>2, <2>7, <2>8, <2>9
<1>8. CASE leg.by = "page"
  <2>1. R = {i \in S : Place(leg.first, S, i) >= pos}
    BY <1>1, <1>8, RestByKind
  <2>2. to = pos + PageSize
    BY <1>8 DEF After
  <2>3. ASSUME NEW i \in R \ page PROVE Place(leg.first, S, i) >= to
    <3>1. i \in S /\ Place(leg.first, S, i) >= pos /\ pos \in Nat
      BY <1>4, <2>1
    <3>2. Place(leg.first, S, i) >= pos + Place(leg.first, R, i)
      BY <1>2, <2>1, <3>1, PlaceAfter DEF IsLeg
    <3>3. ~(Place(leg.first, R, i) < PageSize)
      BY <1>3
    <3> QED
      BY <1>4, <1>6, <2>2, <3>1, <3>2, <3>3
  <2>4. to \in 0 .. MaxItem
    <3>1. Place(leg.first, S, k) >= to
      BY <1>5, <2>3
    <3> QED
      BY <1>4, <1>5, <1>6, <2>2, <3>1
  <2>5. RestOf(S, leg, to) = {i \in S : Place(leg.first, S, i) >= to}
    BY <1>8, RestByKind
  <2> QED
    BY <1>2, <2>3, <2>4, <2>5
<1> QED
  BY <1>3, <1>7, <1>8 DEF IsLeg

-----------------------------------------------------------------------------
LEMMA ListingInitially == ListingInit => ListingInv
BY ListingAssumption
DEF ListingAssumption, ListingInit, ListingInv, ListingTypeOK, ListingComplete, NoListing

\* Of a listing under way, its leg is one of its kind's.
LEMMA AtLeg ==
  ASSUME ListingInv, listing.kind # "none"
  PROVE  /\ listing \in Listings /\ listing.kind \in Kind
         /\ listing.leg \in DOMAIN Legs[listing.kind] /\ listing.leg \in 1 .. 3
         /\ LegIsSound(Legs[listing.kind], listing.leg)
         /\ IsLeg(ThisLeg)
<1>1. listing \in Listings
  BY DEF ListingInv, ListingTypeOK, NoListing
<1>2. listing.kind \in Kind
  BY <1>1 DEF Listings
<1>3. listing.leg \in DOMAIN Legs[listing.kind]
  BY DEF ListingInv
<1>4. LegIsSound(Legs[listing.kind], listing.leg) /\ listing.leg \in 1 .. 3
  BY <1>2, <1>3, EveryLegIsSound
<1>5. IsLeg(ThisLeg)
  BY <1>4 DEF LegIsSound, IsLeg, ThisLeg, First
<1> QED
  BY <1>1, <1>2, <1>3, <1>4, <1>5

LEMMA NoneIsNoKind == "none" \notin Kind
BY DEF Kind, Legs

\* What a new state of the listing has to meet.
Holds(l, there_alive) ==
  /\ l.there \subseteq 1 .. made
  /\ l.leg \in DOMAIN Legs[l.kind]
  /\ l.result = "running" /\ ~l.short =>
       \A i \in there_alive :
         (\/ i \in Covered(Legs[l.kind], l.leg)
          \/ i \in Legs[l.kind][l.leg].of /\ i \notin Rest(Legs[l.kind][l.leg], l.at))
         => i \in l.got
  /\ l.result = "ok" /\ ~l.short => there_alive \subseteq l.got

LEMMA ListingHolds ==
  ASSUME ListingInv, listing.kind # "none"
  PROVE  Holds(listing, listing.there \cap alive)
BY DEF ListingInv, Holds, IsBehind, Running, ThisLeg, ListingComplete

\* The client's side moves: what is there stays.
LEMMA ClientMoves ==
  ASSUME ListingInv, UNCHANGED <<alive, made>>, NEW l \in Listings, listing' = l,
         Holds(l, l.there \cap alive)
  PROVE  ListingInv'
<1>1. ListingTypeOK'
  BY DEF ListingInv, ListingTypeOK
<1>2. (alive \subseteq 1 .. made)'
  BY DEF ListingInv
<1>3. \A leg, pos : Rest(leg, pos)' = Rest(leg, pos)
  BY RestIsOf
<1>4. /\ l.there \subseteq 1 .. made'
      /\ l.leg \in DOMAIN Legs[l.kind]
  BY DEF Holds
<1>5. ASSUME l.result = "running", ~l.short, NEW i \in l.there \cap alive',
             \/ i \in Covered(Legs[l.kind], l.leg)
             \/ i \in Legs[l.kind][l.leg].of /\ i \notin Rest(Legs[l.kind][l.leg], l.at)'
      PROVE  i \in l.got
  BY <1>3, <1>5 DEF Holds
<1>6. ListingComplete'
  BY DEF Holds, ListingComplete
<1> QED
  BY <1>1, <1>2, <1>4, <1>5, <1>6 DEF ListingInv, IsBehind, Running, ThisLeg

LEMMA MakeStep ==
  ASSUME ListingInv, Make
  PROVE  ListingInv'
<1>1. made \in 0 .. MaxItem /\ made < MaxItem /\ MaxItem \in Nat
  BY ListingAssumption DEF Make, ListingInv, ListingTypeOK, ListingAssumption
<1>2. made' = made + 1 /\ alive' = alive \cup {made + 1} /\ listing' = listing
  BY DEF Make
<1>3. alive \subseteq 1 .. made /\ alive \subseteq Item
  BY DEF ListingInv, ListingTypeOK
<1>4. alive' \subseteq 1 .. made' /\ alive' \subseteq Item /\ 1 .. made \subseteq 1 .. made'
      /\ made' \in 0 .. MaxItem
  BY <1>1, <1>2, <1>3 DEF Item
<1>5. CASE listing.kind = "none"
  BY <1>2, <1>4, <1>5 DEF ListingInv, ListingTypeOK, ListingComplete
<1>6. CASE listing.kind # "none"
  <2>1. /\ listing.there \subseteq 1 .. made /\ listing \in Listings
        /\ listing.leg \in DOMAIN Legs[listing.kind] /\ IsLeg(ThisLeg)
    BY <1>6, AtLeg DEF ListingInv
  <2>2. listing.there \cap alive' = listing.there \cap alive
    BY <1>1, <1>2, <2>1
  <2>3. PICK leg, pos : leg = ThisLeg /\ pos = listing.at
    OBVIOUS
  <2>4. pos \in 0 .. MaxItem
    BY <2>1, <2>3 DEF Listings
  <2>5. ASSUME NEW i \in alive, i \in leg.of, i \notin Rest(leg, pos)'
        PROVE  i \notin Rest(leg, pos)
    <3>1. PICK S, T : S = leg.of \cap alive /\ T = leg.of \cap alive'
      OBVIOUS
    <3>2. S \in SUBSET Item /\ T \in SUBSET Item /\ S \subseteq T
      BY <1>2, <1>3, <1>4, <3>1
    <3>3. IsLeg(leg)
      BY <2>1, <2>3
    <3>4. Rest(leg, pos) = RestOf(S, leg, pos) /\ Rest(leg, pos)' = RestOf(T, leg, pos)
      BY <3>1, RestIsOf
    <3> QED
      BY <2>4, <2>5, <3>2, <3>3, <3>4, RestGrows
  <2>6. ASSUME (Running /\ ~listing.short)', NEW i \in listing.there \cap alive', IsBehind(i)'
        PROVE  i \in listing.got
    <3>1. Running /\ ~listing.short /\ i \in listing.there \cap alive
      BY <1>2, <2>2, <2>6 DEF Running
    <3>2. \/ i \in Covered(Legs[listing.kind], listing.leg)
          \/ i \in leg.of /\ i \notin Rest(leg, pos)'
      BY <1>2, <2>3, <2>6 DEF IsBehind, ThisLeg
    <3>3. IsBehind(i)
      BY <2>3, <2>5, <3>1, <3>2 DEF IsBehind
    <3> QED
      BY <1>6, <3>1, <3>3 DEF ListingInv
  <2>7. ListingComplete'
    BY <1>2, <2>2 DEF ListingInv, ListingComplete
  <2>8. ListingTypeOK'
    BY <1>2, <1>4 DEF ListingInv, ListingTypeOK
  <2> QED
    BY <1>2, <1>4, <2>1, <2>6, <2>7, <2>8 DEF ListingInv
<1> QED
  BY <1>5, <1>6

LEMMA UnmakeStep ==
  ASSUME ListingInv, NEW x \in Item, Unmake(x)
  PROVE  ListingInv'
<1>1. /\ alive' = alive \ {x} /\ made' = made
      /\ alive' \subseteq 1 .. made' /\ alive \subseteq Item /\ alive' \subseteq Item
      /\ made' \in 0 .. MaxItem
  BY DEF Unmake, ListingInv, ListingTypeOK
<1>2. CASE listing.kind = "none"
  <2>1. listing' = listing
    BY <1>2 DEF Unmake, Running
  <2> QED
    BY <1>1, <1>2, <2>1 DEF ListingInv, ListingTypeOK, ListingComplete
<1>3. CASE listing.kind # "none"
  <2>1. /\ listing.there \subseteq 1 .. made /\ listing \in Listings
        /\ listing.leg \in DOMAIN Legs[listing.kind] /\ IsLeg(ThisLeg)
    BY <1>3, AtLeg DEF ListingInv
  <2>2. CASE listing' = [listing EXCEPT !.short = TRUE]
    <3>1. /\ listing' \in Listings /\ listing'.short
          /\ listing'.there = listing.there /\ listing'.leg = listing.leg
          /\ listing'.kind = listing.kind
      BY <2>1, <2>2 DEF Listings
    <3>2. ListingTypeOK'
      BY <1>1, <3>1 DEF ListingTypeOK
    <3> QED
      BY <1>1, <2>1, <3>1, <3>2 DEF ListingInv, ListingComplete
  <2>3. CASE /\ listing' = listing
             /\ ~(Running /\ ThisLeg.by = "page" /\ x \in ThisLeg.of
                    /\ Place(ThisLeg.first, ThisLeg.of \cap alive, x) < listing.at)
    <3>1. PICK leg, pos : leg = ThisLeg /\ pos = listing.at
      OBVIOUS
    <3>2. pos \in 0 .. MaxItem /\ IsLeg(leg)
      BY <2>1, <3>1 DEF Listings
    <3>3. ASSUME Running, NEW i \in alive', i \in leg.of, i \notin Rest(leg, pos)'
          PROVE  i \notin Rest(leg, pos)
      <4>1. PICK S : S = leg.of \cap alive
        OBVIOUS
      <4>2. S \in SUBSET Item /\ leg.of \cap alive' = S \ {x} /\ i # x
        BY <1>1, <4>1
      <4>3. ~(leg.by = "page" /\ x \in S /\ Place(leg.first, S, x) < pos)
        BY <2>3, <3>1, <3>3, <4>1
      <4>4. Rest(leg, pos) = RestOf(S, leg, pos) /\ Rest(leg, pos)' = RestOf(S \ {x}, leg, pos)
        BY <4>1, <4>2, RestIsOf
      <4> QED
        BY <3>2, <3>3, <4>2, <4>3, <4>4, RestShrinks
    <3>4. ASSUME (Running /\ ~listing.short)', NEW i \in listing.there \cap alive', IsBehind(i)'
          PROVE  i \in listing.got
      <4>1. Running /\ ~listing.short /\ i \in listing.there \cap alive
        BY <1>1, <2>3, <3>4 DEF Running
      <4>2. \/ i \in Covered(Legs[listing.kind], listing.leg)
            \/ i \in leg.of /\ i \notin Rest(leg, pos)'
        BY <2>3, <3>1, <3>4 DEF IsBehind, ThisLeg
      <4>3. IsBehind(i)
        BY <3>1, <3>3, <4>1, <4>2 DEF IsBehind
      <4> QED
        BY <1>3, <4>1, <4>3 DEF ListingInv
    <3>5. ListingComplete'
      BY <1>1, <2>3 DEF ListingInv, ListingComplete
    <3>6. ListingTypeOK'
      BY <1>1, <2>3 DEF ListingInv, ListingTypeOK
    <3> QED
      BY <1>1, <2>1, <2>3, <3>4, <3>5, <3>6 DEF ListingInv
  <2> QED
    BY <2>2, <2>3 DEF Unmake
<1> QED
  BY <1>2, <1>3

LEMMA BeginStep ==
  ASSUME ListingInv, NEW k \in Kind, Begin(k)
  PROVE  ListingInv'
<1>1. PICK l : l = [kind |-> k, leg |-> 1, at |-> 0, begun |-> FALSE, tries |-> 0, got |-> {},
                    there |-> alive, short |-> FALSE, result |-> "running"]
  OBVIOUS
<1>2. MaxItem \in Nat /\ RetryAttempts \in Nat /\ alive \subseteq Item /\ alive \subseteq 1 .. made
  BY ListingAssumption DEF ListingAssumption, ListingInv, ListingTypeOK
<1>3. l \in Listings
  BY <1>1, <1>2 DEF Listings
<1>4. 1 \in DOMAIN Legs[k]
  BY DEF Kind, Legs, ListIssues, ListPRs, ListCommits, ListReviews, ListDeployments, ListRepos,
     ListProjects, ListProjectIssues, ListMRs, ListHistory, ListMRReviews,
     ListProjectDeployments
<1>5. IsLeg(Legs[k][1])
  BY <1>4, EveryLegIsSound DEF LegIsSound, IsLeg, First
<1>6. Covered(Legs[k], 1) = {}
  BY DEF Covered
<1>7. ASSUME NEW i \in alive, i \in Legs[k][1].of PROVE i \in Rest(Legs[k][1], 0)
  <2>1. PICK leg, S : leg = Legs[k][1] /\ S = leg.of \cap alive
    OBVIOUS
  <2>2. S \in SUBSET Item /\ i \in S /\ i \in Item
    BY <1>2, <1>7, <2>1
  <2>3. Place(leg.first, S, i) >= 0
    BY <1>5, <2>1, <2>2, PlaceIsNatural, <1>2 DEF IsLeg
  <2>4. i \in RestOf(S, leg, 0)
    BY <1>5, <2>1, <2>2, <2>3, RestByKind DEF IsLeg
  <2> QED
    BY <2>1, <2>4, RestIsOf
<1>8. Holds(l, l.there \cap alive)
  BY <1>1, <1>2, <1>4, <1>6, <1>7 DEF Holds
<1> QED
  BY <1>1, <1>3, <1>8, ClientMoves DEF Begin

\* Its list goes on with the next leg: what this leg lists is covered by a leg that
\* was read in full, and nothing is by one that gave up.
LEMMA NextLegHolds ==
  ASSUME ListingInv, Running, NEW got \in SUBSET Item, NEW short \in BOOLEAN,
         listing.leg + 1 \in DOMAIN Legs[listing.kind],
         ~short => \A i \in listing.there \cap alive :
                     i \in Covered(Legs[listing.kind], listing.leg + 1) => i \in got
  PROVE  NextLeg(got, short) \in Listings
         /\ Holds(NextLeg(got, short), NextLeg(got, short).there \cap alive)
<1>1. listing \in Listings /\ listing.kind \in Kind
  BY AtLeg DEF Running
<1>2. PICK l : l = NextLeg(got, short)
  OBVIOUS
<1>3. listing.leg + 1 \in 1 .. 3 /\ LegIsSound(Legs[listing.kind], listing.leg + 1)
  BY <1>1, EveryLegIsSound
<1>4. MaxItem \in Nat /\ RetryAttempts \in Nat /\ alive \subseteq Item
  BY ListingAssumption DEF ListingAssumption, ListingInv, ListingTypeOK
<1>5. /\ l \in Listings /\ l.kind = listing.kind /\ l.leg = listing.leg + 1 /\ l.at = 0
      /\ l.got = got /\ l.short = short /\ l.there = listing.there /\ l.result = "running"
  <2>1. l = [kind |-> listing.kind, leg |-> listing.leg + 1, at |-> 0, begun |-> FALSE,
             tries |-> 0, got |-> got, there |-> listing.there, short |-> short,
             result |-> "running"]
    BY <1>1, <1>2 DEF NextLeg, Listings, Running
  <2>2. listing.there \in SUBSET Item
    BY <1>1 DEF Listings
  <2> QED
    BY <1>1, <1>3, <1>4, <2>1, <2>2 DEF Listings
<1>6. PICK leg : leg = Legs[l.kind][l.leg]
  OBVIOUS
<1>7. IsLeg(leg)
  BY <1>3, <1>5, <1>6 DEF LegIsSound, IsLeg, First
<1>8. ASSUME NEW i \in alive, i \in leg.of PROVE i \in Rest(leg, 0)
  <2>1. PICK S : S = leg.of \cap alive
    OBVIOUS
  <2>2. S \in SUBSET Item /\ i \in S /\ i \in Item
    BY <1>4, <1>8, <2>1
  <2>3. Place(leg.first, S, i) >= 0
    BY <1>4, <1>7, <2>2, PlaceIsNatural DEF IsLeg
  <2>4. i \in RestOf(S, leg, 0)
    BY <1>7, <2>2, <2>3, RestByKind DEF IsLeg
  <2> QED
    BY <2>1, <2>4, RestIsOf
<1>9. listing.there \subseteq 1 .. made
  BY DEF ListingInv, Running
<1>10. Holds(l, l.there \cap alive)
  BY <1>5, <1>6, <1>8, <1>9 DEF Holds
<1> QED
  BY <1>2, <1>5, <1>10

LEMMA RetriedStep ==
  ASSUME ListingInv, Retried
  PROVE  ListingInv'
<1>1. listing \in Listings /\ listing.kind # "none"
  BY AtLeg DEF Retried, Running
<1>2. PICK l : l = [listing EXCEPT !.tries = @ + 1]
  OBVIOUS
<1>3. /\ l \in Listings /\ l.kind = listing.kind /\ l.leg = listing.leg /\ l.at = listing.at
      /\ l.got = listing.got /\ l.short = listing.short /\ l.there = listing.there
      /\ l.result = listing.result
  BY <1>1, <1>2, ListingAssumption DEF Retried, Listings, ListingAssumption
<1>4. Holds(l, l.there \cap alive)
  BY <1>1, <1>3, ListingHolds DEF Holds
<1> QED
  BY <1>2, <1>3, <1>4, ClientMoves DEF Retried

LEMMA RefusedStep ==
  ASSUME ListingInv, Refused
  PROVE  ListingInv'
<1>1. listing.kind # "none" /\ Running /\ listing.result = "running"
  BY DEF Refused, Running
<1>2. /\ listing \in Listings /\ listing.kind \in Kind
      /\ listing.leg \in DOMAIN Legs[listing.kind] /\ listing.leg \in 1 .. 3
      /\ LegIsSound(Legs[listing.kind], listing.leg)
  BY <1>1, AtLeg
<1>3. PICK legs, n, leg : legs = Legs[listing.kind] /\ n = listing.leg /\ leg = legs[n]
  OBVIOUS
<1>4. /\ leg.fails \in {"lose", "keep", "skip", "next", "guess"} /\ leg.then \in {"stop", "next"}
      /\ leg.fails \in {"skip", "next", "guess"} => n + 1 \in DOMAIN legs
      /\ leg.fails \in {"next", "guess"} => leg.then = "stop"
  BY <1>2, <1>3 DEF LegIsSound
<1>5. listing' = GivenUp(leg) /\ UNCHANGED <<alive, made>>
  BY <1>3 DEF Refused, ThisLeg
<1>6. leg.then = "stop" => Covered(legs, n + 1) = {}
  BY <1>2, <1>3 DEF Covered
<1>7. listing.there \subseteq 1 .. made
  BY <1>1 DEF ListingInv
<1>8. CASE listing' = Over("error", listing.short)
  <2>1. PICK l : l = Over("error", listing.short)
    OBVIOUS
  <2>2. /\ l \in Listings /\ l.kind = listing.kind /\ l.leg = listing.leg
        /\ l.there = listing.there /\ l.result = "error"
    BY <1>2, <2>1 DEF Over, Listings
  <2>3. Holds(l, l.there \cap alive)
    BY <1>2, <1>7, <2>2 DEF Holds
  <2> QED
    BY <1>5, <1>8, <2>1, <2>2, <2>3, ClientMoves
<1>9. CASE listing' = Over("ok", TRUE)
  <2>1. PICK l : l = Over("ok", TRUE)
    OBVIOUS
  <2>2. /\ l \in Listings /\ l.kind = listing.kind /\ l.leg = listing.leg
        /\ l.there = listing.there /\ l.result = "ok" /\ l.short
    BY <1>2, <2>1 DEF Over, Listings
  <2>3. Holds(l, l.there \cap alive)
    BY <1>2, <1>7, <2>2 DEF Holds
  <2> QED
    BY <1>5, <1>9, <2>1, <2>2, <2>3, ClientMoves
<1>10. CASE listing' = NextLeg(listing.got, TRUE) /\ leg.fails = "skip"
  <2>1. PICK l : l = NextLeg(listing.got, TRUE)
    OBVIOUS
  <2>2. listing.got \in SUBSET Item
    BY <1>2 DEF Listings
  <2>3. l \in Listings /\ Holds(l, l.there \cap alive)
    BY <1>1, <1>3, <1>4, <1>10, <2>1, <2>2, NextLegHolds
  <2> QED
    BY <1>5, <1>10, <2>1, <2>3, ClientMoves
<1>11. CASE listing' = NextLeg({}, FALSE) /\ leg.fails \in {"next", "guess"}
  <2>1. PICK l : l = NextLeg({}, FALSE)
    OBVIOUS
  <2>2. l \in Listings /\ Holds(l, l.there \cap alive)
    BY <1>1, <1>3, <1>4, <1>6, <1>11, <2>1, NextLegHolds
  <2> QED
    BY <1>5, <1>11, <2>1, <2>2, ClientMoves
<1>12. CASE leg.fails = "lose"
  BY <1>5, <1>8, <1>12 DEF GivenUp, Lost
<1>13. CASE leg.fails = "keep"
  BY <1>5, <1>9, <1>13 DEF GivenUp
<1>14. CASE leg.fails = "skip"
  BY <1>5, <1>10, <1>14 DEF GivenUp
<1>15. CASE leg.fails = "next"
  BY <1>5, <1>11, <1>15 DEF GivenUp
<1>16. CASE leg.fails = "guess"
  <2>1. listing' = IF listing.begun THEN Over("ok", TRUE) ELSE NextLeg({}, FALSE)
    BY <1>5, <1>16 DEF GivenUp
  <2> QED
    BY <1>9, <1>11, <1>16, <2>1
<1> QED
  BY <1>4, <1>12, <1>13, <1>14, <1>15, <1>16

LEMMA AnsweredStep ==
  ASSUME ListingInv, Answered
  PROVE  ListingInv'
<1>1. listing.kind # "none" /\ Running /\ listing.result = "running"
  BY DEF Answered, Running
<1>2. /\ listing \in Listings /\ listing.kind \in Kind
      /\ listing.leg \in DOMAIN Legs[listing.kind] /\ listing.leg \in 1 .. 3
      /\ LegIsSound(Legs[listing.kind], listing.leg) /\ IsLeg(ThisLeg)
  BY <1>1, AtLeg
<1>3. PICK legs, n, leg : legs = Legs[listing.kind] /\ n = listing.leg /\ leg = legs[n]
  OBVIOUS
<1>4. /\ leg.then \in {"stop", "next"} /\ leg = ThisLeg /\ IsLeg(leg)
      /\ leg.then = "next" => n + 1 \in DOMAIN legs
      /\ leg.then = "stop" => Item \subseteq Covered(legs, n) \cup leg.of
      /\ n \in 1 .. 3
  BY <1>2, <1>3 DEF LegIsSound, ThisLeg
<1>5. PICK pos, rest, page, got : /\ pos = listing.at /\ rest = Rest(leg, pos)
                                 /\ page = PageOf(leg, pos) /\ got = listing.got \cup page
  OBVIOUS
<1>6. UNCHANGED <<alive, made>>
  BY DEF Answered
<1>7. listing' = CASE page # rest -> [listing EXCEPT !.got = got, !.at = After(leg, pos, page),
                                                     !.begun = TRUE, !.tries = 0]
                   [] page = rest /\ leg.then = "next" -> NextLeg(got, listing.short)
                   [] page = rest /\ leg.then = "stop" ->
                        [Over("ok", listing.short) EXCEPT !.got = got]
  BY <1>4, <1>5 DEF Answered
<1>8. /\ alive \subseteq Item /\ listing.there \subseteq 1 .. made
      /\ pos \in 0 .. MaxItem /\ listing.got \in SUBSET Item /\ listing.short \in BOOLEAN
      /\ listing.there \in SUBSET Item
  BY <1>1, <1>2, <1>5 DEF ListingInv, ListingTypeOK, Listings
<1>9. rest \subseteq leg.of \cap alive /\ page \subseteq rest
  <2>1. PICK S : S = leg.of \cap alive
    OBVIOUS
  <2>2. rest = RestOf(S, leg, pos) /\ RestOf(S, leg, pos) \subseteq S
    BY <1>4, <1>5, <2>1, RestIsOf, RestIsPart
  <2>3. page \subseteq rest
    BY <1>5 DEF PageOf
  <2> QED
    BY <2>1, <2>2, <2>3
<1>10. got \in SUBSET Item
  BY <1>5, <1>8, <1>9
<1>11. ASSUME ~listing.short, NEW i \in listing.there \cap alive,
              i \in Covered(legs, n) \/ (i \in leg.of /\ i \notin rest)
       PROVE  i \in listing.got
  BY <1>1, <1>3, <1>4, <1>5, <1>11 DEF ListingInv, IsBehind
<1>12. CASE page # rest
  <2>1. PICK to : to = After(leg, pos, page)
    OBVIOUS
  <2>2. /\ to \in 0 .. MaxItem
        /\ \A i \in rest \ page : i \in Rest(leg, to)
    BY <1>4, <1>5, <1>8, <1>12, <2>1, RestTurns
  <2>3. PICK l : l = [listing EXCEPT !.got = got, !.at = to, !.begun = TRUE, !.tries = 0]
    OBVIOUS
  <2>4. /\ l \in Listings /\ l.kind = listing.kind /\ l.leg = n /\ l.at = to
        /\ l.got = got /\ l.short = listing.short /\ l.there = listing.there
        /\ l.result = "running"
    <3>1. l = [kind |-> listing.kind, leg |-> listing.leg, at |-> to, begun |-> TRUE,
               tries |-> 0, got |-> got, there |-> listing.there, short |-> listing.short,
               result |-> listing.result]
      BY <1>2, <2>3 DEF Listings
    <3>2. 0 \in 0 .. RetryAttempts
      BY ListingAssumption DEF ListingAssumption
    <3> QED
      BY <1>1, <1>2, <1>3, <1>8, <1>10, <2>2, <3>1, <3>2 DEF Listings
  <2>5. ASSUME ~listing.short, NEW i \in listing.there \cap alive,
               i \in Covered(legs, n) \/ (i \in leg.of /\ i \notin Rest(leg, to))
        PROVE  i \in got
    BY <1>5, <1>11, <2>2, <2>5
  <2>6. Holds(l, l.there \cap alive)
    BY <1>2, <1>3, <1>8, <2>4, <2>5 DEF Holds
  <2>7. listing' = l
    BY <1>7, <1>12, <2>1, <2>3
  <2> QED
    BY <1>6, <2>4, <2>6, <2>7, ClientMoves
<1>13. CASE page = rest /\ leg.then = "next"
  <2>1. PICK l : l = NextLeg(got, listing.short)
    OBVIOUS
  <2>2. Covered(legs, n + 1) = leg.of
    <3>1. PICK m : m = n + 1
      OBVIOUS
    <3>2. m > 1 /\ m - 1 = n
      BY <1>4, <3>1
    <3>3. legs[m - 1].then = "next" /\ legs[m - 1].of = leg.of
      BY <1>3, <1>13, <3>2
    <3>4. Covered(legs, m) = leg.of
      BY <3>2, <3>3 DEF Covered
    <3> QED
      BY <3>1, <3>4
  <2>3. ASSUME ~listing.short, NEW i \in listing.there \cap alive, i \in leg.of
        PROVE  i \in got
    BY <1>5, <1>11, <1>13, <2>3
  <2>4. l \in Listings /\ Holds(l, l.there \cap alive)
    BY <1>1, <1>3, <1>4, <1>8, <1>10, <1>13, <2>1, <2>2, <2>3, NextLegHolds
  <2>5. listing' = l
    BY <1>7, <1>13, <2>1
  <2> QED
    BY <1>6, <2>4, <2>5, ClientMoves
<1>14. CASE page = rest /\ leg.then = "stop"
  <2>1. PICK l : l = [Over("ok", listing.short) EXCEPT !.got = got]
    OBVIOUS
  <2>2. /\ l \in Listings /\ l.kind = listing.kind /\ l.leg = n
        /\ l.got = got /\ l.short = listing.short /\ l.there = listing.there /\ l.result = "ok"
    BY <1>2, <1>3, <1>8, <1>10, <2>1 DEF Over, Listings
  <2>3. ASSUME ~listing.short, NEW i \in listing.there \cap alive PROVE i \in got
    <3>1. i \in Covered(legs, n) \/ i \in leg.of
      BY <1>4, <1>8, <1>14
    <3> QED
      BY <1>5, <1>11, <1>14, <2>3, <3>1
  <2>4. Holds(l, l.there \cap alive)
    BY <1>2, <1>3, <1>8, <2>2, <2>3 DEF Holds
  <2>5. listing' = l
    BY <1>7, <1>14, <2>1
  <2> QED
    BY <1>6, <2>2, <2>4, <2>5, ClientMoves
<1> QED
  BY <1>4, <1>12, <1>13, <1>14

LEMMA ListingStep == ListingInv /\ [ListingNext]_listingVars => ListingInv'
<1> SUFFICES ASSUME ListingInv, [ListingNext]_listingVars PROVE ListingInv'
  OBVIOUS
<1>1. CASE UNCHANGED listingVars
  <2>1. \A leg, pos : Rest(leg, pos)' = Rest(leg, pos)
    BY <1>1, RestIsOf DEF listingVars
  <2> QED
    BY <1>1, <2>1 DEF listingVars, ListingInv, ListingTypeOK, IsBehind, Running, ThisLeg,
       ListingComplete
<1> QED
  BY <1>1, MakeStep, UnmakeStep, BeginStep, AnsweredStep, RetriedStep, RefusedStep
  DEF ListingNext

\* A listing that reports success names everything that existed when it began and still
\* exists, unless a best-effort leg was cut short or something was removed from a page
\* already read by number: for any number of items, any page size and any number of
\* retries, through every fallback from one leg to another.
THEOREM ListingsAreComplete == ListingSpec => [](ListingTypeOK /\ ListingComplete)
<1>1. ListingInv => ListingTypeOK /\ ListingComplete
  BY DEF ListingInv
<1> QED
  BY <1>1, ListingInitially, ListingStep, PTL DEF ListingSpec

-----------------------------------------------------------------------------
(* The seed commands *)

\* How many windows are invoiced.
Windows == Cardinality(Window)

LEMMA WindowCounts == Windows \in Nat /\ Window = 1 .. Windows
BY SeedAssumption, FS_CardinalityType DEF Windows

LEMMA Concatenated ==
  ASSUME NEW S, NEW s \in Seq(S), NEW t \in Seq(S)
  PROVE  /\ s \o t \in Seq(S)
         /\ Len(s \o t) = Len(s) + Len(t)
         /\ \A i \in 1 .. Len(s) : (s \o t)[i] = s[i]
         /\ \A i \in 1 .. Len(t) : (s \o t)[Len(s) + i] = t[i]
OBVIOUS

LEMMA Enumerated ==
  ASSUME NEW T, NEW n \in Nat, NEW f \in [1 .. n -> T]
  PROVE  f \in Seq(T)
OBVIOUS

LEMMA OpeningLists == Opening \in Seq({Opening[i] : i \in 1 .. 17}) /\ Len(Opening) = 17
<1> DEFINE Row == [i \in 1 .. 17 |-> Opening[i]]
<1>1. Opening = Row /\ Len(Opening) = 17
  BY DEF Opening
<1>2. Row \in [1 .. 17 -> {Opening[i] : i \in 1 .. 17}]
  OBVIOUS
<1> HIDE DEF Row
<1>3. Row \in Seq({Opening[i] : i \in 1 .. 17})
  BY <1>2, Enumerated
<1> QED
  BY <1>1, <1>3

LEMMA OpeningIs ==
  /\ Opening[1] = Do("wipe") /\ Opening[2] = Do("org") /\ Opening[3] = Fixed("org_members")
  /\ Opening[4] = Fixed("subscriptions") /\ Opening[5] = Do("org2")
  /\ Opening[6] = Fixed("subscriptions of nova-labs") /\ Opening[7] = Fixed("repos")
  /\ Opening[8] = Do("projects") /\ Opening[9] = Do("commits") /\ Opening[10] = Do("prs")
  /\ Opening[11] = Do("cycles") /\ Opening[12] = Do("estimates") /\ Opening[13] = Do("issues")
  /\ Opening[14] = Do("involvement") /\ Opening[15] = Fixed("contribution_snapshots")
  /\ Opening[16] = Do("kudos") /\ Opening[17] = Fixed("clients")
BY DEF Opening, AddMembers, SeedSubscriptions, SeedNovaSubscription, UpsertRepos,
       SeedContributionExtras, UpsertClients

LEMMA ClosingLists == Closing \in Seq({Closing[i] : i \in 1 .. 10}) /\ Len(Closing) = 10
BY DEF Closing

LEMMA ClosingIs ==
  /\ Closing[1] = Do("deployments") /\ Closing[2] = Do("incidents")
  /\ Closing[3] = Do("availability") /\ Closing[4] = Fixed("calendar_connections")
  /\ Closing[5] = Fixed("leave_types") /\ Closing[6] = Do("leave")
  /\ Closing[7] = Do("balances") /\ Closing[8] = Do("time")
  /\ Closing[9] = Do("notifications") /\ Closing[10] = Fixed("webhook_configs")
BY DEF Closing, SeedCalendarConnections, SeedLeaveTypes, SeedWebhookConfigs

LEMMA InvoicingIs ==
  /\ Invoicing \in Seq({Invoicing[w] : w \in Window}) /\ Len(Invoicing) = Windows
  /\ \A w \in Window : Invoicing[w] = [do |-> "invoice", window |-> w]
BY WindowCounts DEF Invoicing

\* The sections of a run, by their place.
LEMMA SectionsAre ==
  /\ Len(Sections) = 27 + Windows
  /\ \A i \in 1 .. 17 : Sections[i] = Opening[i]
  /\ \A w \in Window : Sections[17 + w] = [do |-> "invoice", window |-> w]
  /\ \A i \in 1 .. 10 : Sections[17 + Windows + i] = Closing[i]
<1> DEFINE S == {Opening[i] : i \in 1 .. 17} \cup {Invoicing[w] : w \in Window}
                  \cup {Closing[i] : i \in 1 .. 10}
           Fore == Opening \o Invoicing
<1>1. Opening \in Seq(S) /\ Invoicing \in Seq(S) /\ Closing \in Seq(S)
  <2> DEFINE A == {Opening[i] : i \in 1 .. 17}
             B == {Invoicing[w] : w \in Window}
             C == {Closing[i] : i \in 1 .. 10}
  <2>1. Opening \in Seq(A) /\ Invoicing \in Seq(B) /\ Closing \in Seq(C)
    BY OpeningLists, InvoicingIs, ClosingLists
  <2>2. S = A \cup B \cup C
    OBVIOUS
  <2> HIDE DEF A, B, C, S
  <2>3. \A T : T \subseteq S => Seq(T) \subseteq Seq(S)
    OBVIOUS
  <2> QED
    BY <2>1, <2>2, <2>3
<1> HIDE DEF S
<1>2. /\ Fore \in Seq(S) /\ Len(Fore) = 17 + Windows
      /\ \A i \in 1 .. 17 : Fore[i] = Opening[i]
      /\ \A w \in Window : Fore[17 + w] = Invoicing[w]
  <2>1. Fore \in Seq(S) /\ Len(Fore) = Len(Opening) + Len(Invoicing)
    BY <1>1, Concatenated
  <2>2. \A i \in 1 .. Len(Opening) : Fore[i] = Opening[i]
    BY <1>1, Concatenated
  <2>3. \A i \in 1 .. Len(Invoicing) : Fore[Len(Opening) + i] = Invoicing[i]
    BY <1>1, Concatenated
  <2>4. Len(Opening) = 17 /\ Len(Invoicing) = Windows
    BY OpeningLists, InvoicingIs
  <2> HIDE DEF Fore
  <2> QED
    BY <2>1, <2>2, <2>3, <2>4, WindowCounts
<1> HIDE DEF Fore
<1> DEFINE All == Fore \o Closing
<1>3. /\ Len(All) = 27 + Windows
      /\ \A i \in 1 .. 17 + Windows : All[i] = Fore[i]
      /\ \A i \in 1 .. 10 : All[17 + Windows + i] = Closing[i]
  <2>1. Len(All) = Len(Fore) + Len(Closing)
    BY <1>1, <1>2, Concatenated
  <2>2. \A i \in 1 .. Len(Fore) : All[i] = Fore[i]
    BY <1>1, <1>2, Concatenated
  <2>3. \A i \in 1 .. Len(Closing) : All[Len(Fore) + i] = Closing[i]
    <3>1. Fore \in Seq(S) /\ Closing \in Seq(S)
      BY <1>1, <1>2
    <3> QED
      BY <3>1, Concatenated
  <2>4. Len(Closing) = 10
    BY ClosingLists
  <2> HIDE DEF All
  <2> QED
    BY <2>1, <2>2, <2>3, <2>4, <1>2, WindowCounts
<1>4. All = Sections
  BY DEF Sections, Fore
<1> HIDE DEF All
<1>5. \A i \in 1 .. 17 : Sections[i] = Opening[i]
  <2> SUFFICES ASSUME NEW i \in 1 .. 17 PROVE All[i] = Opening[i]
    BY <1>4
  <2>1. i \in 1 .. 17 + Windows
    BY WindowCounts
  <2> QED
    BY <2>1, <1>2, <1>3
<1>6. \A w \in Window : Sections[17 + w] = [do |-> "invoice", window |-> w]
  <2> SUFFICES ASSUME NEW w \in Window PROVE All[17 + w] = Invoicing[w]
    BY <1>4, InvoicingIs
  <2>1. 17 + w \in 1 .. 17 + Windows
    BY WindowCounts
  <2> QED
    BY <2>1, <1>2, <1>3
<1> QED
  BY <1>3, <1>4, <1>5, <1>6

-----------------------------------------------------------------------------
\* What has been done after n sections, and what each of the sections may be.
Passed(n) == {Sections[i] : i \in 1 .. n}

FixedNames ==
  {"org_members", "subscriptions", "subscriptions of nova-labs", "repos",
   "contribution_snapshots", "clients", "calendar_connections", "leave_types",
   "webhook_configs"}
Deeds ==
  {"org", "org2", "projects", "commits", "prs", "cycles", "estimates", "issues",
   "involvement", "kudos", "deployments", "incidents", "availability", "leave", "balances", "time", "notifications"}
Invoice(w) == [do |-> "invoice", window |-> w]

\* The wipe comes first, the invoices after the pull requests and their estimates, the
\* balances after the leave they count.
LEMMA SectionAt ==
  ASSUME NEW i \in 1 .. 27 + Windows
  PROVE  \/ i = 1 /\ Sections[i] = Do("wipe")
         \/ \E what \in Deeds : Sections[i] = Do(what) /\ what # "balances" /\ i # 1
         \/ i = 24 + Windows /\ Sections[i] = Do("balances")
         \/ \E name \in FixedNames : Sections[i] = Fixed(name) /\ i # 1
         \/ \E w \in Window : Sections[i] = Invoice(w) /\ i > 17
<1>1. CASE i \in 1 .. 17
  <2>1. \/ i = 1 \/ i = 2 \/ i = 3 \/ i = 4 \/ i = 5 \/ i = 6 \/ i = 7 \/ i = 8 \/ i = 9
        \/ i = 10 \/ i = 11 \/ i = 12 \/ i = 13 \/ i = 14 \/ i = 15 \/ i = 16 \/ i = 17
    BY <1>1
  <2>2. Sections[i] = Opening[i]
    BY <1>1, SectionsAre
  <2> QED
    BY <2>1, <2>2, OpeningIs DEF Deeds, FixedNames
<1>2. CASE i \in 18 .. 17 + Windows
  <2>1. i - 17 \in Window /\ 17 + (i - 17) = i /\ i > 17
    BY <1>2, WindowCounts
  <2>2. Sections[17 + (i - 17)] = Invoice(i - 17)
    BY <2>1, SectionsAre DEF Invoice
  <2> QED
    BY <2>1, <2>2
<1>3. CASE i \in 18 + Windows .. 27 + Windows
  <2> DEFINE j == i - (17 + Windows)
  <2>1. j \in 1 .. 10 /\ 17 + Windows + j = i /\ i # 1
    BY <1>3, WindowCounts
  <2> HIDE DEF j
  <2>2. Sections[i] = Closing[j]
    BY <2>1, SectionsAre
  <2>3. \/ j = 1 \/ j = 2 \/ j = 3 \/ j = 4 \/ j = 5 \/ j = 6 \/ j = 7 \/ j = 8 \/ j = 9
        \/ j = 10
    BY <2>1
  <2>4. j = 7 => i = 24 + Windows
    BY <2>1, WindowCounts
  <2> QED
    BY <2>1, <2>2, <2>3, <2>4, ClosingIs DEF Deeds, FixedNames
<1> QED
  BY <1>1, <1>2, <1>3, WindowCounts

LEMMA PassedGrows ==
  ASSUME NEW n \in 0 .. 26 + Windows
  PROVE  Passed(n + 1) = Passed(n) \cup {Sections[n + 1]}
BY WindowCounts DEF Passed

LEMMA NothingPassed == Passed(0) = {}
BY DEF Passed

LEMMA PassedBefore ==
  ASSUME NEW n \in 0 .. 27 + Windows
  PROVE  /\ n >= 17 => Do("prs") \in Passed(n) /\ Do("estimates") \in Passed(n)
         /\ n >= 23 + Windows => Do("leave") \in Passed(n)
<1>1. Sections[10] = Do("prs") /\ Sections[12] = Do("estimates")
  <2>1. Sections[10] = Opening[10] /\ Sections[12] = Opening[12]
    BY SectionsAre
  <2> QED
    BY <2>1, OpeningIs
<1>2. Sections[23 + Windows] = Do("leave")
  <2>1. Sections[17 + Windows + 6] = Closing[6]
    BY SectionsAre
  <2>2. 17 + Windows + 6 = 23 + Windows
    BY WindowCounts
  <2> QED
    BY <2>1, <2>2, ClosingIs
<1>3. ASSUME n >= 17 PROVE 10 \in 1 .. n /\ 12 \in 1 .. n
  BY <1>3
<1>4. ASSUME n >= 23 + Windows PROVE 23 + Windows \in 1 .. n
  BY <1>4, WindowCounts
<1>5. \A i \in 1 .. n : Sections[i] \in Passed(n)
  BY DEF Passed
<1> QED
  BY <1>1, <1>2, <1>3, <1>4, <1>5

\* At the end everything was done.
LEMMA AllPassed ==
  /\ \A what \in Deeds : Do(what) \in Passed(27 + Windows)
  /\ \A name \in FixedNames : Fixed(name) \in Passed(27 + Windows)
  /\ \A w \in Window : Invoice(w) \in Passed(27 + Windows)
<1> DEFINE All == Passed(27 + Windows)
<1>1. \A i \in 1 .. 17 : Opening[i] \in All
  <2>1. \A i \in 1 .. 17 : i \in 1 .. 27 + Windows
    BY WindowCounts
  <2> QED
    BY <2>1, SectionsAre DEF Passed
<1>2. \A i \in 1 .. 10 : Closing[i] \in All
  <2> SUFFICES ASSUME NEW i \in 1 .. 10 PROVE Closing[i] \in All
    OBVIOUS
  <2>1. 17 + Windows + i \in 1 .. 27 + Windows
    BY WindowCounts
  <2>2. Sections[17 + Windows + i] \in All
    BY <2>1 DEF Passed
  <2> QED
    BY <2>2, SectionsAre
<1>3. \A w \in Window : Invoice(w) \in All
  <2>1. \A w \in Window : 17 + w \in 1 .. 27 + Windows
    BY WindowCounts
  <2> QED
    BY <2>1, SectionsAre DEF Passed, Invoice
<1> HIDE DEF All
<1>4. /\ Opening[1] \in All /\ Opening[2] \in All /\ Opening[3] \in All /\ Opening[4] \in All
      /\ Opening[5] \in All /\ Opening[6] \in All /\ Opening[7] \in All /\ Opening[8] \in All
      /\ Opening[9] \in All /\ Opening[10] \in All /\ Opening[11] \in All
      /\ Opening[12] \in All /\ Opening[13] \in All /\ Opening[14] \in All
      /\ Opening[15] \in All /\ Opening[16] \in All /\ Opening[17] \in All
  BY <1>1
<1>5. /\ Do("org") \in All /\ Do("org2") \in All /\ Do("projects") \in All
      /\ Do("commits") \in All /\ Do("prs") \in All /\ Do("cycles") \in All
      /\ Do("estimates") \in All /\ Do("issues") \in All /\ Do("kudos") \in All
      /\ Do("involvement") \in All /\ Fixed("org_members") \in All /\ Fixed("subscriptions") \in All
      /\ Fixed("subscriptions of nova-labs") \in All /\ Fixed("repos") \in All
      /\ Fixed("contribution_snapshots") \in All
      /\ Fixed("clients") \in All
  BY <1>4, OpeningIs
<1>6. /\ Do("deployments") \in All /\ Do("incidents") \in All /\ Do("availability") \in All
      /\ Do("leave") \in All /\ Do("balances") \in All /\ Do("time") \in All
      /\ Do("notifications") \in All /\ Fixed("calendar_connections") \in All
      /\ Fixed("leave_types") \in All /\ Fixed("webhook_configs") \in All
  BY <1>2, ClosingIs
<1>7. \A what \in Deeds : Do(what) \in All
  BY <1>5, <1>6 DEF Deeds
<1>8. \A name \in FixedNames : Fixed(name) \in All
  BY <1>5, <1>6 DEF FixedNames
<1> QED
  BY <1>3, <1>7, <1>8 DEF All

-----------------------------------------------------------------------------
\* The rows of a database on which only runs of one day and one administrator wrote,
\* of which the sections S were done in the last one: no row is there that one run would
\* not leave, and the rows of the sections that were done all are.
MergedIn(r, k) == IF k \in RowsOfRun(r) THEN PRDrawn(r, k).merged ELSE -1
EstimatedIn(r, k) == k \in RowsOfRun(r) /\ PRDrawn(r, k).estimated
LinesIn(r, w) ==
  LinesOf({k \in SeedRow : MergedIn(r, k) = w},
          [k \in SeedRow |-> IF EstimatedIn(r, k) THEN OfSeed ELSE Baseline])
Delivered(r) == {w \in Window : LinesIn(r, w) # <<>>}
NumberIn(r, w) == Cardinality({v \in Delivered(r) : v <= w})
IssuesIn(r) ==
  {<<i, Drawn[r.day].issues[i]>> :
     i \in DrawnIssue \ {i \in DrawnIssue : Drawn[r.day].issues[i] = "native"}}
DeploymentsIn(r) == {<<i, Drawn[r.day].deployments[i]>> : i \in Deployment}

OrgsDue(d, r, S) ==
  /\ d.orgs \subseteq Slug /\ d.owners \in [Slug -> SUBSET {r.admin}]
  /\ Do("org") \in S => "acme-dev" \in d.orgs /\ r.admin \in d.owners["acme-dev"]
  /\ Do("org2") \in S => "nova-labs" \in d.orgs /\ r.admin \in d.owners["nova-labs"]
UniqueDue(d, S) ==
  /\ d.unique \subseteq FixedNames
  /\ \A name \in FixedNames : Fixed(name) \in S => name \in d.unique
CommitsDue(d, r, S) ==
  /\ d.commits \subseteq Drawn[r.day].commits
  /\ Do("commits") \in S => d.commits = Drawn[r.day].commits
PullsDue(d, r, S) ==
  /\ d.prs = [k \in SeedRow |-> d.prs[k]]
  /\ \A k \in SeedRow : d.prs[k] \in {-1, MergedIn(r, k)}
  /\ Do("prs") \in S => \A k \in SeedRow : d.prs[k] = MergedIn(r, k)
EstimatesDue(d, r, S) ==
  /\ d.estimates \in [SeedRow -> Seq({OfSeed})]
  /\ \A k \in SeedRow : d.estimates[k] # <<>> => EstimatedIn(r, k)
  /\ Do("estimates") \in S =>
       \A k \in SeedRow : EstimatedIn(r, k) => d.estimates[k] # <<>>
GitIssuesDue(d, r, S) ==
  /\ d.gitIssues \subseteq IssuesIn(r)
  /\ Do("issues") \in S => d.gitIssues = IssuesIn(r)
KudosDue(d, S) ==
  /\ d.kudos \in {0, 1} /\ (Do("kudos") \in S => d.kudos = 1)
  /\ d.channels \in {0, 1} /\ (Do("notifications") \in S => d.channels = 1)
Unnumbered(d, n) == d.invoices[n] = 0 /\ d.total[n] = 0 /\ d.lines[n] = <<>>
Numbered(d, r, n, w) ==
  d.invoices[n] = w /\ d.total[n] = LinesTotal(LinesIn(r, w)) /\ d.lines[n] = LinesIn(r, w)
InvoicesDue(d, r, S) ==
  /\ d.invoices = [n \in DemoNumber |-> d.invoices[n]]
  /\ d.total = [n \in DemoNumber |-> d.total[n]]
  /\ d.lines = [n \in DemoNumber |-> d.lines[n]]
  /\ \A n \in DemoNumber :
       \/ Unnumbered(d, n)
       \/ \E w \in Delivered(r) : NumberIn(r, w) = n /\ Numbered(d, r, n, w)
  /\ \A w \in Delivered(r) : Invoice(w) \in S => d.invoices[NumberIn(r, w)] = w
DeploymentsDue(d, r, S) ==
  /\ d.deployments \subseteq DeploymentsIn(r)
  /\ Do("deployments") \in S => d.deployments = DeploymentsIn(r)
NoLeave == [b \in LeaveBalance |-> 0]
Uncounted == [b \in LeaveBalance |-> -1]
UsedIn(r) ==
  [b \in LeaveBalance |-> IF b[2] = Drawn[r.day].year THEN Drawn[r.day].approved[b] ELSE -1]
LeaveDue(d, r, S) ==
  /\ d.approved \in {NoLeave, Drawn[r.day].approved}
  /\ d.pending \in {NoLeave, Drawn[r.day].pending}
  /\ d.used \in {Uncounted, UsedIn(r)}
  /\ Do("leave") \in S =>
       d.approved = Drawn[r.day].approved /\ d.pending = Drawn[r.day].pending
  /\ Do("balances") \in S => d.used = UsedIn(r)

Due(d, r, S) ==
  /\ DOMAIN d = DOMAIN EmptyDb
  /\ OrgsDue(d, r, S)
  /\ UniqueDue(d, S)
  /\ CommitsDue(d, r, S)
  /\ PullsDue(d, r, S)
  /\ EstimatesDue(d, r, S)
  /\ GitIssuesDue(d, r, S)
  /\ KudosDue(d, S)
  /\ InvoicesDue(d, r, S)
  /\ DeploymentsDue(d, r, S)
  /\ LeaveDue(d, r, S)

Tables ==
  {"orgs", "owners", "unique", "projects", "commits", "prs", "cycles", "estimates",
   "gitIssues", "nativeIssues", "kudos", "invoices", "total", "lines", "deployments",
   "incidents", "availability", "approved", "pending", "used", "timeEntries", "channels",
   "involvement"}

LEMMA TablesAre == DOMAIN EmptyDb = Tables
BY DEF EmptyDb, Tables

LEMMA NothingDue ==
  ASSUME NEW r \in Run
  PROVE  Due(EmptyDb, r, {})
<1>1. InvoicesDue(EmptyDb, r, {})
  BY DEF InvoicesDue, Unnumbered, EmptyDb
<1>2. PullsDue(EmptyDb, r, {}) /\ EstimatesDue(EmptyDb, r, {})
  BY DEF PullsDue, EstimatesDue, EmptyDb
<1>3. /\ OrgsDue(EmptyDb, r, {}) /\ UniqueDue(EmptyDb, {}) /\ CommitsDue(EmptyDb, r, {})
      /\ GitIssuesDue(EmptyDb, r, {}) /\ KudosDue(EmptyDb, {})
      /\ DeploymentsDue(EmptyDb, r, {}) /\ LeaveDue(EmptyDb, r, {})
  BY DEF OrgsDue, UniqueDue, CommitsDue, GitIssuesDue, KudosDue, DeploymentsDue, LeaveDue, EmptyDb,
         NoLeave, Uncounted
<1> QED
  BY <1>1, <1>2, <1>3 DEF Due

\* What is due after more is due after less.
LEMMA DueBefore ==
  ASSUME NEW d, NEW r, NEW S, NEW T, T \subseteq S, Due(d, r, S)
  PROVE  Due(d, r, T)
<1>1. InvoicesDue(d, r, T)
  BY DEF Due, InvoicesDue
<1>2. PullsDue(d, r, T) /\ EstimatesDue(d, r, T)
  BY DEF Due, PullsDue, EstimatesDue
<1> QED
  BY <1>1, <1>2
     DEF Due, OrgsDue, UniqueDue, CommitsDue, GitIssuesDue, KudosDue, DeploymentsDue, LeaveDue

\* What is due does not depend on -reset.
LEMMA DueAlike ==
  ASSUME NEW d, NEW r, NEW q, NEW S, r.day = q.day, r.admin = q.admin, Due(d, r, S)
  PROVE  Due(d, q, S)
<1>1. \A k : MergedIn(r, k) = MergedIn(q, k) /\ EstimatedIn(r, k) = EstimatedIn(q, k)
  BY DEF MergedIn, EstimatedIn, RowsOfRun, PRDrawn
<1>2. \A w : LinesIn(r, w) = LinesIn(q, w)
  BY <1>1 DEF LinesIn
<1>3. Delivered(r) = Delivered(q)
  BY <1>2 DEF Delivered
<1>4. \A w : NumberIn(r, w) = NumberIn(q, w)
  BY <1>3 DEF NumberIn
<1>5. InvoicesDue(d, q, S)
  BY <1>2, <1>3, <1>4 DEF Due, InvoicesDue, Numbered
<1>6. PullsDue(d, q, S) /\ EstimatesDue(d, q, S)
  BY <1>1 DEF Due, PullsDue, EstimatesDue
<1> QED
  BY <1>5, <1>6
     DEF Due, OrgsDue, UniqueDue, CommitsDue, GitIssuesDue, KudosDue, DeploymentsDue, LeaveDue,
         IssuesIn, DeploymentsIn, UsedIn

\* Windows with delivery take different numbers, of those there are.
LEMMA NumbersDiffer ==
  ASSUME NEW r, NEW w \in Delivered(r)
  PROVE  /\ NumberIn(r, w) \in DemoNumber
         /\ \A v \in Delivered(r) : NumberIn(r, v) = NumberIn(r, w) => v = w
<1> DEFINE Upto(v) == {u \in Delivered(r) : u <= v}
<1>1. Delivered(r) \subseteq Window /\ IsFiniteSet(Window)
  BY SeedAssumption DEF Delivered
<1>2. \A v : IsFiniteSet(Upto(v)) /\ Cardinality(Upto(v)) \in Nat
  BY <1>1, FS_Subset, FS_CardinalityType
<1>3. \A v : NumberIn(r, v) = Cardinality(Upto(v))
  BY DEF NumberIn
<1>4. NumberIn(r, w) \in DemoNumber
  <2>1. Upto(w) \subseteq Window
    BY <1>1
  <2>2. Cardinality(Upto(w)) <= Cardinality(Window)
    BY <2>1, <1>1, FS_Subset
  <2>3. w \in Upto(w)
    BY <1>1, WindowCounts
  <2>4. Cardinality(Upto(w)) # 0
    BY <2>3, <1>2, FS_EmptySet
  <2> HIDE DEF Upto
  <2> QED
    BY <2>2, <2>4, <1>2, <1>3, WindowCounts DEF DemoNumber, Windows
<1>5. ASSUME NEW u \in Delivered(r), NEW v \in Delivered(r), u < v
      PROVE  NumberIn(r, u) < NumberIn(r, v)
  <2>1. Upto(u) \subseteq Upto(v) /\ v \in Upto(v) /\ v \notin Upto(u)
    BY <1>1, <1>5, WindowCounts
  <2> HIDE DEF Upto
  <2>2. Cardinality(Upto(u)) < Cardinality(Upto(v))
    BY <2>1, <1>2, FS_Subset
  <2> QED
    BY <2>2, <1>3
<1>6. ASSUME NEW v \in Delivered(r), NumberIn(r, v) = NumberIn(r, w) PROVE v = w
  <2>1. v \in Int /\ w \in Int
    BY <1>1, WindowCounts
  <2> HIDE DEF Upto
  <2>2. NumberIn(r, v) \in Int /\ NumberIn(r, w) \in Int
    BY <1>2, <1>3
  <2> QED
    BY <2>1, <2>2, <1>5, <1>6
<1> QED
  BY <1>4, <1>6

\* A database that differs from another in the tables of T.
Differs(d, e, T) ==
  DOMAIN e = DOMAIN d /\ \A table \in Tables \ T : e[table] = d[table]

\* What a section does not write stays due, whatever was done.
\* Of a database that differs from another in the tables of T, what does not speak of
\* them stays due when the section s is done.
Kept(e, r, U, s, T) ==
  /\ DOMAIN e = DOMAIN EmptyDb
  /\ "orgs" \notin T /\ "owners" \notin T /\ s # Do("org") /\ s # Do("org2") =>
       OrgsDue(e, r, U)
  /\ "unique" \notin T /\ (\A name \in FixedNames : s # Fixed(name)) => UniqueDue(e, U)
  /\ "commits" \notin T /\ s # Do("commits") => CommitsDue(e, r, U)
  /\ "prs" \notin T /\ s # Do("prs") => PullsDue(e, r, U)
  /\ "estimates" \notin T /\ s # Do("estimates") => EstimatesDue(e, r, U)
  /\ "gitIssues" \notin T /\ s # Do("issues") => GitIssuesDue(e, r, U)
  /\ "kudos" \notin T /\ "channels" \notin T /\ s # Do("kudos") /\ s # Do("notifications") =>
       KudosDue(e, U)
  /\ "invoices" \notin T /\ "total" \notin T /\ "lines" \notin T /\ (\A w : s # Invoice(w)) =>
       InvoicesDue(e, r, U)
  /\ "deployments" \notin T /\ s # Do("deployments") => DeploymentsDue(e, r, U)
  /\ "approved" \notin T /\ "pending" \notin T /\ "used" \notin T
       /\ s # Do("leave") /\ s # Do("balances") => LeaveDue(e, r, U)

LEMMA StaysDue ==
  ASSUME NEW d, NEW e, NEW r, NEW S, NEW s, NEW T, Due(d, r, S), Differs(d, e, T)
  PROVE  Kept(e, r, S \cup {s}, s, T)
<1> DEFINE U == S \cup {s}
<1>1. ASSUME "orgs" \notin T /\ "owners" \notin T, s # Do("org"), s # Do("org2")
      PROVE OrgsDue(e, r, U)
  <2>1. e.orgs = d.orgs /\ e.owners = d.owners
    BY <1>1 DEF Differs, Tables
  <2> QED
    BY <1>1, <2>1 DEF Due, OrgsDue
<1>2. ASSUME "unique" \notin T, \A name \in FixedNames : s # Fixed(name)
      PROVE UniqueDue(e, U)
  <2>1. e.unique = d.unique
    BY <1>2 DEF Differs, Tables
  <2> QED
    BY <1>2, <2>1 DEF Due, UniqueDue
<1>3. ASSUME "commits" \notin T, s # Do("commits") PROVE CommitsDue(e, r, U)
  BY <1>3 DEF Due, CommitsDue, Differs, Tables
<1>4. ASSUME "prs" \notin T, s # Do("prs") PROVE PullsDue(e, r, U)
  <2>1. e.prs = d.prs
    BY <1>4 DEF Differs, Tables
  <2> QED
    BY <1>4, <2>1 DEF Due, PullsDue
<1>5. ASSUME "estimates" \notin T, s # Do("estimates") PROVE EstimatesDue(e, r, U)
  <2>1. e.estimates = d.estimates
    BY <1>5 DEF Differs, Tables
  <2> QED
    BY <1>5, <2>1 DEF Due, EstimatesDue
<1>6. ASSUME "gitIssues" \notin T, s # Do("issues") PROVE GitIssuesDue(e, r, U)
  BY <1>6 DEF Due, GitIssuesDue, Differs, Tables
<1>7. ASSUME "kudos" \notin T /\ "channels" \notin T, s # Do("kudos"), s # Do("notifications")
      PROVE KudosDue(e, U)
  <2>1. e.kudos = d.kudos /\ e.channels = d.channels
    BY <1>7 DEF Differs, Tables
  <2> QED
    BY <1>7, <2>1 DEF Due, KudosDue
<1>8. ASSUME "invoices" \notin T /\ "total" \notin T /\ "lines" \notin T, \A w : s # Invoice(w)
      PROVE InvoicesDue(e, r, U)
  <2>1. e.invoices = d.invoices /\ e.total = d.total /\ e.lines = d.lines
    BY <1>8 DEF Differs, Tables
  <2> QED
    BY <1>8, <2>1 DEF Due, InvoicesDue, Numbered, Unnumbered
<1>9. ASSUME "deployments" \notin T, s # Do("deployments") PROVE DeploymentsDue(e, r, U)
  BY <1>9 DEF Due, DeploymentsDue, Differs, Tables
<1>10. ASSUME "approved" \notin T /\ "pending" \notin T /\ "used" \notin T, s # Do("leave"), s # Do("balances")
       PROVE LeaveDue(e, r, U)
  <2>1. e.approved = d.approved /\ e.pending = d.pending /\ e.used = d.used
    BY <1>10 DEF Differs, Tables
  <2> QED
    BY <1>10, <2>1 DEF Due, LeaveDue
<1>11. DOMAIN e = DOMAIN EmptyDb
  BY DEF Due, Differs
<1> HIDE DEF U
<1>12. Kept(e, r, U, s, T)
  BY <1>1, <1>2, <1>3, <1>4, <1>5, <1>6, <1>7, <1>8, <1>9, <1>10, <1>11 DEF Kept
<1> QED
  BY <1>12 DEF U

LEMMA Doings ==
  /\ \A what : Do(what).do = what
  /\ \A name : Fixed(name).do = "unique" /\ Fixed(name).name = name
  /\ \A w : Invoice(w).do = "invoice" /\ Invoice(w).window = w
BY DEF Do, Fixed, Invoice

\* What stays due when a deed is done that another part of Due does not speak of.
DeedKeeps(e, r, U, what, T) ==
  /\ DOMAIN e = DOMAIN EmptyDb
  /\ "orgs" \notin T /\ "owners" \notin T /\ what \notin {"org", "org2"} => OrgsDue(e, r, U)
  /\ "unique" \notin T => UniqueDue(e, U)
  /\ "commits" \notin T /\ what # "commits" => CommitsDue(e, r, U)
  /\ "prs" \notin T /\ what # "prs" => PullsDue(e, r, U)
  /\ "estimates" \notin T /\ what # "estimates" => EstimatesDue(e, r, U)
  /\ "gitIssues" \notin T /\ what # "issues" => GitIssuesDue(e, r, U)
  /\ "kudos" \notin T /\ "channels" \notin T /\ what \notin {"kudos", "notifications"} =>
       KudosDue(e, U)
  /\ "invoices" \notin T /\ "total" \notin T /\ "lines" \notin T => InvoicesDue(e, r, U)
  /\ "deployments" \notin T /\ what # "deployments" => DeploymentsDue(e, r, U)
  /\ "approved" \notin T /\ "pending" \notin T /\ "used" \notin T /\ what \notin {"leave", "balances"} =>
       LeaveDue(e, r, U)

LEMMA DeedKept ==
  ASSUME NEW d, NEW e, NEW r, NEW S, NEW what, NEW T, what \notin {"unique", "invoice"},
         Due(d, r, S), Differs(d, e, T)
  PROVE  DeedKeeps(e, r, S \cup {Do(what)}, what, T)
<1>1. Kept(e, r, S \cup {Do(what)}, Do(what), T)
  BY StaysDue
<1>2. \A x : Do(what) = Do(x) => what = x
  BY Doings
<1>3. \A x : Do(what) # Fixed(x) /\ Do(what) # Invoice(x)
  <2> TAKE x
  <2>1. Do(what).do = what /\ Fixed(x).do = "unique" /\ Invoice(x).do = "invoice"
    BY Doings
  <2> QED
    BY <2>1
<1> QED
  BY <1>1, <1>2, <1>3 DEF Kept, DeedKeeps

\* A section that writes but what piles up.
LEMMA PilesDue ==
  ASSUME NEW d, NEW e, NEW r, NEW S, NEW what, NEW T,
         T \subseteq {"projects", "involvement", "cycles", "nativeIssues", "incidents",
                      "availability", "timeEntries"},
         what \in {"wipe", "projects", "involvement", "cycles", "incidents", "availability",
                   "time"},
         Due(d, r, S), Differs(d, e, T)
  PROVE  Due(e, r, S \cup {Do(what)})
<1>1. /\ what \notin {"unique", "invoice", "org", "org2", "balances", "commits", "prs",
                      "estimates", "issues", "kudos", "notifications", "deployments", "leave"}
  OBVIOUS
<1>2. /\ "orgs" \notin T /\ "owners" \notin T /\ "kudos" \notin T /\ "channels" \notin T
      /\ "invoices" \notin T /\ "total" \notin T /\ "lines" \notin T
      /\ "approved" \notin T /\ "pending" \notin T /\ "used" \notin T
      /\ "unique" \notin T /\ "commits" \notin T /\ "prs" \notin T /\ "estimates" \notin T
      /\ "gitIssues" \notin T /\ "deployments" \notin T
  OBVIOUS
<1> DEFINE U == S \cup {Do(what)}
<1>3. /\ DOMAIN e = DOMAIN EmptyDb
      /\ OrgsDue(e, r, U) /\ UniqueDue(e, U) /\ CommitsDue(e, r, U) /\ PullsDue(e, r, U)
      /\ EstimatesDue(e, r, U) /\ GitIssuesDue(e, r, U) /\ KudosDue(e, U)
      /\ InvoicesDue(e, r, U) /\ DeploymentsDue(e, r, U) /\ LeaveDue(e, r, U)
  <2>1. what \notin {"unique", "invoice"}
    BY <1>1
  <2> QED
    BY <1>1, <1>2, <2>1, DeedKept DEF DeedKeeps
<1> HIDE DEF U
<1> QED
  BY <1>3 DEF Due, U

LEMMA OrgStep ==
  ASSUME NEW d, NEW r, NEW S, NEW what, NEW slug,
         (what = "org" /\ slug = "acme-dev") \/ (what = "org2" /\ slug = "nova-labs"),
         Due(d, r, S)
  PROVE  Due(UpsertOrg(d, r, slug), r, S \cup {Do(what)})
<1> DEFINE e == UpsertOrg(d, r, slug)
           U == S \cup {Do(what)}
<1>1. DOMAIN d = Tables /\ d.owners \in [Slug -> SUBSET {r.admin}] /\ d.orgs \subseteq Slug
  BY TablesAre DEF Due, OrgsDue
<1>2. /\ Differs(d, e, {"orgs", "owners"})
      /\ e.orgs = d.orgs \cup {slug}
      /\ e.owners = [d.owners EXCEPT ![slug] = @ \cup {r.admin}]
  BY <1>1 DEF UpsertOrg, Differs, Tables
<1>3. \A x : Do(what) = Do(x) => what = x
  BY Doings
<1> HIDE DEF e
<1>4. OrgsDue(e, r, U)
  BY <1>1, <1>2, <1>3 DEF Due, OrgsDue, Slug
<1>5. what \notin {"unique", "invoice"}
  OBVIOUS
<1> HIDE DEF U
<1>6. DeedKeeps(e, r, U, what, {"orgs", "owners"})
  BY <1>2, <1>5, DeedKept DEF U
<1>7. Due(e, r, U)
  BY <1>4, <1>6 DEF Due, DeedKeeps
<1> QED
  BY <1>7 DEF U, e

LEMMA CommitsStep ==
  ASSUME NEW d, NEW r, NEW S, Due(d, r, S)
  PROVE  Due(SeedCommits(d, r), r, S \cup {Do("commits")})
<1> DEFINE e == SeedCommits(d, r)
           U == S \cup {Do("commits")}
<1>1. Differs(d, e, {"commits"})
      /\ e.commits = d.commits \cup Drawn[r.day].commits
  <2>1. DOMAIN d = Tables
    BY TablesAre DEF Due
  <2> QED
    BY <2>1 DEF SeedCommits, Differs, Tables
<1>2. \A x : Do("commits") = Do(x) => "commits" = x
  BY Doings
<1> HIDE DEF e
<1>3. CommitsDue(e, r, U)
  BY <1>1, <1>2 DEF Due, CommitsDue, U
<1>4. /\ DOMAIN e = DOMAIN EmptyDb
      /\ OrgsDue(e, r, U) /\ UniqueDue(e, U) /\ CommitsDue(e, r, U) /\ PullsDue(e, r, U)
      /\ EstimatesDue(e, r, U) /\ GitIssuesDue(e, r, U) /\ KudosDue(e, U)
      /\ InvoicesDue(e, r, U) /\ DeploymentsDue(e, r, U) /\ LeaveDue(e, r, U)
  <2>1. "commits" \notin {"unique", "invoice"}
    OBVIOUS
  <2>2. DeedKeeps(e, r, U, "commits", {"commits"})
    BY <1>1, <2>1, DeedKept
  <2> QED
    BY <1>3, <2>2 DEF DeedKeeps
<1> HIDE DEF U
<1>5. Due(e, r, U)
  BY <1>4 DEF Due
<1> QED
  BY <1>5 DEF U, e

LEMMA IssuesStep ==
  ASSUME NEW d, NEW r, NEW S, Due(d, r, S)
  PROVE  Due(SeedIssues(d, r), r, S \cup {Do("issues")})
<1> DEFINE e == SeedIssues(d, r)
           U == S \cup {Do("issues")}
<1>1. Differs(d, e, {"gitIssues", "nativeIssues"})
      /\ e.gitIssues = d.gitIssues \cup IssuesIn(r)
  <2>1. DOMAIN d = Tables
    BY TablesAre DEF Due
  <2> QED
    BY <2>1 DEF SeedIssues, Differs, Tables, IssuesIn
<1>2. \A x : Do("issues") = Do(x) => "issues" = x
  BY Doings
<1> HIDE DEF e
<1>3. GitIssuesDue(e, r, U)
  BY <1>1, <1>2 DEF Due, GitIssuesDue, U
<1>4. /\ DOMAIN e = DOMAIN EmptyDb
      /\ OrgsDue(e, r, U) /\ UniqueDue(e, U) /\ CommitsDue(e, r, U) /\ PullsDue(e, r, U)
      /\ EstimatesDue(e, r, U) /\ GitIssuesDue(e, r, U) /\ KudosDue(e, U)
      /\ InvoicesDue(e, r, U) /\ DeploymentsDue(e, r, U) /\ LeaveDue(e, r, U)
  <2>1. "issues" \notin {"unique", "invoice"}
    OBVIOUS
  <2>2. DeedKeeps(e, r, U, "issues", {"gitIssues", "nativeIssues"})
    BY <1>1, <2>1, DeedKept
  <2> QED
    BY <1>3, <2>2 DEF DeedKeeps
<1> HIDE DEF U
<1>5. Due(e, r, U)
  BY <1>4 DEF Due
<1> QED
  BY <1>5 DEF U, e

LEMMA DeploymentsStep ==
  ASSUME NEW d, NEW r, NEW S, Due(d, r, S)
  PROVE  Due(SeedDeployments(d, r), r, S \cup {Do("deployments")})
<1> DEFINE e == SeedDeployments(d, r)
           U == S \cup {Do("deployments")}
<1>1. Differs(d, e, {"deployments"})
      /\ e.deployments = d.deployments \cup DeploymentsIn(r)
  <2>1. DOMAIN d = Tables
    BY TablesAre DEF Due
  <2> QED
    BY <2>1 DEF SeedDeployments, Differs, Tables, DeploymentsIn
<1>2. \A x : Do("deployments") = Do(x) => "deployments" = x
  BY Doings
<1> HIDE DEF e
<1>3. DeploymentsDue(e, r, U)
  BY <1>1, <1>2 DEF Due, DeploymentsDue, U
<1>4. /\ DOMAIN e = DOMAIN EmptyDb
      /\ OrgsDue(e, r, U) /\ UniqueDue(e, U) /\ CommitsDue(e, r, U) /\ PullsDue(e, r, U)
      /\ EstimatesDue(e, r, U) /\ GitIssuesDue(e, r, U) /\ KudosDue(e, U)
      /\ InvoicesDue(e, r, U) /\ DeploymentsDue(e, r, U) /\ LeaveDue(e, r, U)
  <2>1. "deployments" \notin {"unique", "invoice"}
    OBVIOUS
  <2>2. DeedKeeps(e, r, U, "deployments", {"deployments"})
    BY <1>1, <2>1, DeedKept
  <2> QED
    BY <1>3, <2>2 DEF DeedKeeps
<1> HIDE DEF U
<1>5. Due(e, r, U)
  BY <1>4 DEF Due
<1> QED
  BY <1>5 DEF U, e

LEMMA KudosStep ==
  ASSUME NEW d, NEW r, NEW S, Due(d, r, S)
  PROVE  Due(SeedKudos(d), r, S \cup {Do("kudos")})
<1> DEFINE e == SeedKudos(d)
           U == S \cup {Do("kudos")}
<1>1. Differs(d, e, {"kudos"})
      /\ e.kudos = 1 /\ e.channels = d.channels
  <2>1. DOMAIN d = Tables
    BY TablesAre DEF Due
  <2> QED
    BY <2>1 DEF SeedKudos, Differs, Tables
<1>2. \A x : Do("kudos") = Do(x) => "kudos" = x
  BY Doings
<1> HIDE DEF e
<1>3. KudosDue(e, U)
  BY <1>1, <1>2 DEF Due, KudosDue, U
<1>4. /\ DOMAIN e = DOMAIN EmptyDb
      /\ OrgsDue(e, r, U) /\ UniqueDue(e, U) /\ CommitsDue(e, r, U) /\ PullsDue(e, r, U)
      /\ EstimatesDue(e, r, U) /\ GitIssuesDue(e, r, U) /\ KudosDue(e, U)
      /\ InvoicesDue(e, r, U) /\ DeploymentsDue(e, r, U) /\ LeaveDue(e, r, U)
  <2>1. "kudos" \notin {"unique", "invoice"}
    OBVIOUS
  <2>2. DeedKeeps(e, r, U, "kudos", {"kudos"})
    BY <1>1, <2>1, DeedKept
  <2> QED
    BY <1>3, <2>2 DEF DeedKeeps
<1> HIDE DEF U
<1>5. Due(e, r, U)
  BY <1>4 DEF Due
<1> QED
  BY <1>5 DEF U, e

LEMMA ChannelsStep ==
  ASSUME NEW d, NEW r, NEW S, Due(d, r, S)
  PROVE  Due(SeedNotifications(d), r, S \cup {Do("notifications")})
<1> DEFINE e == SeedNotifications(d)
           U == S \cup {Do("notifications")}
<1>1. Differs(d, e, {"channels"})
      /\ e.channels = 1 /\ e.kudos = d.kudos
  <2>1. DOMAIN d = Tables
    BY TablesAre DEF Due
  <2> QED
    BY <2>1 DEF SeedNotifications, Differs, Tables
<1>2. \A x : Do("notifications") = Do(x) => "notifications" = x
  BY Doings
<1> HIDE DEF e
<1>3. KudosDue(e, U)
  BY <1>1, <1>2 DEF Due, KudosDue, U
<1>4. /\ DOMAIN e = DOMAIN EmptyDb
      /\ OrgsDue(e, r, U) /\ UniqueDue(e, U) /\ CommitsDue(e, r, U) /\ PullsDue(e, r, U)
      /\ EstimatesDue(e, r, U) /\ GitIssuesDue(e, r, U) /\ KudosDue(e, U)
      /\ InvoicesDue(e, r, U) /\ DeploymentsDue(e, r, U) /\ LeaveDue(e, r, U)
  <2>1. "notifications" \notin {"unique", "invoice"}
    OBVIOUS
  <2>2. DeedKeeps(e, r, U, "notifications", {"channels"})
    BY <1>1, <2>1, DeedKept
  <2> QED
    BY <1>3, <2>2 DEF DeedKeeps
<1> HIDE DEF U
<1>5. Due(e, r, U)
  BY <1>4 DEF Due
<1> QED
  BY <1>5 DEF U, e

LEMMA AwayStep ==
  ASSUME NEW d, NEW r, NEW S, Due(d, r, S)
  PROVE  Due(SeedLeave(d, r), r, S \cup {Do("leave")})
<1> DEFINE e == SeedLeave(d, r)
           U == S \cup {Do("leave")}
<1>1. Differs(d, e, {"approved", "pending"})
      /\ e.approved = Drawn[r.day].approved
      /\ e.pending = Drawn[r.day].pending
      /\ e.used = d.used
  <2>1. DOMAIN d = Tables
    BY TablesAre DEF Due
  <2> QED
    BY <2>1 DEF SeedLeave, Differs, Tables
<1>2. \A x : Do("leave") = Do(x) => "leave" = x
  BY Doings
<1> HIDE DEF e
<1>3. LeaveDue(e, r, U)
  BY <1>1, <1>2 DEF Due, LeaveDue, U
<1>4. /\ DOMAIN e = DOMAIN EmptyDb
      /\ OrgsDue(e, r, U) /\ UniqueDue(e, U) /\ CommitsDue(e, r, U) /\ PullsDue(e, r, U)
      /\ EstimatesDue(e, r, U) /\ GitIssuesDue(e, r, U) /\ KudosDue(e, U)
      /\ InvoicesDue(e, r, U) /\ DeploymentsDue(e, r, U) /\ LeaveDue(e, r, U)
  <2>1. "leave" \notin {"unique", "invoice"}
    OBVIOUS
  <2>2. DeedKeeps(e, r, U, "leave", {"approved", "pending"})
    BY <1>1, <2>1, DeedKept
  <2> QED
    BY <1>3, <2>2 DEF DeedKeeps
<1> HIDE DEF U
<1>5. Due(e, r, U)
  BY <1>4 DEF Due
<1> QED
  BY <1>5 DEF U, e

LEMMA PullsStep ==
  ASSUME NEW d, NEW r, NEW S, Due(d, r, S)
  PROVE  Due(SeedPullRequests(d, r), r, S \cup {Do("prs")})
<1> DEFINE e == SeedPullRequests(d, r)
           U == S \cup {Do("prs")}
<1>1. Differs(d, e, {"prs"})
      /\ e.prs = [k \in SeedRow |-> IF k \in RowsOfRun(r) THEN PRDrawn(r, k).merged
                                  ELSE d.prs[k]]
  <2>1. DOMAIN d = Tables
    BY TablesAre DEF Due
  <2> QED
    BY <2>1 DEF SeedPullRequests, Differs, Tables
<1>2. \A x : Do("prs") = Do(x) => "prs" = x
  BY Doings
<1> HIDE DEF e
<1>3. PullsDue(e, r, U)
  <2>1. \A k \in SeedRow : d.prs[k] \in {-1, MergedIn(r, k)}
    BY DEF Due, PullsDue
  <2>2. \A k \in SeedRow : e.prs[k] = MergedIn(r, k)
    BY <1>1, <2>1 DEF MergedIn
  <2>3. e.prs = [k \in SeedRow |-> e.prs[k]]
    BY <1>1
  <2> QED
    BY <2>2, <2>3 DEF PullsDue
<1>4. /\ DOMAIN e = DOMAIN EmptyDb
      /\ OrgsDue(e, r, U) /\ UniqueDue(e, U) /\ CommitsDue(e, r, U) /\ PullsDue(e, r, U)
      /\ EstimatesDue(e, r, U) /\ GitIssuesDue(e, r, U) /\ KudosDue(e, U)
      /\ InvoicesDue(e, r, U) /\ DeploymentsDue(e, r, U) /\ LeaveDue(e, r, U)
  <2>1. "prs" \notin {"unique", "invoice"}
    OBVIOUS
  <2>2. DeedKeeps(e, r, U, "prs", {"prs"})
    BY <1>1, <2>1, DeedKept
  <2> QED
    BY <1>3, <2>2 DEF DeedKeeps
<1> HIDE DEF U
<1>5. Due(e, r, U)
  BY <1>4 DEF Due
<1> QED
  BY <1>5 DEF U, e

LEMMA EstimatesStep ==
  ASSUME NEW d, NEW r, NEW S, Due(d, r, S)
  PROVE  Due(SeedEstimates(d, r), r, S \cup {Do("estimates")})
<1> DEFINE e == SeedEstimates(d, r)
           U == S \cup {Do("estimates")}
<1>1. Differs(d, e, {"estimates"})
      /\ e.estimates = [k \in SeedRow |-> IF EstimatedIn(r, k) THEN Append(d.estimates[k], OfSeed)
                                        ELSE d.estimates[k]]
  <2>1. DOMAIN d = Tables
    BY TablesAre DEF Due
  <2> QED
    BY <2>1 DEF SeedEstimates, Differs, Tables, EstimatedIn
<1>2. \A x : Do("estimates") = Do(x) => "estimates" = x
  BY Doings
<1> HIDE DEF e
<1>3. EstimatesDue(e, r, U)
  <2>1. /\ d.estimates \in [SeedRow -> Seq({OfSeed})]
        /\ \A k \in SeedRow : d.estimates[k] # <<>> => EstimatedIn(r, k)
    BY DEF Due, EstimatesDue
  <2>2. \A q \in Seq({OfSeed}) : Append(q, OfSeed) \in Seq({OfSeed}) /\ Append(q, OfSeed) # <<>>
    <3> TAKE q \in Seq({OfSeed})
    <3>1. Append(q, OfSeed) \in Seq({OfSeed})
      OBVIOUS
    <3>2. Len(Append(q, OfSeed)) = Len(q) + 1 /\ Len(q) \in Nat
      OBVIOUS
    <3>3. Len(<<>>) = 0
      OBVIOUS
    <3> QED
      BY <3>1, <3>2, <3>3
  <2>3. e.estimates \in [SeedRow -> Seq({OfSeed})]
    BY <1>1, <2>1, <2>2
  <2>4. \A k \in SeedRow : EstimatedIn(r, k) <=> e.estimates[k] # <<>>
    BY <1>1, <2>1, <2>2
  <2> QED
    BY <2>3, <2>4 DEF EstimatesDue
<1>4. /\ DOMAIN e = DOMAIN EmptyDb
      /\ OrgsDue(e, r, U) /\ UniqueDue(e, U) /\ CommitsDue(e, r, U) /\ PullsDue(e, r, U)
      /\ EstimatesDue(e, r, U) /\ GitIssuesDue(e, r, U) /\ KudosDue(e, U)
      /\ InvoicesDue(e, r, U) /\ DeploymentsDue(e, r, U) /\ LeaveDue(e, r, U)
  <2>1. "estimates" \notin {"unique", "invoice"}
    OBVIOUS
  <2>2. DeedKeeps(e, r, U, "estimates", {"estimates"})
    BY <1>1, <2>1, DeedKept
  <2> QED
    BY <1>3, <2>2 DEF DeedKeeps
<1> HIDE DEF U
<1>5. Due(e, r, U)
  BY <1>4 DEF Due
<1> QED
  BY <1>5 DEF U, e

LEMMA BalancesStep ==
  ASSUME NEW d, NEW r, NEW S, Due(d, r, S), Do("leave") \in S
  PROVE  Due(SeedLeaveBalances(d, r), r, S \cup {Do("balances")})
<1> DEFINE e == SeedLeaveBalances(d, r)
           U == S \cup {Do("balances")}
<1>1. /\ Differs(d, e, {"used"})
      /\ e.used = [b \in LeaveBalance |->
                     IF b[2] = Drawn[r.day].year THEN d.approved[b] ELSE d.used[b]]
      /\ e.approved = d.approved /\ e.pending = d.pending
  <2>1. DOMAIN d = Tables
    BY TablesAre DEF Due
  <2> QED
    BY <2>1 DEF SeedLeaveBalances, Differs, Tables
<1>2. \A x : Do("balances") = Do(x) => "balances" = x
  BY Doings
<1> HIDE DEF e
<1>3. d.approved = Drawn[r.day].approved /\ d.used \in {Uncounted, UsedIn(r)}
  BY DEF Due, LeaveDue
<1>4. e.used = UsedIn(r)
  <2>1. \A b \in LeaveBalance : b[2] # Drawn[r.day].year => d.used[b] = -1
    BY <1>3 DEF Uncounted, UsedIn
  <2> QED
    BY <1>1, <1>3, <2>1 DEF UsedIn
<1>5. LeaveDue(e, r, U)
  BY <1>1, <1>2, <1>4 DEF Due, LeaveDue, U
<1>6. DeedKeeps(e, r, U, "balances", {"used"})
  <2>1. "balances" \notin {"unique", "invoice"}
    OBVIOUS
  <2> QED
    BY <1>1, <2>1, DeedKept DEF U
<1> HIDE DEF U
<1>7. Due(e, r, U)
  BY <1>5, <1>6 DEF Due, DeedKeeps
<1> QED
  BY <1>7 DEF U, e

LEMMA FixedStep ==
  ASSUME NEW d, NEW r, NEW S, NEW name \in FixedNames, Due(d, r, S)
  PROVE  Due(Keyed(d, name), r, S \cup {Fixed(name)})
<1> DEFINE e == Keyed(d, name)
           s == Fixed(name)
           U == S \cup {s}
<1>1. /\ Differs(d, e, {"unique"})
      /\ e.unique = d.unique \cup {name}
  <2>1. DOMAIN d = Tables
    BY TablesAre DEF Due
  <2> QED
    BY <2>1 DEF Keyed, Differs, Tables
<1>2. s.do = "unique" /\ s.name = name /\ \A x : Fixed(x).name = x
  BY Doings
<1>3. \A x : x # "unique" => s # Do(x)
  BY <1>2, Doings
<1>4. \A w : s # Invoice(w)
  BY <1>2, Doings
<1> HIDE DEF e, s
<1>5. UniqueDue(e, U)
  <2>1. \A x : Fixed(x) \in U => Fixed(x) \in S \/ x = name
    BY <1>2
  <2> QED
    BY <1>1, <2>1 DEF Due, UniqueDue
<1>6. Kept(e, r, U, s, {"unique"})
  BY <1>1, StaysDue
<1> HIDE DEF U
<1>7. Due(e, r, U)
  BY <1>3, <1>4, <1>5, <1>6 DEF Due, Kept
<1> QED
  BY <1>7 DEF U, e, s

\* What is gathered for a window once the pull requests and their estimates are in.
LEMMA GathersDelivered ==
  ASSUME NEW d, NEW r, NEW S, Due(d, r, S), Do("prs") \in S, Do("estimates") \in S
  PROVE  /\ \A w : GatherLines(d, w) = LinesIn(r, w)
         /\ \A w : Invoiced(d, w) = {v \in Delivered(r) : v <= w}
<1>1. \A k \in SeedRow : d.prs[k] = MergedIn(r, k)
  BY DEF Due, PullsDue
<1>2. ASSUME NEW k \in SeedRow
      PROVE  Difficulty(d, k) = IF EstimatedIn(r, k) THEN OfSeed ELSE Baseline
  <2>1. d.estimates[k] \in Seq({OfSeed}) /\ (d.estimates[k] # <<>> <=> EstimatedIn(r, k))
    BY DEF Due, EstimatesDue
  <2>2. \A q \in Seq({OfSeed}) : q # <<>> => Last(q) = OfSeed
    BY DEF Last
  <2> QED
    BY <2>1, <2>2 DEF Difficulty
<1>3. \A w : GatherLines(d, w) = LinesIn(r, w)
  <2> TAKE w
  <2>1. {k \in SeedRow : d.prs[k] = w} = {k \in SeedRow : MergedIn(r, k) = w}
    BY <1>1
  <2>2. [k \in SeedRow |-> Difficulty(d, k)] =
        [k \in SeedRow |-> IF EstimatedIn(r, k) THEN OfSeed ELSE Baseline]
    BY <1>2
  <2> QED
    BY <2>1, <2>2 DEF GatherLines, LinesIn
<1> QED
  BY <1>3 DEF Invoiced, Delivered

\* An invoice is written at the number of its window, which no other window has.
LEMMA InvoiceStep ==
  ASSUME NEW d, NEW r, NEW S, NEW w \in Window, Due(d, r, S),
         Do("prs") \in S, Do("estimates") \in S
  PROVE  Due(SeedInvoice(d, w), r, S \cup {Invoice(w)})
<1> DEFINE e == SeedInvoice(d, w)
           s == Invoice(w)
           U == S \cup {s}
           m == NumberIn(r, w)
           lines == LinesIn(r, w)
<1>1. DOMAIN d = Tables
  BY TablesAre DEF Due
<1>2. s.do = "invoice" /\ s.window = w /\ \A x : Invoice(x).window = x
  BY Doings
<1>3. \A x : x # "invoice" => s # Do(x)
  BY <1>2, Doings
<1>4. \A x : s # Fixed(x)
  <2> TAKE x
  <2>1. Fixed(x).do = "unique"
    BY Doings
  <2> QED
    BY <1>2, <2>1
<1>5. \A v : Invoice(v) \in U => Invoice(v) \in S \/ v = w
  BY <1>2
<1>6. GatherLines(d, w) = lines
  BY GathersDelivered
<1>7. Cardinality(Invoiced(d, w)) = m
  <2>1. Invoiced(d, w) = {v \in Delivered(r) : v <= w}
    BY GathersDelivered
  <2> QED
    BY <2>1 DEF NumberIn
<1> HIDE DEF s, m, lines
<1>8. CASE lines = <<>>
  <2>1. e = d
    BY <1>6, <1>8 DEF SeedInvoice
  <2>2. w \notin Delivered(r)
    BY <1>8 DEF Delivered, lines
  <2> HIDE DEF e
  <2>3. Differs(d, e, {})
    BY <2>1 DEF Differs
  <2>4. Kept(e, r, U, s, {})
    BY <2>3, StaysDue
  <2>5. InvoicesDue(e, r, U)
    BY <2>1, <2>2, <1>5 DEF Due, InvoicesDue
  <2> HIDE DEF U
  <2>6. Due(e, r, U)
    BY <1>3, <1>4, <2>4, <2>5 DEF Due, Kept
  <2> QED
    BY <2>6 DEF U, e, s
<1>9. CASE lines # <<>>
  <2>1. w \in Delivered(r)
    BY <1>9 DEF Delivered, lines
  <2>2. m \in DemoNumber /\ \A v \in Delivered(r) : NumberIn(r, v) = m => v = w
    BY <2>1, NumbersDiffer DEF m
  <2>3. e = WriteInvoice(d, m, w, lines)
    BY <1>6, <1>7, <1>9 DEF SeedInvoice
  <2> HIDE DEF e
  <2>4. /\ Differs(d, e, {"invoices", "total", "lines"})
        /\ e.invoices = [d.invoices EXCEPT ![m] = w]
        /\ e.total = [d.total EXCEPT ![m] = LinesTotal(lines)]
        /\ e.lines = [d.lines EXCEPT ![m] = lines]
    BY <1>1, <2>3 DEF WriteInvoice, Differs, Tables
  <2>5. Kept(e, r, U, s, {"invoices", "total", "lines"})
    BY <2>4, StaysDue
  <2>6. InvoicesDue(e, r, U)
    <3>1. /\ d.invoices = [n \in DemoNumber |-> d.invoices[n]]
          /\ d.total = [n \in DemoNumber |-> d.total[n]]
          /\ d.lines = [n \in DemoNumber |-> d.lines[n]]
      BY DEF Due, InvoicesDue
    <3>2. /\ e.invoices = [n \in DemoNumber |-> IF n = m THEN w ELSE d.invoices[n]]
          /\ e.total = [n \in DemoNumber |-> IF n = m THEN LinesTotal(lines) ELSE d.total[n]]
          /\ e.lines = [n \in DemoNumber |-> IF n = m THEN lines ELSE d.lines[n]]
      BY <2>4, <3>1
    <3>3. Numbered(e, r, m, w)
      BY <2>2, <3>2 DEF Numbered, lines
    <3>4. ASSUME NEW n \in DemoNumber
          PROVE  \/ Unnumbered(e, n)
                 \/ \E v \in Delivered(r) : NumberIn(r, v) = n /\ Numbered(e, r, n, v)
      <4>1. CASE n = m
        BY <4>1, <3>3, <2>1 DEF m
      <4>2. CASE n # m
        <5>1. \/ Unnumbered(d, n)
              \/ \E v \in Delivered(r) : NumberIn(r, v) = n /\ Numbered(d, r, n, v)
          BY DEF Due, InvoicesDue
        <5>2. /\ e.invoices[n] = d.invoices[n] /\ e.total[n] = d.total[n]
              /\ e.lines[n] = d.lines[n]
          BY <3>2, <4>2
        <5> QED
          BY <5>1, <5>2 DEF Unnumbered, Numbered
      <4> QED
        BY <4>1, <4>2
    <3>5. ASSUME NEW v \in Delivered(r), Invoice(v) \in U
          PROVE  e.invoices[NumberIn(r, v)] = v
      <4>1. CASE v = w
        BY <4>1, <3>2, <2>2 DEF m
      <4>2. CASE v # w
        <5>1. Invoice(v) \in S
          BY <3>5, <4>2, <1>5
        <5>2. NumberIn(r, v) # m /\ NumberIn(r, v) \in DemoNumber
          BY <4>2, <2>2, NumbersDiffer
        <5>3. d.invoices[NumberIn(r, v)] = v
          BY <5>1 DEF Due, InvoicesDue
        <5> QED
          BY <5>2, <5>3, <3>2
      <4> QED
        BY <4>1, <4>2
    <3>6. /\ e.invoices = [n \in DemoNumber |-> e.invoices[n]]
          /\ e.total = [n \in DemoNumber |-> e.total[n]]
          /\ e.lines = [n \in DemoNumber |-> e.lines[n]]
      BY <3>2
    <3> HIDE DEF U
    <3> QED
      BY <3>4, <3>5, <3>6 DEF InvoicesDue
  <2> HIDE DEF U
  <2>7. Due(e, r, U)
    BY <1>3, <1>4, <2>5, <2>6 DEF Due, Kept
  <2> QED
    BY <2>7 DEF U, e, s
<1> QED
  BY <1>8, <1>9

\* What each of the sections does.
SectionsDo(d, r) ==
  /\ AfterSection(d, Do("wipe"), r) = IF r.reset THEN EmptyDb ELSE d
  /\ AfterSection(d, Do("org"), r) = UpsertOrg(d, r, "acme-dev")
  /\ AfterSection(d, Do("org2"), r) = UpsertOrg(d, r, "nova-labs")
  /\ AfterSection(d, Do("projects"), r) = UpsertProject(d)
  /\ AfterSection(d, Do("commits"), r) = SeedCommits(d, r)
  /\ AfterSection(d, Do("prs"), r) = SeedPullRequests(d, r)
  /\ AfterSection(d, Do("cycles"), r) = SeedCycleTimes(d, r)
  /\ AfterSection(d, Do("estimates"), r) = SeedEstimates(d, r)
  /\ AfterSection(d, Do("issues"), r) = SeedIssues(d, r)
  /\ AfterSection(d, Do("involvement"), r) = SeedInvolvement(d)
  /\ AfterSection(d, Do("kudos"), r) = SeedKudos(d)
  /\ AfterSection(d, Do("deployments"), r) = SeedDeployments(d, r)
  /\ AfterSection(d, Do("incidents"), r) = SeedIncidents(d, r)
  /\ AfterSection(d, Do("availability"), r) = SeedAvailability(d)
  /\ AfterSection(d, Do("leave"), r) = SeedLeave(d, r)
  /\ AfterSection(d, Do("balances"), r) = SeedLeaveBalances(d, r)
  /\ AfterSection(d, Do("time"), r) = SeedTimeEntries(d)
  /\ AfterSection(d, Do("notifications"), r) = SeedNotifications(d)

LEMMA SectionDoes ==
  ASSUME NEW d, NEW r
  PROVE  SectionsDo(d, r)
BY DEF SectionsDo, AfterSection, Do, WipeDemo

LEMMA FixedDoes ==
  ASSUME NEW d, NEW r, NEW name
  PROVE  AfterSection(d, Fixed(name), r) = Keyed(d, name)
BY DEF AfterSection, Fixed

LEMMA InvoiceDoes ==
  ASSUME NEW d, NEW r, NEW w
  PROVE  AfterSection(d, Invoice(w), r) = SeedInvoice(d, w)
BY DEF AfterSection, Invoice

LEMMA PilesStep ==
  ASSUME NEW d, NEW r, NEW S, Due(d, r, S)
  PROVE  /\ Due(UpsertProject(d), r, S \cup {Do("projects")})
         /\ Due(SeedCycleTimes(d, r), r, S \cup {Do("cycles")})
         /\ Due(SeedIncidents(d, r), r, S \cup {Do("incidents")})
         /\ Due(SeedAvailability(d), r, S \cup {Do("availability")})
         /\ Due(SeedTimeEntries(d), r, S \cup {Do("time")})
         /\ Due(SeedInvolvement(d), r, S \cup {Do("involvement")})
<1>1. DOMAIN d = Tables
  BY TablesAre DEF Due
<1>2. Due(UpsertProject(d), r, S \cup {Do("projects")})
  <2> DEFINE e == UpsertProject(d)
  <2>1. Differs(d, e, {"projects"})
    BY <1>1 DEF UpsertProject, Differs, Tables
  <2> HIDE DEF e
  <2> QED
    BY <2>1, PilesDue DEF e
<1>3. Due(SeedCycleTimes(d, r), r, S \cup {Do("cycles")})
  <2> DEFINE e == SeedCycleTimes(d, r)
  <2>1. Differs(d, e, {"cycles"})
    BY <1>1 DEF SeedCycleTimes, Differs, Tables
  <2> HIDE DEF e
  <2> QED
    BY <2>1, PilesDue DEF e
<1>4. Due(SeedIncidents(d, r), r, S \cup {Do("incidents")})
  <2> DEFINE e == SeedIncidents(d, r)
  <2>1. Differs(d, e, {"incidents"})
    BY <1>1 DEF SeedIncidents, Differs, Tables
  <2> HIDE DEF e
  <2> QED
    BY <2>1, PilesDue DEF e
<1>5. Due(SeedAvailability(d), r, S \cup {Do("availability")})
  <2> DEFINE e == SeedAvailability(d)
  <2>1. Differs(d, e, {"availability"})
    BY <1>1 DEF SeedAvailability, Differs, Tables
  <2> HIDE DEF e
  <2> QED
    BY <2>1, PilesDue DEF e
<1>6. Due(SeedTimeEntries(d), r, S \cup {Do("time")})
  <2> DEFINE e == SeedTimeEntries(d)
  <2>1. Differs(d, e, {"timeEntries"})
    BY <1>1 DEF SeedTimeEntries, Differs, Tables
  <2> HIDE DEF e
  <2> QED
    BY <2>1, PilesDue DEF e
<1>7. Due(SeedInvolvement(d), r, S \cup {Do("involvement")})
  <2> DEFINE e == SeedInvolvement(d)
  <2>1. Differs(d, e, {"involvement"})
    BY <1>1 DEF SeedInvolvement, Differs, Tables
  <2> HIDE DEF e
  <2> QED
    BY <2>1, PilesDue DEF e
<1> QED
  BY <1>2, <1>3, <1>4, <1>5, <1>6, <1>7

LEMMA DeedStep ==
  ASSUME NEW d, NEW r, NEW S, NEW what \in Deeds \ {"balances"}, Due(d, r, S)
  PROVE  Due(AfterSection(d, Do(what), r), r, S \cup {Do(what)})
<1>0. SectionsDo(d, r)
  BY SectionDoes
<1>1. \/ what \in {"org", "org2"}
      \/ what \in {"projects", "involvement", "cycles", "incidents", "availability", "time"}
      \/ what \in {"commits", "prs", "estimates", "issues"}
      \/ what \in {"kudos", "deployments", "leave", "notifications"}
  BY DEF Deeds
<1>2. CASE what \in {"org", "org2"}
  <2> DEFINE slug == IF what = "org" THEN "acme-dev" ELSE "nova-labs"
  <2>1. (what = "org" /\ slug = "acme-dev") \/ (what = "org2" /\ slug = "nova-labs")
    BY <1>2
  <2>2. AfterSection(d, Do(what), r) = UpsertOrg(d, r, slug)
    <3>1. CASE what = "org"
      BY <3>1, <1>0 DEF SectionsDo
    <3>2. CASE what = "org2"
      BY <3>2, <1>0 DEF SectionsDo
    <3> QED
      BY <1>2, <3>1, <3>2
  <2> HIDE DEF slug
  <2> QED
    BY <2>1, <2>2, OrgStep
<1>3. CASE what \in {"projects", "involvement", "cycles", "incidents", "availability", "time"}
  <2>0. /\ Due(UpsertProject(d), r, S \cup {Do("projects")})
        /\ Due(SeedCycleTimes(d, r), r, S \cup {Do("cycles")})
        /\ Due(SeedIncidents(d, r), r, S \cup {Do("incidents")})
        /\ Due(SeedAvailability(d), r, S \cup {Do("availability")})
        /\ Due(SeedTimeEntries(d), r, S \cup {Do("time")})
        /\ Due(SeedInvolvement(d), r, S \cup {Do("involvement")})
    BY PilesStep
  <2>1. CASE what = "projects"
    BY <2>1, <2>0, <1>0 DEF SectionsDo
  <2>2. CASE what = "cycles"
    BY <2>2, <2>0, <1>0 DEF SectionsDo
  <2>3. CASE what = "incidents"
    BY <2>3, <2>0, <1>0 DEF SectionsDo
  <2>4. CASE what = "availability"
    BY <2>4, <2>0, <1>0 DEF SectionsDo
  <2>5. CASE what = "time"
    BY <2>5, <2>0, <1>0 DEF SectionsDo
  <2>6. CASE what = "involvement"
    BY <2>6, <2>0, <1>0 DEF SectionsDo
  <2> QED
    BY <1>3, <2>1, <2>2, <2>3, <2>4, <2>5, <2>6
<1>4. CASE what \in {"commits", "prs", "estimates", "issues"}
  <2>1. CASE what = "commits"
    BY <2>1, CommitsStep, <1>0 DEF SectionsDo
  <2>2. CASE what = "prs"
    BY <2>2, PullsStep, <1>0 DEF SectionsDo
  <2>3. CASE what = "estimates"
    BY <2>3, EstimatesStep, <1>0 DEF SectionsDo
  <2>4. CASE what = "issues"
    BY <2>4, IssuesStep, <1>0 DEF SectionsDo
  <2> QED
    BY <1>4, <2>1, <2>2, <2>3, <2>4
<1>5. CASE what \in {"kudos", "deployments", "leave", "notifications"}
  <2>1. CASE what = "kudos"
    BY <2>1, KudosStep, <1>0 DEF SectionsDo
  <2>2. CASE what = "deployments"
    BY <2>2, DeploymentsStep, <1>0 DEF SectionsDo
  <2>3. CASE what = "leave"
    BY <2>3, AwayStep, <1>0 DEF SectionsDo
  <2>4. CASE what = "notifications"
    BY <2>4, ChannelsStep, <1>0 DEF SectionsDo
  <2> QED
    BY <1>5, <2>1, <2>2, <2>3, <2>4
<1> QED
  BY <1>1, <1>2, <1>3, <1>4, <1>5

\* A section brings what is due of it, after those before it.
LEMMA SectionDue ==
  ASSUME NEW d, NEW r \in Run, NEW n \in 0 .. 26 + Windows, Due(d, r, Passed(n))
  PROVE  Due(AfterSection(d, Sections[n + 1], r), r, Passed(n + 1))
<1> DEFINE s == Sections[n + 1]
           S == Passed(n)
<1>1. Passed(n + 1) = S \cup {s}
  BY PassedGrows
<1>2. n + 1 \in 1 .. 27 + Windows /\ n \in 0 .. 27 + Windows
  BY WindowCounts
<1>3. \/ n + 1 = 1 /\ s = Do("wipe")
      \/ \E what \in Deeds : s = Do(what) /\ what # "balances"
      \/ n + 1 = 24 + Windows /\ s = Do("balances")
      \/ \E name \in FixedNames : s = Fixed(name)
      \/ \E w \in Window : s = Invoice(w) /\ n + 1 > 17
  BY <1>2, SectionAt
<1>4. /\ n >= 17 => Do("prs") \in S /\ Do("estimates") \in S
      /\ n >= 23 + Windows => Do("leave") \in S
  BY <1>2, PassedBefore
<1>5. n = 0 => S = {}
  BY NothingPassed
<1> HIDE DEF s, S
<1>6. CASE n + 1 = 1 /\ s = Do("wipe")
  <2>1. S = {}
    BY <1>5, <1>6
  <2> DEFINE e == AfterSection(d, s, r)
  <2>2. e = EmptyDb \/ e = d
    BY <1>6, SectionDoes DEF SectionsDo
  <2>3. Due(e, r, S)
    BY <2>1, <2>2, NothingDue DEF S
  <2>4. Differs(e, e, {})
    BY DEF Differs
  <2> HIDE DEF e
  <2>5. Due(e, r, S \cup {Do("wipe")})
    BY <2>3, <2>4, PilesDue
  <2> QED
    BY <2>5, <1>1, <1>6 DEF e, s
<1>7. ASSUME NEW what \in Deeds, s = Do(what), what # "balances"
      PROVE  Due(AfterSection(d, s, r), r, S \cup {s})
  BY <1>7, DeedStep DEF S
<1>8. CASE n + 1 = 24 + Windows /\ s = Do("balances")
  <2>1. Do("leave") \in S
    BY <1>4, <1>8, WindowCounts
  <2> QED
    BY <1>1, <1>8, <2>1, BalancesStep, SectionDoes DEF S, s, SectionsDo
<1>9. ASSUME NEW name \in FixedNames, s = Fixed(name)
      PROVE  Due(AfterSection(d, s, r), r, S \cup {s})
  BY <1>9, FixedStep, FixedDoes DEF S
<1>10. ASSUME NEW w \in Window, s = Invoice(w), n + 1 > 17
       PROVE  Due(AfterSection(d, s, r), r, S \cup {s})
  <2>1. Do("prs") \in S /\ Do("estimates") \in S
    BY <1>4, <1>10
  <2>2. AfterSection(d, s, r) = SeedInvoice(d, w)
    BY <1>10, InvoiceDoes
  <2> QED
    BY <1>10, <2>1, <2>2, InvoiceStep DEF S
<1> QED
  BY <1>1, <1>3, <1>6, <1>7, <1>8, <1>9, <1>10 DEF s

\* A run on an empty database, section by section, is defined.
LEMMA AfterUnfolds ==
  ASSUME NEW r
  PROVE  /\ RowsAfter(r)[0] = EmptyDb
         /\ \A n \in 0 .. 26 + Windows :
              RowsAfter(r)[n + 1] = AfterSection(RowsAfter(r)[n], Sections[n + 1], r)
<1> DEFINE N == 27 + Windows
           Runs(f, k) == f = [i \in 0 .. k |-> IF i = 0 THEN EmptyDb
                                               ELSE AfterSection(f[i - 1], Sections[i], r)]
           Bad == {k \in 0 .. N : ~\E f : Runs(f, k)}
<1>1. N \in Nat
  BY WindowCounts
<1> HIDE DEF N
<1>2. Bad = {}
  <2> SUFFICES ASSUME Bad # {} PROVE FALSE
    OBVIOUS
  <2>1. PICK k \in Bad : \A n \in Bad : k <= n
    BY <1>1, LeastNatural, Bad \in SUBSET Nat
  <2>2. k # 0
    <3>1. Runs([i \in 0 .. 0 |-> EmptyDb], 0)
      OBVIOUS
    <3> HIDE DEF Runs
    <3> QED
      BY <2>1, <3>1
  <2>3. k - 1 \in 0 .. N /\ k - 1 \notin Bad /\ k \in 1 .. N
    <3>1. k \in 0 .. N
      BY <2>1
    <3> HIDE DEF Bad
    <3> QED
      BY <2>1, <2>2, <3>1, <1>1
  <2>4. PICK f : Runs(f, k - 1)
    BY <2>3
  <2> DEFINE g == [i \in 0 .. k |-> IF i = k THEN AfterSection(f[k - 1], Sections[k], r) ELSE f[i]]
  <2>5. Runs(g, k)
    <3>1. \A i \in 0 .. k : i # k => i \in 0 .. k - 1 /\ g[i] = f[i]
      BY <2>3
    <3>2. g[k] = AfterSection(f[k - 1], Sections[k], r)
      BY <2>3
    <3>3. \A i \in 1 .. k : g[i - 1] = f[i - 1]
      BY <2>3
    <3>4. \A i \in 0 .. k - 1 :
            f[i] = IF i = 0 THEN EmptyDb ELSE AfterSection(f[i - 1], Sections[i], r)
      BY <2>4
    <3>5. ASSUME NEW i \in 0 .. k
          PROVE  g[i] = IF i = 0 THEN EmptyDb ELSE AfterSection(g[i - 1], Sections[i], r)
      <4>1. CASE i = k
        BY <4>1, <3>2, <3>3, <2>3
      <4>2. CASE i # k
        <5>1. i # 0 => g[i - 1] = f[i - 1]
          BY <3>3
        <5> QED
          BY <4>2, <5>1, <3>1, <3>4
      <4> QED
        BY <4>1, <4>2
    <3>6. g = [i \in 0 .. k |-> g[i]]
      OBVIOUS
    <3> HIDE DEF g
    <3> QED
      BY <3>5, <3>6
  <2> QED
    BY <2>1, <2>5
<1>3. Len(Sections) = N
  BY SectionsAre DEF N
<1>4. \E f : Runs(f, N)
  <2>1. N \in 0 .. N
    BY <1>1
  <2> QED
    BY <1>2, <2>1
<1>5. Runs(RowsAfter(r), N)
  <2>1. RowsAfter(r) = CHOOSE f : Runs(f, N)
    BY <1>3 DEF RowsAfter
  <2> HIDE DEF Runs
  <2> QED
    BY <1>4, <2>1
<1>6. RowsAfter(r)[0] = EmptyDb
  BY <1>1, <1>5
<1>7. ASSUME NEW n \in 0 .. 26 + Windows
      PROVE  RowsAfter(r)[n + 1] = AfterSection(RowsAfter(r)[n], Sections[n + 1], r)
  <2>1. n + 1 \in 0 .. N /\ n + 1 # 0 /\ (n + 1) - 1 = n
    BY WindowCounts DEF N
  <2>2. \A i \in 0 .. N : i # 0 => RowsAfter(r)[i] = AfterSection(RowsAfter(r)[i - 1], Sections[i], r)
    BY <1>5
  <2> QED
    BY <2>1, <2>2
<1> QED
  BY <1>6, <1>7

\* So a run on an empty database brings all that is due.
LEMMA FreshIsDue ==
  ASSUME NEW r \in Run
  PROVE  Due(Fresh(r), r, Passed(27 + Windows))
<1> DEFINE N == 27 + Windows
           Bad == {k \in 0 .. N : ~Due(RowsAfter(r)[k], r, Passed(k))}
<1>1. N \in Nat
  BY WindowCounts
<1>2. Bad = {}
  <2> SUFFICES ASSUME Bad # {} PROVE FALSE
    OBVIOUS
  <2>1. PICK k \in Bad : \A n \in Bad : k <= n
    BY <1>1, LeastNatural, Bad \in SUBSET Nat
  <2>2. k # 0
    BY <2>1, AfterUnfolds, NothingDue, NothingPassed
  <2>3. k - 1 \in 0 .. 26 + Windows /\ k - 1 \notin Bad /\ k - 1 \in 0 .. N /\ (k - 1) + 1 = k
    <3>1. k \in 0 .. N
      BY <2>1
    <3>2. k - 1 \in 0 .. 26 + Windows /\ k - 1 \in 0 .. N /\ (k - 1) + 1 = k
      BY <2>2, <3>1, WindowCounts
    <3> HIDE DEF Bad
    <3> QED
      BY <2>1, <3>1, <3>2, WindowCounts
  <2>4. Due(RowsAfter(r)[k - 1], r, Passed(k - 1))
    BY <2>3
  <2>5. Due(AfterSection(RowsAfter(r)[k - 1], Sections[(k - 1) + 1], r), r, Passed((k - 1) + 1))
    BY <2>3, <2>4, SectionDue
  <2>6. RowsAfter(r)[(k - 1) + 1] = AfterSection(RowsAfter(r)[k - 1], Sections[(k - 1) + 1], r)
    BY <2>3, AfterUnfolds
  <2>7. Due(RowsAfter(r)[(k - 1) + 1], r, Passed((k - 1) + 1))
    BY <2>5, <2>6
  <2>8. Due(RowsAfter(r)[k], r, Passed(k))
    BY <2>3, <2>7
  <2> QED
    BY <2>1, <2>8
<1>3. N \in 0 .. N
  BY <1>1
<1>4. Fresh(r) = RowsAfter(r)[N]
  BY SectionsAre DEF Fresh
<1> QED
  BY <1>2, <1>3, <1>4

-----------------------------------------------------------------------------
\* The runs since the wipe were of r's day and administrator.
Alike(r) == \A q \in since : q.day = r.day /\ q.admin = r.admin

\* A run that has begun to write: it runs, or it was the last one and completed.
Begun == seeding \in {"running", "done"} /\ at > 0

\* The rows of any database the commands and people leave.
RowsOK(d) ==
  /\ DOMAIN d = DOMAIN EmptyDb
  /\ d.orgs \subseteq Slug
  /\ d.prs \in [SeedRow -> {-1, 0} \cup Window]
  /\ d.invoices \in [DemoNumber -> {0} \cup Window]
  /\ d.total = [n \in DemoNumber |-> d.total[n]]
  /\ d.lines = [n \in DemoNumber |-> d.lines[n]]
  /\ \A n \in DemoNumber : d.total[n] = LinesTotal(d.lines[n])
  /\ d.approved = [b \in LeaveBalance |-> d.approved[b]]
  /\ d.used = [b \in LeaveBalance |-> d.used[b]]

ProgressOK ==
  /\ run \in Run /\ since \subseteq Run /\ lived \in BOOLEAN /\ seeds \in 0 .. MaxSeeds
  /\ seeding \in {"idle", "running", "failed", "done"}
  /\ at \in 0 .. 27 + Windows
  /\ seeding = "running" => at < 27 + Windows
  /\ seeding = "done" => at = 27 + Windows
  /\ Begun => run \in since

\* Once the balances of the run's year are counted they follow the approved leave, until
\* the next run.
CountedIn(d, r) ==
  \A b \in LeaveBalance : b[2] = Drawn[r.day].year => d.used[b] = d.approved[b]
Counted == Begun /\ at >= 24 + Windows => CountedIn(db, run)

RowsDue ==
  /\ \A r \in Run : ~lived /\ Alike(r) => Due(db, r, {})
  /\ Begun /\ ~lived /\ Alike(run) => Due(db, run, Passed(at))

RowsFresh == Begun /\ ~lived /\ run.reset => db = RowsAfter(run)[at]

SeedInv == RowsOK(db) /\ ProgressOK /\ Counted /\ RowsDue /\ RowsFresh

LEMMA NothingInLines == LinesTotal(<<>>) = 0
<1> DEFINE Sums(f) == f = [n \in 0 .. 0 |-> IF n = 0 THEN 0 ELSE f[n - 1] + <<>>[n][2]]
<1>1. Sums([n \in 0 .. 0 |-> 0])
  OBVIOUS
<1>2. \A f : Sums(f) => f[0] = 0
  OBVIOUS
<1>3. LinesTotal(<<>>) = (CHOOSE f : Sums(f))[0]
  <2>1. Len(<<>>) = 0
    OBVIOUS
  <2> QED
    BY <2>1 DEF LinesTotal
<1> HIDE DEF Sums
<1> QED
  BY <1>1, <1>2, <1>3

LEMMA EmptyIsOK == RowsOK(EmptyDb)
BY NothingInLines DEF RowsOK, EmptyDb

\* What neither wipes nor writes an organisation, a pull request, an invoice or a leave.
LEMMA RowsStayOK ==
  ASSUME NEW d, NEW e, NEW T, RowsOK(d), Differs(d, e, T),
         "orgs" \notin T, "prs" \notin T, "invoices" \notin T, "total" \notin T, "lines" \notin T,
         "approved" \notin T, "used" \notin T
  PROVE  RowsOK(e)
<1>1. /\ e.orgs = d.orgs /\ e.prs = d.prs /\ e.invoices = d.invoices /\ e.total = d.total
      /\ e.lines = d.lines /\ DOMAIN e = DOMAIN d
  BY DEF Differs, Tables
<1>2. e.approved = d.approved /\ e.used = d.used
  BY DEF Differs, Tables
<1> QED
  BY <1>1, <1>2 DEF RowsOK

\* What writes leave and balances, and nothing else.
LEMMA AwayStaysOK ==
  ASSUME NEW d, NEW e, RowsOK(d), Differs(d, e, {"approved", "pending", "used"}),
         e.approved = [b \in LeaveBalance |-> e.approved[b]],
         e.used = [b \in LeaveBalance |-> e.used[b]]
  PROVE  RowsOK(e)
<1>1. /\ e.orgs = d.orgs /\ e.prs = d.prs /\ e.invoices = d.invoices /\ e.total = d.total
      /\ e.lines = d.lines /\ DOMAIN e = DOMAIN d
  BY DEF Differs, Tables
<1> QED
  BY <1>1 DEF RowsOK

LEMMA DeedWrites ==
  ASSUME NEW d, NEW r, DOMAIN d = Tables
  PROVE  /\ Differs(d, UpsertProject(d), {"projects"})
         /\ Differs(d, SeedCommits(d, r), {"commits"})
         /\ Differs(d, SeedCycleTimes(d, r), {"cycles"})
         /\ Differs(d, SeedEstimates(d, r), {"estimates"})
         /\ Differs(d, SeedIssues(d, r), {"gitIssues", "nativeIssues"})
         /\ Differs(d, SeedKudos(d), {"kudos"})
         /\ Differs(d, SeedDeployments(d, r), {"deployments"})
         /\ Differs(d, SeedIncidents(d, r), {"incidents"})
         /\ Differs(d, SeedAvailability(d), {"availability"})
         /\ Differs(d, SeedInvolvement(d), {"involvement"})
         /\ Differs(d, SeedTimeEntries(d), {"timeEntries"})
         /\ Differs(d, SeedNotifications(d), {"channels"})
<1>1. /\ Differs(d, UpsertProject(d), {"projects"})
      /\ Differs(d, SeedCommits(d, r), {"commits"})
      /\ Differs(d, SeedCycleTimes(d, r), {"cycles"})
      /\ Differs(d, SeedEstimates(d, r), {"estimates"})
  BY DEF Differs, Tables, UpsertProject, SeedCommits, SeedCycleTimes, SeedEstimates
<1>2. /\ Differs(d, SeedIssues(d, r), {"gitIssues", "nativeIssues"})
      /\ Differs(d, SeedKudos(d), {"kudos"})
      /\ Differs(d, SeedDeployments(d, r), {"deployments"})
      /\ Differs(d, SeedIncidents(d, r), {"incidents"})
  BY DEF Differs, Tables, SeedIssues, SeedKudos, SeedDeployments, SeedIncidents
<1>3. /\ Differs(d, SeedAvailability(d), {"availability"})
      /\ Differs(d, SeedInvolvement(d), {"involvement"})
      /\ Differs(d, SeedTimeEntries(d), {"timeEntries"})
      /\ Differs(d, SeedNotifications(d), {"channels"})
  BY DEF Differs, Tables, SeedAvailability, SeedInvolvement, SeedTimeEntries, SeedNotifications
<1> QED
  BY <1>1, <1>2, <1>3

LEMMA LeaveIsOK ==
  ASSUME NEW d, NEW r \in Run, RowsOK(d)
  PROVE  RowsOK(SeedLeave(d, r)) /\ RowsOK(SeedLeaveBalances(d, r))
<1>1. DOMAIN d = Tables
  BY TablesAre DEF RowsOK
<1>2. RowsOK(SeedLeave(d, r))
  <2> DEFINE e == SeedLeave(d, r)
  <2>1. /\ Differs(d, e, {"approved", "pending", "used"})
        /\ e.approved = Drawn[r.day].approved /\ e.used = d.used
    BY <1>1 DEF SeedLeave, Differs, Tables
  <2>2. Drawn[r.day].approved \in [LeaveBalance -> Nat]
    BY SeedAssumption DEF Run, Draw
  <2> HIDE DEF e
  <2>3. e.approved = [b \in LeaveBalance |-> e.approved[b]]
    BY <2>1, <2>2
  <2>4. e.used = [b \in LeaveBalance |-> e.used[b]]
    BY <2>1 DEF RowsOK
  <2>5. RowsOK(e)
    BY <2>1, <2>3, <2>4, AwayStaysOK
  <2> QED
    BY <2>5 DEF e
<1>3. RowsOK(SeedLeaveBalances(d, r))
  <2> DEFINE e == SeedLeaveBalances(d, r)
  <2>1. /\ Differs(d, e, {"approved", "pending", "used"})
        /\ e.used = [b \in LeaveBalance |->
                       IF b[2] = Drawn[r.day].year THEN d.approved[b] ELSE d.used[b]]
        /\ e.approved = d.approved
    BY <1>1 DEF SeedLeaveBalances, Differs, Tables
  <2> HIDE DEF e
  <2>2. e.used = [b \in LeaveBalance |-> e.used[b]]
    BY <2>1
  <2>3. e.approved = [b \in LeaveBalance |-> e.approved[b]]
    BY <2>1 DEF RowsOK
  <2>4. RowsOK(e)
    BY <2>1, <2>2, <2>3, AwayStaysOK
  <2> QED
    BY <2>4 DEF e
<1> QED
  BY <1>2, <1>3

LEMMA KeyedWrites ==
  ASSUME NEW d, NEW name, DOMAIN d = Tables
  PROVE  Differs(d, Keyed(d, name), {"unique"}) /\ Keyed(d, name).unique = d.unique \cup {name}
BY DEF Differs, Tables, Keyed

LEMMA PullsAreOK ==
  ASSUME NEW d, NEW r \in Run, RowsOK(d)
  PROVE  RowsOK(SeedPullRequests(d, r))
<1> DEFINE e == SeedPullRequests(d, r)
<1>1. DOMAIN d = Tables
  BY TablesAre DEF RowsOK
<1>2. /\ Differs(d, e, {"prs"})
      /\ e.prs = [k \in SeedRow |-> IF k \in RowsOfRun(r) THEN PRDrawn(r, k).merged ELSE d.prs[k]]
  BY <1>1 DEF SeedPullRequests, Differs, Tables
<1>3. ASSUME NEW k \in RowsOfRun(r) PROVE PRDrawn(r, k).merged \in {0} \cup Window
  <2>1. Drawn[r.day] \in Draw
    BY SeedAssumption DEF Run
  <2>2. Drawn[r.day].prs \in
          [PullRequest -> [repo : DemoRepo, merged : {0} \cup Window, estimated : BOOLEAN]]
    BY <2>1 DEF Draw
  <2>3. k[1] \in PullRequest
    BY DEF RowsOfRun
  <2> QED
    BY <2>2, <2>3 DEF PRDrawn
<1> HIDE DEF e
<1>4. e.prs \in [SeedRow -> {-1, 0} \cup Window]
  BY <1>2, <1>3 DEF RowsOK
<1>5. /\ e.orgs = d.orgs /\ e.invoices = d.invoices /\ e.total = d.total
      /\ e.lines = d.lines /\ e.approved = d.approved /\ e.used = d.used
      /\ DOMAIN e = DOMAIN d
  BY <1>2 DEF Differs, Tables
<1>6. RowsOK(e)
  BY <1>4, <1>5 DEF RowsOK
<1> QED
  BY <1>6 DEF e

LEMMA OrgIsOK ==
  ASSUME NEW d, NEW r, NEW slug \in Slug, RowsOK(d)
  PROVE  RowsOK(UpsertOrg(d, r, slug))
<1> DEFINE e == UpsertOrg(d, r, slug)
<1>1. DOMAIN d = Tables
  BY TablesAre DEF RowsOK
<1>2. Differs(d, e, {"orgs", "owners"}) /\ e.orgs = d.orgs \cup {slug}
  BY <1>1 DEF UpsertOrg, Differs, Tables
<1> HIDE DEF e
<1>3. /\ e.prs = d.prs /\ e.invoices = d.invoices /\ e.total = d.total
      /\ e.lines = d.lines /\ e.approved = d.approved /\ e.used = d.used
      /\ DOMAIN e = DOMAIN d
  BY <1>2 DEF Differs, Tables
<1> QED
  BY <1>2, <1>3 DEF RowsOK, e

LEMMA InvoiceIsOK ==
  ASSUME NEW d, NEW w \in Window, RowsOK(d)
  PROVE  RowsOK(SeedInvoice(d, w))
<1> DEFINE lines == GatherLines(d, w)
           m == Cardinality(Invoiced(d, w))
           e == WriteInvoice(d, m, w, lines)
<1>1. SeedInvoice(d, w) = d \/ SeedInvoice(d, w) = e
  BY DEF SeedInvoice
<1>2. DOMAIN d = Tables
  BY TablesAre DEF RowsOK
<1> HIDE DEF lines, m
<1>3. /\ Differs(d, e, {"invoices", "total", "lines"})
      /\ e.invoices = [d.invoices EXCEPT ![m] = w]
      /\ e.total = [d.total EXCEPT ![m] = LinesTotal(lines)]
      /\ e.lines = [d.lines EXCEPT ![m] = lines]
  BY <1>2 DEF WriteInvoice, Differs, Tables
<1> HIDE DEF e
<1>4. /\ e.prs = d.prs /\ e.orgs = d.orgs /\ e.approved = d.approved /\ e.used = d.used
      /\ DOMAIN e = DOMAIN d
  BY <1>3 DEF Differs, Tables
<1>5. e.invoices \in [DemoNumber -> {0} \cup Window]
  BY <1>3 DEF RowsOK
<1>6. /\ e.total = [n \in DemoNumber |-> IF n = m THEN LinesTotal(lines) ELSE d.total[n]]
      /\ e.lines = [n \in DemoNumber |-> IF n = m THEN lines ELSE d.lines[n]]
  <2>1. /\ d.total = [n \in DemoNumber |-> d.total[n]]
        /\ d.lines = [n \in DemoNumber |-> d.lines[n]]
    BY DEF RowsOK
  <2> QED
    BY <1>3, <2>1
<1>7. \A n \in DemoNumber : e.total[n] = LinesTotal(e.lines[n])
  BY <1>6 DEF RowsOK
<1>8. RowsOK(e)
  <2>1. /\ e.total = [n \in DemoNumber |-> e.total[n]]
        /\ e.lines = [n \in DemoNumber |-> e.lines[n]]
    BY <1>6
  <2> QED
    BY <1>4, <1>5, <1>7, <2>1 DEF RowsOK
<1> QED
  BY <1>1, <1>8

\* A section leaves such rows.
LEMMA SectionIsOK ==
  ASSUME NEW d, NEW r \in Run, NEW i \in 1 .. 27 + Windows, RowsOK(d)
  PROVE  RowsOK(AfterSection(d, Sections[i], r))
<1> DEFINE s == Sections[i]
<1>1. \/ s = Do("wipe")
      \/ \E what \in Deeds : s = Do(what)
      \/ \E name \in FixedNames : s = Fixed(name)
      \/ \E w \in Window : s = Invoice(w)
  <2>1. "balances" \in Deeds
    BY DEF Deeds
  <2> QED
    BY <2>1, SectionAt
<1> HIDE DEF s
<1>2. DOMAIN d = Tables
  BY TablesAre DEF RowsOK
<1>3. SectionsDo(d, r)
  BY SectionDoes
<1>4. CASE s = Do("wipe")
  <2>1. AfterSection(d, s, r) = EmptyDb \/ AfterSection(d, s, r) = d
    BY <1>3, <1>4 DEF SectionsDo
  <2> QED
    BY <2>1, EmptyIsOK DEF s
<1>5. ASSUME NEW name \in FixedNames, s = Fixed(name)
      PROVE  RowsOK(AfterSection(d, s, r))
  <2> DEFINE e == Keyed(d, name)
  <2>1. AfterSection(d, s, r) = e
    BY <1>5, FixedDoes
  <2>2. Differs(d, e, {"unique"})
    BY <1>2, KeyedWrites
  <2> HIDE DEF e
  <2> QED
    BY <2>1, <2>2, RowsStayOK
<1>6. ASSUME NEW w \in Window, s = Invoice(w)
      PROVE  RowsOK(AfterSection(d, s, r))
  BY <1>6, InvoiceDoes, InvoiceIsOK
<1>7. ASSUME NEW what \in Deeds, s = Do(what)
      PROVE  RowsOK(AfterSection(d, s, r))
  <2>0. \/ what \in {"org", "org2", "prs"} \/ what \in {"leave", "balances"}
        \/ what \in {"projects", "commits", "cycles", "estimates"}
        \/ what \in {"issues", "kudos", "deployments", "incidents", "availability"}
        \/ what \in {"involvement", "time", "notifications"}
    BY DEF Deeds
  <2>1. CASE what \in {"org", "org2", "prs"}
    <3>1. CASE what = "org"
      <4>1. AfterSection(d, s, r) = UpsertOrg(d, r, "acme-dev")
        BY <1>3, <1>7, <3>1 DEF SectionsDo
      <4>2. "acme-dev" \in Slug
        BY DEF Slug
      <4> QED
        BY <4>1, <4>2, OrgIsOK
    <3>2. CASE what = "org2"
      <4>1. AfterSection(d, s, r) = UpsertOrg(d, r, "nova-labs")
        BY <1>3, <1>7, <3>2 DEF SectionsDo
      <4>2. "nova-labs" \in Slug
        BY DEF Slug
      <4> QED
        BY <4>1, <4>2, OrgIsOK
    <3>3. CASE what = "prs"
      <4>1. AfterSection(d, s, r) = SeedPullRequests(d, r)
        BY <1>3, <1>7, <3>3 DEF SectionsDo
      <4> QED
        BY <4>1, PullsAreOK
    <3> QED
      BY <2>1, <3>1, <3>2, <3>3
  <2>2. ASSUME what \notin {"org", "org2", "prs", "leave", "balances"}
        PROVE \E T : Differs(d, AfterSection(d, s, r), T) /\
                T \in {{"projects"}, {"commits"}, {"cycles"}, {"estimates"},
                       {"gitIssues", "nativeIssues"}, {"kudos"}, {"deployments"}, {"incidents"},
                       {"availability"}, {"involvement"}, {"timeEntries"}, {"channels"}}
    <3> DEFINE Some == {{"projects"}, {"commits"}, {"cycles"}, {"estimates"},
                       {"gitIssues", "nativeIssues"}, {"kudos"}, {"deployments"}, {"incidents"},
                       {"availability"}, {"involvement"}, {"timeEntries"}, {"channels"}}
    <3>1. /\ {"projects"} \in Some /\ {"commits"} \in Some /\ {"cycles"} \in Some
          /\ {"estimates"} \in Some /\ {"gitIssues", "nativeIssues"} \in Some /\ {"kudos"} \in Some
          /\ {"deployments"} \in Some /\ {"incidents"} \in Some /\ {"availability"} \in Some
          /\ {"involvement"} \in Some /\ {"timeEntries"} \in Some /\ {"channels"} \in Some
      OBVIOUS
    <3> HIDE DEF Some
    <3>2. CASE what \in {"projects", "commits", "cycles", "estimates"}
      <4>1. CASE what = "projects"
        BY <1>2, <1>3, <1>7, <3>1, <4>1, DeedWrites DEF SectionsDo
      <4>2. CASE what = "commits"
        BY <1>2, <1>3, <1>7, <3>1, <4>2, DeedWrites DEF SectionsDo
      <4>3. CASE what = "cycles"
        BY <1>2, <1>3, <1>7, <3>1, <4>3, DeedWrites DEF SectionsDo
      <4>4. CASE what = "estimates"
        BY <1>2, <1>3, <1>7, <3>1, <4>4, DeedWrites DEF SectionsDo
      <4> QED
        BY <3>2, <4>1, <4>2, <4>3, <4>4
    <3>3. CASE what \in {"issues", "kudos", "deployments", "incidents", "availability"}
      <4>1. CASE what = "issues"
        BY <1>2, <1>3, <1>7, <3>1, <4>1, DeedWrites DEF SectionsDo
      <4>2. CASE what = "kudos"
        BY <1>2, <1>3, <1>7, <3>1, <4>2, DeedWrites DEF SectionsDo
      <4>3. CASE what = "deployments"
        BY <1>2, <1>3, <1>7, <3>1, <4>3, DeedWrites DEF SectionsDo
      <4>4. CASE what = "incidents"
        BY <1>2, <1>3, <1>7, <3>1, <4>4, DeedWrites DEF SectionsDo
      <4>5. CASE what = "availability"
        BY <1>2, <1>3, <1>7, <3>1, <4>5, DeedWrites DEF SectionsDo
      <4> QED
        BY <3>3, <4>1, <4>2, <4>3, <4>4, <4>5
    <3>4. CASE what \in {"involvement", "time", "notifications"}
      <4>1. CASE what = "involvement"
        BY <1>2, <1>3, <1>7, <3>1, <4>1, DeedWrites DEF SectionsDo
      <4>2. CASE what = "time"
        BY <1>2, <1>3, <1>7, <3>1, <4>2, DeedWrites DEF SectionsDo
      <4>3. CASE what = "notifications"
        BY <1>2, <1>3, <1>7, <3>1, <4>3, DeedWrites DEF SectionsDo
      <4> QED
        BY <3>4, <4>1, <4>2, <4>3
    <3> QED
      BY <2>0, <2>2, <3>2, <3>3, <3>4
  <2>3. CASE what \notin {"org", "org2", "prs", "leave", "balances"}
    <3>1. PICK T : Differs(d, AfterSection(d, s, r), T) /\
                T \in {{"projects"}, {"commits"}, {"cycles"}, {"estimates"},
                       {"gitIssues", "nativeIssues"}, {"kudos"}, {"deployments"}, {"incidents"},
                       {"availability"}, {"involvement"}, {"timeEntries"}, {"channels"}}
      BY <2>2, <2>3
    <3>2. /\ "orgs" \notin T /\ "prs" \notin T /\ "invoices" \notin T /\ "total" \notin T
          /\ "lines" \notin T /\ "approved" \notin T /\ "used" \notin T
      BY <3>1
    <3> QED
      BY <3>1, <3>2, RowsStayOK
  <2>4. CASE what \in {"leave", "balances"}
    <3>1. CASE what = "leave"
      BY <1>3, <1>7, <3>1, LeaveIsOK DEF SectionsDo
    <3>2. CASE what = "balances"
      BY <1>3, <1>7, <3>2, LeaveIsOK DEF SectionsDo
    <3> QED
      BY <2>4, <3>1, <3>2
  <2> QED
    BY <2>1, <2>3, <2>4
<1> QED
  BY <1>1, <1>4, <1>5, <1>6, <1>7 DEF s

\* The balances are counted once, and no section after that changes them or the leave.
LEMMA CountedAfter ==
  ASSUME NEW d, NEW r, NEW i \in 24 + Windows .. 27 + Windows, DOMAIN d = Tables,
         i > 24 + Windows => CountedIn(d, r)
  PROVE  CountedIn(AfterSection(d, Sections[i], r), r)
<1> DEFINE s == Sections[i]
           e == AfterSection(d, s, r)
<1>1. \/ i = 24 + Windows /\ s = Do("balances")
      \/ i > 24 + Windows /\ s = Do("time")
      \/ i > 24 + Windows /\ s = Do("notifications")
      \/ i > 24 + Windows /\ s = Fixed("webhook_configs")
  <2> DEFINE j == i - (17 + Windows)
  <2>1. j \in 7 .. 10 /\ 17 + Windows + j = i
    BY WindowCounts
  <2> HIDE DEF j
  <2>2. s = Closing[j]
    <3>1. j \in 1 .. 10
      BY <2>1
    <3>2. Sections[17 + Windows + j] = Closing[j]
      BY <3>1, SectionsAre
    <3> QED
      BY <2>1, <3>2
  <2>3. j = 7 \/ j = 8 \/ j = 9 \/ j = 10
    BY <2>1
  <2>4. (j = 7 => i = 24 + Windows) /\ (j # 7 => i > 24 + Windows)
    BY <2>1, WindowCounts
  <2> QED
    BY <2>2, <2>3, <2>4, ClosingIs
<1> HIDE DEF s
<1>2. SectionsDo(d, r)
  BY SectionDoes
<1>3. CASE i = 24 + Windows /\ s = Do("balances")
  <2>1. e = SeedLeaveBalances(d, r)
    BY <1>2, <1>3 DEF SectionsDo
  <2> HIDE DEF e
  <2>2. /\ e.used = [b \in LeaveBalance |->
                       IF b[2] = Drawn[r.day].year THEN d.approved[b] ELSE d.used[b]]
        /\ e.approved = d.approved
    BY <2>1 DEF SeedLeaveBalances, Tables
  <2> QED
    BY <2>2 DEF CountedIn, e, s
<1>4. CASE i > 24 + Windows
  <2>1. e = SeedTimeEntries(d) \/ e = SeedNotifications(d) \/ e = Keyed(d, "webhook_configs")
    <3>1. CASE s = Do("time")
      BY <1>2, <3>1 DEF SectionsDo
    <3>2. CASE s = Do("notifications")
      BY <1>2, <3>2 DEF SectionsDo
    <3>3. CASE s = Fixed("webhook_configs")
      BY <3>3, FixedDoes
    <3>4. i # 24 + Windows
      BY <1>4, WindowCounts
    <3> QED
      BY <1>1, <3>1, <3>2, <3>3, <3>4
  <2> HIDE DEF e
  <2>2. e.used = d.used /\ e.approved = d.approved
    BY <2>1 DEF SeedTimeEntries, SeedNotifications, Keyed, Tables
  <2> QED
    BY <1>4, <2>2 DEF CountedIn, e, s
<1> QED
  BY <1>1, <1>3, <1>4

LEMMA SeedInitially == SeedInit => SeedInv
<1> SUFFICES ASSUME SeedInit PROVE SeedInv
  OBVIOUS
<1>1. RowsOK(db)
  BY EmptyIsOK DEF SeedInit
<1>2. run \in Run
  <2>1. \E r : r \in Run
    <3>1. PICK w \in Day, a \in Admin : TRUE
      BY SeedAssumption
    <3>2. [day |-> w, admin |-> a, reset |-> TRUE] \in Run
      BY DEF Run
    <3> QED
      BY <3>2
  <2>2. run = CHOOSE r \in Run : TRUE
    BY DEF SeedInit
  <2> HIDE DEF Run
  <2> QED
    BY <2>1, <2>2
<1>3. ProgressOK
  <2>1. at = 0 /\ seeding = "idle" /\ since = {} /\ lived = FALSE /\ seeds = 0
    BY DEF SeedInit
  <2>2. MaxSeeds \in Nat
    BY SeedAssumption
  <2>3. ~Begun
    BY <2>1 DEF Begun
  <2>4. Windows \in Nat
    BY WindowCounts
  <2>5. at \in 0 .. 27 + Windows /\ at < 27 + Windows /\ seeds \in 0 .. MaxSeeds
    BY <2>1, <2>2, <2>4
  <2>6. since \subseteq Run /\ lived \in BOOLEAN
    BY <2>1
  <2> QED
    BY <1>2, <2>1, <2>3, <2>5, <2>6 DEF ProgressOK
<1>4. ~Begun
  BY DEF SeedInit, Begun
<1>5. RowsDue
  BY <1>4, NothingDue DEF SeedInit, RowsDue
<1> QED
  BY <1>1, <1>3, <1>4, <1>5 DEF SeedInv, Counted, RowsFresh

LEMMA StartStep ==
  ASSUME SeedInv, StartSeed
  PROVE  SeedInv'
<1>1. /\ db' = db /\ since' = since /\ lived' = lived /\ run' \in Run /\ at' = 0
      /\ seeding' = "running" /\ seeds' = seeds + 1 /\ seeds < MaxSeeds
  BY DEF StartSeed
<1>2. RowsOK(db)'
  BY <1>1 DEF SeedInv
<1>3. ~Begun'
  BY <1>1 DEF Begun
<1>4. ProgressOK'
  BY <1>1, <1>3, WindowCounts, SeedAssumption DEF SeedInv, ProgressOK
<1>5. \A r : Alike(r)' = Alike(r)
  BY <1>1 DEF Alike
<1>6. RowsDue'
  BY <1>1, <1>3, <1>5 DEF SeedInv, RowsDue
<1> QED
  BY <1>2, <1>3, <1>4, <1>6 DEF SeedInv, Counted, RowsFresh

\* What a person or seedgit changes: nothing is claimed of the rows but that they are in
\* order and the balances still count.
LEMMA LivedStep ==
  ASSUME SeedInv, lived', UNCHANGED <<run, at, seeding, since, seeds>>, RowsOK(db'), Counted',
         lived' \in BOOLEAN
  PROVE  SeedInv'
<1>1. ProgressOK'
  BY DEF SeedInv, ProgressOK, Begun
<1> QED
  BY <1>1 DEF SeedInv, RowsDue, RowsFresh

LEMMA SeedGitStep ==
  ASSUME SeedInv, SeedGit
  PROVE  SeedInv'
<1> DEFINE d == Keyed(db, "commit_files")
           est == Reestimated(db)
<1>1. /\ db' = [d EXCEPT !.estimates = est] /\ lived' = TRUE
      /\ run' = run /\ at' = at /\ seeding' = seeding /\ since' = since /\ seeds' = seeds
  BY DEF SeedGit
<1>2. DOMAIN db = Tables
  BY TablesAre DEF SeedInv, RowsOK
<1> HIDE DEF est
<1>3. Differs(db, db', {"unique", "estimates"})
  BY <1>1, <1>2 DEF Keyed, Differs, Tables
<1>4. RowsOK(db')
  BY <1>3, RowsStayOK DEF SeedInv
<1>5. db'.used = db.used /\ db'.approved = db.approved
  BY <1>3 DEF Differs, Tables
<1>6. Counted'
  BY <1>1, <1>5 DEF SeedInv, Counted, CountedIn, Begun
<1> QED
  BY <1>1, <1>4, <1>6, LivedStep

LEMMA ApproveStep ==
  ASSUME SeedInv, NEW b \in LeaveBalance, ApproveSeeded(b)
  PROVE  SeedInv'
<1>1. /\ db' = [db EXCEPT !.pending[b] = @ - 1, !.approved[b] = @ + 1,
                           !.used[b] = db.approved[b] + 1]
      /\ lived' = TRUE
      /\ run' = run /\ at' = at /\ seeding' = seeding /\ since' = since /\ seeds' = seeds
  BY DEF ApproveSeeded
<1>2. DOMAIN db = Tables
  BY TablesAre DEF SeedInv, RowsOK
<1>3. /\ Differs(db, db', {"pending", "approved", "used"})
      /\ db'.approved = [db.approved EXCEPT ![b] = @ + 1]
      /\ db'.used = [db.used EXCEPT ![b] = db.approved[b] + 1]
  BY <1>1, <1>2 DEF Differs, Tables
<1>4. /\ db'.approved = [c \in LeaveBalance |->
                           IF c = b THEN db.approved[b] + 1 ELSE db.approved[c]]
      /\ db'.used = [c \in LeaveBalance |->
                       IF c = b THEN db.approved[b] + 1 ELSE db.used[c]]
  <2>1. /\ db.approved = [c \in LeaveBalance |-> db.approved[c]]
        /\ db.used = [c \in LeaveBalance |-> db.used[c]]
    BY DEF SeedInv, RowsOK
  <2> QED
    BY <1>3, <2>1
<1>5. RowsOK(db')
  <2>1. /\ db'.approved = [c \in LeaveBalance |-> db'.approved[c]]
        /\ db'.used = [c \in LeaveBalance |-> db'.used[c]]
    BY <1>4
  <2>2. RowsOK(db) /\ Differs(db, db', {"approved", "pending", "used"})
    BY <1>3 DEF SeedInv, Differs
  <2> QED
    BY <2>1, <2>2, AwayStaysOK
<1>6. Counted'
  BY <1>1, <1>4 DEF SeedInv, Counted, CountedIn, Begun
<1> QED
  BY <1>1, <1>5, <1>6, LivedStep

\* A section of a run.  What is due of it follows from what was due of the sections
\* before, or, where the run wipes the rows or is the first, of none.
LEMMA SectionStep ==
  ASSUME SeedInv, SeedSection
  PROVE  SeedInv'
<1> DEFINE e == AfterSection(db, Sections[at + 1], run)
<1>1. /\ seeding = "running" /\ db' = e /\ at' = at + 1 /\ run' = run /\ seeds' = seeds
      /\ since' = IF at > 0 THEN since ELSE IF run.reset THEN {run} ELSE since \cup {run}
      /\ lived' = (lived /\ ~(at = 0 /\ run.reset))
      /\ seeding' = IF at' = 27 + Windows THEN "done" ELSE "running"
  BY SectionsAre DEF SeedSection
<1>2. /\ RowsOK(db) /\ run \in Run /\ since \subseteq Run /\ lived \in BOOLEAN
      /\ at \in 0 .. 26 + Windows /\ (at > 0 => run \in since) /\ run.reset \in BOOLEAN
  BY <1>1, WindowCounts DEF SeedInv, ProgressOK, Begun, Run
<1>3. /\ at + 1 \in 1 .. 27 + Windows /\ at + 1 > 0
      /\ at > 0 => Begun
  BY <1>1, <1>2, WindowCounts DEF Begun
<1>4. Sections[1] = Do("wipe")
  <2>1. Sections[1] = Opening[1]
    BY SectionsAre
  <2> QED
    BY <2>1, OpeningIs
<1>5. at = 0 => e = IF run.reset THEN EmptyDb ELSE db
  BY <1>4, SectionDoes DEF SectionsDo
<1>6. RowsOK(e)
  BY <1>2, <1>3, SectionIsOK
<1>7. Counted'
  <2> SUFFICES ASSUME at + 1 >= 24 + Windows
               PROVE  CountedIn(e, run)
    BY <1>1 DEF Counted, CountedIn, Begun
  <2>1. at + 1 \in 24 + Windows .. 27 + Windows
    BY <1>3, WindowCounts
  <2>2. at + 1 > 24 + Windows => CountedIn(db, run)
    BY <1>2, <1>3, WindowCounts DEF SeedInv, Counted
  <2>3. DOMAIN db = Tables
    BY <1>2, TablesAre DEF RowsOK
  <2> HIDE DEF e
  <2> QED
    BY <2>1, <2>2, <2>3, CountedAfter DEF e
<1> HIDE DEF e
<1>8. run \in since' /\ since' \subseteq Run
  BY <1>1, <1>2
<1>9. ProgressOK'
  <2>1. at' \in 0 .. 27 + Windows
    BY <1>1, <1>3
  <2>2. /\ seeding' \in {"running", "done"}
        /\ seeding' = "running" => at' < 27 + Windows
        /\ seeding' = "done" => at' = 27 + Windows
    BY <1>1, <2>1, WindowCounts
  <2>3. lived' \in BOOLEAN /\ seeds' \in 0 .. MaxSeeds /\ run' \in Run
    BY <1>1, <1>2 DEF SeedInv, ProgressOK
  <2> QED
    BY <1>1, <1>8, <2>1, <2>2, <2>3 DEF ProgressOK
<1>10. ASSUME ~lived', Alike(run)' PROVE Due(e, run, Passed(at + 1))
  <2>1. CASE at = 0 /\ run.reset
    <3>1. Due(EmptyDb, run, Passed(0))
      BY <1>2, NothingDue, NothingPassed
    <3>2. 0 \in 0 .. 26 + Windows
      BY WindowCounts
    <3>3. Due(AfterSection(EmptyDb, Sections[0 + 1], run), run, Passed(0 + 1))
      BY <1>2, <3>1, <3>2, SectionDue
    <3>4. AfterSection(EmptyDb, Sections[1], run) = EmptyDb
      BY <1>4, SectionDoes DEF SectionsDo
    <3>5. e = EmptyDb
      BY <1>5, <2>1
    <3>6. 0 + 1 = 1 /\ at + 1 = 1
      BY <2>1
    <3> QED
      BY <3>3, <3>4, <3>5, <3>6
  <2>2. CASE ~(at = 0 /\ run.reset)
    <3>1. ~lived
      BY <1>1, <1>10, <2>2
    <3>2. since \subseteq since'
      BY <1>1, <1>2, <2>2
    <3>3. Alike(run)
      BY <1>1, <1>10, <3>2 DEF Alike
    <3>4. Due(db, run, Passed(at))
      <4>1. CASE at > 0
        BY <1>3, <3>1, <3>3, <4>1 DEF SeedInv, RowsDue
      <4>2. CASE at = 0
        BY <1>2, <3>1, <3>3, <4>2, NothingPassed DEF SeedInv, RowsDue
      <4> QED
        BY <1>2, <4>1, <4>2
    <3> QED
      BY <1>2, <3>4, SectionDue DEF e
  <2> QED
    BY <2>1, <2>2
<1>11. ASSUME NEW r \in Run, ~lived', Alike(r)' PROVE Due(e, r, {})
  <2>1. run.day = r.day /\ run.admin = r.admin
    BY <1>8, <1>11 DEF Alike
  <2>2. Alike(run)'
    BY <1>1, <1>11, <2>1 DEF Alike
  <2>3. Due(e, run, {})
    BY <1>10, <1>11, <2>2, DueBefore
  <2> QED
    BY <2>1, <2>3, DueAlike
<1>12. RowsDue'
  <2>1. \A r \in Run : ~lived' /\ Alike(r)' => Due(e, r, {})
    BY <1>11
  <2>2. ~lived' /\ Alike(run)' => Due(e, run, Passed(at + 1))
    BY <1>10
  <2> QED
    BY <1>1, <2>1, <2>2 DEF RowsDue, Alike
<1>13. RowsFresh'
  <2> SUFFICES ASSUME ~lived', run.reset PROVE e = RowsAfter(run)[at + 1]
    BY <1>1 DEF RowsFresh
  <2>1. RowsAfter(run)[at + 1] = AfterSection(RowsAfter(run)[at], Sections[at + 1], run)
    BY <1>2, AfterUnfolds
  <2>2. CASE at = 0
    <3>1. AfterSection(EmptyDb, Sections[1], run) = EmptyDb
      BY <1>4, SectionDoes DEF SectionsDo
    <3>2. RowsAfter(run)[0] = EmptyDb
      BY AfterUnfolds
    <3>3. e = EmptyDb
      BY <1>5, <2>2
    <3> QED
      BY <2>1, <2>2, <3>1, <3>2, <3>3
  <2>3. CASE at > 0
    <3>1. ~lived
      BY <1>1, <2>3, <1>2
    <3>2. db = RowsAfter(run)[at]
      BY <1>3, <2>3, <3>1 DEF SeedInv, RowsFresh
    <3> QED
      BY <2>1, <3>2 DEF e
  <2> QED
    BY <1>2, <2>2, <2>3
<1> QED
  BY <1>1, <1>6, <1>7, <1>9, <1>12, <1>13 DEF SeedInv

\* A failure adds at most commits that are due.
LEMMA FailsStep ==
  ASSUME SeedInv, SeedFails
  PROVE  SeedInv'
<1>1. PICK some \in SUBSET Drawn[run.day].commits :
        /\ Sections[at + 1].do # "commits" => some = {}
        /\ db' = [db EXCEPT !.commits = @ \cup some]
  BY DEF SeedFails
<1>2. /\ seeding = "running" /\ at' = 0 /\ seeding' = "failed" /\ run' = run
      /\ since' = since /\ lived' = lived /\ seeds' = seeds
  BY DEF SeedFails
<1>3. DOMAIN db = Tables
  BY TablesAre DEF SeedInv, RowsOK
<1>4. Differs(db, db', {"commits"}) /\ db'.commits = db.commits \cup some
  BY <1>1, <1>3 DEF Differs, Tables
<1>5. RowsOK(db')
  BY <1>4, RowsStayOK DEF SeedInv
<1>6. ~Begun'
  BY <1>2 DEF Begun
<1>7. ProgressOK'
  BY <1>2, <1>6, WindowCounts DEF SeedInv, ProgressOK
<1>8. some # {} => run \in since
  <2> SUFFICES ASSUME some # {} PROVE at > 0
    BY <1>2 DEF SeedInv, ProgressOK, Begun
  <2>1. Sections[1] = Do("wipe")
    <3>1. Sections[1] = Opening[1]
      BY SectionsAre
    <3> QED
      BY <3>1, OpeningIs
  <2>2. Sections[1].do = "wipe"
    BY <2>1, Doings
  <2>3. at # 0
    BY <1>1, <2>2
  <2> QED
    BY <2>3, WindowCounts DEF SeedInv, ProgressOK
<1>9. ASSUME NEW r \in Run, ~lived, Alike(r) PROVE Due(db', r, {})
  <2>1. Due(db, r, {})
    BY <1>9 DEF SeedInv, RowsDue
  <2>2. some \subseteq Drawn[r.day].commits
    BY <1>8, <1>9 DEF Alike
  <2>3. CommitsDue(db', r, {Do("wipe")})
    <3>1. Do("wipe") # Do("commits")
      BY DEF Do
    <3>2. db.commits \subseteq Drawn[r.day].commits
      BY <2>1 DEF Due, CommitsDue
    <3> QED
      BY <1>4, <2>2, <3>1, <3>2 DEF CommitsDue
  <2>4. DeedKeeps(db', r, {} \cup {Do("wipe")}, "wipe", {"commits"})
    BY <1>4, <2>1, DeedKept
  <2>5. {} \cup {Do("wipe")} = {Do("wipe")}
    OBVIOUS
  <2>6. DeedKeeps(db', r, {Do("wipe")}, "wipe", {"commits"})
    BY <2>4, <2>5
  <2>7. Due(db', r, {Do("wipe")})
    BY <2>3, <2>6 DEF Due, DeedKeeps
  <2> QED
    BY <2>7, DueBefore
<1>10. RowsDue'
  <2>1. \A r : Alike(r)' = Alike(r)
    BY <1>2 DEF Alike
  <2> QED
    BY <1>2, <1>6, <1>9, <2>1 DEF RowsDue
<1> QED
  BY <1>5, <1>6, <1>7, <1>10 DEF SeedInv, Counted, RowsFresh

LEMMA SeedStep == SeedInv /\ [SeedNext]_seedVars => SeedInv'
<1> SUFFICES ASSUME SeedInv, [SeedNext]_seedVars PROVE SeedInv'
  OBVIOUS
<1>1. CASE StartSeed
  BY <1>1, StartStep
<1>2. CASE SeedSection
  BY <1>2, SectionStep
<1>3. CASE SeedFails
  BY <1>3, FailsStep
<1>4. CASE SeedGit
  BY <1>4, SeedGitStep
<1>5. ASSUME NEW b \in LeaveBalance, ApproveSeeded(b) PROVE SeedInv'
  BY <1>5, ApproveStep
<1>6. CASE UNCHANGED seedVars
  BY <1>6
     DEF seedVars, SeedInv, RowsOK, ProgressOK, Counted, CountedIn, RowsDue, RowsFresh, Begun, Alike
<1> QED
  BY <1>1, <1>2, <1>3, <1>4, <1>5, <1>6 DEF SeedNext

LEMMA SeedInvHolds == SeedSpec => []SeedInv
BY SeedInitially, SeedStep, PTL DEF SeedSpec

\* The commands keep the types of the rows and of their progress (cmd/seed, main).
THEOREM SeedTypeCorrect == SeedSpec => []SeedTypeOK
<1>1. SeedInv => SeedTypeOK
  BY WindowCounts DEF SeedInv, RowsOK, ProgressOK, SeedTypeOK
<1> QED
  BY <1>1, SeedInvHolds, PTL

\* Where all is due of two databases, they agree but for what piles up.
LEMMA DueIsAll ==
  ASSUME NEW d, NEW e, NEW r, Due(d, r, Passed(27 + Windows)), Due(e, r, Passed(27 + Windows))
  PROVE  \A table \in Tables \ Piles : d[table] = e[table]
<1> DEFINE All == Passed(27 + Windows)
<1>1. /\ \A what \in Deeds : Do(what) \in All
      /\ \A name \in FixedNames : Fixed(name) \in All
      /\ \A w \in Window : Invoice(w) \in All
  BY AllPassed
<1> HIDE DEF All
<1>2. Due(d, r, All) /\ Due(e, r, All)
  BY DEF All
<1>3. /\ Do("org") \in All /\ Do("org2") \in All /\ Do("commits") \in All /\ Do("prs") \in All
      /\ Do("issues") \in All /\ Do("kudos") \in All /\ Do("deployments") \in All
      /\ Do("leave") \in All /\ Do("balances") \in All /\ Do("notifications") \in All
  <2>1. {"org", "org2", "commits", "prs", "issues", "kudos", "deployments", "leave", "balances",
         "notifications"} \subseteq Deeds
    BY DEF Deeds
  <2> QED
    BY <1>1, <2>1
<1>4. d.orgs = e.orgs /\ d.owners = e.owners
  <2>1. /\ d.orgs = Slug /\ e.orgs = Slug
        /\ d.owners \in [Slug -> SUBSET {r.admin}] /\ e.owners \in [Slug -> SUBSET {r.admin}]
        /\ \A o \in Slug : r.admin \in d.owners[o] /\ r.admin \in e.owners[o]
    BY <1>2, <1>3 DEF Due, OrgsDue, Slug
  <2>2. \A o \in Slug : d.owners[o] = {r.admin} /\ e.owners[o] = {r.admin}
    BY <2>1
  <2>3. d.owners = [o \in Slug |-> {r.admin}] /\ e.owners = [o \in Slug |-> {r.admin}]
    BY <2>1, <2>2, Zenon
  <2>4. d.orgs = e.orgs
    BY <2>1
  <2> QED
    BY <2>3, <2>4
<1>5. d.unique = e.unique
  BY <1>1, <1>2, <1>3 DEF Due, UniqueDue
<1>6. d.commits = e.commits /\ d.gitIssues = e.gitIssues /\ d.deployments = e.deployments
  BY <1>2, <1>3 DEF Due, CommitsDue, GitIssuesDue, DeploymentsDue
<1>7. d.prs = e.prs
  <2>1. /\ d.prs = [k \in SeedRow |-> d.prs[k]] /\ e.prs = [k \in SeedRow |-> e.prs[k]]
        /\ \A k \in SeedRow : d.prs[k] = e.prs[k]
    BY <1>2, <1>3 DEF Due, PullsDue
  <2> QED
    BY <2>1
<1>8. d.kudos = e.kudos /\ d.channels = e.channels
  BY <1>2, <1>3 DEF Due, KudosDue
<1>9. d.approved = e.approved /\ d.pending = e.pending /\ d.used = e.used
  BY <1>2, <1>3 DEF Due, LeaveDue
<1>10. d.invoices = e.invoices /\ d.total = e.total /\ d.lines = e.lines
  <2>1. ASSUME NEW n \in DemoNumber
        PROVE  d.invoices[n] = e.invoices[n] /\ d.total[n] = e.total[n] /\ d.lines[n] = e.lines[n]
    <3>1. /\ Unnumbered(d, n)
              \/ \E w \in Delivered(r) : NumberIn(r, w) = n /\ Numbered(d, r, n, w)
          /\ Unnumbered(e, n)
              \/ \E w \in Delivered(r) : NumberIn(r, w) = n /\ Numbered(e, r, n, w)
      BY <1>2 DEF Due, InvoicesDue
    <3>2. ASSUME NEW w \in Delivered(r), NumberIn(r, w) = n
          PROVE  d.invoices[n] = w /\ e.invoices[n] = w /\ w # 0
      <4>1. w \in Window
        BY DEF Delivered
      <4>2. Invoice(w) \in All
        BY <1>1, <4>1
      <4>3. d.invoices[NumberIn(r, w)] = w /\ e.invoices[NumberIn(r, w)] = w
        BY <1>2, <4>2 DEF Due, InvoicesDue
      <4>4. w # 0
        BY <4>1, WindowCounts
      <4> QED
        BY <3>2, <4>3, <4>4
    <3> QED
      BY <3>1, <3>2 DEF Unnumbered, Numbered
  <2>2. /\ d.invoices = [n \in DemoNumber |-> d.invoices[n]]
        /\ d.total = [n \in DemoNumber |-> d.total[n]]
        /\ d.lines = [n \in DemoNumber |-> d.lines[n]]
        /\ e.invoices = [n \in DemoNumber |-> e.invoices[n]]
        /\ e.total = [n \in DemoNumber |-> e.total[n]]
        /\ e.lines = [n \in DemoNumber |-> e.lines[n]]
    BY <1>2 DEF Due, InvoicesDue
  <2> QED
    BY <2>1, <2>2
<1> QED
  BY <1>4, <1>5, <1>6, <1>7, <1>8, <1>9, <1>10 DEF Tables, Piles

\* A run of the seed command that completes after failures, on one day and for one
\* administrator, leaves what one run leaves of every table that is replaced or has a key
\* without a new id in it; with -reset it leaves all of it, whatever was there; and
\* invoices add up and the balances of its year count the approved leave, whatever came
\* before and comes after, for any draw (cmd/seed, main).
THEOREM SeedingIsSound == SeedSpec => []SeedSound
<1>1. SeedInv => SeedSound
  <2> SUFFICES ASSUME SeedInv PROVE SeedSound
    OBVIOUS
  <2>1. seeding = "done" => Begun /\ at = 27 + Windows /\ run \in Run
    BY WindowCounts DEF SeedInv, ProgressOK, Begun
  <2>2. FreshAfterReset
    <3>1. Fresh(run) = RowsAfter(run)[27 + Windows]
      BY SectionsAre DEF Fresh
    <3> QED
      BY <2>1, <3>1 DEF SeedInv, RowsFresh, FreshAfterReset
  <2>3. SafeRerun
    <3> SUFFICES ASSUME seeding = "done", ~lived, \A r \in since : [r EXCEPT !.reset = run.reset] = run
                 PROVE  \A table \in DOMAIN db \ Piles : db[table] = Fresh(run)[table]
      BY DEF SafeRerun
    <3>1. Alike(run)
      <4> SUFFICES ASSUME NEW q \in since PROVE q.day = run.day /\ q.admin = run.admin
        BY DEF Alike
      <4>1. q \in Run /\ [q EXCEPT !.reset = run.reset] = run
        BY DEF SeedInv, ProgressOK
      <4>2. /\ [q EXCEPT !.reset = run.reset].day = q.day
            /\ [q EXCEPT !.reset = run.reset].admin = q.admin
        BY <4>1 DEF Run
      <4> QED
        BY <4>1, <4>2
    <3>2. Due(db, run, Passed(27 + Windows))
      BY <2>1, <3>1 DEF SeedInv, RowsDue
    <3>3. Due(Fresh(run), run, Passed(27 + Windows))
      BY <2>1, FreshIsDue
    <3>4. DOMAIN db = Tables
      BY TablesAre DEF SeedInv, RowsOK
    <3> QED
      BY <3>2, <3>3, <3>4, DueIsAll
  <2>4. SeededAddsUp
    BY <2>1, WindowCounts DEF SeedInv, RowsOK, Counted, CountedIn, SeededAddsUp
  <2> QED
    BY <2>2, <2>3, <2>4 DEF SeedSound
<1> QED
  BY <1>1, SeedInvHolds, PTL

-----------------------------------------------------------------------------
(* Notifications *)

\* How far a day is into its week, whatever day that is.
LEMMA Remainders ==
  ASSUME NEW W \in Nat \ {0}, NEW x \in Nat
  PROVE  /\ x \div W \in Nat /\ x % W \in 0 .. W - 1
         /\ x = W * (x \div W) + (x % W)
OBVIOUS

LEMMA Quotient ==
  ASSUME NEW W \in Nat \ {0}, NEW x \in Nat, NEW q \in Int, NEW r \in 0 .. W - 1, x = W * q + r
  PROVE  x \div W = q /\ x % W = r
OBVIOUS

\* A week begins WeekDays after the one before it, and the days of one week are those
\* from its beginning to the next one's.
LEMMA WeekBegins ==
  ASSUME NEW W \in Nat \ {0}, NEW d \in Nat \ {0}
  PROVE  /\ (d - 1) \div W \in Nat
         /\ d - (((d % W) + W - 1) % W) = 1 + W * ((d - 1) \div W)
<1>1. PICK x, q, r : x = d - 1 /\ q = x \div W /\ r = x % W
  OBVIOUS
<1>2. q \in Nat /\ r \in 0 .. W - 1 /\ d - 1 = W * q + r
  <2>1. x \in Nat
    BY <1>1
  <2> QED
    BY <1>1, <2>1, Remainders
<1>3. CASE r = W - 1
  <2>1. d = W * (q + 1) + 0
    BY <1>2, <1>3
  <2>2. d % W = 0
    BY <2>1, <1>2, Quotient
  <2>3. W - 1 \in Nat /\ W - 1 = W * 0 + (W - 1) /\ W - 1 \in 0 .. W - 1
    OBVIOUS
  <2>4. (W - 1) % W = W - 1
    BY <2>3, Quotient
  <2>5. 0 + W - 1 = W - 1
    OBVIOUS
  <2> QED
    BY <1>1, <1>2, <1>3, <2>2, <2>4, <2>5
<1>4. CASE r < W - 1
  <2>1. d = W * q + (r + 1) /\ r + 1 \in 0 .. W - 1
    BY <1>2, <1>4
  <2>2. d % W = r + 1
    BY <2>1, <1>2, Quotient
  <2>3. (r + 1) + W - 1 = W * 1 + r
    BY <1>2
  <2>4. (r + 1 + W - 1) % W = r
    BY <2>3, <1>2, Quotient
  <2> QED
    BY <1>1, <1>2, <2>2, <2>4
<1> QED
  BY <1>2, <1>3, <1>4

LEMMA InWeek ==
  ASSUME NEW W \in Nat \ {0}, NEW q \in Int, NEW u \in Int
  PROVE  ((u - 1) \div W = q) <=> (1 + W * q <= u /\ u < 1 + W * q + W)
OBVIOUS

\* The days, the work and the leave a digest reads.
FactsOK ==
  /\ today \in 1 .. EndOfTime
  /\ WorkBy(work, today)
  /\ away \in [AwayEntry -> AwayState]

LEMMA AwayListed ==
  ASSUME FactsOK
  PROVE  OOO.lines = OutNextWeek /\ OOO.empty = (OutNextWeek = {})
<1>1. WeekDays \in Nat \ {0} /\ EndOfTime \in Nat /\ today \in 1 .. EndOfTime
  BY NotificationAssumption DEF FactsOK
<1>2. PICK no : no = WeekNo(today)
  OBVIOUS
<1>3. no \in Nat /\ startOfWeek(today) = 1 + WeekDays * no
  <2>1. today \in Nat \ {0}
    BY <1>1
  <2> QED
    BY <1>1, <1>2, <2>1, WeekBegins DEF startOfWeek, DayOfWeek, WeekNo
<1>4. PICK from : from = startOfWeek(today) + WeekDays
  OBVIOUS
<1>5. from = 1 + WeekDays * (no + 1) /\ from \in Nat
  BY <1>1, <1>3, <1>4
<1>6. 1 + WeekDays * no <= today
  BY <1>1, <1>2, InWeek DEF WeekNo
<1>7. NextWeek = from .. (from + WeekDays - 1)
  <2>1. ASSUME NEW d \in Int
        PROVE  WeekNo(d) = no + 1 <=> (from <= d /\ d < from + WeekDays)
    BY <1>1, <1>3, <1>5, InWeek DEF WeekNo
  <2>2. \A d \in from .. (from + WeekDays - 1) : d \in 1 .. (EndOfTime + 2 * WeekDays)
    BY <1>1, <1>3, <1>4, <1>5, <1>6
  <2> QED
    BY <1>1, <1>2, <1>5, <2>1, <2>2 DEF NextWeek
<1>8. ListOOOInPeriod(from, from + WeekDays) = OutNextWeek
  <2>1. ASSUME NEW l \in AwayEntry
        PROVE  AwayFrom[l] < from + WeekDays /\ AwayTo[l] >= from
                 <=> (from .. (from + WeekDays - 1)) \cap (AwayFrom[l] .. AwayTo[l]) # {}
    <3>1. PICK a \in Int, b \in Int : a = AwayFrom[l] /\ b = AwayTo[l] /\ a <= b
      BY NotificationAssumption
    <3>2. ASSUME a < from + WeekDays, b >= from
          PROVE  (from .. (from + WeekDays - 1)) \cap (a .. b) # {}
      <4>1. CASE a <= from
        <5>1. from \in (from .. (from + WeekDays - 1)) \cap (a .. b)
          BY <1>1, <1>5, <3>1, <3>2, <4>1
        <5> QED
          BY <5>1
      <4>2. CASE a > from
        <5>1. a \in (from .. (from + WeekDays - 1)) \cap (a .. b)
          BY <1>1, <1>5, <3>1, <3>2, <4>2
        <5> QED
          BY <5>1
      <4> QED
        BY <1>5, <3>1, <4>1, <4>2
    <3>3. ASSUME NEW d \in (from .. (from + WeekDays - 1)) \cap (a .. b)
          PROVE  a < from + WeekDays /\ b >= from
      BY <1>1, <1>5, <3>1, <3>3
    <3> QED
      BY <3>1, <3>2, <3>3
  <2> QED
    BY <1>7, <2>1 DEF ListOOOInPeriod, OutNextWeek
<1> QED
  BY <1>4, <1>8 DEF OOO, Digest

LEMMA StaleListed ==
  ASSUME FactsOK
  PROVE  StalePRs.lines = LongOpen /\ StalePRs.empty = (LongOpen = {})
<1>1. StaleDays \in Nat /\ today \in Nat
  BY NotificationAssumption DEF FactsOK
<1>2. ASSUME NEW n \in DOMAIN work.pulls
      PROVE  (/\ work.pulls[n].state = "open" /\ ~Merged(work.pulls[n])
              /\ work.pulls[n].created < today - StaleDays)
             <=> (/\ work.pulls[n].state = "open"
                  /\ today \notin work.pulls[n].created .. (work.pulls[n].created + StaleDays))
  <2>1. PICK p : p = work.pulls[n]
    OBVIOUS
  <2>2. p \in PullOf(today)
    BY <2>1 DEF FactsOK, WorkBy
  <2>3. p.created \in 1 .. today /\ (p.state = "merged" <=> p.merged # 0)
    BY <2>2 DEF PullOf
  <2> QED
    BY <1>1, <2>1, <2>3 DEF Merged
<1>3. ListStalePRs = LongOpen
  BY <1>2 DEF ListStalePRs, LongOpen
<1> QED
  BY <1>3 DEF StalePRs, Digest

LEMMA WeekCounted ==
  ASSUME FactsOK
  PROVE  StatusRead(1) = ShippedThisWeek
<1>1. WeekDays \in Nat \ {0} /\ today \in Nat \ {0}
  BY NotificationAssumption DEF FactsOK
<1>2. PICK no, from : no = WeekNo(today) /\ from = startOfWeek(today)
  OBVIOUS
<1>3. no \in Nat /\ from = 1 + WeekDays * no
  BY <1>1, <1>2, WeekBegins DEF startOfWeek, DayOfWeek, WeekNo
<1>4. ASSUME NEW u \in Nat
      PROVE  Between(u, from, from + WeekDays) <=> ThisWeek(u)
  BY <1>1, <1>2, <1>3, InWeek DEF Between, ThisWeek, WeekNo
<1>5. \A n \in DOMAIN work.issues : work.issues[n].updated \in Nat
  <2> SUFFICES ASSUME NEW n \in DOMAIN work.issues PROVE work.issues[n].updated \in Nat
    OBVIOUS
  <2>1. work.issues[n] \in IssueOf(today)
    BY DEF FactsOK, WorkBy
  <2> QED
    BY <1>1, <2>1 DEF IssueOf
<1>6. \A n \in DOMAIN work.pulls : /\ work.pulls[n].merged \in Nat
                                   /\ Merged(work.pulls[n]) <=> work.pulls[n].state = "merged"
  <2> SUFFICES ASSUME NEW n \in DOMAIN work.pulls
               PROVE  /\ work.pulls[n].merged \in Nat
                      /\ Merged(work.pulls[n]) <=> work.pulls[n].state = "merged"
    OBVIOUS
  <2>1. work.pulls[n] \in PullOf(today)
    BY DEF FactsOK, WorkBy
  <2> QED
    BY <1>1, <2>1 DEF PullOf, Merged
<1>7. \A n \in DOMAIN work.commits : work.commits[n] \in Nat
  BY <1>1 DEF FactsOK, WorkBy
<1>8. CountRows(work.issues, LAMBDA i : IsOver(i) /\ Between(i.updated, from, from + WeekDays))
        = CountRows(work.issues, LAMBDA i : IsOver(i) /\ ThisWeek(i.updated))
  BY <1>4, <1>5 DEF CountRows
<1>9. CountRows(work.pulls, LAMBDA p : Merged(p) /\ Between(p.merged, from, from + WeekDays))
        = CountRows(work.pulls, LAMBDA p : p.state = "merged" /\ ThisWeek(p.merged))
  BY <1>4, <1>6 DEF CountRows
<1>10. CountRows(work.commits, LAMBDA c : Between(c, from, from + WeekDays))
        = CountRows(work.commits, LAMBDA c : ThisWeek(c))
  BY <1>4, <1>7 DEF CountRows
<1> QED
  BY <1>2, <1>8, <1>9, <1>10 DEF StatusRead, WeeklyShippedCounts, ShippedThisWeek

\* What a read of the weekly status says follows from the work and the day.
StatusOf(n, w, d) ==
  LET Tally(rows, Test(_)) == Cardinality({i \in DOMAIN rows : Test(rows[i])})
      from == startOfWeek(d)
      recent == {i \in DOMAIN w.issues :
                   IsOver(w.issues[i]) /\ w.issues[i].updated >= d - 6 * WeekDays}
      WeekOf(i) == startOfWeek(w.issues[i].updated)
      Shipped(day) == Between(day, from, from + WeekDays)
  IN CASE n = 1 ->
            [issues |-> Tally(w.issues, LAMBDA i : IsOver(i) /\ Shipped(i.updated)),
             pulls |-> Tally(w.pulls, LAMBDA p : Merged(p) /\ Shipped(p.merged)),
             commits |-> Tally(w.commits, LAMBDA c : Shipped(c))]
       [] n = 2 ->
            [s \in {"open", "in_progress", "done"} |-> Tally(w.issues, LAMBDA i : i.state = s)]
       [] n = 3 -> [k \in {WeekOf(i) : i \in recent} |->
                      Cardinality({i \in recent : WeekOf(i) = k})]
       [] n = 4 -> Len(w.pulls) + Len(w.issues) + Len(w.commits)

LEMMA StatusIs ==
  ASSUME NEW n \in 1 .. 4
  PROVE  StatusRead(n) = StatusOf(n, work, today) /\ StatusRead(n)' = StatusOf(n, work', today')
<1>1. StatusRead(n) = StatusOf(n, work, today)
  BY DEF StatusRead, StatusOf, WeeklyShippedCounts, IssueStateRollup, WeeklyThroughput,
         RecentActivity, CountRows
<1>2. StatusRead(n)' = StatusOf(n, work', today')
  BY DEF StatusRead, StatusOf, WeeklyShippedCounts, IssueStateRollup, WeeklyThroughput,
         RecentActivity, CountRows
<1> QED
  BY <1>1, <1>2

\* A weekly status half read is a prefix of the four reads; it is of the work there is,
\* unless it is torn; and the last read is of the work there is in any case.
ReadingOK ==
  /\ \E S : reading.got \in Seq(S)
  /\ Len(reading.got) <= 4
  /\ reading = [got |-> reading.got, torn |-> reading.torn]
  /\ ~reading.torn =>
       \A n \in 1 .. Len(reading.got) : reading.got[n] = StatusRead(n)
  /\ Len(reading.got) = 4 => reading.got[4] = RecentActivity

\* Nothing is sent while digests are only built.
Unsent ==
  /\ sends = [s \in Send |-> NoSend] /\ inbox = {}
  /\ log \in [LogRow -> Nat]
  /\ \A k \in DigestKind : log[[kind |-> k, status |-> "sent"]] = 0

DigestInv == FactsOK /\ ReadingOK /\ Unsent

LEMMA NothingRead == reading = NoStatus => ReadingOK
<1> SUFFICES ASSUME reading = NoStatus PROVE ReadingOK
  OBVIOUS
<1>1. reading.got = <<>> /\ reading.got \in Seq({}) /\ Len(reading.got) = 0
  BY DEF NoStatus
<1>2. reading = [got |-> reading.got, torn |-> reading.torn]
  BY DEF NoStatus
<1> QED
  BY <1>1, <1>2 DEF ReadingOK

LEMMA NothingReadNext == reading' = NoStatus => ReadingOK'
<1> SUFFICES ASSUME reading' = NoStatus PROVE ReadingOK'
  OBVIOUS
<1>1. reading'.got = <<>> /\ reading'.got \in Seq({}) /\ Len(reading'.got) = 0
  BY DEF NoStatus
<1>2. reading' = [got |-> reading'.got, torn |-> reading'.torn]
  BY DEF NoStatus
<1> QED
  BY <1>1, <1>2 DEF ReadingOK

LEMMA DigestsTrueOf ==
  ASSUME FactsOK, ReadingOK
  PROVE  DigestsTrue
<1>1. OOO.lines = OutNextWeek /\ StalePRs.lines = LongOpen
  BY AwayListed, StaleListed
<1>2. ASSUME Len(reading.got) = 4
      PROVE  LET d == WeeklyStatus(reading.got)
             IN /\ ~reading.torn => d.metrics = <<ShippedThisWeek.issues, ShippedThisWeek.pulls,
                                                  ShippedThisWeek.commits>>
                /\ d.empty => work = NoWork
                /\ (~reading.torn /\ work = NoWork) => d.empty
  <2>1. PICK got, d : got = reading.got /\ d = WeeklyStatus(got)
    OBVIOUS
  <2>2. /\ d.metrics = <<got[1].issues, got[1].pulls, got[1].commits>>
        /\ d.empty <=> /\ got[1].issues = 0 /\ got[1].pulls = 0 /\ got[1].commits = 0
                       /\ got[2]["open"] = 0 /\ got[2]["in_progress"] = 0
                       /\ got[4] = 0
    BY <2>1 DEF WeeklyStatus, Digest
  <2>3. got[4] = Len(work.pulls) + Len(work.issues) + Len(work.commits)
    BY <1>2, <2>1 DEF ReadingOK, RecentActivity
  <2>4. /\ work = [pulls |-> work.pulls, issues |-> work.issues, commits |-> work.commits]
        /\ work.pulls \in Seq(PullOf(today)) /\ work.issues \in Seq(IssueOf(today))
        /\ work.commits \in Seq(1 .. today)
    BY DEF FactsOK, WorkBy
  <2>5. ASSUME got[4] = 0 PROVE work = NoWork
    <3>1. Len(work.pulls) = 0 /\ Len(work.issues) = 0 /\ Len(work.commits) = 0
      BY <2>3, <2>4, <2>5
    <3>2. work.pulls = <<>> /\ work.issues = <<>> /\ work.commits = <<>>
      BY <2>4, <3>1
    <3> QED
      BY <2>4, <3>2 DEF NoWork
  <2>6. ASSUME ~reading.torn
        PROVE  got[1] = StatusRead(1) /\ got[2] = StatusRead(2)
    BY <1>2, <2>1, <2>6 DEF ReadingOK
  <2>7. ASSUME ~reading.torn, work = NoWork PROVE d.empty
    <3>1. work.pulls = <<>> /\ work.issues = <<>> /\ work.commits = <<>>
      BY <2>7 DEF NoWork
    <3>2. got[4] = 0
      BY <2>3, <3>1
    <3>3. Cardinality({}) = 0
      BY FS_EmptySet
    <3>4. got[1].issues = 0 /\ got[1].pulls = 0 /\ got[1].commits = 0
      BY <2>6, <2>7, <3>1, <3>3 DEF StatusRead, WeeklyShippedCounts, CountRows
    <3>5. got[2]["open"] = 0 /\ got[2]["in_progress"] = 0
      BY <2>6, <2>7, <3>1, <3>3 DEF StatusRead, IssueStateRollup, CountRows
    <3> QED
      BY <2>2, <3>2, <3>4, <3>5
  <2>8. ~reading.torn => got[1] = ShippedThisWeek
    BY <2>6, WeekCounted
  <2> QED
    BY <2>1, <2>2, <2>5, <2>7, <2>8
<1> QED
  BY <1>1, <1>2 DEF DigestsTrue

\* The work changes on a day: a status half read is torn, one whole is of the past.
LEMMA WorkStep ==
  ASSUME DigestInv, today' = today, WorkBy(work', today), Torn,
         UNCHANGED <<log, sends, inbox, away>>
  PROVE  DigestInv'
<1>1. FactsOK' /\ Unsent'
  BY DEF DigestInv, FactsOK, Unsent
<1>2. CASE Len(reading.got) \in {0, 4}
  BY <1>1, <1>2, NothingReadNext DEF Torn, DigestInv
<1>3. CASE Len(reading.got) \notin {0, 4}
  <2>1. reading' = [reading EXCEPT !.torn = TRUE]
    BY <1>3 DEF Torn
  <2>2. /\ reading'.got = reading.got /\ reading'.torn = TRUE
        /\ reading' = [got |-> reading'.got, torn |-> reading'.torn]
    BY <2>1 DEF DigestInv, ReadingOK
  <2>3. ReadingOK'
    BY <1>3, <2>2 DEF DigestInv, ReadingOK
  <2> QED
    BY <1>1, <2>3 DEF DigestInv
<1> QED
  BY <1>2, <1>3

LEMMA WorkChanged ==
  ASSUME NEW w, NEW d, WorkBy(w, d), NEW p \in Seq(PullOf(d)), NEW i \in Seq(IssueOf(d)),
         NEW c \in Seq(1 .. d)
  PROVE  /\ WorkBy([w EXCEPT !.pulls = p], d)
         /\ WorkBy([w EXCEPT !.issues = i], d)
         /\ WorkBy([w EXCEPT !.commits = c], d)
<1>1. PICK P, I, C : P = Seq(PullOf(d)) /\ I = Seq(IssueOf(d)) /\ C = Seq(1 .. d)
  OBVIOUS
<1>2. /\ w = [pulls |-> w.pulls, issues |-> w.issues, commits |-> w.commits]
      /\ w.pulls \in P /\ w.issues \in I /\ w.commits \in C
  BY <1>1 DEF WorkBy
<1>3. p \in P /\ i \in I /\ c \in C
  BY <1>1
<1>4. PICK v : v = [w EXCEPT !.pulls = p]
  OBVIOUS
<1>5. /\ v = [pulls |-> v.pulls, issues |-> v.issues, commits |-> v.commits]
      /\ v.pulls \in P /\ v.issues \in I /\ v.commits \in C
  BY <1>2, <1>3, <1>4
<1>6. PICK x : x = [w EXCEPT !.issues = i]
  OBVIOUS
<1>7. /\ x = [pulls |-> x.pulls, issues |-> x.issues, commits |-> x.commits]
      /\ x.pulls \in P /\ x.issues \in I /\ x.commits \in C
  BY <1>2, <1>3, <1>6
<1>8. PICK y : y = [w EXCEPT !.commits = c]
  OBVIOUS
<1>9. /\ y = [pulls |-> y.pulls, issues |-> y.issues, commits |-> y.commits]
      /\ y.pulls \in P /\ y.issues \in I /\ y.commits \in C
  BY <1>2, <1>3, <1>8
<1>10. WorkBy(v, d) /\ WorkBy(x, d) /\ WorkBy(y, d)
  BY <1>1, <1>5, <1>7, <1>9 DEF WorkBy
<1> QED
  BY <1>4, <1>6, <1>8, <1>10

LEMMA SeqGrows ==
  ASSUME NEW S, NEW T, S \subseteq T, NEW s \in Seq(S)
  PROVE  s \in Seq(T)
OBVIOUS

\* What is stored of a pull request by a day is of that day or before it.
LEMMA PullIsOf ==
  ASSUME today \in Nat, NEW state \in {"open", "merged", "closed"}, NEW created \in 1 .. today,
         NEW merged \in MergeDate(state, created)
  PROVE  [state |-> state, created |-> created, merged |-> merged] \in PullOf(today)
<1>1. CASE state = "merged"
  <2>1. merged \in created .. today
    BY <1>1 DEF MergeDate
  <2> QED
    BY <1>1, <2>1 DEF PullOf
<1>2. CASE state # "merged"
  <2>1. merged = 0
    BY <1>2 DEF MergeDate
  <2> QED
    BY <1>2, <2>1 DEF PullOf
<1> QED
  BY <1>1, <1>2

LEMMA PullStep ==
  ASSUME DigestInv, NEW state \in {"open", "merged", "closed"}, NEW created \in 1 .. EndOfTime,
         NEW merged \in 0 .. EndOfTime, StorePull(state, created, merged)
  PROVE  DigestInv'
<1>1. PICK p : p = [state |-> state, created |-> created, merged |-> merged]
  OBVIOUS
<1>2. today \in Nat
  BY NotificationAssumption DEF DigestInv, FactsOK
<1>3. created \in 1 .. today /\ merged \in MergeDate(state, created)
  BY <1>2 DEF StorePull
<1>4. p \in PullOf(today)
  BY <1>1, <1>2, <1>3, PullIsOf
<1>5. work' = [work EXCEPT !.pulls = Append(work.pulls, p)]
  BY <1>1 DEF StorePull
<1>6. WorkBy(work, today) /\ work.pulls \in Seq(PullOf(today))
      /\ work.issues \in Seq(IssueOf(today)) /\ work.commits \in Seq(1 .. today)
  BY DEF DigestInv, FactsOK, WorkBy
<1>7. Append(work.pulls, p) \in Seq(PullOf(today))
  BY <1>4, <1>6
<1>8. WorkBy(work', today)
  BY <1>5, <1>6, <1>7, WorkChanged
<1> QED
  BY <1>8, WorkStep DEF StorePull

LEMMA PullChanges ==
  ASSUME DigestInv, NEW n \in DOMAIN work.pulls, NEW state \in {"open", "merged", "closed"},
         NEW merged \in 0 .. EndOfTime, ChangePull(n, state, merged)
  PROVE  DigestInv'
<1>1. today \in Nat /\ work.pulls \in Seq(PullOf(today))
  BY NotificationAssumption DEF DigestInv, FactsOK, WorkBy
<1>2. PICK p \in PullOf(today) : p = work.pulls[n]
  BY <1>1
<1>3. PICK q : q = [p EXCEPT !.state = state, !.merged = merged]
  OBVIOUS
<1>4. q \in PullOf(today)
  <2>1. /\ p \in [state : {"open", "merged", "closed"}, created : 1 .. today,
                  merged : 0 .. today]
        /\ p.created \in 1 .. today
    BY <1>2 DEF PullOf
  <2>2. merged \in MergeDate(state, p.created)
    BY <1>2 DEF ChangePull
  <2>3. q = [state |-> state, created |-> p.created, merged |-> merged]
    BY <1>3, <2>1
  <2> QED
    BY <1>1, <2>1, <2>2, <2>3, PullIsOf
<1>5. work' = [work EXCEPT !.pulls = [work.pulls EXCEPT ![n] = q]]
  <2>1. work' = [work EXCEPT !.pulls[n].state = state, !.pulls[n].merged = merged]
    BY DEF ChangePull
  <2>2. PICK w, f : w = work /\ f = work.pulls
    OBVIOUS
  <2>3. /\ w = [pulls |-> w.pulls, issues |-> w.issues, commits |-> w.commits]
        /\ f = w.pulls
    BY <2>2 DEF DigestInv, FactsOK, WorkBy
  <2>4. f = [k \in DOMAIN f |-> f[k]] /\ n \in DOMAIN f /\ f[n] = p
    BY <1>1, <1>2, <2>2
  <2>5. [w EXCEPT !.pulls[n].state = state, !.pulls[n].merged = merged]
          = [w EXCEPT !.pulls = [f EXCEPT ![n] = q]]
    BY <1>3, <2>3, <2>4
  <2> QED
    BY <2>1, <2>2, <2>5
<1>6. WorkBy(work, today) /\ work.pulls \in Seq(PullOf(today))
      /\ work.issues \in Seq(IssueOf(today)) /\ work.commits \in Seq(1 .. today)
  BY DEF DigestInv, FactsOK, WorkBy
<1>7. [work.pulls EXCEPT ![n] = q] \in Seq(PullOf(today))
  BY <1>4, <1>6
<1>8. WorkBy(work', today)
  BY <1>5, <1>6, <1>7, WorkChanged
<1> QED
  BY <1>8, WorkStep DEF ChangePull

LEMMA DatesAreDays ==
  ASSUME DigestInv, NEW state, NEW day \in DatesOf(state), day <= today
  PROVE  day \in 1 .. today
<1>1. today \in Nat \ {0} /\ EndOfTime \in Nat
  BY NotificationAssumption DEF DigestInv, FactsOK
<1>2. day \in 1 .. EndOfTime \/ day = today
  BY DEF DatesOf
<1> QED
  BY <1>1, <1>2

LEMMA IssueStep ==
  ASSUME DigestInv, NEW state \in {"open", "done"}, NEW day \in DatesOf(state),
         StoreIssue(state, day)
  PROVE  DigestInv'
<1>1. day \in 1 .. today
  BY DatesAreDays DEF StoreIssue
<1>2. [state |-> state, updated |-> day] \in IssueOf(today)
  BY <1>1 DEF IssueOf
<1>3. work' = [work EXCEPT !.issues = Append(work.issues, [state |-> state, updated |-> day])]
  BY DEF StoreIssue
<1>4. WorkBy(work, today) /\ work.pulls \in Seq(PullOf(today))
      /\ work.issues \in Seq(IssueOf(today)) /\ work.commits \in Seq(1 .. today)
  BY DEF DigestInv, FactsOK, WorkBy
<1>5. Append(work.issues, [state |-> state, updated |-> day]) \in Seq(IssueOf(today))
  BY <1>2, <1>4
<1>6. WorkBy(work', today)
  BY <1>3, <1>4, <1>5, WorkChanged
<1> QED
  BY <1>6, WorkStep DEF StoreIssue

LEMMA ChangeStep ==
  ASSUME DigestInv, NEW n \in DOMAIN work.issues, NEW state \in {"open", "in_progress", "done"},
         NEW day \in DatesOf(state), ChangeIssue(n, state, day)
  PROVE  DigestInv'
<1>1. day \in 1 .. today
  BY DatesAreDays DEF ChangeIssue
<1>2. [state |-> state, updated |-> day] \in IssueOf(today)
  BY <1>1 DEF IssueOf
<1>3. work' = [work EXCEPT !.issues = [work.issues EXCEPT
                             ![n] = [state |-> state, updated |-> day]]]
  BY DEF ChangeIssue
<1>4. WorkBy(work, today) /\ work.pulls \in Seq(PullOf(today))
      /\ work.issues \in Seq(IssueOf(today)) /\ work.commits \in Seq(1 .. today)
  BY DEF DigestInv, FactsOK, WorkBy
<1>5. [work.issues EXCEPT ![n] = [state |-> state, updated |-> day]]
        \in Seq(IssueOf(today))
  BY <1>2, <1>4
<1>6. WorkBy(work', today)
  BY <1>3, <1>4, <1>5, WorkChanged
<1> QED
  BY <1>6, WorkStep DEF ChangeIssue

LEMMA CommitStored ==
  ASSUME DigestInv, NEW day \in 1 .. EndOfTime, StoreCommit(day)
  PROVE  DigestInv'
<1>1. day \in 1 .. today
  BY NotificationAssumption DEF DigestInv, FactsOK, StoreCommit
<1>2. work' = [work EXCEPT !.commits = Append(work.commits, day)]
  BY DEF StoreCommit
<1>3. WorkBy(work, today) /\ work.pulls \in Seq(PullOf(today))
      /\ work.issues \in Seq(IssueOf(today)) /\ work.commits \in Seq(1 .. today)
  BY DEF DigestInv, FactsOK, WorkBy
<1>4. Append(work.commits, day) \in Seq(1 .. today)
  BY <1>1, <1>3
<1>5. WorkBy(work', today)
  BY <1>2, <1>3, <1>4, WorkChanged
<1> QED
  BY <1>5, WorkStep DEF StoreCommit

\* Where the work and the day stay, so does what was read of them.
LEMMA ReadingStays ==
  ASSUME ReadingOK, UNCHANGED <<work, today, reading>>
  PROVE  ReadingOK'
<1>1. \A n \in 1 .. 4 : StatusRead(n)' = StatusRead(n)
  BY StatusIs
<1>2. \A n \in 1 .. Len(reading.got) : n \in 1 .. 4
  BY DEF ReadingOK
<1>3. ~reading.torn => \A n \in 1 .. Len(reading.got) : reading.got[n] = StatusRead(n)'
  BY <1>1, <1>2 DEF ReadingOK
<1> QED
  BY <1>3 DEF ReadingOK, RecentActivity

LEMMA VerdictDecided ==
  ASSUME DigestInv, NEW l \in AwayEntry, NEW verdict \in {"approved", "rejected"},
         DecideAway(l, verdict)
  PROVE  DigestInv'
<1>1. away' = [away EXCEPT ![l] = verdict] /\ verdict \in AwayState
  BY DEF DecideAway, AwayState
<1>2. FactsOK'
  BY <1>1 DEF DigestInv, FactsOK, DecideAway
<1> QED
  BY <1>2, ReadingStays DEF DigestInv, Unsent, DecideAway

LEMMA DayStep ==
  ASSUME DigestInv, NextDay
  PROVE  DigestInv'
<1>1. today' = today + 1 /\ today' \in 1 .. EndOfTime /\ today \in Nat
  BY NotificationAssumption DEF DigestInv, FactsOK, NextDay
<1>2. PullOf(today) \subseteq PullOf(today') /\ IssueOf(today) \subseteq IssueOf(today')
      /\ 1 .. today \subseteq 1 .. today'
  BY <1>1 DEF PullOf, IssueOf
<1>3. WorkBy(work, today')
  <2>1. /\ work = [pulls |-> work.pulls, issues |-> work.issues, commits |-> work.commits]
        /\ work.pulls \in Seq(PullOf(today)) /\ work.issues \in Seq(IssueOf(today))
        /\ work.commits \in Seq(1 .. today)
    BY DEF DigestInv, FactsOK, WorkBy
  <2>2. work.pulls \in Seq(PullOf(today'))
    BY <1>2, <2>1
  <2>3. work.issues \in Seq(IssueOf(today'))
    BY <1>2, <2>1
  <2>4. work.commits \in Seq(1 .. today')
    BY <1>2, <2>1, SeqGrows
  <2> QED
    BY <2>1, <2>2, <2>3, <2>4 DEF WorkBy
<1>4. FactsOK'
  BY <1>1, <1>3 DEF DigestInv, FactsOK, NextDay
<1> QED
  BY <1>4, NothingReadNext DEF DigestInv, Unsent, NextDay

LEMMA ReadStep ==
  ASSUME DigestInv, ReadStatus
  PROVE  DigestInv'
<1>1. PICK S : reading.got \in Seq(S)
  BY DEF DigestInv, ReadingOK
<1>2. PICK k \in 1 .. 4 : k = Len(reading.got) + 1
  BY <1>1 DEF ReadStatus
<1>3. PICK x : x = StatusRead(k)
  OBVIOUS
<1>4. reading' = [reading EXCEPT !.got = Append(reading.got, x)]
  BY <1>2, <1>3 DEF ReadStatus
<1>5. reading'.got = Append(reading.got, x) /\ reading'.torn = reading.torn
      /\ reading' = [got |-> reading'.got, torn |-> reading'.torn]
  BY <1>4 DEF DigestInv, ReadingOK
<1>6. /\ reading'.got \in Seq(S \cup {x}) /\ Len(reading'.got) = k
      /\ reading'.got[k] = x
      /\ \A n \in 1 .. k - 1 : reading'.got[n] = reading.got[n]
  <2>1. reading.got \in Seq(S \cup {x})
    BY <1>1
  <2> QED
    BY <1>2, <1>5, <2>1
<1>7. \A n \in 1 .. 4 : StatusRead(n)' = StatusRead(n)
  BY StatusIs DEF ReadStatus
<1>8. ~reading'.torn => \A n \in 1 .. Len(reading'.got) : reading'.got[n] = StatusRead(n)'
  BY <1>2, <1>3, <1>5, <1>6, <1>7 DEF DigestInv, ReadingOK
<1>9. Len(reading'.got) = 4 => reading'.got[4] = RecentActivity'
  <2>1. StatusRead(4) = RecentActivity /\ RecentActivity' = RecentActivity
    BY DEF StatusRead, RecentActivity, ReadStatus
  <2> QED
    BY <1>3, <1>6, <2>1
<1>10. ReadingOK'
  BY <1>2, <1>5, <1>6, <1>8, <1>9 DEF ReadingOK
<1> QED
  BY <1>10 DEF DigestInv, FactsOK, Unsent, ReadStatus

LEMMA PreviewStep ==
  ASSUME DigestInv, NEW kind \in DigestKind, Preview(kind)
  PROVE  DigestInv'
<1>1. PICK row \in LogRow : row = [kind |-> kind, status |-> "preview"]
  BY DEF LogRow
<1>2. log' = [log EXCEPT ![row] = log[row] + 1]
  BY <1>1 DEF Preview, WriteNotificationLog
<1>3. \A k \in DigestKind : [kind |-> k, status |-> "sent"] # row
                            /\ [kind |-> k, status |-> "sent"] \in LogRow
  BY <1>1 DEF LogRow
<1>4. Unsent'
  BY <1>2, <1>3 DEF DigestInv, Unsent, Preview
<1> QED
  BY <1>4, ReadingStays DEF DigestInv, FactsOK, Preview

LEMMA DigestStutter ==
  ASSUME DigestInv, UNCHANGED notificationVars
  PROVE  DigestInv'
BY ReadingStays DEF DigestInv, FactsOK, Unsent, notificationVars

LEMMA DigestStep ==
  ASSUME DigestInv, DigestNext
  PROVE  DigestInv'
BY PullStep, PullChanges, IssueStep, ChangeStep, CommitStored, VerdictDecided, DayStep, ReadStep,
   PreviewStep DEF DigestNext

LEMMA FactsInitially ==
  ASSUME NotificationInit
  PROVE  FactsOK /\ reading = NoStatus /\ Unsent
<1>1. FactsOK
  BY NotificationAssumption DEF NotificationInit, FactsOK
<1>2. Unsent
  BY DEF NotificationInit, Unsent, LogRow
<1> QED
  BY <1>1, <1>2 DEF NotificationInit

\* Where nothing is sent, nothing is told of sends.
LEMMA UnsentTold ==
  ASSUME Unsent
  PROVE  SendsTold
<1>1. \A s \in Send : /\ sends[s] = NoSend /\ sends[s].phase = "idle"
                      /\ sends[s].results = <<>>
  BY DEF Unsent, NoSend
<1>2. \A s \in Send : \A status_ : ResultsOf(s, status_) = {}
  BY <1>1 DEF ResultsOf
<1>3. \A s \in Send : ArrivedOf(s) = {}
  BY DEF Unsent, ArrivedOf
<1>4. ASSUME NEW k \in DigestKind
      PROVE  LogRows(k, "sent")
               = Cardinality({s \in Send : k \in ResultsOf(s, "sent") \ sends[s].unlogged})
  <2>1. {s \in Send : k \in ResultsOf(s, "sent") \ sends[s].unlogged} = {}
    BY <1>2
  <2> QED
    BY <2>1, FS_EmptySet DEF Unsent, LogRows
<1> QED
  BY <1>1, <1>2, <1>3, <1>4 DEF Unsent, SendsTold

\* Whatever is written while digests are built, and on whatever day of the week, they
\* say what there is (internal/notifications/digest.go, Build).
THEOREM DigestsAreSound == DigestSpec => []NotificationsSound
<1>1. NotificationInit => DigestInv
  BY FactsInitially, NothingRead DEF DigestInv
<1>2. DigestInv /\ [DigestNext]_notificationVars => DigestInv'
  BY DigestStep, DigestStutter
<1>3. DigestInv => NotificationsSound
  BY DigestsTrueOf, UnsentTold DEF DigestInv, NotificationsSound
<1> QED
  BY <1>1, <1>2, <1>3, PTL DEF DigestSpec

\* A channel's digests are asked for once each.
Distinct(ks) == \A i, j \in 1 .. Len(ks) : ks[i] = ks[j] => i = j

LEMMA Joined ==
  ASSUME NEW s \in Seq(DigestKind), Distinct(s), NEW k \in DigestKind, NEW ds,
         \A i \in 1 .. Len(s) : s[i] # k, NEW both, both = s \o IfAsked(k, ds)
  PROVE  /\ both \in Seq(DigestKind)
         /\ Distinct(both)
         /\ \A i \in 1 .. Len(both) : both[i] \in {k} \cup {s[j] : j \in 1 .. Len(s)}
<1>1. CASE k \in ds
  <2>0. <<k>> \in Seq(DigestKind) /\ Len(<<k>>) = 1 /\ <<k>>[1] = k
    OBVIOUS
  <2>1. PICK t : t = <<k>> /\ t \in Seq(DigestKind) /\ Len(t) = 1 /\ t[1] = k
    BY <2>0
  <2>2. PICK u : u = s \o t
    OBVIOUS
  <2>3. /\ u \in Seq(DigestKind) /\ Len(u) = Len(s) + 1
        /\ \A i \in 1 .. Len(s) : u[i] = s[i]
        /\ u[Len(s) + 1] = k
    BY <2>1, <2>2, Concatenated
  <2>4. IfAsked(k, ds) = t
    BY <1>1, <2>1 DEF IfAsked
  <2>5. \A i \in 1 .. Len(u) : i \in 1 .. Len(s) \/ i = Len(s) + 1
    BY <2>3
  <2>6. Distinct(u)
    BY <2>3, <2>5 DEF Distinct
  <2>7. \A i \in 1 .. Len(u) : u[i] = k \/ \E j \in 1 .. Len(s) : u[i] = s[j]
    BY <2>3, <2>5
  <2> QED
    BY <2>2, <2>3, <2>4, <2>6, <2>7
<1>2. CASE k \notin ds
  <2>1. s \o IfAsked(k, ds) = s
    BY <1>2 DEF IfAsked
  <2> QED
    BY <2>1
<1> QED
  BY <1>1, <1>2

LEMMA AskedOnce ==
  ASSUME NEW ds
  PROVE  enabledKinds(ds) \in Seq(DigestKind) /\ Distinct(enabledKinds(ds))
<1>1. PICK a, b : a = IfAsked("weeklyStatus", ds) /\ b = a \o IfAsked("stalePRs", ds)
  OBVIOUS
<1>2. /\ a \in Seq(DigestKind) /\ Distinct(a)
      /\ \A i \in 1 .. Len(a) : a[i] = "weeklyStatus"
  BY <1>1 DEF IfAsked, DigestKind, Distinct
<1>3. /\ b \in Seq(DigestKind) /\ Distinct(b)
      /\ \A i \in 1 .. Len(b) : b[i] \in {"weeklyStatus", "stalePRs"}
  <2>1. "stalePRs" \in DigestKind
    BY DEF DigestKind
  <2>2. \A i \in 1 .. Len(a) : a[i] # "stalePRs"
    BY <1>2
  <2>3. /\ b \in Seq(DigestKind) /\ Distinct(b)
        /\ \A i \in 1 .. Len(b) : b[i] \in {"stalePRs"} \cup {a[j] : j \in 1 .. Len(a)}
    BY <1>1, <1>2, <2>1, <2>2, Joined
  <2> QED
    BY <1>2, <2>3
<1>4. PICK c : c = b \o IfAsked("ooo", ds)
  OBVIOUS
<1>5. c \in Seq(DigestKind) /\ Distinct(c)
  <2>1. "ooo" \in DigestKind
    BY DEF DigestKind
  <2> QED
    BY <1>3, <1>4, <2>1, Joined
<1> QED
  BY <1>1, <1>4, <1>5 DEF enabledKinds

-----------------------------------------------------------------------------
\* What a test send has come to.

Result == [kind : DigestKind, status : {"sent", "failed", "skipped"}]
Halted == {"idle", "refused", "not found"}
Truth(k, out, long) == IF k = "ooo" THEN out ELSE long
Truthful(m, out, long) ==
  m.kind # "weeklyStatus" => m.payload.lines = Truth(m.kind, out, long)
Called(t, k) ==
  \E n \in DOMAIN t.results : t.results[n] = [kind |-> k, status |-> "sent"]
JustSent(t, k) == t.phase = "log" /\ t.outcome = "sent" /\ k = Head(t.left)
SentIn(t, k) == Called(t, k) /\ k \notin t.unlogged

\* The answers given and the digests left are those that were asked for.
InOrder(t) ==
  /\ t.asked \in Seq(DigestKind) /\ t.left \in Seq(DigestKind) /\ t.results \in Seq(Result)
  /\ Len(t.results) + Len(t.left) = Len(t.asked)
  /\ \A n \in 1 .. Len(t.results) : t.results[n].kind = t.asked[n]
  /\ \A n \in 1 .. Len(t.left) : t.left[n] = t.asked[Len(t.results) + n]
  /\ Distinct(t.asked)

Phased(t, out, long) ==
  /\ t.phase \in {"build", "deliver", "log", "done"} \cup Halted
  /\ t.phase \in Halted => /\ t.asked = <<>> /\ t.left = <<>> /\ t.results = <<>>
                           /\ t.unlogged = {} /\ t.unsure = {}
  /\ t.phase = "done" => t.left = <<>>
  /\ t.phase \in {"build", "deliver", "log"} =>
       t.left # <<>> /\ \E row : t.channel = {row} /\ row.kind \in ChannelKind
  /\ t.phase = "deliver" =>
       \E d : /\ t.digest = <<d>>
              /\ Head(t.left) # "weeklyStatus" =>
                   (IF d.empty THEN {} ELSE d.lines) = Truth(Head(t.left), out, long)
  /\ t.phase = "log" => t.outcome \in {"sent", "failed", "skipped"}

\* What is called sent arrived, and what arrived is called sent or lost its answer.
Told(s, t, box) ==
  /\ \A k \in DigestKind : Called(t, k) \/ JustSent(t, k) =>
       \E m \in box : m.send = s /\ m.kind = k
  /\ \A m \in box : m.send = s => m \in t.unsure \/ Called(t, m.kind) \/ JustSent(t, m.kind)

SendOK(s, t, box, out, long) ==
  /\ t = [phase |-> t.phase, channel |-> t.channel, asked |-> t.asked, left |-> t.left,
          digest |-> t.digest, outcome |-> t.outcome, results |-> t.results,
          unlogged |-> t.unlogged, unsure |-> t.unsure]
  /\ Phased(t, out, long)
  /\ InOrder(t)
  /\ t.unlogged \subseteq {t.results[n].kind : n \in DOMAIN t.results}
  /\ \A m \in t.unsure : m.send = s /\ m.kind \in DigestKind /\ Truthful(m, out, long)
  /\ Told(s, t, box)

ChannelsOK(cs) ==
  \A c \in DOMAIN cs : cs[c].kind \in ChannelKind
                       /\ cs[c] = [kind |-> cs[c].kind, target |-> cs[c].target,
                                   digests |-> cs[c].digests, gone |-> cs[c].gone]

BoxOK(box, out, long) ==
  \A m \in box : m.send \in Send /\ m.kind \in DigestKind /\ Truthful(m, out, long)

SentRow(k) == [kind |-> k, status |-> "sent"]
LogOK(l, ts) ==
  /\ l \in [LogRow -> Nat]
  /\ \A k \in DigestKind : l[SentRow(k)] = Cardinality({s \in Send : SentIn(ts[s], k)})

SendInv ==
  /\ FactsOK /\ reading = NoStatus
  /\ ChannelsOK(channels)
  /\ sends = [s \in Send |-> sends[s]]
  /\ \A s \in Send : SendOK(s, sends[s], inbox, OutNextWeek, LongOpen)
  /\ BoxOK(inbox, OutNextWeek, LongOpen)
  /\ LogOK(log, sends)

\* What is sent shows what there is.
LEMMA BuildShows ==
  ASSUME FactsOK, NEW k \in DigestKind, k # "weeklyStatus"
  PROVE  (IF Build(k).empty THEN {} ELSE Build(k).lines) = Truth(k, OutNextWeek, LongOpen)
<1>1. CASE k = "ooo"
  BY <1>1, AwayListed DEF Build, Truth
<1>2. CASE k = "stalePRs"
  BY <1>2, StaleListed DEF Build, Truth
<1> QED
  BY <1>1, <1>2 DEF DigestKind

LEMMA PayloadShows ==
  ASSUME NEW kind \in ChannelKind, NEW d
  PROVE  PayloadFor(kind, d).lines = IF d.empty THEN {} ELSE d.lines
<1>1. kind \in {"slack", "webhook", "discord", "google_chat", "teams", "email"}
  BY NotificationAssumption
<1> QED
  BY <1>1 DEF PayloadFor, renderSlack, renderDiscord, renderGoogleChat, renderTeams,
              renderText, Shown

\* While the work, the leave and the day stay, so does what a digest shows of them.
LEMMA EvidenceStays ==
  ASSUME UNCHANGED <<today, work, away>>
  PROVE  OutNextWeek' = OutNextWeek /\ LongOpen' = LongOpen
BY DEF OutNextWeek, NextWeek, WeekNo, LongOpen

\* A step of one send leaves the others as they are, whatever arrived of its own.
LEMMA OneSend ==
  ASSUME SendInv, NEW s \in Send, NEW u, sends' = [sends EXCEPT ![s] = u],
         NEW arrived, inbox' = inbox \cup arrived, \A m \in arrived : m.send = s,
         UNCHANGED <<today, work, away, reading>>, ChannelsOK(channels'),
         SendOK(s, u, inbox', OutNextWeek, LongOpen),
         BoxOK(arrived, OutNextWeek, LongOpen), LogOK(log', sends')
  PROVE  SendInv'
<1>1. OutNextWeek' = OutNextWeek /\ LongOpen' = LongOpen
  BY EvidenceStays
<1>2. FactsOK' /\ reading' = NoStatus
  BY DEF SendInv, FactsOK
<1>3. sends' = [x \in Send |-> sends'[x]] /\ sends'[s] = u
      /\ \A x \in Send \ {s} : sends'[x] = sends[x]
  BY DEF SendInv
<1>4. ASSUME NEW x \in Send \ {s}
      PROVE  SendOK(x, sends'[x], inbox', OutNextWeek, LongOpen)
  <2>1. PICK t : t = sends[x] /\ t = sends'[x]
    BY <1>3
  <2>2. SendOK(x, t, inbox, OutNextWeek, LongOpen)
    BY <2>1 DEF SendInv
  <2>3. Told(x, t, inbox')
    BY <2>2 DEF SendOK, Told
  <2> QED
    BY <2>1, <2>2, <2>3 DEF SendOK
<1>5. \A x \in Send : SendOK(x, sends'[x], inbox', OutNextWeek, LongOpen)
  BY <1>3, <1>4
<1>6. BoxOK(inbox', OutNextWeek, LongOpen)
  BY DEF SendInv, BoxOK
<1> QED
  BY <1>1, <1>2, <1>3, <1>5, <1>6 DEF SendInv

LEMMA QuietSend ==
  ASSUME SendInv, NEW s \in Send, NEW u, sends' = [sends EXCEPT ![s] = u],
         UNCHANGED <<inbox, channels, today, work, away, reading>>,
         SendOK(s, u, inbox, OutNextWeek, LongOpen), LogOK(log', sends')
  PROVE  SendInv'
<1>1. PICK none : none = {}
  OBVIOUS
<1>2. /\ inbox' = inbox \cup none /\ \A m \in none : m.send = s
      /\ BoxOK(none, OutNextWeek, LongOpen) /\ ChannelsOK(channels')
  BY <1>1 DEF BoxOK, SendInv
<1>3. SendOK(s, u, inbox', OutNextWeek, LongOpen)
  OBVIOUS
<1> QED
  BY <1>2, <1>3, OneSend

\* A send that calls nothing else sent leaves the log as true as it was.
LEMMA LogStays ==
  ASSUME SendInv, NEW s \in Send, NEW u, sends' = [sends EXCEPT ![s] = u], log' = log,
         \A k \in DigestKind : SentIn(u, k) <=> SentIn(sends[s], k)
  PROVE  LogOK(log', sends')
<1>1. \A x \in Send : \A k \in DigestKind : SentIn(sends'[x], k) <=> SentIn(sends[x], k)
  BY DEF SendInv
<1>2. \A k \in DigestKind :
        {x \in Send : SentIn(sends'[x], k)} = {x \in Send : SentIn(sends[x], k)}
  BY <1>1
<1> QED
  BY <1>2 DEF SendInv, LogOK

LEMMA LoadStep ==
  ASSUME SendInv, NEW s \in Send, NEW c \in Channel, LoadChannel(s, c)
  PROVE  SendInv'
<1>1. PICK t : t = sends[s]
  OBVIOUS
<1>2. PICK row, kinds : row = channels[c] /\ kinds = enabledKinds(row.digests)
  OBVIOUS
<1>3. PICK u : u = IF row.gone THEN [t EXCEPT !.phase = "not found"]
                   ELSE IF kinds = <<>> THEN [t EXCEPT !.phase = "refused"]
                   ELSE [t EXCEPT !.phase = "build", !.asked = kinds, !.left = kinds,
                           !.channel = {[id |-> c, kind |-> row.kind, target |-> row.target]}]
  OBVIOUS
<1>4. sends' = [sends EXCEPT ![s] = u]
  BY <1>1, <1>2, <1>3 DEF LoadChannel
<1>5. /\ SendOK(s, t, inbox, OutNextWeek, LongOpen) /\ t.phase = "idle"
      /\ row.kind \in ChannelKind /\ kinds \in Seq(DigestKind) /\ Distinct(kinds)
  BY <1>1, <1>2, AskedOnce DEF SendInv, LoadChannel, ChannelsOK
<1>6. /\ t.asked = <<>> /\ t.left = <<>> /\ t.results = <<>> /\ t.unlogged = {}
      /\ t.unsure = {}
  BY <1>5 DEF SendOK, Phased, Halted
<1>7. /\ u = [phase |-> u.phase, channel |-> u.channel, asked |-> u.asked, left |-> u.left,
             digest |-> u.digest, outcome |-> u.outcome, results |-> u.results,
             unlogged |-> u.unlogged, unsure |-> u.unsure]
      /\ u.results = <<>> /\ u.unlogged = {} /\ u.unsure = {}
      /\ \/ u.phase \in {"not found", "refused"} /\ u.asked = <<>> /\ u.left = <<>>
         \/ /\ u.phase = "build" /\ u.asked = kinds /\ u.left = kinds /\ kinds # <<>>
            /\ u.channel = {[id |-> c, kind |-> row.kind, target |-> row.target]}
  BY <1>3, <1>5, <1>6 DEF SendOK
<1>8. \A k : ~Called(u, k) /\ ~JustSent(u, k) /\ ~Called(t, k) /\ ~JustSent(t, k)
  <2>1. \A n \in DOMAIN <<>> : FALSE
    OBVIOUS
  <2>2. \A k : ~Called(u, k) /\ ~Called(t, k)
    BY <1>6, <1>7, <2>1 DEF Called
  <2>3. u.phase # "log" /\ t.phase # "log"
    BY <1>5, <1>7
  <2> QED
    BY <2>2, <2>3 DEF JustSent
<1>9. Told(s, u, inbox)
  BY <1>5, <1>6, <1>8 DEF SendOK, Told
<1>10. InOrder(u)
  <2>1. <<>> \in Seq(DigestKind) /\ <<>> \in Seq(Result) /\ Len(<<>>) = 0 /\ Distinct(<<>>)
    BY DEF Distinct
  <2>2. \A n \in 1 .. Len(kinds) : kinds[n] = kinds[0 + n]
    BY <1>5
  <2>3. CASE u.asked = <<>> /\ u.left = <<>>
    <3>1. /\ Len(u.results) = 0 /\ Len(u.left) = 0 /\ Len(u.asked) = 0
          /\ u.asked \in Seq(DigestKind) /\ u.left \in Seq(DigestKind)
          /\ u.results \in Seq(Result) /\ Distinct(u.asked)
      BY <1>7, <2>1, <2>3
    <3>2. \A n \in 1 .. 0 : FALSE
      OBVIOUS
    <3> QED
      BY <3>1, <3>2 DEF InOrder
  <2>4. CASE u.asked = kinds /\ u.left = kinds
    <3>1. /\ Len(u.results) = 0 /\ Len(u.left) = Len(u.asked)
          /\ u.asked \in Seq(DigestKind) /\ u.left \in Seq(DigestKind)
          /\ u.results \in Seq(Result) /\ Distinct(u.asked)
      BY <1>5, <1>7, <2>1, <2>4
    <3>2. Len(u.left) \in Nat /\ \A n \in 1 .. Len(u.left) : n = 0 + n /\ u.left[n] = u.asked[n]
      BY <1>5, <2>4
    <3>3. \A n \in 1 .. 0 : FALSE
      OBVIOUS
    <3> QED
      BY <3>1, <3>2, <3>3 DEF InOrder
  <2> QED
    BY <1>7, <2>3, <2>4
<1>11. Phased(u, OutNextWeek, LongOpen)
  <2>1. CASE u.phase \in {"not found", "refused"}
    BY <1>7, <2>1 DEF Phased, Halted
  <2>2. CASE u.phase = "build"
    <3>1. PICK loaded : loaded = [id |-> c, kind |-> row.kind, target |-> row.target]
      OBVIOUS
    <3>2. u.channel = {loaded} /\ loaded.kind \in ChannelKind /\ u.left # <<>>
      BY <1>5, <1>7, <2>2, <3>1
    <3> QED
      BY <2>2, <3>2 DEF Phased, Halted
  <2> QED
    BY <1>7, <2>1, <2>2
<1>12. SendOK(s, u, inbox, OutNextWeek, LongOpen)
  BY <1>7, <1>9, <1>10, <1>11 DEF SendOK
<1>13. LogOK(log', sends')
  <2>1. \A k \in DigestKind : SentIn(u, k) <=> SentIn(t, k)
    BY <1>8 DEF SentIn
  <2> QED
    BY <1>1, <1>4, <2>1, LogStays DEF LoadChannel
<1> QED
  BY <1>4, <1>12, <1>13, QuietSend DEF LoadChannel

LEMMA OutcomeIs ==
  ASSUME NEW s \in Send, sends = [x \in Send |-> sends[x]], NEW o
  PROVE  Outcome(s, o)
           = [sends EXCEPT ![s] = [sends[s] EXCEPT !.phase = "log", !.outcome = o,
                                                   !.digest = <<>>]]
BY DEF Outcome

\* A digest is done with, sent or not; what arrived of it, or may, is what was built.
DoneWith(t, o, late) ==
  [t EXCEPT !.phase = "log", !.outcome = o, !.digest = <<>>, !.unsure = t.unsure \cup late]
AreOf(ms, s, k, out, long) ==
  \A m \in ms : m.send = s /\ m.kind = k /\ Truthful(m, out, long)
Fits(o, late, arrived) ==
  (o = "sent" => arrived # {}) /\ (o # "sent" => arrived \subseteq late)

LEMMA Concludes ==
  ASSUME NEW s \in Send, NEW t, NEW box, NEW out, NEW long, SendOK(s, t, box, out, long),
         t.phase \in {"build", "deliver"}, NEW o \in {"sent", "failed", "skipped"},
         NEW late, NEW arrived,
         AreOf(late \cup arrived, s, Head(t.left), out, long), Fits(o, late, arrived)
  PROVE  SendOK(s, DoneWith(t, o, late), box \cup arrived, out, long)
<1>0. PICK u : u = DoneWith(t, o, late)
  OBVIOUS
<1>1. /\ u = [phase |-> u.phase, channel |-> u.channel, asked |-> u.asked, left |-> u.left,
             digest |-> u.digest, outcome |-> u.outcome, results |-> u.results,
             unlogged |-> u.unlogged, unsure |-> u.unsure]
      /\ u.phase = "log" /\ u.outcome = o /\ u.unsure = t.unsure \cup late
      /\ u.asked = t.asked /\ u.left = t.left /\ u.results = t.results
      /\ u.unlogged = t.unlogged /\ u.channel = t.channel
  BY <1>0 DEF SendOK, DoneWith
<1>2. InOrder(u)
  BY <1>1 DEF SendOK, InOrder
<1>3. Phased(u, out, long)
  BY <1>1 DEF SendOK, Phased, Halted
<1>4. Head(t.left) \in DigestKind
  <2>1. t.left \in Seq(DigestKind) /\ t.left # <<>>
    BY DEF SendOK, InOrder, Phased
  <2> QED
    BY <2>1
<1>5. \A k : Called(u, k) <=> Called(t, k)
  BY <1>1 DEF Called
<1>6. \A k : JustSent(u, k) <=> (o = "sent" /\ k = Head(t.left))
  BY <1>1 DEF JustSent
<1>7. \A k : ~JustSent(t, k)
  BY DEF JustSent
<1>8. Told(s, u, box \cup arrived)
  <2>1. ASSUME NEW k \in DigestKind, Called(u, k) \/ JustSent(u, k)
        PROVE  \E m \in box \cup arrived : m.send = s /\ m.kind = k
    <3>1. CASE Called(u, k)
      BY <1>5, <3>1 DEF SendOK, Told
    <3>2. CASE JustSent(u, k)
      BY <1>6, <3>2 DEF AreOf, Fits
    <3> QED
      BY <2>1, <3>1, <3>2
  <2>2. ASSUME NEW m \in box \cup arrived, m.send = s
        PROVE  m \in u.unsure \/ Called(u, m.kind) \/ JustSent(u, m.kind)
    <3>1. CASE m \in box
      BY <1>1, <1>5, <1>7, <2>2, <3>1 DEF SendOK, Told
    <3>2. CASE m \in arrived
      BY <1>1, <1>6, <3>2 DEF AreOf, Fits
    <3> QED
      BY <3>1, <3>2
  <2> QED
    BY <2>1, <2>2 DEF Told
<1>9. \A m \in u.unsure : m.send = s /\ m.kind \in DigestKind /\ Truthful(m, out, long)
  BY <1>1, <1>4 DEF SendOK, AreOf
<1>10. u.unlogged \subseteq {u.results[n].kind : n \in DOMAIN u.results}
  BY <1>1 DEF SendOK
<1> QED
  BY <1>0, <1>1, <1>2, <1>3, <1>8, <1>9, <1>10 DEF SendOK

LEMMA NoneTaken ==
  ASSUME NEW t, NEW s, NEW box, NEW out, NEW long, SendOK(s, t, box, out, long),
         NEW o, NEW late, NEW k
  PROVE  SentIn(DoneWith(t, o, late), k) <=> SentIn(t, k)
<1>1. PICK u : u = DoneWith(t, o, late)
  OBVIOUS
<1>2. u.results = t.results /\ u.unlogged = t.unlogged
  BY <1>1 DEF SendOK, DoneWith
<1> QED
  BY <1>1, <1>2 DEF SentIn, Called

LEMMA ConcludeStep ==
  ASSUME SendInv, NEW s \in Send, sends[s].phase \in {"build", "deliver"},
         NEW o \in {"sent", "failed", "skipped"}, NEW late, NEW arrived,
         AreOf(late \cup arrived, s, Head(sends[s].left), OutNextWeek, LongOpen),
         Fits(o, late, arrived),
         sends' = [Outcome(s, o) EXCEPT ![s].unsure = @ \cup late],
         inbox' = inbox \cup arrived, UNCHANGED <<channels, log, today, work, away, reading>>
  PROVE  SendInv'
<1>1. PICK t : t = sends[s]
  OBVIOUS
<1>2. SendOK(s, t, inbox, OutNextWeek, LongOpen) /\ sends = [x \in Send |-> sends[x]]
  BY <1>1 DEF SendInv
<1>3. PICK u : u = DoneWith(t, o, late)
  OBVIOUS
<1>4. sends' = [sends EXCEPT ![s] = u]
  <2>1. PICK v : v = [t EXCEPT !.phase = "log", !.outcome = o, !.digest = <<>>]
    OBVIOUS
  <2>2. Outcome(s, o) = [sends EXCEPT ![s] = v]
    BY <1>1, <1>2, <2>1, OutcomeIs
  <2>3. sends' = [[sends EXCEPT ![s] = v] EXCEPT ![s].unsure = @ \cup late]
    BY <2>2
  <2>4. sends' = [sends EXCEPT ![s] = [v EXCEPT !.unsure = v.unsure \cup late]]
    BY <1>2, <2>3
  <2>5. [v EXCEPT !.unsure = v.unsure \cup late] = u
    BY <1>2, <1>3, <2>1 DEF SendOK, DoneWith
  <2> QED
    BY <2>4, <2>5
<1>5. /\ SendOK(s, u, inbox \cup arrived, OutNextWeek, LongOpen)
      /\ \A k : SentIn(u, k) <=> SentIn(t, k)
  <2>1. PICK before, out, long : before = inbox /\ out = OutNextWeek /\ long = LongOpen
    OBVIOUS
  <2>2. /\ SendOK(s, t, before, out, long) /\ t.phase \in {"build", "deliver"}
        /\ AreOf(late \cup arrived, s, Head(t.left), out, long)
    BY <1>1, <1>2, <2>1
  <2>3. SendOK(s, DoneWith(t, o, late), before \cup arrived, out, long)
    BY <2>2, Concludes
  <2>4. \A k : SentIn(DoneWith(t, o, late), k) <=> SentIn(t, k)
    BY <2>2, NoneTaken
  <2> QED
    BY <1>3, <2>1, <2>3, <2>4
<1>6. LogOK(log', sends')
  BY <1>1, <1>4, <1>5, LogStays
<1>7. Head(t.left) \in DigestKind
  <2>1. t.left \in Seq(DigestKind) /\ t.left # <<>>
    BY <1>1, <1>2 DEF SendOK, InOrder, Phased
  <2> QED
    BY <2>1
<1>8. BoxOK(arrived, OutNextWeek, LongOpen) /\ \A m \in arrived : m.send = s
  BY <1>1, <1>7 DEF BoxOK, AreOf
<1>9. ChannelsOK(channels')
  BY DEF SendInv
<1> QED
  BY <1>4, <1>5, <1>6, <1>8, <1>9, OneSend

LEMMA Untouched ==
  ASSUME SendInv, NEW s \in Send, NEW o, NEW f, f = Outcome(s, o), NEW none, none = {}
  PROVE  [f EXCEPT ![s].unsure = @ \cup none] = f
<1>1. f = [sends EXCEPT ![s] = [sends[s] EXCEPT !.phase = "log", !.outcome = o,
                                                !.digest = <<>>]]
  BY OutcomeIs DEF SendInv
<1>2. PICK t : t = sends[s] /\ sends = [x \in Send |-> sends[x]]
  BY DEF SendInv
<1>3. t = [phase |-> t.phase, channel |-> t.channel, asked |-> t.asked, left |-> t.left,
           digest |-> t.digest, outcome |-> t.outcome, results |-> t.results,
           unlogged |-> t.unlogged, unsure |-> t.unsure]
  BY <1>2 DEF SendInv, SendOK
<1>4. PICK v : v = [t EXCEPT !.phase = "log", !.outcome = o, !.digest = <<>>]
  OBVIOUS
<1>5. f = [sends EXCEPT ![s] = v]
  BY <1>1, <1>2, <1>4
<1>6. v = [v EXCEPT !.unsure = v.unsure \cup none]
  BY <1>3, <1>4
<1>7. f[s] = v /\ f = [x \in Send |-> f[x]]
  BY <1>2, <1>5
<1>8. [f EXCEPT ![s].unsure = @ \cup none]
        = [f EXCEPT ![s] = [v EXCEPT !.unsure = v.unsure \cup none]]
  BY <1>7
<1>9. [f EXCEPT ![s] = v] = f
  BY <1>7
<1> QED
  BY <1>6, <1>8, <1>9

\* A digest is given up on, and nothing of it arrived.
LEMMA GiveUpStep ==
  ASSUME SendInv, NEW s \in Send, sends[s].phase \in {"build", "deliver"},
         NEW o \in {"failed", "skipped"}, sends' = Outcome(s, o),
         UNCHANGED <<channels, log, inbox, today, work, away, reading>>
  PROVE  SendInv'
<1>1. PICK none : none = {}
  OBVIOUS
<1>2. sends' = [Outcome(s, o) EXCEPT ![s].unsure = @ \cup none]
  <2>1. PICK f : f = Outcome(s, o)
    OBVIOUS
  <2>2. [f EXCEPT ![s].unsure = @ \cup none] = f
    BY <1>1, <2>1, Untouched
  <2> QED
    BY <2>1, <2>2
<1>3. /\ inbox' = inbox \cup none /\ Fits(o, none, none)
      /\ AreOf(none \cup none, s, Head(sends[s].left), OutNextWeek, LongOpen)
  BY <1>1 DEF AreOf, Fits
<1>4. UNCHANGED <<channels, log, today, work, away, reading>> /\ o \in {"sent", "failed", "skipped"}
  OBVIOUS
<1> QED
  BY <1>2, <1>3, <1>4, ConcludeStep

LEMMA LoadedIs ==
  ASSUME SendInv, NEW s \in Send, sends[s].phase \in {"build", "deliver", "log"}
  PROVE  Loaded(s).kind \in ChannelKind /\ sends[s].left # <<>> /\ Now(s) \in DigestKind
<1>1. PICK t : t = sends[s]
  OBVIOUS
<1>2. SendOK(s, t, inbox, OutNextWeek, LongOpen)
  BY <1>1 DEF SendInv
<1>3. PICK row : t.channel = {row} /\ row.kind \in ChannelKind
  BY <1>1, <1>2 DEF SendOK, Phased
<1>4. Loaded(s) = row
  BY <1>1, <1>3 DEF Loaded
<1>5. t.left # <<>> /\ t.left \in Seq(DigestKind)
  BY <1>1, <1>2 DEF SendOK, Phased, InOrder
<1>6. Head(t.left) \in DigestKind
  BY <1>5
<1> QED
  BY <1>1, <1>3, <1>4, <1>5, <1>6 DEF Now

\* What a delivery brings is the digest that was built.
LEMMA ArrivalTrue ==
  ASSUME SendInv, NEW s \in Send, sends[s].phase = "deliver", NEW ms, ms \subseteq {Arrival(s)}
  PROVE  AreOf(ms, s, Head(sends[s].left), OutNextWeek, LongOpen)
<1>1. PICK t : t = sends[s]
  OBVIOUS
<1>2. SendOK(s, t, inbox, OutNextWeek, LongOpen) /\ t.phase = "deliver"
  BY <1>1 DEF SendInv
<1>3. PICK d : /\ t.digest = <<d>>
               /\ Head(t.left) # "weeklyStatus" =>
                    (IF d.empty THEN {} ELSE d.lines) = Truth(Head(t.left), OutNextWeek, LongOpen)
  BY <1>2 DEF SendOK, Phased
<1>4. PICK kind : kind = Loaded(s).kind /\ kind \in ChannelKind
  BY LoadedIs
<1>5. PICK p : p = PayloadFor(kind, d)
  OBVIOUS
<1>6. p.lines = IF d.empty THEN {} ELSE d.lines
  BY <1>4, <1>5, PayloadShows
<1>7. Head(t.digest) = d
  BY <1>3
<1>8. Arrival(s) = [send |-> s, kind |-> Head(t.left), payload |-> p]
  BY <1>1, <1>4, <1>5, <1>7 DEF Arrival, Now
<1>9. PICK m : m = [send |-> s, kind |-> Head(t.left), payload |-> p]
  OBVIOUS
<1>10. m.send = s /\ m.kind = Head(t.left) /\ m.payload = p
  BY <1>9
<1>11. Truthful(m, OutNextWeek, LongOpen)
  BY <1>3, <1>6, <1>10 DEF Truthful
<1> QED
  BY <1>1, <1>8, <1>9, <1>10, <1>11 DEF AreOf

LEMMA BuildStep ==
  ASSUME SendInv, NEW s \in Send, BuildDigest(s)
  PROVE  SendInv'
<1>1. CASE Loaded(s).kind = "email" /\ ~smtp
  <2>1. sends' = Outcome(s, "skipped")
    BY <1>1 DEF BuildDigest
  <2>2. UNCHANGED <<channels, log, inbox, today, work, away, reading>>
        /\ sends[s].phase \in {"build", "deliver"} /\ "skipped" \in {"failed", "skipped"}
    BY DEF BuildDigest
  <2> QED
    BY <2>1, <2>2, GiveUpStep
<1>2. CASE ~(Loaded(s).kind = "email" /\ ~smtp)
  <2>1. PICK t, d : t = sends[s] /\ d = Build(Now(s))
    OBVIOUS
  <2>2. PICK u : u = [t EXCEPT !.phase = "deliver", !.digest = <<d>>]
    OBVIOUS
  <2>3. sends' = [sends EXCEPT ![s] = u] /\ t.phase = "build"
    BY <1>2, <2>1, <2>2 DEF BuildDigest
  <2>4. SendOK(s, t, inbox, OutNextWeek, LongOpen)
    BY <2>1 DEF SendInv
  <2>5. /\ u = [phase |-> u.phase, channel |-> u.channel, asked |-> u.asked,
               left |-> u.left, digest |-> u.digest, outcome |-> u.outcome,
               results |-> u.results, unlogged |-> u.unlogged, unsure |-> u.unsure]
        /\ u.phase = "deliver" /\ u.digest = <<d>> /\ u.unsure = t.unsure
        /\ u.asked = t.asked /\ u.left = t.left /\ u.results = t.results
        /\ u.unlogged = t.unlogged /\ u.channel = t.channel
    BY <2>2, <2>4 DEF SendOK
  <2>6. InOrder(u)
    BY <2>4, <2>5 DEF SendOK, InOrder
  <2>7. Head(t.left) \in DigestKind /\ Head(t.left) = Now(s)
    BY <2>1, <2>3, LoadedIs DEF Now
  <2>8. Head(u.left) # "weeklyStatus" =>
          (IF d.empty THEN {} ELSE d.lines) = Truth(Head(u.left), OutNextWeek, LongOpen)
    BY <2>1, <2>5, <2>7, BuildShows DEF SendInv
  <2>9. Phased(u, OutNextWeek, LongOpen)
    <3>1. u.left # <<>> /\ \E row : u.channel = {row} /\ row.kind \in ChannelKind
      BY <2>3, <2>4, <2>5 DEF SendOK, Phased
    <3> QED
      BY <2>5, <2>8, <3>1 DEF Phased, Halted
  <2>10. /\ \A k : Called(u, k) <=> Called(t, k)
         /\ \A k : ~JustSent(u, k) /\ ~JustSent(t, k)
    BY <2>3, <2>5 DEF Called, JustSent
  <2>11. Told(s, u, inbox)
    BY <2>4, <2>5, <2>10 DEF SendOK, Told
  <2>12. SendOK(s, u, inbox, OutNextWeek, LongOpen)
    BY <2>4, <2>5, <2>6, <2>9, <2>11 DEF SendOK
  <2>13. LogOK(log', sends')
    <3>1. \A k \in DigestKind : SentIn(u, k) <=> SentIn(t, k)
      BY <2>5, <2>10 DEF SentIn
    <3> QED
      BY <2>1, <2>3, <3>1, LogStays DEF BuildDigest
  <2> QED
    BY <2>3, <2>12, <2>13, QuietSend DEF BuildDigest
<1> QED
  BY <1>1, <1>2

LEMMA DeliveryStep ==
  ASSUME SendInv, NEW s \in Send,
         \/ Deliver(s)
         \/ DeliverUnanswered(s)
         \/ DeliverTimesOut(s)
  PROVE  SendInv'
<1>1. PICK one, none : one = {Arrival(s)} /\ none = {}
  OBVIOUS
<1>2. /\ sends[s].phase = "deliver" /\ sends[s].phase \in {"build", "deliver"}
      /\ UNCHANGED <<channels, log, today, work, away, reading>>
  BY DEF Deliver, DeliverUnanswered, DeliverTimesOut
<1>3. \A ms : ms \subseteq one =>
        AreOf(ms, s, Head(sends[s].left), OutNextWeek, LongOpen)
  BY <1>1, <1>2, ArrivalTrue
<1>4. CASE Deliver(s)
  <2>1. PICK f : f = Outcome(s, "sent")
    OBVIOUS
  <2>2. [f EXCEPT ![s].unsure = @ \cup none] = f
    BY <1>1, <2>1, Untouched, <1>2
  <2>3. sends' = [Outcome(s, "sent") EXCEPT ![s].unsure = @ \cup none]
    BY <1>4, <2>1, <2>2 DEF Deliver
  <2>4. inbox' = inbox \cup one /\ Fits("sent", none, one)
    BY <1>1, <1>4 DEF Deliver, Fits
  <2>5. AreOf(none \cup one, s, Head(sends[s].left), OutNextWeek, LongOpen)
    BY <1>1, <1>3
  <2>6. "sent" \in {"sent", "failed", "skipped"}
    OBVIOUS
  <2> QED
    BY <1>2, <2>3, <2>4, <2>5, <2>6, ConcludeStep
<1>5. CASE DeliverUnanswered(s)
  <2>1. sends' = [Outcome(s, "failed") EXCEPT ![s].unsure = @ \cup one]
    BY <1>1, <1>5 DEF DeliverUnanswered
  <2>2. inbox' = inbox \cup one /\ Fits("failed", one, one)
    BY <1>1, <1>5 DEF DeliverUnanswered, Fits
  <2>3. AreOf(one \cup one, s, Head(sends[s].left), OutNextWeek, LongOpen)
    BY <1>1, <1>3
  <2>4. "failed" \in {"sent", "failed", "skipped"}
    OBVIOUS
  <2> QED
    BY <1>2, <2>1, <2>2, <2>3, <2>4, ConcludeStep
<1>6. CASE DeliverTimesOut(s)
  <2>1. sends' = [Outcome(s, "failed") EXCEPT ![s].unsure = @ \cup one]
    BY <1>1, <1>6 DEF DeliverTimesOut
  <2>2. inbox' = inbox \cup none /\ Fits("failed", one, none)
    BY <1>1, <1>6 DEF DeliverTimesOut, Fits
  <2>3. AreOf(one \cup none, s, Head(sends[s].left), OutNextWeek, LongOpen)
    BY <1>1, <1>3
  <2>4. "failed" \in {"sent", "failed", "skipped"}
    OBVIOUS
  <2> QED
    BY <1>2, <2>1, <2>2, <2>3, <2>4, ConcludeStep
<1> QED
  BY <1>4, <1>5, <1>6

LEMMA MailStep ==
  ASSUME SendInv, NEW s \in Send, MailArrivesLate(s)
  PROVE  SendInv'
<1>1. PICK m : m \in sends[s].unsure /\ inbox' = inbox \cup {m}
  BY DEF MailArrivesLate
<1>2. PICK t, one : t = sends[s] /\ one = {m}
  OBVIOUS
<1>3. SendOK(s, t, inbox, OutNextWeek, LongOpen) /\ sends = [x \in Send |-> sends[x]]
  BY <1>2 DEF SendInv
<1>4. m.send = s /\ m.kind \in DigestKind /\ Truthful(m, OutNextWeek, LongOpen)
      /\ m \in t.unsure
  BY <1>1, <1>2, <1>3 DEF SendOK
<1>5. /\ inbox' = inbox \cup one /\ \A x \in one : x.send = s
      /\ BoxOK(one, OutNextWeek, LongOpen)
  BY <1>1, <1>2, <1>4 DEF BoxOK
<1>6. sends' = [sends EXCEPT ![s] = t]
  BY <1>2, <1>3 DEF MailArrivesLate
<1>7. Told(s, t, inbox')
  BY <1>2, <1>3, <1>4, <1>5 DEF SendOK, Told
<1>8. SendOK(s, t, inbox', OutNextWeek, LongOpen)
  BY <1>3, <1>7 DEF SendOK
<1>9. LogOK(log', sends')
  BY <1>2, <1>6, LogStays DEF MailArrivesLate
<1>10. UNCHANGED <<today, work, away, reading>> /\ ChannelsOK(channels')
  BY DEF MailArrivesLate, SendInv
<1> QED
  BY <1>5, <1>6, <1>8, <1>9, <1>10, OneSend

-----------------------------------------------------------------------------
\* The answer to a digest, and its row in the log.

WithAnswer(t, logged) ==
  [t EXCEPT !.phase = IF Len(t.left) = 1 THEN "done" ELSE "build",
            !.left = Tail(t.left),
            !.results = Append(t.results, [kind |-> Head(t.left), status |-> t.outcome]),
            !.outcome = "",
            !.unlogged = IF logged THEN t.unlogged ELSE t.unlogged \cup {Head(t.left)}]

LEMMA AnsweredIs ==
  ASSUME NEW s \in Send, sends = [x \in Send |-> sends[x]], NEW logged
  PROVE  NextKind(s, logged) = [sends EXCEPT ![s] = WithAnswer(sends[s], logged)]
BY DEF NextKind, WithAnswer, Now

IsAnswer(t, u, logged) ==
  /\ u = [phase |-> u.phase, channel |-> u.channel, asked |-> u.asked, left |-> u.left,
          digest |-> u.digest, outcome |-> u.outcome, results |-> u.results,
          unlogged |-> u.unlogged, unsure |-> u.unsure]
  /\ u.phase = IF Len(t.left) = 1 THEN "done" ELSE "build"
  /\ u.left = Tail(t.left)
  /\ u.results = Append(t.results, [kind |-> Head(t.left), status |-> t.outcome])
  /\ u.unlogged = IF logged THEN t.unlogged ELSE t.unlogged \cup {Head(t.left)}
  /\ u.asked = t.asked /\ u.channel = t.channel /\ u.unsure = t.unsure
Longer(t, u) ==
  /\ \A n \in DOMAIN t.results : n \in DOMAIN u.results /\ u.results[n] = t.results[n]
  /\ \A n \in DOMAIN u.results : n \in DOMAIN t.results \/ n = Len(t.results) + 1
  /\ Len(t.results) + 1 \in DOMAIN u.results
  /\ u.results[Len(t.results) + 1] = [kind |-> Head(t.left), status |-> t.outcome]

LEMMA AnswerParts ==
  ASSUME NEW s, NEW t, NEW box, NEW out, NEW long, SendOK(s, t, box, out, long),
         NEW logged
  PROVE  IsAnswer(t, WithAnswer(t, logged), logged)
<1>0. PICK u : u = WithAnswer(t, logged)
  OBVIOUS
<1>1. t = [phase |-> t.phase, channel |-> t.channel, asked |-> t.asked, left |-> t.left,
           digest |-> t.digest, outcome |-> t.outcome, results |-> t.results,
           unlogged |-> t.unlogged, unsure |-> t.unsure]
  BY DEF SendOK
<1>2. PICK p, q, r, g : /\ p = (IF Len(t.left) = 1 THEN "done" ELSE "build")
                        /\ q = Tail(t.left)
                        /\ r = Append(t.results, [kind |-> Head(t.left), status |-> t.outcome])
                        /\ g = IF logged THEN t.unlogged ELSE t.unlogged \cup {Head(t.left)}
  OBVIOUS
<1>3. u = [t EXCEPT !.phase = p, !.left = q, !.results = r, !.outcome = "", !.unlogged = g]
  BY <1>0, <1>2 DEF WithAnswer
<1>4. /\ u = [phase |-> u.phase, channel |-> u.channel, asked |-> u.asked,
              left |-> u.left, digest |-> u.digest, outcome |-> u.outcome,
              results |-> u.results, unlogged |-> u.unlogged, unsure |-> u.unsure]
      /\ u.phase = p /\ u.left = q /\ u.results = r /\ u.unlogged = g
      /\ u.asked = t.asked /\ u.channel = t.channel /\ u.unsure = t.unsure
  BY <1>1, <1>3
<1> QED
  BY <1>0, <1>2, <1>4 DEF IsAnswer

LEMMA OneOn ==
  ASSUME NEW a \in Nat, NEW n \in Nat
  PROVE  a + (n + 1) = (a + 1) + n
OBVIOUS

LEMMA WithinSum ==
  ASSUME NEW a \in Nat, NEW b \in Nat \ {0}, NEW c \in Nat, a + b = c, NEW n \in 1 .. a
  PROVE  n \in 1 .. c /\ a + 1 \in 1 .. c /\ n # a + 1
OBVIOUS

\* The digest answered has not been answered before.
LEMMA NotYet ==
  ASSUME NEW s, NEW t, NEW box, NEW out, NEW long, SendOK(s, t, box, out, long),
         t.phase = "log"
  PROVE  /\ t.left \in Seq(DigestKind) /\ Len(t.left) \in Nat \ {0}
         /\ Head(t.left) \in DigestKind /\ Head(t.left) = t.asked[Len(t.results) + 1]
         /\ t.outcome \in {"sent", "failed", "skipped"}
         /\ \A n \in DOMAIN t.results : t.results[n].kind # Head(t.left)
<1>1. /\ t.left \in Seq(DigestKind) /\ t.results \in Seq(Result) /\ t.asked \in Seq(DigestKind)
      /\ t.left # <<>> /\ t.outcome \in {"sent", "failed", "skipped"}
      /\ Len(t.results) + Len(t.left) = Len(t.asked)
      /\ \A n \in 1 .. Len(t.results) : t.results[n].kind = t.asked[n]
      /\ \A n \in 1 .. Len(t.left) : t.left[n] = t.asked[Len(t.results) + n]
  BY DEF SendOK, Phased, InOrder
<1>2. Len(t.left) \in Nat \ {0} /\ Head(t.left) = t.left[1] /\ Head(t.left) \in DigestKind
      /\ 1 \in 1 .. Len(t.left)
  BY <1>1
<1>3. Head(t.left) = t.asked[Len(t.results) + 1]
  BY <1>1, <1>2
<1>4. Distinct(t.asked)
  BY DEF SendOK, InOrder
<1>5. ASSUME NEW n \in DOMAIN t.results
      PROVE  t.results[n].kind # Head(t.left)
  <2>1. n \in 1 .. Len(t.results) /\ n \in Nat /\ Len(t.results) \in Nat /\ Len(t.asked) \in Nat
    BY <1>1
  <2>2. /\ n \in 1 .. Len(t.asked) /\ Len(t.results) + 1 \in 1 .. Len(t.asked)
        /\ n # Len(t.results) + 1
    <3>1. PICK a, b, c : a = Len(t.results) /\ b = Len(t.left) /\ c = Len(t.asked)
      OBVIOUS
    <3>2. a \in Nat /\ b \in Nat \ {0} /\ c \in Nat /\ a + b = c
      BY <1>1, <1>2, <2>1, <3>1
    <3>3. n \in 1 .. a
      BY <2>1, <3>1
    <3>4. n \in 1 .. c /\ a + 1 \in 1 .. c /\ n # a + 1
      BY <3>2, <3>3, WithinSum
    <3> QED
      BY <3>1, <3>4
  <2>3. t.asked[n] # t.asked[Len(t.results) + 1]
    BY <1>1, <1>4, <2>2 DEF Distinct
  <2> QED
    BY <1>1, <1>3, <2>1, <2>3
<1> QED
  BY <1>1, <1>2, <1>3, <1>5

LEMMA AnsweredInOrder ==
  ASSUME NEW s, NEW t, NEW box, NEW out, NEW long, SendOK(s, t, box, out, long),
         t.phase = "log", NEW logged, NEW u, IsAnswer(t, u, logged)
  PROVE  /\ InOrder(u)
         /\ u.phase = "done" => u.left = <<>>
         /\ u.phase = "build" => u.left # <<>>
         /\ Longer(t, u)
<1>1. /\ t.left \in Seq(DigestKind) /\ t.results \in Seq(Result) /\ t.asked \in Seq(DigestKind)
      /\ Len(t.results) + Len(t.left) = Len(t.asked)
      /\ \A n \in 1 .. Len(t.results) : t.results[n].kind = t.asked[n]
      /\ \A n \in 1 .. Len(t.left) : t.left[n] = t.asked[Len(t.results) + n]
      /\ Distinct(t.asked)
  BY DEF SendOK, InOrder
<1>2. PICK one : one = [kind |-> Head(t.left), status |-> t.outcome]
  OBVIOUS
<1>3. /\ Len(t.left) \in Nat \ {0} /\ one \in Result /\ one.kind = t.asked[Len(t.results) + 1]
  BY <1>2, NotYet DEF Result
<1>4. /\ u.phase = IF Len(t.left) = 1 THEN "done" ELSE "build"
      /\ u.left = Tail(t.left) /\ u.results = Append(t.results, one) /\ u.asked = t.asked
  BY <1>2 DEF IsAnswer
<1>5. /\ u.left \in Seq(DigestKind) /\ Len(u.left) = Len(t.left) - 1
      /\ \A n \in 1 .. Len(u.left) : u.left[n] = t.left[n + 1]
  BY <1>1, <1>3, <1>4
<1>6. /\ u.results \in Seq(Result) /\ Len(u.results) = Len(t.results) + 1
      /\ \A n \in 1 .. Len(t.results) : u.results[n] = t.results[n]
      /\ u.results[Len(t.results) + 1] = one
  BY <1>1, <1>3, <1>4
<1>7. /\ DOMAIN u.results = 1 .. (Len(t.results) + 1) /\ DOMAIN t.results = 1 .. Len(t.results)
      /\ Len(t.results) \in Nat
  BY <1>1, <1>6
<1>8. Len(u.results) + Len(u.left) = Len(u.asked)
  <2>1. PICK a, b, c : a = Len(t.results) /\ b = Len(t.left) /\ c = Len(t.asked)
    OBVIOUS
  <2>2. a \in Nat /\ b \in Nat /\ a + b = c
    BY <1>1, <1>3, <1>7, <2>1
  <2>3. Len(u.results) = a + 1 /\ Len(u.left) = b - 1 /\ Len(u.asked) = c
    BY <1>4, <1>5, <1>6, <2>1
  <2>4. (a + 1) + (b - 1) = c
    BY <2>2
  <2> QED
    BY <2>3, <2>4
<1>9. \A n \in 1 .. Len(u.results) : u.results[n].kind = u.asked[n]
  BY <1>1, <1>3, <1>4, <1>6, <1>7
<1>10. ASSUME NEW n \in 1 .. Len(u.left)
       PROVE  u.left[n] = u.asked[Len(u.results) + n]
  <2>1. n \in Nat /\ n + 1 \in 1 .. Len(t.left)
    BY <1>3, <1>5
  <2>2. t.left[n + 1] = t.asked[Len(t.results) + (n + 1)]
    BY <1>1, <2>1
  <2>3. Len(t.results) + (n + 1) = Len(u.results) + n
    <3>1. PICK a : a = Len(t.results) /\ a \in Nat /\ Len(u.results) = a + 1
      BY <1>6, <1>7
    <3>2. a + (n + 1) = (a + 1) + n
      BY <2>1, <3>1, OneOn
    <3> QED
      BY <3>1, <3>2
  <2> QED
    BY <1>4, <1>5, <2>2, <2>3
<1>11. InOrder(u)
  BY <1>1, <1>4, <1>5, <1>6, <1>8, <1>9, <1>10 DEF InOrder
<1>12. (u.phase = "done" => u.left = <<>>) /\ (u.phase = "build" => u.left # <<>>)
  <2>1. Len(t.left) = 1 => u.left = <<>>
    BY <1>5
  <2>2. Len(t.left) # 1 => u.left # <<>>
    <3>1. PICK b : b = Len(t.left) /\ b \in Nat /\ b # 0 /\ Len(u.left) = b - 1
      BY <1>3, <1>5
    <3>2. b # 1 => b - 1 # 0
      BY <3>1
    <3>3. Len(<<>>) = 0
      OBVIOUS
    <3> QED
      BY <3>1, <3>2, <3>3
  <2> QED
    BY <1>4, <2>1, <2>2
<1>13. Longer(t, u)
  BY <1>2, <1>6, <1>7 DEF Longer
<1> QED
  BY <1>11, <1>12, <1>13

LEMMA AnswerCalls ==
  ASSUME NEW s, NEW t, NEW box, NEW out, NEW long, SendOK(s, t, box, out, long),
         t.phase = "log", NEW logged, NEW u, IsAnswer(t, u, logged), NEW k
  PROVE  /\ Called(u, k) <=> (Called(t, k) \/ JustSent(t, k))
         /\ ~JustSent(u, k)
         /\ k = Head(t.left) => ~Called(t, k)
         /\ Head(t.left) \notin t.unlogged
<1>1. /\ \A n \in DOMAIN t.results : n \in DOMAIN u.results /\ u.results[n] = t.results[n]
      /\ \A n \in DOMAIN u.results : n \in DOMAIN t.results \/ n = Len(t.results) + 1
      /\ Len(t.results) + 1 \in DOMAIN u.results
      /\ u.results[Len(t.results) + 1] = [kind |-> Head(t.left), status |-> t.outcome]
  BY AnsweredInOrder DEF Longer
<1>2. \A n \in DOMAIN t.results : t.results[n].kind # Head(t.left)
  BY NotYet
<1>3. ASSUME Called(u, k)
      PROVE  Called(t, k) \/ JustSent(t, k)
  <2>1. PICK n \in DOMAIN u.results : u.results[n] = [kind |-> k, status |-> "sent"]
    BY <1>3 DEF Called
  <2>2. CASE n \in DOMAIN t.results
    BY <1>1, <2>1, <2>2 DEF Called
  <2>3. CASE n = Len(t.results) + 1
    <3>1. [kind |-> Head(t.left), status |-> t.outcome] = [kind |-> k, status |-> "sent"]
      BY <1>1, <2>1, <2>3
    <3>2. Head(t.left) = k /\ t.outcome = "sent"
      BY <3>1
    <3> QED
      BY <3>2 DEF JustSent
  <2> QED
    BY <1>1, <2>2, <2>3
<1>4. Called(t, k) => Called(u, k)
  BY <1>1 DEF Called
<1>5. JustSent(t, k) => Called(u, k)
  BY <1>1 DEF Called, JustSent
<1>6. ~JustSent(u, k)
  <2>1. u.phase = IF Len(t.left) = 1 THEN "done" ELSE "build"
    BY DEF IsAnswer
  <2> QED
    BY <2>1 DEF JustSent
<1>7. k = Head(t.left) => ~Called(t, k)
  BY <1>2 DEF Called
<1>8. t.unlogged \subseteq {t.results[n].kind : n \in DOMAIN t.results}
  BY DEF SendOK
<1>9. Head(t.left) \notin t.unlogged
  BY <1>2, <1>8
<1> QED
  BY <1>3, <1>4, <1>5, <1>6, <1>7, <1>9

LEMMA AnswerOK ==
  ASSUME NEW s, NEW t, NEW box, NEW out, NEW long, SendOK(s, t, box, out, long),
         t.phase = "log", NEW logged
  PROVE  SendOK(s, WithAnswer(t, logged), box, out, long)
<1>1. PICK u : u = WithAnswer(t, logged) /\ IsAnswer(t, u, logged)
  BY AnswerParts
<1>2. /\ u = [phase |-> u.phase, channel |-> u.channel, asked |-> u.asked,
              left |-> u.left, digest |-> u.digest, outcome |-> u.outcome,
              results |-> u.results, unlogged |-> u.unlogged, unsure |-> u.unsure]
      /\ u.phase = IF Len(t.left) = 1 THEN "done" ELSE "build"
      /\ u.unlogged = IF logged THEN t.unlogged ELSE t.unlogged \cup {Head(t.left)}
      /\ u.channel = t.channel /\ u.unsure = t.unsure
  BY <1>1 DEF IsAnswer
<1>3. /\ InOrder(u)
      /\ u.phase = "done" => u.left = <<>>
      /\ u.phase = "build" => u.left # <<>>
      /\ Longer(t, u)
  BY <1>1, AnsweredInOrder
<1>4. u.phase \in {"build", "done"} /\ \E row : u.channel = {row} /\ row.kind \in ChannelKind
  BY <1>2 DEF SendOK, Phased
<1>5. Phased(u, out, long)
  BY <1>3, <1>4 DEF Phased, Halted
<1>6. u.unlogged \subseteq {u.results[n].kind : n \in DOMAIN u.results}
  <2>1. t.unlogged \subseteq {t.results[n].kind : n \in DOMAIN t.results}
    BY DEF SendOK
  <2>2. t.unlogged \subseteq {u.results[n].kind : n \in DOMAIN u.results}
    BY <1>3, <2>1 DEF Longer
  <2>3. Head(t.left) \in {u.results[n].kind : n \in DOMAIN u.results}
    <3>1. PICK m : m = Len(t.results) + 1
      OBVIOUS
    <3>2. m \in DOMAIN u.results /\ u.results[m] = [kind |-> Head(t.left), status |-> t.outcome]
      BY <1>3, <3>1 DEF Longer
    <3>3. u.results[m].kind = Head(t.left)
      BY <3>2
    <3> QED
      BY <3>2, <3>3
  <2> QED
    BY <1>2, <2>2, <2>3
<1>7. \A k : (Called(u, k) \/ JustSent(u, k)) <=> (Called(t, k) \/ JustSent(t, k))
  BY <1>1, AnswerCalls
<1>8. Told(s, u, box)
  BY <1>2, <1>7 DEF SendOK, Told
<1> QED
  BY <1>1, <1>2, <1>3, <1>5, <1>6, <1>8 DEF SendOK

LEMMA AnswerLogs ==
  ASSUME NEW s, NEW t, NEW box, NEW out, NEW long, SendOK(s, t, box, out, long),
         t.phase = "log", NEW k
  PROVE  /\ SentIn(WithAnswer(t, TRUE), k) <=> (SentIn(t, k) \/ JustSent(t, k))
         /\ SentIn(WithAnswer(t, FALSE), k) <=> SentIn(t, k)
         /\ JustSent(t, k) => ~SentIn(t, k)
<1>1. PICK u, v : /\ u = WithAnswer(t, TRUE) /\ v = WithAnswer(t, FALSE)
                  /\ IsAnswer(t, u, TRUE) /\ IsAnswer(t, v, FALSE)
  BY AnswerParts
<1>2. u.unlogged = t.unlogged /\ v.unlogged = t.unlogged \cup {Head(t.left)}
  BY <1>1 DEF IsAnswer
<1>3. /\ Called(u, k) <=> (Called(t, k) \/ JustSent(t, k))
      /\ k = Head(t.left) => ~Called(t, k)
      /\ Head(t.left) \notin t.unlogged
  BY <1>1, AnswerCalls
<1>4. Called(v, k) <=> (Called(t, k) \/ JustSent(t, k))
  BY <1>1, AnswerCalls
<1> QED
  BY <1>1, <1>2, <1>3, <1>4 DEF SentIn, JustSent

\* One more send is counted, and the log has one more row of the digest.
LEMMA LogGrows ==
  ASSUME SendInv, NEW s \in Send, NEW u, sends' = [sends EXCEPT ![s] = u],
         NEW k \in DigestKind,
         \A q \in DigestKind : SentIn(u, q) <=> (SentIn(sends[s], q) \/ q = k),
         ~SentIn(sends[s], k),
         log' = [log EXCEPT ![SentRow(k)] = log[SentRow(k)] + 1]
  PROVE  LogOK(log', sends')
<1>1. sends' = [x \in Send |-> sends'[x]] /\ sends'[s] = u
      /\ \A x \in Send \ {s} : sends'[x] = sends[x]
  BY DEF SendInv
<1>2. LogOK(log, sends)
  BY DEF SendInv
<1>3. \A q \in DigestKind : SentRow(q) \in LogRow
  BY DEF SentRow, LogRow
<1>4. log' \in [LogRow -> Nat]
  BY <1>2, <1>3 DEF LogOK
<1>5. ASSUME NEW q \in DigestKind
      PROVE  log'[SentRow(q)] = Cardinality({x \in Send : SentIn(sends'[x], q)})
  <2>1. PICK before, after : /\ before = {x \in Send : SentIn(sends[x], q)}
                             /\ after = {x \in Send : SentIn(sends'[x], q)}
    OBVIOUS
  <2>2. log[SentRow(q)] = Cardinality(before)
    BY <1>2, <2>1 DEF LogOK
  <2>3. CASE q = k
    <3>1. after = before \cup {s} /\ s \notin before
      BY <1>1, <2>1, <2>3
    <3>2. IsFiniteSet(before)
      BY <2>1, NotificationAssumption, FS_Subset
    <3>3. Cardinality(after) = Cardinality(before) + 1
      BY <3>1, <3>2, FS_AddElement
    <3>4. log'[SentRow(k)] = log[SentRow(k)] + 1
      BY <1>2, <1>3 DEF LogOK
    <3> QED
      BY <2>1, <2>2, <2>3, <3>3, <3>4
  <2>4. CASE q # k
    <3>1. after = before
      BY <1>1, <2>1, <2>4
    <3>2. SentRow(q) # SentRow(k)
      BY <2>4 DEF SentRow
    <3>3. log'[SentRow(q)] = log[SentRow(q)]
      BY <1>2, <1>3, <3>2 DEF LogOK
    <3> QED
      BY <2>1, <2>2, <3>1, <3>3
  <2> QED
    BY <2>3, <2>4
<1> QED
  BY <1>4, <1>5 DEF LogOK

\* A row of another status leaves the rows of what was sent.
LEMMA LogAside ==
  ASSUME SendInv, NEW s \in Send, NEW u, sends' = [sends EXCEPT ![s] = u],
         \A q \in DigestKind : SentIn(u, q) <=> SentIn(sends[s], q),
         NEW row \in LogRow, row.status # "sent",
         log' = [log EXCEPT ![row] = log[row] + 1]
  PROVE  LogOK(log', sends')
<1>1. LogOK(log, sends)
  BY DEF SendInv
<1>2. \A q \in DigestKind : SentRow(q) # row /\ SentRow(q) \in LogRow
  BY DEF SentRow, LogRow
<1>3. log' \in [LogRow -> Nat] /\ \A q \in DigestKind : log'[SentRow(q)] = log[SentRow(q)]
  BY <1>1, <1>2 DEF LogOK
<1>4. \A x \in Send : \A q \in DigestKind : SentIn(sends'[x], q) <=> SentIn(sends[x], q)
  BY DEF SendInv
<1>5. \A q \in DigestKind :
        {x \in Send : SentIn(sends'[x], q)} = {x \in Send : SentIn(sends[x], q)}
  BY <1>4
<1> QED
  BY <1>1, <1>3, <1>5 DEF LogOK

LEMMA LogSendStep ==
  ASSUME SendInv, NEW s \in Send, logSend(s)
  PROVE  SendInv'
<1>1. PICK t : t = sends[s]
  OBVIOUS
<1>2. PICK u : u = WithAnswer(t, TRUE)
  OBVIOUS
<1>3. SendOK(s, t, inbox, OutNextWeek, LongOpen) /\ sends = [x \in Send |-> sends[x]]
      /\ t.phase = "log"
  BY <1>1 DEF SendInv, logSend
<1>4. sends' = [sends EXCEPT ![s] = u]
  BY <1>1, <1>2, <1>3, AnsweredIs DEF logSend
<1>5. SendOK(s, u, inbox, OutNextWeek, LongOpen)
  BY <1>2, <1>3, AnswerOK
<1>6. PICK k : k = Head(t.left) /\ k \in DigestKind /\ k = Now(s)
  BY <1>1, <1>3, LoadedIs DEF Now
<1>7. \A q : /\ SentIn(u, q) <=> (SentIn(t, q) \/ JustSent(t, q))
             /\ JustSent(t, q) => ~SentIn(t, q)
  BY <1>2, <1>3, AnswerLogs
<1>8. t.outcome \in {"sent", "failed", "skipped"}
  BY <1>3 DEF SendOK, Phased
<1>9. CASE t.outcome = "sent"
  <2>1. \A q : JustSent(t, q) <=> q = k
    BY <1>3, <1>6, <1>9 DEF JustSent
  <2>2. /\ \A q \in DigestKind : SentIn(u, q) <=> (SentIn(sends[s], q) \/ q = k)
        /\ ~SentIn(sends[s], k)
    BY <1>1, <1>7, <2>1
  <2>3. log' = [log EXCEPT ![SentRow(k)] = log[SentRow(k)] + 1]
    BY <1>1, <1>6, <1>9 DEF logSend, WriteNotificationLog, LogStatus, SentRow
  <2>4. LogOK(log', sends')
    BY <1>4, <1>6, <2>2, <2>3, LogGrows
  <2> QED
    BY <1>4, <1>5, <2>4, QuietSend DEF logSend
<1>10. CASE t.outcome # "sent"
  <2>1. \A q : ~JustSent(t, q)
    BY <1>10 DEF JustSent
  <2>2. \A q \in DigestKind : SentIn(u, q) <=> SentIn(sends[s], q)
    BY <1>1, <1>7, <2>1
  <2>3. PICK row : row = [kind |-> k, status |-> "failed"]
    OBVIOUS
  <2>4. row \in LogRow /\ row.status # "sent"
    BY <1>6, <2>3 DEF LogRow
  <2>5. log' = [log EXCEPT ![row] = log[row] + 1]
    BY <1>1, <1>6, <1>10, <2>3 DEF logSend, WriteNotificationLog, LogStatus
  <2>6. LogOK(log', sends')
    BY <1>4, <2>2, <2>4, <2>5, LogAside
  <2> QED
    BY <1>4, <1>5, <2>6, QuietSend DEF logSend
<1> QED
  BY <1>9, <1>10

LEMMA LogFailsStep ==
  ASSUME SendInv, NEW s \in Send, logSendFails(s)
  PROVE  SendInv'
<1>1. PICK t : t = sends[s]
  OBVIOUS
<1>2. PICK u : u = WithAnswer(t, FALSE)
  OBVIOUS
<1>3. SendOK(s, t, inbox, OutNextWeek, LongOpen) /\ sends = [x \in Send |-> sends[x]]
      /\ t.phase = "log"
  BY <1>1 DEF SendInv, logSendFails
<1>4. sends' = [sends EXCEPT ![s] = u]
  BY <1>1, <1>2, <1>3, AnsweredIs DEF logSendFails
<1>5. SendOK(s, u, inbox, OutNextWeek, LongOpen)
  BY <1>2, <1>3, AnswerOK
<1>6. \A q : SentIn(u, q) <=> SentIn(t, q)
  BY <1>2, <1>3, AnswerLogs
<1>7. LogOK(log', sends')
  BY <1>1, <1>4, <1>6, LogStays DEF logSendFails
<1> QED
  BY <1>4, <1>5, <1>7, QuietSend DEF logSendFails

-----------------------------------------------------------------------------
\* The channels, and the whole.

LEMMA ChannelStep ==
  ASSUME SendInv, ChannelsOK(channels'),
         UNCHANGED <<log, sends, inbox, today, work, away, reading>>
  PROVE  SendInv'
<1>1. OutNextWeek' = OutNextWeek /\ LongOpen' = LongOpen
  BY EvidenceStays
<1>2. FactsOK' /\ reading' = NoStatus
  BY DEF SendInv, FactsOK
<1> QED
  BY <1>1, <1>2 DEF SendInv

LEMMA ChannelCreated ==
  ASSUME SendInv, NEW c \in Channel, NEW kind \in ChannelKind, NEW target, NEW ds,
         CreateChannel(c, kind, target, ds)
  PROVE  SendInv'
<1>1. ChannelsOK(channels)
  BY DEF SendInv
<1>2. PICK row : row = [kind |-> kind, target |-> target, digests |-> ds, gone |-> FALSE]
  OBVIOUS
<1>3. channels' = [x \in DOMAIN channels \cup {c} |-> IF x = c THEN row ELSE channels[x]]
  BY <1>2 DEF CreateChannel
<1>4. row.kind \in ChannelKind /\ row = [kind |-> row.kind, target |-> row.target,
                                         digests |-> row.digests, gone |-> row.gone]
  BY <1>2
<1>5. ChannelsOK(channels')
  BY <1>1, <1>3, <1>4 DEF ChannelsOK
<1> QED
  BY <1>5, ChannelStep DEF CreateChannel

LEMMA ChannelPatched ==
  ASSUME SendInv, NEW c \in DOMAIN channels, NEW target, NEW ds,
         PatchChannel(c, target, ds)
  PROVE  SendInv'
<1>1. ChannelsOK(channels)
  BY DEF SendInv
<1>2. DOMAIN channels' = DOMAIN channels
      /\ \A x \in DOMAIN channels : channels'[x] =
           IF x = c THEN [[channels[c] EXCEPT !.target = target] EXCEPT !.digests = ds]
           ELSE channels[x]
  BY DEF PatchChannel
<1>3. PICK row, after : /\ row = channels[c]
                      /\ after = [[row EXCEPT !.target = target] EXCEPT !.digests = ds]
  OBVIOUS
<1>4. row.kind \in ChannelKind /\ row = [kind |-> row.kind, target |-> row.target,
                                         digests |-> row.digests, gone |-> row.gone]
  BY <1>1, <1>3 DEF ChannelsOK
<1>5. after.kind \in ChannelKind /\ after = [kind |-> after.kind, target |-> after.target,
                                         digests |-> after.digests, gone |-> after.gone]
  BY <1>3, <1>4
<1>6. ChannelsOK(channels')
  BY <1>1, <1>2, <1>3, <1>5 DEF ChannelsOK
<1> QED
  BY <1>6, ChannelStep DEF PatchChannel

LEMMA ChannelDeleted ==
  ASSUME SendInv, NEW c \in Channel, DeleteChannel(c)
  PROVE  SendInv'
<1>1. ChannelsOK(channels) /\ c \in DOMAIN channels
  BY DEF SendInv, DeleteChannel, ChannelLive
<1>2. DOMAIN channels' = DOMAIN channels
      /\ \A x \in DOMAIN channels : channels'[x] =
           IF x = c THEN [channels[c] EXCEPT !.gone = TRUE] ELSE channels[x]
  BY DEF DeleteChannel
<1>3. PICK row, after : row = channels[c] /\ after = [row EXCEPT !.gone = TRUE]
  OBVIOUS
<1>4. row.kind \in ChannelKind /\ row = [kind |-> row.kind, target |-> row.target,
                                         digests |-> row.digests, gone |-> row.gone]
  BY <1>1, <1>3 DEF ChannelsOK
<1>5. after.kind \in ChannelKind /\ after = [kind |-> after.kind, target |-> after.target,
                                             digests |-> after.digests, gone |-> after.gone]
  BY <1>3, <1>4
<1>6. ChannelsOK(channels')
  BY <1>1, <1>2, <1>3, <1>5 DEF ChannelsOK
<1> QED
  BY <1>6, ChannelStep DEF DeleteChannel

LEMMA SendInitially ==
  ASSUME NotificationInit
  PROVE  SendInv
<1>1. FactsOK /\ reading = NoStatus
  BY FactsInitially
<1>2. inbox = {} /\ sends = [s \in Send |-> NoSend] /\ log = [row \in LogRow |-> 0]
      /\ channels = <<>>
  BY DEF NotificationInit
<1>3. ChannelsOK(channels)
  <2>1. \A c \in DOMAIN <<>> : FALSE
    OBVIOUS
  <2> QED
    BY <1>2, <2>1 DEF ChannelsOK
<1>4. PICK t : t = NoSend
  OBVIOUS
<1>5. \A n \in DOMAIN <<>> : FALSE
  OBVIOUS
<1>6. \A k : ~Called(t, k) /\ ~JustSent(t, k)
  BY <1>4, <1>5 DEF Called, JustSent, NoSend
<1>7. InOrder(t)
  <2>1. <<>> \in Seq(DigestKind) /\ <<>> \in Seq(Result) /\ Len(<<>>) = 0
    OBVIOUS
  <2>2. \A n \in 1 .. 0 : FALSE
    OBVIOUS
  <2>3. /\ Len(t.results) = 0 /\ Len(t.left) = 0 /\ Len(t.asked) = 0
        /\ t.asked \in Seq(DigestKind) /\ t.left \in Seq(DigestKind)
        /\ t.results \in Seq(Result)
    BY <1>4, <2>1 DEF NoSend
  <2>4. Distinct(t.asked)
    BY <2>2, <2>3 DEF Distinct
  <2> QED
    BY <2>2, <2>3, <2>4 DEF InOrder
<1>8. \A out, long : Phased(t, out, long)
  BY <1>4 DEF Phased, Halted, NoSend
<1>9. ASSUME NEW s \in Send
      PROVE  SendOK(s, t, inbox, OutNextWeek, LongOpen)
  <2>1. Told(s, t, inbox)
    BY <1>2, <1>6 DEF Told
  <2>2. t.unlogged = {} /\ t.unsure = {}
    BY <1>4 DEF NoSend
  <2>3. t = [phase |-> t.phase, channel |-> t.channel, asked |-> t.asked, left |-> t.left,
             digest |-> t.digest, outcome |-> t.outcome, results |-> t.results,
             unlogged |-> t.unlogged, unsure |-> t.unsure]
    BY <1>4 DEF NoSend
  <2> QED
    BY <1>7, <1>8, <2>1, <2>2, <2>3 DEF SendOK
<1>10. /\ sends = [s \in Send |-> sends[s]]
       /\ \A s \in Send : SendOK(s, sends[s], inbox, OutNextWeek, LongOpen)
  BY <1>2, <1>4, <1>9
<1>11. BoxOK(inbox, OutNextWeek, LongOpen)
  BY <1>2 DEF BoxOK
<1>12. LogOK(log, sends)
  <2>1. \A k \in DigestKind : SentRow(k) \in LogRow
    BY DEF SentRow, LogRow
  <2>2. \A k \in DigestKind : {s \in Send : SentIn(sends[s], k)} = {}
    BY <1>2, <1>4, <1>6 DEF SentIn
  <2>3. Cardinality({}) = 0
    BY FS_EmptySet
  <2> QED
    BY <1>2, <2>1, <2>2, <2>3 DEF LogOK
<1> QED
  BY <1>1, <1>3, <1>10, <1>11, <1>12 DEF SendInv

LEMMA SendStutter ==
  ASSUME SendInv, UNCHANGED notificationVars
  PROVE  SendInv'
<1>1. ChannelsOK(channels')
  BY DEF SendInv, notificationVars
<1> QED
  BY <1>1, ChannelStep DEF notificationVars

LEMMA SendStep ==
  ASSUME SendInv, SendNext
  PROVE  SendInv'
<1>1. ASSUME NEW c \in DOMAIN channels, NEW target \in Target,
             PatchChannel(c, target, channels[c].digests)
      PROVE  SendInv'
  <2>1. PICK ds : ds = channels[c].digests
    OBVIOUS
  <2> QED
    BY <1>1, <2>1, ChannelPatched
<1>2. ASSUME NEW c \in DOMAIN channels, NEW ds \in Subscriptions,
             PatchChannel(c, channels[c].target, ds)
      PROVE  SendInv'
  <2>1. PICK target : target = channels[c].target
    OBVIOUS
  <2> QED
    BY <1>2, <2>1, ChannelPatched
<1>3. ASSUME NEW s \in Send, BuildFails(s) \/ DeliverFails(s)
      PROVE  SendInv'
  <2>1. /\ sends[s].phase \in {"build", "deliver"} /\ sends' = Outcome(s, "failed")
        /\ UNCHANGED <<channels, log, inbox, today, work, away, reading>>
    BY <1>3 DEF BuildFails, DeliverFails
  <2>2. "failed" \in {"failed", "skipped"}
    OBVIOUS
  <2> QED
    BY <2>1, <2>2, GiveUpStep
<1>4. ASSUME NEW s \in Send,
             Deliver(s) \/ DeliverUnanswered(s) \/ DeliverTimesOut(s)
      PROVE  SendInv'
  BY <1>4, DeliveryStep
<1>5. ASSUME NEW s \in Send, BuildDigest(s) \/ MailArrivesLate(s)
      PROVE  SendInv'
  BY <1>5, BuildStep, MailStep
<1>6. ASSUME NEW s \in Send, logSend(s) \/ logSendFails(s)
      PROVE  SendInv'
  BY <1>6, LogSendStep, LogFailsStep
<1>7. ASSUME NEW c \in Channel, NEW kind \in ChannelKind, NEW target \in Target,
             NEW ds \in Subscriptions, CreateChannel(c, kind, target, ds)
      PROVE  SendInv'
  BY <1>7, ChannelCreated
<1>8. ASSUME NEW c \in Channel, DeleteChannel(c)
      PROVE  SendInv'
  BY <1>8, ChannelDeleted
<1>9. ASSUME NEW s \in Send, NEW c \in Channel, LoadChannel(s, c)
      PROVE  SendInv'
  BY <1>9, LoadStep
<1> QED
  BY <1>1, <1>2, <1>3, <1>4, <1>5, <1>6, <1>7, <1>8, <1>9 DEF SendNext

\* What SendsTold says of the answers of one send.
LEMMA SendTold ==
  ASSUME SendInv, NEW s \in Send
  PROVE  /\ sends[s].phase = "done" =>
              [n \in DOMAIN sends[s].results |-> sends[s].results[n].kind] = sends[s].asked
         /\ ResultsOf(s, "sent") \subseteq ArrivedOf(s)
         /\ ArrivedOf(s) \cap Concluded(s) \subseteq
              ResultsOf(s, "sent") \cup {m.kind : m \in sends[s].unsure}
<1>1. PICK t : t = sends[s]
  OBVIOUS
<1>2. SendOK(s, t, inbox, OutNextWeek, LongOpen)
  BY <1>1 DEF SendInv
<1>3. ASSUME t.phase = "done"
      PROVE  [n \in DOMAIN t.results |-> t.results[n].kind] = t.asked
  <2>1. /\ t.left = <<>> /\ t.asked \in Seq(DigestKind) /\ t.results \in Seq(Result)
        /\ Len(t.results) + Len(t.left) = Len(t.asked)
        /\ \A n \in 1 .. Len(t.results) : t.results[n].kind = t.asked[n]
    BY <1>2, <1>3 DEF SendOK, InOrder, Phased
  <2>2. Len(t.results) = Len(t.asked)
    BY <2>1
  <2>3. DOMAIN t.results = 1 .. Len(t.asked) /\ DOMAIN t.asked = 1 .. Len(t.asked)
    BY <2>1, <2>2
  <2>4. t.asked = [n \in 1 .. Len(t.asked) |-> t.asked[n]]
    BY <2>1
  <2> QED
    BY <2>1, <2>2, <2>3, <2>4
<1>4. \A k \in DigestKind : k \in ResultsOf(s, "sent") <=> Called(t, k)
  BY <1>1 DEF ResultsOf, Called
<1>5. ASSUME NEW k \in ResultsOf(s, "sent")
      PROVE  k \in ArrivedOf(s)
  <2>1. k \in DigestKind
    BY DEF ResultsOf
  <2>2. Called(t, k)
    BY <1>4, <2>1
  <2>3. PICK m \in inbox : m.send = s /\ m.kind = k
    BY <1>2, <2>1, <2>2 DEF SendOK, Told
  <2> QED
    BY <2>3 DEF ArrivedOf
<1>6. ASSUME NEW k \in ArrivedOf(s), k \in Concluded(s)
      PROVE  k \in ResultsOf(s, "sent") \cup {m.kind : m \in sends[s].unsure}
  <2>1. PICK m \in inbox : m.send = s /\ m.kind = k
    BY DEF ArrivedOf
  <2>2. m \in t.unsure \/ Called(t, k) \/ JustSent(t, k)
    BY <1>2, <2>1 DEF SendOK, Told
  <2>3. k \in DigestKind
    BY <2>1 DEF SendInv, BoxOK
  <2>4. ~JustSent(t, k)
    <3>1. PICK n \in DOMAIN t.results : t.results[n].kind = k
      BY <1>1, <1>6 DEF Concluded
    <3>2. t.phase = "log" => t.results[n].kind # Head(t.left)
      BY <1>2, NotYet
    <3> QED
      BY <3>1, <3>2 DEF JustSent
  <2> QED
    BY <1>1, <1>4, <2>1, <2>2, <2>3, <2>4
<1> QED
  BY <1>1, <1>3, <1>5, <1>6

LEMMA SendsToldOf ==
  ASSUME SendInv
  PROVE  SendsTold
<1>1. ASSUME NEW k \in DigestKind
      PROVE  LogRows(k, "sent") =
               Cardinality({s \in Send : k \in ResultsOf(s, "sent") \ sends[s].unlogged})
  <2>1. \A s \in Send : SentIn(sends[s], k) <=> k \in ResultsOf(s, "sent") \ sends[s].unlogged
    BY DEF SentIn, Called, ResultsOf
  <2>2. {s \in Send : SentIn(sends[s], k)}
          = {s \in Send : k \in ResultsOf(s, "sent") \ sends[s].unlogged}
    BY <2>1
  <2> QED
    BY <2>2 DEF SendInv, LogOK, LogRows, SentRow
<1>2. \A m \in inbox :
        m.kind # "weeklyStatus" =>
          m.payload.lines = IF m.kind = "ooo" THEN OutNextWeek ELSE LongOpen
  BY DEF SendInv, BoxOK, Truthful, Truth
<1> QED
  BY <1>1, <1>2, SendTold DEF SendsTold

\* A test send, while its channel is edited or deleted, answers once for each digest
\* that was asked for, in their order; what it calls sent arrived with the evidence
\* there was, what arrived was called sent or lost its answer, and the log counts
\* what was called sent and could be logged.
THEOREM SendsAreSound == SendSpec => []NotificationsSound
<1>1. NotificationInit => SendInv
  BY SendInitially
<1>2. SendInv /\ [SendNext]_notificationVars => SendInv'
  BY SendStep, SendStutter
<1>3. SendInv => NotificationsSound
  <2>1. SendInv => ReadingOK /\ FactsOK
    BY NothingRead DEF SendInv
  <2> QED
    BY <2>1, DigestsTrueOf, SendsToldOf DEF NotificationsSound
<1> QED
  BY <1>1, <1>2, <1>3, PTL DEF SendSpec

-----------------------------------------------------------------------------
\* Types, whichever of the two goes on.

ChannelsTyped(cs) ==
  /\ DOMAIN cs \subseteq Channel
  /\ \A c \in DOMAIN cs :
       cs[c] \in [kind : ChannelKind, target : Target, digests : SUBSET DigestKind,
                  gone : BOOLEAN]
SendTyped == SendInv /\ ChannelsTyped(channels) /\ smtp \in BOOLEAN
DigestTyped ==
  DigestInv /\ channels = <<>> /\ smtp \in BOOLEAN /\ reading.torn \in BOOLEAN

LEMMA NoChannels == ChannelsTyped(<<>>)
<1>1. DOMAIN <<>> = {}
  OBVIOUS
<1> QED
  BY <1>1 DEF ChannelsTyped

LEMMA SendTypedInitially ==
  ASSUME NotificationInit
  PROVE  SendTyped
BY SendInitially, NoChannels DEF NotificationInit, SendTyped

LEMMA CreateTyped ==
  ASSUME ChannelsTyped(channels), NEW c \in Channel, NEW kind \in ChannelKind,
         NEW target \in Target, NEW ds \in Subscriptions, CreateChannel(c, kind, target, ds)
  PROVE  ChannelsTyped(channels')
<1>1. PICK row : row = [kind |-> kind, target |-> target, digests |-> ds, gone |-> FALSE]
  OBVIOUS
<1>2. row \in [kind : ChannelKind, target : Target, digests : SUBSET DigestKind,
               gone : BOOLEAN]
  BY <1>1, NotificationAssumption
<1>3. channels' = [x \in DOMAIN channels \cup {c} |-> IF x = c THEN row ELSE channels[x]]
  BY <1>1 DEF CreateChannel
<1> QED
  BY <1>2, <1>3 DEF ChannelsTyped

LEMMA PatchTyped ==
  ASSUME ChannelsTyped(channels), NEW c \in DOMAIN channels, NEW target \in Target,
         NEW ds \in SUBSET DigestKind, PatchChannel(c, target, ds)
  PROVE  ChannelsTyped(channels')
BY DEF ChannelsTyped, PatchChannel

LEMMA DeleteTyped ==
  ASSUME ChannelsTyped(channels), NEW c \in Channel, DeleteChannel(c)
  PROVE  ChannelsTyped(channels')
BY DEF ChannelsTyped, DeleteChannel, ChannelLive

LEMMA SendTypedStep ==
  ASSUME SendTyped, [SendNext]_notificationVars
  PROVE  SendTyped'
<1>1. SendInv'
  BY SendStep, SendStutter DEF SendTyped
<1>2. ChannelsTyped(channels) /\ smtp \in BOOLEAN
  BY DEF SendTyped
<1>3. CASE UNCHANGED <<channels, smtp>>
  BY <1>1, <1>2, <1>3 DEF SendTyped
<1>4. ASSUME NEW c \in Channel, NEW kind \in ChannelKind, NEW target \in Target,
             NEW ds \in Subscriptions, CreateChannel(c, kind, target, ds)
      PROVE  SendTyped'
  BY <1>1, <1>2, <1>4, CreateTyped DEF SendTyped, CreateChannel
<1>5. ASSUME NEW c \in DOMAIN channels, NEW target \in Target,
             PatchChannel(c, target, channels[c].digests)
      PROVE  SendTyped'
  <2>1. PICK ds \in SUBSET DigestKind : ds = channels[c].digests
    BY <1>2 DEF ChannelsTyped
  <2>2. PatchChannel(c, target, ds)
    BY <1>5, <2>1
  <2> QED
    BY <1>1, <1>2, <2>2, PatchTyped DEF SendTyped, PatchChannel
<1>6. ASSUME NEW c \in DOMAIN channels, NEW ds \in Subscriptions,
             PatchChannel(c, channels[c].target, ds)
      PROVE  SendTyped'
  <2>1. PICK target \in Target : target = channels[c].target
    BY <1>2 DEF ChannelsTyped
  <2>2. PatchChannel(c, target, ds) /\ ds \in SUBSET DigestKind
    BY <1>6, <2>1, NotificationAssumption
  <2> QED
    BY <1>1, <1>2, <2>2, PatchTyped DEF SendTyped, PatchChannel
<1>7. ASSUME NEW c \in Channel, DeleteChannel(c)
      PROVE  SendTyped'
  BY <1>1, <1>2, <1>7, DeleteTyped DEF SendTyped, DeleteChannel
<1>8. ASSUME NEW s \in Send, NEW c \in Channel, LoadChannel(s, c)
      PROVE  UNCHANGED <<channels, smtp>>
  BY <1>8 DEF LoadChannel
<1>9. ASSUME NEW s \in Send,
             \/ BuildDigest(s) \/ BuildFails(s) \/ Deliver(s) \/ DeliverFails(s)
             \/ DeliverUnanswered(s) \/ DeliverTimesOut(s) \/ MailArrivesLate(s)
             \/ logSend(s) \/ logSendFails(s)
      PROVE  UNCHANGED <<channels, smtp>>
  BY <1>9 DEF BuildDigest, BuildFails, Deliver, DeliverFails, DeliverUnanswered,
              DeliverTimesOut, MailArrivesLate, logSend, logSendFails
<1>10. CASE UNCHANGED notificationVars
  BY <1>3, <1>10 DEF notificationVars
<1> QED
  BY <1>3, <1>4, <1>5, <1>6, <1>7, <1>8, <1>9, <1>10 DEF SendNext

LEMMA DigestTypedInitially ==
  ASSUME NotificationInit
  PROVE  DigestTyped
BY FactsInitially, NothingRead DEF NotificationInit, DigestInv, DigestTyped, NoStatus

LEMMA DigestTypedStep ==
  ASSUME DigestTyped, [DigestNext]_notificationVars
  PROVE  DigestTyped'
<1>1. DigestInv'
  BY DigestStep, DigestStutter DEF DigestTyped
<1>2. channels' = channels /\ smtp' = smtp
  BY DEF DigestNext, notificationVars, StorePull, ChangePull, StoreIssue, ChangeIssue,
         StoreCommit, DecideAway, NextDay, ReadStatus, Preview
<1>3. reading = [got |-> reading.got, torn |-> reading.torn] /\ reading.torn \in BOOLEAN
  BY DEF DigestTyped, DigestInv, ReadingOK
<1>4. \/ reading' = reading
      \/ reading' = NoStatus
      \/ reading' = [reading EXCEPT !.torn = TRUE]
      \/ reading' = [reading EXCEPT !.got = Append(@, StatusRead(Len(@) + 1))]
  BY DEF DigestNext, notificationVars, StorePull, ChangePull, StoreIssue, ChangeIssue,
         StoreCommit, DecideAway, NextDay, ReadStatus, Preview, Torn
<1>5. reading'.torn \in BOOLEAN
  <2>1. PICK got, torn : /\ got = reading.got /\ torn = reading.torn
                         /\ reading = [got |-> got, torn |-> torn] /\ torn \in BOOLEAN
    BY <1>3
  <2>2. PICK more : more = Append(got, StatusRead(Len(got) + 1))
    OBVIOUS
  <2>3. CASE reading' = [reading EXCEPT !.got = Append(@, StatusRead(Len(@) + 1))]
    <3>1. reading' = [got |-> more, torn |-> torn]
      BY <2>1, <2>2, <2>3
    <3> QED
      BY <2>1, <3>1
  <2>4. CASE reading' = [reading EXCEPT !.torn = TRUE]
    <3>1. reading' = [got |-> got, torn |-> TRUE]
      BY <2>1, <2>4
    <3> QED
      BY <3>1
  <2>5. CASE reading' = reading
    BY <2>1, <2>5
  <2>6. CASE reading' = NoStatus
    BY <2>6 DEF NoStatus
  <2> QED
    BY <1>4, <2>3, <2>4, <2>5, <2>6
<1> QED
  BY <1>1, <1>2, <1>5 DEF DigestTyped

LEMMA SendTypes == SendTyped => NotificationTypeOK
<1> SUFFICES ASSUME SendTyped PROVE NotificationTypeOK
  OBVIOUS
<1>1. \A s \in Send : sends[s].phase \in
        {"idle", "build", "deliver", "log", "done", "refused", "not found"}
  BY DEF SendTyped, SendInv, SendOK, Phased, Halted
<1>2. \A m \in inbox : m.send \in Send /\ m.kind \in DigestKind
  BY DEF SendTyped, SendInv, BoxOK
<1>3. log \in [LogRow -> Nat]
  BY DEF SendTyped, SendInv, LogOK
<1>4. Len(reading.got) <= 4 /\ reading.torn \in BOOLEAN
  BY DEF SendTyped, SendInv, NoStatus
<1> QED
  BY <1>1, <1>2, <1>3, <1>4
     DEF SendTyped, SendInv, ChannelsTyped, FactsOK, NotificationTypeOK

LEMMA DigestTypes == DigestTyped => NotificationTypeOK
<1> SUFFICES ASSUME DigestTyped PROVE NotificationTypeOK
  OBVIOUS
<1>1. \A s \in Send : sends[s].phase = "idle"
  BY DEF DigestTyped, DigestInv, Unsent, NoSend
<1>2. ChannelsTyped(channels)
  BY NoChannels DEF DigestTyped
<1> QED
  BY <1>1, <1>2 DEF DigestTyped, DigestInv, ChannelsTyped, FactsOK, ReadingOK, Unsent,
                    NotificationTypeOK

\* Channels, sends, the log and what is read keep their types, whether test sends or
\* syncs go on.
THEOREM NotificationTypeCorrect ==
  /\ SendSpec => []NotificationTypeOK
  /\ DigestSpec => []NotificationTypeOK
<1>1. NotificationInit => SendTyped /\ DigestTyped
  BY SendTypedInitially, DigestTypedInitially
<1>2. SendTyped /\ [SendNext]_notificationVars => SendTyped'
  BY SendTypedStep
<1>3. DigestTyped /\ [DigestNext]_notificationVars => DigestTyped'
  BY DigestTypedStep
<1>4. (SendTyped => NotificationTypeOK) /\ (DigestTyped => NotificationTypeOK)
  BY SendTypes, DigestTypes
<1>5. SendSpec => []NotificationTypeOK
  BY <1>1, <1>2, <1>4, PTL DEF SendSpec
<1>6. DigestSpec => []NotificationTypeOK
  BY <1>1, <1>3, <1>4, PTL DEF DigestSpec
<1> QED
  BY <1>5, <1>6
=============================================================================
