--------------------------- MODULE RefreshTokens ---------------------------
(***************************************************************************)
(* Refresh tokens: the rows of refresh_tokens (internal/store/             *)
(* refresh_tokens.go) and the requests that use them (login, refresh and   *)
(* logout of internal/api/auth.go).                                        *)
(*                                                                         *)
(* A login starts a family of tokens; a refresh trades the token it was    *)
(* sent for a new one of the same family, and presenting a token that was  *)
(* already traded or revoked revokes the family.  The token is looked up   *)
(* in one statement and what follows from it is written in another:        *)
(* requests with tokens of one family interleave in between.               *)
(***************************************************************************)
EXTENDS Integers, FiniteSets

CONSTANTS
  Token,     \* bound: rows of refresh_tokens
  Family,    \* bound: logins
  Request    \* bound: requests in flight at a time

ASSUME RefreshTokensAssumption == IsFiniteSet(Token)

VARIABLES
  tokens,    \* tokens[f]: the rows whose family_id is f
  replaced,  \* rows whose replaced_by is set
  revoked,   \* rows whose revoked_at is set
  expired,   \* rows whose expires_at has passed
  request,   \* what each request has found
  raced      \* history: per family, rotations of a token that was no longer live

tokenVars == <<tokens, replaced, revoked, expired, request, raced>>

Idle  == [at |-> "idle"]
Found == [at : {"rotate", "revoke"}, token : Token, family : Family]

TokenTypeOK ==
  /\ tokens \in [Family -> SUBSET Token]
  /\ replaced \subseteq Token
  /\ revoked \subseteq Token
  /\ expired \subseteq Token
  /\ request \in [Request -> {Idle} \cup Found]
  /\ raced \in [Family -> Nat]

TokenInit ==
  /\ tokens = [f \in Family |-> {}]
  /\ replaced = {}
  /\ revoked = {}
  /\ expired = {}
  /\ request = [q \in Request |-> Idle]
  /\ raced = [f \in Family |-> 0]

Live(f) == tokens[f] \ (replaced \cup revoked)

\* token_hash is unique.
Insert(t, f) ==
  /\ \A g \in Family : t \notin tokens[g]
  /\ tokens' = [tokens EXCEPT ![f] = @ \cup {t}]

-----------------------------------------------------------------------------
(* Requests *)

\* issueTokenPair: a new family.
LogIn(t, f) ==
  /\ tokens[f] = {}
  /\ Insert(t, f)
  /\ UNCHANGED <<replaced, revoked, expired, request, raced>>

Find(q, t, f, then) ==
  /\ request[q] = Idle
  /\ t \in tokens[f]
  /\ request' = [request EXCEPT ![q] = [at |-> then, token |-> t, family |-> f]]
  /\ UNCHANGED <<tokens, replaced, revoked, expired, raced>>

\* refresh: a reused token is found out before an expired one.
\* Mutant: a revoked token is taken for a live one.
MutantRefresh(q, t, f) ==
  \/ t \in replaced /\ Find(q, t, f, "revoke")
  \/ t \notin replaced \cup expired /\ Find(q, t, f, "rotate")
Refresh(q, t, f) ==
  \/ t \in replaced \cup revoked /\ Find(q, t, f, "revoke")
  \/ t \notin replaced \cup revoked \cup expired /\ Find(q, t, f, "rotate")

\* logout revokes whatever the state of the token.
LogOut(q, t, f) == Find(q, t, f, "revoke")

\* RotateRefresh, one transaction; the old row is not read again.
\* Mutant: replaced_by is not set.
MutantRotateRefresh(q, new) ==
  /\ request[q].at = "rotate"
  /\ Insert(new, request[q].family)
  /\ request' = [request EXCEPT ![q] = Idle]
  /\ UNCHANGED <<replaced, revoked, expired, raced>>
RotateRefresh(q, new) ==
  /\ request[q].at = "rotate"
  /\ LET old == request[q].token
         f   == request[q].family
     IN  /\ Insert(new, f)
         /\ replaced' = replaced \cup {old}
         /\ raced' = [raced EXCEPT ![f] = IF old \in Live(f) THEN @ ELSE @ + 1]
  /\ request' = [request EXCEPT ![q] = Idle]
  /\ UNCHANGED <<revoked, expired>>

RevokeFamily(q) ==
  /\ request[q].at = "revoke"
  /\ revoked' = revoked \cup tokens[request[q].family]
  /\ request' = [request EXCEPT ![q] = Idle]
  /\ UNCHANGED <<tokens, replaced, expired, raced>>

\* A statement fails, which a revocation does not report, or the process dies.
Drop(q) ==
  /\ request[q] # Idle
  /\ request' = [request EXCEPT ![q] = Idle]
  /\ UNCHANGED <<tokens, replaced, revoked, expired, raced>>

Expire(t) ==
  /\ expired' = expired \cup {t}
  /\ UNCHANGED <<tokens, replaced, revoked, request, raced>>

TokenNext ==
  \/ \E t \in Token : Expire(t)
  \/ \E t \in Token, f \in Family : LogIn(t, f)
  \/ \E q \in Request :
       \/ \E t \in Token, f \in Family : Refresh(q, t, f) \/ LogOut(q, t, f)
       \/ \E t \in Token : RotateRefresh(q, t)
       \/ RevokeFamily(q)
       \/ Drop(q)

TokenSpec == TokenInit /\ [][TokenNext]_tokenVars

-----------------------------------------------------------------------------
(* Properties *)

\* A login has one live token at a time, whatever requests interleave, but for
\* rotations of a token that another request traded or revoked between their
\* lookup and their write.
OneLiveToken == \A f \in Family : Cardinality(Live(f)) <= 1 + raced[f]

Rotating(f) == {q \in Request : request[q].at = "rotate" /\ request[q].family = f}

Ended(f) == tokens[f] # {} /\ Live(f) = {} /\ Rotating(f) = {}

\* A login that has ended, by logout or by reuse, is over: once the rotations
\* that had begun before are through, no request brings a token of it back.
EndedStaysEnded == [][\A f \in Family : Ended(f) => Ended(f)']_tokenVars
=============================================================================
