---------------------------- MODULE GitConnection ---------------------------
(***************************************************************************)
(* An organisation's connection to GitHub and the hooks registered through *)
(* it (src/internal/api/connect.go, src/internal/store/connections.go,     *)
(* src/internal/store/webhooks.go).  The platform_connections row is what  *)
(* the OAuth callback, the App's setup callback, the status page and the   *)
(* cache of installation tokens each write whole; the last three decide on *)
(* what they read in an earlier transaction.  A hook is registered by      *)
(* reading or making the organisation's secret, listing the repository's   *)
(* hooks, and editing the one that points here or creating it: at the      *)
(* platform, which may do so and its answer be lost.                       *)
(***************************************************************************)
EXTENDS Integers, FiniteSets, Sequences

CONSTANTS
  Caller,         \* requests and jobs
  Installation,   \* installations of the GitHub App
  GitUser,        \* account of an OAuth connection
  Hooked,         \* repositories that get a hook
  MaxSecrets,     \* secrets ever generated (bound)
  MaxHooks        \* hooks of a repository (bound)

ASSUME GitAssumption ==
  /\ GitUser \notin Installation
  /\ IsFiniteSet(Caller)
  /\ MaxSecrets \in Nat /\ MaxHooks \in Nat

VARIABLES
  conn,        \* the connection row
  secret,      \* webhook_configs.secret, 0 when there is none
  secrets,     \* secrets generated so far
  hooks,       \* [Hooked -> secrets of the hooks pointing here, oldest first]
  beside,      \* [Hooked -> registrations that created a hook next to another's]
  written,     \* [Hooked -> secrets written by the last registration told it went
               \* through, and by those after it that were told nothing]
  caller       \* [Caller -> where it stands]

gitVars == <<conn, secret, secrets, hooks, beside, written, caller>>

None == "none"
NoConn == [by |-> None]
Conns ==
  [by : {"oauth"}, of : {GitUser}, token : {GitUser}, fresh : BOOLEAN]
    \cup [by : {"github_app"}, of : Installation,
          token : Installation \cup {GitUser, None}, fresh : BOOLEAN]

Away == [at |-> "away"]
Callers ==
  [at : {"status"}]
    \cup [at : {"mint"}, row : Conns]
    \cup [at : {"secret", "generate"}, repo : Hooked]
    \cup [at : {"list", "edit", "create"}, repo : Hooked, secret : 1 .. MaxSecrets]

GitTypeOK ==
  /\ conn \in {NoConn} \cup Conns
  /\ secret \in 0 .. MaxSecrets
  /\ secrets \in 0 .. MaxSecrets
  /\ hooks \in [Hooked -> Seq(1 .. MaxSecrets)]
  /\ beside \in [Hooked -> Nat]
  /\ written \in [Hooked -> SUBSET (1 .. MaxSecrets)]
  /\ \A c \in Caller : caller[c] = Away \/ caller[c] \in Callers

GitInit ==
  /\ conn = NoConn
  /\ secret = 0
  /\ secrets = 0
  /\ hooks = [r \in Hooked |-> << >>]
  /\ beside = [r \in Hooked |-> 0]
  /\ written = [r \in Hooked |-> {}]
  /\ caller = [c \in Caller |-> Away]

hookVars == <<secret, secrets, hooks, beside, written>>

Moves(c, p) == caller' = [caller EXCEPT ![c] = p]

-----------------------------------------------------------------------------
(***************************************************************************)
(* The connection.                                                         *)
(***************************************************************************)

\* UpsertConnection: every column is replaced, the ones not given by NULL.
UpsertConnection(row) == conn' = row

\* callback: OAuth brings a token; appCallback: an installation brings none, it is
\* minted on demand.
Connect ==
  /\ UpsertConnection([by |-> "oauth", of |-> GitUser, token |-> GitUser, fresh |-> TRUE])
  /\ UNCHANGED <<hookVars, caller>>

Installed(i) == [by |-> "github_app", of |-> i, token |-> None, fresh |-> FALSE]

Install(i) ==
  /\ UpsertConnection(Installed(i))
  /\ UNCHANGED <<hookVars, caller>>

Disconnect ==
  /\ conn' = NoConn
  /\ UNCHANGED <<hookVars, caller>>

\* The status page finds no connection, asks GitHub for installations, and adopts the
\* first one.
StatusPage(c) ==
  /\ caller[c] = Away
  /\ conn = NoConn
  /\ Moves(c, [at |-> "status"])
  /\ UNCHANGED <<conn, hookVars>>

Adopt(c, i) ==
  /\ caller[c].at = "status"
  /\ UpsertConnection(Installed(i))
  /\ Moves(c, Away)
  /\ UNCHANGED hookVars

\* resolveAppToken: a cached token is used while it is fresh; otherwise one is minted
\* for the installation read, and the whole row as it was read is written back with it.
Resolve(c) ==
  /\ caller[c] = Away
  /\ conn.by = "github_app"
  /\ conn.token = None \/ ~conn.fresh
  /\ Moves(c, [at |-> "mint", row |-> conn])
  /\ UNCHANGED <<conn, hookVars>>

Mint(c) ==
  /\ caller[c].at = "mint"
  /\ LET row == caller[c].row
     IN UpsertConnection([row EXCEPT !.token = row.of, !.fresh = TRUE])
  /\ Moves(c, Away)
  /\ UNCHANGED hookVars

\* Within five minutes of its end a token is no longer fresh.
TokenAges ==
  /\ conn # NoConn
  /\ conn.fresh
  /\ conn' = [conn EXCEPT !.fresh = FALSE]
  /\ UNCHANGED <<hookVars, caller>>

-----------------------------------------------------------------------------
(***************************************************************************)
(* The hooks: autoRegisterRepoWebhook.                                     *)
(***************************************************************************)

\* An App's hooks are not per repository.
Register(c, r) ==
  /\ caller[c] = Away
  /\ conn.by = "oauth"
  /\ Moves(c, [at |-> "secret", repo |-> r])
  /\ UNCHANGED <<conn, hookVars>>

WithSecret(c, s) == Moves(c, [at |-> "list", repo |-> caller[c].repo, secret |-> s])

\* ensureWebhookSecret: a read, and an upsert when there was none to read.
ReadSecret(c) ==
  /\ caller[c].at = "secret"
  /\ IF secret # 0 THEN WithSecret(c, secret)
                   ELSE Moves(c, [caller[c] EXCEPT !.at = "generate"])
  /\ UNCHANGED <<conn, hookVars>>

\* UpsertWebhookSecret replaces whatever is there.
NewSecret ==
  /\ secrets < MaxSecrets
  /\ secrets' = secrets + 1
  /\ secret' = secrets + 1

Generate(c) ==
  /\ caller[c].at = "generate"
  /\ NewSecret
  /\ WithSecret(c, secrets + 1)
  /\ UNCHANGED <<conn, hooks, beside, written>>

Rotate ==
  /\ NewSecret
  /\ UNCHANGED <<conn, hooks, beside, written, caller>>

\* It does not look at what it listed: a plausible slip.
MutantHookStep(r) == "create"

\* registerGitHubWebhook lists the hooks; one that points here is edited, none means a
\* new one.
HookStep(r) == IF hooks[r] = << >> THEN "create" ELSE "edit"

ListHooks(c) ==
  /\ caller[c].at = "list"
  /\ Moves(c, [caller[c] EXCEPT !.at = HookStep(caller[c].repo)])
  /\ UNCHANGED <<conn, hookVars>>

\* The platform has written the hook; the answer may be lost, to a timeout or a crash,
\* and the registration is then one that failed.  A request is under way until the
\* platform is done with it, also after its caller has given up on it.
Registered(c, told) ==
  /\ written' = [written EXCEPT ![caller[c].repo] =
                   IF told THEN {caller[c].secret} ELSE @ \cup {caller[c].secret}]
  /\ Moves(c, Away)

EditHook(c, told) ==
  /\ caller[c].at = "edit"
  /\ hooks' = [hooks EXCEPT ![caller[c].repo][1] = caller[c].secret]
  /\ Registered(c, told)
  /\ UNCHANGED <<conn, secret, secrets, beside>>

CreateHook(c, told) ==
  /\ caller[c].at = "create"
  /\ LET r == caller[c].repo
     IN /\ Len(hooks[r]) < MaxHooks
        /\ hooks' = [hooks EXCEPT ![r] = Append(@, caller[c].secret)]
        /\ beside' = [beside EXCEPT ![r] = @ + Cardinality(
             {d \in Caller \ {c} : caller[d].at = "create" /\ caller[d].repo = r})]
  /\ Registered(c, told)
  /\ UNCHANGED <<conn, secret, secrets>>

\* A call fails and has changed nothing; registration is best effort.
Fail(c) ==
  /\ caller[c] # Away
  /\ Moves(c, Away)
  /\ UNCHANGED <<conn, hookVars>>

GitNext ==
  \/ Connect \/ Disconnect \/ TokenAges \/ Rotate
  \/ \E i \in Installation : Install(i)
  \/ \E c \in Caller :
       \/ StatusPage(c) \/ Resolve(c) \/ Mint(c)
       \/ \E i \in Installation : Adopt(c, i)
       \/ \E r \in Hooked : Register(c, r)
       \/ ReadSecret(c) \/ Generate(c) \/ ListHooks(c)
       \/ \E told \in BOOLEAN : EditHook(c, told) \/ CreateHook(c, told)
       \/ Fail(c)

GitSpec == GitInit /\ [][GitNext]_gitVars

-----------------------------------------------------------------------------
\* However the connection is replaced, adopted, deleted and cached back, a stored
\* token is one of the account or installation it is stored with.
TokenOfInstallation ==
  (conn # NoConn /\ conn.token # None) => conn.token = conn.of

\* A repository has one hook pointing here, plus at most one for each registration
\* that had already listed none when the first was created (a second hook delivers
\* every event again, under an id of its own), whatever answers were lost; and when
\* the last registration that was told it went through, and whoever wrote after it
\* without being told, all had the stored secret, a hook has it.
HooksVerify ==
  \A r \in Hooked :
    /\ Len(hooks[r]) <= 1 + beside[r]
    /\ written[r] = {secret} => \E k \in 1 .. Len(hooks[r]) : hooks[r][k] = secret

\* The row and the hooks agree with what the platform holds: "IDEMPOTENT: existing
\* hooks are listed and one already pointing at our URL is left in place (its event
\* set / secret are refreshed if drifted), never duplicated".
PlatformAgrees == TokenOfInstallation /\ HooksVerify
=============================================================================
