-------------------------------- MODULE Orgs --------------------------------
(***************************************************************************)
(* Organisations, their members and the invitations to them                *)
(* (internal/store/orgs.go, internal/api/orgs.go), and the workspace a     *)
(* sign-up creates (createPersonalOrg of internal/api/auth.go).            *)
(*                                                                         *)
(* A handler reads in one statement (the caller's role, a pending          *)
(* invitation) and writes in another.  A sign-up inserts its organisation  *)
(* and its owner in two statements of no transaction, and succeeds         *)
(* whatever becomes of them.                                               *)
(***************************************************************************)
EXTENDS Integers, FiniteSets

CONSTANTS
  User,
  Org,      \* bound: rows of organizations
  Invite,   \* bound: rows of org_invites
  Caller,   \* bound: requests at a time
  Base      \* Base[u]: the slug of u's email, before the @

CONSTANT Plain  \* a slug with no suffix
ASSUME OrgsAssumption == IsFiniteSet(User) /\ IsFiniteSet(Caller) /\ Plain \notin User

VARIABLES
  slug,     \* organizations.slug: a base and the user whose id is its suffix
  role,     \* org_members
  signup,   \* how far each user's sign-up is, and the organisation it got
  invite,   \* org_invites
  call,     \* what each request has read
  joined,   \* history: who accepted each invitation
  beside    \* history: requests that had found it pending when it was first accepted

orgVars == <<slug, role, signup, invite, call, joined, beside>>

Role  == {"none", "owner", "member"}
Free  == <<>>
Slugs == {Base[u] : u \in User} \X (User \cup {Plain})

NoInvite == [at |-> "none"]
Idling   == [op |-> "none"]
Calls    == [op : {"invite", "update", "remove", "accept"}, org : Org, who : User,
             as : Role, inv : Invite]

OrgTypeOK ==
  /\ slug \in [Org -> {Free} \cup Slugs]
  /\ role \in [Org \X User -> Role]
  /\ signup \in [User -> [at : {"none", "user", "failed"}] \cup [at : {"org", "done"}, org : Org]]
  /\ invite \in [Invite -> {NoInvite} \cup
                           [at : {"pending", "accepted", "expired"}, org : Org, as : Role]]
  /\ call \in [Caller -> {Idling} \cup Calls]
  /\ joined \in [Invite -> SUBSET User]
  /\ beside \in [Invite -> 0..Cardinality(Caller)]
  /\ \A o, p \in Org : slug[o] = slug[p] /\ slug[o] # Free => o = p

OrgInit ==
  /\ slug = [o \in Org |-> Free]
  /\ role = [m \in Org \X User |-> "none"]
  /\ signup = [u \in User |-> [at |-> "none"]]
  /\ invite = [i \in Invite |-> NoInvite]
  /\ call = [c \in Caller |-> Idling]
  /\ joined = [i \in Invite |-> {}]
  /\ beside = [i \in Invite |-> 0]

-----------------------------------------------------------------------------
(* Sign-up, and organisations *)

SignUp(u) ==
  /\ signup[u].at = "none"
  /\ signup' = [signup EXCEPT ![u] = [at |-> "user"]]
  /\ UNCHANGED <<slug, role, invite, call, joined, beside>>

\* INSERT ... ON CONFLICT (slug) DO UPDATE SET slug = ... RETURNING id: where the
\* slug is taken, the row that has it gets the suffix, and its id is returned.
InsertOrg(u) ==
  LET taken == {o \in Org : slug[o] = <<Base[u], Plain>>}
  IN  /\ signup[u].at = "user"
      /\ \E o \in IF taken # {} THEN taken ELSE {o \in Org : slug[o] = Free} :
           /\ slug' = [slug EXCEPT ![o] = <<Base[u], IF taken # {} THEN u ELSE Plain>>]
           /\ signup' = [signup EXCEPT ![u] = [at |-> "org", org |-> o]]
      /\ UNCHANGED <<role, invite, call, joined, beside>>

InsertOwner(u) ==
  LET m == <<signup[u].org, u>>
  IN  /\ signup[u].at = "org"
      /\ role' = [role EXCEPT ![m] = IF @ = "none" THEN "owner" ELSE @]
      /\ signup' = [signup EXCEPT ![u].at = "done"]
      /\ UNCHANGED <<slug, invite, call, joined, beside>>

\* "Non-fatal: user exists": the sign-up is answered 201 all the same.
SignUpFails(u) ==
  /\ signup[u].at \in {"user", "org"}
  /\ signup' = [signup EXCEPT ![u] = [at |-> "failed"]]
  /\ UNCHANGED <<slug, role, invite, call, joined, beside>>

Here(u) == signup[u].at \notin {"none", "user", "org"}

\* CreateOrg: one transaction; a slug that is taken is answered 409.
CreateOrg(u, o, base) ==
  /\ Here(u)
  /\ slug[o] = Free
  /\ \A p \in Org : slug[p] # <<base, Plain>>
  /\ slug' = [slug EXCEPT ![o] = <<base, Plain>>]
  /\ role' = [role EXCEPT ![<<o, u>>] = "owner"]
  /\ UNCHANGED <<signup, invite, call, joined, beside>>

-----------------------------------------------------------------------------
(* inviteMember, updateMember, removeMember, acceptInvite *)

Read(c, found) ==
  /\ call[c] = Idling
  /\ call' = [call EXCEPT ![c] = found]
  /\ UNCHANGED <<slug, role, signup, invite, joined, beside>>

Answer(c) == call' = [call EXCEPT ![c] = Idling]

\* GetMemberRole and canManageMembers.
MayManage(c, u, o, op, target, as, i) ==
  /\ role[<<o, u>>] = "owner"
  /\ Read(c, [op |-> op, org |-> o, who |-> target, as |-> as, inv |-> i])

CreateInvite(c) ==
  LET i == call[c].inv
  IN  /\ call[c].op = "invite"
      /\ invite[i] = NoInvite
      /\ invite' = [invite EXCEPT ![i] = [at |-> "pending", org |-> call[c].org, as |-> call[c].as]]
      /\ Answer(c)
      /\ UNCHANGED <<slug, role, signup, joined, beside>>

\* UpdateMemberRole and RemoveMember, by the role of the caller as it was read.
WriteMember(c) ==
  LET m == <<call[c].org, call[c].who>>
  IN  /\ call[c].op \in {"update", "remove"}
      /\ role' = [role EXCEPT ![m] = CASE @ = "none" -> "none"
                                       [] call[c].op = "remove" -> "none"
                                       [] OTHER -> call[c].as]
      /\ Answer(c)
      /\ UNCHANGED <<slug, signup, invite, joined, beside>>

\* GetInviteByTokenHash
\* Mutant: an accepted invitation is found again.
MutantPending(i) == invite[i].at \in {"pending", "accepted"}
Pending(i) == invite[i].at = "pending"

FindInvite(c, u, i) ==
  /\ Here(u)
  /\ Pending(i)
  /\ Read(c, [op |-> "accept", org |-> invite[i].org, who |-> u, as |-> invite[i].as, inv |-> i])

\* AcceptInvite marks the row whatever it holds by now, and overwrites the role
\* of somebody who is a member.
AcceptInvite(c) ==
  LET i == call[c].inv
  IN  /\ call[c].op = "accept"
      /\ invite' = [invite EXCEPT ![i].at = "accepted"]
      /\ role' = [role EXCEPT ![<<call[c].org, call[c].who>>] = call[c].as]
      /\ joined' = [joined EXCEPT ![i] = @ \cup {call[c].who}]
      /\ beside' = IF joined[i] = {}
                     THEN [beside EXCEPT ![i] = Cardinality({d \in Caller \ {c} :
                             call[d].op = "accept" /\ call[d].inv = i})]
                     ELSE beside
      /\ Answer(c)
      /\ UNCHANGED <<slug, signup>>

\* The request is cancelled or the process dies between the two statements.
Drop(c) ==
  /\ call[c] # Idling
  /\ Answer(c)
  /\ UNCHANGED <<slug, role, signup, invite, joined, beside>>

Expire(i) ==
  /\ Pending(i)
  /\ invite' = [invite EXCEPT ![i].at = "expired"]
  /\ UNCHANGED <<slug, role, signup, call, joined, beside>>

Members ==
  \/ \E c \in Caller, o \in Org, u \in User, i \in Invite :
       \E as \in Role \ {"none"}, op \in {"invite", "update", "remove"}, t \in User :
         /\ op = "invite" => invite[i] = NoInvite /\ t = u
         /\ op # "invite" => role[<<o, t>>] # "none" /\ i = CHOOSE j \in Invite : TRUE
         /\ op = "remove" => as = "member"
         /\ MayManage(c, u, o, op, t, as, i)
  \/ \E c \in Caller, u \in User, i \in Invite : FindInvite(c, u, i)
  \/ \E c \in Caller : CreateInvite(c) \/ WriteMember(c) \/ AcceptInvite(c) \/ Drop(c)
  \/ \E i \in Invite : Expire(i)

OrgNext ==
  \/ \E u \in User : SignUp(u) \/ InsertOrg(u) \/ InsertOwner(u) \/ SignUpFails(u)
  \/ \E u \in User, o \in Org, v \in User : CreateOrg(u, o, Base[v])
  \/ Members

OrgSpec == OrgInit /\ [][OrgNext]_orgVars

-----------------------------------------------------------------------------
(* Properties *)

\* An invitation makes one user a member, plus at most one for each request that
\* had already found it pending when the first was let in.
InviteSpentOnce ==
  \A i \in Invite : Cardinality(joined[i]) <= 1 + beside[i]

\* "Try inserting with the base slug; append user-id suffix on conflict": no two
\* sign-ups get the same organisation.
OwnWorkspace ==
  \A u, v \in User :
    signup[u].at = "done" /\ signup[v].at = "done" /\ u # v => signup[u].org # signup[v].org
=============================================================================
