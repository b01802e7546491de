--------------------------- MODULE WorkspaceProofs ---------------------------
(***************************************************************************)
(* Theorems of Orgs, RepoConnect, Pipeline, Contributors and Incidents:    *)
(* what requests that read in one statement and write in another do at     *)
(* most, for any number of users, repositories, identities, deliveries and *)
(* requests in flight.                                                     *)
(***************************************************************************)
EXTENDS Orgs, RepoConnect, Pipeline, Contributors, Incidents, FiniteSetTheorems, TLAPS

(* Counting *)

\* A subset of a finite set has no more members than it.
LEMMA SubsetCounts ==
  ASSUME NEW S, IsFiniteSet(S), NEW T, T \subseteq S
  PROVE  /\ IsFiniteSet(T)
         /\ Cardinality(T) \in Nat /\ Cardinality(S) \in Nat
         /\ Cardinality(T) <= Cardinality(S)
BY FS_Subset, FS_CardinalityType

\* One more member counts for at most one.
LEMMA OneMoreCounts ==
  ASSUME NEW S, IsFiniteSet(S), NEW x
  PROVE  /\ Cardinality(S) \in Nat /\ Cardinality(S \cup {x}) \in Nat
         /\ Cardinality(S \cup {x}) <= Cardinality(S) + 1
<1>1. /\ IsFiniteSet(S \cup {x})
      /\ Cardinality(S \cup {x}) = IF x \in S THEN Cardinality(S) ELSE Cardinality(S) + 1
  BY FS_AddElement
<1> QED
  BY <1>1, FS_CardinalityType

\* A member less counts for one.
LEMMA OneLessCounts ==
  ASSUME NEW S, IsFiniteSet(S), NEW x \in S
  PROVE  /\ Cardinality(S) \in Nat /\ Cardinality(S \ {x}) \in Nat
         /\ Cardinality(S \ {x}) = Cardinality(S) - 1
BY FS_RemoveElement, FS_CardinalityType

-----------------------------------------------------------------------------
(* Members and invitations *)

\* A slug has a user's suffix only after that user's sign-up has inserted its
\* organisation.
SuffixIsSpent ==
  \A o \in Org, v, u \in User :
    slug[o] = <<Base[v], u>> => signup[u].at \notin {"none", "user"}

\* An invitation somebody is about to accept is a row.
AcceptsRow ==
  \A c \in Caller : call[c].op = "accept" => invite[call[c].inv] # NoInvite

OrgTypeInv == OrgTypeOK /\ SuffixIsSpent /\ AcceptsRow

Signup   == [at : {"none", "user", "failed"}] \cup [at : {"org", "done"}, org : Org]
Invited  == {NoInvite} \cup [at : {"pending", "accepted", "expired"}, org : Org, as : Role]

\* A request that manages members reads what it needs and then writes; so does
\* one that accepts an invitation.
Managing ==
  \E c \in Caller, o \in Org, u \in User, i \in Invite :
    \E as \in Role \ {"none"}, op \in {"invite", "update", "remove"}, t \in User :
      MayManage(c, u, o, op, t, as, i)
Finding == \E c \in Caller, u \in User, i \in Invite : FindInvite(c, u, i)
Writing ==
  \E c \in Caller : CreateInvite(c) \/ WriteMember(c) \/ AcceptInvite(c) \/ Drop(c)

LEMMA MemberSteps ==
  Members => Managing \/ Finding \/ Writing \/ \E i \in Invite : Expire(i)
<1> SUFFICES ASSUME Members, ~Finding, ~Writing, ~(\E i \in Invite : Expire(i))
             PROVE  Managing
  BY Zenon
<1>1. PICK c \in Caller, o \in Org, u \in User, i \in Invite :
        \E as \in Role \ {"none"}, op \in {"invite", "update", "remove"}, t \in User :
          /\ op = "invite" => invite[i] = NoInvite /\ t = u
          /\ op # "invite" => role[<<o, t>>] # "none" /\ i = CHOOSE j \in Invite : TRUE
          /\ op = "remove" => as = "member"
          /\ MayManage(c, u, o, op, t, as, i)
  BY Zenon DEF Members, Finding, Writing
<1> QED
  BY <1>1, ZenonT(60) DEF Managing

LEMMA OrgTypeInit == OrgInit => OrgTypeInv
<1> SUFFICES ASSUME OrgInit PROVE OrgTypeInv
  OBVIOUS
<1>1. Cardinality(Caller) \in Nat
  BY OrgsAssumption, FS_CardinalityType
<1> QED
  BY <1>1 DEF OrgInit, OrgTypeInv, OrgTypeOK, SuffixIsSpent, AcceptsRow, Free, Role,
              NoInvite, Idling

\* No insertion of an organisation breaks the unique slug: where the base is
\* taken, the suffix that is added is the user's own.
LEMMA OrgTypeStep == OrgTypeInv /\ [OrgNext]_orgVars => OrgTypeInv'
<1> SUFFICES ASSUME OrgTypeInv, [OrgNext]_orgVars PROVE OrgTypeInv'
  OBVIOUS
<1> USE OrgsAssumption DEF OrgTypeInv, OrgTypeOK, SuffixIsSpent, AcceptsRow
<1>1. ASSUME NEW u \in User, SignUp(u) PROVE OrgTypeInv'
  BY <1>1 DEF SignUp
<1>2. ASSUME NEW u \in User, InsertOrg(u) PROVE OrgTypeInv'
  <2> DEFINE taken == {o \in Org : slug[o] = <<Base[u], Plain>>}
             suffix == IF taken # {} THEN u ELSE Plain
  <2>1. PICK o \in IF taken # {} THEN taken ELSE {p \in Org : slug[p] = Free} :
          /\ slug' = [slug EXCEPT ![o] = <<Base[u], suffix>>]
          /\ signup' = [signup EXCEPT ![u] = [at |-> "org", org |-> o]]
    BY <1>2 DEF InsertOrg
  <2>2. o \in Org /\ signup[u].at = "user" /\ UNCHANGED <<role, invite, call, joined, beside>>
    BY <1>2, <2>1 DEF InsertOrg
  <2>3. slug' \in [Org -> {Free} \cup Slugs]
    BY <2>1, <2>2 DEF Slugs
  <2>4. \A p \in Org : slug[p] # <<Base[u], suffix>>
    BY <2>2
  <2>5. \A p, q \in Org : slug'[p] = slug'[q] /\ slug'[p] # Free => p = q
    BY <2>1, <2>2, <2>4
  <2>6. signup' \in [User -> Signup]
    BY <2>1, <2>2 DEF Signup
  <2>7. SuffixIsSpent'
    <3> SUFFICES ASSUME NEW p \in Org, NEW v \in User, NEW w \in User,
                        slug'[p] = <<Base[v], w>>
                 PROVE  signup'[w].at \notin {"none", "user"}
      OBVIOUS
    <3>1. CASE w = u
      BY <2>1, <3>1
    <3>2. CASE w # u
      <4>1. slug[p] = <<Base[v], w>>
        BY <2>1, <2>2, <3>2
      <4> QED
        BY <2>1, <3>2, <4>1
    <3> QED
      BY <3>1, <3>2
  <2> QED
    BY <2>2, <2>3, <2>5, <2>6, <2>7 DEF Signup
<1>3. ASSUME NEW u \in User, InsertOwner(u) PROVE OrgTypeInv'
  <2>1. signup[u].at = "org" /\ signup' = [signup EXCEPT ![u].at = "done"]
    BY <1>3 DEF InsertOwner
  <2>2. signup[u] \in [at : {"org", "done"}, org : Org]
    BY <2>1
  <2>3. signup' \in [User -> Signup]
    BY <2>1, <2>2 DEF Signup
  <2>4. role' \in [Org \X User -> Role]
    BY <1>3 DEF InsertOwner, Role
  <2>5. SuffixIsSpent'
    BY <1>3, <2>1 DEF InsertOwner
  <2> QED
    BY <1>3, <2>3, <2>4, <2>5 DEF InsertOwner, Signup
<1>4. ASSUME NEW u \in User, SignUpFails(u) PROVE OrgTypeInv'
  BY <1>4 DEF SignUpFails
<1>5. ASSUME NEW u \in User, NEW o \in Org, NEW v \in User, CreateOrg(u, o, Base[v])
      PROVE  OrgTypeInv'
  <2>1. /\ \A p \in Org : slug[p] # <<Base[v], Plain>>
        /\ slug' = [slug EXCEPT ![o] = <<Base[v], Plain>>]
        /\ UNCHANGED <<signup, invite, call, joined, beside>>
    BY <1>5 DEF CreateOrg
  <2>2. slug' \in [Org -> {Free} \cup Slugs] /\ role' \in [Org \X User -> Role]
    BY <1>5, <2>1 DEF CreateOrg, Slugs, Role
  <2>3. SuffixIsSpent'
    BY <2>1
  <2> QED
    BY <2>1, <2>2, <2>3
<1>6. ASSUME NEW c \in Caller, NEW found \in Calls, Read(c, found),
             found.op = "accept" => invite[found.inv] # NoInvite
      PROVE  OrgTypeInv'
  BY <1>6 DEF Read, Calls
<1>7. ASSUME NEW c \in Caller, NEW o \in Org, NEW u \in User, NEW i \in Invite,
             NEW as \in Role \ {"none"}, NEW op \in {"invite", "update", "remove"},
             NEW t \in User, MayManage(c, u, o, op, t, as, i)
      PROVE  OrgTypeInv'
  <2>1. [op |-> op, org |-> o, who |-> t, as |-> as, inv |-> i] \in Calls
    BY DEF Calls
  <2> QED
    BY <1>6, <1>7, <2>1 DEF MayManage
<1>8. ASSUME NEW c \in Caller, NEW u \in User, NEW i \in Invite, FindInvite(c, u, i)
      PROVE  OrgTypeInv'
  <2>1. invite[i].at = "pending"
    BY <1>8 DEF FindInvite, Pending
  <2>2. invite[i] \in [at : {"pending", "accepted", "expired"}, org : Org, as : Role]
    BY <2>1 DEF NoInvite
  <2>3. [op |-> "accept", org |-> invite[i].org, who |-> u, as |-> invite[i].as, inv |-> i]
          \in Calls
    BY <2>2 DEF Calls
  <2> QED
    BY <1>6, <1>8, <2>1, <2>3 DEF FindInvite, NoInvite
<1>9. ASSUME NEW c \in Caller, CreateInvite(c) \/ WriteMember(c) \/ AcceptInvite(c) \/ Drop(c)
      PROVE  OrgTypeInv'
  <2>1. /\ call[c] \in Calls
        /\ call' = [call EXCEPT ![c] = Idling]
        /\ UNCHANGED <<slug, signup>>
    BY <1>9 DEF CreateInvite, WriteMember, AcceptInvite, Drop, Answer, Idling
  <2>2. \A d \in Caller : call'[d].op = "accept" => call[d].op = "accept" /\ call'[d] = call[d]
    BY <2>1 DEF Idling
  <2>3. CASE CreateInvite(c)
    <3>1. invite' \in [Invite -> Invited]
      BY <2>1, <2>3 DEF CreateInvite, Invited, Calls
    <3>2. \A i \in Invite : invite[i] # NoInvite => invite'[i] # NoInvite
      BY <2>1, <2>3 DEF CreateInvite, Calls
    <3> QED
      BY <2>1, <2>2, <2>3, <3>1, <3>2 DEF CreateInvite, Invited, Calls
  <2>4. CASE WriteMember(c)
    BY <2>1, <2>2, <2>4 DEF WriteMember, Role, Calls
  <2>5. CASE AcceptInvite(c)
    <3> DEFINE i == call[c].inv
    <3>1. /\ call[c].op = "accept" /\ i \in Invite /\ call[c].who \in User
          /\ call[c].org \in Org /\ call[c].as \in Role
      BY <2>1, <2>5 DEF AcceptInvite, Calls
    <3>2. invite[i] \in [at : {"pending", "accepted", "expired"}, org : Org, as : Role]
      BY <3>1
    <3>3. invite' \in [Invite -> Invited] /\ \A j \in Invite : invite[j] # NoInvite => invite'[j] # NoInvite
      BY <2>5, <3>1, <3>2 DEF AcceptInvite, Invited, NoInvite
    <3>4. role' \in [Org \X User -> Role] /\ joined' \in [Invite -> SUBSET User]
      BY <2>5, <3>1 DEF AcceptInvite
    <3>5. beside' \in [Invite -> 0..Cardinality(Caller)]
      <4> DEFINE others == {d \in Caller \ {c} : call[d].op = "accept" /\ call[d].inv = i}
      <4>1. Cardinality(others) \in 0..Cardinality(Caller)
        BY SubsetCounts
      <4>2. beside' = IF joined[i] = {} THEN [beside EXCEPT ![i] = Cardinality(others)] ELSE beside
        BY <2>5 DEF AcceptInvite
      <4> HIDE DEF others
      <4> QED
        BY <3>1, <4>1, <4>2
    <3> QED
      BY <2>1, <2>2, <3>3, <3>4, <3>5 DEF Invited, Calls
  <2>6. CASE Drop(c)
    BY <2>1, <2>2, <2>6 DEF Drop
  <2> QED
    BY <1>9, <2>3, <2>4, <2>5, <2>6
<1>10. ASSUME NEW i \in Invite, Expire(i) PROVE OrgTypeInv'
  <2>1. invite[i] \in [at : {"pending", "accepted", "expired"}, org : Org, as : Role]
    BY <1>10 DEF Expire, Pending, NoInvite
  <2>2. invite' \in [Invite -> Invited] /\ \A j \in Invite : invite[j] # NoInvite => invite'[j] # NoInvite
    BY <1>10, <2>1 DEF Expire, Invited, NoInvite
  <2> QED
    BY <1>10, <2>2 DEF Expire, Invited, Calls
<1>11. CASE UNCHANGED orgVars
  BY <1>11 DEF orgVars
<1> HIDE DEF OrgTypeInv, OrgTypeOK, SuffixIsSpent, AcceptsRow
<1>12. CASE Members
  <2>1. CASE Finding
    BY <1>8, <2>1 DEF Finding
  <2>2. CASE Writing
    BY <1>9, <2>2 DEF Writing
  <2>3. CASE \E i \in Invite : Expire(i)
    BY <1>10, <2>3
  <2>4. CASE Managing
    BY <1>7, <2>4 DEF Managing
  <2> QED
    BY <1>12, <2>1, <2>2, <2>3, <2>4, MemberSteps, Zenon
<1> QED
  BY <1>1, <1>2, <1>3, <1>4, <1>5, <1>11, <1>12 DEF OrgNext

\* The type invariant, with the unique slugs: however sign-ups and creations
\* interleave, no two rows of organizations get one slug.
THEOREM OrgTypeCorrect == OrgSpec => []OrgTypeOK
<1>1. OrgSpec => []OrgTypeInv
  BY OrgTypeInit, OrgTypeStep, PTL DEF OrgSpec
<1> QED
  BY <1>1, PTL DEF OrgTypeInv

\* The requests that have found an invitation and not used it.
Accepting(i) == {c \in Caller : call[c].op = "accept" /\ call[c].inv = i}

\* Once an invitation is used nobody finds it, and those who had found it before
\* are counted.
InviteInv ==
  \A i \in Invite : joined[i] # {} =>
    /\ invite[i].at = "accepted"
    /\ Cardinality(joined[i]) + Cardinality(Accepting(i)) <= 1 + beside[i]

LEMMA InviteStep == OrgTypeInv /\ InviteInv /\ [OrgNext]_orgVars => InviteInv'
<1> SUFFICES ASSUME OrgTypeInv, InviteInv, [OrgNext]_orgVars, NEW i \in Invite, joined'[i] # {}
             PROVE  /\ invite'[i].at = "accepted"
                    /\ Cardinality(joined'[i]) + Cardinality(Accepting(i)') <= 1 + beside'[i]
  BY DEF InviteInv
<1>a. /\ IsFiniteSet(User) /\ IsFiniteSet(Caller)
      /\ call \in [Caller -> {Idling} \cup Calls]
      /\ joined \in [Invite -> SUBSET User]
      /\ beside \in [Invite -> 0..Cardinality(Caller)] /\ Cardinality(Caller) \in Nat
      /\ invite \in [Invite -> Invited]
  BY OrgsAssumption, FS_CardinalityType DEF OrgTypeInv, OrgTypeOK, Invited
<1>b. /\ Accepting(i) \subseteq Caller /\ IsFiniteSet(Accepting(i))
      /\ IsFiniteSet(joined[i])
      /\ Cardinality(Accepting(i)) \in Nat /\ Cardinality(joined[i]) \in Nat
      /\ beside[i] \in Nat
  BY <1>a, SubsetCounts DEF Accepting
<1>c. ASSUME UNCHANGED <<joined, beside>>, joined[i] # {} => invite'[i].at = "accepted",
             joined[i] # {} => Accepting(i)' \subseteq Accepting(i)
      PROVE  /\ invite'[i].at = "accepted"
             /\ Cardinality(joined'[i]) + Cardinality(Accepting(i)') <= 1 + beside'[i]
  <2>1. /\ Accepting(i)' \subseteq Accepting(i) /\ joined'[i] = joined[i] /\ beside'[i] = beside[i]
        /\ Cardinality(joined[i]) + Cardinality(Accepting(i)) <= 1 + beside[i]
    BY <1>c DEF InviteInv
  <2>2. Cardinality(Accepting(i)') \in Nat /\ Cardinality(Accepting(i)') <= Cardinality(Accepting(i))
    BY <1>b, <2>1, SubsetCounts
  <2> QED
    BY <1>b, <1>c, <2>1, <2>2
<1>1. ASSUME NEW u \in User,
             \/ SignUp(u) \/ InsertOrg(u) \/ InsertOwner(u) \/ SignUpFails(u)
             \/ \E o \in Org, v \in User : CreateOrg(u, o, Base[v])
      PROVE  UNCHANGED <<invite, call, joined, beside>>
  BY <1>1 DEF SignUp, InsertOrg, InsertOwner, SignUpFails, CreateOrg
<1>2. ASSUME UNCHANGED <<invite, call, joined, beside>>
      PROVE  /\ invite'[i].at = "accepted"
             /\ Cardinality(joined'[i]) + Cardinality(Accepting(i)') <= 1 + beside'[i]
  BY <1>c, <1>2 DEF InviteInv, Accepting
<1>3. ASSUME NEW c \in Caller, NEW o \in Org, NEW u \in User, NEW j \in Invite,
             NEW as \in Role \ {"none"}, NEW op \in {"invite", "update", "remove"},
             NEW t \in User, MayManage(c, u, o, op, t, as, j)
      PROVE  /\ invite'[i].at = "accepted"
             /\ Cardinality(joined'[i]) + Cardinality(Accepting(i)') <= 1 + beside'[i]
  <2>1. /\ UNCHANGED <<invite, joined, beside>>
        /\ call' = [call EXCEPT ![c] = [op |-> op, org |-> o, who |-> t, as |-> as, inv |-> j]]
    BY <1>3 DEF MayManage, Read
  <2>2. Accepting(i)' \subseteq Accepting(i)
    BY <1>a, <2>1 DEF Accepting
  <2> QED
    BY <1>c, <2>1, <2>2 DEF InviteInv
<1>4. ASSUME NEW c \in Caller, NEW u \in User, NEW j \in Invite, FindInvite(c, u, j)
      PROVE  /\ invite'[i].at = "accepted"
             /\ Cardinality(joined'[i]) + Cardinality(Accepting(i)') <= 1 + beside'[i]
  <2>1. /\ UNCHANGED <<invite, joined, beside>> /\ invite[j].at = "pending"
        /\ call' = [call EXCEPT ![c] = [op |-> "accept", org |-> invite[j].org, who |-> u,
                                        as |-> invite[j].as, inv |-> j]]
    BY <1>4 DEF FindInvite, Pending, Read
  <2>2. joined[i] # {} => i # j
    BY <2>1 DEF InviteInv
  <2>3. joined[i] # {} => Accepting(i)' \subseteq Accepting(i)
    BY <1>a, <2>1, <2>2 DEF Accepting
  <2> QED
    BY <1>c, <2>1, <2>3 DEF InviteInv
<1>5. ASSUME NEW c \in Caller, CreateInvite(c) \/ WriteMember(c) \/ Drop(c)
      PROVE  /\ invite'[i].at = "accepted"
             /\ Cardinality(joined'[i]) + Cardinality(Accepting(i)') <= 1 + beside'[i]
  <2>1. /\ UNCHANGED <<joined, beside>>
        /\ call' = [call EXCEPT ![c] = Idling]
    BY <1>5 DEF CreateInvite, WriteMember, Drop, Answer
  <2>2. Accepting(i)' \subseteq Accepting(i)
    BY <1>a, <2>1 DEF Accepting, Idling
  <2>3. joined[i] # {} => invite'[i] = invite[i]
    BY <1>5, <1>a DEF CreateInvite, WriteMember, Drop, InviteInv, NoInvite
  <2> QED
    BY <1>c, <2>1, <2>2, <2>3 DEF InviteInv
<1>6. ASSUME NEW c \in Caller, AcceptInvite(c)
      PROVE  /\ invite'[i].at = "accepted"
             /\ Cardinality(joined'[i]) + Cardinality(Accepting(i)') <= 1 + beside'[i]
  <2> DEFINE j == call[c].inv
  <2>1. /\ call[c] \in Calls /\ call[c].op = "accept" /\ j \in Invite
        /\ call' = [call EXCEPT ![c] = Idling]
        /\ invite' = [invite EXCEPT ![j].at = "accepted"]
        /\ joined' = [joined EXCEPT ![j] = @ \cup {call[c].who}]
    BY <1>6, <1>a DEF AcceptInvite, Answer, Calls, Idling
  <2>2. CASE i # j
    <3>1. joined'[i] = joined[i] /\ beside'[i] = beside[i] /\ invite'[i] = invite[i]
      BY <1>6, <1>a, <2>1, <2>2 DEF AcceptInvite
    <3>2. Accepting(i)' = Accepting(i)
      BY <1>a, <2>1, <2>2 DEF Accepting, Idling
    <3> QED
      BY <3>1, <3>2 DEF InviteInv
  <2>3. CASE i = j
    <3>1. Accepting(i)' = Accepting(i) \ {c} /\ c \in Accepting(i)
      BY <1>a, <2>1, <2>3 DEF Accepting, Idling
    <3>2. /\ Cardinality(Accepting(i)') \in Nat
          /\ Cardinality(Accepting(i)') = Cardinality(Accepting(i)) - 1
      BY <1>b, <3>1, OneLessCounts
    <3>3. joined'[i] = joined[i] \cup {call[c].who}
      BY <1>a, <2>1, <2>3
    <3>4. /\ Cardinality(joined'[i]) \in Nat
          /\ Cardinality(joined'[i]) <= Cardinality(joined[i]) + 1
      BY <1>b, <3>3, OneMoreCounts
    <3>5. invite'[i].at = "accepted"
      <4>1. invite[i] \in [at : {"pending", "accepted", "expired"}, org : Org, as : Role]
        BY <1>a, <2>1, <2>3 DEF OrgTypeInv, AcceptsRow, Invited
      <4> QED
        BY <1>a, <2>1, <2>3, <4>1
    <3>6. CASE joined[i] = {}
      <4>1. {d \in Caller \ {c} : call[d].op = "accept" /\ call[d].inv = j} = Accepting(i)'
        BY <2>3, <3>1 DEF Accepting
      <4>2. beside'[i] = Cardinality(Accepting(i)')
        BY <1>6, <1>a, <2>3, <3>6, <4>1 DEF AcceptInvite
      <4>3. Cardinality(joined[i]) = 0
        BY <3>6, FS_EmptySet
      <4> QED
        BY <3>2, <3>4, <3>5, <4>2, <4>3
    <3>7. CASE joined[i] # {}
      <4>1. beside'[i] = beside[i]
        BY <1>6, <2>3, <3>7 DEF AcceptInvite
      <4>2. Cardinality(joined[i]) + Cardinality(Accepting(i)) <= 1 + beside[i]
        BY <3>7 DEF InviteInv
      <4> QED
        BY <1>b, <3>2, <3>4, <3>5, <4>1, <4>2
    <3> QED
      BY <3>6, <3>7
  <2> QED
    BY <2>2, <2>3
<1>7. ASSUME NEW j \in Invite, Expire(j)
      PROVE  /\ invite'[i].at = "accepted"
             /\ Cardinality(joined'[i]) + Cardinality(Accepting(i)') <= 1 + beside'[i]
  <2>1. UNCHANGED <<call, joined, beside>> /\ (joined[i] # {} => invite'[i] = invite[i])
    BY <1>7, <1>a DEF Expire, Pending, InviteInv
  <2> QED
    BY <1>c, <2>1 DEF InviteInv, Accepting
<1>8. CASE UNCHANGED orgVars
  BY <1>2, <1>8 DEF orgVars
<1>9. CASE Members
  <2>1. CASE Finding
    BY <1>4, <2>1 DEF Finding
  <2>2. CASE Writing
    BY <1>5, <1>6, <2>2 DEF Writing
  <2>3. CASE \E j \in Invite : Expire(j)
    BY <1>7, <2>3
  <2>4. CASE Managing
    BY <1>3, <2>4 DEF Managing
  <2> QED
    BY <1>9, <2>1, <2>2, <2>3, <2>4, MemberSteps, Zenon
<1>10. CASE OrgNext /\ ~Members
  BY <1>1, <1>2, <1>10 DEF OrgNext
<1> QED
  BY <1>2, <1>8, <1>9, <1>10 DEF orgVars

\* However many requests race on an invitation, it makes no more users members
\* than one and those that had found it pending (AcceptInvite checks nothing).
THEOREM InviteSpent == OrgSpec => []InviteSpentOnce
<1>1. OrgInit => InviteInv
  BY DEF OrgInit, InviteInv
<1>2. OrgTypeInv /\ InviteInv => InviteSpentOnce
  <2> SUFFICES ASSUME OrgTypeInv, InviteInv, NEW i \in Invite
               PROVE  Cardinality(joined[i]) <= 1 + beside[i]
    BY DEF InviteSpentOnce
  <2>1. /\ beside[i] \in Nat
        /\ Cardinality(joined[i]) \in Nat /\ Cardinality(Accepting(i)) \in Nat
    <3>1. /\ joined[i] \subseteq User /\ Accepting(i) \subseteq Caller
          /\ beside[i] \in 0..Cardinality(Caller) /\ Cardinality(Caller) \in Nat
      BY OrgsAssumption, FS_CardinalityType DEF OrgTypeInv, OrgTypeOK, Accepting
    <3> QED
      BY <3>1, OrgsAssumption, SubsetCounts
  <2>2. CASE joined[i] = {}
    BY <2>1, <2>2, FS_EmptySet
  <2>3. CASE joined[i] # {}
    BY <2>1, <2>3 DEF InviteInv
  <2> QED
    BY <2>2, <2>3
<1> QED
  BY <1>1, <1>2, OrgTypeInit, OrgTypeStep, InviteStep, PTL DEF OrgSpec

-----------------------------------------------------------------------------
(* Connected repositories *)

LEMMA ConnectTypeStep ==
  ConnectTypeOK /\ [ConnectNext]_connectVars => ConnectTypeOK'
<1> SUFFICES ASSUME ConnectTypeOK, [ConnectNext]_connectVars PROVE ConnectTypeOK'
  OBVIOUS
<1> USE RepoConnectAssumption
    DEF ConnectTypeOK, Request, Import, Found, Answered, Lose
<1>1. ASSUME NEW q \in Connect, NEW r \in Repo, RepoIsNew(q, r) PROVE ConnectTypeOK'
  BY <1>1 DEF RepoIsNew
<1>2. ASSUME NEW q \in Connect, CheckQuota(q) PROVE ConnectTypeOK'
  BY <1>2 DEF CheckQuota, NoRequest
<1>3. ASSUME NEW q \in Connect, InsertRepo(q) PROVE ConnectTypeOK'
  BY <1>3 DEF InsertRepo, Upsert, NoRequest
<1>4. ASSUME NEW q \in Connect, EnqueueFirstSync(q) PROVE ConnectTypeOK'
  BY <1>4 DEF EnqueueFirstSync, StartSync, NoRequest
<1>5. ASSUME NEW names \in SUBSET Repo, BeginImport(names) PROVE ConnectTypeOK'
  BY <1>5 DEF BeginImport
<1>6. ASSUME NEW r \in Repo, ImportRow(r) PROVE ConnectTypeOK'
  <2>1. import \in Import
    BY <1>6 DEF ImportRow, NoImport
  <2>2. CASE Upsert(r)
    <3>1. \E ts \in {import.toSync, import.toSync \cup {r}} :
            import' = [at |-> import.at, names |-> import.names \ {r}, toSync |-> ts]
            \/ import' = [import EXCEPT !.names = @ \ {r}]
      BY <1>6, <2>1 DEF ImportRow
    <3>2. import' \in Import
      BY <2>1, <3>1
    <3> QED
      BY <1>6, <2>2, <3>2 DEF ImportRow, Upsert
  <2>3. CASE UNCHANGED repoRow /\ import' = [import EXCEPT !.names = @ \ {r}]
    BY <1>6, <2>1, <2>3 DEF ImportRow
  <2> QED
    BY <1>6, <2>2, <2>3 DEF ImportRow
<1>7. ASSUME NEW r \in Repo, ImportEnqueue(r) PROVE ConnectTypeOK'
  <2>1. import \in Import
    BY <1>7 DEF ImportEnqueue, NoImport
  <2> QED
    BY <1>7, <2>1 DEF ImportEnqueue
<1>8. ASSUME NEW r \in Repo, SyncAgain(r) \/ SyncAll(r) \/ SyncEnds(r) PROVE ConnectTypeOK'
  BY <1>8 DEF SyncAgain, SyncAll, SyncEnds, StartSync
<1>9. ASSUME NEW r \in Repo, DeleteRepo(r) PROVE ConnectTypeOK'
  <2>1. import' \in {NoImport} \cup Import
    BY <1>9 DEF DeleteRepo
  <2>2. connect' \in [Connect -> {NoRequest} \cup Request]
    BY <1>9 DEF DeleteRepo
  <2> QED
    BY <1>9, <2>1, <2>2 DEF DeleteRepo
<1>10. CASE ImportConnected
  <2>1. import \in Import
    BY <1>10 DEF ImportConnected, NoImport
  <2> QED
    BY <1>10, <2>1 DEF ImportConnected
<1>11. CASE ImportDone \/ BillingStatus
  BY <1>11 DEF ImportDone, BillingStatus
<1>13. CASE ServerRestart
  <2>1. connect' \in [Connect -> {NoRequest} \cup Request] /\ import' = NoImport
    BY <1>13 DEF ServerRestart
  <2>2. lost' \subseteq Repo
    BY <1>13 DEF ServerRestart, Connected
  <2> QED
    BY <1>13, <2>1, <2>2 DEF ServerRestart
<1>12. CASE UNCHANGED connectVars
  BY <1>12 DEF connectVars
<1> QED
  BY <1>1, <1>2, <1>3, <1>4, <1>5, <1>6, <1>7, <1>8, <1>9, <1>10, <1>11, <1>12,
     <1>13
  DEF ConnectNext

\* The requests that the quota let through and that have not inserted their row.
Allowed == {q \in Connect : connect[q].at = "allowed"}

\* A request is let through while at most MaxRepos - 1 rows are there, whatever
\* its neighbours were told: what is counted and what is to be inserted together
\* exceed the plan by less than the number of requests.
QuotaInv ==
  /\ counted \subseteq Connected
  /\ Cardinality(counted) + Cardinality(Allowed) <= MaxRepos + Cardinality(Connect) - 1

LEMMA ConnectCounts ==
  ConnectTypeOK => /\ IsFiniteSet(Connected) /\ Cardinality(Connected) \in Nat
                   /\ IsFiniteSet(counted) /\ Cardinality(counted) \in Nat
                   /\ IsFiniteSet(Allowed) /\ Cardinality(Allowed) \in Nat
                   /\ Cardinality(Allowed) <= Cardinality(Connect)
                   /\ Cardinality(Connect) \in Nat
BY RepoConnectAssumption, SubsetCounts DEF ConnectTypeOK, Connected, Allowed

LEMMA QuotaStep ==
  ConnectTypeOK /\ QuotaInv /\ [ConnectNext]_connectVars => QuotaInv'
<1> SUFFICES ASSUME ConnectTypeOK, QuotaInv, [ConnectNext]_connectVars PROVE QuotaInv'
  OBVIOUS
<1>a. ConnectTypeOK' /\ MaxRepos \in Nat
  BY ConnectTypeStep, RepoConnectAssumption
<1>b. ASSUME UNCHANGED counted, Connected \subseteq Connected', Allowed' \subseteq Allowed
      PROVE  QuotaInv'
  <2>1. Cardinality(Allowed') <= Cardinality(Allowed) /\ Cardinality(Allowed') \in Nat
    BY <1>b, ConnectCounts, SubsetCounts
  <2> QED
    BY <1>a, <1>b, <2>1, ConnectCounts DEF QuotaInv
<1> USE DEF ConnectTypeOK, Request, Found, Answered
<1>1. ASSUME NEW q \in Connect, NEW r \in Repo, RepoIsNew(q, r) PROVE QuotaInv'
  BY <1>b, <1>1 DEF RepoIsNew, Allowed, Connected
<1>2. ASSUME NEW q \in Connect, CheckQuota(q) PROVE QuotaInv'
  <2>1. CASE UnderQuota
    <3>1. Cardinality(Connected) < MaxRepos
      BY <2>1 DEF UnderQuota
    <3>2. Cardinality(counted) <= Cardinality(Connected)
      BY ConnectCounts, SubsetCounts DEF QuotaInv
    <3>3. Cardinality(Allowed') \in Nat /\ Cardinality(Allowed') <= Cardinality(Connect)
      BY RepoConnectAssumption, SubsetCounts DEF Allowed
    <3>4. counted' = counted /\ Connected' = Connected
      BY <1>2 DEF CheckQuota, Connected
    <3> HIDE DEF ConnectTypeOK
    <3> QED
      BY <1>a, <3>1, <3>2, <3>3, <3>4, ConnectCounts DEF QuotaInv
  <2>2. CASE ~UnderQuota
    BY <1>b, <1>2, <2>2 DEF CheckQuota, Allowed, Connected, NoRequest
  <2> QED
    BY <2>1, <2>2
<1>3. ASSUME NEW q \in Connect, InsertRepo(q) PROVE QuotaInv'
  <2> DEFINE r == connect[q].repo
  <2>1. /\ Connected' = Connected \cup {r}
        /\ connect' = [connect EXCEPT ![q] = [at |-> "enqueue", repo |-> r]]
        /\ r \in Repo
    BY <1>3 DEF InsertRepo, Upsert, Connected, NoRequest
  <2>2. Allowed' = Allowed \ {q}
    BY <2>1 DEF Allowed
  <2>3. CASE counted' = counted
    BY <1>b, <2>1, <2>2, <2>3
  <2>4. CASE q \in Allowed /\ counted' = counted \cup {r}
    <3>1. /\ Cardinality(Allowed') = Cardinality(Allowed) - 1
          /\ Cardinality(Allowed') \in Nat
      BY <2>2, <2>4, ConnectCounts, OneLessCounts
    <3>2. /\ Cardinality(counted') <= Cardinality(counted) + 1
          /\ Cardinality(counted') \in Nat
      BY <2>4, ConnectCounts, OneMoreCounts
    <3>3. counted' \subseteq Connected'
      BY <2>1, <2>4 DEF QuotaInv
    <3> HIDE DEF ConnectTypeOK
    <3> QED
      BY <1>a, <3>1, <3>2, <3>3, ConnectCounts DEF QuotaInv
  <2> QED
    BY <1>3, <2>3, <2>4 DEF InsertRepo, Allowed
<1>4. ASSUME NEW q \in Connect, EnqueueFirstSync(q) PROVE QuotaInv'
  BY <1>b, <1>4 DEF EnqueueFirstSync, Allowed, Connected, NoRequest
<1>5. ASSUME NEW r \in Repo, ImportRow(r) PROVE QuotaInv'
  BY <1>b, <1>5 DEF ImportRow, Upsert, Allowed, Connected
<1>6. ASSUME NEW r \in Repo, SyncEnds(r) PROVE QuotaInv'
  BY <1>b, <1>6 DEF SyncEnds, Allowed, Connected
<1>7. ASSUME NEW r \in Repo, DeleteRepo(r) PROVE QuotaInv'
  <2>1. counted' = counted \ {r} /\ Connected' = Connected \ {r}
    BY <1>7 DEF DeleteRepo, Connected
  <2>2. Allowed' \subseteq Allowed
    BY <1>7 DEF DeleteRepo, Allowed, NoRequest
  <2>3. /\ Cardinality(counted') <= Cardinality(counted) /\ Cardinality(counted') \in Nat
        /\ Cardinality(Allowed') <= Cardinality(Allowed) /\ Cardinality(Allowed') \in Nat
    BY <2>1, <2>2, ConnectCounts, SubsetCounts
  <2> HIDE DEF ConnectTypeOK
  <2> QED
    BY <1>a, <2>1, <2>3, ConnectCounts DEF QuotaInv
<1>8. CASE ServerRestart
  BY <1>b, <1>8 DEF ServerRestart, Allowed, Connected, NoRequest
<1>9. ASSUME UNCHANGED <<repoRow, connect, counted>> PROVE QuotaInv'
  BY <1>b, <1>9 DEF Allowed, Connected
<1> QED
  BY <1>1, <1>2, <1>3, <1>4, <1>5, <1>6, <1>7, <1>8, <1>9
  DEF ConnectNext, connectVars, BeginImport, ImportConnected, ImportEnqueue, ImportDone,
      SyncAgain, SyncAll, BillingStatus

\* What a repository's first sync waits for.
Enq(r)    == [at |-> "enqueue", repo |-> r]
Awaits(r) == \/ r \in syncJob \cup detached \cup lost
             \/ \E q \in Connect : connect[q] = Enq(r)
             \/ Imports(r)

LEMMA PendingIs == FirstSyncPending <=> \A r \in Repo : repoRow[r] = "new" => Awaits(r)
BY Zenon DEF FirstSyncPending, Awaits, Enq

LEMMA PendingIsNext ==
  FirstSyncPending' <=> \A r \in Repo : repoRow'[r] = "new" => Awaits(r)'
BY Zenon DEF FirstSyncPending, Awaits, Enq

\* What takes a repository's pending sync away puts another in its place.
LEMMA PendingStep ==
  ConnectTypeOK /\ FirstSyncPending /\ [ConnectNext]_connectVars => FirstSyncPending'
<1> SUFFICES ASSUME ConnectTypeOK, FirstSyncPending, [ConnectNext]_connectVars,
                    NEW x \in Repo, repoRow'[x] = "new"
             PROVE  Awaits(x)'
  BY PendingIsNext
<1>a. repoRow[x] = "new" => Awaits(x)
  BY PendingIs
<1> USE DEF Awaits, Imports, Enq
<1>b. /\ repoRow \in [Repo -> {"none", "new", "synced"}]
      /\ connect \in [Connect -> {NoRequest} \cup Request]
      /\ \A q \in Connect : connect[q].at \in {"new", "allowed", "known", "enqueue"}
                             => connect[q].repo \in Repo
      /\ import \in {NoImport} \cup Import
  BY DEF ConnectTypeOK, NoRequest, Request
\* A request's own step, from where it holds no sync.
<1>c. ASSUME NEW q \in Connect, connect[q].at # "enqueue", repoRow[x] = "new",
             \A p \in Connect \ {q} : connect'[p] = connect[p],
             lost' = lost \/ \E r \in Repo : r # x /\ lost' = lost \ {r},
             UNCHANGED <<syncJob, detached, import>>
      PROVE  Awaits(x)'
  BY <1>a, <1>b, <1>c
<1>1. ASSUME NEW q \in Connect, NEW r \in Repo, RepoIsNew(q, r) PROVE Awaits(x)'
  BY <1>b, <1>c, <1>1 DEF RepoIsNew, Found, NoRequest
<1>2. ASSUME NEW q \in Connect, CheckQuota(q) PROVE Awaits(x)'
  BY <1>b, <1>c, <1>2 DEF CheckQuota, Found, Answered
<1>3. ASSUME NEW q \in Connect, InsertRepo(q) PROVE Awaits(x)'
  <2> DEFINE r == connect[q].repo
  <2>1. /\ connect' = [connect EXCEPT ![q] = Enq(r)] /\ connect[q].at # "enqueue"
        /\ repoRow' = [repoRow EXCEPT ![r] = IF @ = "none" THEN "new" ELSE @]
        /\ lost' = lost \ {r} /\ r \in Repo
        /\ UNCHANGED <<syncJob, detached, import>>
    BY <1>3, <1>b DEF InsertRepo, Upsert, Found
  <2>2. CASE r = x
    BY <1>b, <2>1, <2>2
  <2>3. CASE r # x
    <3>1. repoRow[x] = "new" /\ \A p \in Connect \ {q} : connect'[p] = connect[p]
      BY <1>b, <2>1, <2>3
    <3>2. \E s \in Repo : s # x /\ lost' = lost \ {s}
      BY <2>1, <2>3
    <3>3. connect[q].at # "enqueue" /\ UNCHANGED <<syncJob, detached, import>>
      BY <2>1
    <3> HIDE DEF Awaits, r
    <3> QED
      BY <1>c, <3>1, <3>2, <3>3
  <2> QED
    BY <2>2, <2>3
<1>4. ASSUME NEW q \in Connect, EnqueueFirstSync(q) PROVE Awaits(x)'
  <2> DEFINE r == connect[q].repo
  <2>1. /\ UNCHANGED <<repoRow, import>> /\ r \in syncJob' \cup detached'
        /\ syncJob \subseteq syncJob' /\ detached \subseteq detached'
        /\ lost' = lost \ {r}
        /\ connect' = [connect EXCEPT ![q] = NoRequest]
    BY <1>4 DEF EnqueueFirstSync, StartSync, Answered
  <2>2. CASE r # x
    <3>1. connect[q] # Enq(x)
      BY <2>2
    <3>2. \A p \in Connect : connect[p] = Enq(x) => connect'[p] = Enq(x)
      BY <1>b, <2>1, <3>1
    <3> QED
      BY <1>a, <2>1, <2>2, <3>2
  <2> QED
    BY <2>1, <2>2
<1>5. ASSUME NEW names \in SUBSET Repo, BeginImport(names) PROVE Awaits(x)'
  <2>1. /\ import = NoImport /\ lost' = lost \ names
        /\ import' = [at |-> "connect", names |-> names, toSync |-> {}]
        /\ UNCHANGED <<repoRow, syncJob, detached, connect>>
    BY <1>5 DEF BeginImport
  <2>2. import' # NoImport
    BY <2>1 DEF NoImport
  <2>3. x \in names => Imports(x)'
    BY <2>1, <2>2
  <2> QED
    BY <1>a, <2>1, <2>3
<1>6. ASSUME NEW r \in Repo, ImportRow(r) PROVE Awaits(x)'
  <2>1. /\ import \in Import /\ UNCHANGED <<syncJob, detached, connect>>
        /\ lost \subseteq lost' /\ import'.at = import.at /\ import'.names = import.names \ {r}
        /\ import'.toSync = import.toSync \/ import'.toSync = import.toSync \cup {r}
        /\ import' # NoImport
        /\ \/ UNCHANGED repoRow /\ r \in lost'
           \/ /\ repoRow' = [repoRow EXCEPT ![r] = IF @ = "none" THEN "new" ELSE @]
              /\ repoRow[r] # "synced" => r \in import'.toSync
    <3>1. import \in Import
      BY <1>b, <1>6 DEF ImportRow, NoImport
    <3> QED
      BY <1>6, <3>1 DEF ImportRow, Upsert, ToSync, Import, NoImport
  <2>2. Imports(x) /\ repoRow[x] = "new" => Imports(x)' \/ x \in lost'
    BY <2>1
  <2>3. CASE repoRow[x] = "new"
    BY <1>a, <2>1, <2>2, <2>3
  <2>4. CASE repoRow[x] # "new"
    <3>1. repoRow' = [repoRow EXCEPT ![r] = IF @ = "none" THEN "new" ELSE @]
          /\ (repoRow[r] # "synced" => r \in import'.toSync)
      BY <2>1, <2>4
    <3>2. r = x
      BY <1>b, <2>4, <3>1
    <3>3. Imports(x)'
      BY <1>b, <2>1, <2>4, <3>1, <3>2
    <3> QED
      BY <3>3
  <2> QED
    BY <2>3, <2>4
<1>7. ASSUME NEW r \in Repo, ImportEnqueue(r) PROVE Awaits(x)'
  <2>1. /\ import \in Import /\ UNCHANGED <<repoRow, connect, detached>>
        /\ import' # NoImport /\ import'.toSync = import.toSync \ {r}
        /\ import'.at = import.at /\ import'.names = import.names
        /\ r \in syncJob' \cup lost' /\ syncJob \subseteq syncJob'
        /\ lost \ {r} \subseteq lost'
    <3>1. import \in Import
      BY <1>b, <1>7 DEF ImportEnqueue, NoImport
    <3> QED
      BY <1>7, <3>1 DEF ImportEnqueue, Import, NoImport
  <2> QED
    BY <1>a, <2>1
<1>8. ASSUME NEW r \in Repo, SyncAgain(r) \/ SyncAll(r) PROVE Awaits(x)'
  BY <1>a, <1>8 DEF SyncAgain, SyncAll, StartSync
<1>9. ASSUME NEW r \in Repo, SyncEnds(r) PROVE Awaits(x)'
  <2>1. /\ UNCHANGED <<connect, import>>
        /\ syncJob \ {r} \subseteq syncJob' /\ detached \ {r} \subseteq detached'
        /\ \/ /\ repoRow' = [repoRow EXCEPT ![r] = IF @ = "none" THEN @ ELSE "synced"]
              /\ lost' = lost \ {r}
           \/ lost' = lost \cup {r} /\ UNCHANGED repoRow
    BY <1>9 DEF SyncEnds
  <2>2. r = x => r \in lost'
    BY <1>b, <2>1
  <2>3. r # x => repoRow[x] = "new"
    BY <1>b, <2>1
  <2> QED
    BY <1>a, <2>1, <2>2, <2>3
<1>10. ASSUME NEW r \in Repo, DeleteRepo(r) PROVE Awaits(x)'
  <2>1. r # x /\ repoRow[x] = "new"
    BY <1>b, <1>10 DEF DeleteRepo
  <2>2. \A q \in Connect : connect[q] = Enq(x) => connect'[q] = Enq(x)
    BY <1>10, <2>1 DEF DeleteRepo
  <2>3. Imports(x) => Imports(x)'
    BY <1>10, <1>b, <2>1 DEF DeleteRepo, Import, NoImport
  <2>4. /\ syncJob' = syncJob \ {r} /\ detached' = detached \ {r}
        /\ lost' = lost \ {r}
    BY <1>10 DEF DeleteRepo
  <2> QED
    BY <1>a, <2>1, <2>2, <2>3, <2>4
<1>11. CASE ImportConnected
  BY <1>a, <1>b, <1>11 DEF ImportConnected, Import, NoImport
<1>12. CASE ImportDone \/ BillingStatus
  BY <1>a, <1>12 DEF ImportDone, BillingStatus
<1>13. CASE ServerRestart
  BY <1>a, <1>13 DEF ServerRestart, Connected
<1>14. CASE UNCHANGED connectVars
  BY <1>a, <1>14 DEF connectVars
<1> QED
  BY <1>1, <1>2, <1>3, <1>4, <1>5, <1>6, <1>7, <1>8, <1>9, <1>10, <1>11, <1>12, <1>13, <1>14
  DEF ConnectNext

\* For any number of repositories, requests and losses: what requests insert
\* under the quota exceeds the plan by less than their number, and a repository
\* that was never synced has its sync on the way, or lost it to a restart or a
\* failure since it was last asked for.
THEOREM ConnectIsSound == ConnectSpec => []ConnectSound
<1>1. ConnectInit => ConnectTypeOK /\ QuotaInv /\ FirstSyncPending
  <2> SUFFICES ASSUME ConnectInit PROVE ConnectTypeOK /\ QuotaInv /\ FirstSyncPending
    OBVIOUS
  <2>1. ConnectTypeOK /\ FirstSyncPending
    <3>1. connect \in [Connect -> {NoRequest}] /\ repoRow \in [Repo -> {"none"}]
      BY DEF ConnectInit
    <3>2. losses = 0 /\ 0 \in 0..MaxLosses
      BY RepoConnectAssumption DEF ConnectInit
    <3> QED
      BY <3>1, <3>2 DEF ConnectInit, ConnectTypeOK, FirstSyncPending
  <2>2. Allowed = {} /\ counted = {}
    BY DEF ConnectInit, Allowed, NoRequest
  <2>3. Cardinality(Connect) \in Nat /\ Cardinality(Connect) # 0 /\ Cardinality({}) = 0
    BY RepoConnectAssumption, FS_CardinalityType, FS_EmptySet
  <2> QED
    BY <2>1, <2>2, <2>3, RepoConnectAssumption DEF QuotaInv
<1>2. ConnectTypeOK /\ QuotaInv /\ FirstSyncPending => ConnectSound
  <2> SUFFICES ASSUME ConnectTypeOK, QuotaInv PROVE WithinPlan
    BY DEF ConnectSound
  <2> QED
    BY ConnectCounts, RepoConnectAssumption DEF QuotaInv, WithinPlan
<1> QED
  BY <1>1, <1>2, ConnectTypeStep, QuotaStep, PendingStep, PTL DEF ConnectSpec

-----------------------------------------------------------------------------
(* Incidents *)

LEMMA IncidentsTypeStep ==
  IncidentsTypeOK /\ [IncidentsNext]_incidentVars => IncidentsTypeOK'
<1> SUFFICES ASSUME IncidentsTypeOK, [IncidentsNext]_incidentVars PROVE IncidentsTypeOK'
  OBVIOUS
<1> USE IncidentsAssumption DEF IncidentsTypeOK, Insert
<1>1. ASSUME NEW w \in Worker, NEW entry \in Entry, Miss(w, entry) PROVE IncidentsTypeOK'
  BY <1>1 DEF Miss
<1>2. \A s \in Sites, t \in Instant, c \in Instant \cup {0} :
        /\ Made(s, t, 0, "deploy") \in Entry /\ Made(s, t, 0, "person") \in Entry
        /\ \A l \in Label : Made(s, t, c, l) \in Entry
  BY DEF Made, Entry
<1>3. ASSUME NEW w \in Worker, Commit(w) \/ RollBack(w) PROVE IncidentsTypeOK'
  BY <1>3 DEF Commit, RollBack
<1>4. ASSUME NEW n \in Row, NEW t \in Instant, Used(n)
      PROVE  [incident[n] EXCEPT !.resolved = t] \in Entry
  <2>1. incident[n] \in Entry
    BY <1>4 DEF Used, Unused
  <2> QED
    BY <2>1 DEF Entry
<1>5. ASSUME NEW s \in Sites, NEW t \in Instant, DeploySucceeded(s, t)
      PROVE  IncidentsTypeOK'
  BY <1>4, <1>5 DEF DeploySucceeded, IsOpen
<1>6. ASSUME NEW s \in Sites, NEW t \in Instant, CreateIncident(s, t)
      PROVE  IncidentsTypeOK'
  BY <1>2, <1>6 DEF CreateIncident
<1>7. ASSUME NEW s \in Site, NEW l \in Label, NEW t \in Instant, NEW closed \in Instant,
             SyncFound(s, l, t, closed)
      PROVE  IncidentsTypeOK'
  BY <1>4, <1>7 DEF SyncFound, IsOpen
<1>8. ASSUME NEW n \in Row, NEW t \in Instant, ResolveIncident(n, t)
      PROVE  IncidentsTypeOK'
  BY <1>4, <1>8 DEF ResolveIncident
<1>9. ASSUME NEW w \in Worker, NEW s \in Sites, NEW t \in Instant, DeployFailed(w, s, t)
      PROVE  IncidentsTypeOK'
  BY <1>1, <1>2, <1>9 DEF DeployFailed
<1>10. ASSUME NEW w \in Worker, NEW s \in Site, NEW l \in Label, NEW t \in Instant,
              NEW closed \in Instant \cup {0}, SyncMissing(w, s, l, t, closed)
       PROVE  IncidentsTypeOK'
  BY <1>1, <1>2, <1>10 DEF SyncMissing, Sites
<1>11. CASE UNCHANGED incidentVars
  BY <1>11 DEF incidentVars
<1> QED
  BY <1>3, <1>5, <1>6, <1>7, <1>8, <1>9, <1>10, <1>11 DEF IncidentsNext

\* What no second one should be made of: an open incident of the deployments at one
\* site, the incident of one issue.
DeployedAt(s)    == {e \in Entry : e.resolved = 0 /\ e.cause = "deploy" /\ e.site = s}
OfIssue(s, l, t) == {e \in Entry : SameIncident(e, s, l, t)}
Groups == {DeployedAt(s) : s \in Sites}
            \cup {OfIssue(s, l, t) : s \in Site, l \in Label, t \in Instant}

Rows(g)   == {n \in Row : incident[n] \in g}
Makers(g) == {w \in Worker : missing[w] \in g}

\* Whoever is about to insert an incident found none, so that both together are
\* never more than the transactions.
FewInv ==
  \A g \in Groups : Cardinality(Rows(g)) + Cardinality(Makers(g)) <= Cardinality(Worker)

LEMMA IncidentCounts ==
  \A g : /\ IsFiniteSet(Rows(g)) /\ Cardinality(Rows(g)) \in Nat
         /\ IsFiniteSet(Makers(g)) /\ Cardinality(Makers(g)) \in Nat
         /\ Cardinality(Makers(g)) <= Cardinality(Worker)
         /\ Cardinality(Worker) \in Nat
BY IncidentsAssumption, SubsetCounts DEF Rows, Makers

\* What is not in a group does not get there by being resolved; no row is free and
\* in a group, and no group holds what a person reported.
LEMMA GroupFacts ==
  ASSUME NEW g \in Groups
  PROVE  /\ Unused \notin g
         /\ \A e \in Entry, t \in Instant : [e EXCEPT !.resolved = t] \in g => e \in g
         /\ \A s, t : Made(s, t, 0, "person") \notin g
<1> USE IncidentsAssumption
<1>1. CASE \E s \in Sites : g = DeployedAt(s)
  BY <1>1 DEF DeployedAt, Unused, Made, Entry
<1>2. CASE \E s \in Site, l \in Label, t \in Instant : g = OfIssue(s, l, t)
  BY <1>2 DEF OfIssue, SameIncident, Unused, Made, Entry
<1> QED
  BY <1>1, <1>2 DEF Groups

LEMMA FewStep ==
  IncidentsTypeOK /\ FewInv /\ [IncidentsNext]_incidentVars => FewInv'
<1> SUFFICES ASSUME IncidentsTypeOK, FewInv, [IncidentsNext]_incidentVars, NEW g \in Groups
             PROVE  Cardinality(Rows(g)') + Cardinality(Makers(g)') <= Cardinality(Worker)
  BY DEF FewInv
<1> DEFINE Few == Cardinality(Rows(g)') + Cardinality(Makers(g)') <= Cardinality(Worker)
<1>a. Cardinality(Rows(g)) + Cardinality(Makers(g)) <= Cardinality(Worker)
  BY DEF FewInv
<1>b. ASSUME Rows(g)' \subseteq Rows(g), Makers(g)' \subseteq Makers(g)
      PROVE  Few
  <2>1. /\ Cardinality(Rows(g)') <= Cardinality(Rows(g))
        /\ Cardinality(Rows(g)') \in Nat
        /\ Cardinality(Makers(g)') <= Cardinality(Makers(g))
        /\ Cardinality(Makers(g)') \in Nat
    BY <1>b, IncidentCounts, SubsetCounts
  <2> QED
    BY <1>a, <2>1, IncidentCounts
\* One that is about to insert into the group found none there.
<1>1. ASSUME NEW w \in Worker, NEW entry, Miss(w, entry), entry \in g => Rows(g) = {}
      PROVE  Few
  <2>1. UNCHANGED incident /\ missing' = [missing EXCEPT ![w] = entry]
    BY <1>1 DEF Miss
  <2>2. CASE entry \in g
    <3>1. Rows(g)' = {}
      BY <1>1, <2>1, <2>2 DEF Rows
    <3>2. Makers(g)' \subseteq Worker
      BY DEF Makers
    <3>3. /\ Cardinality(Makers(g)') <= Cardinality(Worker)
          /\ Cardinality(Makers(g)') \in Nat
      BY <3>2, IncidentsAssumption, SubsetCounts
    <3> QED
      BY <3>1, <3>3, FS_EmptySet, IncidentCounts
  <2>3. CASE entry \notin g
    <3>1. Makers(g)' \subseteq Makers(g)
      BY <2>1, <2>3 DEF Makers, IncidentsTypeOK
    <3>2. Rows(g)' = Rows(g)
      BY <2>1 DEF Rows
    <3> QED
      BY <1>b, <3>1, <3>2
  <2> QED
    BY <2>2, <2>3
<1>2. ASSUME NEW w \in Worker, NEW s \in Sites, NEW t \in Instant, DeployFailed(w, s, t)
      PROVE  Few
  <2>1. ASSUME Made(s, t, 0, "deploy") \in g PROVE Rows(g) = {}
    <3>1. g = DeployedAt(s)
      BY <2>1, IncidentsAssumption
      DEF Groups, DeployedAt, OfIssue, SameIncident, Made
    <3> QED
      BY <1>2, <3>1 DEF DeployFailed, HasOpen, InScope, IsOpen, Used, Rows, DeployedAt
  <2> QED
    BY <1>1, <1>2, <2>1 DEF DeployFailed
<1>3. ASSUME NEW w \in Worker, NEW s \in Site, NEW l \in Label, NEW t \in Instant,
             NEW closed \in Instant \cup {0}, SyncMissing(w, s, l, t, closed)
      PROVE  Few
  <2>1. ASSUME Made(s, t, closed, l) \in g PROVE Rows(g) = {}
    <3>1. g = OfIssue(s, l, t)
      BY <2>1, IncidentsAssumption
      DEF Groups, DeployedAt, OfIssue, SameIncident, Made
    <3> QED
      BY <1>3, <3>1 DEF SyncMissing, HasIncident, Rows, OfIssue
  <2> QED
    BY <1>1, <1>3, <2>1 DEF SyncMissing
<1>4. ASSUME NEW w \in Worker, Commit(w)
      PROVE  Few
  <2>1. PICK n \in Row : incident' = [incident EXCEPT ![n] = missing[w]]
    BY <1>4 DEF Commit, Insert
  <2>2. missing' = [missing EXCEPT ![w] = Unused]
    BY <1>4 DEF Commit
  <2>3. CASE missing[w] \in g
    <3>1. Makers(g)' = Makers(g) \ {w} /\ w \in Makers(g)
      BY <2>2, <2>3, GroupFacts DEF Makers, IncidentsTypeOK
    <3>2. Rows(g)' \subseteq Rows(g) \cup {n}
      BY <2>1 DEF Rows, IncidentsTypeOK
    <3>3. /\ Cardinality(Makers(g)') = Cardinality(Makers(g)) - 1
          /\ Cardinality(Makers(g)') \in Nat
      BY <3>1, IncidentCounts, OneLessCounts
    <3>4. /\ IsFiniteSet(Rows(g) \cup {n})
          /\ Cardinality(Rows(g) \cup {n}) <= Cardinality(Rows(g)) + 1
          /\ Cardinality(Rows(g) \cup {n}) \in Nat
      BY IncidentCounts, OneMoreCounts, FS_AddElement
    <3>5. /\ Cardinality(Rows(g)') <= Cardinality(Rows(g) \cup {n})
          /\ Cardinality(Rows(g)') \in Nat
      BY <3>2, <3>4, SubsetCounts
    <3> QED
      BY <1>a, <3>3, <3>4, <3>5, IncidentCounts
  <2>4. CASE missing[w] \notin g
    <3>1. Rows(g)' \subseteq Rows(g)
      BY <2>1, <2>4 DEF Rows, IncidentsTypeOK
    <3>2. Makers(g)' \subseteq Makers(g)
      BY <2>2, GroupFacts DEF Makers, IncidentsTypeOK
    <3> QED
      BY <1>b, <3>1, <3>2
  <2> QED
    BY <2>3, <2>4
<1>5. ASSUME NEW w \in Worker, RollBack(w) PROVE Few
  <2>1. Makers(g)' \subseteq Makers(g)
    BY <1>5, GroupFacts DEF RollBack, Makers, IncidentsTypeOK
  <2>2. Rows(g)' = Rows(g)
    BY <1>5 DEF RollBack, Rows
  <2> QED
    BY <1>b, <2>1, <2>2
\* Every other step puts no row into the group.
<1>c. ASSUME UNCHANGED missing, \A n \in Row : incident'[n] \in g => incident[n] \in g
      PROVE  Few
  BY <1>b, <1>c DEF Makers, Rows
<1>d. ASSUME NEW n \in Row, NEW t \in Instant, Used(n),
             [incident[n] EXCEPT !.resolved = t] \in g
      PROVE  incident[n] \in g
  <2>1. incident[n] \in Entry
    BY <1>d DEF Used, Unused, IncidentsTypeOK
  <2> QED
    BY <1>d, <2>1, GroupFacts
<1>6. ASSUME NEW s \in Sites, NEW t \in Instant, DeploySucceeded(s, t) PROVE Few
  BY <1>c, <1>d, <1>6 DEF DeploySucceeded, IsOpen
<1>7. ASSUME NEW s \in Sites, NEW t \in Instant, CreateIncident(s, t) PROVE Few
  BY <1>c, <1>7, GroupFacts DEF CreateIncident, Insert, IncidentsTypeOK
<1>8. ASSUME NEW s \in Site, NEW l \in Label, NEW t \in Instant, NEW closed \in Instant,
             SyncFound(s, l, t, closed)
      PROVE  Few
  BY <1>c, <1>d, <1>8 DEF SyncFound, IsOpen
<1>9. ASSUME NEW n \in Row, NEW t \in Instant, ResolveIncident(n, t) PROVE Few
  BY <1>c, <1>d, <1>9 DEF ResolveIncident, IncidentsTypeOK
<1>10. CASE UNCHANGED incidentVars
  BY <1>c, <1>10 DEF incidentVars
<1> QED
  BY <1>2, <1>3, <1>4, <1>5, <1>6, <1>7, <1>8, <1>9, <1>10 DEF IncidentsNext

\* For any number of sites, issues, transactions and rows: however failures are sent
\* again and syncs overlap, the open incidents of deployments at one site, and the
\* rows of one issue, are at most the transactions that run at a time.
THEOREM DuplicatesAreFew == IncidentsSpec => []FewDuplicates
<1>1. IncidentsInit => IncidentsTypeOK /\ FewInv
  <2> SUFFICES ASSUME IncidentsInit PROVE IncidentsTypeOK /\ FewInv
    OBVIOUS
  <2>1. IncidentsTypeOK
    BY DEF IncidentsInit, IncidentsTypeOK
  <2>2. \A g \in Groups : Rows(g) = {} /\ Makers(g) = {}
    BY GroupFacts DEF IncidentsInit, Rows, Makers
  <2> QED
    BY <2>1, <2>2, IncidentCounts, FS_EmptySet DEF FewInv
<1>2. IncidentsTypeOK /\ FewInv => FewDuplicates
  <2> SUFFICES ASSUME IncidentsTypeOK, FewInv PROVE FewDuplicates
    OBVIOUS
  <2> USE IncidentsAssumption
  <2>1. \A n \in Row : Used(n) => incident[n] \in Entry
    BY DEF IncidentsTypeOK, Used, Unused
  <2>2. ASSUME NEW g \in Groups PROVE Cardinality(Rows(g)) <= Cardinality(Worker)
    BY IncidentCounts DEF FewInv
  <2>3. ASSUME NEW s \in Sites
        PROVE  /\ {n \in Row : IsOpen(n) /\ incident[n].cause = "deploy"
                                         /\ incident[n].site = s} = Rows(DeployedAt(s))
               /\ DeployedAt(s) \in Groups
    BY <2>1 DEF Rows, DeployedAt, IsOpen, Used, Groups
  <2>4. ASSUME NEW s \in Site, NEW l \in Label, NEW t \in Instant
        PROVE  /\ {n \in Row : SameIncident(incident[n], s, l, t)} = Rows(OfIssue(s, l, t))
               /\ OfIssue(s, l, t) \in Groups
    BY <2>1 DEF Rows, OfIssue, SameIncident, Used, Groups
  <2>5. \A s \in Sites :
          Cardinality({n \in Row : IsOpen(n) /\ incident[n].cause = "deploy"
                                             /\ incident[n].site = s}) <= Cardinality(Worker)
    BY <2>2, <2>3
  <2>6. \A s \in Site, l \in Label, t \in Instant :
          Cardinality({n \in Row : SameIncident(incident[n], s, l, t)}) <= Cardinality(Worker)
    BY <2>2, <2>4
  <2> QED
    BY <2>5, <2>6 DEF FewDuplicates
<1> QED
  BY <1>1, <1>2, IncidentsTypeStep, FewStep, PTL DEF IncidentsSpec

-----------------------------------------------------------------------------
(* The jobs that follow a sync *)

HeadIsHad(r) == had[r] # {} => head[r] \in had[r]

\* deep_analyze holds one head, from the moment it has cloned it to its end, and
\* between its two transactions the rows are of that head.
HoldsHead(r) ==
  /\ holds[Deep(r)] = {} \/ \E h \in Sha : holds[Deep(r)] = {h}
  /\ task[Deep(r)] \in {"none", "pending", "running"} => holds[Deep(r)] = {}
  /\ task[Deep(r)] = "stored" => holds[Deep(r)] = {survival[r]} /\ survival[r] \in Sha

\* A deep_analyze that holds a head from before the last ingest was passed over by
\* the follow-up, or that follow-up is still to come.
Outdated(r) ==
  had[r] # {} /\ ~(holds[Deep(r)] \subseteq had[r]) =>
    task[Sync(r)] \in {"pending", "running", "read"} \/ Deep(r) \in slipped

PipelineTyped == PipelineTypeOK /\ holds[Detect] \subseteq Authors

PipelineInv ==
  PipelineTyped /\ \A r \in Source : HeadIsHad(r) /\ HoldsHead(r) /\ Outdated(r)

LEMMA TaskNames ==
  /\ Detect \in Tasks
  /\ \A r \in Source : /\ Sync(r) \in Tasks /\ Deep(r) \in Tasks
                       /\ Sync(r) # Detect /\ Deep(r) # Detect
                       /\ \A q \in Source : /\ Sync(r) # Deep(q)
                                            /\ Sync(r) = Sync(q) => r = q
                                            /\ Deep(r) = Deep(q) => r = q
  /\ \A t \in Tasks : IF t[1] = "sync" THEN t[2] \in Source /\ t = Sync(t[2])
                    ELSE t = Detect \/ \E r \in Source : t = Deep(r)
BY DEF Tasks, Sync, Deep, Detect

\* What a deep_analyze stores and records is the head it holds.
LEMMA HeldHead ==
  ASSUME NEW r \in Source, HoldsHead(r), holds[Deep(r)] # {}
  PROVE  /\ (CHOOSE h \in Sha : h \in holds[Deep(r)]) \in Sha
         /\ holds[Deep(r)] = {CHOOSE h \in Sha : h \in holds[Deep(r)]}
<1>1. PICK h \in Sha : holds[Deep(r)] = {h}
  BY DEF HoldsHead
<1> QED
  BY <1>1

LEMMA PipelineTypeStep == PipelineInv /\ [PipelineNext]_pipelineVars => PipelineTyped'
<1> SUFFICES ASSUME PipelineInv, [PipelineNext]_pipelineVars PROVE PipelineTyped'
  OBVIOUS
<1>a. PipelineTyped /\ \A r \in Source : HoldsHead(r)
  BY DEF PipelineInv
<1> USE PipelineAssumption, TaskNames, <1>a
    DEF PipelineTyped, PipelineTypeOK, GotoStage, Holding, Mishap, Stage
<1>1. ASSUME NEW r \in Source, NEW h \in Sha, PushHead(r, h) PROVE PipelineTyped'
  BY <1>1 DEF PushHead
<1>2. ASSUME NEW r \in Source, RequestSync(r) PROVE PipelineTyped'
  BY <1>2 DEF RequestSync
<1>3. ASSUME NEW t \in Tasks, Dequeue(t) PROVE PipelineTyped'
  BY <1>3 DEF Dequeue
<1>4. ASSUME NEW t \in Tasks, JobFails(t) PROVE PipelineTyped'
  BY <1>4 DEF JobFails
<1>5. ASSUME NEW r \in Source, NEW t \in Tasks, NEW from, NEW to \in Stage,
             FollowUp(r, t, from, to)
      PROVE  PipelineTyped'
  BY <1>5 DEF FollowUp, Enqueued
<1>6. ASSUME NEW r \in Source, Ingest(r) PROVE PipelineTyped'
  BY <1>6 DEF Ingest, Authors
<1>7. ASSUME NEW r \in Source, ResolveHead(r) PROVE PipelineTyped'
  BY <1>7 DEF ResolveHead
<1>8. ASSUME NEW r \in Source, Analyze(r) PROVE PipelineTyped'
  BY <1>8 DEF Analyze
<1>9. ASSUME NEW r \in Source, StoreAnalysis(r) PROVE PipelineTyped'
  <2> DEFINE h == CHOOSE h \in Sha : h \in holds[Deep(r)]
  <2>1. h \in Shas
    BY <1>9, HeldHead DEF StoreAnalysis, Shas
  <2>2. \/ /\ survival' = [survival EXCEPT ![r] = h] /\ UNCHANGED <<holds, slipped, mishaps>>
           /\ task' = [task EXCEPT ![Deep(r)] = "stored"]
        \/ /\ UNCHANGED survival /\ slipped' = slipped \cup {Deep(r)} /\ mishaps < MaxMishaps
           /\ mishaps' = mishaps + 1 /\ task' = [task EXCEPT ![Deep(r)] = "none"]
           /\ holds' = [holds EXCEPT ![Deep(r)] = {}]
    BY <1>9 DEF StoreAnalysis
  <2>3. UNCHANGED <<head, known, had, lastAnalyzed, grouped, unrecorded>>
    BY <1>9 DEF StoreAnalysis
  <2> HIDE DEF h
  <2> QED
    BY <2>1, <2>2, <2>3
<1>10. ASSUME NEW r \in Source, RecordAnalyzed(r) PROVE PipelineTyped'
  <2> DEFINE h == CHOOSE h \in Sha : h \in holds[Deep(r)]
  <2>1. h \in Shas
    BY <1>10, HeldHead DEF RecordAnalyzed, Shas, HoldsHead
  <2>2. /\ holds' = [holds EXCEPT ![Deep(r)] = {}] /\ task' = [task EXCEPT ![Deep(r)] = "none"]
        /\ \/ /\ lastAnalyzed' = [lastAnalyzed EXCEPT ![r] = h]
              /\ unrecorded' = unrecorded \ {r} /\ UNCHANGED <<slipped, mishaps>>
           \/ /\ UNCHANGED lastAnalyzed /\ unrecorded' = unrecorded \cup {r}
              /\ slipped' = slipped \cup {Deep(r)} /\ mishaps < MaxMishaps
              /\ mishaps' = mishaps + 1
        /\ UNCHANGED <<head, known, had, survival, grouped>>
    BY <1>10 DEF RecordAnalyzed
  <2> HIDE DEF h
  <2> QED
    BY <2>1, <2>2
<1>11. CASE ReadIdentities
  BY <1>11 DEF ReadIdentities
<1>13. CASE Group
  BY <1>13 DEF Group
<1>12. CASE UNCHANGED pipelineVars
  BY <1>12 DEF pipelineVars
<1> QED
  BY <1>1, <1>2, <1>3, <1>4, <1>5, <1>6, <1>7, <1>8, <1>9, <1>10, <1>11, <1>12, <1>13
  DEF PipelineNext, FollowWithDeep, FollowWithDetect

LEMMA OutdatedStep == PipelineInv /\ [PipelineNext]_pipelineVars => PipelineInv'
<1> SUFFICES ASSUME PipelineInv, [PipelineNext]_pipelineVars, NEW x \in Source
             PROVE  HeadIsHad(x)' /\ HoldsHead(x)' /\ Outdated(x)'
  BY PipelineTypeStep DEF PipelineInv
<1> DEFINE Holds == HeadIsHad(x)' /\ HoldsHead(x)' /\ Outdated(x)'
<1>a. PipelineTypeOK /\ \A r \in Source : HeadIsHad(r) /\ HoldsHead(r) /\ Outdated(r)
  BY DEF PipelineInv, PipelineTyped
<1> USE TaskNames, <1>a DEF PipelineTypeOK, GotoStage, Holding, HeadIsHad, HoldsHead, Outdated
\* What leaves the repository's sync where it is, or before its follow-up.
<1>b. ASSUME UNCHANGED <<head, had, holds, survival>>,
             Deep(x) \in slipped => Deep(x) \in slipped',
             task'[Sync(x)] = task[Sync(x)]
               \/ task'[Sync(x)] \in {"pending", "running", "read"},
             \/ task'[Deep(x)] = task[Deep(x)]
             \/ task'[Deep(x)] # "stored" /\ holds[Deep(x)] = {}
      PROVE  Holds
  BY <1>b
<1>1. ASSUME NEW r \in Source, NEW h \in Sha, PushHead(r, h) PROVE Holds
  BY <1>1 DEF PushHead
<1>2. ASSUME NEW r \in Source, RequestSync(r) PROVE Holds
  BY <1>b, <1>2 DEF RequestSync
<1>3. ASSUME NEW t \in Tasks, Dequeue(t) PROVE Holds
  BY <1>b, <1>3 DEF Dequeue
<1>4. ASSUME NEW t \in Tasks, JobFails(t) PROVE Holds
  <2>1. /\ UNCHANGED <<head, had, survival>> /\ slipped \subseteq slipped'
        /\ holds' = [holds EXCEPT ![t] = {}]
        /\ task' = [task EXCEPT ![t] = "pending"] \/ task' = [task EXCEPT ![t] = "none"]
    BY <1>4 DEF JobFails
  <2>2. CASE t = Deep(x)
    BY <2>1, <2>2
  <2>3. CASE t = Sync(x)
    <3>1. task'[Sync(x)] = "pending" \/ Deep(x) \in slipped'
      <4>1. t[1] = "sync" /\ t[2] = x
        BY <2>3 DEF Sync
      <4> QED
        BY <1>4, <2>3, <4>1 DEF JobFails
    <3> QED
      BY <2>1, <2>3, <3>1
  <2>4. CASE t # Deep(x) /\ t # Sync(x)
    BY <2>1, <2>4
  <2> QED
    BY <2>2, <2>3, <2>4
<1>5. ASSUME NEW r \in Source, FollowWithDeep(r) PROVE Holds
  <2>1. /\ UNCHANGED <<head, had, holds, survival>> /\ task[Sync(r)] = "read"
        /\ \/ /\ task' = [task EXCEPT ![Sync(r)] = "followed",
                                      ![Deep(r)] = Enqueued(Deep(r), @)]
              /\ slipped' = IF task[Deep(r)] \in {"none", "pending", "running"}
                              THEN slipped \ {Deep(r)} ELSE slipped \cup {Deep(r)}
           \/ /\ task' = [task EXCEPT ![Sync(r)] = "followed"]
              /\ slipped' = slipped \cup {Deep(r)}
    BY <1>5 DEF FollowWithDeep, FollowUp
  <2>2. CASE r = x
    BY <2>1, <2>2 DEF Enqueued
  <2>3. CASE r # x
    BY <1>b, <2>1, <2>3
  <2> QED
    BY <2>2, <2>3
<1>6. ASSUME NEW r \in Source, FollowWithDetect(r) PROVE Holds
  <2>1. /\ UNCHANGED <<head, had, holds, survival>> /\ task[Sync(r)] = "followed"
        /\ task'[Deep(x)] = task[Deep(x)] /\ slipped \ {Detect} \subseteq slipped'
        /\ task'[Sync(x)] = IF r = x THEN "none" ELSE task[Sync(x)]
    BY <1>6 DEF FollowWithDetect, FollowUp
  <2> QED
    BY <2>1
<1>7. ASSUME NEW r \in Source, Ingest(r) PROVE Holds
  BY <1>7 DEF Ingest
<1>8. ASSUME NEW r \in Source, ResolveHead(r) PROVE Holds
  BY <1>b, <1>8 DEF ResolveHead
<1>9. ASSUME NEW r \in Source, Analyze(r) PROVE Holds
  <2>1. /\ UNCHANGED <<head, had, survival>> /\ slipped \subseteq slipped'
        /\ holds[Deep(r)] = {} /\ task[Deep(r)] = "read"
        /\ \/ holds' = [holds EXCEPT ![Deep(r)] = {head[r]}] /\ UNCHANGED task
           \/ task' = [task EXCEPT ![Deep(r)] = "none"] /\ UNCHANGED holds
    BY <1>9 DEF Analyze
  <2> QED
    BY <1>b, <2>1
<1>10. ASSUME NEW r \in Source, StoreAnalysis(r) PROVE Holds
  <2> DEFINE h == CHOOSE h \in Sha : h \in holds[Deep(r)]
  <2>1. /\ UNCHANGED <<head, had>> /\ slipped \subseteq slipped'
        /\ \/ task' = [task EXCEPT ![Deep(r)] = "stored"] /\ UNCHANGED holds
              /\ survival' = [survival EXCEPT ![r] = h]
           \/ /\ task' = [task EXCEPT ![Deep(r)] = "none"] /\ UNCHANGED survival
              /\ holds' = [holds EXCEPT ![Deep(r)] = {}]
    BY <1>10 DEF StoreAnalysis
  <2>2. h \in Sha /\ holds[Deep(r)] = {h}
    BY <1>10, HeldHead DEF StoreAnalysis
  <2> HIDE DEF h
  <2> QED
    BY <2>1, <2>2
<1>11. ASSUME NEW r \in Source, RecordAnalyzed(r) PROVE Holds
  <2>1. /\ UNCHANGED <<head, had, survival>> /\ slipped \subseteq slipped'
        /\ task' = [task EXCEPT ![Deep(r)] = "none"]
        /\ holds' = [holds EXCEPT ![Deep(r)] = {}]
    BY <1>11 DEF RecordAnalyzed
  <2> QED
    BY <2>1
<1>12. CASE ReadIdentities \/ Group
  BY <1>12 DEF ReadIdentities, Group
<1>13. CASE UNCHANGED pipelineVars
  BY <1>b, <1>13 DEF pipelineVars
<1> QED
  BY <1>1, <1>2, <1>3, <1>4, <1>5, <1>6, <1>7, <1>8, <1>9, <1>10, <1>11, <1>12, <1>13
  DEF PipelineNext

\* An author waits for its group until something has lost it.
LEMMA GroupedStep ==
  PipelineInv /\ IdentitiesGrouped /\ [PipelineNext]_pipelineVars => IdentitiesGrouped'
<1> DEFINE Waiting(a) == \/ \E r \in Source : task[Sync(r)] # "none"
                         \/ task[Detect] \in {"pending", "running"}
                         \/ a \in holds[Detect]
                         \/ Detect \in slipped
<1> SUFFICES ASSUME PipelineInv, IdentitiesGrouped, [PipelineNext]_pipelineVars,
                    NEW a \in known' \ grouped'
             PROVE  Waiting(a)'
  BY DEF IdentitiesGrouped
<1>a. a \in known \ grouped => Waiting(a)
  BY DEF IdentitiesGrouped
<1>b. PipelineTypeOK
  BY DEF PipelineInv, PipelineTyped
<1> USE TaskNames, <1>b DEF PipelineTypeOK, GotoStage, Holding
<1>c. ASSUME known' = known, grouped' = grouped, Detect \in slipped => Detect \in slipped',
             holds'[Detect] = holds[Detect],
             \/ task'[Detect] = task[Detect]
             \/ task'[Detect] \in {"pending", "running"},
             \A r \in Source : task[Sync(r)] # "none" => task'[Sync(r)] # "none"
      PROVE  Waiting(a)'
  BY <1>a, <1>c
<1>1. ASSUME NEW r \in Source, NEW h \in Sha, PushHead(r, h) PROVE Waiting(a)'
  BY <1>c, <1>1 DEF PushHead
<1>2. ASSUME NEW r \in Source, RequestSync(r) PROVE Waiting(a)'
  BY <1>c, <1>2 DEF RequestSync
<1>3. ASSUME NEW t \in Tasks, Dequeue(t) PROVE Waiting(a)'
  BY <1>c, <1>3 DEF Dequeue
<1>4. ASSUME NEW t \in Tasks, JobFails(t) PROVE Waiting(a)'
  <2>1. /\ UNCHANGED <<known, grouped>> /\ slipped \subseteq slipped'
        /\ holds' = [holds EXCEPT ![t] = {}]
        /\ \/ task' = [task EXCEPT ![t] = "pending"]
           \/ /\ task' = [task EXCEPT ![t] = "none"]
              /\ t[1] = "sync" \/ t = Detect => Detect \in slipped'
    <3>1. Detect[1] # "sync"
      BY DEF Detect
    <3> QED
      BY <1>4, <3>1 DEF JobFails
  <2>2. CASE Detect \in slipped'
    BY <2>2
  <2>3. CASE task' = [task EXCEPT ![t] = "pending"]
    BY <1>a, <2>1, <2>3
  <2>4. CASE t[1] # "sync" /\ t # Detect
    <3>1. \A r \in Source : t # Sync(r)
      BY <2>4 DEF Sync
    <3> QED
      BY <1>c, <2>1, <2>4, <3>1
  <2> QED
    BY <2>1, <2>2, <2>3, <2>4
<1>5. ASSUME NEW r \in Source, FollowWithDeep(r) PROVE Waiting(a)'
  <2>1. task'[Sync(r)] = "followed"
    BY <1>5 DEF FollowWithDeep, FollowUp
  <2> QED
    BY <2>1
<1>6. ASSUME NEW r \in Source, FollowWithDetect(r) PROVE Waiting(a)'
  <2>1. task'[Detect] \in {"pending", "running"} \/ Detect \in slipped'
    BY <1>6 DEF FollowWithDetect, FollowUp, Enqueued
  <2> QED
    BY <2>1
<1>7. ASSUME NEW r \in Source, Ingest(r) PROVE Waiting(a)'
  <2>1. task'[Sync(r)] = "read"
    BY <1>7 DEF Ingest
  <2> QED
    BY <2>1
<1>8. ASSUME NEW r \in Source,
             ResolveHead(r) \/ Analyze(r) \/ StoreAnalysis(r) \/ RecordAnalyzed(r)
      PROVE  Waiting(a)'
  <2>1. /\ UNCHANGED <<known, grouped>> /\ slipped \subseteq slipped'
        /\ \A t \in Tasks : t # Deep(r) => task'[t] = task[t] /\ holds'[t] = holds[t]
    BY <1>8 DEF ResolveHead, Analyze, StoreAnalysis, RecordAnalyzed
  <2> QED
    BY <1>c, <2>1
<1>9. CASE ReadIdentities
  BY <1>9 DEF ReadIdentities
<1>10. CASE Group
  BY <1>a, <1>10 DEF Group
<1>11. CASE UNCHANGED pipelineVars
  BY <1>c, <1>11 DEF pipelineVars
<1> QED
  BY <1>1, <1>2, <1>3, <1>4, <1>5, <1>6, <1>7, <1>8, <1>9, <1>10, <1>11 DEF PipelineNext

\* The analysis on record is of a head since the last ingest, or is being made so.
LEMMA FollowsStep ==
  PipelineInv /\ AnalysisFollows /\ [PipelineNext]_pipelineVars => AnalysisFollows'
<1> SUFFICES ASSUME PipelineInv, AnalysisFollows, [PipelineNext]_pipelineVars, NEW x \in Source
             PROVE  Followed(x)' /\ Recorded(x)'
  BY DEF AnalysisFollows
<1> DEFINE Holds == Followed(x)' /\ Recorded(x)'
<1>a. /\ PipelineTypeOK /\ \A r \in Source : HeadIsHad(r) /\ HoldsHead(r) /\ Outdated(r)
      /\ Followed(x) /\ Recorded(x)
  BY DEF PipelineInv, PipelineTyped, AnalysisFollows
<1> USE TaskNames, <1>a DEF PipelineTypeOK, GotoStage, Holding, Followed, Recorded
<1>b. ASSUME UNCHANGED <<had, holds, lastAnalyzed, survival, unrecorded>>,
             Deep(x) \in slipped => Deep(x) \in slipped',
             task'[Sync(x)] = task[Sync(x)]
               \/ task'[Sync(x)] \in {"pending", "running", "read"},
             \/ task'[Deep(x)] = task[Deep(x)]
             \/ task[Deep(x)] # "stored" /\ task'[Deep(x)] \in {"pending", "running"}
      PROVE  Holds
  BY <1>b
<1>1. ASSUME NEW r \in Source, NEW h \in Sha, PushHead(r, h) PROVE Holds
  BY <1>1 DEF PushHead
<1>2. ASSUME NEW r \in Source, RequestSync(r) PROVE Holds
  BY <1>b, <1>2 DEF RequestSync
<1>3. ASSUME NEW t \in Tasks, Dequeue(t) PROVE Holds
  BY <1>b, <1>3 DEF Dequeue
<1>4. ASSUME NEW t \in Tasks, JobFails(t) PROVE Holds
  <2>1. /\ UNCHANGED <<had, lastAnalyzed, survival>> /\ slipped \subseteq slipped'
        /\ holds' = [holds EXCEPT ![t] = {}]
        /\ \/ task' = [task EXCEPT ![t] = "pending"]
           \/ task' = [task EXCEPT ![t] = "none"] /\ (t[1] # "sync" => t \in slipped')
        /\ unrecorded \subseteq unrecorded'
        /\ t = Deep(x) /\ task[t] = "stored" => x \in unrecorded'
    BY <1>4 DEF JobFails
  <2>2. CASE t = Deep(x)
    <3>1. t[1] # "sync"
      BY <2>2 DEF Deep
    <3> QED
      BY <2>1, <2>2, <3>1
  <2>3. CASE t = Sync(x)
    <3>1. task'[Sync(x)] = "pending" \/ Deep(x) \in slipped'
      <4>1. t[1] = "sync" /\ t[2] = x
        BY <2>3 DEF Sync
      <4> QED
        BY <1>4, <2>3, <4>1 DEF JobFails
    <3> QED
      BY <2>1, <2>3, <3>1
  <2>4. CASE t # Deep(x) /\ t # Sync(x)
    BY <2>1, <2>4
  <2> QED
    BY <2>2, <2>3, <2>4
<1>5. ASSUME NEW r \in Source, FollowWithDeep(r) PROVE Holds
  <2>1. /\ UNCHANGED <<had, holds, lastAnalyzed, survival, unrecorded>>
        /\ \/ /\ task' = [task EXCEPT ![Sync(r)] = "followed",
                                      ![Deep(r)] = Enqueued(Deep(r), @)]
              /\ slipped' = IF task[Deep(r)] \in {"none", "pending", "running"}
                              THEN slipped \ {Deep(r)} ELSE slipped \cup {Deep(r)}
           \/ /\ task' = [task EXCEPT ![Sync(r)] = "followed"]
              /\ slipped' = slipped \cup {Deep(r)}
    BY <1>5 DEF FollowWithDeep, FollowUp
  <2>2. CASE r = x
    BY <2>1, <2>2 DEF Enqueued
  <2>3. CASE r # x
    BY <1>b, <2>1, <2>3
  <2> QED
    BY <2>2, <2>3
<1>6. ASSUME NEW r \in Source, FollowWithDetect(r) PROVE Holds
  <2>1. /\ UNCHANGED <<had, holds, lastAnalyzed, survival, unrecorded>>
        /\ task[Sync(r)] = "followed"
        /\ task'[Deep(x)] = task[Deep(x)] /\ slipped \ {Detect} \subseteq slipped'
        /\ task'[Sync(x)] = IF r = x THEN "none" ELSE task[Sync(x)]
    BY <1>6 DEF FollowWithDetect, FollowUp
  <2> QED
    BY <2>1
<1>7. ASSUME NEW r \in Source, Ingest(r) PROVE Holds
  BY <1>7 DEF Ingest
<1>8. ASSUME NEW r \in Source, ResolveHead(r) PROVE Holds
  <2>1. /\ UNCHANGED <<had, holds, lastAnalyzed, survival, unrecorded, slipped>>
        /\ task[Deep(r)] = "running"
        /\ \/ UpToDate(r) /\ task' = [task EXCEPT ![Deep(r)] = "none"]
           \/ task' = [task EXCEPT ![Deep(r)] = "read"]
    BY <1>8 DEF ResolveHead
  <2>2. CASE r = x
    BY <2>1, <2>2 DEF HeadIsHad, HoldsHead, UpToDate
  <2>3. CASE r # x
    BY <1>b, <2>1, <2>3
  <2> QED
    BY <2>2, <2>3
<1>9. ASSUME NEW r \in Source, Analyze(r) PROVE Holds
  <2>1. /\ UNCHANGED <<had, lastAnalyzed, survival, unrecorded>>
        /\ slipped \subseteq slipped' /\ task[Deep(r)] = "read"
        /\ \/ holds' = [holds EXCEPT ![Deep(r)] = {head[r]}] /\ UNCHANGED task
           \/ /\ task' = [task EXCEPT ![Deep(r)] = "none"] /\ UNCHANGED holds
              /\ Deep(r) \in slipped'
    BY <1>9 DEF Analyze
  <2>2. CASE r = x
    BY <2>1, <2>2 DEF HeadIsHad
  <2>3. CASE r # x
    BY <2>1, <2>3
  <2> QED
    BY <2>2, <2>3
<1>10. ASSUME NEW r \in Source, StoreAnalysis(r) PROVE Holds
  <2>1. /\ UNCHANGED <<had, lastAnalyzed, unrecorded>> /\ slipped \subseteq slipped'
        /\ task[Deep(r)] = "read"
        /\ \A q \in Source \ {r} : survival'[q] = survival[q]
        /\ \/ task' = [task EXCEPT ![Deep(r)] = "stored"] /\ UNCHANGED holds
           \/ /\ task' = [task EXCEPT ![Deep(r)] = "none"] /\ UNCHANGED survival
              /\ holds' = [holds EXCEPT ![Deep(r)] = {}]
              /\ Deep(r) \in slipped'
    BY <1>10 DEF StoreAnalysis
  <2>2. CASE r = x
    BY <2>1, <2>2
  <2>3. CASE r # x
    BY <2>1, <2>3
  <2> QED
    BY <2>2, <2>3
<1>11. ASSUME NEW r \in Source, RecordAnalyzed(r) PROVE Holds
  <2> DEFINE h == CHOOSE h \in Sha : h \in holds[Deep(r)]
  <2>1. /\ UNCHANGED <<had, survival>> /\ slipped \subseteq slipped'
        /\ task[Deep(r)] = "stored" /\ task' = [task EXCEPT ![Deep(r)] = "none"]
        /\ holds' = [holds EXCEPT ![Deep(r)] = {}]
        /\ \/ /\ lastAnalyzed' = [lastAnalyzed EXCEPT ![r] = h]
              /\ unrecorded' = unrecorded \ {r}
           \/ /\ UNCHANGED lastAnalyzed /\ Deep(r) \in slipped'
              /\ unrecorded' = unrecorded \cup {r}
    BY <1>11 DEF RecordAnalyzed
  <2>2. h \in Sha /\ holds[Deep(r)] = {h} /\ survival[r] = h
    BY <2>1, HeldHead DEF HoldsHead
  <2> HIDE DEF h
  <2>3. CASE r = x
    <3>1. Recorded(x)'
      BY <2>1, <2>2, <2>3
    <3>2. CASE holds[Deep(x)] \subseteq had[x]
      BY <2>1, <2>2, <2>3, <3>1, <3>2
    <3>3. CASE ~(holds[Deep(x)] \subseteq had[x])
      <4>1. \/ had[x] = {} \/ task[Sync(x)] \in {"pending", "running", "read"}
            \/ Deep(x) \in slipped
        BY <3>3 DEF Outdated
      <4> QED
        BY <2>1, <3>1, <4>1
    <3> QED
      BY <3>2, <3>3
  <2>4. CASE r # x
    BY <2>1, <2>4
  <2> QED
    BY <2>3, <2>4
<1>12. CASE ReadIdentities \/ Group
  BY <1>12 DEF ReadIdentities, Group
<1>13. CASE UNCHANGED pipelineVars
  BY <1>b, <1>13 DEF pipelineVars
<1> QED
  BY <1>1, <1>2, <1>3, <1>4, <1>5, <1>6, <1>7, <1>8, <1>9, <1>10, <1>11, <1>12, <1>13
  DEF PipelineNext

\* For any number of repositories, heads, authors and failures: what a sync
\* ingested is analysed and grouped by the jobs that follow it, or what lost it is
\* known.
THEOREM FollowUpsHold == PipelineSpec => []FollowUpsSound
<1>1. PipelineInit => PipelineInv /\ IdentitiesGrouped /\ AnalysisFollows
  <2> SUFFICES ASSUME PipelineInit PROVE PipelineInv /\ IdentitiesGrouped /\ AnalysisFollows
    OBVIOUS
  <2>1. PipelineTyped
    BY PipelineAssumption, TaskNames DEF PipelineInit, PipelineTyped, PipelineTypeOK, Stage, Shas
  <2>2. \A r \in Source : /\ holds[Deep(r)] = {} /\ had[r] = {} /\ task[Deep(r)] = "none"
                         /\ lastAnalyzed[r] = survival[r]
    BY TaskNames DEF PipelineInit, Deep
  <2> QED
    BY <2>1, <2>2 DEF PipelineInv, HeadIsHad, HoldsHead, Outdated, IdentitiesGrouped,
                      AnalysisFollows, Followed, Recorded, PipelineInit
<1> QED
  BY <1>1, OutdatedStep, GroupedStep, FollowsStep, PTL DEF PipelineSpec, FollowUpsSound

-----------------------------------------------------------------------------
(* People *)

\* A cluster is in what it was made of, and nothing links out of it.
LEMMA ClusterClosed ==
  ASSUME NEW ids, NEW links \in SUBSET SUBSET ids, NEW i \in ids
  PROVE  /\ i \in ClusterOf(i, ids, links)
         /\ ClusterOf(i, ids, links) \subseteq ids
         /\ Closed(ClusterOf(i, ids, links), links)
<1> DEFINE C == ClusterOf(i, ids, links)
<1>1. i \in C /\ C \subseteq ids
  BY DEF ClusterOf
<1>2. ASSUME NEW pair \in links, NEW x \in pair, x \in C, NEW y \in pair
      PROVE  y \in C
  <2>1. ASSUME NEW S \in SUBSET ids, i \in S, Closed(S, links) PROVE y \in S
    <3>1. x \in S
      BY <1>2, <2>1 DEF ClusterOf
    <3> QED
      BY <1>2, <2>1, <3>1 DEF Closed
  <2> QED
    BY <1>2, <2>1 DEF ClusterOf
<1> HIDE DEF C
<1>3. Closed(C, links)
  BY <1>2 DEF Closed
<1> QED
  BY <1>1, <1>3 DEF C

\* Whoever is in a cluster has it for its own.
LEMMA ClusterShared ==
  ASSUME NEW ids, NEW links \in SUBSET SUBSET ids, NEW i \in ids,
         NEW k \in ClusterOf(i, ids, links)
  PROVE  ClusterOf(k, ids, links) = ClusterOf(i, ids, links)
<1>1. ASSUME NEW S \in SUBSET ids, Closed(S, links) PROVE i \in S <=> k \in S
  <2>1. i \in S => k \in S
    BY <1>1 DEF ClusterOf
  <2>2. ASSUME k \in S, i \notin S PROVE FALSE
    <3>1. ids \ S \in SUBSET ids /\ i \in ids \ S
      BY <2>2
    <3>2. Closed(ids \ S, links)
      BY <1>1 DEF Closed
    <3> QED
      BY <2>2, <3>1, <3>2 DEF ClusterOf
  <2> QED
    BY <2>1, <2>2
<1> QED
  BY <1>1 DEF ClusterOf

\* Two linked identities are in one cluster, and no identity is in two.
LEMMA ClusterUnique ==
  ASSUME NEW ids, NEW links \in SUBSET SUBSET ids, NEW cl \in Clusters(ids, links),
         NEW i \in cl
  PROVE  /\ cl \subseteq ids
         /\ cl = ClusterOf(i, ids, links)
         /\ Closed(cl, links)
<1>1. PICK k \in ids : cl = ClusterOf(k, ids, links)
  BY DEF Clusters
<1>2. /\ cl \subseteq ids /\ cl = ClusterOf(i, ids, links)
  BY <1>1, ClusterClosed, ClusterShared
<1> QED
  BY <1>1, <1>2, ClusterClosed

\* The tables of a row of data.
LEMMA Tables ==
  /\ Statements[2] = "commits"
  /\ \A x \in Datum : \E k \in 2..5 : x.in = Statements[k]
BY ContributorsAssumption DEF Statements

\* Links are pairs of identities, more rows make no fewer, and what was there all the
\* time is linked for the detection that read it.
LEMMA LinksTyped == ASSUME NEW rows \in SUBSET Datum PROVE Links(rows) \subseteq SUBSET Ident
<1>1. \A x \in Datum : x.email \in Ident \cup {NoIdent} /\ x.login \in Ident \cup {NoIdent}
  BY ContributorsAssumption DEF Ident
<1> QED
  BY <1>1, ContributorsAssumption DEF Links, IdentsOf, Carries

LEMMA LinksGrow ==
  ASSUME NEW rows, NEW more, rows \subseteq more
  PROVE  Links(rows) \subseteq Links(more)
<1>1. IdentsOf(rows) \subseteq IdentsOf(more)
  BY DEF IdentsOf
<1> QED
  BY <1>1 DEF Links

\* What an edit in progress keeps of the rows it has written.
EditKept ==
  edit # NoEdit =>
    /\ edit.into \notin edit.gone /\ (edit.moved # {} => edit.into # Nobody)
    /\ \A i \in edit.moved : owner[i] # Nobody

\* A detection has read whatever was there all the time.
HasRead ==
  \A d \in Detection : \A x \in data \ late[d] :
    /\ run[d].done >= 1 /\ Carries(x) => x \in run[d].pairs
    /\ \A k \in 2..5 : k <= run[d].done /\ x.in = Statements[k] => x \in run[d].rows

PersonInv == PersonTypeOK /\ EditKept /\ HasRead

LEMMA IdleTyped == Idle \in Run /\ Unmapped \in Mapping /\ Idle.done = 0
BY DEF Idle, Run, Unmapped, Mapping

LEMMA PersonInvInit == PersonInit => PersonInv
BY ContributorsAssumption, IdleTyped
DEF PersonInit, PersonInv, PersonTypeOK, EditKept, HasRead, NoEdit, Unmapped

\* The parts of a Place step, named: what is read, who is inserted, and where.
PlaceIds(d)          == IdentsOf(run[d].rows)
PlaceLinks(d, n)     == RuleLinks(run[d], n)
PlaceInsert(d, n)    == Inserts(d, Grouped(d, n))
PlaceHome(d, n, i)   == Home(Grouped(d, n), i)
PlaceSeveral(d, cl)  == Several(cl, run[d].known)
PlaceExcused(d, n, i, pair) == Excused(d, Grouped(d, n), PlaceInsert(d, n), i, pair)
PlaceDone(d, n, to) ==
  /\ \A i \in PlaceInsert(d, n) : persons[to[PlaceHome(d, n, i)]] # "gone"
  /\ owner' = [i \in Ident |-> IF i \in PlaceInsert(d, n) THEN to[PlaceHome(d, n, i)]
                               ELSE owner[i]]
  /\ persons' = [p \in Person |->
                   IF persons[p] = "new" /\ \E cl \in Grouped(d, n) : to[cl] = p
                   THEN "there" ELSE persons[p]]
  /\ apart' = apart \cup
       Parted({pair \in Links(data) :
                 \E i \in pair \cap PlaceInsert(d, n) : PlaceExcused(d, n, i, pair)}, owner')

LEMMA PlaceParts ==
  ASSUME NEW d \in Detection, Place(d)
  PROVE  /\ run[d].done = 6 /\ Over(d)
         /\ UNCHANGED <<data, member, edit, edits>>
         /\ \E n \in Namings(run[d].rows) :
              \E to \in Targets(Grouped(d, n), run[d].known) :
                PlaceDone(d, n, to) \/ UNCHANGED <<owner, persons, apart>>
<1>1. /\ run[d].done = 6 /\ Over(d)
      /\ UNCHANGED <<data, member, edit, edits>>
  BY DEF Place
<1>2. PICK n \in Namings(run[d].rows) :
        \E to \in Targets(Grouped(d, n), run[d].known) :
          \/ /\ \A i \in PlaceInsert(d, n) : persons[to[Home(Grouped(d, n), i)]] # "gone"
             /\ PlaceInto(d, Grouped(d, n), PlaceInsert(d, n), to)
          \/ UNCHANGED <<owner, persons, apart>>
  BY DEF Place, PlaceInsert
<1>3. ASSUME NEW to, PlaceInto(d, Grouped(d, n), PlaceInsert(d, n), to),
             \A i \in PlaceInsert(d, n) : persons[to[Home(Grouped(d, n), i)]] # "gone"
      PROVE  PlaceDone(d, n, to)
  <2> USE <1>3 DEF PlaceHome, PlaceExcused, PlaceInto
  <2>1. owner' = [i \in Ident |-> IF i \in PlaceInsert(d, n) THEN to[PlaceHome(d, n, i)]
                                 ELSE owner[i]]
    OBVIOUS
  <2>2. persons' = [p \in Person |->
                     IF persons[p] = "new" /\ \E cl \in Grouped(d, n) : to[cl] = p
                     THEN "there" ELSE persons[p]]
    OBVIOUS
  <2>3. apart' = apart \cup
          Parted({pair \in Links(data) :
                    \E i \in pair \cap PlaceInsert(d, n) : PlaceExcused(d, n, i, pair)}, owner')
    OBVIOUS
  <2> QED
    BY <2>1, <2>2, <2>3 DEF PlaceDone
<1> QED
  BY <1>1, <1>2, <1>3

LEMMA PlaceIdents ==
  ASSUME PersonTypeOK, NEW d \in Detection, NEW n
  PROVE  /\ PlaceIds(d) \in SUBSET Ident
         /\ PlaceLinks(d, n) \in SUBSET SUBSET PlaceIds(d)
<1>1. run[d].rows \subseteq Datum
  BY DEF PersonTypeOK, Run
<1>2. \A x \in Datum : x.email \in Ident \cup {NoIdent} /\ x.login \in Ident \cup {NoIdent}
  BY ContributorsAssumption DEF Ident
<1> QED
  BY <1>1, <1>2 DEF PlaceIds, PlaceLinks, IdentsOf, RuleLinks

\* Whoever is inserted is in its home, and that is its cluster.
LEMMA HomeIs ==
  ASSUME PersonTypeOK, NEW d \in Detection, NEW n, NEW i \in PlaceInsert(d, n)
  PROVE  /\ PlaceHome(d, n, i) \in Grouped(d, n)
         /\ PlaceHome(d, n, i) = ClusterOf(i, PlaceIds(d), PlaceLinks(d, n))
         /\ Closed(PlaceHome(d, n, i), PlaceLinks(d, n))
         /\ i \in PlaceHome(d, n, i) /\ PlaceHome(d, n, i) \subseteq Ident
         /\ run[d].known[i] = Nobody /\ owner[i] = Nobody
<1>1. PICK cl \in Grouped(d, n) : i \in cl
  BY DEF PlaceInsert, Inserts
<1>2. PlaceHome(d, n, i) \in Grouped(d, n) /\ i \in PlaceHome(d, n, i)
  BY <1>1 DEF PlaceHome, Home
<1>3. PlaceHome(d, n, i) \in Clusters(PlaceIds(d), PlaceLinks(d, n))
  BY <1>2 DEF Grouped, PlaceIds, PlaceLinks
<1>4. /\ PlaceHome(d, n, i) = ClusterOf(i, PlaceIds(d), PlaceLinks(d, n))
      /\ PlaceHome(d, n, i) \subseteq PlaceIds(d)
      /\ Closed(PlaceHome(d, n, i), PlaceLinks(d, n))
  BY <1>2, <1>3, PlaceIdents, ClusterUnique
<1> QED
  BY <1>2, <1>4, PlaceIdents DEF PlaceInsert, Inserts

LEMMA OverTyped ==
  ASSUME PersonInv, NEW d \in Detection, Over(d)
  PROVE  /\ run' \in [Detection -> Run] /\ late' \in [Detection -> SUBSET Datum]
         /\ UNCHANGED data => HasRead'
<1>1. run' \in [Detection -> Run] /\ late' \in [Detection -> SUBSET Datum]
  BY IdleTyped DEF Over, PersonInv, PersonTypeOK
<1>2. ASSUME UNCHANGED data, NEW e \in Detection, NEW x \in data \ late'[e]
      PROVE  /\ run'[e].done >= 1 /\ Carries(x) => x \in run'[e].pairs
             /\ \A k \in 2..5 : k <= run'[e].done /\ x.in = Statements[k] => x \in run'[e].rows
  <2>1. CASE e = d
    <3>1. run'[e].done = 0
      BY <2>1, IdleTyped DEF Over, PersonInv, PersonTypeOK
    <3> QED
      BY <3>1
  <2>2. CASE e # d
    BY <1>2, <2>2 DEF Over, PersonInv, PersonTypeOK, HasRead
  <2> QED
    BY <2>1, <2>2
<1>3. UNCHANGED data => HasRead'
  BY <1>2 DEF HasRead
<1> QED
  BY <1>1, <1>3

LEMMA PlaceTyped ==
  ASSUME PersonInv, NEW d \in Detection, Place(d)
  PROVE  PersonInv'
<1>1. /\ run[d].done = 6 /\ Over(d)
      /\ UNCHANGED <<data, member, edit, edits>>
  BY PlaceParts
<1>n. PICK n \in Namings(run[d].rows) :
        \E to \in Targets(Grouped(d, n), run[d].known) :
          PlaceDone(d, n, to) \/ UNCHANGED <<owner, persons, apart>>
  BY PlaceParts
<1>2. PICK to \in Targets(Grouped(d, n), run[d].known) :
        PlaceDone(d, n, to) \/ UNCHANGED <<owner, persons, apart>>
  BY <1>n
<1>3. run' \in [Detection -> Run] /\ late' \in [Detection -> SUBSET Datum] /\ HasRead'
  BY <1>1, OverTyped
<1>4. CASE UNCHANGED <<owner, persons, apart>>
  BY <1>1, <1>3, <1>4 DEF PersonInv, PersonTypeOK, EditKept
<1>5. CASE PlaceDone(d, n, to)
  <2>1. to \in [Grouped(d, n) -> Person]
    BY DEF Targets
  <2>2. \A i \in PlaceInsert(d, n) :
          /\ PlaceHome(d, n, i) \in Grouped(d, n)
          /\ to[PlaceHome(d, n, i)] \in Person /\ persons[to[PlaceHome(d, n, i)]] # "gone"
          /\ owner[i] = Nobody
    BY <1>5, <2>1, HomeIs DEF PlaceDone, PersonInv
  <2>3. owner' \in Mapping
    BY <1>5, <2>2 DEF PlaceDone, PersonInv, PersonTypeOK, Mapping
  <2>4. persons' \in [Person -> {"new", "there", "gone"}]
    BY <1>5 DEF PlaceDone, PersonInv, PersonTypeOK
  <2>5. apart' \subseteq SUBSET Ident
    <3>1. Links(data) \subseteq SUBSET Ident
      BY LinksTyped DEF PersonInv, PersonTypeOK
    <3> QED
      BY <1>5, <3>1 DEF PlaceDone, Parted, PersonInv, PersonTypeOK
  <2>6. \A i \in Ident : owner'[i] # Nobody => persons'[owner'[i]] = "there"
    <3> SUFFICES ASSUME NEW i \in Ident, owner'[i] # Nobody
                 PROVE  persons'[owner'[i]] = "there"
      OBVIOUS
    <3>1. CASE i \in PlaceInsert(d, n)
      BY <1>5, <2>2, <3>1 DEF PlaceDone, PersonInv, PersonTypeOK
    <3>2. CASE i \notin PlaceInsert(d, n)
      <4>1. owner'[i] = owner[i] /\ owner[i] \in Person /\ persons[owner[i]] = "there"
        BY <1>5, <3>2 DEF PlaceDone, PersonInv, PersonTypeOK, Mapping
      <4> QED
        BY <1>5, <4>1 DEF PlaceDone
    <3> QED
      BY <3>1, <3>2
  <2>7. PersonTypeOK'
    BY <1>1, <1>3, <2>3, <2>4, <2>5, <2>6 DEF PersonInv, PersonTypeOK
  <2>8. EditKept'
    <3> SUFFICES ASSUME edit # NoEdit, NEW i \in edit.moved PROVE owner'[i] # Nobody
      BY <1>1 DEF EditKept, PersonInv
    <3>1. i \in Ident /\ owner[i] # Nobody
      BY DEF PersonInv, PersonTypeOK, EditKept, Edit
    <3> QED
      BY <1>5, <2>2, <3>1 DEF PlaceDone
  <2> QED
    BY <1>3, <2>7, <2>8 DEF PersonInv
<1> QED
  BY <1>2, <1>4, <1>5

\* An edit begins on a state that is well typed and leaves it so.
LEMMA BeginTyped ==
  ASSUME PersonInv, NEW e \in Edit, BeginEdit(e),
         e.into \notin e.gone, e.moved # {} => e.into # Nobody,
         \A i \in e.moved : owner[i] # Nobody
  PROVE  PersonInv'
<1>1. edits' \in 0 .. MaxEdits
  BY ContributorsAssumption DEF BeginEdit, PersonInv, PersonTypeOK
<1> QED
  BY <1>1 DEF BeginEdit, PersonInv, PersonTypeOK, EditKept, HasRead

LEMMA CommitTyped ==
  ASSUME PersonInv, CommitEdit
  PROVE  PersonInv'
<1> DEFINE gone == IF edit.kind \in {"split", "repo"}
                   THEN {p \in edit.gone : member[p] # "linked"} ELSE edit.gone
           unmapped == {i \in Ident \ edit.moved : owner[i] \in gone} \cup edit.dropped
<1>1. /\ edit # NoEdit
      /\ owner' = [i \in Ident |-> IF i \in unmapped THEN Nobody
                                   ELSE IF i \in edit.moved THEN edit.into ELSE owner[i]]
      /\ persons' = [p \in Person |-> IF p \in gone THEN "gone"
                                      ELSE IF p = edit.into THEN "there" ELSE persons[p]]
      /\ data' = data \ edit.lost /\ edit' = NoEdit
      /\ UNCHANGED <<member, run, edits, late>>
  BY DEF CommitEdit
<1>2. /\ edit \in Edit /\ edit.into \in Person \cup {Nobody} /\ edit.moved \subseteq Ident
      /\ gone \subseteq edit.gone /\ edit.into \notin gone
      /\ edit.moved # {} => edit.into # Nobody
  BY <1>1 DEF PersonInv, PersonTypeOK, EditKept, Edit
<1>3. persons' \in [Person -> {"new", "there", "gone"}]
  BY <1>1 DEF PersonInv, PersonTypeOK
<1>4. owner' \in Mapping
  BY <1>1, <1>2 DEF PersonInv, PersonTypeOK, Mapping
<1>5. apart' \subseteq SUBSET Ident
  <2>1. \A i \in edit.moved : {{i, j} : j \in Mapped(owner[i])} \subseteq SUBSET Ident
    BY <1>2 DEF Mapped
  <2>2. apart \cup UNION {{{i, j} : j \in Mapped(owner[i])} : i \in edit.moved} \subseteq SUBSET Ident
    BY <2>1 DEF PersonInv, PersonTypeOK
  <2>3. apart' \subseteq apart \cup UNION {{{i, j} : j \in Mapped(owner[i])} : i \in edit.moved}
    BY DEF CommitEdit, Parted
  <2> QED
    BY <2>2, <2>3
<1>6. \A i \in Ident : owner'[i] # Nobody => persons'[owner'[i]] = "there"
  <2> SUFFICES ASSUME NEW i \in Ident, owner'[i] # Nobody
               PROVE  persons'[owner'[i]] = "there"
    OBVIOUS
  <2>1. i \notin unmapped
    BY <1>1
  <2>2. CASE i \in edit.moved
    BY <1>1, <1>2, <2>1, <2>2
  <2>3. CASE i \notin edit.moved
    <3>1. owner'[i] = owner[i] /\ owner[i] \notin gone
      BY <1>1, <2>1, <2>3
    <3>2. owner[i] \in Person /\ persons[owner[i]] = "there"
      BY <3>1 DEF PersonInv, PersonTypeOK, Mapping
    <3> HIDE DEF gone, unmapped
    <3> QED
      BY <1>1, <3>1, <3>2
  <2> QED
    BY <2>2, <2>3
<1> HIDE DEF gone, unmapped
<1>7. data' \subseteq Datum
  BY <1>1 DEF PersonInv, PersonTypeOK
<1>8. HasRead'
  <2> SUFFICES ASSUME NEW d \in Detection, NEW x \in data' \ late[d]
               PROVE  /\ run[d].done >= 1 /\ Carries(x) => x \in run[d].pairs
                      /\ \A k \in 2..5 : k <= run[d].done /\ x.in = Statements[k]
                                           => x \in run[d].rows
    BY <1>1 DEF HasRead
  <2>1. x \in data \ late[d]
    BY <1>1
  <2> QED
    BY <2>1 DEF PersonInv, HasRead
<1> QED
  BY <1>1, <1>3, <1>4, <1>5, <1>6, <1>7, <1>8 DEF PersonInv, PersonTypeOK, EditKept

LEMMA ArriveTyped ==
  ASSUME PersonInv, NEW x \in Datum, NEW old \in SUBSET data, Arrive(x, old)
  PROVE  PersonInv'
<1>1. data' \subseteq Datum /\ late' \in [Detection -> SUBSET Datum]
  BY DEF Arrive, PersonInv, PersonTypeOK
<1>2. apart' \subseteq SUBSET Ident
  BY <1>1, LinksTyped DEF Arrive, Parted, PersonInv, PersonTypeOK
<1>3. HasRead'
  <2> SUFFICES ASSUME NEW d \in Detection, NEW y \in data' \ late'[d]
               PROVE  /\ run[d].done >= 1 /\ Carries(y) => y \in run[d].pairs
                      /\ \A k \in 2..5 : k <= run[d].done /\ y.in = Statements[k]
                                           => y \in run[d].rows
    BY DEF HasRead, Arrive
  <2>1. run[d].done \in 0..6
    BY DEF PersonInv, PersonTypeOK, Run
  <2>2. CASE run[d].done = 0
    BY <2>2
  <2>3. CASE run[d].done # 0
    <3>1. y \in data \ late[d]
      BY <2>3 DEF Arrive
    <3> QED
      BY <3>1 DEF PersonInv, HasRead
  <2> QED
    BY <2>2, <2>3
<1> QED
  BY <1>1, <1>2, <1>3 DEF Arrive, PersonInv, PersonTypeOK, EditKept

LEMMA ReadRowsTyped ==
  ASSUME PersonInv, NEW d \in Detection, ReadRows(d)
  PROVE  PersonInv'
<1> DEFINE k     == run[d].done + 1
           pairs == IF k = 1 THEN {x \in data : Carries(x)} ELSE run[d].pairs
           rows  == run[d].rows \cup {x \in data : x.in = Statements[k]}
           read  == [done |-> k, pairs |-> pairs, rows |-> rows, known |-> Unmapped]
<1>1. /\ run' = [run EXCEPT ![d] = read] /\ k \in 1..5
      /\ UNCHANGED <<data, owner, persons, member, edit, edits, late, apart>>
  BY DEF ReadRows
<1>2. /\ run \in [Detection -> Run] /\ data \subseteq Datum
      /\ run[d].done \in 0..6 /\ run[d].pairs \subseteq Datum /\ run[d].rows \subseteq Datum
  BY DEF PersonInv, PersonTypeOK, Run
<1>3. read \in Run
  <2>1. pairs \in SUBSET Datum /\ rows \in SUBSET Datum /\ k \in 0..6
    BY <1>1, <1>2
  <2> HIDE DEF pairs, rows, k
  <2> QED
    BY <2>1, IdleTyped DEF Run
<1>4. /\ read.done = k /\ read.pairs = pairs /\ read.rows = rows
  OBVIOUS
<1>5. \A x \in data \ late[d] : /\ Carries(x) => x \in pairs
                               /\ \A m \in 2..5 : m <= k /\ x.in = Statements[m] => x \in rows
  <2> SUFFICES ASSUME NEW x \in data \ late[d]
               PROVE  /\ Carries(x) => x \in pairs
                      /\ \A m \in 2..5 : m <= k /\ x.in = Statements[m] => x \in rows
    OBVIOUS
  <2>1. Carries(x) => x \in pairs
    BY <1>2 DEF PersonInv, HasRead
  <2>2. \A m \in 2..5 : m <= run[d].done /\ x.in = Statements[m] => x \in run[d].rows
    BY DEF PersonInv, HasRead
  <2> QED
    BY <1>2, <2>1, <2>2
<1> HIDE DEF k, pairs, rows, read
<1>6. run' \in [Detection -> Run] /\ run'[d] = read /\ \A e \in Detection \ {d} : run'[e] = run[e]
  BY <1>1, <1>2, <1>3
<1>7. HasRead'
  <2> SUFFICES ASSUME NEW e \in Detection, NEW x \in data \ late[e]
               PROVE  /\ run'[e].done >= 1 /\ Carries(x) => x \in run'[e].pairs
                      /\ \A m \in 2..5 : m <= run'[e].done /\ x.in = Statements[m]
                                           => x \in run'[e].rows
    BY <1>1 DEF HasRead
  <2>1. CASE e # d
    BY <1>6, <2>1 DEF PersonInv, HasRead
  <2>2. CASE e = d
    BY <1>4, <1>5, <1>6, <2>2
  <2> QED
    BY <2>1, <2>2
<1> QED
  BY <1>1, <1>6, <1>7 DEF PersonInv, PersonTypeOK, EditKept

LEMMA ReadMappingTyped ==
  ASSUME PersonInv, NEW d \in Detection, ReadMapping(d)
  PROVE  PersonInv'
<1> DEFINE read == [done |-> 6, pairs |-> run[d].pairs, rows |-> run[d].rows, known |-> owner]
<1>1. /\ run' = [run EXCEPT ![d] = read] /\ run[d].done = 5
      /\ UNCHANGED <<data, owner, persons, member, edit, edits, late, apart>>
  BY DEF ReadMapping
<1>2. /\ run \in [Detection -> Run] /\ owner \in Mapping
      /\ run[d].pairs \in SUBSET Datum /\ run[d].rows \in SUBSET Datum
  BY DEF PersonInv, PersonTypeOK, Run
<1>3. /\ read \in Run
      /\ read.done = 6 /\ read.pairs = run[d].pairs /\ read.rows = run[d].rows
  BY <1>2 DEF Run
<1>4. \A x \in data \ late[d] : /\ Carries(x) => x \in read.pairs
                               /\ \A m \in 2..5 : x.in = Statements[m] => x \in read.rows
  BY <1>1, <1>3 DEF PersonInv, HasRead
<1> HIDE DEF read
<1>5. run' \in [Detection -> Run] /\ run'[d] = read /\ \A e \in Detection \ {d} : run'[e] = run[e]
  BY <1>1, <1>2, <1>3
<1>6. HasRead'
  <2> SUFFICES ASSUME NEW e \in Detection, NEW x \in data \ late[e]
               PROVE  /\ run'[e].done >= 1 /\ Carries(x) => x \in run'[e].pairs
                      /\ \A m \in 2..5 : m <= run'[e].done /\ x.in = Statements[m]
                                           => x \in run'[e].rows
    BY <1>1 DEF HasRead
  <2>1. CASE e # d
    BY <1>5, <2>1 DEF PersonInv, HasRead
  <2>2. CASE e = d
    BY <1>4, <1>5, <2>2
  <2> QED
    BY <2>1, <2>2
<1> QED
  BY <1>1, <1>5, <1>6 DEF PersonInv, PersonTypeOK, EditKept

LEMMA PersonTypeStep == PersonInv /\ [PersonNext]_personVars => PersonInv'
<1> SUFFICES ASSUME PersonInv, [PersonNext]_personVars PROVE PersonInv'
  OBVIOUS
<1>1. ASSUME NEW d \in Detection, Fail(d) PROVE PersonInv'
  <2>1. Over(d) /\ UNCHANGED <<data, owner, persons, member, edit, edits, apart>>
    BY <1>1 DEF Fail
  <2>2. run' \in [Detection -> Run] /\ late' \in [Detection -> SUBSET Datum] /\ HasRead'
    BY <2>1, OverTyped
  <2> QED
    BY <2>1, <2>2 DEF PersonInv, PersonTypeOK, EditKept
<1>5. ASSUME NEW p \in Person, NEW q \in Person, Merge(p, q) PROVE PersonInv'
  <2> DEFINE e == [kind |-> "merge", moved |-> Mapped(p), into |-> q,
                   dropped |-> {}, gone |-> {p}, lost |-> {}]
  <2>1. /\ e \in Edit /\ e.into \notin e.gone /\ e.into # Nobody
        /\ \A i \in e.moved : owner[i] # Nobody
    BY <1>5, ContributorsAssumption DEF Merge, Edit, Mapped
  <2>2. BeginEdit(e)
    BY <1>5 DEF Merge
  <2> HIDE DEF e
  <2> QED
    BY <2>1, <2>2, BeginTyped
<1>6. ASSUME NEW i \in Ident, NEW p \in Person, Split(i, p) PROVE PersonInv'
  <2> DEFINE e == [kind |-> "split", moved |-> {i}, into |-> p, dropped |-> {},
                   gone |-> {r \in There : Mapped(r) \subseteq {i} /\ member[r] = "none"},
                   lost |-> {}]
  <2>1. e \in Edit
    BY DEF Edit, There
  <2>2. /\ e.into \notin e.gone /\ e.into # Nobody
        /\ \A j \in e.moved : owner[j] # Nobody
    BY <1>6, ContributorsAssumption DEF Split, There
  <2>3. BeginEdit(e)
    BY <1>6 DEF Split
  <2> HIDE DEF e
  <2> QED
    BY <2>1, <2>2, <2>3, BeginTyped
<1>7. ASSUME NEW p \in Person, Delete(p) PROVE PersonInv'
  <2> DEFINE e == [kind |-> "delete", moved |-> {}, into |-> Nobody, dropped |-> {},
                   gone |-> {p}, lost |-> {}]
  <2>1. e \in Edit /\ e.into \notin e.gone /\ e.moved = {}
    BY ContributorsAssumption DEF Edit
  <2>2. BeginEdit(e)
    BY <1>7 DEF Delete
  <2> HIDE DEF e
  <2> QED
    BY <2>1, <2>2, BeginTyped
<1>8. ASSUME NEW p \in Person, NEW how \in {"invited", "linked"}, SetMember(p, how)
      PROVE  PersonInv'
  <2>1. edits' \in 0 .. MaxEdits
    BY <1>8, ContributorsAssumption DEF SetMember, PersonInv, PersonTypeOK
  <2>2. member' \in [Person -> {"none", "invited", "linked"}]
    BY <1>8 DEF SetMember, PersonInv, PersonTypeOK
  <2> QED
    BY <1>8, <2>1, <2>2 DEF SetMember, PersonInv, PersonTypeOK, EditKept, HasRead
<1>9. ASSUME NEW rows \in SUBSET data, RemoveRepo(rows) PROVE PersonInv'
  <2> DEFINE live    == {x \in data \ rows : x.in # "author_survival"}
             dropped == {i \in Ident : owner[i] # Nobody /\ i \notin IdentsOf(live)}
             e == [kind |-> "repo", moved |-> {}, into |-> Nobody,
                   dropped |-> dropped, lost |-> rows,
                   gone |-> {p \in There : Mapped(p) \subseteq dropped /\ member[p] # "linked"}]
  <2>1. e \in Edit /\ e.moved = {}
    BY DEF Edit, There, PersonInv, PersonTypeOK
  <2>2. e.into \notin e.gone
    BY ContributorsAssumption DEF There
  <2>3. BeginEdit(e)
    BY <1>9 DEF RemoveRepo
  <2> HIDE DEF e
  <2> QED
    BY <2>1, <2>2, <2>3, BeginTyped
<1>10. CASE CommitEdit
  BY <1>10, CommitTyped
<1>11. CASE UNCHANGED personVars
  BY <1>11 DEF personVars, PersonInv, PersonTypeOK, EditKept, HasRead
<1> QED
  BY <1>1, <1>5, <1>6, <1>7, <1>8, <1>9, <1>10, <1>11,
     ArriveTyped, ReadRowsTyped, ReadMappingTyped, PlaceTyped
  DEF PersonNext

\* Where nothing in the cluster is mapped to anyone but p, and somebody is, p is picked.
LEMMA PicksTheOne ==
  ASSUME NEW cl \in SUBSET Ident, NEW knew \in Mapping,
         NEW j \in cl, knew[j] # Nobody,
         \A i \in cl : knew[i] \in {knew[j], Nobody}
  PROVE  Pick(cl, knew) = {knew[j]}
<1> DEFINE votes(p) == Cardinality({i \in cl : knew[i] = p})
<1>1. \A p \in Person : votes(p) \in Nat
  <2> SUFFICES ASSUME NEW p \in Person PROVE votes(p) \in Nat
    OBVIOUS
  <2>1. IsFiniteSet({i \in cl : knew[i] = p})
    BY ContributorsAssumption, FS_Subset, {i \in cl : knew[i] = p} \subseteq Ident
  <2> QED
    BY <2>1, FS_CardinalityType
<1>2. knew[j] \in Person /\ votes(knew[j]) > 0
  <2>1. IsFiniteSet({i \in cl : knew[i] = knew[j]})
    BY ContributorsAssumption, FS_Subset, {i \in cl : knew[i] = knew[j]} \subseteq Ident
  <2>2. votes(knew[j]) # 0
    BY <2>1, FS_EmptySet, j \in {i \in cl : knew[i] = knew[j]}
  <2>3. knew[j] \in Person
    BY DEF Mapping
  <2>4. votes(knew[j]) \in Nat
    BY <1>1, <2>3
  <2> HIDE DEF votes
  <2> QED
    BY <2>2, <2>3, <2>4
<1>3. \A p \in Person \ {knew[j]} : votes(p) = 0
  <2> SUFFICES ASSUME NEW p \in Person \ {knew[j]} PROVE votes(p) = 0
    OBVIOUS
  <2>1. {i \in cl : knew[i] = p} = {}
    BY ContributorsAssumption
  <2> QED
    BY <2>1, FS_EmptySet
<1>4. Pick(cl, knew) =
        LET best == {p \in Person : votes(p) > 0 /\ \A q \in Person : votes(q) <= votes(p)}
        IN  IF best # {} THEN best ELSE {p \in Person : persons[p] = "new"}
  BY DEF Pick
<1> HIDE DEF votes
<1>5. {p \in Person : votes(p) > 0 /\ \A q \in Person : votes(q) <= votes(p)} = {knew[j]}
  BY <1>1, <1>2, <1>3
<1> QED
  BY <1>4, <1>5

\* The links of the rows that were there all the time are links for the detection.
LEMMA LinkIsRead ==
  ASSUME PersonInv, NEW d \in Detection, run[d].done = 6, NEW n,
         NEW pair \in Links(data \ late[d])
  PROVE  pair \in PlaceLinks(d, n)
<1>1. \A x \in data \ late[d] :
        x \in run[d].rows /\ (Carries(x) => x \in run[d].pairs)
  <2> SUFFICES ASSUME NEW x \in data \ late[d]
               PROVE  x \in run[d].rows /\ (Carries(x) => x \in run[d].pairs)
    OBVIOUS
  <2>1. PICK k \in 2..5 : x.in = Statements[k]
    BY Tables DEF PersonInv, PersonTypeOK
  <2> QED
    BY <2>1 DEF PersonInv, HasRead
<1>2. IdentsOf(data \ late[d]) \subseteq IdentsOf(run[d].rows)
  BY <1>1 DEF IdentsOf
<1>3. CASE \E x \in data \ late[d] : Carries(x) /\ pair = {x.email, x.login}
  <2>1. PICK x \in data \ late[d] : Carries(x) /\ pair = {x.email, x.login}
    BY <1>3
  <2>2. pair \subseteq IdentsOf(run[d].rows)
    BY <1>1, <2>1 DEF IdentsOf, Carries
  <2> QED
    BY <1>1, <2>1, <2>2 DEF PlaceLinks, RuleLinks
<1>4. CASE pair \in Similar /\ pair \subseteq IdentsOf(data \ late[d])
  BY <1>2, <1>4 DEF PlaceLinks, RuleLinks
<1> QED
  BY <1>3, <1>4 DEF Links

\* A detection gives an identity the person of a like one, or has a reason not to.
LEMMA PlacedBeside ==
  ASSUME PersonInv, NEW d \in Detection, run[d].done = 6, NEW n,
         NEW to \in Targets(Grouped(d, n), run[d].known), PlaceDone(d, n, to),
         NEW i \in PlaceInsert(d, n), NEW j \in Ident,
         {i, j} \in Links(data), owner'[j] # Nobody, owner'[i] # Nobody,
         owner'[i] # owner'[j]
  PROVE  {i, j} \in apart'
<1> DEFINE knew == run[d].known
           cl == PlaceHome(d, n, i)
<1> SUFFICES ASSUME {i, j} \notin apart' PROVE FALSE
  OBVIOUS
<1>1. /\ cl \in Grouped(d, n) /\ i \in cl /\ cl \in SUBSET Ident
      /\ cl = ClusterOf(i, PlaceIds(d), PlaceLinks(d, n))
      /\ Closed(cl, PlaceLinks(d, n))
  BY HomeIs DEF PersonInv
<1>2. owner'[i] = to[cl]
  BY <1>1 DEF PlaceDone
<1>3. ~PlaceExcused(d, n, i, {i, j})
  BY DEF PlaceDone, Parted
<1>4. /\ {i, j} \in Links(data \ late[d]) /\ ~PlaceSeveral(d, cl)
      /\ j \notin PlaceInsert(d, n) => owner[j] = knew[j]
  BY <1>3 DEF PlaceExcused, PlaceSeveral, PlaceHome, Excused
<1>5. j \in cl
  <2>1. {i, j} \in PlaceLinks(d, n)
    BY <1>4, LinkIsRead
  <2> QED
    BY <1>1, <2>1 DEF Closed
<1>6. CASE j \in PlaceInsert(d, n)
  <2>1. PlaceHome(d, n, j) = cl
    <3>1. cl \in Clusters(PlaceIds(d), PlaceLinks(d, n))
      BY <1>1 DEF Grouped, PlaceIds, PlaceLinks
    <3>2. PlaceHome(d, n, j) = ClusterOf(j, PlaceIds(d), PlaceLinks(d, n))
      BY <1>6, HomeIs DEF PersonInv
    <3> HIDE DEF cl
    <3> QED
      BY <1>5, <3>1, <3>2, PlaceIdents, ClusterUnique DEF PersonInv
  <2> QED
    BY <1>2, <1>6, <2>1 DEF PlaceDone
<1>7. CASE j \notin PlaceInsert(d, n)
  <2>1. owner'[j] = knew[j] /\ knew[j] # Nobody
    BY <1>4, <1>7 DEF PlaceDone
  <2>2. \A x \in cl : knew[x] \in {knew[j], Nobody}
    BY <1>4, <1>5, <2>1 DEF PlaceSeveral, Several
  <2>3. knew \in Mapping
    BY DEF PersonInv, PersonTypeOK, Run
  <2>4. Pick(cl, knew) = {knew[j]}
    <3> HIDE DEF cl, knew
    <3> QED
      BY <1>1, <1>5, <2>1, <2>2, <2>3, PicksTheOne
  <2>5. to[cl] \in Pick(cl, knew)
    BY <1>1 DEF Targets
  <2> QED
    BY <1>2, <2>1, <2>4, <2>5
<1> QED
  BY <1>6, <1>7

LEMMA AlikeStep == PersonInv /\ AlikeTogether /\ [PersonNext]_personVars => AlikeTogether'
<1> SUFFICES ASSUME PersonInv, AlikeTogether, [PersonNext]_personVars,
                    NEW i \in Ident, NEW j \in Ident, {i, j} \in Links(data'),
                    owner'[i] # Nobody, owner'[j] # Nobody, owner'[i] # owner'[j]
             PROVE  {i, j} \in apart'
  <2>1. Links(data)' = Links(data')
    BY DEF Links, IdentsOf, Carries
  <2> QED
    BY <2>1 DEF AlikeTogether
<1>1. {i, j} \in Links(data) /\ owner[i] # Nobody /\ owner[j] # Nobody /\ owner[i] # owner[j]
        => {i, j} \in apart
  BY DEF AlikeTogether
<1>2. ASSUME NEW d \in Detection, Place(d) PROVE {i, j} \in apart'
  <2>1. run[d].done = 6 /\ data' = data
    BY <1>2, PlaceParts
  <2>n. PICK n \in Namings(run[d].rows) :
          \E to \in Targets(Grouped(d, n), run[d].known) :
            PlaceDone(d, n, to) \/ UNCHANGED <<owner, persons, apart>>
    BY <1>2, PlaceParts
  <2>2. PICK to \in Targets(Grouped(d, n), run[d].known) :
          PlaceDone(d, n, to) \/ UNCHANGED <<owner, persons, apart>>
    BY <2>n
  <2>3. CASE UNCHANGED <<owner, persons, apart>>
    BY <1>1, <2>1, <2>3
  <2>4. CASE PlaceDone(d, n, to)
    <3>1. CASE i \in PlaceInsert(d, n)
      BY <2>1, <2>4, <3>1, PlacedBeside
    <3>2. CASE j \in PlaceInsert(d, n)
      <4>1. {j, i} = {i, j}
        OBVIOUS
      <4> QED
        BY <2>1, <2>4, <3>2, <4>1, PlacedBeside
    <3>3. CASE i \notin PlaceInsert(d, n) /\ j \notin PlaceInsert(d, n)
      BY <1>1, <2>1, <2>4, <3>3 DEF PlaceDone
    <3> QED
      BY <3>1, <3>2, <3>3
  <2> QED
    BY <2>2, <2>3, <2>4
<1>3. CASE CommitEdit
  <2> DEFINE gone == IF edit.kind \in {"split", "repo"}
                     THEN {p \in edit.gone : member[p] # "linked"} ELSE edit.gone
             unmapped == {k \in Ident \ edit.moved : owner[k] \in gone} \cup edit.dropped
             byHand == UNION {{{k, l} : l \in Mapped(owner[k])} : k \in edit.moved}
  <2>1. /\ edit # NoEdit /\ data' = data \ edit.lost
        /\ owner' = [k \in Ident |-> IF k \in unmapped THEN Nobody
                                     ELSE IF k \in edit.moved THEN edit.into ELSE owner[k]]
        /\ apart' = Parted(apart \cup byHand, owner')
    BY <1>3 DEF CommitEdit
  <2>2. \A k \in edit.moved : owner[k] # Nobody
    BY <2>1 DEF PersonInv, EditKept
  <2>3. i \notin unmapped /\ j \notin unmapped
    BY <2>1
  <2> HIDE DEF gone, unmapped
  <2>4. {i, j} \in Links(data)
    <3>1. data' \subseteq data
      BY <2>1
    <3> QED
      BY <3>1, LinksGrow
  <2>5. {i, j} \in apart \cup byHand
    <3>1. CASE owner[i] = owner[j]
      <4>1. i \in Mapped(owner[j]) /\ j \in Mapped(owner[i]) /\ {i, j} = {j, i}
        BY <3>1 DEF Mapped
      <4>2. i \in edit.moved \/ j \in edit.moved
        BY <2>1, <2>3, <3>1
      <4> QED
        BY <4>1, <4>2
    <3>2. CASE owner[i] # owner[j]
      <4>1. owner[i] # Nobody /\ owner[j] # Nobody
        BY <2>1, <2>2, <2>3
      <4> QED
        BY <1>1, <2>4, <3>2, <4>1
    <3> QED
      BY <3>1, <3>2
  <2> QED
    BY <2>1, <2>5 DEF Parted
<1>4. ASSUME NEW x \in Datum, NEW old \in SUBSET data, Arrive(x, old) PROVE {i, j} \in apart'
  BY <1>1, <1>4 DEF Arrive, Parted
<1>5. CASE UNCHANGED <<data, owner, apart>>
  BY <1>1, <1>5
<1>6. ASSUME NEW d \in Detection, ReadRows(d) \/ ReadMapping(d) \/ Fail(d)
      PROVE  UNCHANGED <<data, owner, apart>>
  <2>1. CASE ReadRows(d)
    BY <2>1 DEF ReadRows
  <2>2. CASE ReadMapping(d) \/ Fail(d)
    BY <2>2 DEF ReadMapping, Fail
  <2> QED
    BY <1>6, <2>1, <2>2
<1>7. ASSUME \/ \E p, q \in Person : Merge(p, q)
             \/ \E k \in Ident, p \in Person : Split(k, p)
             \/ \E p \in Person : Delete(p) \/ SetMember(p, "invited") \/ SetMember(p, "linked")
             \/ \E rows \in SUBSET data : RemoveRepo(rows)
      PROVE  UNCHANGED <<data, owner, apart>>
  BY <1>7 DEF Merge, Split, Delete, SetMember, RemoveRepo, BeginEdit
<1> QED
  BY <1>2, <1>3, <1>4, <1>5, <1>6, <1>7 DEF PersonNext, personVars

\* Two identities that the data makes alike are one person, or there is a reason for
\* the two: whatever comes and goes while detections read statement by statement and
\* overlap, and however people are edited meanwhile (DetectAndUpsert,
\* internal/store/contributors.go).
THEOREM LikeStayTogether == PersonSpec => []AlikeTogether
<1>1. PersonInit => PersonInv /\ AlikeTogether
  <2>1. PersonInit => AlikeTogether
    BY DEF PersonInit, AlikeTogether, Unmapped
  <2> QED
    BY <2>1, PersonInvInit
<1>2. PersonInv /\ AlikeTogether /\ [PersonNext]_personVars => PersonInv' /\ AlikeTogether'
  BY PersonTypeStep, AlikeStep
<1> QED
  BY <1>1, <1>2, PTL DEF PersonSpec

\* Identities are mapped to rows of contributors that are there, at every moment
\* (the foreign key of contributor_identities).
THEOREM PersonTypeCorrect == PersonSpec => []PersonTypeOK
<1>1. PersonInv => PersonTypeOK
  BY DEF PersonInv
<1> QED
  BY <1>1, PersonInvInit, PersonTypeStep, PTL DEF PersonSpec
=============================================================================
