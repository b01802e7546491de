---------------------------- MODULE Contributors ----------------------------
(***************************************************************************)
(* The people of an organisation (internal/contributors/cluster.go and     *)
(* internal/store/contributors.go): contributor_identities maps each git   *)
(* identity, an email or a login, to one row of contributors.              *)
(*                                                                         *)
(* Detection reads the commits, the rest of the data and the mapping there *)
(* is by one statement each, groups the identities that the rows read make *)
(* alike, and places the ones that are not mapped, all in one transaction  *)
(* at READ COMMITTED: rows may come and go between two statements.  It     *)
(* runs as a job after a sync and in a request of its own, so two can      *)
(* overlap; the edits of the People page and the removal of a repository   *)
(* go on in between.                                                       *)
(*                                                                         *)
(* An edit holds the rows it has written until it commits.  What it        *)
(* deletes cascades to the identities mapped to it by then.                *)
(***************************************************************************)
EXTENDS Integers, FiniteSets

CONSTANTS
  Email, Login,  \* git identities
  NoIdent,       \* a row without an email, or without a login
  Datum,     \* rows of the organisation's data that may come
  Similar,   \* pairs alike by their values: the local part is a login, or the same
  Generic,   \* logins too generic to be a name
  Person,    \* bound: rows of contributors
  Nobody,
  Detection, \* bound: detections at a time
  MaxEdits   \* bound: edits, removals of a repository among them

Ident == Email \cup Login

\* What a detection reads, in this order; the mapping comes last.
Statements == <<"pairs", "commits", "pull_requests", "pr_reviews", "author_survival">>

ASSUME ContributorsAssumption ==
  /\ IsFiniteSet(Ident) /\ IsFiniteSet(Person)
  /\ NoIdent \notin Ident /\ Nobody \notin Person
  /\ Datum \subseteq [in : {Statements[k] : k \in 2..5},
                     email : Email \cup {NoIdent}, login : Login \cup {NoIdent}]
  /\ Similar \subseteq {{i, j} : i, j \in Ident}
  /\ MaxEdits \in Nat

VARIABLES
  data,     \* rows of commits, pull_requests, pr_reviews and author_survival
  owner,    \* contributor_identities
  persons,  \* contributors, by id
  member,   \* contributors.user_id and invited_at
  run,      \* what each detection has read
  edit,     \* the edit in progress
  edits,    \* history: edits begun
  late,     \* history: rows that came since each detection began
  apart     \* history: pairs for whose being apart there is a reason

personVars == <<data, owner, persons, member, run, edit, edits, late, apart>>

Mapping == [Ident -> Person \cup {Nobody}]
Unmapped == [i \in Ident |-> Nobody]

\* A detection that has executed `done` statements, six with the one for the mapping.
Idle == [done |-> 0, pairs |-> {}, rows |-> {}, known |-> Unmapped]
Run  == [done : 0..6, pairs : SUBSET Datum, rows : SUBSET Datum, known : Mapping]
NoEdit == [kind |-> "none"]
Edit   == [kind : {"merge", "split", "delete", "repo"},
           moved : SUBSET Ident, into : Person \cup {Nobody},
           dropped : SUBSET Ident, gone : SUBSET Person, lost : SUBSET Datum]

PersonTypeOK ==
  /\ data \subseteq Datum
  /\ owner \in Mapping
  /\ persons \in [Person -> {"new", "there", "gone"}]
  /\ member \in [Person -> {"none", "invited", "linked"}]
  /\ run \in [Detection -> Run]
  /\ edit \in {NoEdit} \cup Edit
  /\ edits \in 0..MaxEdits
  /\ late \in [Detection -> SUBSET Datum]
  /\ apart \subseteq SUBSET Ident
  /\ \A i \in Ident : owner[i] # Nobody => persons[owner[i]] = "there"

PersonInit ==
  /\ data = {}
  /\ owner = Unmapped
  /\ persons = [p \in Person |-> "new"]
  /\ member = [p \in Person |-> "none"]
  /\ run = [d \in Detection |-> Idle]
  /\ edit = NoEdit
  /\ edits = 0
  /\ late = [d \in Detection |-> {}]
  /\ apart = {}

Mapped(p) == {i \in Ident : owner[i] = p}

There == {p \in Person : persons[p] = "there"}

\* The identities in rows of data, and the pairs alike by what the rows say now: an
\* email and a login of one commit, or values that are similar.
IdentsOf(rows) == ({x.email : x \in rows} \cup {x.login : x \in rows}) \ {NoIdent}

Carries(x) == x.in = "commits" /\ NoIdent \notin {x.email, x.login}

Links(rows) == {{x.email, x.login} : x \in {y \in rows : Carries(y)}}
                 \cup {pair \in Similar : pair \subseteq IdentsOf(rows)}

\* Alike, mapped, and not one person.
Parted(pairs, owns) ==
  {pair \in pairs : \E i, j \in pair : /\ Nobody \notin {owns[i], owns[j]}
                                      /\ owns[i] # owns[j]}

\* A sync, a webhook or an analysis brings a row; a commit that is stored again may
\* have another author, from the clone, the platform or a push (UpsertCommit).
\* Identities that are mapped stay where they are, whatever the row says.
Arrive(x, old) ==
  /\ x \notin data
  /\ old \subseteq data
  /\ old # {} => x.in = "commits" /\ \E y \in old : y.in = "commits" /\ old = {y}
  /\ data' = (data \ old) \cup {x}
  /\ late' = [d \in Detection |-> IF run[d].done = 0 THEN {} ELSE late[d] \cup {x}]
  /\ apart' = apart \cup Parted(Links(data') \ Links(data), owner)
  /\ UNCHANGED <<owner, persons, member, run, edit, edits>>

-----------------------------------------------------------------------------
(* DetectAndUpsert *)

\* collectCoOccurrencePairs, then the four queries of collectIdentities.
ReadRows(d) ==
  LET k == run[d].done + 1
      read == [done |-> k,
               pairs |-> IF k = 1 THEN {x \in data : Carries(x)} ELSE run[d].pairs,
               rows |-> run[d].rows \cup {x \in data : x.in = Statements[k]},
               known |-> Unmapped]
  IN  /\ k \in 1..5
      /\ run' = [run EXCEPT ![d] = read]
      /\ UNCHANGED <<data, owner, persons, member, edit, edits, late, apart>>

\* loadExistingMap
ReadMapping(d) ==
  LET read == [done |-> 6, pairs |-> run[d].pairs, rows |-> run[d].rows, known |-> owner]
  IN  /\ run[d].done = 5
      /\ IdentsOf(run[d].rows) # {}
      /\ run' = [run EXCEPT ![d] = read]
      /\ UNCHANGED <<data, owner, persons, member, edit, edits, late, apart>>

\* The detection is over, or there was nothing to read; an error or a crash before the
\* commit, upon which the job is run again.
Over(d) == run' = [run EXCEPT ![d] = Idle] /\ late' = [late EXCEPT ![d] = {}]

Fail(d) ==
  /\ run[d].done # 0
  /\ Over(d)
  /\ UNCHANGED <<data, owner, persons, member, edit, edits, apart>>

\* The display name of an email is the login of the first of its rows that has one, in
\* whatever order the query returns them.
Namings(rows) ==
  LET named == {x \in rows : Carries(x)}
  IN  {n \in SUBSET named :
         \A x \in named : \E y \in n : /\ y.email = x.email
                                      /\ \A z \in n : z.email = x.email => z = y}

\* Mutant: without rule 0.
MutantRuleLinks(r, naming) ==
  {pair \in {{x.email, x.login} : x \in {y \in naming : y.login \notin Generic}}
               \cup Similar : pair \subseteq IdentsOf(r.rows)}

\* Rules 0 to 3 of ClusterIdentities, for the identities collected: an email and a
\* login on one commit, the same name unless generic, similar values.
RuleLinks(r, naming) ==
  {pair \in {{x.email, x.login} : x \in r.pairs}
               \cup {{x.email, x.login} : x \in {y \in naming : y.login \notin Generic}}
               \cup Similar :
     pair \subseteq IdentsOf(r.rows)}

\* ClusterIdentities: the parts of the identities connected by likeness.
Closed(S, links) == \A pair \in links : pair \cap S # {} => pair \subseteq S
ClusterOf(i, ids, links) ==
  {j \in ids : \A S \in SUBSET ids : i \in S /\ Closed(S, links) => j \in S}
Clusters(ids, links) == {ClusterOf(i, ids, links) : i \in ids}

\* pickExistingContributor: the person most of a cluster is mapped to, the one
\* with the smallest id among several; with nobody, a fresh one.
Pick(cl, known) ==
  LET votes(p) == Cardinality({i \in cl : known[i] = p})
      best     == {p \in Person : votes(p) > 0 /\ \A q \in Person : votes(q) <= votes(p)}
  IN  IF best # {} THEN best ELSE {p \in Person : persons[p] = "new"}

\* The clusters with identities to place go to the persons `to` names.
Targets(clusters, known) ==
  {to \in [clusters -> Person] :
     \A cl \in clusters :
       /\ to[cl] \in Pick(cl, known)
       /\ \A other \in clusters \ {cl} : persons[to[cl]] = "new" => to[other] # to[cl]}

\* The clusters with an identity to place, and those identities: ON CONFLICT DO
\* NOTHING, so one that was mapped in the meantime stays where it is.
Grouped(d, naming) ==
  {cl \in Clusters(IdentsOf(run[d].rows), RuleLinks(run[d], naming)) :
     \E i \in cl : run[d].known[i] = Nobody}

Inserts(d, clusters) ==
  {i \in UNION clusters : run[d].known[i] = Nobody /\ owner[i] = Nobody}

Home(clusters, i) == CHOOSE cl \in clusters : i \in cl

\* A pair has a reason to be apart when the rows that were there all the time did not
\* make it alike, when the cluster had several persons ("we DO NOT merge them"), or
\* when the other of the two was mapped in the meantime.
Several(cl, known) ==
  \E i, j \in cl : Nobody \notin {known[i], known[j]} /\ known[i] # known[j]

Excused(d, clusters, insert, i, pair) ==
  \/ pair \notin Links(data \ late[d])
  \/ Several(Home(clusters, i), run[d].known)
  \/ \E j \in pair \ insert : owner[j] # run[d].known[j]

PlaceInto(d, clusters, insert, to) ==
  /\ owner' = [i \in Ident |-> IF i \in insert THEN to[Home(clusters, i)] ELSE owner[i]]
  /\ persons' = [p \in Person |->
                   IF persons[p] = "new" /\ \E cl \in clusters : to[cl] = p
                     THEN "there" ELSE persons[p]]
  /\ apart' = apart \cup
       Parted({pair \in Links(data) :
                 \E i \in pair \cap insert : Excused(d, clusters, insert, i, pair)}, owner')

\* A person deleted in the meantime fails the insert, and with it the detection.
Place(d) ==
  /\ run[d].done = 6
  /\ \E naming \in Namings(run[d].rows) :
       LET clusters == Grouped(d, naming)
           insert   == Inserts(d, clusters)
       IN  \E to \in Targets(clusters, run[d].known) :
             IF \A i \in insert : persons[to[Home(clusters, i)]] # "gone"
               THEN PlaceInto(d, clusters, insert, to)
               ELSE UNCHANGED <<owner, persons, apart>>
  /\ Over(d)
  /\ UNCHANGED <<data, member, edit, edits>>

-----------------------------------------------------------------------------
(* Edits: what they read and write, and their commits *)

BeginEdit(e) ==
  /\ edit = NoEdit
  /\ edits < MaxEdits
  /\ edit' = e
  /\ edits' = edits + 1
  /\ UNCHANGED <<data, owner, persons, member, run, late, apart>>

\* MergeContributors
Merge(from, into) ==
  /\ from # into
  /\ {from, into} \subseteq There
  /\ BeginEdit([kind |-> "merge", moved |-> Mapped(from), into |-> into,
                dropped |-> {}, gone |-> {from}, lost |-> {}])

\* SplitIdentity: the identity gets a person of its own, and whoever has no
\* identity left, no member and no invitation goes.
Split(i, new) ==
  /\ owner[i] # Nobody
  /\ persons[new] = "new"
  /\ BeginEdit([kind |-> "split", moved |-> {i}, into |-> new, dropped |-> {},
                gone |-> {p \in There : Mapped(p) \subseteq {i} /\ member[p] = "none"},
                lost |-> {}])

\* The delete handler: with identities the person is only excluded.
Delete(p) ==
  /\ p \in There
  /\ Mapped(p) = {}
  /\ BeginEdit([kind |-> "delete", moved |-> {}, into |-> Nobody, dropped |-> {},
                gone |-> {p}, lost |-> {}])

\* DeleteRepo and PruneOrphanContributors: `lost` are the rows of the repository, and
\* what is only in author_survival of another does not keep an identity.
RemoveRepo(lost) ==
  LET live    == {x \in data \ lost : x.in # "author_survival"}
      dropped == {i \in Ident : owner[i] # Nobody /\ i \notin IdentsOf(live)}
  IN  /\ lost # {}
      /\ BeginEdit([kind |-> "repo", moved |-> {}, into |-> Nobody,
                    dropped |-> dropped, lost |-> lost,
                    gone |-> {p \in There : Mapped(p) \subseteq dropped /\ member[p] # "linked"}])

\* A deletion re-reads user_id where the row changed under it; a merge or the
\* delete handler does not look at it.
CommitEdit ==
  LET gone == IF edit.kind \in {"split", "repo"}
                THEN {p \in edit.gone : member[p] # "linked"} ELSE edit.gone
      unmapped == {i \in Ident \ edit.moved : owner[i] \in gone} \cup edit.dropped
  IN  /\ edit # NoEdit
      /\ owner' = [i \in Ident |-> IF i \in unmapped THEN Nobody
                                   ELSE IF i \in edit.moved THEN edit.into ELSE owner[i]]
      /\ persons' = [p \in Person |-> IF p \in gone THEN "gone"
                                      ELSE IF p = edit.into THEN "there" ELSE persons[p]]
      /\ apart' = Parted(apart \cup UNION {{{i, j} : j \in Mapped(owner[i])} : i \in edit.moved},
                         owner')
      /\ data' = data \ edit.lost
      /\ edit' = NoEdit
      /\ UNCHANGED <<member, run, edits, late>>

\* SetInvited; LinkContributorToUser, by hand or when the invitation is accepted.
SetMember(p, how) ==
  /\ p \in There
  /\ edit # NoEdit => p \notin edit.gone
  /\ edits < MaxEdits
  /\ edits' = edits + 1
  /\ member' = [member EXCEPT ![p] = IF how = "invited" /\ @ = "linked" THEN @ ELSE how]
  /\ UNCHANGED <<data, owner, persons, run, edit, late, apart>>

PersonNext ==
  \/ \E x \in Datum, old \in SUBSET data : Arrive(x, old)
  \/ \E d \in Detection : ReadRows(d) \/ ReadMapping(d) \/ Place(d) \/ Fail(d)
  \/ \E p, q \in Person : Merge(p, q)
  \/ \E i \in Ident, p \in Person : Split(i, p)
  \/ \E p \in Person : Delete(p) \/ SetMember(p, "invited") \/ SetMember(p, "linked")
  \/ \E lost \in SUBSET data : RemoveRepo(lost)
  \/ CommitEdit

PersonSpec == PersonInit /\ [][PersonNext]_personVars

-----------------------------------------------------------------------------
(* Properties *)

\* Two identities that the data makes alike, and that are mapped, are one person,
\* however detections overlap and whatever comes, is rewritten and goes while they
\* read, unless one of the two was moved by hand from beside the other; or what makes
\* them alike came after both were mapped, or while the detection that placed one of
\* them was reading; or the other was mapped between that detection's reading of the
\* mapping and its commit; or the detection found them among several persons.
AlikeTogether ==
  \A i, j \in Ident :
    {i, j} \in Links(data) /\ Nobody \notin {owner[i], owner[j]} /\ owner[i] # owner[j]
      => {i, j} \in apart

-----------------------------------------------------------------------------
(* What the comments say, and the code does not do *)

\* cluster.go:724: "ON CONFLICT DO NOTHING guards against a race / double-detect".  Of
\* two detections that place the same identities, the later leaves a person without any.
NobodyIsEmpty == edits = 0 => \A p \in There : Mapped(p) # {}
=============================================================================
