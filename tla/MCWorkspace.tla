---------------------------- MODULE MCWorkspace ----------------------------
(***************************************************************************)
(* Small instances for TLC of the parts of a workspace that share no       *)
(* state: its members, the repositories it connects, the jobs that follow  *)
(* a sync, the people behind git identities, incidents.  A behaviour is    *)
(* one of one part, its focus; the others stay in their initial state.     *)
(*                                                                         *)
(* Model values stand for rows or requests of whichever part is in focus,  *)
(* so that few of them give the symmetry of all.                           *)
(***************************************************************************)
EXTENDS Orgs, RepoConnect, Pipeline, Contributors, Incidents, TLC

CONSTANTS b, r1, r2, r3, q1, q2, u1, u2, s1, l1

VARIABLE focus

Focuses == {"orgs", "repos", "pipeline", "people", "incidents"}

WorkspaceTypeOK ==
  /\ focus \in Focuses
  /\ OrgTypeOK
  /\ ConnectTypeOK
  /\ PipelineTypeOK
  /\ PersonTypeOK
  /\ IncidentsTypeOK

WorkspaceInit ==
  /\ focus \in Focuses
  /\ OrgInit
  /\ ConnectInit
  /\ PipelineInit
  /\ PersonInit
  /\ IncidentsInit

WorkspaceNext ==
  \/ /\ focus = "orgs"
     /\ OrgNext
     /\ UNCHANGED <<focus, connectVars, pipelineVars, personVars, incidentVars>>
  \/ /\ focus = "repos"
     /\ ConnectNext
     /\ UNCHANGED <<focus, orgVars, pipelineVars, personVars, incidentVars>>
  \/ /\ focus = "pipeline"
     /\ PipelineNext
     /\ UNCHANGED <<focus, orgVars, connectVars, personVars, incidentVars>>
  \/ /\ focus = "people"
     /\ PersonNext
     /\ UNCHANGED <<focus, orgVars, connectVars, pipelineVars, incidentVars>>
  \/ /\ focus = "incidents"
     /\ IncidentsNext
     /\ UNCHANGED <<focus, orgVars, connectVars, pipelineVars, personVars>>

WorkspaceSpec ==
  /\ WorkspaceInit
  /\ [][WorkspaceNext]_<<focus, orgVars, connectVars, pipelineVars, personVars,
                        incidentVars>>

\* Both users sign up with the same name before the @.
OneBase == [u \in User |-> "b"]

\* The head h of a repository brings its author h.
Own == [h \in Sha |-> h]

\* A commit of b with the author's name and with the platform's login, a pull request of
\* that login, and lines that b has written; b's local part is the login.
Data ==
  LET row(table, email, login) == [in |-> table, email |-> email, login |-> login]
  IN  {row("commits", b, l1), row("commits", b, s1),
       row("pull_requests", NoIdent, s1), row("author_survival", b, NoIdent)}

LocalPart == {{b, s1}}

\* Rows come two at a time at most, and one while a detection reads; two detections
\* overlap where nobody edits.
FewRows ==
  /\ Cardinality(data) <= 2
  /\ \A d \in Detection : Cardinality(late[d]) <= 1
  /\ (\A d \in Detection : run[d].done # 0) => edits = 0

\* An import, which no billing status blocks, runs beside at most one connect request
\* of an org that is not suspended.
OneSide ==
  import # NoImport =>
    ~suspended /\ \E q \in Connect : \A p \in Connect \ {q} : connect[p] = NoRequest

\* A person reports one incident at most.
FewReports == Cardinality({n \in Row : incident[n].cause = "person"}) <= 1

Alikes ==
  Permutations({r1, r2, r3}) \cup Permutations({q1, q2}) \cup Permutations({u1, u2})
=============================================================================
