----------------------------- MODULE Incidents -----------------------------
(***************************************************************************)
(* Deployments and the incidents they open and close: deliveries of        *)
(* deployment events (ingestDeployment, internal/webhooks/events.go),      *)
(* issues with an incident label seen by a sync (syncIncidentsFromIssues,  *)
(* internal/sync/syncer.go) and people (internal/api/webhooks.go).         *)
(*                                                                         *)
(* Deliveries and syncs run concurrently and in any order.  A transaction  *)
(* looks for an incident and inserts one that it did not find; at READ     *)
(* COMMITTED it does not see what another has not committed, and no index  *)
(* of the table refuses a second row.  An event of a repository that       *)
(* RepoIDByExternal does not find has no place: it is matched against the  *)
(* incidents of the whole organisation.                                    *)
(***************************************************************************)
EXTENDS Integers, FiniteSets

CONSTANTS
  Site,      \* connected repositories
  NoSite,    \* an event of a repository that is not found
  Worker,    \* bound: transactions at a time, of deliveries and of syncs
  Row,       \* rows of incidents
  Label,     \* titles of issues with an incident label
  Instant    \* times of events

ASSUME IncidentsAssumption ==
  /\ NoSite \notin Site
  /\ IsFiniteSet(Row) /\ IsFiniteSet(Worker)
  /\ Instant \subseteq Nat \ {0}
  /\ Label \cap {"none", "deploy", "person"} = {}

VARIABLES
  incident,  \* rows of incidents
  missing    \* the incident a transaction did not find and is about to insert

incidentVars == <<incident, missing>>

Sites == Site \cup {NoSite}
Unused == [site |-> NoSite, opened |-> 0, resolved |-> 0, cause |-> "none"]
Entry == [site : Sites, opened : Instant, resolved : Instant \cup {0},
          cause : {"deploy", "person"} \cup Label]

IncidentsTypeOK ==
  /\ incident \in [Row -> {Unused} \cup Entry]
  /\ missing \in [Worker -> {Unused} \cup Entry]

IncidentsInit ==
  /\ incident = [n \in Row |-> Unused]
  /\ missing = [w \in Worker |-> Unused]

Used(n) == incident[n].cause # "none"

IsOpen(n) == Used(n) /\ incident[n].resolved = 0

\* The condition on repo_id of the two queries: none without a site.
InScope(n, s) == s = NoSite \/ incident[n].site = s

Made(s, opened, resolved, cause) ==
  [site |-> s, opened |-> opened, resolved |-> resolved, cause |-> cause]

Insert(entry) == \E n \in Row : ~Used(n) /\ incident' = [incident EXCEPT ![n] = entry]

\* A transaction that found none is about to insert one.
Miss(w, entry) ==
  /\ missing[w] = Unused
  /\ missing' = [missing EXCEPT ![w] = entry]
  /\ UNCHANGED incident

\* It commits, and its row is there for the others to see.
Commit(w) ==
  /\ missing[w] # Unused
  /\ Insert(missing[w])
  /\ missing' = [missing EXCEPT ![w] = Unused]

\* A statement fails, and the transaction is rolled back: a delivery is answered
\* 500, a sync goes on without its incidents.
RollBack(w) ==
  /\ missing[w] # Unused
  /\ missing' = [missing EXCEPT ![w] = Unused]
  /\ UNCHANGED incident

-----------------------------------------------------------------------------
(* ingestDeployment *)

\* Mutant: without a site none is looked for.
MutantHasOpen(s) == \E n \in Row : IsOpen(n) /\ incident[n].site = s /\ s # NoSite
\* HasOpenIncidentForRepo
HasOpen(s) == \E n \in Row : IsOpen(n) /\ InScope(n, s)

\* A failed deployment, sent for the first time or again.
DeployFailed(w, s, t) == ~HasOpen(s) /\ Miss(w, Made(s, t, 0, "deploy"))

\* ResolveOpenIncidentsForRepo: every open incident in scope, whatever opened
\* it, as of the time of the deployment.
DeploySucceeded(s, t) ==
  /\ incident' = [n \in Row |-> IF IsOpen(n) /\ InScope(n, s)
                                THEN [incident[n] EXCEPT !.resolved = t] ELSE incident[n]]
  /\ UNCHANGED missing

-----------------------------------------------------------------------------
(* Issues and people *)

\* One issue of syncIncidentsFromIssues, open or closed at the time given: "skip
\* if an incident with the same repo+title+opened_at already exists".
SameIncident(row, s, l, t) == row.site = s /\ row.cause = l /\ row.opened = t

HasIncident(s, l, t) == \E n \in Row : SameIncident(incident[n], s, l, t)

\* It exists, and is resolved once the issue has closed.
SyncFound(s, l, t, closed) ==
  /\ HasIncident(s, l, t) /\ closed # 0
  /\ incident' = [n \in Row |-> IF SameIncident(incident[n], s, l, t) /\ IsOpen(n)
                                THEN [incident[n] EXCEPT !.resolved = closed]
                                ELSE incident[n]]
  /\ UNCHANGED missing

SyncMissing(w, s, l, t, closed) == ~HasIncident(s, l, t) /\ Miss(w, Made(s, t, closed, l))

\* createIncident
CreateIncident(s, t) == Insert(Made(s, t, 0, "person")) /\ UNCHANGED missing

\* ResolveIncident: open or not.
ResolveIncident(n, t) ==
  /\ Used(n)
  /\ incident' = [incident EXCEPT ![n].resolved = t]
  /\ UNCHANGED missing

IncidentsNext ==
  \/ \E w \in Worker :
       \/ \E s \in Sites, t \in Instant : DeployFailed(w, s, t)
       \/ \E s \in Site, l \in Label, t \in Instant, closed \in Instant \cup {0} :
            SyncMissing(w, s, l, t, closed)
       \/ Commit(w) \/ RollBack(w)
  \/ \E s \in Sites, t \in Instant : DeploySucceeded(s, t) \/ CreateIncident(s, t)
  \/ \E s \in Site, l \in Label, t, closed \in Instant : SyncFound(s, l, t, closed)
  \/ \E n \in Row, t \in Instant : ResolveIncident(n, t)

IncidentsSpec == IncidentsInit /\ [][IncidentsNext]_incidentVars

-----------------------------------------------------------------------------
(* Properties *)

\* "Used to avoid opening duplicate incidents on repeated failure deliveries" and
\* "skip if an incident [...] already exists": neither check locks anything, so
\* transactions at a time may each insert one; but however failures are sent again,
\* issues synced and incidents resolved, the open incidents that deployments opened
\* for one repository, or for none, and the incidents of one issue are never more
\* than the transactions that run at a time.
FewDuplicates ==
  /\ \A s \in Sites :
       Cardinality({n \in Row : IsOpen(n) /\ incident[n].cause = "deploy"
                                          /\ incident[n].site = s})
         <= Cardinality(Worker)
  /\ \A s \in Site, l \in Label, t \in Instant :
       Cardinality({n \in Row : SameIncident(incident[n], s, l, t)}) <= Cardinality(Worker)

-----------------------------------------------------------------------------
(* What the comments say, and the code does not do *)

\* syncer.go:834: "re-sync of the same issue must not duplicate".  Two syncs that
\* overlap both find none and both insert.
IssueOnce ==
  \A s \in Site, l \in Label, t \in Instant :
    Cardinality({n \in Row : SameIncident(incident[n], s, l, t)}) <= 1

\* store/deployments.go:257: "ResolveIncident stamps resolved_at on a single open
\* incident".  It stamps one that was resolved again.
ResolvedOnce ==
  [][\A n \in Row : Used(n) /\ incident[n].resolved # 0
                      => incident'[n].resolved = incident[n].resolved]_incidentVars
=============================================================================
