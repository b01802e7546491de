------------------------------ MODULE Listing ------------------------------
(***************************************************************************)
(* How the provider clients read a whole list page by page while people    *)
(* keep working on the other side (src/internal/sync/provider.go).  Every  *)
(* List* method is one or more legs: a GitHub issue listing is a GraphQL   *)
(* leg paged by cursor and, when that fails anywhere, a REST leg paged by  *)
(* number from the start.  A page call is retried on a transient error up  *)
(* to RetryAttempts times; waiting out a rate limit is not counted and     *)
(* changes nothing here.  A leg that gives up loses the listing, hands     *)
(* over to the next leg, or ends with what it has, as the method is        *)
(* written.                                                                *)
(*                                                                         *)
(* The things listed are numbers in the order they were made.  A listing   *)
(* collects a set: the stores upsert by external id, so an item listed     *)
(* twice is listed once.  What is fetched per item on the side (a merge    *)
(* request's first commit, a deployment's status) only adorns it.          *)
(***************************************************************************)
EXTENDS Integers, FiniteSets, Sequences

CONSTANTS
  MaxItem,         \* items ever made at the provider (bound)
  Apart,           \* those only the second of two combined legs lists:
                   \* organisation repositories, notes next to approvals
  PageSize,        \* per_page / first
  RetryAttempts    \* retryAttempts

ASSUME ListingAssumption ==
  /\ MaxItem \in Nat \ {0}
  /\ Apart \subseteq 1 .. MaxItem
  /\ PageSize \in Nat \ {0}
  /\ RetryAttempts \in Nat

VARIABLES
  alive,       \* items that exist at the provider
  made,        \* items made so far
  listing      \* the listing under way, or the last one

listingVars == <<alive, made, listing>>

Item == 1 .. MaxItem

\* by: cursor (after the last item seen), page (by number) or whole (one call);
\* first: which end comes first; of: what it lists; fails: what a given-up call
\* means; then: whether another leg follows a complete one.
Leg(by, first, of, fails, then) ==
  [by |-> by, first |-> first, of |-> of, fails |-> fails, then |-> then]

Near == Item \ Apart

\* A GraphQL leg and the REST leg it falls back to.
ByGraph == Leg("cursor", "oldest", Item, "next", "stop")
ByREST  == Leg("page", "newest", Item, "lose", "stop")

\* githubProvider
ListIssues  == <<ByGraph, ByREST>>
ListPRs     == <<ByGraph, ByREST>>
ListCommits == <<Leg("cursor", "newest", Item, "lose", "stop")>>
ListReviews == <<Leg("page", "oldest", Item, "lose", "stop")>>
ListDeployments == <<ByREST>>

\* An installation token is tried first: an error before its first page means an
\* OAuth token, a later one ends the list there.  The organisations' lists are
\* best effort.
ListRepos == <<Leg("page", "oldest", Item, "guess", "stop"),
               Leg("page", "oldest", Near, "lose", "next"),
               Leg("page", "oldest", Apart, "keep", "stop")>>

\* gitlabProvider
ListProjects      == <<ByREST>>
ListProjectIssues == <<ByREST>>
ListMRs           == <<ByGraph, ByREST>>
ListHistory       == <<ByREST>>
ListProjectDeployments == <<Leg("page", "oldest", Item, "lose", "stop")>>

\* The approvals in one call, then the notes, both best effort.
ListMRReviews == <<Leg("whole", "oldest", Near, "skip", "next"),
                   Leg("page", "oldest", Apart, "keep", "stop")>>

\* A repository listing by the kind of token it is made with.
Legs ==
  [issues |-> ListIssues, prs |-> ListPRs, commits |-> ListCommits,
   reviews |-> ListReviews, deployments |-> ListDeployments,
   app_repos |-> ListRepos, user_repos |-> ListRepos,
   projects |-> ListProjects, project_issues |-> ListProjectIssues, mrs |-> ListMRs,
   history |-> ListHistory, mr_reviews |-> ListMRReviews,
   project_deployments |-> ListProjectDeployments]

Kind == DOMAIN Legs

NoListing == [kind |-> "none"]

\* at: items before the next page, or the cursor; there: what existed at the start;
\* short: why the list may miss some of it.
Listings ==
  [kind : Kind, leg : 1 .. 3, at : 0 .. MaxItem, begun : BOOLEAN,
   tries : 0 .. RetryAttempts, got : SUBSET Item, there : SUBSET Item,
   short : BOOLEAN, result : {"running", "ok", "error"}]

ListingTypeOK ==
  /\ alive \subseteq Item
  /\ made \in 0 .. MaxItem
  /\ listing \in {NoListing} \cup Listings

ListingInit ==
  /\ alive = {}
  /\ made = 0
  /\ listing = NoListing

-----------------------------------------------------------------------------
Running == listing.kind # "none" /\ listing.result = "running"
ThisLeg == Legs[listing.kind][listing.leg]

Before(first, i, j) == IF first = "oldest" THEN i < j ELSE i > j

\* The place of an item of S, counted from 0, and the part of a listed set that
\* one call returns.
Place(first, S, i) == Cardinality({j \in S : Before(first, j, i)})

Rest(leg, at) ==
  LET S == leg.of \cap alive
  IN CASE leg.by = "cursor" -> {i \in S : at = 0 \/ Before(leg.first, at, i)}
       [] leg.by = "page"   -> {i \in S : Place(leg.first, S, i) >= at}
       [] leg.by = "whole"  -> S

PageOf(leg, at) ==
  IF leg.by = "whole"
  THEN Rest(leg, at)
  ELSE {i \in Rest(leg, at) : Place(leg.first, Rest(leg, at), i) < PageSize}

\* Where the next call goes on after a page.
After(leg, at, page) ==
  IF leg.by = "cursor"
  THEN CHOOSE i \in page : \A j \in page \ {i} : Before(leg.first, j, i)
  ELSE at + PageSize

\* An OAuth token is refused the installation's list, an installation token the
\* user's.
Served == /\ ~(listing.kind = "user_repos" /\ listing.leg = 1)
          /\ ~(listing.kind = "app_repos" /\ listing.leg > 1)

NextLeg(got, short) ==
  [listing EXCEPT !.leg = @ + 1, !.at = 0, !.begun = FALSE, !.tries = 0,
                  !.got = got, !.short = short]

Over(result, short) == [listing EXCEPT !.result = result, !.short = short]

-----------------------------------------------------------------------------
(***************************************************************************)
(* The provider's side.                                                    *)
(***************************************************************************)
Make ==
  /\ made < MaxItem
  /\ made' = made + 1
  /\ alive' = alive \cup {made + 1}
  /\ UNCHANGED listing

\* An item goes.  Those behind it move up one place, past the next page of a leg
\* paged by number when it stood on one already read.
Unmake(i) ==
  /\ i \in alive
  /\ alive' = alive \ {i}
  /\ listing' =
       IF Running /\ ThisLeg.by = "page" /\ i \in ThisLeg.of
                  /\ Place(ThisLeg.first, ThisLeg.of \cap alive, i) < listing.at
       THEN [listing EXCEPT !.short = TRUE]
       ELSE listing
  /\ UNCHANGED made

(***************************************************************************)
(* The client's side: a listing starts, a page arrives, a call fails for a *)
(* moment, a call fails for good.                                          *)
(***************************************************************************)
Begin(k) ==
  /\ ~Running
  /\ listing' = [kind |-> k, leg |-> 1, at |-> 0, begun |-> FALSE, tries |-> 0,
                 got |-> {}, there |-> alive, short |-> FALSE, result |-> "running"]
  /\ UNCHANGED <<alive, made>>

Answered ==
  /\ Running /\ Served
  /\ LET leg  == ThisLeg
         page == PageOf(leg, listing.at)
         got  == listing.got \cup page
     IN listing' =
          CASE page # Rest(leg, listing.at) ->
                 [listing EXCEPT !.got = got, !.at = After(leg, listing.at, page),
                                 !.begun = TRUE, !.tries = 0]
            [] page = Rest(leg, listing.at) /\ leg.then = "next" ->
                 NextLeg(got, listing.short)
            [] page = Rest(leg, listing.at) /\ leg.then = "stop" ->
                 [Over("ok", listing.short) EXCEPT !.got = got]
  /\ UNCHANGED <<alive, made>>

Retried ==
  /\ Running
  /\ listing.tries < RetryAttempts
  /\ listing' = [listing EXCEPT !.tries = @ + 1]
  /\ UNCHANGED <<alive, made>>

\* A listing that fails returns an error and nothing else.
\* Mutant: it returns the pages it has.
MutantLost == Over("ok", listing.short)
Lost == Over("error", listing.short)

\* What a leg that gives up does to its listing.
GivenUp(leg) ==
  CASE leg.fails = "lose" -> Lost
    [] leg.fails = "keep" -> Over("ok", TRUE)
    [] leg.fails = "skip" -> NextLeg(listing.got, TRUE)
    [] leg.fails = "next" -> NextLeg({}, FALSE)
    [] leg.fails = "guess" -> IF listing.begun THEN Over("ok", TRUE)
                                               ELSE NextLeg({}, FALSE)

\* A call is answered with an error that is not retried, or not any more.
Refused ==
  /\ Running
  /\ listing' = GivenUp(ThisLeg)
  /\ UNCHANGED <<alive, made>>

ListingNext ==
  \/ Make
  \/ \E i \in Item : Unmake(i)
  \/ \E k \in Kind : Begin(k)
  \/ Answered
  \/ Retried
  \/ Refused

ListingSpec == ListingInit /\ [][ListingNext]_listingVars

-----------------------------------------------------------------------------
\* A listing that reports success names everything that existed when it began and
\* still exists, whatever was made or removed while it was read page by page, unless
\* a best-effort leg of it was cut short or something was removed from a page already
\* read by number: "what guarantees completeness under the 5000/hr cap" (ghDo).
ListingComplete ==
  (listing.kind # "none" /\ listing.result = "ok" /\ ~listing.short) =>
    listing.there \cap alive \subseteq listing.got
=============================================================================
