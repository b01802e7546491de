----------------------------- MODULE MCAccounts -----------------------------
(***************************************************************************)
(* Small instances for TLC of the parts that share no state beyond the     *)
(* organisation: the sessions of its users, its wallet, the numbers and    *)
(* the amounts of the invoices it sends, the leave of its members, its     *)
(* connection to GitHub and the lists read through it; the digests it is   *)
(* sent; and the commands that fill the demo organisations.  As in         *)
(* MCWorkspace, a behaviour is one of one part, its focus, and model       *)
(* values stand for rows or requests of whichever part is in focus.        *)
(***************************************************************************)
EXTENDS RefreshTokens, Wallet, InvoiceNumbers, InvoicePatch, Leave, GitConnection,
        Listing, Seed, Notifications, TLC

CONSTANTS x1, x2, x3, y1, y2

VARIABLE focus

Focuses == {"sessions", "wallet", "numbers", "amounts", "leave", "git", "lists",
            "seed", "sends", "digests"}

\* A pull request that is open for long and a leave that is near; and nothing yet.
OldPull ==
  [today |-> 4,
   work |-> [NoWork EXCEPT !.pulls = <<[state |-> "open", created |-> 2, merged |-> 0]>>],
   away |-> [l \in AwayEntry |-> IF l = 1 THEN "approved" ELSE "pending"]]
FirstDay == [today |-> 1, work |-> NoWork, away |-> [l \in AwayEntry |-> "pending"]]
Facts == {OldPull, FirstDay}

AccountsTypeOK ==
  /\ focus \in Focuses
  /\ TokenTypeOK
  /\ WalletTypeOK
  /\ NumberTypeOK
  /\ PatchTypeOK
  /\ LeaveTypeOK
  /\ GitTypeOK
  /\ ListingTypeOK
  /\ focus = "seed" => SeedTypeOK
  /\ NotificationTypeOK

\* The tables of the demo are left empty out of focus.
NoSeed ==
  /\ db = {} /\ run = {} /\ at = 0 /\ seeding = "idle" /\ since = {} /\ lived = FALSE
  /\ seeds = 0

\* The invoice's first discount, the evidence and the mail server are left open only
\* where they matter; test sends are made of one body of evidence.
AccountsInit ==
  /\ focus \in Focuses
  /\ TokenInit
  /\ WalletInit
  /\ NumberInit
  /\ PatchInit
  /\ focus # "amounts" => money.discount = 2
  /\ LeaveInit
  /\ GitInit
  /\ ListingInit
  /\ IF focus = "seed" THEN SeedInit ELSE NoSeed
  /\ NotificationInit
  /\ (focus = "sends") <=> (today = OldPull.today)
  /\ focus # "sends" => smtp

AccountsNext ==
  \/ /\ focus = "sessions"
     /\ TokenNext
     /\ UNCHANGED <<focus, walletVars, numberVars, patchVars, leaveVars,
                    gitVars, listingVars, seedVars, notificationVars>>
  \/ /\ focus = "wallet"
     /\ WalletNext
     /\ UNCHANGED <<focus, tokenVars, numberVars, patchVars, leaveVars,
                    gitVars, listingVars, seedVars, notificationVars>>
  \/ /\ focus = "numbers"
     /\ NumberNext
     /\ UNCHANGED <<focus, tokenVars, walletVars, patchVars, leaveVars,
                    gitVars, listingVars, seedVars, notificationVars>>
  \/ /\ focus = "amounts"
     /\ PatchNext
     /\ UNCHANGED <<focus, tokenVars, walletVars, numberVars, leaveVars,
                    gitVars, listingVars, seedVars, notificationVars>>
  \/ /\ focus = "leave"
     /\ LeaveNext
     /\ UNCHANGED <<focus, tokenVars, walletVars, numberVars, patchVars,
                    gitVars, listingVars, seedVars, notificationVars>>
  \/ /\ focus = "git"
     /\ GitNext
     /\ UNCHANGED <<focus, tokenVars, walletVars, numberVars, patchVars,
                    leaveVars, listingVars, seedVars, notificationVars>>
  \/ /\ focus = "lists"
     /\ ListingNext
     /\ UNCHANGED <<focus, tokenVars, walletVars, numberVars, patchVars,
                    leaveVars, gitVars, seedVars, notificationVars>>
  \/ /\ focus = "seed"
     /\ SeedNext
     /\ UNCHANGED <<focus, tokenVars, walletVars, numberVars, patchVars,
                    leaveVars, gitVars, listingVars, notificationVars>>
  \/ /\ focus = "sends"
     /\ SendNext
     /\ UNCHANGED <<focus, tokenVars, walletVars, numberVars, patchVars,
                    leaveVars, gitVars, listingVars, seedVars>>
  \/ /\ focus = "digests"
     /\ DigestNext
     /\ UNCHANGED <<focus, tokenVars, walletVars, numberVars, patchVars,
                    leaveVars, gitVars, listingVars, seedVars>>

AccountsSpec ==
  /\ AccountsInit
  /\ [][AccountsNext]_<<focus, tokenVars, walletVars, numberVars, patchVars,
                        leaveVars, gitVars, listingVars, seedVars,
                        notificationVars>>

\* Two leave requests from one year, one of which reaches into the next.
LeaveDays == y1 :> (1 :> 1 @@ 2 :> 0) @@ y2 :> (1 :> 1 @@ 2 :> 1)
LeaveStart == y1 :> 1 @@ y2 :> 1

\* Patches that set the status, the discount (a negative one is not refused), a
\* tax, a rate, or the status and a discount.
NoAsk == [status |-> {}, discount |-> {}, tax |-> {}, rate |-> {}]
Asks ==
  {NoAsk} \cup {[NoAsk EXCEPT !.status = {s}] : s \in {"sent"}}
          \cup {[NoAsk EXCEPT !.discount = {d}] : d \in {-1, 2, 4}}
          \cup {[NoAsk EXCEPT !.tax = {1}], [NoAsk EXCEPT !.rate = {50}],
                [NoAsk EXCEPT !.status = {"sent"}, !.discount = {1}]}

Created == {-1, 2}

\* What seed draws on two days of the week, the last of a year and the first of the next.
DaysOf(last, next) == <<"ann", 1>> :> last @@ <<"ann", 2>> :> next
Mon ==
  [year |-> 1, approved |-> DaysOf(2, 0), pending |-> DaysOf(0, 1),
   commits |-> {"a", "b"},
   prs |-> <<[repo |-> "web", merged |-> 1, estimated |-> TRUE],
             [repo |-> "api", merged |-> 2, estimated |-> FALSE]>>,
   issues |-> <<"native", "github">>, deployments |-> <<"github_actions">>,
   incidents |-> 1]
Tue ==
  [year |-> 2, approved |-> DaysOf(1, 1), pending |-> DaysOf(0, 0),
   commits |-> {"a", "c"},
   prs |-> <<[repo |-> "web", merged |-> 0, estimated |-> TRUE],
             [repo |-> "web", merged |-> 2, estimated |-> TRUE]>>,
   issues |-> <<"github", "gitlab">>, deployments |-> <<"gitlab_ci">>,
   incidents |-> 0]
DrawnOn == "mon" :> Mon @@ "tue" :> Tue

\* Two leaves of one person, of which one spans two weeks.
LeaveBy == 1 :> "a" @@ 2 :> "a"
LeaveFrom == 1 :> 4 @@ 2 :> 2
LeaveTo == 1 :> 5 @@ 2 :> 3
Asked == {{"ooo"}, {"stalePRs", "ooo"}}

\* A digest reads the work or the leaves, never both.
OneSource ==
  focus = "digests" => (work = NoWork \/ \A l \in AwayEntry : away[l] = "pending")

Alikes == Permutations({x1, x2, x3})
=============================================================================
